---------------------------- MODULE ContentApply ----------------------------
(***************************************************************************)
(* Content reaching one agent: `agent apply-content-manifest` (agent/src/  *)
(* content.rs) fetching what its ring offers (RingRollout), writing the    *)
(* artifacts and its own record of them, and the running agent reloading   *)
(* what is on disk (agent/src/sink.rs reload_content).                     *)
(*                                                                         *)
(* The artifacts and the state file are each written atomically, but apart *)
(* from each other, and the artifact route checks every download against   *)
(* the manifest active at that moment.                                     *)
(***************************************************************************)
EXTENDS RingRollout

CONSTANTS
    Paths,          \* artifact paths
    YaraPaths,      \* those under yara_rules/; the others are Sigma rules
    Hashes,         \* their possible contents, positive; Contents \subseteq [Paths -> Listed]
    Bad,            \* contents that do not compile as a rule
    Appliers,       \* apply-content-manifest processes
    MaxFaults,      \* bound: failed downloads, dead appliers
    MaxMoves        \* bound: times the agent is put in another ring

ASSUME ContentAssumption ==
    /\ Hashes \subseteq Nat \ {0} /\ Bad \subseteq Hashes /\ YaraPaths \subseteq Paths
    /\ Contents \subseteq [Paths -> Hashes \union {0}]
    /\ MaxFaults \in Nat /\ MaxMoves \in Nat

VARIABLES
    assigned,   \* the ring the server has the agent in
    configured, \* updates.ring in agent.toml
    disk,       \* path -> hash under content_dir, 0 for no file
    st,         \* the ContentState file
    ap,         \* the appliers
    up,         \* is `agent run` up?
    engine,     \* the rules each engine detects with, Off if it has none
                \* (while the agent is down, what it last detected with)
    faults, moves,
    cut,        \* history: has an apply died between an artifact and its record?
    missed,     \* history: has a notification been lost, and none heard since?
    writer      \* history: the ring whose apply last wrote an artifact

past == <<cut, missed, writer>>
applyVars == <<assigned, configured, disk, st, ap, up, engine, faults, moves, past>>
vars == <<rolloutVars, applyVars>>

Absent == 0
NoFiles == [p \in Paths |-> Absent]
Engines == {"sigma", "yara"}
Off == [on |-> FALSE, rules |-> {}]
Ready == [pc |-> "ready"]
Running(x) == ap[x].pc \in {"fetched", "write", "record", "notify"}

\* Every entry of c is on disk as the manifest lists it.
OnDisk(c) == \A p \in Paths : c[p] # Absent => disk[p] = c[p]
-----------------------------------------------------------------------------
\* GET /api/content/manifest/{ring}: only for the ring the agent is in (403).
FetchManifest(x) ==
    /\ ~Running(x) /\ assigned = configured /\ Offered(configured) # None
    /\ LET v == Offered(configured) IN
       ap' = [ap EXCEPT ![x] = [pc |-> "fetched", ring |-> configured, version |-> v,
                                content |-> rows[configured][v].content]]
    /\ UNCHANGED <<assigned, configured, disk, st, up, engine, faults, moves, past>>

check_release_version(version, current) == version > current

entries_to_fetch(content, have) == {p \in Paths : content[p] \notin {Absent, have[p]}}

\* Mutant: with nothing left to fetch the command ends as up to date.
Plan_NothingLeft(x) ==
    /\ ap[x].pc = "fetched"
    /\ ap' = [ap EXCEPT ![x] =
                IF /\ check_release_version(@.version, st.version[@.ring])
                   /\ entries_to_fetch(@.content, st.entries) # {}
                THEN [pc |-> "write", ring |-> @.ring, version |-> @.version, content |-> @.content,
                      st |-> st, todo |-> entries_to_fetch(@.content, st.entries)]
                ELSE [pc |-> "uptodate"]]
    /\ UNCHANGED <<assigned, configured, disk, st, up, engine, faults, moves, past>>

\* Mutant: what is recorded is compared by path alone.
Plan_ByPath(x) ==
    /\ ap[x].pc = "fetched"
    /\ ap' = [ap EXCEPT ![x] =
                IF check_release_version(@.version, st.version[@.ring])
                THEN [pc |-> "write", ring |-> @.ring, version |-> @.version, content |-> @.content,
                      st |-> st,
                      todo |-> {p \in Paths : ap[x].content[p] # Absent /\ st.entries[p] = Absent}]
                ELSE [pc |-> "uptodate"]]
    /\ UNCHANGED <<assigned, configured, disk, st, up, engine, faults, moves, past>>

\* ContentState::load and plan; ReleaseNotNewer ends the command as up to date.
Plan(x) ==
    /\ ap[x].pc = "fetched"
    /\ ap' = [ap EXCEPT ![x] =
                IF check_release_version(@.version, st.version[@.ring])
                THEN [pc |-> "write", ring |-> @.ring, version |-> @.version, content |-> @.content,
                      st |-> st, todo |-> entries_to_fetch(@.content, st.entries)]
                ELSE [pc |-> "uptodate"]]
    /\ UNCHANGED <<assigned, configured, disk, st, up, engine, faults, moves, past>>

\* GET /api/content/artifact serves what the active manifest lists, now.
Serves(x, p) ==
    /\ assigned = ap[x].ring /\ Offered(ap[x].ring) # None
    /\ rows[ap[x].ring][Offered(ap[x].ring)].content[p] = ap[x].content[p]

WriteArtifact(x, p) ==
    /\ ap[x].pc = "write" /\ p \in ap[x].todo /\ Serves(x, p)
    /\ disk' = [disk EXCEPT ![p] = ap[x].content[p]]
    /\ ap' = [ap EXCEPT ![x].pc = "record", ![x].todo = @ \ {p},
                        ![x].st.entries[p] = ap[x].content[p]]
    /\ writer' = ap[x].ring
    /\ UNCHANGED <<assigned, configured, st, up, engine, faults, moves, cut, missed>>

WriteState(x) ==
    /\ ap[x].pc = "record"
    /\ st' = ap[x].st
    /\ ap' = [ap EXCEPT ![x].pc = "write"]
    /\ UNCHANGED <<assigned, configured, disk, up, engine, faults, moves, past>>

\* Mutant: one counter for all the rings.
WriteVersion_Shared(x) ==
    /\ ap[x].pc = "write" /\ ap[x].todo = {}
    /\ st' = [ap[x].st EXCEPT !.version = [r \in Rings |-> ap[x].version]]
    /\ ap' = [ap EXCEPT ![x].pc = "notify"]
    /\ UNCHANGED <<assigned, configured, disk, up, engine, faults, moves, past>>

WriteVersion(x) ==
    /\ ap[x].pc = "write" /\ ap[x].todo = {}
    /\ st' = [ap[x].st EXCEPT !.version[ap[x].ring] = ap[x].version]
    /\ ap' = [ap EXCEPT ![x].pc = "notify"]
    /\ UNCHANGED <<assigned, configured, disk, up, engine, faults, moves, past>>

\* A download that cannot succeed (409: not in the active manifest) ends the
\* command; so does one that fails for a reason of its own.
DownloadRefused(x) ==
    /\ ap[x].pc = "write" /\ \E p \in ap[x].todo : ~Serves(x, p)
    /\ ap' = [ap EXCEPT ![x] = Ready]
    /\ UNCHANGED <<assigned, configured, disk, st, up, engine, faults, moves, past>>

DownloadFails(x) ==
    /\ ap[x].pc = "write" /\ ap[x].todo # {} /\ faults < MaxFaults
    /\ ap' = [ap EXCEPT ![x] = Ready]
    /\ faults' = faults + 1
    /\ UNCHANGED <<assigned, configured, disk, st, up, engine, moves, past>>

\* The process is killed, the host goes down, a state write or the signal fails.
ApplyDies(x) ==
    /\ Running(x) /\ faults < MaxFaults
    /\ ap' = [ap EXCEPT ![x] = Ready]
    /\ faults' = faults + 1
    /\ cut' = (cut \/ ap[x].pc = "record")
    /\ missed' = (missed \/ ap[x].pc = "notify")
    /\ UNCHANGED <<assigned, configured, disk, st, up, engine, moves, writer>>
-----------------------------------------------------------------------------
\* load_sigma_rules and start_yara.  A directory that is not there loads
\* nothing.  Sigma skips the rules that do not compile, and may be left with
\* none; YARA compiles its set whole or not at all, and then kept is what the
\* slot holds.
Load(e, kept) ==
    LET files == {p \in Paths : disk[p] # Absent /\ (p \in YaraPaths <=> e = "yara")}
        good == {p \in files : disk[p] \notin Bad}
    IN CASE files = {} -> Off
         [] files # {} /\ e = "yara" /\ good # files -> kept
         [] OTHER -> [on |-> TRUE, rules |-> {<<p, disk[p]>> : p \in good}]

\* Content that fails to load keeps the engine that runs.
reload_content == engine' = [e \in Engines |-> Load(e, engine[e])]

\* notify_running_agent: best effort.
Notify(x) ==
    /\ ap[x].pc = "notify"
    /\ ap' = [ap EXCEPT ![x] = Ready]
    /\ IF up THEN reload_content /\ missed' = FALSE ELSE UNCHANGED <<engine, missed>>
    /\ UNCHANGED <<assigned, configured, disk, st, up, faults, moves, cut, writer>>

AgentStops ==
    /\ up
    /\ up' = FALSE
    /\ UNCHANGED <<assigned, configured, disk, st, ap, engine, faults, moves, past>>

\* At startup an engine that cannot load is left off.
AgentStarts ==
    /\ ~up
    /\ up' = TRUE /\ engine' = [e \in Engines |-> Load(e, Off)] /\ missed' = FALSE
    /\ UNCHANGED <<assigned, configured, disk, st, ap, faults, moves, cut, writer>>

\* POST /api/agents/{id}/ring, and the operator's edit of agent.toml.
Reassign(r) ==
    /\ moves < MaxMoves /\ r # assigned
    /\ assigned' = r /\ moves' = moves + 1
    /\ UNCHANGED <<configured, disk, st, ap, up, engine, faults, past>>

Reconfigure ==
    /\ configured # assigned
    /\ configured' = assigned
    /\ UNCHANGED <<assigned, disk, st, ap, up, engine, faults, moves, past>>
-----------------------------------------------------------------------------
Init ==
    /\ RolloutInit
    /\ assigned \in Rings /\ configured = assigned
    /\ disk = NoFiles
    /\ st = [version |-> [r \in Rings |-> None], entries |-> NoFiles]
    /\ ap = [x \in Appliers |-> Ready]
    /\ up = TRUE /\ engine = [e \in Engines |-> Off]
    /\ faults = 0 /\ moves = 0
    /\ cut = FALSE /\ missed = FALSE /\ writer = assigned

\* What a started apply-content-manifest does until it ends.
Continue(x) ==
    \/ Plan(x) \/ WriteState(x) \/ WriteVersion(x)
    \/ DownloadRefused(x) \/ Notify(x)
    \/ \E p \in Paths : WriteArtifact(x, p)

ApplyNext ==
    \/ \E x \in Appliers : FetchManifest(x) \/ Continue(x) \/ DownloadFails(x) \/ ApplyDies(x)
    \/ AgentStops \/ AgentStarts \/ Reconfigure
    \/ \E r \in Rings : Reassign(r)

Next ==
    \/ RolloutNext /\ UNCHANGED applyVars
    \/ ApplyNext /\ UNCHANGED rolloutVars

Spec == Init /\ [][Next]_vars

\* A process that was started goes on, and a stopped agent is started again
\* (its service manager).  Nothing starts the command: ADR-0016 says that
\* nothing runs it periodically.
Fairness ==
    /\ \A x \in Appliers : WF_vars(Continue(x) /\ UNCHANGED rolloutVars)
    /\ WF_vars(AgentStarts /\ UNCHANGED rolloutVars)

FairSpec == Spec /\ Fairness
-----------------------------------------------------------------------------
\* When a release is recorded as applied, every artifact it lists is on disk
\* with the listed hash, wherever earlier applies ended and whatever the ring
\* went back to, unless one was cut short between an artifact and its record.
RecordedReleaseOnDisk ==
    [][\A x \in Appliers :
         ap[x].pc = "write" /\ ap'[x].pc = "notify" =>
           OnDisk(ap[x].content) \/ cut]_vars

\* The command is run again and again, by an operator or the site's scheduler.
RunAgain == \A x \in Appliers : []<><<FetchManifest(x) /\ UNCHANGED rolloutVars>>_vars

\* The agent came back to ring r, whose release it had recorded, after another
\* ring's apply wrote over its files.
CameBack(r) == st.version[r] = Offered(r) /\ writer # r

\* Ring r offers c, and the agent is in it by the server and by agent.toml.
InRing(r, c) ==
    /\ assigned = r /\ configured = r /\ Offered(r) # None
    /\ rows[r][Offered(r)].content = c

\* r offers its newest release, and nothing hides from the agent that it is new.
Reachable(r, c) == InRing(r, c) /\ Offered(r) = Len(rows[r]) /\ ~CameBack(r)

\* A ring that in the end offers its newest release has that release's content
\* on its agent's disk in the end, if the command is run again and again:
\* whatever was halted or rolled back before, wherever applies stopped, and
\* whichever ring the agent was in.  There are two exceptions.  The agent came
\* back to a ring whose release it had recorded before: its plan says up to
\* date while the other ring's files are on disk.  An apply died between an
\* artifact and its record.
RolloutReaches ==
    RunAgain => \A r \in Rings, c \in Contents :
                  <>[](Reachable(r, c) /\ ~cut) => <>[]OnDisk(c)

\* In the end the running agent detects with what is on its disk: one more
\* reload would change neither engine.  This holds although the one signal is
\* sent last, after applies that stopped half way and applies that found
\* nothing left to fetch, unless that signal itself was lost: a later run finds
\* itself up to date and sends none.
EnginesFollow ==
    RunAgain => \A r \in Rings, c \in Contents :
                  <>[](Reachable(r, c) /\ ~missed)
                    => <>[](up => \A e \in Engines : engine[e] = Load(e, engine[e]))

\* The same for a ring that was rolled back: "Agents poll server for
\* `ring -> release_version` mapping, fetch rolled-back manifest" (ADR-0016).
RollbackReaches ==
    RunAgain => \A r \in Rings, c \in Contents :
                  <>[](InRing(r, c) /\ ~CameBack(r) /\ ~cut) => <>[]OnDisk(c)

=============================================================================
