---------------------------- MODULE CaseGrouping ----------------------------
(***************************************************************************)
(* Detections grouped into cases on the management server: the cron        *)
(* app/api/cron/group-detections with the heuristic of lib/case-grouping,  *)
(* and the narrative an analyst asks for (app/api/cases/[id]/narrative/    *)
(* regenerate), whose staleness GET /api/cases/[id] derives.               *)
(*                                                                         *)
(* One tenant.  An invocation of the cron is one database transaction      *)
(* guarded by an advisory lock: it sees what was committed when it reads,  *)
(* and what it writes is seen when it commits.  Cases are never closed:    *)
(* no route does it.                                                       *)
(***************************************************************************)
EXTENDS Integers, FiniteSets, FiniteSetsExt, Sequences, SequencesExt

CONSTANTS
    Agents,
    Techniques,     \* <<base, sub>>
    Severities,     \* the ranks of SEVERITY_RANK
    Times,          \* detection timestamps
    Window,         \* GROUPING_TIME_WINDOW_MS
    Batch,          \* GROUPING_BATCH_SIZE
    Invocations,    \* cron invocations that may overlap
    MaxDetections,  \* bound: detections ingested
    MaxAborts,      \* bound: transactions that time out
    MaxNarratives   \* bound: narratives generated

VARIABLES
    dets,       \* the detections, by id; case 0 is caseId: null
    cases,      \* the cases, by id: severity, and (history) the time of the
                \* detection each was opened for
    inv,        \* the cron invocations
    lock,       \* is the tenant's advisory lock taken?
    narr,       \* case -> its latest narrative
    gen,        \* the narrative being generated
    aborts, generated

vars == <<dets, cases, inv, lock, narr, gen, aborts, generated>>

Idle == [pc |-> "idle"]
Members(c) == {d \in DOMAIN dets : dets[d].case = c}
Ungrouped == {d \in DOMAIN dets : dets[d].case = 0}
TimesOf(ds) == {dets[d].time : d \in ds}
-----------------------------------------------------------------------------
\* The insert of POST /api/ingest/detection.
Ingest(a, t, k, s) ==
    /\ Len(dets) < MaxDetections
    /\ dets' = Append(dets, [agent |-> a, time |-> t, tech |-> k, sev |-> s, case |-> 0])
    /\ UNCHANGED <<cases, inv, lock, narr, gen, aborts, generated>>

\* Mutant: without the advisory lock.
TakeLock_Always(i) ==
    /\ inv[i] = Idle
    /\ lock' = TRUE
    /\ inv' = [inv EXCEPT ![i] = [pc |-> "locked"]]
    /\ UNCHANGED <<dets, cases, narr, gen, aborts, generated>>

\* pg_try_advisory_xact_lock; an invocation that does not get it skips the tenant.
TakeLock(i) ==
    /\ inv[i] = Idle /\ ~lock
    /\ lock' = TRUE
    /\ inv' = [inv EXCEPT ![i] = [pc |-> "locked"]]
    /\ UNCHANGED <<dets, cases, narr, gen, aborts, generated>>

SkipTenant(i) == inv[i] = Idle /\ lock /\ UNCHANGED vars

OldestFirst(ds) == SetToSortSeq(ds, LAMBDA d, e : \/ dets[d].time < dets[e].time
                                                  \/ dets[d].time = dets[e].time /\ d < e)

ReadUngrouped(i) ==
    /\ inv[i].pc = "locked"
    /\ LET all == OldestFirst(Ungrouped)
           batch == SubSeq(all, 1, Min({Batch, Len(all)}))
       IN IF batch = <<>>
          THEN /\ inv' = [inv EXCEPT ![i] = Idle]
               /\ lock' = FALSE
          ELSE /\ inv' = [inv EXCEPT ![i] = [pc |-> "read", batch |-> batch]]
               /\ UNCHANGED lock
    /\ UNCHANGED <<dets, cases, narr, gen, aborts, generated>>

isRelatedTechnique(a, b) == a[1] = b[1]
withinTimeWindow(a, b) == Max({a - b, b - a}) <= Window

\* Mutant: the window is counted from the newest detection of the case.
Matches_Newest(c, d) ==
    /\ c.members # {}
    /\ \E m \in c.members : /\ dets[m].agent = dets[d].agent
                            /\ isRelatedTechnique(dets[m].tech, dets[d].tech)
    /\ withinTimeWindow(Max(TimesOf(c.members)), dets[d].time)

Matches(c, d) ==
    /\ c.members # {}
    /\ \E m \in c.members : /\ dets[m].agent = dets[d].agent
                            /\ isRelatedTechnique(dets[m].tech, dets[d].tech)
    /\ withinTimeWindow(Min(TimesOf(c.members)), dets[d].time)

Attach(c, d) == [c EXCEPT !.members = @ \union {d}, !.sev = Max({@, dets[d].sev})]

\* One detection of the batch: the first open case that matches, or a new one.
Place(open, d) ==
    LET hits == {k \in DOMAIN open : Matches(open[k], d)} IN
    IF hits # {} THEN [open EXCEPT ![Min(hits)] = Attach(@, d)]
    ELSE Append(open, [id |-> 0, sev |-> dets[d].sev, opened |-> dets[d].time, members |-> {d}])

\* The open cases are read and the batch is placed; the writes wait for the commit.
GroupBatch(i) ==
    /\ inv[i].pc = "read"
    /\ LET open == [c \in DOMAIN cases |-> [id |-> c, sev |-> cases[c].sev, opened |-> cases[c].opened,
                                              members |-> Members(c)]]
       IN inv' = [inv EXCEPT ![i] = [pc |-> "grouped", batch |-> @.batch,
                                     open |-> FoldLeft(Place, open, @.batch)]]
    /\ UNCHANGED <<dets, cases, lock, narr, gen, aborts, generated>>

\* New cases get the ids after the existing ones.
CaseId(open, k) ==
    IF open[k].id # 0 THEN open[k].id
    ELSE Len(cases) + Cardinality({j \in 1 .. k : open[j].id = 0})

Commit(i) ==
    /\ inv[i].pc = "grouped"
    /\ LET open == inv[i].open
           target(d) == CaseId(open, CHOOSE k \in DOMAIN open : d \in open[k].members)
           new == {k \in DOMAIN open : open[k].id = 0}
       IN /\ dets' = [d \in DOMAIN dets |->
                        IF d \in Range(inv[i].batch) THEN [dets[d] EXCEPT !.case = target(d)]
                        ELSE dets[d]]
          /\ cases' = [c \in 1 .. Len(cases) + Cardinality(new) |->
                         IF \E k \in DOMAIN open : CaseId(open, k) = c
                         THEN LET o == open[CHOOSE k \in DOMAIN open : CaseId(open, k) = c]
                              IN [sev |-> o.sev, opened |-> o.opened]
                         ELSE cases[c]]
    /\ inv' = [inv EXCEPT ![i] = Idle]
    /\ lock' = FALSE
    /\ UNCHANGED <<narr, gen, aborts, generated>>

\* Mutant: a lock of the session outlives the transaction.
Abort_KeepsLock(i) ==
    /\ inv[i] # Idle /\ aborts < MaxAborts
    /\ inv' = [inv EXCEPT ![i] = Idle]
    /\ aborts' = aborts + 1
    /\ UNCHANGED <<dets, cases, lock, narr, gen, generated>>

\* The transaction times out: nothing is written, the lock goes with it.
Abort(i) ==
    /\ inv[i] # Idle /\ aborts < MaxAborts
    /\ inv' = [inv EXCEPT ![i] = Idle]
    /\ lock' = FALSE
    /\ aborts' = aborts + 1
    /\ UNCHANGED <<dets, cases, narr, gen, generated>>
-----------------------------------------------------------------------------
\* buildEvidenceGraph; a case without evidence is refused (400).
ReadEvidence(c) ==
    /\ gen = Idle /\ generated < MaxNarratives /\ Members(c) # {}
    /\ gen' = [pc |-> "asked", case |-> c, items |-> Members(c)]
    /\ generated' = generated + 1
    /\ UNCHANGED <<dets, cases, inv, lock, narr, aborts>>

\* Detections whose updatedAt is set by now: those of the case, and those an
\* invocation has written to it and not committed.
Stamped(c) ==
    Members(c) \union
    UNION {UNION {inv[i].open[k].members : k \in {j \in DOMAIN inv[i].open : inv[i].open[j].id = c}} :
             i \in {j \in Invocations : inv[j].pc = "grouped"}}

\* The model answered: the narrative is stored, generatedAt is now.
StoreNarrative ==
    /\ gen # Idle
    /\ narr' = [c \in DOMAIN narr \union {gen.case} |->
                  IF c = gen.case THEN [items |-> gen.items, before |-> Stamped(c)] ELSE narr[c]]
    /\ gen' = Idle
    /\ UNCHANGED <<dets, cases, inv, lock, aborts, generated>>

NarrativeFails ==
    /\ gen # Idle
    /\ gen' = Idle
    /\ UNCHANGED <<dets, cases, inv, lock, narr, aborts, generated>>

\* GET /api/cases/[id]: a member was updated after generatedAt.
Stale(c) == Members(c) \ narr[c].before # {}
-----------------------------------------------------------------------------
Init ==
    /\ dets = <<>> /\ cases = <<>>
    /\ inv = [i \in Invocations |-> Idle] /\ lock = FALSE
    /\ narr = <<>> /\ gen = Idle
    /\ aborts = 0 /\ generated = 0

Sweep(i) == TakeLock(i) \/ ReadUngrouped(i) \/ GroupBatch(i) \/ Commit(i)

Next ==
    \/ \E a \in Agents, t \in Times, k \in Techniques, s \in Severities : Ingest(a, t, k, s)
    \/ \E i \in Invocations : Sweep(i) \/ SkipTenant(i) \/ Abort(i)
    \/ \E c \in DOMAIN cases : ReadEvidence(c)
    \/ StoreNarrative \/ NarrativeFails

\* The scheduler invokes the cron again and again, and a transaction runs on.
Spec == Init /\ [][Next]_vars /\ WF_vars(\E i \in Invocations : Sweep(i))
-----------------------------------------------------------------------------
\* A detection is grouped once: no invocation moves it out of the case another
\* one put it in ("re-running only ever touches detections still at caseId: null").
GroupedOnce == [][\A d \in DOMAIN dets : dets[d].case # 0 => dets'[d].case = dets[d].case]_vars

\* A case is about one agent and one base technique, however many detections
\* were chained onto it.  Its window does not drift forward: whatever order
\* detections arrive in and whatever invocations of the cron overlap or time
\* out, none is later than a window after the one the case was opened for.
\* Backwards, where late arrivals move its start, it grows without a gap larger
\* than the window.
CaseIsOneStory ==
    /\ \A d, e \in DOMAIN dets :
         dets[d].case = dets[e].case /\ dets[d].case # 0 =>
            dets[d].agent = dets[e].agent /\ isRelatedTechnique(dets[d].tech, dets[e].tech)
    /\ \A c \in DOMAIN cases :
         /\ \A t \in TimesOf(Members(c)) : t <= cases[c].opened + Window
         /\ \A t \in TimesOf(Members(c)) :
              t # Min(TimesOf(Members(c))) => \E u \in TimesOf(Members(c)) : u < t /\ t - u <= Window

\* A narrative that is not marked stale tells about every detection of its case.
FreshNarrativeIsComplete == \A c \in DOMAIN narr : ~Stale(c) => narr[c].items = Members(c)

\* Every detection ends up in a case.
EverythingGrouped == \A d \in 1 .. MaxDetections : (d \in DOMAIN dets) ~> (d \notin Ungrouped)
=============================================================================
