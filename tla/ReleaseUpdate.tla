--------------------------- MODULE ReleaseUpdate ---------------------------
(***************************************************************************)
(* Binary self-update on Linux: `agent apply-release` stages and promotes  *)
(* a release (agent/src/release.rs), the watchdog started from it puts it  *)
(* on probation and proves it or rolls it back (watchdog/src/probation.rs, *)
(* supervise.rs), both on the directory layout of crates/updater.          *)
(*                                                                         *)
(* The two are separate processes on one directory and every file          *)
(* operation is a step, so they interleave and the host may crash between  *)
(* any two.  Release 0 is bootstrap, which nothing writes.                 *)
(***************************************************************************)
EXTENDS Integers, FiniteSets, FiniteSetsExt, Functions

CONSTANTS
    Versions,   \* the releases the server may offer
    Bad,        \* those whose agent never makes progress
    Files,      \* the entries of every release manifest
    Overlap,    \* may apply-release work while a rollback is under way?
    MaxCrashes, \* bound: host crashes explored
    MaxFaults   \* bound: file operations of the watchdog that fail

ASSUME ReleaseAssumption ==
    /\ Versions \subseteq Nat \ {0} /\ Bad \subseteq Versions
    /\ IsFiniteSet(Files) /\ Files # {}
    /\ Overlap \in BOOLEAN
    /\ MaxCrashes \in Nat /\ MaxFaults \in Nat

VARIABLES
    current,    \* the release the `current` symlink names
    tree,       \* installed release -> its files that are there
    healthy,    \* releases with a .healthy marker
    manifest,   \* release -> "ok" or "torn": its manifest.json
    stage,      \* .stage-N directories: release -> files fetched
    bans,       \* the releases banned_versions.json was last saved with
    torn,       \* is banned_versions.json cut short?
    upc, offer, fetched,        \* the apply-release process
    wpc, running, probation,    \* the watchdog process
    stale,      \* the heartbeat file holds a count other than 0, of an agent past or present
    proven,     \* history: the last release to pass its health check
    kept,       \* history: releases without progress kept nonetheless, with the reason
    crashes, faults

layout == <<current, tree, healthy, manifest, stage, bans, torn>>
updaterVars == <<upc, offer, fetched>>
watchdogVars == <<wpc, running, probation>>
counters == <<stale, proven, kept, crashes, faults>>
vars == <<layout, updaterVars, watchdogVars, counters>>

bootstrap == 0
None == -1
NoProbation == [release |-> None, previous |-> None]
Installed == DOMAIN tree

\* rename or remove_dir_all makes a directory appear or disappear.
With(f, v, x) == [w \in DOMAIN f \union {v} |-> IF w = v THEN x ELSE f[w]]
Without(f, v) == Restrict(f, DOMAIN f \ {v})

rollback_target(release, banned) ==
    Max({bootstrap} \union {v \in Installed : v < release /\ v \notin banned /\ v \in healthy})

RollingBack == wpc \in {"swap", "load", "truncate", "write", "prune_failed"}
-----------------------------------------------------------------------------
(* apply_release.  Every early return leaves `current` alone and ends the   *)
(* process.                                                                 *)
Abort == upc' = "idle" /\ offer' = None /\ fetched' = FALSE

FetchManifest(v) ==
    /\ upc = "idle" /\ (Overlap \/ ~RollingBack)
    /\ offer' = v /\ upc' = "bans" /\ fetched' = FALSE
    /\ UNCHANGED <<layout, watchdogVars, counters>>

\* BannedVersions::load and check.
CheckBans ==
    /\ upc = "bans"
    /\ IF torn \/ offer \in bans THEN Abort
       ELSE upc' = "version" /\ UNCHANGED <<offer, fetched>>
    /\ UNCHANGED <<layout, watchdogVars, counters>>

\* Mutant: the anti-rollback check accepts an older release.
CheckVersion_AnyOther ==
    /\ upc = "version"
    /\ IF offer = current THEN Abort
       ELSE /\ upc' = IF offer \in Installed THEN "verify" ELSE "stage"
            /\ UNCHANGED <<offer, fetched>>
    /\ UNCHANGED <<layout, watchdogVars, counters>>

\* check_release_version against the active release; an installed directory
\* is taken as complete.
CheckVersion ==
    /\ upc = "version"
    /\ IF offer <= current THEN Abort
       ELSE /\ upc' = IF offer \in Installed THEN "verify" ELSE "stage"
            /\ UNCHANGED <<offer, fetched>>
    /\ UNCHANGED <<layout, watchdogVars, counters>>

\* stage: a leftover goes, then each file is fetched, then one rename.
StageBegin ==
    /\ upc = "stage"
    /\ stage' = With(stage, offer, {})
    /\ upc' = "fetch"
    /\ UNCHANGED <<current, tree, healthy, manifest, bans, torn, offer, fetched,
                   watchdogVars, counters>>

FetchFile(f) ==
    /\ upc = "fetch" /\ f \in Files \ stage[offer]
    /\ stage' = With(stage, offer, stage[offer] \union {f})
    /\ UNCHANGED <<current, tree, healthy, manifest, bans, torn, updaterVars,
                   watchdogVars, counters>>

\* A download, hash or write error: the staging directory is removed.
StageFails ==
    /\ upc = "fetch"
    /\ stage' = Without(stage, offer)
    /\ Abort
    /\ UNCHANGED <<current, tree, healthy, manifest, bans, torn, watchdogVars,
                   counters>>

\* Mutant: the rename does not wait for every file.
StageRename_Early ==
    /\ upc = "fetch"
    /\ tree' = With(tree, offer, stage[offer])
    /\ stage' = Without(stage, offer)
    /\ upc' = "relabel" /\ fetched' = TRUE
    /\ UNCHANGED <<current, healthy, manifest, bans, torn, offer, watchdogVars,
                   counters>>

StageRename ==
    /\ upc = "fetch" /\ stage[offer] = Files
    /\ tree' = With(tree, offer, stage[offer])
    /\ stage' = Without(stage, offer)
    /\ upc' = "verify" /\ fetched' = TRUE
    /\ UNCHANGED <<current, healthy, manifest, bans, torn, offer, watchdogVars,
                   counters>>

\* A staged release that fails a check is removed if this run fetched it.
RejectStaged ==
    /\ IF fetched THEN tree' = Without(tree, offer) /\ healthy' = healthy \ {offer}
                  ELSE UNCHANGED <<tree, healthy>>
    /\ Abort
    /\ UNCHANGED <<current, manifest, stage, bans, torn>>

\* verify_staged hashes every file from disk.
VerifyStaged ==
    /\ upc = "verify"
    /\ IF offer \in Installed /\ tree[offer] = Files
       THEN upc' = "relabel" /\ UNCHANGED <<layout, offer, fetched>>
       ELSE RejectStaged
    /\ UNCHANGED <<watchdogVars, counters>>

\* restore_selinux_labels succeeds, or fails under Enforcing.
Relabel ==
    /\ upc = "relabel"
    /\ \/ upc' = "persist" /\ UNCHANGED <<layout, offer, fetched>>
       \/ RejectStaged
    /\ UNCHANGED <<watchdogVars, counters>>

\* persist_manifest is a plain write: it truncates, then fills.
PersistBegin ==
    /\ upc = "persist"
    /\ IF offer \in Installed
       THEN /\ manifest' = With(manifest, offer, "torn")
            /\ upc' = "persisting" /\ UNCHANGED <<offer, fetched>>
       ELSE Abort /\ UNCHANGED manifest
    /\ UNCHANGED <<current, tree, healthy, stage, bans, torn, watchdogVars,
                   counters>>

PersistEnd ==
    /\ upc = "persisting"
    /\ manifest' = With(manifest, offer, "ok")
    /\ upc' = "promote"
    /\ UNCHANGED <<current, tree, healthy, stage, bans, torn, offer, fetched,
                   watchdogVars, counters>>

\* promote: the symlink is swapped by rename.
Promote ==
    /\ upc = "promote"
    /\ current' = offer
    /\ upc' = "restart"
    /\ UNCHANGED <<tree, healthy, manifest, stage, bans, torn, offer, fetched,
                   watchdogVars, counters>>

\* restart_service: systemctl stops the watchdog, which ends between two polls;
\* with --no-restart, or when systemctl fails, nothing happens.
RestartService ==
    /\ upc = "restart"
    /\ \/ wpc \in {"detect", "watch"} /\ wpc' = "down" /\ probation' = NoProbation
       \/ UNCHANGED <<wpc, probation>>
    /\ Abort
    /\ UNCHANGED <<layout, running, counters>>
-----------------------------------------------------------------------------
(* The watchdog.                                                            *)

\* The service manager executes current/watchdog.
Start ==
    /\ wpc = "down"
    /\ current = bootstrap \/ (current \in Installed /\ tree[current] = Files)
    /\ running' = current /\ wpc' = "detect"
    /\ UNCHANGED <<layout, updaterVars, probation, counters>>

\* Mutant: a release that passed is on probation again at the next start.
Detect_NoMarker ==
    /\ wpc = "detect"
    /\ wpc' = "watch"
    /\ probation' =
         IF running = bootstrap \/ current # running
         THEN NoProbation
         ELSE [release |-> running,
               previous |-> rollback_target(running, IF torn THEN {} ELSE bans)]
    /\ UNCHANGED <<layout, updaterVars, running, counters>>

\* Probation::detect; an unreadable ban list counts as empty.  A release whose
\* rollback failed gets a new probation from the next watchdog.
Detect ==
    /\ wpc = "detect"
    /\ wpc' = "watch"
    /\ probation' =
         IF running = bootstrap \/ running \in healthy \/ current # running
         THEN NoProbation
         ELSE [release |-> running,
               previous |-> rollback_target(running, IF torn THEN {} ELSE bans)]
    /\ kept' = IF probation' = NoProbation THEN kept
               ELSE {k \in kept : k[1] # running}
    /\ UNCHANGED <<layout, updaterVars, running, stale, proven, crashes, faults>>

OnProbation == wpc = "watch" /\ probation # NoProbation

\* One more file operation of the watchdog fails.
Fault == faults < MaxFaults /\ faults' = faults + 1

\* heartbeat::write_once, and what it leaves for the next agent's monitor: the
\* agent of a release that works counts events, that of a bad one writes 0.
WriteBeat ==
    /\ wpc = "watch"
    /\ stale' = (running \notin Bad)
    /\ UNCHANGED <<layout, updaterVars, watchdogVars, proven, kept, crashes, faults>>

\* Mutant: any heartbeat file proves the release, progress or not.
Prove_NoProgress ==
    /\ OnProbation /\ probation.release \in Installed
    /\ healthy' = healthy \union {probation.release}
    /\ proven' = probation.release
    /\ wpc' = "prune"
    /\ UNCHANGED <<current, tree, manifest, stage, bans, torn, updaterVars,
                   running, probation, stale, kept, crashes, faults>>

\* The heartbeat moved.  A release that works shows progress; a bad one only
\* seems to, when the monitor read the count an earlier agent left before the new
\* agent's first 0 replaced it.
progressed ==
    \/ probation.release \notin Bad /\ UNCHANGED <<stale, kept>>
    \/ /\ probation.release \in Bad /\ stale
       /\ stale' = FALSE
       /\ kept' = kept \union {<<probation.release, "stale count">>}

\* Verdict::Proven: prove writes the marker.
Prove ==
    /\ OnProbation /\ probation.release \in Installed /\ progressed
    /\ healthy' = healthy \union {probation.release}
    /\ proven' = probation.release
    /\ wpc' = "prune"
    /\ UNCHANGED <<current, tree, manifest, stage, bans, torn, updaterVars,
                   running, probation, crashes, faults>>

\* "is healthy but could not be recorded": probation ends without a marker.
ProveFails ==
    /\ OnProbation /\ progressed
    /\ IF probation.release \in Installed THEN Fault ELSE UNCHANGED faults
    /\ probation' = NoProbation
    /\ UNCHANGED <<layout, updaterVars, wpc, running, proven, crashes>>

\* What is left of a directory by remove_dir_all, complete or cut short by an
\* error or a crash: nothing, or some files with or without the marker.
Pruned(v) ==
    \/ tree' = Without(tree, v) /\ healthy' = healthy \ {v}
    \/ \E rest \in SUBSET tree[v] \ {Files} :
         /\ tree' = With(tree, v, rest)
         /\ healthy' \in {healthy, healthy \ {v}}

keep_from == IF probation.previous = bootstrap THEN probation.release ELSE probation.previous

\* The prune loop of prove, then the end of probation.  A removal that stops
\* half way is retried when the next release is proven.
PruneOld ==
    /\ wpc = "prune"
    /\ LET old == {v \in Installed : v < keep_from} IN
       IF old = {} THEN UNCHANGED <<tree, healthy>>
       ELSE \/ tree' = Restrict(tree, Installed \ old) /\ healthy' = healthy \ old
            \/ \E v \in old : Pruned(v)
    /\ wpc' = "watch" /\ probation' = NoProbation
    /\ UNCHANGED <<current, manifest, stage, bans, torn, updaterVars, running,
                   counters>>

\* Verdict::Failed: roll_back does nothing once `current` has moved on, and
\* the watchdog exits either way.
RollBack ==
    /\ OnProbation /\ (Overlap \/ upc = "idle")
    /\ IF current = probation.release
       THEN wpc' = "swap" /\ UNCHANGED probation
       ELSE wpc' = "down" /\ probation' = NoProbation
    /\ UNCHANGED <<layout, updaterVars, running, counters>>

\* updater::rollback, one file operation at a time.
Swap ==
    /\ wpc = "swap"
    /\ current' = probation.previous
    /\ wpc' = "load"
    /\ UNCHANGED <<tree, healthy, manifest, stage, bans, torn, updaterVars,
                   running, probation, counters>>

\* The rollback fails: settle_probation ends probation, "staying on it".
Stay ==
    /\ wpc' = "watch" /\ probation' = NoProbation
    /\ kept' = kept \union {<<probation.release, "rollback failed">>}

\* The symlink cannot be made or renamed, the ban list not be opened (nothing is
\* written) or not be filled (it stays torn).
RollBackFails ==
    /\ wpc \in {"swap", "load", "truncate", "write"}
    /\ Fault
    /\ Stay
    /\ UNCHANGED <<layout, updaterVars, running, stale, proven, crashes>>

\* A ban list that cannot be parsed fails the rollback as well.
LoadBans ==
    /\ wpc = "load"
    /\ IF torn THEN Stay
               ELSE wpc' = "truncate" /\ UNCHANGED <<probation, kept>>
    /\ UNCHANGED <<layout, updaterVars, running, stale, proven, crashes, faults>>

\* BannedVersions::save is a plain write too.
TruncateBans ==
    /\ wpc = "truncate"
    /\ torn' = TRUE /\ wpc' = "write"
    /\ UNCHANGED <<current, tree, healthy, manifest, stage, bans, updaterVars,
                   running, probation, counters>>

WriteBans ==
    /\ wpc = "write"
    /\ bans' = bans \union {probation.release} /\ torn' = FALSE
    /\ wpc' = "prune_failed"
    /\ UNCHANGED <<current, tree, healthy, manifest, stage, updaterVars, running,
                   probation, counters>>

\* The failed release is pruned, best effort, and the watchdog exits.
PruneFailed ==
    /\ wpc = "prune_failed"
    /\ IF probation.release \in Installed
       THEN Pruned(probation.release)
       ELSE UNCHANGED <<tree, healthy>>
    /\ wpc' = "down" /\ probation' = NoProbation
    /\ UNCHANGED <<current, manifest, stage, bans, torn, updaterVars, running,
                   counters>>

\* The host goes down with both processes.
Crash ==
    /\ crashes < MaxCrashes
    /\ crashes' = crashes + 1
    /\ Abort
    /\ wpc' = "down" /\ probation' = NoProbation
    /\ UNCHANGED <<layout, running, stale, proven, kept, faults>>
-----------------------------------------------------------------------------
Init ==
    /\ current = bootstrap
    /\ tree = <<>> /\ manifest = <<>> /\ stage = <<>>
    /\ healthy = {} /\ bans = {} /\ torn = FALSE
    /\ upc = "idle" /\ offer = None /\ fetched = FALSE
    /\ wpc = "down" /\ running = bootstrap /\ probation = NoProbation
    /\ stale = FALSE /\ proven = bootstrap /\ kept = {}
    /\ crashes = 0 /\ faults = 0

Apply ==
    \/ CheckBans \/ CheckVersion
    \/ StageBegin \/ (\E f \in Files : FetchFile(f)) \/ StageFails \/ StageRename
    \/ VerifyStaged \/ Relabel \/ PersistBegin \/ PersistEnd
    \/ Promote \/ RestartService

Watchdog ==
    \/ Start \/ Detect \/ Prove \/ ProveFails \/ PruneOld
    \/ RollBack \/ Swap \/ LoadBans \/ TruncateBans \/ WriteBans \/ PruneFailed
    \/ RollBackFails

Next ==
    \/ \E v \in Versions : FetchManifest(v)
    \/ Apply \/ Watchdog \/ WriteBeat \/ Crash

\* The service manager restarts the watchdog, which polls; an apply-release that
\* was started ends (its requests time out).  A deadline is not missed for
\* ever because apply-release runs keep coming.
Fairness == WF_vars(Watchdog) /\ WF_vars(Apply) /\ SF_vars(RollBack)

Spec == Init /\ [][Next]_vars /\ Fairness
-----------------------------------------------------------------------------
\* `current` always names something that can run and be checked: bootstrap, or
\* a release with every file in place and its manifest whole.
ActiveComplete ==
    current # bootstrap =>
        /\ current \in Installed /\ tree[current] = Files
        /\ current \in DOMAIN manifest /\ manifest[current] = "ok"

\* `current` goes down only onto bootstrap or a complete, proven release that
\* is not banned: the target a rollback chose when the watchdog started is
\* still good when it is used.
RollbackToKnownGood ==
    [][current' < current =>
         \/ current' = bootstrap
         \/ /\ current' \in healthy \ bans
            /\ tree[current'] = Files]_vars

\* A release that never makes progress does not stay the active one once its
\* watchdog was started: probation, restarted by every crash, ends it.  The code
\* has two exceptions: a count left by an earlier agent is read first and the bad
\* agent's 0 counts as progress (supervise.rs, HeartbeatMonitor::observe), and the
\* rollback itself fails (settle_probation, "staying on it") with no watchdog
\* started since.
BadReleaseLeaves ==
    \A v \in Bad :
        running = v /\ current = v ~>
            \/ current # v
            \/ <<v, "stale count">> \in kept \/ <<v, "rollback failed">> \in kept

\* The last release that passed its health check stays on disk, complete and
\* marked, whatever fails after it: there is always that one to return to.
LastProvenStays ==
    proven # bootstrap => proven \in healthy /\ tree[proven] = Files

=============================================================================
