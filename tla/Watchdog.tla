------------------------------ MODULE Watchdog ------------------------------
(***************************************************************************)
(* The supervision loop of watchdog/src/supervise.rs: spawn the agent,     *)
(* watch its exit and its heartbeat file (agent/src/heartbeat.rs), restart *)
(* it with backoff, and settle the probation of a fresh release.           *)
(*                                                                         *)
(* Time is counted in 500 ms polls.  The agent, its heartbeat thread and   *)
(* the watchdog run concurrently; the file outlives all of them.           *)
(***************************************************************************)
EXTENDS Integers, FiniteSetsExt

CONSTANTS
    RestartDelays,          \* values of --restart-delay, in seconds: 0 and above the cap included
    BACKOFF_CAP_SECS,
    FAST_CRASH_THRESHOLD,   \* in polls
    ticks_per_check, miss_limit,
    PROBATION_DEADLINE,     \* in polls
    SpawnErrors,            \* may a spawn fail or the binary's hash change?
    MaxLost,                \* bound: failures of try_wait
    MaxCrashRun,            \* bound: fast crashes in a row that are told apart
    MaxEvents,              \* bound: events one agent run processes
    MaxRestarts             \* bound: deaths of the watchdog itself

ASSUME WatchdogAssumption ==
    /\ RestartDelays \subseteq Nat /\ BACKOFF_CAP_SECS \in Nat \ {0}
    /\ FAST_CRASH_THRESHOLD \in Nat \ {0}
    /\ ticks_per_check \in Nat \ {0} /\ miss_limit \in Nat \ {0}
    /\ PROBATION_DEADLINE \in Nat \ {0}
    /\ SpawnErrors \in BOOLEAN /\ MaxLost \in Nat /\ MaxCrashRun \in Nat
    /\ MaxEvents \in Nat /\ MaxRestarts \in Nat

VARIABLES
    wpc,        \* "loop", "watch", "sleep", or how supervise_loop returned
    stop,       \* the stop flag
    floor,      \* Backoff::floor
    backoff,    \* Backoff::current
    wait,       \* half-seconds left to sleep
    uptime,     \* polls since spawn, counted up to FAST_CRASH_THRESHOLD
    hb,         \* the HeartbeatMonitor
    probation,  \* "none", "on", "proven" or "failed" (could not roll back)
    elapsed,    \* polls since the watchdog started, up to the deadline
    agent,      \* "none", "starting", "running" or "hung"
    count,      \* events this agent run has processed
    file,       \* the heartbeat file's number, or None
    orphans,    \* agents running that nobody watches
    lost,       \* history: failures of try_wait since the watchdog started
    crashRun,   \* history: fast crashes in a row, the first delay and the last
    restarts

watch == <<floor, backoff, wait, uptime, hb, crashRun>>
agentVars == <<agent, count, file, orphans, lost>>
vars == <<wpc, stop, watch, probation, elapsed, agentVars, restarts>>

None == -1

\* HeartbeatMonitor::new; last_value starts empty.
NewMonitor == [ticks |-> 0, last_value |-> None, misses |-> 0, progressed |-> FALSE]

\* Mutant: a reading that did not move does not add up.
Observe_Single(m, v) ==
    [m EXCEPT !.progressed = @ \/ (m.last_value # None /\ v # m.last_value),
              !.last_value = v, !.misses = IF v = m.last_value THEN 1 ELSE 0]

\* observe of a reading v that is not None.
Observe(m, v) ==
    IF v = m.last_value
    THEN [m EXCEPT !.misses = @ + 1]
    ELSE [m EXCEPT !.progressed = @ \/ m.last_value # None,
                   !.last_value = v, !.misses = 0]

\* tick: every ticks_per_check polls the file is read; a missing file changes
\* nothing.
Tick(m) ==
    IF m.ticks + 1 < ticks_per_check THEN [m EXCEPT !.ticks = @ + 1]
    ELSE IF file = None THEN [m EXCEPT !.ticks = 0]
    ELSE Observe([m EXCEPT !.ticks = 0], file)

Stalled(m) == m.ticks = 0 /\ m.misses >= miss_limit

NoCrash == [n |-> 0, first |-> 0, last |-> 0]
Counted(fast) ==
    IF ~fast THEN NoCrash
    ELSE [n |-> Min({crashRun.n + 1, MaxCrashRun}), last |-> backoff,
          first |-> IF crashRun.n = 0 THEN backoff ELSE crashRun.first]

\* Mutant: the delay doubles without a cap.
RecordExit_NoCap(fast) ==
    /\ wait' = 2 * (IF fast THEN backoff ELSE floor)
    /\ backoff' = IF fast THEN Min({2 * backoff, 2 * BACKOFF_CAP_SECS}) ELSE floor
    /\ crashRun' = Counted(fast)
    /\ UNCHANGED floor

\* Backoff::record_exit, and the sleep it asks for.
RecordExit(fast) ==
    /\ wait' = 2 * (IF fast THEN backoff ELSE floor)
    /\ backoff' = IF fast THEN Min({2 * backoff, BACKOFF_CAP_SECS}) ELSE floor
    /\ crashRun' = Counted(fast)
    /\ UNCHANGED floor

\* Mutant: only a running agent's polls look at the deadline.
Verdict_NeedsAgent(advanced) ==
    IF probation # "on" THEN "none"
    ELSE IF advanced THEN "proven"
    ELSE IF elapsed >= PROBATION_DEADLINE /\ agent # "none" THEN "failed"
    ELSE "pending"

\* Probation::verdict for a release on probation.
Verdict(advanced) ==
    IF probation # "on" THEN "none"
    ELSE IF advanced THEN "proven"
    ELSE IF elapsed >= PROBATION_DEADLINE THEN "failed"
    ELSE "pending"

\* settle_probation without a roll back that succeeds: the loop goes on.
Settle(advanced) ==
    probation' = CASE Verdict(advanced) = "proven" -> "proven"
                   [] Verdict(advanced) = "failed" -> "failed"
                   [] OTHER -> probation

\* The deadline is on the real clock; a turn of the loop counts as a poll, so that
\* time passes also when the delay is 0.
Clock == elapsed' = Min({elapsed + 1, PROBATION_DEADLINE})
-----------------------------------------------------------------------------
(* supervise_loop: the head of the loop.                                    *)
LoopStop ==
    /\ wpc = "loop" /\ stop
    /\ wpc' = "stopped"
    /\ UNCHANGED <<stop, watch, probation, elapsed, agentVars, restarts>>

LoopRollBack ==
    /\ wpc = "loop" /\ ~stop /\ Verdict(FALSE) = "failed"
    /\ wpc' = "rolledback"
    /\ UNCHANGED <<stop, watch, probation, elapsed, agentVars, restarts>>

\* The pinned hash does not match, or the spawn fails: as a fast crash.
SpawnRefused ==
    /\ SpawnErrors /\ wpc = "loop" /\ ~stop
    /\ Settle(FALSE)
    /\ RecordExit(TRUE)
    /\ wpc' = "sleep" /\ Clock
    /\ UNCHANGED <<stop, uptime, hb, agentVars, restarts>>

\* The Child is dropped at the end of a turn of the loop, which kills nothing: an
\* agent still running then is one nobody watches.
LeavesBehind == orphans' = IF agent = "none" THEN orphans ELSE orphans + 1

\* Mutant: the monitor of the last run watches the new one.
Spawn_KeepsMonitor ==
    /\ wpc = "loop" /\ ~stop
    /\ Settle(FALSE)
    /\ wpc' = "watch" /\ uptime' = 0 /\ Clock
    /\ LeavesBehind /\ agent' = "starting" /\ count' = 0
    /\ UNCHANGED <<stop, floor, hb, backoff, wait, crashRun, file, lost, restarts>>

Spawn ==
    /\ wpc = "loop" /\ ~stop
    /\ Settle(FALSE)
    /\ wpc' = "watch" /\ uptime' = 0 /\ hb' = NewMonitor /\ Clock
    /\ LeavesBehind /\ agent' = "starting" /\ count' = 0
    /\ UNCHANGED <<stop, floor, backoff, wait, crashRun, file, lost, restarts>>

\* One poll of watch_child: stop, then exit, then heartbeat, then probation.
PollStop ==
    /\ wpc = "watch" /\ stop
    /\ agent' = "none"
    /\ wpc' = "stopped"
    /\ UNCHANGED <<stop, watch, probation, elapsed, count, file, orphans, lost, restarts>>

PollExit ==
    /\ wpc = "watch" /\ ~stop /\ agent = "none"
    /\ RecordExit(uptime < FAST_CRASH_THRESHOLD)
    /\ wpc' = "sleep"
    /\ UNCHANGED <<stop, uptime, hb, probation, elapsed, agentVars, restarts>>

\* Mutant: a stalled agent is left behind.
PollStalled_NoKill ==
    /\ wpc = "watch" /\ ~stop /\ agent # "none" /\ Stalled(Tick(hb))
    /\ hb' = Tick(hb)
    /\ RecordExit(uptime < FAST_CRASH_THRESHOLD)
    /\ wpc' = "sleep"
    /\ UNCHANGED <<stop, uptime, probation, elapsed, agentVars, restarts>>

PollStalled ==
    /\ wpc = "watch" /\ ~stop /\ agent # "none" /\ Stalled(Tick(hb))
    /\ hb' = Tick(hb)
    /\ agent' = "none"
    /\ RecordExit(uptime < FAST_CRASH_THRESHOLD)
    /\ wpc' = "sleep"
    /\ UNCHANGED <<stop, uptime, probation, elapsed, count, file, orphans, lost, restarts>>

PollRollBack ==
    /\ wpc = "watch" /\ ~stop /\ agent # "none" /\ ~Stalled(Tick(hb))
    /\ hb' = Tick(hb)
    /\ Verdict(hb'.progressed) = "failed"
    /\ agent' = "none" /\ wpc' = "rolledback"
    /\ UNCHANGED <<stop, floor, backoff, wait, uptime, crashRun, probation, elapsed,
                   count, file, orphans, lost, restarts>>

Poll ==
    /\ wpc = "watch" /\ ~stop /\ agent # "none" /\ ~Stalled(Tick(hb))
    /\ hb' = Tick(hb)
    /\ Settle(hb'.progressed)
    /\ uptime' = Min({uptime + 1, FAST_CRASH_THRESHOLD})
    /\ Clock
    /\ UNCHANGED <<wpc, stop, floor, backoff, wait, crashRun, agentVars, restarts>>

\* try_wait fails: back to the loop at once, the child left alone.
PollError ==
    /\ wpc = "watch" /\ ~stop /\ lost < MaxLost
    /\ lost' = lost + 1
    /\ LeavesBehind /\ agent' = "none"
    /\ wpc' = "loop"
    /\ UNCHANGED <<stop, watch, probation, elapsed, count, file, restarts>>

\* sleep_unless_stopped, half a second at a time.
Sleep ==
    /\ wpc = "sleep"
    /\ IF wait = 0 THEN wpc' = "loop" /\ UNCHANGED <<wait, elapsed>>
       ELSE IF stop THEN wpc' = "stopped" /\ UNCHANGED <<wait, elapsed>>
       ELSE wait' = wait - 1 /\ Clock /\ UNCHANGED wpc
    /\ UNCHANGED <<stop, floor, backoff, uptime, hb, crashRun, probation, agentVars, restarts>>
-----------------------------------------------------------------------------
(* The agent.  heartbeat::start writes the counter at once, then every two  *)
(* seconds, on a thread of its own.                                         *)
AgentUp ==
    /\ agent = "starting"
    /\ agent' = "running" /\ file' = count
    /\ UNCHANGED <<wpc, stop, watch, probation, elapsed, count, orphans, lost, restarts>>

ProcessEvent ==
    /\ agent = "running" /\ count < MaxEvents
    /\ count' = count + 1
    /\ UNCHANGED <<wpc, stop, watch, probation, elapsed, agent, file, orphans, lost, restarts>>

WriteBeat ==
    /\ agent \in {"running", "hung"} /\ file # count
    /\ file' = count
    /\ UNCHANGED <<wpc, stop, watch, probation, elapsed, agent, count, orphans, lost, restarts>>

\* An agent nobody watches still writes its own counter to the same file.
OrphanBeat ==
    /\ orphans > 0
    /\ file' \in 0 .. MaxEvents
    /\ UNCHANGED <<wpc, stop, watch, probation, elapsed, agent, count, orphans, lost, restarts>>

OrphanDies ==
    /\ orphans > 0
    /\ orphans' = orphans - 1
    /\ UNCHANGED <<wpc, stop, watch, probation, elapsed, agent, count, file, lost, restarts>>

Hang ==
    /\ agent = "running"
    /\ agent' = "hung"
    /\ UNCHANGED <<wpc, stop, watch, probation, elapsed, count, file, orphans, lost, restarts>>

AgentDies ==
    /\ agent # "none"
    /\ agent' = "none"
    /\ UNCHANGED <<wpc, stop, watch, probation, elapsed, count, file, orphans, lost, restarts>>

RequestStop ==
    /\ ~stop
    /\ stop' = TRUE
    /\ UNCHANGED <<wpc, watch, probation, elapsed, agentVars, restarts>>

\* The watchdog is killed, its children die with it (die_with_parent), and the
\* service manager starts it again; a proven release stays proven.
WatchdogRestarts ==
    /\ restarts < MaxRestarts /\ ~stop /\ wpc # "rolledback"
    /\ restarts' = restarts + 1
    /\ wpc' = "loop" /\ backoff' = Max({floor, 1}) /\ wait' = 0
    /\ uptime' = 0 /\ hb' = NewMonitor /\ crashRun' = NoCrash
    /\ elapsed' = 0 /\ probation' = IF probation = "failed" THEN "none" ELSE probation
    /\ agent' = "none" /\ orphans' = 0 /\ lost' = 0
    /\ UNCHANGED <<stop, floor, count, file>>

Init ==
    /\ wpc = "loop" /\ stop = FALSE
    /\ floor \in RestartDelays /\ backoff = Max({floor, 1})
    /\ wait = 0 /\ uptime = 0 /\ crashRun = NoCrash
    /\ hb = NewMonitor
    /\ probation \in {"none", "on"} /\ elapsed = 0
    /\ agent = "none" /\ count = 0 /\ file \in -1 .. MaxEvents /\ orphans = 0 /\ lost = 0
    /\ restarts = 0

Supervise ==
    \/ LoopStop \/ LoopRollBack \/ SpawnRefused \/ Spawn
    \/ PollStop \/ PollExit \/ PollStalled \/ PollRollBack \/ Poll \/ PollError
    \/ Sleep

Next ==
    \/ Supervise
    \/ AgentUp \/ ProcessEvent \/ WriteBeat \/ OrphanBeat \/ OrphanDies \/ Hang \/ AgentDies
    \/ RequestStop \/ WatchdogRestarts

\* The watchdog keeps polling; the heartbeat thread keeps writing.
Fairness == WF_vars(Supervise) /\ WF_vars(WriteBeat)

Spec == Init /\ [][Next]_vars /\ Fairness
-----------------------------------------------------------------------------
\* No agent runs beside the one the watchdog watches, and none is left when the
\* loop returns, except those a failed try_wait dropped (PollError), whatever stalls,
\* stops, rollbacks, crashes and restarts of the watchdog come together: every other
\* way out of watch_child kills the child or has seen it exit.
NoSecondAgent ==
    /\ orphans <= lost
    /\ agent # "none" => wpc = "watch"

\* The delays of a run of fast crashes are the geometric series that record_exit's
\* comment promises, whatever restarts, stalls and refused spawns it is made of: the
\* n-th is 2^(n-1) times the first, up to the cap.  The first is never below the
\* configured floor.  So the delay grows for a floor of 1 up to the cap, falls to the
\* cap for a floor above it, and stays 0 for a floor of 0 once a healthy exit reset it.
BackoffGrows ==
    crashRun.n > 0 =>
        /\ crashRun.first >= floor /\ crashRun.first \in {floor, 1}
        /\ crashRun.last = IF crashRun.n = 1 THEN crashRun.first
                           ELSE Min({crashRun.first * 2 ^ (crashRun.n - 1), BACKOFF_CAP_SECS})

\* A release is not proven by an agent that never reached its heartbeat,
\* unless a failed try_wait left an older agent writing the same file.
ProvenByBeat ==
    [][probation = "on" /\ probation' = "proven" =>
         agent \in {"running", "hung"} \/ lost > 0]_vars

\* "The proof is the progress-backed heartbeat advancing" (probation.rs): a release
\* is proven only by an agent that has processed an event, unless a failed try_wait
\* left an older agent writing the same file.
ProvenByProgress ==
    [][probation = "on" /\ probation' = "proven" => count > 0 \/ lost > 0]_vars

\* A hung agent, whose heartbeat thread goes on, is killed and does not stay,
\* unless a failed try_wait left an older agent writing the same file.
HungIsKilled == agent = "hung" ~> agent # "hung" \/ orphans > 0

\* Probation ends, even for a release whose agent never starts or crashes at
\* once: every path back to the head of the loop settles it.
ProbationEnds == probation = "on" ~> probation # "on" \/ wpc \in {"rolledback", "stopped"}

=============================================================================
