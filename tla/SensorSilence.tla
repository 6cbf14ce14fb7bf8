--------------------------- MODULE SensorSilence ---------------------------
(***************************************************************************)
(* "Silence is a detection" on one agent: sensors pulse a counter          *)
(* (agent/src/silence.rs, crates/tamper/src/heartbeat.rs), a thread polls  *)
(* the counters against a deadline and alerts, and the health beacon and   *)
(* `cli health` show the monitor's state.                                  *)
(*                                                                         *)
(* Time is counted in ages, so it is unbounded.  `age` is what the monitor *)
(* computes from the wall clock it is given (schema::time::now_ns), which  *)
(* can be stepped; `quiet` is the time that really passed.                 *)
(*                                                                         *)
(* The netlink poller pulses at every poll that succeeds, a canary.  The   *)
(* eBPF sensor, the journal tail and the uprobes pulse per event, and a    *)
(* host may be idle for any time.                                          *)
(***************************************************************************)
EXTENDS Integers

CONSTANTS
    Sensors,        \* registered heartbeats
    Sources,        \* Sources[s]: what pulses s (the netlink poller has two)
    DEADLINE,       \* deadline_ns
    Canaried,       \* the sensors with a canary
    CANARY,         \* how often a working source of theirs pulses at least
    POLL_INTERVAL,
    ClockSteps,     \* by how much the wall clock may be set
    MaxSteps,       \* how often it is set
    Requests        \* heartbeat requests that may be in progress at a time

VARIABLES
    working,    \* working[s]: the sources of s that are alive
    advanced,   \* advanced[s]: count # last_count
    age,        \* age[s]: now_ns - last_change_ns
    alerted,    \* alerted[s]
    posted,     \* the requests: the sensors their beacon calls silent, or NoBeacon
    shown,      \* the sensors the beacon the server stored last calls silent
    sincePoll,  \* time since the monitor thread went to sleep
    steps,      \* how often the clock was set
    quiet,      \* quiet[s]: real time since the last pulse
    reported    \* reported[s]: verdicts given since the last pulse

vars == <<working, advanced, age, alerted, posted, shown, sincePoll, steps, quiet, reported>>
-----------------------------------------------------------------------------
NoBeacon == {"none"}
Least(a, b) == IF a < b THEN a ELSE b
Back == CHOOSE b \in {0} \union {-d : d \in ClockSteps} :
            \A d \in ClockSteps : b >= 0 /\ b >= -d
\* Beyond this age the wall clock can no longer be set back under the deadline.
MaxAge == DEADLINE + 1 + MaxSteps * Back

\* SensorHeartbeat::pulse
Pulsed(s) ==
    /\ advanced' = [advanced EXCEPT ![s] = TRUE]
    /\ quiet' = [quiet EXCEPT ![s] = 0]
    /\ reported' = [reported EXCEPT ![s] = 0]

\* PulsingSink::on_event, or a poll that succeeded.
Pulse(s) ==
    /\ working[s] # {}
    /\ Pulsed(s)
    /\ UNCHANGED <<working, age, alerted, posted, shown, sincePoll, steps>>

\* now_ns.saturating_sub(last_change_ns)
silent_for(s) == IF age[s] < 0 THEN 0 ELSE age[s]

\* Mutant: an alert is never cleared.
Recovers_Never(s) == FALSE

Recovers(s) == advanced[s]

\* Mutant: every poll past the deadline is a verdict.
NewVerdict_EveryPoll(s) == ~advanced[s] /\ silent_for(s) > DEADLINE
\* Mutant: a sensor that pulsed since the last poll is judged by its old clock.
NewVerdict_Stale(s) == silent_for(s) > DEADLINE /\ ~alerted[s]

NewVerdict(s) == ~advanced[s] /\ silent_for(s) > DEADLINE /\ ~alerted[s]

\* One turn of the monitor thread: poll, then an alert per verdict.
Poll ==
    /\ sincePoll = POLL_INTERVAL
    /\ sincePoll' = 0
    /\ advanced' = [s \in Sensors |-> FALSE]
    /\ age' = [s \in Sensors |-> IF advanced[s] THEN 0 ELSE age[s]]
    /\ alerted' = [s \in Sensors |-> NewVerdict(s) \/ (alerted[s] /\ ~Recovers(s))]
    /\ reported' = [s \in Sensors |-> IF NewVerdict(s) THEN reported[s] + 1 ELSE reported[s]]
    /\ UNCHANGED <<working, posted, shown, steps, quiet>>

\* HealthCollector::run: collect reads the monitor under its lock, and the beacon
\* is posted.  A client that gave up on its request posts the next beacon while
\* the server is still at work on that one.
Collect(q) ==
    /\ posted[q] = NoBeacon
    /\ posted' = [posted EXCEPT ![q] = {s \in Sensors : alerted[s]}]
    /\ UNCHANGED <<working, advanced, age, alerted, shown, sincePoll, steps, quiet, reported>>

\* storeBeacon's upsert, in whatever order the requests are handled.
Store(q) ==
    /\ posted[q] # NoBeacon
    /\ shown' = posted[q]
    /\ posted' = [posted EXCEPT ![q] = NoBeacon]
    /\ UNCHANGED <<working, advanced, age, alerted, sincePoll, steps, quiet, reported>>

\* The request does not arrive, is refused, or its upsert fails: never retried.
BeaconLost(q) ==
    /\ posted[q] # NoBeacon
    /\ posted' = [posted EXCEPT ![q] = NoBeacon]
    /\ UNCHANGED <<working, advanced, age, alerted, shown, sincePoll, steps, quiet, reported>>

\* The poll thread sleeps at least POLL_INTERVAL and may run late.
Tick ==
    /\ \A s \in Canaried : working[s] # {} => quiet[s] < CANARY
    /\ sincePoll' = Least(sincePoll + 1, POLL_INTERVAL)
    /\ age' = [s \in Sensors |-> Least(age[s] + 1, MaxAge)]
    /\ quiet' = [s \in Sensors |-> Least(quiet[s] + 1, DEADLINE + 1)]
    /\ UNCHANGED <<working, advanced, alerted, posted, shown, steps, reported>>

\* The wall clock is set (NTP step, an administrator, a resumed virtual machine).
SetClock(d) ==
    /\ steps < MaxSteps /\ steps' = steps + 1
    /\ age' = [s \in Sensors |-> Least(age[s] + d, MaxAge)]
    /\ UNCHANGED <<working, advanced, alerted, posted, shown, sincePoll, quiet, reported>>

\* A probe is detached, a poll starts to fail, a tail ends.
Stops(s, x) ==
    /\ x \in working[s]
    /\ working' = [working EXCEPT ![s] = @ \ {x}]
    /\ UNCHANGED <<advanced, age, alerted, posted, shown, sincePoll, steps, quiet, reported>>

\* A poll succeeds again, or an event arrives again: a pulse.
Resumes(s, x) ==
    /\ x \in Sources[s] \ working[s]
    /\ working' = [working EXCEPT ![s] = @ \union {x}]
    /\ Pulsed(s)
    /\ UNCHANGED <<age, alerted, posted, shown, sincePoll, steps>>

\* register: the count read and the clock started before the sensor runs.
Init ==
    /\ working = Sources
    /\ advanced = [s \in Sensors |-> FALSE]
    /\ age = [s \in Sensors |-> 0] /\ quiet = [s \in Sensors |-> 0]
    /\ alerted = [s \in Sensors |-> FALSE]
    /\ posted = [q \in Requests |-> NoBeacon] /\ shown = {}
    /\ reported = [s \in Sensors |-> 0]
    /\ sincePoll = 0 /\ steps = 0

Next ==
    \/ Poll \/ Tick
    \/ \E q \in Requests : Collect(q) \/ Store(q) \/ BeaconLost(q)
    \/ \E d \in ClockSteps : SetClock(d)
    \/ \E s \in Sensors :
         Pulse(s) \/ \E x \in Sources[s] : Stops(s, x) \/ Resumes(s, x)

\* The monitor's thread and the clock run, and a working source with a canary
\* pulses.
Fairness == WF_vars(Poll) /\ WF_vars(Tick) /\ \A s \in Canaried : WF_vars(Pulse(s))

Spec == Init /\ [][Next]_vars /\ Fairness
-----------------------------------------------------------------------------
\* A verdict names a sensor that really was without a pulse for longer than its
\* deadline, whatever the poll thread's delays (SilenceMonitor::poll), as long
\* as the wall clock is not set.
VerdictIsTrue ==
    [][\A s \in Sensors :
         ~alerted[s] /\ alerted'[s] => quiet[s] > DEADLINE \/ steps > 0]_vars

\* One alert per episode of silence: between two verdicts on a sensor it pulsed.
OneVerdictPerEpisode == \A s \in Sensors : reported[s] <= 1

\* Some beacon arrives and is stored, again and again.
BeaconsArrive == []<><<\E q \in Requests : Store(q)>>_vars

\* A sensor whose sources stay dead is in the end always shown silent by the
\* beacon the server keeps, and one with a canary that stays working never: any
\* number of beacons may be lost, and an old one be stored after a newer one, as
\* long as they do not all get lost.  (docs/architecture/control-plane.md:78-79
\* says that the beacon is not stored; the route has stored it since.)
SilenceShown ==
    BeaconsArrive => /\ \A s \in Sensors : <>[](working[s] = {}) => <>[](s \in shown)
                     /\ \A s \in Canaried : <>[](working[s] # {}) => <>[](s \notin shown)
=============================================================================
