--------------------------- MODULE AgentLiveness ---------------------------
(***************************************************************************)
(* Liveness of the fleet at the control plane: an agent's health beacons   *)
(* (agent/src/health.rs, transport's send_heartbeat), the heartbeat route  *)
(* that stamps `lastSeen`, and the cron that opens a case for a silent     *)
(* agent.  (What the beacon says, and its storage: SensorSilence.)         *)
(*                                                                         *)
(* A route is one step per database call.  Ages replace clock times.  A    *)
(* beacon is its number; a request the client gave up on still runs.       *)
(***************************************************************************)
EXTENDS Naturals, FiniteSets

CONSTANTS
    Agents,
    Hostnames,          \* the agents enrolled with a hostname
    Crons,              \* invocations of the cron that may overlap
    SILENCE_THRESHOLD,
    MaxBeacons,         \* beacons per agent
    MaxDies             \* invocations that end early

VARIABLES
    alive,      \* agents that are running
    sent,       \* sent[a]: beacons a has sent
    waiting,    \* waiting[a]: a's client waits for the answer
    handlers,   \* requests in progress: <<agent, beacon, "seen" or "store">>
    seen,       \* seen[a]: age of lastSeen
    cases,      \* cases[a]: open silent-agent cases
    grouped,    \* the agents with an open case of grouped detections
    cron,       \* cron[c]: [todo: agents found silent and not yet handled, none: no open case found]
    died,       \* invocations that ended early
    raced       \* history: raced[a]: invocations that had found no case of a when
                \* another one created it

vars == <<alive, sent, waiting, handlers, seen, cases, grouped, cron, died, raced>>
-----------------------------------------------------------------------------
IdleCron == [on |-> FALSE, todo |-> {}, none |-> {}]
Silent == {a \in Agents : seen[a] > SILENCE_THRESHOLD}

\* HealthCollector::run: one beacon at a time, best effort.
SendBeacon(a) ==
    /\ a \in alive /\ a \notin waiting /\ sent[a] < MaxBeacons
    /\ sent' = [sent EXCEPT ![a] = @ + 1]
    /\ waiting' = waiting \union {a}
    /\ handlers' = handlers \union {<<a, sent[a] + 1, "seen">>}
    /\ UNCHANGED <<alive, seen, cases, grouped, cron, died, raced>>

\* The request is lost on its way: the next tick sends another.
BeaconLost(a) ==
    /\ a \in waiting /\ <<a, sent[a], "seen">> \in handlers
    /\ waiting' = waiting \ {a}
    /\ handlers' = handlers \ {<<a, sent[a], "seen">>}
    /\ UNCHANGED <<alive, sent, seen, cases, grouped, cron, died, raced>>

\* request_timeout passes at the client while the server is still at work.
ClientTimesOut(a) ==
    /\ a \in waiting
    /\ waiting' = waiting \ {a}
    /\ UNCHANGED <<alive, sent, handlers, seen, cases, grouped, cron, died, raced>>

UpdateLastSeen(a, n) ==
    /\ <<a, n, "seen">> \in handlers
    /\ seen' = [seen EXCEPT ![a] = 0]
    /\ handlers' = (handlers \ {<<a, n, "seen">>}) \union {<<a, n, "store">>}
    /\ UNCHANGED <<alive, sent, waiting, cases, grouped, cron, died, raced>>

\* The answer is ok, whatever came of the beacon.
storeBeacon(a, n) ==
    /\ <<a, n, "store">> \in handlers
    /\ handlers' = handlers \ {<<a, n, "store">>}
    /\ waiting' = IF n = sent[a] THEN waiting \ {a} ELSE waiting
    /\ UNCHANGED <<alive, sent, seen, cases, grouped, cron, died, raced>>
-----------------------------------------------------------------------------
\* Mutant: agents are compared with the threshold the wrong way round.
CronScan_Fresh(c) ==
    /\ ~cron[c].on
    /\ cron' = [cron EXCEPT ![c] = [on |-> TRUE, todo |-> Agents \ Silent, none |-> {}]]
    /\ UNCHANGED <<alive, sent, waiting, handlers, seen, cases, grouped, died, raced>>

CronScan(c) ==
    /\ ~cron[c].on
    /\ cron' = [cron EXCEPT ![c] = [on |-> TRUE, todo |-> Silent, none |-> {}]]
    /\ UNCHANGED <<alive, sent, waiting, handlers, seen, cases, grouped, died, raced>>

\* Mutant: the open cases are not consulted.
ExistingCase_No(a) == FALSE
\* findFirst by `title contains agent.id`, of any open case: a title carries the
\* hostname when there is one, and the id only when there is none.
ExistingCase(a) == a \notin Hostnames /\ (cases[a] > 0 \/ a \in grouped)

CronCheck(c, a) ==
    /\ cron[c].on /\ cron[c].none = {} /\ a \in cron[c].todo
    /\ cron' = [cron EXCEPT ![c].todo = @ \ {a},
                            ![c].none = IF ExistingCase(a) THEN {} ELSE {a}]
    /\ UNCHANGED <<alive, sent, waiting, handlers, seen, cases, grouped, died, raced>>

CronCreate(c, a) ==
    /\ cron[c].on /\ a \in cron[c].none
    /\ cases' = [cases EXCEPT ![a] = @ + 1]
    /\ cron' = [cron EXCEPT ![c].none = {}]
    /\ raced' = [raced EXCEPT ![a] = @ + Cardinality({d \in Crons \ {c} : a \in cron[d].none})]
    /\ UNCHANGED <<alive, sent, waiting, handlers, seen, grouped, died>>

\* The response.
CronEnds(c) ==
    /\ cron[c].on /\ cron[c].todo = {} /\ cron[c].none = {}
    /\ cron' = [cron EXCEPT ![c] = IdleCron]
    /\ UNCHANGED <<alive, sent, waiting, handlers, seen, cases, grouped, died, raced>>

\* A database call fails and the catch answers 500: the rest is left for the next run.
CronFails(c) ==
    /\ cron[c].on /\ died < MaxDies
    /\ died' = died + 1
    /\ cron' = [cron EXCEPT ![c] = IdleCron]
    /\ UNCHANGED <<alive, sent, waiting, handlers, seen, cases, grouped, raced>>

\* group-detections opens a case for detections of a: its title too carries the
\* hostname, or the id when there is none.
GroupDetections(a) ==
    /\ a \notin grouped
    /\ grouped' = grouped \union {a}
    /\ UNCHANGED <<alive, sent, waiting, handlers, seen, cases, cron, died, raced>>

\* The host goes down for good, or its network does.
AgentDies(a) ==
    /\ a \in alive
    /\ alive' = alive \ {a}
    /\ UNCHANGED <<sent, waiting, handlers, seen, cases, grouped, cron, died, raced>>

Older(n) == IF n > SILENCE_THRESHOLD THEN n ELSE n + 1

Tick ==
    /\ seen' = [a \in Agents |-> Older(seen[a])]
    /\ UNCHANGED <<alive, sent, waiting, handlers, cases, grouped, cron, died, raced>>

\* Enrollment stamps lastSeen.
Init ==
    /\ alive = Agents /\ sent = [a \in Agents |-> 0] /\ waiting = {} /\ handlers = {}
    /\ seen = [a \in Agents |-> 0]
    /\ cases = [a \in Agents |-> 0]
    /\ grouped = {} /\ cron = [c \in Crons |-> IdleCron] /\ died = 0
    /\ raced = [a \in Agents |-> 0]

CronStep(c) ==
    CronScan(c) \/ CronEnds(c) \/ \E a \in Agents : CronCheck(c, a) \/ CronCreate(c, a)

Next ==
    \/ Tick
    \/ \E c \in Crons : CronStep(c) \/ CronFails(c)
    \/ \E a \in Agents :
         \/ SendBeacon(a) \/ BeaconLost(a) \/ ClientTimesOut(a) \/ AgentDies(a)
         \/ GroupDetections(a)
         \/ \E n \in 1..MaxBeacons : UpdateLastSeen(a, n) \/ storeBeacon(a, n)

\* Time passes and the scheduler calls the cron.
Spec == Init /\ [][Next]_vars /\ WF_vars(Tick) /\ \A c \in Crons : WF_vars(CronStep(c))
-----------------------------------------------------------------------------
\* However often the cron runs, a silent agent has one open case of its own, and
\* one more for every overlapping invocation that looked before the first was
\* created: nothing locks the check for an existing case against the create.
OneSilentCase == \A a \in Agents : cases[a] <= 1 + raced[a]

\* An agent that died ends up with an open case, also when invocations overlap or
\* fail and when a request of the dead agent is still handled.  An agent without
\* a hostname whose detections were grouped has that case only: its title
\* contains the id, so the cron takes it for the silent-agent case.
DeadAgentGetsCase ==
    \A a \in Agents : a \notin alive ~> cases[a] > 0 \/ (a \in grouped /\ a \notin Hostnames)
=============================================================================
