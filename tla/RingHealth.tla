---------------------------- MODULE RingHealth ----------------------------
(***************************************************************************)
(* The cron that halts a canary release whose ring regresses against prod  *)
(* (server/app/api/cron/check-ring-health/route.ts), over the releases of  *)
(* RingRollout and a small fleet.  It measures prod, then each canary, with *)
(* one query after the other, and looks the release up only after it has   *)
(* decided.                                                                *)
(***************************************************************************)
EXTENDS RingRollout

CONSTANTS
    Agents,
    FpSpike,        \* low detections tolerated when prod has none (10)
    MaxDetections,  \* bound: detections an agent has in the last 24 hours
    MaxChanges      \* bound: changes in the fleet, failed invocations

VARIABLES
    fleet,      \* agent -> ring, silent for 5 minutes?, detections and low ones in 24 h
    cron,       \* the invocation in progress
    changes

healthVars == <<fleet, cron, changes>>
vars == <<rolloutVars, healthVars>>

Canaries == Rings \ {"prod"}
NoMetrics == [total |-> 0, silent |-> 0, det |-> 0, fp |-> 0]
CronIdle == [pc |-> "idle", base |-> NoMetrics, ring |-> "prod", m |-> NoMetrics,
             ids |-> {}, todo |-> {}, release |-> None]

InRing(r) == {a \in Agents : fleet[a].ring = r}
SumOver(agents, field) == MapThenSumSet(LAMBDA a : fleet[a][field], agents)

SilentRegression(canary) == 100 * canary.silent > 5 * canary.total

\* Mutant: the silent agents are not looked at.
detectRegression_Deaf(canary, base) ==
    /\ canary.total > 0 /\ base.total > 0
    /\ \/ IF base.fp > 0 THEN canary.fp > 2 * base.fp ELSE canary.fp > FpSpike
       \/ base.det > 0 /\ 100 * canary.det < 80 * base.det

detectRegression(canary, base) ==
    /\ canary.total > 0 /\ base.total > 0
    /\ \/ SilentRegression(canary)
       \/ IF base.fp > 0 THEN canary.fp > 2 * base.fp ELSE canary.fp > FpSpike
       \/ base.det > 0 /\ 100 * canary.det < 80 * base.det

-----------------------------------------------------------------------------
AgentState == {s \in [ring : Rings, silent : BOOLEAN, det : 0 .. MaxDetections,
                      low : 0 .. MaxDetections] : s.low <= s.det}

\* The fleet: an operator moves an agent, it falls silent or returns,
\* detections arrive or age out.
Change(a, s) ==
    /\ changes < MaxChanges /\ s # fleet[a]
    /\ \/ s = [fleet[a] EXCEPT !.ring = s.ring]
       \/ s = [fleet[a] EXCEPT !.silent = s.silent]
       \/ s = [fleet[a] EXCEPT !.det = s.det, !.low = s.low]
    /\ fleet' = [fleet EXCEPT ![a] = s]
    /\ changes' = changes + 1
    /\ UNCHANGED cron

CronStart ==
    /\ cron.pc = "idle"
    /\ cron' = [CronIdle EXCEPT !.pc = "total", !.todo = Canaries]
    /\ UNCHANGED <<fleet, changes>>

CronRing(r) ==
    /\ cron.pc = "next" /\ r \in cron.todo
    /\ cron' = [cron EXCEPT !.pc = "total", !.ring = r, !.todo = @ \ {r}, !.m = NoMetrics]
    /\ UNCHANGED <<fleet, changes>>

\* calculateRingMetrics: a query per step.  A ring without agents is done.
CountAgents ==
    /\ cron.pc = "total"
    /\ cron' = [cron EXCEPT !.m.total = Cardinality(InRing(cron.ring)),
                            !.pc = IF InRing(cron.ring) = {} THEN "measured" ELSE "healthy"]
    /\ UNCHANGED <<fleet, changes>>

CountHealthy ==
    /\ cron.pc = "healthy"
    /\ cron' = [cron EXCEPT !.pc = "agents",
                   !.m.silent = cron.m.total - Cardinality({a \in InRing(cron.ring) : ~fleet[a].silent})]
    /\ UNCHANGED <<fleet, changes>>

ListAgents ==
    /\ cron.pc = "agents"
    /\ cron' = [cron EXCEPT !.pc = "det", !.ids = InRing(cron.ring)]
    /\ UNCHANGED <<fleet, changes>>

CountDetections ==
    /\ cron.pc = "det"
    /\ cron' = [cron EXCEPT !.pc = "fp", !.m.det = SumOver(cron.ids, "det")]
    /\ UNCHANGED <<fleet, changes>>

CountLow ==
    /\ cron.pc = "fp"
    /\ cron' = [cron EXCEPT !.pc = "measured", !.m.fp = SumOver(cron.ids, "low"), !.ids = {}]
    /\ UNCHANGED <<fleet, changes>>

\* prod is the baseline; a canary without a regression is left alone.
CronJudge ==
    /\ cron.pc = "measured"
    /\ cron' = IF cron.ring = "prod" THEN [cron EXCEPT !.base = cron.m, !.pc = "next"]
               ELSE [cron EXCEPT !.pc = IF detectRegression(cron.m, cron.base) THEN "find" ELSE "next"]
    /\ UNCHANGED <<fleet, changes>>

CronFind ==
    /\ cron.pc = "find"
    /\ cron' = [cron EXCEPT !.release = Served(cron.ring),
                            !.pc = IF Served(cron.ring) = None THEN "next" ELSE "halt"]
    /\ UNCHANGED <<fleet, changes>>

CronHalt ==
    /\ cron.pc = "halt"
    /\ SetStatus(cron.ring, cron.release, "halted")
    /\ cron' = [cron EXCEPT !.pc = "next"]
    /\ UNCHANGED <<fleet, changes, req, torn>>

CronDone ==
    /\ cron.pc = "next" /\ cron.todo = {}
    /\ cron' = CronIdle
    /\ UNCHANGED <<fleet, changes>>

\* A query fails: the route answers 500, what it halted stays halted.
CronFails ==
    /\ cron.pc # "idle" /\ changes < MaxChanges
    /\ cron' = CronIdle
    /\ changes' = changes + 1
    /\ UNCHANGED fleet
-----------------------------------------------------------------------------
Init ==
    /\ RolloutInit
    /\ fleet \in [Agents -> {s \in AgentState : ~s.silent /\ s.det = 0}]
    /\ cron = CronIdle /\ changes = 0

CronStep ==
    \/ /\ \/ CronStart \/ CountAgents \/ CountHealthy \/ ListAgents \/ CountDetections \/ CountLow
          \/ CronJudge \/ CronFind \/ CronDone
          \/ \E r \in Rings : CronRing(r)
       /\ UNCHANGED rolloutVars
    \/ CronHalt

Next ==
    \/ CronStep
    \/ CronFails /\ UNCHANGED rolloutVars
    \/ \E a \in Agents, s \in AgentState : Change(a, s) /\ UNCHANGED rolloutVars
    \/ RolloutNext /\ UNCHANGED healthVars

\* The scheduler invokes the route again and again.
Spec == Init /\ [][Next]_vars /\ WF_vars(CronStep)
-----------------------------------------------------------------------------
\* A ring whose agents stay silent ends up offering nothing: every release it
\* has active is halted, one invocation after the other.
SilentRingHalted ==
    \A r \in Canaries :
        <>[](InRing("prod") # {} /\ InRing(r) # {} /\ \A a \in InRing(r) : fleet[a].silent)
            => <>[](Served(r) = None)
=============================================================================
