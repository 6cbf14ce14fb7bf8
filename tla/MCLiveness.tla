----------------------------- MODULE MCLiveness -----------------------------
(***************************************************************************)
(* The two ways silence is noticed, checked side by side: a behaviour is   *)
(* one of an agent's silence monitor, with a sensor that has no canary or  *)
(* with one that has, or one of the fleet at the control plane, with two   *)
(* overlapping invocations of the cron or with two agents; which, is       *)
(* chosen at the start.  The monitor treats its sensors one by one.        *)
(***************************************************************************)
EXTENDS Integers

CONSTANT Hostnames     \* the agents enrolled with a hostname

VARIABLES
    part,
    working, advanced, age, alerted, posted, shown, sincePoll, steps, quiet, reported,
    alive, sent, waiting, handlers, seen, cases, grouped, cron, died, raced

silenceVars == <<working, advanced, age, alerted, posted, shown, sincePoll, steps, quiet, reported>>
fleetVars == <<alive, sent, waiting, handlers, seen, cases, grouped, cron, died, raced>>
vars == <<part, silenceVars, fleetVars>>

\* A sensor with a single source and one with two; the wall clock is set once,
\* forwards or back.
Ebpf == INSTANCE SensorSilence
          WITH Sensors <- {"sensor"}, Sources <- [s \in {"sensor"} |-> {"probe"}],
               DEADLINE <- 2, Canaried <- {}, CANARY <- 1, POLL_INTERVAL <- 1,
               ClockSteps <- {-2, 2}, MaxSteps <- 1, Requests <- {"q", "r"}
Netlink == INSTANCE SensorSilence
             WITH Sensors <- {"sensor"}, Sources <- [s \in {"sensor"} |-> {"tcp", "udp"}],
                  DEADLINE <- 2, Canaried <- {"sensor"}, CANARY <- 1, POLL_INTERVAL <- 1,
                  ClockSteps <- {-2, 2}, MaxSteps <- 1, Requests <- {"q", "r"}

Overlap == INSTANCE AgentLiveness
             WITH Agents <- {"a"}, Crons <- {"c", "d"}, SILENCE_THRESHOLD <- 1,
                  MaxBeacons <- 2, MaxDies <- 1
Fleet == INSTANCE AgentLiveness
           WITH Agents <- {"a", "b"}, Crons <- {"c"}, SILENCE_THRESHOLD <- 1,
                MaxBeacons <- 1, MaxDies <- 1

Init ==
    \/ part = "ebpf" /\ Ebpf!Init /\ Overlap!Init
    \/ part = "netlink" /\ Netlink!Init /\ Overlap!Init
    \/ part = "overlap" /\ Ebpf!Init /\ Overlap!Init
    \/ part = "fleet" /\ Ebpf!Init /\ Fleet!Init

Next ==
    /\ UNCHANGED part
    /\ \/ part = "ebpf" /\ Ebpf!Next /\ UNCHANGED fleetVars
       \/ part = "netlink" /\ Netlink!Next /\ UNCHANGED fleetVars
       \/ part = "overlap" /\ Overlap!Next /\ UNCHANGED silenceVars
       \/ part = "fleet" /\ Fleet!Next /\ UNCHANGED silenceVars

\* The fairness of each part.
InSilence(E, N) ==
    ((part = "ebpf" /\ E) \/ (part = "netlink" /\ N)) /\ UNCHANGED <<part, fleetVars>>
InFleet(O, F) ==
    ((part = "overlap" /\ O) \/ (part = "fleet" /\ F)) /\ UNCHANGED <<part, silenceVars>>
Spec ==
    /\ Init /\ [][Next]_vars
    /\ WF_vars(InSilence(Ebpf!Poll, Netlink!Poll))
    /\ WF_vars(InSilence(Ebpf!Tick, Netlink!Tick))
    /\ WF_vars(InSilence(FALSE, Netlink!Pulse("sensor")))
    /\ WF_vars(InFleet(Overlap!Tick, Fleet!Tick))
    /\ WF_vars(InFleet(Overlap!CronStep("c"), Fleet!CronStep("c")))
    /\ WF_vars(InFleet(Overlap!CronStep("d"), FALSE))

VerdictIsTrue == Ebpf!VerdictIsTrue
OneVerdictPerEpisode == Ebpf!OneVerdictPerEpisode
SilenceShown == Ebpf!SilenceShown /\ (part = "netlink" => Netlink!SilenceShown)
\* Of two agents, "a" is either.
OneSilentCase == Overlap!OneSilentCase
DeadAgentGetsCase == Overlap!DeadAgentGetsCase
=============================================================================
