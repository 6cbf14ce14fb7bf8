------------------------------ MODULE MCServer ------------------------------
(***************************************************************************)
(* Three parts of the management server, checked side by side: a behaviour *)
(* is one of ring health, of case grouping or of ingest, chosen at the     *)
(* start.  They share the agents and detections tables: each module has,   *)
(* as its own actions, what the others write there (an agent falls silent, *)
(* a detection is inserted).                                               *)
(***************************************************************************)
EXTENDS Naturals

VARIABLES
    part,
    rows, req, torn, fleet, cron, changes,
    dets, cases, inv, lock, narr, gen, aborts, generated,
    now, stored, sightings, lastSeen, hs, acked, shown, counted, posts

healthVars == <<rows, req, torn, fleet, cron, changes>>
groupingVars == <<dets, cases, inv, lock, narr, gen, aborts, generated>>
ingestVars == <<now, stored, sightings, lastSeen, hs, acked, shown, counted, posts>>
vars == <<part, healthVars, groupingVars, ingestVars>>

\* prod and one canary ring, two agents that may be moved, fall silent and
\* return, two releases to the canary ring (the cron never looks at prod's).
Health == INSTANCE RingHealth
            WITH Rings <- {"canary_0", "prod"}, Contents <- {"c"}, Requests <- {"q"},
                 MaxVersion <- 2, Halts <- FALSE, Rollbacks <- FALSE,
                 Agents <- {"a", "b"}, FpSpike <- 1, MaxDetections <- 1, MaxChanges <- 2

\* Three detections of two agents and two techniques, in any order of time, two
\* invocations of the cron, one of which may time out, or a narrative.  The
\* first detection is a's of technique 1; none differs from it in both.
Grouping == INSTANCE CaseGrouping
              WITH Agents <- {"a", "b"}, Techniques <- {<<1, 0>>, <<2, 0>>}, Severities <- {0},
                   Times <- 0 .. 2, Window <- 1, Batch <- 2, Invocations <- {"i", "j"},
                   MaxDetections <- 3, MaxAborts <- 1, MaxNarratives <- 1

\* Two requests of one agent, possibly at the same time: detections with
\* one idempotency key or none and two payloads, and event batches with a
\* stamp, without one, and with one too far ahead of the server's clock.
Body(t, ks) == [at |-> t, keys |-> ks]
Event(t, ks) == [stamp |-> t, keys |-> ks]
Ingest == INSTANCE FleetIngest
            WITH Agents <- {"a"}, Ids <- {1}, Keys <- {"k", "l"},
                 Payloads <- {Body(1, {"k", "l"}), Body(3, {"k"})},
                 Batches <- {{Event(1, {"k", "l"})}, {Event(0, {"k"}), Event(5, {"k", "l"})}},
                 Handlers <- {"q", "r"}, MaxNow <- 3, Skew <- 1,
                 Retention <- 1, MaxRows <- 1, MaxPosts <- 2

Init ==
    /\ part \in {"health", "grouping", "ingest"}
    /\ Health!Init /\ Grouping!Init /\ Ingest!Init
    /\ part # "health" => fleet = [a \in {"a", "b"} |->
                                     [ring |-> "prod", silent |-> FALSE, det |-> 0, low |-> 0]]

Next ==
    /\ UNCHANGED part
    /\ \/ part = "health" /\ Health!Next /\ UNCHANGED <<groupingVars, ingestVars>>
          /\ (req'["q"] # Health!Idle => req'["q"].ring = "canary_0")
       \/ part = "grouping" /\ Grouping!Next /\ UNCHANGED <<healthVars, ingestVars>>
          /\ (dets' # <<>> => dets'[1].agent = "a" /\ dets'[1].tech = <<1, 0>>)
          /\ (generated' = 0 \/ aborts' = 0)
          /\ (\A d \in DOMAIN dets' : dets'[d].agent = "a" \/ dets'[d].tech = <<1, 0>>)
       \/ part = "ingest" /\ Ingest!Next /\ UNCHANGED <<healthVars, groupingVars>>

Spec ==
    /\ Init /\ [][Next]_vars
    /\ WF_vars(part = "health" /\ Health!CronStep /\ UNCHANGED <<part, groupingVars, ingestVars>>)
    /\ WF_vars(/\ part = "grouping" /\ \E i \in {"i", "j"} : Grouping!Sweep(i)
               /\ UNCHANGED <<part, healthVars, ingestVars>>)

SilentRingHalted == Health!SilentRingHalted
GroupedOnce == Grouping!GroupedOnce
CaseIsOneStory == Grouping!CaseIsOneStory
FreshNarrativeIsComplete == Grouping!FreshNarrativeIsComplete
EverythingGrouped == Grouping!EverythingGrouped
AcceptedIsStored == Ingest!AcceptedIsStored
CountedOnce == Ingest!CountedOnce
RecentIsRemembered == Ingest!RecentIsRemembered
=============================================================================
