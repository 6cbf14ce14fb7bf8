--------------------------- MODULE MCContentApply ---------------------------
(***************************************************************************)
(* Three corners of the content rollout, each with every interleaving of   *)
(* its own: one ring whose releases are published, halted and rolled back  *)
(* while applies fail; an agent moved between two rings; and two requests  *)
(* that race on one ring, without agents.                                  *)
(***************************************************************************)
EXTENDS ContentApply

CONSTANTS q1, q2

VARIABLE part

MCPaths == {"p", "q"}
All(h) == [p \in MCPaths |-> h]
Mixed == [p \in MCPaths |-> IF p = "p" THEN 1 ELSE 2]
MCContents == {All(h) : h \in Hashes} \union {Mixed}

\* What is published: on one ring the second content changes one artifact and
\* keeps the other; with two rings it changes both, and prod has the one that
\* does not load.
Publishes(r, S) ==
    \A q \in Requests : req'[q].op = "signed" /\ req'[q].ring = r => req'[q].content \in S

Corner ==
    CASE part = "one ring" -> /\ req'[q2] = Idle /\ moves' = 0 /\ (up' \/ faults' = 0)
                              /\ Publishes("canary", {All(1), Mixed}) /\ Publishes("prod", {})
      [] part = "two rings" -> /\ \A q \in Requests : req'[q].op \notin {"halt", "target"}
                               /\ req'[q2] = Idle /\ faults' = 0 /\ up'
                               /\ Len(rows'["prod"]) <= 1
                               /\ Publishes("canary", {All(1), All(2)})
                               /\ Publishes("prod", {All(2)})
      [] part = "races" -> /\ UNCHANGED applyVars
                           /\ Publishes("canary", {All(1)}) /\ Publishes("prod", {})

MCInit == Init /\ assigned = "canary" /\ part \in {"one ring", "two rings", "races"}
MCNext == Next /\ Corner /\ UNCHANGED part

MCSpec == MCInit /\ [][MCNext]_<<vars, part>> /\ Fairness
=============================================================================
