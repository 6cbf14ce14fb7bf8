---------------------------- MODULE FleetIngest ----------------------------
(***************************************************************************)
(* What agents send to the management server: POST /api/ingest/detection   *)
(* with its idempotency key, POST /api/ingest/events, and the prevalence   *)
(* table both feed (server/lib/prevalence.ts), pruned by a cron.           *)
(*                                                                         *)
(* One tenant.  A handler awaits the database after each statement, so     *)
(* handlers interleave there, and a client whose request failed repeats    *)
(* it, possibly while the first is still running.                          *)
(***************************************************************************)
EXTENDS Integers, FiniteSets, FiniteSetsExt, Sequences, SequencesExt

CONSTANTS
    Agents,
    Ids,            \* idempotency keys an agent uses, positive
    Keys,           \* hashes, paths, transitions, domains that are counted
    Payloads,       \* detection bodies: when (at) and which keys their event shows
    Batches,        \* event batches: sets of [stamp, keys]; stamp 0 is missing or malformed
    Handlers,       \* requests in progress at the same time
    MaxNow,         \* bound: the server's clock
    Skew,           \* MAX_CLOCK_SKEW_MS
    Retention,      \* PREVALENCE_RETENTION_DAYS
    MaxRows,        \* PREVALENCE_MAX_ROWS_PER_TENANT
    MaxPosts        \* bound: requests made

VARIABLES
    now,        \* the server's clock
    stored,     \* the rows of detections: agent, idempotency key, payload
    sightings,  \* <<agent, key>> -> first, last, count
    lastSeen,   \* agent -> when the server last heard of it
    hs,         \* the handlers
    acked,      \* the detections the agent was told are accepted
    shown,      \* history: <<agent, key>> -> events posted that show the key
    counted,    \* history: <<agent, key, time>> counted, and not dropped by the cap
    posts

vars == <<now, stored, sightings, lastSeen, hs, acked, shown, counted, posts>>

Idle == [pc |-> "idle"]
NoKey == 0      \* no Idempotency-Key header
Pairs == Agents \X Keys
Finish(q) == hs' = [hs EXCEPT ![q] = Idle]
Goto(q, pc) == hs' = [hs EXCEPT ![q].pc = pc]

NoRow == [first |-> 0, last |-> 0, count |-> 0]

\* Mutant: the last statement decides.
Upsert_Overwrites(row, items) ==
    LET ats == {i.at : i \in items} IN
    [first |-> Min(ats), last |-> Max(ats), count |-> row.count + Cardinality(items)]

\* The upsert of recordSightings, for a key that items show.
Upsert(row, items) ==
    LET ats == {i.at : i \in items} IN
    IF row.count = 0 THEN [first |-> Min(ats), last |-> Max(ats), count |-> Cardinality(items)]
    ELSE [first |-> Min(ats \union {row.first}), last |-> Max(ats \union {row.last}),
          count |-> row.count + Cardinality(items)]

\* aggregateSightings and recordSightings.
Record(a, items) ==
    LET showing(k) == {i \in items : k \in i.keys} IN
    /\ sightings' = [p \in Pairs |-> IF p[1] = a /\ showing(p[2]) # {}
                                     THEN Upsert(sightings[p], showing(p[2])) ELSE sightings[p]]
    /\ counted' = counted \union UNION {{<<a, k, i.at>> : k \in i.keys} : i \in items}
-----------------------------------------------------------------------------
\* An agent uploads a detection: new, or one it has no answer for.
PostDetection(q, a, id, d) ==
    /\ hs[q] = Idle /\ posts < MaxPosts
    /\ hs' = [hs EXCEPT ![q] = [pc |-> "insert", agent |-> a, id |-> id, body |-> d]]
    /\ posts' = posts + 1
    /\ UNCHANGED <<now, stored, sightings, lastSeen, acked, shown, counted>>

Sent(q) == [agent |-> hs[q].agent, id |-> hs[q].id, body |-> hs[q].body]
SameKey(q) == {d \in Range(stored) : d.agent = hs[q].agent /\ d.id = hs[q].id}

\* Without an idempotency key nothing is a duplicate.
Insert(q) ==
    /\ hs[q].pc = "insert"
    /\ IF hs[q].id = NoKey \/ SameKey(q) = {}
       THEN stored' = Append(stored, Sent(q)) /\ Goto(q, "count")
       ELSE UNCHANGED stored /\ Goto(q, "duplicate")
    /\ UNCHANGED <<now, sightings, lastSeen, acked, shown, counted, posts>>

\* Mutant: a key that is known is acknowledged, whatever the payload.
Duplicate_Any(q) ==
    /\ hs[q].pc = "duplicate"
    /\ Goto(q, "seen")
    /\ UNCHANGED <<now, stored, sightings, lastSeen, acked, shown, counted, posts>>

\* Mutant: an answered repeat is counted like the first.
Duplicate_Counts(q) ==
    /\ hs[q].pc = "duplicate"
    /\ IF \E d \in SameKey(q) : d.body = hs[q].body THEN Goto(q, "count") ELSE Finish(q)
    /\ UNCHANGED <<now, stored, sightings, lastSeen, acked, shown, counted, posts>>

\* The key is known: the same payload is acknowledged, another refused (409).
Duplicate(q) ==
    /\ hs[q].pc = "duplicate"
    /\ IF \E d \in SameKey(q) : d.body = hs[q].body THEN Goto(q, "seen") ELSE Finish(q)
    /\ UNCHANGED <<now, stored, sightings, lastSeen, acked, shown, counted, posts>>

\* Best effort: a failed count does not fail the request.
Count(q) ==
    /\ hs[q].pc = "count"
    /\ Record(hs[q].agent, {hs[q].body}) \/ UNCHANGED <<sightings, counted>>
    /\ Goto(q, "seen")
    /\ UNCHANGED <<now, stored, lastSeen, acked, shown, posts>>

Answer(q) ==
    /\ hs[q].pc = "seen"
    /\ lastSeen' = [lastSeen EXCEPT ![hs[q].agent] = now]
    /\ acked' = acked \union {Sent(q)}
    /\ Finish(q)
    /\ UNCHANGED <<now, stored, sightings, shown, counted, posts>>
-----------------------------------------------------------------------------
\* eventTime: a missing or far-future stamp becomes now.
eventTime(stamp) == IF stamp = 0 \/ stamp > now + Skew THEN now ELSE stamp

\* The clock is read once, before the batch is recorded.
PostEvents(q, a, b) ==
    /\ hs[q] = Idle /\ posts < MaxPosts
    /\ hs' = [hs EXCEPT ![q] = [pc |-> "sight", agent |-> a, now |-> now,
                                items |-> {[at |-> eventTime(e.stamp), keys |-> e.keys, stamp |-> e.stamp] :
                                            e \in b}]]
    /\ shown' = [p \in Pairs |-> IF p[1] # a THEN shown[p]
                                 ELSE shown[p] + Cardinality({e \in b : p[2] \in e.keys})]
    /\ posts' = posts + 1
    /\ UNCHANGED <<now, stored, sightings, lastSeen, acked, counted>>

Sight(q) ==
    /\ hs[q].pc = "sight"
    /\ Record(hs[q].agent, hs[q].items) \/ UNCHANGED <<sightings, counted>>
    /\ Goto(q, "heard")
    /\ UNCHANGED <<now, stored, lastSeen, acked, shown, posts>>

\* lastSeen becomes the time read at the start, which may be behind.
AnswerEvents(q) ==
    /\ hs[q].pc = "heard"
    /\ lastSeen' = [lastSeen EXCEPT ![hs[q].agent] = hs[q].now]
    /\ Finish(q)
    /\ UNCHANGED <<now, stored, sightings, acked, shown, counted, posts>>

\* A handler ends between two statements, or its answer is lost.
HandlerDies(q) ==
    /\ hs[q] # Idle
    /\ Finish(q)
    /\ UNCHANGED <<now, stored, sightings, lastSeen, acked, shown, counted, posts>>

\* prunePrevalence: by age, then the oldest-seen rows over the cap.
Live == {p \in Pairs : sightings[p].count > 0}
Young == {p \in Live : sightings[p].last >= now - Retention}
Prune(kept) ==
    /\ kept \subseteq Young
    /\ Cardinality(kept) = Min({Cardinality(Young), MaxRows})
    /\ \A p \in kept, p2 \in Young \ kept : sightings[p].last >= sightings[p2].last
    /\ kept # Live
    /\ sightings' = [p \in Pairs |-> IF p \in kept THEN sightings[p] ELSE NoRow]
    /\ counted' = {c \in counted : <<c[1], c[2]>> \notin Young \ kept}
    /\ UNCHANGED <<now, stored, lastSeen, hs, acked, shown, posts>>

Tick ==
    /\ now < MaxNow
    /\ now' = now + 1
    /\ UNCHANGED <<stored, sightings, lastSeen, hs, acked, shown, counted, posts>>
-----------------------------------------------------------------------------
Init ==
    /\ now = 0
    /\ stored = <<>> /\ acked = {} /\ counted = {} /\ posts = 0
    /\ sightings = [p \in Pairs |-> NoRow]
    /\ lastSeen = [a \in Agents |-> now]
    /\ hs = [q \in Handlers |-> Idle]
    /\ shown = [p \in Pairs |-> 0]

Next ==
    \/ \E q \in Handlers :
         \/ Insert(q) \/ Duplicate(q) \/ Count(q) \/ Answer(q)
         \/ Sight(q) \/ AnswerEvents(q) \/ HandlerDies(q)
         \/ \E a \in Agents : \/ \E id \in Ids \union {NoKey}, d \in Payloads : PostDetection(q, a, id, d)
                              \/ \E b \in Batches : PostEvents(q, a, b)
    \/ \E kept \in SUBSET Pairs : Prune(kept)
    \/ Tick

Spec == Init /\ [][Next]_vars
-----------------------------------------------------------------------------
\* A detection the agent was told is accepted is stored as it was sent, and an
\* agent's idempotency key names no other: retries, answers lost and overlapping
\* repeats included.
AcceptedIsStored ==
    /\ acked \subseteq Range(stored)
    /\ \A i, j \in DOMAIN stored :
         i # j /\ stored[i].agent = stored[j].agent /\ stored[i].id = stored[j].id
            => stored[i].id = NoKey

\* "without creating another row or counting prevalence twice" (transport): the
\* count of a key at an agent never exceeds the agent's stored detections that
\* show the key and the events it posted that do, whatever is repeated after a
\* lost answer.
CountedOnce ==
    \A p \in Pairs :
        sightings[p].count
            <= Cardinality({i \in DOMAIN stored : stored[i].agent = p[1] /\ p[2] \in stored[i].body.keys})
               + shown[p]

\* What an agent showed within the retention is in the table, and within the
\* span of its row, unless the row fell to the cap: an old batch flushed late,
\* between a newer sighting and the prune, takes nothing away.
RecentIsRemembered ==
    \A c \in counted :
        LET p == <<c[1], c[2]>> IN
        c[3] >= now - Retention =>
            p \in Live /\ sightings[p].first <= c[3] /\ c[3] <= sightings[p].last
=============================================================================
