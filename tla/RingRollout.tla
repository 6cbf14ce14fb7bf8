---------------------------- MODULE RingRollout ----------------------------
(***************************************************************************)
(* The content releases of one tenant on the management server: the        *)
(* content_releases table and the routes that change it (server/app/api/   *)
(* content/{release,halt,rollback}, cron/check-ring-health), with what the *)
(* manifest route offers an agent (lib/active-content-manifest.ts).        *)
(*                                                                         *)
(* A request handler awaits the database between its reads and its writes  *)
(* and none of them uses a transaction, so requests interleave at every    *)
(* await and a handler may end after any of them.                          *)
(***************************************************************************)
EXTENDS Integers, FiniteSets, FiniteSetsExt, Sequences

CONSTANTS
    Rings,          \* the rings; "prod" is not watched by the cron
    Contents,       \* what a manifest may list
    Requests,       \* handlers that may run at the same time
    MaxVersion,     \* bound: releases created per ring
    Halts,          \* do operators and the cron halt releases?
    Rollbacks       \* do operators roll rings back?

ASSUME RolloutAssumption ==
    /\ IsFiniteSet(Rings) /\ Rings # {} /\ Contents # {} /\ Requests # {}
    /\ MaxVersion \in Nat \ {0}
    /\ Halts \in BOOLEAN /\ Rollbacks \in BOOLEAN

VARIABLES
    rows,   \* ring -> its releases; the index is releaseVersion
    req,    \* the handlers in progress
    torn    \* history: the rings where a rollback ended between its two
            \* writes, and none has been completed since

rolloutVars == <<rows, req, torn>>

None == 0
Idle == [op |-> "idle"]
Version == 1 .. MaxVersion

\* A row points at a manifest, which carries the version it was signed with.
Row == [status : {"active", "halted", "rolled_back"}, signed : Version, content : Contents]

Newest(r, statuses) == Max({None} \union {v \in DOMAIN rows[r] : rows[r][v].status \in statuses})

\* loadActiveManifest: the newest active release; a manifest that disagrees
\* with its row is refused (502).
Served(r) == Newest(r, {"active"})
Offered(r) == IF Served(r) # None /\ rows[r][Served(r)].signed = Served(r)
              THEN Served(r) ELSE None

SetStatus(r, v, s) == rows' = [rows EXCEPT ![r][v].status = s]
-----------------------------------------------------------------------------
(* POST /api/content/release.  The manifest is signed offline before the    *)
(* request, for the version after the newest one.                           *)
Sign(q, r, c) ==
    /\ req[q] = Idle /\ Len(rows[r]) < MaxVersion
    /\ req' = [req EXCEPT ![q] = [op |-> "signed", ring |-> r, content |-> c,
                                  signed |-> Len(rows[r]) + 1]]
    /\ UNCHANGED <<rows, torn>>

CreateRead(q) ==
    /\ req[q].op = "signed" /\ Len(rows[req[q].ring]) < MaxVersion
    /\ req' = [req EXCEPT ![q] = [op |-> "create", ring |-> @.ring, content |-> @.content,
                                  signed |-> @.signed, next |-> Len(rows[@.ring]) + 1]]
    /\ UNCHANGED <<rows, torn>>

\* The unique index on (tenant, ring, version) refuses a second insert (500).
CreateWrite(q) ==
    /\ req[q].op = "create"
    /\ rows' = IF Len(rows[req[q].ring]) >= req[q].next THEN rows
               ELSE [rows EXCEPT ![req[q].ring] =
                       Append(@, [status |-> "active", signed |-> req[q].signed,
                                  content |-> req[q].content])]
    /\ req' = [req EXCEPT ![q] = Idle]
    /\ UNCHANGED torn

\* POST /api/content/halt, and the cron once it found a regression.
HaltRead(q, r) ==
    /\ Halts /\ req[q] = Idle /\ Served(r) # None
    /\ req' = [req EXCEPT ![q] = [op |-> "halt", ring |-> r, release |-> Served(r)]]
    /\ UNCHANGED <<rows, torn>>

AutoHaltRead(q, r) ==
    /\ Halts /\ r # "prod" /\ req[q] = Idle /\ Served(r) # None
    /\ req' = [req EXCEPT ![q] = [op |-> "halt", ring |-> r, release |-> Served(r)]]
    /\ UNCHANGED <<rows, torn>>

HaltWrite(q) ==
    /\ req[q].op = "halt"
    /\ SetStatus(req[q].ring, req[q].release, "halted")
    /\ req' = [req EXCEPT ![q] = Idle]
    /\ UNCHANGED torn

\* POST /api/content/rollback, with targetVersion t or without (None).
RollbackRead(q, r, t) ==
    /\ Rollbacks /\ req[q] = Idle
    /\ LET current == Newest(r, {"active", "halted"}) IN
       /\ current # None
       /\ req' = [req EXCEPT ![q] = [op |-> "target", ring |-> r, current |-> current,
                                     asked |-> t]]
    /\ UNCHANGED <<rows, torn>>

\* The release before the current one, whatever its status, or the one asked for.
Target(q) ==
    IF req[q].asked = None THEN req[q].current - 1
    ELSE IF req[q].asked \in DOMAIN rows[req[q].ring] THEN req[q].asked ELSE None

\* Mutant: the target is activated before the current release is taken back.
RollbackTarget_TargetFirst(q) ==
    /\ req[q].op = "target"
    /\ req' = [req EXCEPT ![q] =
                 IF Target(q) \in {None, @.current} THEN Idle
                 ELSE [op |-> "rollback", ring |-> @.ring,
                       writes |-> <<<<Target(q), "active">>, <<@.current, "rolled_back">>>>]]
    /\ UNCHANGED <<rows, torn>>

RollbackTarget(q) ==
    /\ req[q].op = "target"
    /\ req' = [req EXCEPT ![q] =
                 IF Target(q) \in {None, @.current} THEN Idle
                 ELSE [op |-> "rollback", ring |-> @.ring,
                       writes |-> <<<<@.current, "rolled_back">>, <<Target(q), "active">>>>]]
    /\ UNCHANGED <<rows, torn>>

\* The two updates, one after the other.
RollbackWrite(q) ==
    /\ req[q].op = "rollback"
    /\ SetStatus(req[q].ring, req[q].writes[1][1], req[q].writes[1][2])
    /\ req' = [req EXCEPT ![q] = IF Len(@.writes) = 1 THEN Idle
                                 ELSE [@ EXCEPT !.writes = Tail(@)]]
    /\ torn' = IF Len(req[q].writes) = 1 THEN torn \ {req[q].ring} ELSE torn

HalfRolledBack(q) == req[q].op = "rollback" /\ Len(req[q].writes) = 1

\* The server ends a handler between two awaits (restart, database error).
RequestDies(q) ==
    /\ req[q] # Idle
    /\ req' = [req EXCEPT ![q] = Idle]
    /\ torn' = torn \union (IF HalfRolledBack(q) THEN {req[q].ring} ELSE {})
    /\ UNCHANGED rows
-----------------------------------------------------------------------------
RolloutInit ==
    /\ rows = [r \in Rings |-> <<>>]
    /\ req = [q \in Requests |-> Idle]
    /\ torn = {}

Handle(q) ==
    \/ CreateRead(q) \/ CreateWrite(q) \/ HaltWrite(q)
    \/ RollbackTarget(q) \/ RollbackWrite(q)

RolloutNext ==
    \E q \in Requests :
        \/ Handle(q) \/ RequestDies(q)
        \/ \E r \in Rings :
             \/ \E c \in Contents : Sign(q, r, c)
             \/ HaltRead(q, r) \/ AutoHaltRead(q, r)
             \/ \E t \in {None} \union Version : RollbackRead(q, r, t)

RolloutSpec == RolloutInit /\ [][RolloutNext]_rolloutVars
-----------------------------------------------------------------------------
\* However rollbacks, halts and releases race, a ring that has releases is left
\* with none to serve only by a halt, or by a rollback that ended between its
\* two writes: two rollbacks in opposite directions never take each other's
\* target away, because each writes its target last.
RollbackLeavesServing ==
    \A r \in Rings :
        rows[r] # <<>> =>
          \/ Served(r) # None
          \/ \E v \in DOMAIN rows[r] : rows[r][v].status = "halted"
          \/ \E q \in Requests : HalfRolledBack(q) /\ req[q].ring = r
          \/ r \in torn

=============================================================================
