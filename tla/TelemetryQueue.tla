--------------------------- MODULE TelemetryQueue ---------------------------
(***************************************************************************)
(* What the store-and-forward pipeline promises: a record that was stored  *)
(* leaves the endpoint only after the server has it, or as a counted loss, *)
(* and never comes back once it left.  Delivery may repeat.  Only after a  *)
(* file operation has failed may storing a record spoil others.            *)
(***************************************************************************)
CONSTANT Records    \* every record that may be offered

VARIABLES
    stored,     \* records held on the endpoint
    delivered,  \* records the server has accepted
    lost,       \* records given up on
    broken      \* has a file operation failed?

vars == <<stored, delivered, lost, broken>>

Init == stored = {} /\ delivered = {} /\ lost = {} /\ broken = FALSE

\* A new record is offered; room may have to be made by giving up others.  A
\* failing operation may spoil the record, a later one other records too.
Offer ==
    \E r \in Records \ (stored \union delivered \union lost) :
        LET gone == (stored \union {r}) \ stored'
            spoilt == gone \ lost'
        IN  /\ stored' \subseteq stored \union {r}
            /\ lost' = lost \union (gone \ spoilt)
            /\ spoilt = {} \/ broken'
            /\ spoilt \subseteq {r} \/ broken
            /\ UNCHANGED delivered

\* The server accepts stored records, perhaps again.
Deliver ==
    /\ delivered \subseteq delivered' /\ delivered' \subseteq delivered \union stored
    /\ UNCHANGED <<stored, lost>>

\* Delivered records are deleted.
Retire ==
    /\ stored' \subseteq stored /\ stored \ stored' \subseteq delivered
    /\ UNCHANGED <<delivered, lost>>

\* Stored records are given up.
GiveUp ==
    /\ stored' \subseteq stored
    /\ lost' = lost \union (stored \ stored')
    /\ UNCHANGED delivered

\* A failure is for good.
Next == (Offer \/ Deliver \/ Retire \/ GiveUp) /\ (broken => broken')

Spec == Init /\ [][Next]_vars
=============================================================================
