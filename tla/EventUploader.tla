--------------------------- MODULE EventUploader ---------------------------
(***************************************************************************)
(* The upload thread (crates/transport/src/upload.rs) on the spool it      *)
(* shares, behind a mutex taken once per spool call (agent/src/upload.rs), *)
(* with the enrich worker that pushes events.  The server and the network  *)
(* answer as they like.                                                    *)
(***************************************************************************)
EXTENDS Integers, FiniteSets

CONSTANTS
    SEGMENT_RECORDS, SEGMENT_MAX_BYTES, MaxBytes, Sizes,
    WriteErrors, MultiByte, MaxPushes, MaxCrashes,
    batch_size, max_drain_attempts, max_network_drain_attempts,
    MaxAttempts     \* bound: failures in a row explored, above both budgets

ASSUME UploaderAssumption ==
    /\ batch_size \in Nat \ {0}
    /\ max_drain_attempts \in Nat \ {0}
    /\ max_network_drain_attempts \in Nat \ {0}
    /\ MaxAttempts \in Nat /\ MaxAttempts >= max_drain_attempts + max_network_drain_attempts

VARIABLES
    jsonl, inflight, head, dropped_records, in_flight, up, crashes,
    pushes, accepted, handed, acked, shed, shedAtOpen, failed,
    pc,         \* where the upload thread is
    todo,       \* drained records this upload_once has still to send
    failures,   \* consecutive_failures and its two subsets
    stop,       \* the shared stop flag
    final,      \* is the thread in its final drain?
    received    \* history: records the server accepted

Spool == INSTANCE EventSpool

spoolVars == <<jsonl, inflight, head, dropped_records, in_flight, up, crashes,
               pushes, accepted, handed, acked, shed, shedAtOpen, failed>>
threadVars == <<pc, todo, failures, stop, final>>
vars == <<spoolVars, threadVars, received>>

None == -1
NoFailures == [all |-> 0, server |-> 0, network |-> 0]

\* What run and final_drain do with the result of one upload_once.
AfterIdle == IF final THEN "exited" ELSE "sleep"   \* Ok(0), or an error
AfterUpload == "loop"                              \* Ok(n)

\* The next chunk of at most batch_size records, in spool order.
Batch == {r \in todo : Cardinality({q \in todo : q < r}) < batch_size}
-----------------------------------------------------------------------------
\* The head of both loops: run sees the stop flag and starts its final drain,
\* the final drain sees its deadline pass.
EnterFinalDrain ==
    /\ up /\ pc = "loop" /\ stop /\ ~final
    /\ final' = TRUE
    /\ UNCHANGED <<spoolVars, pc, todo, failures, stop, received>>

BudgetSpent ==
    /\ up /\ pc = "loop" /\ final
    /\ pc' = "exited"
    /\ UNCHANGED <<spoolVars, todo, failures, stop, final, received>>

\* upload_once drains: a segment with no parseable record looks empty.
Drain ==
    /\ pc = "loop" /\ stop = final
    /\ Spool!DrainOldest
    /\ todo' = handed'
    /\ pc' = IF handed' = {} THEN AfterIdle ELSE "send"
    /\ UNCHANGED <<failures, stop, final, received>>

DrainNothing ==
    /\ up /\ pc = "loop" /\ stop = final
    /\ in_flight = None /\ DOMAIN jsonl = {}
    /\ pc' = AfterIdle
    /\ UNCHANGED <<spoolVars, todo, failures, stop, final, received>>

DrainFails ==
    /\ up /\ pc = "loop" /\ stop = final
    /\ in_flight = None /\ DOMAIN jsonl # {}
    /\ ~Spool!Readable(jsonl[Spool!Oldest(jsonl)])
    /\ pc' = AfterIdle
    /\ UNCHANGED <<spoolVars, todo, failures, stop, final, received>>

\* Mutant: a batch that is accepted forgets the segment's failures.
SendOk_Resets ==
    /\ up /\ pc = "send" /\ todo # {}
    /\ received' = received \union Batch
    /\ todo' = todo \ Batch
    /\ failures' = NoFailures
    /\ UNCHANGED <<spoolVars, pc, stop, final>>

\* One batch is accepted; the segment's failures stand until it is ack'd.
SendOk ==
    /\ up /\ pc = "send" /\ todo # {}
    /\ received' = received \union Batch
    /\ todo' = todo \ Batch
    /\ UNCHANGED <<spoolVars, pc, failures, stop, final>>

\* Mutant: the given-up segment is ack'd.
SkipSegment_Acks(counted) ==
    Spool!Ack /\ failures' = NoFailures

\* The segment is given up: skip, and its attempt history is forgotten; a
\* failed delete returns before the reset.
SkipSegment(counted) ==
    \/ Spool!Skip /\ failures' = NoFailures
    \/ Spool!RetireFails /\ failures' = counted

\* A non-retryable answer.
SendRejected ==
    /\ up /\ pc = "send" /\ todo # {}
    /\ SkipSegment(failures)
    /\ pc' = AfterIdle /\ todo' = {}
    /\ UNCHANGED <<stop, final, received>>

\* A retryable failure charged to one of the two budgets.
FailedAttempt(budget, max) ==
    LET counted == [failures EXCEPT !.all = @ + 1, ![budget] = @ + 1]
    IN  /\ IF counted[budget] >= max
           THEN SkipSegment(counted)
           ELSE failures' = counted /\ UNCHANGED spoolVars
        /\ pc' = AfterIdle /\ todo' = {}
        /\ UNCHANGED <<stop, final>>

\* A 5xx, or a body that does not parse.
SendServerError ==
    /\ up /\ pc = "send" /\ todo # {} /\ failures.all < MaxAttempts
    /\ FailedAttempt("server", max_drain_attempts)
    /\ UNCHANGED received

\* A connectivity failure.
SendNetworkError ==
    /\ up /\ pc = "send" /\ todo # {} /\ failures.all < MaxAttempts
    /\ FailedAttempt("network", max_network_drain_attempts)
    /\ UNCHANGED received

\* The server takes the batch and the thread does not know: the answer is
\* late, lost, or an error.
AnswerLost ==
    /\ up /\ pc = "send" /\ todo # {}
    /\ received' = received \union Batch
    /\ UNCHANGED <<spoolVars, threadVars>>

\* Mutant: ack after the first batch.
Commit_FirstBatch ==
    /\ pc = "send" /\ todo # handed
    /\ Spool!Ack
    /\ failures' = NoFailures
    /\ pc' = AfterUpload
    /\ todo' = {}
    /\ UNCHANGED <<stop, final, received>>

\* Mutant: the attempt history survives the ack.
Commit_KeepsFailures ==
    /\ pc = "send" /\ todo = {}
    /\ Spool!Ack
    /\ pc' = AfterUpload
    /\ UNCHANGED <<todo, failures, stop, final, received>>

\* Every batch went through: ack, then forget the attempt history.
Commit ==
    /\ pc = "send" /\ todo = {}
    /\ Spool!Ack
    /\ failures' = NoFailures
    /\ pc' = AfterUpload
    /\ UNCHANGED <<todo, stop, final, received>>

CommitFails ==
    /\ pc = "send" /\ todo = {}
    /\ Spool!RetireFails
    /\ pc' = AfterIdle
    /\ UNCHANGED <<todo, failures, stop, final, received>>

\* The poll or backoff sleep ends, or the stop flag cuts it short.
Wake ==
    /\ up /\ pc = "sleep"
    /\ pc' = "loop"
    /\ UNCHANGED <<spoolVars, todo, failures, stop, final, received>>
-----------------------------------------------------------------------------
Produce(b) ==
    /\ Spool!Push(b) \/ Spool!PushFails(b) \/ Spool!PushCapFails(b)
    /\ UNCHANGED <<threadVars, received>>

RequestStop ==
    /\ up /\ ~stop /\ crashes < MaxCrashes
    /\ stop' = TRUE
    /\ UNCHANGED <<spoolVars, pc, todo, failures, final, received>>

\* The thread's memory goes with the process; start begins with a new one.
FreshThread ==
    /\ pc' = "loop" /\ todo' = {} /\ failures' = NoFailures
    /\ stop' = FALSE /\ final' = FALSE

\* The agent exits once the stopped thread is joined.
Exit ==
    /\ pc = "exited"
    /\ Spool!Crash
    /\ FreshThread /\ UNCHANGED received

\* The process dies in the middle of anything.
Die ==
    /\ Spool!Crash \/ \E b \in Sizes : Spool!CrashInPush(b)
    /\ FreshThread /\ UNCHANGED received

Restart ==
    /\ Spool!Open
    /\ UNCHANGED <<threadVars, received>>

Init ==
    /\ Spool!Init
    /\ pc = "loop" /\ todo = {} /\ failures = NoFailures
    /\ stop = FALSE /\ final = FALSE
    /\ received = {}

UploadStep ==
    \/ EnterFinalDrain \/ BudgetSpent
    \/ Drain \/ DrainNothing \/ DrainFails
    \/ SendOk \/ SendRejected \/ SendServerError \/ SendNetworkError
    \/ Commit \/ CommitFails \/ Wake

Next ==
    \/ UploadStep
    \/ \E b \in Sizes : Produce(b)
    \/ AnswerLost
    \/ RequestStop \/ Exit \/ Die \/ Restart

\* The upload thread keeps running, a stopped agent exits, and the service
\* manager starts it again.
Fairness == WF_vars(UploadStep) /\ WF_vars(Exit) /\ WF_vars(Restart)

Spec == Init /\ [][Next]_vars /\ Fairness
-----------------------------------------------------------------------------
\* ack deletes a segment only when the server has every record of it that
\* parses, whatever crashes, stops and repeated or half-done uploads came
\* before: upload_once acks after its last batch.
DeletedOnlyIfDelivered == acked \subseteq received

\* The failure counters belong to the segment in flight: with none in flight
\* they are zero, so no segment is charged for another one's failures.
BudgetPerSegment == up /\ in_flight = None => failures = NoFailures

\* End to end, the spool and its uploader are a telemetry queue that delivers
\* at least once: a stored record leaves the disk only when the server has it
\* or as a shed record, and never returns; only after a failed file operation
\* may a push spoil another record.
Queue == INSTANCE TelemetryQueue
            WITH Records <- 0 .. MaxPushes - 1,
                 stored <- Spool!OnDisk, delivered <- received, lost <- shed,
                 broken <- failed
ImplementsQueue == Queue!Spec

\* A segment on disk that drain_oldest can neither read nor find a record in.
Poisoned ==
    \E dir \in {jsonl, inflight} : \E s \in DOMAIN dir :
        ~Spool!Readable(dir[s]) \/ Spool!RecordsOf(dir[s]) = {}

\* Forward progress: every record whose push returned Ok is eventually
\* uploaded and ack'd, or shed, however the server answers and wherever the
\* agent stops, unless a file operation fails or a crash in the middle of an
\* append leaves a segment the drain cannot use.
ForwardProgress ==
    \A r \in 0 .. MaxPushes - 1 :
        r \in accepted ~> r \in acked \union shed \/ failed \/ Poisoned
=============================================================================
