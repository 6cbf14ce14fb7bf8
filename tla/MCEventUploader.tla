-------------------------- MODULE MCEventUploader --------------------------
EXTENDS EventUploader

\* Bound: once a file operation failed, no further push fails.
FailsAgain == failed /\ up' /\ pushes' # pushes /\ accepted' = accepted

MCSpec == Init /\ [][Next /\ ~FailsAgain]_vars /\ Fairness
=============================================================================
