--------------------------- MODULE MCBatchWorker ---------------------------
(* Small instances of BatchWorker for TLC.                                 *)
EXTENDS BatchWorker

CONSTANTS q1, q2

MCQueries == {q1, q2}

NoFaults == {}
RedisFault == {"redis"}
AllFaults == FaultKinds

=============================================================================
