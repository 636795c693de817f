--------------------------- MODULE MCJobPipeline ---------------------------
(* Instances of JobPipeline for TLC.                                       *)
EXTENDS JobPipeline

AllFaults == FaultKinds

(* Failures a run recovers from.                                           *)
RecoverableFaults == {"agent", "rollback", "handler", "crash"}

NoFaults == {}
=============================================================================
