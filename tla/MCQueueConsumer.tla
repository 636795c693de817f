-------------------------- MODULE MCQueueConsumer --------------------------
(* Instances of QueueConsumer for TLC.                                     *)
EXTENDS QueueConsumer

AllFaults == FaultKinds
=============================================================================
