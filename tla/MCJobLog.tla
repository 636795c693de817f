------------------------------ MODULE MCJobLog ------------------------------
(* Instances of JobLog for TLC.  Calls, pages and polls are each           *)
(* interchangeable.                                                        *)
EXTENDS JobLog, TLC

Symmetric == Permutations(Calls) \cup Permutations(Clients) \cup Permutations(Polls)
=============================================================================
