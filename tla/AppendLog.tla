----------------------------- MODULE AppendLog -----------------------------
(***************************************************************************)
(* What a client may rely on of a job's progress log: entries are only     *)
(* added, at the end, and the log goes when its job is deleted.            *)
(***************************************************************************)
EXTENDS Sequences

CONSTANT Entries
VARIABLES log, deleted

Init == log = <<>> /\ deleted = FALSE

Add(e) == ~deleted /\ log' = Append(log, e) /\ UNCHANGED deleted

Delete == deleted' = TRUE /\ log' = <<>>

Next == (\E e \in Entries : Add(e)) \/ Delete

Spec == Init /\ [][Next]_<<log, deleted>>
=============================================================================
