---------------------------- MODULE JobLifecycle ----------------------------
(***************************************************************************)
(* What a client that polls GET /analyze/{job_id} may see of a job: the    *)
(* abstract specification of the submission and the pipeline, with no      *)
(* broker, sessions or processes.  A job has at most one live run, known   *)
(* by the stage it entered last.                                           *)
(*                                                                         *)
(* The machine says what the code does, not what one would wish: a run     *)
(* that has read the row before a stop committed passes over "cancelled",  *)
(* and a redelivered message starts a job again whatever its status.       *)
(***************************************************************************)
CONSTANTS Jobs

Stages == {"detecting", "mapping", "analyzing", "planning", "validating"}
Statuses == Stages \cup {"absent", "pending", "complete", "failed", "cancelled"}

VARIABLES
    status,    \* the status column, "absent" without a row
    accepted,  \* jobs whose submit request has committed
    progress   \* the stage a live run of the job has entered, or "none"

vars == <<status, accepted, progress>>

TypeOK ==
    /\ status \in [Jobs -> Statuses]
    /\ accepted \in SUBSET Jobs
    /\ progress \in [Jobs -> Stages \cup {"none"}]

Init ==
    /\ status = [j \in Jobs |-> "absent"]
    /\ accepted = {}
    /\ progress = [j \in Jobs |-> "none"]

NextStage(s) ==
    CASE s = "detecting" -> "mapping"
      [] s = "mapping"   -> "analyzing"
      [] s = "analyzing" -> "planning"
      [] s = "planning"  -> "validating"

Set(j, s, p) ==
    /\ status' = [status EXCEPT ![j] = s]
    /\ progress' = [progress EXCEPT ![j] = p]
    /\ UNCHANGED accepted

Accept(j) ==
    /\ j \notin accepted
    /\ accepted' = accepted \cup {j}
    /\ status' = [status EXCEPT ![j] = "pending"]
    /\ UNCHANGED progress

(* A first run, a retried one, or the run of a redelivered message.  The   *)
(* run of a job that was "detecting" when the run read it does not write   *)
(* the status again, so a stop that came in between stays in the row.      *)
Begin(j) ==
    /\ progress[j] = "none"
    /\ status[j] # "absent"
    /\ \/ Set(j, "detecting", "detecting")
       \/ status[j] = "cancelled" /\ Set(j, "cancelled", "detecting")

(* The run at stage p still owns the row: nobody but a stop request has    *)
(* written the status since it entered p.                                  *)
Owns(j) ==
    /\ progress[j] # "none"
    /\ status[j] \in {progress[j], "cancelled"}

Advance(j) ==
    /\ Owns(j)
    /\ progress[j] # "validating"
    /\ Set(j, NextStage(progress[j]), NextStage(progress[j]))

Complete(j) ==
    /\ Owns(j)
    /\ progress[j] = "validating"
    /\ Set(j, "complete", "none")

Fail(j) ==
    /\ Owns(j)
    /\ Set(j, "failed", "none")

(* The run ends without a word: it crashed, saw the stop, or lost its      *)
(* session or its row.                                                     *)
Abandon(j) ==
    /\ progress[j] # "none"
    /\ Set(j, status[j], "none")

Stop(j) ==
    /\ status[j] # "absent"
    /\ Set(j, "cancelled", progress[j])

Delete(j) ==
    /\ status[j] # "absent"
    /\ Set(j, "absent", progress[j])

(* The API process dies: every run it hosted is abandoned at once.         *)
AbandonMany ==
    /\ progress' \in [Jobs -> Stages \cup {"none"}]
    /\ \A j \in Jobs : progress'[j] \in {progress[j], "none"}
    /\ UNCHANGED <<status, accepted>>

Next ==
    \/ \E j \in Jobs :
          \/ Accept(j) \/ Begin(j) \/ Advance(j) \/ Complete(j) \/ Fail(j)
          \/ Abandon(j) \/ Stop(j) \/ Delete(j)
    \/ AbandonMany

Spec == Init /\ [][Next]_vars
=============================================================================
