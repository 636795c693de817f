---------------------------- MODULE JobPipeline ----------------------------
(***************************************************************************)
(* One analysis job from its submission to its last status: the API's      *)
(* submit, stop and delete requests, the broker, the worker processes that *)
(* consume alm.analyze, the in-process fallback tasks, and                 *)
(* AnalysisService.run, which all of them drive.                           *)
(*                                                                         *)
(* A run works on a COPY of the job's row (the ORM identity map of its     *)
(* session, created with expire_on_commit=False).  The copy is read once,  *)
(* and is refreshed only after a rollback has expired it.  A commit writes *)
(* the columns that differ from the copy, and no others.                   *)
(***************************************************************************)
EXTENDS Broker

CONSTANTS
    Faults,     \* the kinds of failure the environment may cause
    MaxFaults   \* bound: how many of them

Stages == {"detecting", "mapping", "analyzing", "planning", "validating"}
Terminal == {"complete", "failed", "cancelled"}
Statuses == Stages \cup Terminal \cup {"pending", "absent"}

FaultKinds == {"agent", "rollback", "db", "handler", "crash",
               "channel", "confirm", "nobroker", "api", "ttl"}

ASSUME PipelineAssumption ==
    /\ Faults \subseteq FaultKinds
    /\ MaxFaults \in Nat
    /\ Jobs \cap Workers = {}
    /\ MaxRetries > 1

(* A run is driven by a worker, or by the background task of the request   *)
(* that submitted the job; the task is identified with its job.  A worker  *)
(* stands for one running handler: a process whose channel was reopened    *)
(* can have two, and then counts as two workers.                           *)
Runners == Workers \cup Jobs

Rows == [status : Statuses,
         stage  : Stages \cup {"none"},   \* current_stage
         error  : Stages \cup {"none"}]   \* error_stage

NoRow  == [status |-> "absent",  stage |-> "none", error |-> "none"]
NewRow == [status |-> "pending", stage |-> "none", error |-> "none"]

VARIABLES
    row,       \* the committed jobs table; status "absent": no row
    req,       \* how far the submit request of each job has come
    stopping,  \* stop requests that have read a stoppable status
    pc,        \* the control point of each run
    on,        \* the job it works on
    at,        \* the stage it is in, or about to enter
    copy,      \* its session's copy of the row
    sess,      \* its session
    dropped,   \* history: jobs a run of which ended before its first commit
    faults     \* failures so far

runVars == <<pc, on, at, copy, sess>>
vars == <<brokerVars, row, req, stopping, runVars, dropped, faults>>

Requests == {"new", "flushed", "queued", "fallback", "done", "aborted"}
Controls == {"idle", "load", "enter", "work", "handle", "retry", "ack", "reject"}
Places   == Stages \cup {"finishing"}
Sessions == {"clean",    \* usable, the copy is as loaded or last written
             "expired",  \* rolled back: reading an attribute must reload it
             "broken"}   \* a statement failed and nobody rolled back

TypeOK ==
    /\ BrokerTypeOK
    /\ row \in [Jobs -> Rows]
    /\ req \in [Jobs -> Requests]
    /\ stopping \in SUBSET Jobs
    /\ pc \in [Runners -> Controls]
    /\ on \in [Runners -> Jobs \cup {NoMsg}]
    /\ at \in [Runners -> Places]
    /\ copy \in [Runners -> Rows]
    /\ sess \in [Runners -> Sessions]
    /\ dropped \in SUBSET Jobs
    /\ faults \in Nat

Init ==
    /\ BrokerInit
    /\ row = [j \in Jobs |-> NoRow]
    /\ req = [j \in Jobs |-> "new"]
    /\ stopping = {}
    /\ pc = [r \in Runners |-> "idle"]
    /\ on = [r \in Runners |-> NoMsg]
    /\ at = [r \in Runners |-> "detecting"]
    /\ copy = [r \in Runners |-> NoRow]
    /\ sess = [r \in Runners |-> "clean"]
    /\ dropped = {}
    /\ faults = 0

Fault(kind) ==
    /\ kind \in Faults
    /\ faults < MaxFaults
    /\ faults' = faults + 1

Exists(j) == row[j].status # "absent"

-----------------------------------------------------------------------------
(* The submit endpoints.  The row is flushed, the message published, and   *)
(* only when the handler has returned does get_db commit; background tasks *)
(* start after that.                                                       *)

apiUnchanged == UNCHANGED <<runVars, dropped>>

SubmitFlush(j) ==
    /\ req[j] = "new"
    /\ req' = [req EXCEPT ![j] = "flushed"]
    /\ UNCHANGED <<brokerVars, row, stopping, faults>> /\ apiUnchanged

SubmitPublish(j) ==
    /\ req[j] = "flushed"
    /\ Publish(j)
    /\ req' = [req EXCEPT ![j] = "queued"]
    /\ UNCHANGED <<held, dead, row, stopping, faults>> /\ apiUnchanged

(* Variant of SubmitFallback: the failed publish goes unnoticed.           *)
SubmitIgnoresBroker(j) ==
    /\ req[j] = "flushed"
    /\ Fault("nobroker") \/ Fault("confirm")
    /\ req' = [req EXCEPT ![j] = "queued"]
    /\ UNCHANGED <<brokerVars, row, stopping>> /\ apiUnchanged

(* The broker is unavailable, or publish raises: the job will run in the   *)
(* API process.  A publish whose confirmation was lost raises too, with    *)
(* the message already in the queue.                                       *)
SubmitFallback(j) ==
    /\ req[j] = "flushed"
    /\ \/ Fault("nobroker") /\ UNCHANGED ready
       \/ Fault("confirm") /\ Publish(j)
    /\ req' = [req EXCEPT ![j] = "fallback"]
    /\ UNCHANGED <<held, dead, row, stopping>> /\ apiUnchanged

(* Variant of SubmitCommit: no return after the publish, so the task is    *)
(* started in any case.                                                    *)
SubmitAlwaysRuns(j) ==
    /\ req[j] \in {"queued", "fallback"}
    /\ row' = [row EXCEPT ![j] = NewRow]
    /\ req' = [req EXCEPT ![j] = "done"]
    /\ pc' = [pc EXCEPT ![j] = "load"]
    /\ on' = [on EXCEPT ![j] = j]
    /\ UNCHANGED <<brokerVars, stopping, at, copy, sess, dropped, faults>>

SubmitCommit(j) ==
    /\ req[j] \in {"queued", "fallback"}
    /\ row' = [row EXCEPT ![j] = NewRow]
    /\ req' = [req EXCEPT ![j] = "done"]
    /\ IF req[j] = "fallback"
       THEN /\ pc' = [pc EXCEPT ![j] = "load"]
            /\ on' = [on EXCEPT ![j] = j]
       ELSE UNCHANGED <<pc, on>>
    /\ UNCHANGED <<brokerVars, stopping, at, copy, sess, dropped, faults>>

(* The commit of get_db fails: 500, no row, and the message stays.         *)
SubmitAbort(j) ==
    /\ req[j] \in {"queued", "fallback"}
    /\ Fault("db")
    /\ req' = [req EXCEPT ![j] = "aborted"]
    /\ UNCHANGED <<brokerVars, row, stopping>> /\ apiUnchanged

-----------------------------------------------------------------------------
(* stop_job reads the status, decides, and then writes: two steps, with    *)
(* no lock between them.                                                   *)

Stoppable == {"pending"} \cup Stages

(* Variants of the two steps: any status may be stopped; the status is     *)
(* upserted.                                                               *)
StopAnyStatus(j) ==
    /\ Exists(j)
    /\ stopping' = stopping \cup {j}
    /\ UNCHANGED <<brokerVars, row, req, faults>> /\ apiUnchanged

StopUpserts(j) ==
    /\ j \in stopping
    /\ row' = [row EXCEPT ![j].status = "cancelled"]
    /\ stopping' = stopping \ {j}
    /\ UNCHANGED <<brokerVars, req, faults>> /\ apiUnchanged

StopCheck(j) ==
    /\ row[j].status \in Stoppable
    /\ stopping' = stopping \cup {j}
    /\ UNCHANGED <<brokerVars, row, req, faults>> /\ apiUnchanged

StopCommit(j) ==
    /\ j \in stopping
    /\ row' = IF Exists(j) THEN [row EXCEPT ![j].status = "cancelled"] ELSE row
    /\ stopping' = stopping \ {j}
    /\ UNCHANGED <<brokerVars, req, faults>> /\ apiUnchanged

(* delete_job works for any status.  Its "cancelled" is written by the     *)
(* transaction that deletes the row, so no run ever reads it.              *)
DeleteJob(j) ==
    /\ Exists(j)
    /\ row' = [row EXCEPT ![j] = NoRow]
    /\ UNCHANGED <<brokerVars, req, stopping, faults>> /\ apiUnchanged

-----------------------------------------------------------------------------
(* AnalysisService.run.                                                    *)

jobVars == <<row, req, stopping>>

Goto(r, label) == pc' = [pc EXCEPT ![r] = label]

(* A run of a worker is over when its message is settled; a task just ends.*)
EndRun(r, settle) ==
    IF r \in Workers
    THEN Goto(r, settle) /\ UNCHANGED on
    ELSE Goto(r, "idle") /\ on' = [on EXCEPT ![r] = NoMsg]

ForgetSession(r) ==
    /\ at' = [at EXCEPT ![r] = "detecting"]
    /\ copy' = [copy EXCEPT ![r] = NoRow]
    /\ sess' = [sess EXCEPT ![r] = "clean"]

(* run() finds no row and returns: for its caller that is a success.       *)
LoadMissing(r) ==
    /\ pc[r] = "load"
    /\ ~Exists(on[r])
    /\ EndRun(r, "ack")
    /\ dropped' = dropped \cup {on[r]}
    /\ UNCHANGED <<brokerVars, jobVars, at, copy, sess, faults>>

(* _get_job raises outside run()'s try; the caller logs it and returns.    *)
LoadFails(r) ==
    /\ pc[r] = "load"
    /\ Fault("db")
    /\ EndRun(r, "ack")
    /\ dropped' = dropped \cup {on[r]}
    /\ UNCHANGED <<brokerVars, jobVars, at, copy, sess>>

Load(r) ==
    /\ pc[r] = "load"
    /\ Exists(on[r])
    /\ Goto(r, "enter")
    /\ copy' = [copy EXCEPT ![r] = row[on[r]]]
    /\ UNCHANGED <<brokerVars, jobVars, on, at, sess, dropped, faults>>

(* The UPDATE of a commit: the changed columns of an existing row.         *)
Updated(db, old, new) ==
    [status |-> IF new.status = old.status THEN db.status ELSE new.status,
     stage  |-> IF new.stage  = old.stage  THEN db.stage  ELSE new.stage,
     error  |-> IF new.error  = old.error  THEN db.error  ELSE new.error]

Write(r, old, new) ==
    row' = [row EXCEPT ![on[r]] = Updated(@, old, new)]

AtStage(r) == pc[r] = "enter" /\ at[r] \in Stages

(* _update_status: asyncio.CancelledError passes every except Exception,   *)
(* and leaves message.process() by an exception.                           *)
EnterCancelled(r) ==
    /\ AtStage(r)
    /\ sess[r] = "clean"
    /\ copy[r].status = "cancelled"
    /\ EndRun(r, "reject")
    /\ ForgetSession(r)
    /\ UNCHANGED <<brokerVars, jobVars, dropped, faults>>

(* Variant of EnterStage: the copy's status is not looked at.              *)
EnterRegardless(r) ==
    LET new == [copy[r] EXCEPT !.status = at[r], !.stage = at[r]]
    IN /\ AtStage(r)
       /\ sess[r] = "clean"
       /\ Exists(on[r])
       /\ Write(r, copy[r], new)
       /\ copy' = [copy EXCEPT ![r] = new]
       /\ Goto(r, "work")
       /\ UNCHANGED <<brokerVars, req, stopping, on, at, sess, dropped, faults>>

EnterStage(r) ==
    LET new == [copy[r] EXCEPT !.status = at[r], !.stage = at[r]]
    IN /\ AtStage(r)
       /\ sess[r] = "clean"
       /\ copy[r].status # "cancelled"
       /\ Exists(on[r])
       /\ Write(r, copy[r], new)
       /\ copy' = [copy EXCEPT ![r] = new]
       /\ Goto(r, "work")
       /\ UNCHANGED <<brokerVars, req, stopping, on, at, sess, dropped, faults>>

(* The commit of _update_status, or the last one of run(), fails: the row  *)
(* was deleted (StaleDataError), the session had failed before, or the     *)
(* database is away.                                                       *)
CommitFails(r) ==
    /\ pc[r] = "enter"
    /\ sess[r] # "expired"
    /\ ~(sess[r] = "clean" /\ copy[r].status = "cancelled" /\ at[r] \in Stages)
    /\ \/ (~Exists(on[r]) \/ sess[r] = "broken") /\ UNCHANGED faults
       \/ Fault("db")
    /\ sess' = [sess EXCEPT ![r] = "broken"]
    /\ Goto(r, "handle")
    /\ UNCHANGED <<brokerVars, jobVars, on, at, copy, dropped>>

(* Reading an attribute of an expired object outside a greenlet raises     *)
(* MissingGreenlet: job.status in _update_status, job.config at the end.   *)
TouchExpired(r) ==
    /\ pc[r] = "enter"
    /\ sess[r] = "expired"
    /\ Goto(r, "handle")
    /\ UNCHANGED <<brokerVars, jobVars, on, at, copy, sess, dropped, faults>>

-----------------------------------------------------------------------------
(* The agents, abstracted to what they do to the session and how they end. *)
(* The learner stage is no part of it: it runs when the job's config holds *)
(* "eager_embeddings", a field that JobConfig forbids.                     *)

(* Variant of Following: planning is forgotten.                            *)
FollowingUnplanned(r) ==
    CASE at[r] = "detecting"  -> "mapping"
      [] at[r] = "mapping"    -> "analyzing"
      [] at[r] = "analyzing"  -> "validating"
      [] at[r] = "planning"   -> "validating"
      [] at[r] = "validating" -> "finishing"

Following(r) ==
    CASE at[r] = "detecting"  -> "mapping"
      [] at[r] = "mapping"    -> "analyzing"
      [] at[r] = "analyzing"  -> "planning"
      [] at[r] = "planning"   -> "validating"
      [] at[r] = "validating" -> "finishing"

Proceed(r) ==
    /\ at' = [at EXCEPT ![r] = Following(r)]
    /\ Goto(r, "enter")
    /\ UNCHANGED <<brokerVars, jobVars, on, dropped>>

Caught(r, session) ==
    /\ sess' = [sess EXCEPT ![r] = session]
    /\ Goto(r, "handle")
    /\ UNCHANGED <<brokerVars, jobVars, on, at, copy, dropped>>

(* After these three the service writes its counters to the job and        *)
(* flushes.                                                                *)
Flushing == {"detecting", "mapping", "analyzing"}

WorkOk(r) ==
    /\ pc[r] = "work"
    /\ at[r] \in Flushing => Exists(on[r])
    /\ Proceed(r)
    /\ UNCHANGED <<copy, sess, faults>>

FlushFails(r) ==
    /\ pc[r] = "work"
    /\ at[r] \in Flushing
    /\ ~Exists(on[r])
    /\ Caught(r, "broken")
    /\ UNCHANGED faults

(* A bulk insert failed, was rolled back and repeated row by row; the      *)
(* flush that follows reloads the expired job.                             *)
WorkReloads(r) ==
    /\ pc[r] = "work"
    /\ at[r] \in {"mapping", "analyzing"}
    /\ Exists(on[r])
    /\ Fault("rollback")
    /\ copy' = [copy EXCEPT ![r] = row[on[r]]]
    /\ Proceed(r)
    /\ UNCHANGED sess

(* The planner and the validator roll back in the same way, but nothing    *)
(* reloads the job after them.                                             *)
WorkExpires(r) ==
    /\ pc[r] = "work"
    /\ at[r] \in {"planning", "validating"}
    /\ Fault("rollback")
    /\ sess' = [sess EXCEPT ![r] = "expired"]
    /\ Proceed(r)
    /\ UNCHANGED copy

(* The planner rolls back and re-raises when its plan row is refused, as   *)
(* it is when the job has been deleted.                                    *)
PlanRefused(r) ==
    /\ pc[r] = "work"
    /\ at[r] = "planning"
    /\ \/ ~Exists(on[r]) /\ UNCHANGED faults
       \/ Fault("rollback")
    /\ Caught(r, "expired")

(* The planner swallows the failure of its last update without rollback.   *)
PlanOrderFails(r) ==
    /\ pc[r] = "work"
    /\ at[r] = "planning"
    /\ Fault("db")
    /\ sess' = [sess EXCEPT ![r] = "broken"]
    /\ Proceed(r)
    /\ UNCHANGED copy

(* An agent raises: with a usable session, or because the database failed. *)
WorkRaises(r) ==
    /\ pc[r] = "work"
    /\ \/ Fault("agent") /\ Caught(r, "clean")
       \/ Fault("db") /\ Caught(r, "broken")

(* AttributeError, ImportError and NotImplementedError of an agent are      *)
(* logged by its dispatch method, which then returns without a flush; the  *)
(* language detector has a fallback instead, which flushes like it.        *)
AgentSkipped(r) ==
    /\ pc[r] = "work"
    /\ at[r] # "detecting"
    /\ Fault("agent")
    /\ Proceed(r)
    /\ UNCHANGED <<copy, sess>>

Finish(r) ==
    LET new == [copy[r] EXCEPT !.status = "complete", !.stage = "none"]
    IN /\ pc[r] = "enter" /\ at[r] = "finishing"
       /\ sess[r] = "clean"
       /\ Exists(on[r])
       /\ Write(r, copy[r], new)
       /\ EndRun(r, "ack")
       /\ ForgetSession(r)
       /\ UNCHANGED <<brokerVars, req, stopping, dropped, faults>>

-----------------------------------------------------------------------------
(* The except clause of run().                                             *)

(* _get_job returns the identity map's object: it reloads an expired copy, *)
(* and leaves any other as it is.                                          *)
Refreshed(r) == IF sess[r] = "expired" THEN row[on[r]] ELSE copy[r]

(* It raises in a broken session, and finds nothing of a deleted job.      *)
HandleLost(r) ==
    /\ pc[r] = "handle"
    /\ sess[r] = "broken" \/ ~Exists(on[r])
    /\ EndRun(r, "ack")
    /\ ForgetSession(r)
    /\ dropped' = IF at[r] = "detecting" THEN dropped \cup {on[r]} ELSE dropped
    /\ UNCHANGED <<brokerVars, jobVars, faults>>

HandleCancelled(r) ==
    /\ pc[r] = "handle"
    /\ sess[r] # "broken" /\ Exists(on[r])
    /\ Refreshed(r).status = "cancelled"
    /\ EndRun(r, "ack")
    /\ ForgetSession(r)
    /\ UNCHANGED <<brokerVars, jobVars, dropped, faults>>

(* Variant of HandleFailed: error_stage is set by the first failure only.  *)
HandleFirstFailure(r) ==
    LET old == Refreshed(r)
        new == [old EXCEPT !.status = "failed",
                           !.error = IF @ = "none" THEN old.stage ELSE @]
    IN /\ pc[r] = "handle"
       /\ sess[r] # "broken" /\ Exists(on[r])
       /\ old.status # "cancelled"
       /\ \/ Write(r, old, new) /\ UNCHANGED faults
          \/ Fault("db") /\ UNCHANGED row
       /\ EndRun(r, "ack")
       /\ ForgetSession(r)
       /\ UNCHANGED <<brokerVars, req, stopping, dropped>>

(* A failure of this commit is swallowed, and the job keeps its status.    *)
HandleFailed(r) ==
    LET old == Refreshed(r)
        new == [old EXCEPT !.status = "failed", !.error = old.stage]
    IN /\ pc[r] = "handle"
       /\ sess[r] # "broken" /\ Exists(on[r])
       /\ old.status # "cancelled"
       /\ \/ Write(r, old, new) /\ UNCHANGED faults
          \/ Fault("db") /\ UNCHANGED row
       /\ EndRun(r, "ack")
       /\ ForgetSession(r)
       /\ UNCHANGED <<brokerVars, req, stopping, dropped>>

-----------------------------------------------------------------------------
(* The worker around run(): deliveries, settlement, retry.                 *)

Receive(w, m) ==
    /\ pc[w] = "idle"
    /\ TakeDelivery(w, m)
    /\ Goto(w, "load")
    /\ on' = [on EXCEPT ![w] = m.job]
    /\ UNCHANGED <<jobVars, at, copy, sess, dropped, faults>>

(* Variant of HandlerRaises: the message is not retried.                   *)
HandlerRejects(r) ==
    /\ pc[r] = "load"
    /\ Fault("handler")
    /\ EndRun(r, "reject")
    /\ dropped' = IF r \in Workers THEN dropped ELSE dropped \cup {on[r]}
    /\ UNCHANGED <<brokerVars, jobVars, at, copy, sess>>

(* AnalysisService(db) raises: outside the caller's try.  The consumer     *)
(* retries the message; a background task is just over.                    *)
HandlerRaises(r) ==
    /\ pc[r] = "load"
    /\ Fault("handler")
    /\ EndRun(r, "retry")
    /\ dropped' = IF r \in Workers THEN dropped ELSE dropped \cup {on[r]}
    /\ UNCHANGED <<brokerVars, jobVars, at, copy, sess>>

(* retry_count of a delivery is always 0 (QueueConsumer), so the branch to *)
(* the dead-letter exchange is not reachable from here.                    *)
Republish(w) ==
    /\ pc[w] = "retry"
    /\ \/ /\ Publish(on[w]) /\ Goto(w, "ack")
          /\ UNCHANGED faults
       \/ /\ Fault("nobroker") /\ Goto(w, "reject")
          /\ UNCHANGED ready
    /\ UNCHANGED <<held, dead, jobVars, on, at, copy, sess, dropped>>

Settle(w) ==
    /\ \/ pc[w] = "ack" /\ AckDelivery(w)
       \/ pc[w] = "reject" /\ RejectDelivery(w)
    /\ Goto(w, "idle")
    /\ on' = [on EXCEPT ![w] = NoMsg]
    /\ UNCHANGED <<jobVars, at, copy, sess, dropped, faults>>

-----------------------------------------------------------------------------
(* Failures of processes and connections.                                  *)

(* Variant of CrashWorker: deliveries are acknowledged automatically.      *)
CrashAfterAutoAck(w) ==
    /\ pc[w] # "idle"
    /\ Fault("crash")
    /\ AckDelivery(w)
    /\ Goto(w, "idle")
    /\ on' = [on EXCEPT ![w] = NoMsg]
    /\ ForgetSession(w)
    /\ UNCHANGED <<jobVars, dropped>>

CrashWorker(w) ==
    /\ pc[w] # "idle"
    /\ Fault("crash")
    /\ RequeueDelivery(w)
    /\ Goto(w, "idle")
    /\ on' = [on EXCEPT ![w] = NoMsg]
    /\ ForgetSession(w)
    /\ UNCHANGED <<jobVars, dropped>>

(* The broker takes the delivery back (connection lost, acknowledgement    *)
(* timeout) while the handler goes on.                                     *)
LoseChannel(w) ==
    /\ pc[w] # "idle" /\ held[w] # NoMsg
    /\ Fault("channel")
    /\ RequeueDelivery(w)
    /\ UNCHANGED <<jobVars, runVars, dropped>>

(* The API process ends: its requests and its background tasks with it.    *)
CrashApi ==
    /\ Fault("api")
    /\ req' = [j \in Jobs |-> IF req[j] \in {"flushed", "queued", "fallback"}
                              THEN "aborted" ELSE req[j]]
    /\ stopping' = {}
    /\ pc' = [r \in Runners |-> IF r \in Jobs THEN "idle" ELSE pc[r]]
    /\ on' = [r \in Runners |-> IF r \in Jobs THEN NoMsg ELSE on[r]]
    /\ at' = [r \in Runners |-> IF r \in Jobs THEN "detecting" ELSE at[r]]
    /\ copy' = [r \in Runners |-> IF r \in Jobs THEN NoRow ELSE copy[r]]
    /\ sess' = [r \in Runners |-> IF r \in Jobs THEN "clean" ELSE sess[r]]
    /\ dropped' = dropped \cup {j \in Jobs : pc[j] # "idle"}
    /\ UNCHANGED <<brokerVars, row>>

Expire(m) ==
    /\ Fault("ttl")
    /\ ExpireMessage(m)
    /\ UNCHANGED <<jobVars, runVars, dropped>>

-----------------------------------------------------------------------------
Submit(j) == SubmitFlush(j) \/ SubmitPublish(j) \/ SubmitCommit(j)

Api(j) ==
    \/ Submit(j) \/ SubmitFallback(j) \/ SubmitAbort(j)
    \/ StopCheck(j) \/ StopCommit(j) \/ DeleteJob(j)

(* What a run does when nothing interferes with it ...                     *)
RunStep(r) ==
    \/ LoadMissing(r) \/ Load(r)
    \/ EnterCancelled(r) \/ EnterStage(r) \/ CommitFails(r) \/ TouchExpired(r)
    \/ WorkOk(r) \/ FlushFails(r) \/ PlanRefused(r) \/ Finish(r)
    \/ HandleLost(r) \/ HandleCancelled(r) \/ HandleFailed(r)

(* ... and what only a failure makes it do.                                *)
RunFault(r) ==
    \/ LoadFails(r) \/ HandlerRaises(r)
    \/ WorkReloads(r) \/ WorkExpires(r) \/ PlanOrderFails(r) \/ WorkRaises(r) \/ AgentSkipped(r)

WorkerStep(w) ==
    \/ \E m \in Messages : Receive(w, m)
    \/ Republish(w) \/ Settle(w)

Next ==
    \/ \E j \in Jobs : Api(j)
    \/ \E r \in Runners : RunStep(r) \/ RunFault(r)
    \/ \E w \in Workers : WorkerStep(w) \/ CrashWorker(w) \/ LoseChannel(w)
    \/ \E m \in Messages : Expire(m)
    \/ CrashApi

Spec == Init /\ [][Next]_vars

(* Requests, runs and consumers that can go on do go on: asyncio schedules *)
(* every ready task, and the broker delivers to every idle consumer.       *)
FairSpec ==
    /\ Spec
    /\ \A j \in Jobs : WF_vars(Submit(j)) /\ WF_vars(StopCommit(j))
    /\ \A r \in Runners : WF_vars(RunStep(r))
    /\ \A w \in Workers : WF_vars(WorkerStep(w))
-----------------------------------------------------------------------------
(* Properties.                                                             *)

Loaded(r, j) == on[r] = j /\ pc[r] \in {"enter", "work", "handle"}

(* delete_job is final.  Whatever runs, tasks or late stop requests still  *)
(* hold a copy of the row, none of their commits brings it back.           *)
NeverResurrected ==
    [][\A j \in Jobs : req[j] = "done" /\ ~Exists(j) => ~Exists(j)']_vars

(* A stop_job that has committed while every live run of the job either    *)
(* read "cancelled" or lost its copy is honoured for good: no run, retry   *)
(* or redelivery takes the job out of "cancelled" again.                   *)
Sealed(j) ==
    /\ row[j].status = "cancelled"
    /\ \A r \in Runners : Loaded(r, j) =>
          \/ sess[r] # "clean"
          \/ pc[r] = "enter" /\ at[r] \in Stages /\ copy[r].status = "cancelled"

CancelSticks ==
    [][\A j \in Jobs : Sealed(j) => Sealed(j)' \/ ~Exists(j)']_vars

(* A job that is complete or failed and about which no message, run or     *)
(* stop request is left keeps its result until it is deleted.              *)
Quiet(j) ==
    /\ row[j].status \in {"complete", "failed"}
    /\ j \notin stopping
    /\ ~HasMessage(j)
    /\ \A r \in Runners : on[r] = j => pc[r] \in {"ack", "reject"}

ResultStays ==
    [][\A j \in Jobs : Quiet(j) =>
          \/ Quiet(j)' /\ row'[j] = row[j]
          \/ ~Exists(j)']_vars

(* The submit endpoint accepted the job and it is still pending: then a    *)
(* message, a task or the dead-letter queue accounts for it, or a run of   *)
(* it ended before its first commit (a consumer that was faster than the   *)
(* commit of get_db, a failed load, an API process that died).             *)
PendingIsAccountedFor ==
    \A j \in Jobs : row[j].status = "pending" =>
        HasMessage(j) \/ j \in dead \/ pc[j] # "idle" \/ j \in dropped

(* No two runs of a job at a time, and while a run's agent works the row   *)
(* is at that run's stage, unless the job has been stopped or deleted.     *)
RunOwnsJob ==
    \A r \in Runners, j \in Jobs : Loaded(r, j) =>
        /\ \A s \in Runners : Loaded(s, j) => s = r
        /\ pc[r] = "work" /\ Exists(j) =>
              /\ row[j].status \in {at[r], "cancelled"}
              /\ row[j].stage = at[r]

(* A failed job names the stage it failed in, also when an earlier run of  *)
(* it had failed in another one.                                           *)
FailureNamesStage ==
    \A j \in Jobs : row[j].status = "failed" =>
        row[j].error # "none" /\ row[j].error = row[j].stage

(* With the broker up and no message expired, only a stopped job is ever   *)
(* dead-lettered: no message of a job that could still run is given up.    *)
DeadLetterIsStopped ==
    \A j \in dead : row[j].status \in {"cancelled", "absent"}

(* A job that has entered a stage does not stay there for ever: it is      *)
(* completed, failed, stopped or deleted, across failing agents, partial   *)
(* inserts and crashes of the worker.                                      *)
ActiveJobSettles ==
    \A j \in Jobs : row[j].status \in Stages ~> row[j].status \notin Stages

(* What stop_job's docstring says: the pipeline stops at the next stage    *)
(* boundary, so a cancelled job enters no further stage.                   *)
StopIsHonoured ==
    [][\A j \in Jobs : row[j].status = "cancelled" => row'[j].status \notin Stages]_vars

-----------------------------------------------------------------------------
(* Refinement.  A run that has entered a stage and whose session still     *)
(* works is the abstract live run; its copy names the stage.               *)

Entered(r, j) ==
    /\ Loaded(r, j)
    /\ ~(pc[r] = "enter" /\ at[r] = "detecting")
    /\ sess[r] # "broken"

ProgressOf(j) ==
    IF \E r \in Runners : Entered(r, j)
    THEN copy[CHOOSE r \in Runners : Entered(r, j)].stage
    ELSE "none"

Lifecycle == INSTANCE JobLifecycle WITH
    status   <- [j \in Jobs |-> row[j].status],
    accepted <- {j \in Jobs : req[j] = "done"},
    progress <- [j \in Jobs |-> ProgressOf(j)]

(* As long as a job runs once at a time, the API, the broker and the       *)
(* workers together implement the abstract life cycle.                     *)
ImplementsLifecycle == Lifecycle!Spec
=============================================================================
