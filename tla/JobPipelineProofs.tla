------------------------- MODULE JobPipelineProofs -------------------------
(***************************************************************************)
(* Type correctness and the safety properties of JobPipeline, for every    *)
(* set of jobs and workers, every set of failures and every bound on them. *)
(***************************************************************************)
EXTENDS JobPipeline, TLAPS

-----------------------------------------------------------------------------
(* What the broker's operations preserve.                                  *)

(* What publish() enqueues is a message, whatever the job.                 *)
LEMMA NewMessageType == \A j \in Jobs : NewMessage(j) \in Messages
  BY BrokerAssumption DEF NewMessage, Messages

(* Each use of the broker keeps its variables well typed.                  *)
LEMMA BrokerOperations ==
  ASSUME BrokerTypeOK
  PROVE  /\ \A j \in Jobs : Publish(j) => ready' \in [Messages -> Nat]
         /\ \A w \in Workers, m \in Messages : TakeDelivery(w, m) => BrokerTypeOK'
         /\ \A w \in Workers : AckDelivery(w) => BrokerTypeOK'
         /\ \A w \in Workers : RejectDelivery(w) => BrokerTypeOK'
         /\ \A w \in Workers : RequeueDelivery(w) => BrokerTypeOK'
         /\ \A m \in Messages : ExpireMessage(m) => BrokerTypeOK'
<1>1. ASSUME NEW j \in Jobs, Publish(j) PROVE ready' \in [Messages -> Nat]
  BY <1>1, NewMessageType DEF Publish, Enqueue, BrokerTypeOK
<1>2. ASSUME NEW w \in Workers, NEW m \in Messages, TakeDelivery(w, m) PROVE BrokerTypeOK'
  BY <1>2 DEF TakeDelivery, BrokerTypeOK
<1>3. ASSUME NEW w \in Workers, AckDelivery(w) PROVE BrokerTypeOK'
  BY <1>3 DEF AckDelivery, BrokerTypeOK
<1>4. ASSUME NEW w \in Workers, RejectDelivery(w) PROVE BrokerTypeOK'
  <2>1. held[w] # NoMsg => held[w].job \in Jobs
    BY DEF BrokerTypeOK, Messages
  <2> QED BY <1>4, <2>1 DEF RejectDelivery, BrokerTypeOK
<1>5. ASSUME NEW w \in Workers, RequeueDelivery(w) PROVE BrokerTypeOK'
  <2>1. held[w] # NoMsg => held[w] \in Messages
    BY DEF BrokerTypeOK
  <2> QED BY <1>5, <2>1 DEF RequeueDelivery, BrokerTypeOK
<1>6. ASSUME NEW m \in Messages, ExpireMessage(m) PROVE BrokerTypeOK'
  <2>1. m.job \in Jobs
    BY DEF Messages
  <2> QED BY <1>6, <2>1 DEF ExpireMessage, BrokerTypeOK
<1> QED BY <1>1, <1>2, <1>3, <1>4, <1>5, <1>6

(* A job without a message has no copy in the queue and no delivery.       *)
LEMMA SilentJob ==
  ASSUME BrokerTypeOK, NEW j \in Jobs
  PROVE  ~HasMessage(j) <=> /\ \A m \in Messages : m.job = j => ready[m] = 0
                            /\ \A w \in Workers : ~HeldBy(w, j)
  BY DEF BrokerTypeOK, HasMessage, Waiting

(* A delivery that goes back to the queue is as good as one that is held.  *)
LEMMA RequeueKeepsMessage ==
  ASSUME BrokerTypeOK, NEW w \in Workers, RequeueDelivery(w), NEW j \in Jobs
  PROVE  /\ Waiting(j) => Waiting(j)'
         /\ HeldBy(w, j) => Waiting(j)'
         /\ \A v \in Workers \ {w} : held'[v] = held[v]
         /\ held'[w] = NoMsg /\ dead' = dead
<1>1. held[w] # NoMsg => held[w] \in Messages
  BY DEF BrokerTypeOK
<1> QED BY <1>1 DEF RequeueDelivery, BrokerTypeOK, Waiting, HeldBy

-----------------------------------------------------------------------------
(* Types.                                                                  *)

(* The row of no job and the row of a new one are rows.                    *)
LEMMA RowTypes == NoRow \in Rows /\ NewRow \in Rows
  BY DEF NoRow, NewRow, Rows, Statuses, Stages, Terminal

(* Committing a copy over the row of a table leaves a row.                 *)
LEMMA UpdatedType ==
  ASSUME NEW db \in Rows, NEW old \in Rows, NEW new \in Rows
  PROVE  Updated(db, old, new) \in Rows
  BY DEF Updated, Rows

(* The initial state is well typed.                                        *)
LEMMA TypeInit == Init => TypeOK
<1> SUFFICES ASSUME Init PROVE TypeOK
  OBVIOUS
<1>1. BrokerTypeOK
  BY DEF Init, BrokerInit, BrokerTypeOK
<1> QED
  BY <1>1, RowTypes DEF Init, TypeOK, Requests, Controls, Places, Sessions, Stages

(* The bookkeeping at the end of a run.                                    *)
LEMMA RunBookkeeping ==
  ASSUME TypeOK, NEW r \in Runners, NEW label \in Controls
  PROVE  /\ Goto(r, label) => pc' \in [Runners -> Controls]
         /\ EndRun(r, label) => /\ pc' \in [Runners -> Controls]
                                /\ on' \in [Runners -> Jobs \cup {NoMsg}]
         /\ ForgetSession(r) => /\ at' \in [Runners -> Places]
                                /\ copy' \in [Runners -> Rows]
                               /\ sess' \in [Runners -> Sessions]
  BY RowTypes DEF Goto, EndRun, ForgetSession, TypeOK, Controls, Places, Stages, Sessions

(* After a stage comes another stage or the end, never the start.          *)
LEMMA FollowingType ==
  ASSUME NEW r, at[r] \in Places, at[r] # "finishing"
  PROVE  Following(r) \in Places /\ Following(r) # "detecting"
  BY DEF Following, Places, Stages

(* A commit keeps the jobs table well typed.                               *)
LEMMA WriteType ==
  ASSUME TypeOK, NEW r \in Runners, NEW old \in Rows, NEW new \in Rows, Write(r, old, new)
  PROVE  row' \in [Jobs -> Rows]
<1>1. CASE on[r] \in Jobs
  BY <1>1, UpdatedType DEF Write, TypeOK
<1>2. CASE on[r] \notin Jobs
  BY <1>2 DEF Write, TypeOK
<1> QED BY <1>1, <1>2

(* A busy run has a job, and a task no job but its own; sessions are only  *)
(* damaged between a stage's work and the next use of the session.         *)
RunOk(r) ==
    /\ pc[r] # "idle" => on[r] \in Jobs
    /\ pc[r] = "idle" => on[r] = NoMsg
    /\ r \in Jobs /\ pc[r] # "idle" => on[r] = r
    /\ pc[r] = "work" => at[r] \in Stages /\ sess[r] = "clean"
    /\ pc[r] \notin {"enter", "work", "handle"} => at[r] = "detecting" /\ sess[r] = "clean"
    /\ r \in Workers /\ pc[r] = "idle" => held[r] = NoMsg

RunInv == \A r \in Runners : RunOk(r)

(* A job has neither row nor task before its request has committed.        *)
RequestInv ==
    \A j \in Jobs : req[j] # "done" => ~Exists(j) /\ pc[j] = "idle"

TypeInv == TypeOK /\ RunInv /\ RequestInv

(* The run s takes no part in a step.                                      *)
Untouched(s) ==
    /\ pc'[s] = pc[s] /\ on'[s] = on[s] /\ at'[s] = at[s]
    /\ copy'[s] = copy[s] /\ sess'[s] = sess[s]
    /\ s \in Workers => held'[s] = held[s]

(* A step of one run leaves alone every other run, the broker, the         *)
(* requests, and every job but its own; and it never inserts a row.        *)
LEMMA RunFrame ==
  ASSUME TypeOK, NEW r \in Runners, RunStep(r) \/ RunFault(r)
  PROVE  /\ UNCHANGED <<ready, held, dead, req, stopping>>
         /\ pc[r] \in {"load", "enter", "work", "handle"}
         /\ on'[r] \in {on[r], NoMsg} /\ (r \in Workers => on'[r] = on[r])
         /\ \A j \in Jobs : ~Exists(j) => row'[j] = row[j]
         /\ \A s \in Runners \ {r} : Untouched(s)
         /\ \A j \in Jobs \ {on[r]} : row'[j] = row[j]
<1> USE DEF TypeOK, Untouched, brokerVars, jobVars, Goto, Exists, AtStage
<1>1. CASE LoadMissing(r)
  BY <1>1 DEF LoadMissing, EndRun
<1>2. CASE LoadFails(r)
  BY <1>2 DEF LoadFails, EndRun
<1>3. CASE Load(r)
  BY <1>3 DEF Load
<1>4. CASE EnterCancelled(r)
  BY <1>4 DEF EnterCancelled, EndRun, ForgetSession
<1>5. CASE EnterStage(r)
  BY <1>5 DEF EnterStage, Write
<1>6. CASE CommitFails(r)
  BY <1>6 DEF CommitFails
<1>7. CASE TouchExpired(r)
  BY <1>7 DEF TouchExpired
<1>8. CASE WorkOk(r)
  BY <1>8 DEF WorkOk, Proceed
<1>9. CASE FlushFails(r)
  BY <1>9 DEF FlushFails, Caught
<1>10. CASE WorkReloads(r)
  BY <1>10 DEF WorkReloads, Proceed
<1>11. CASE WorkExpires(r)
  BY <1>11 DEF WorkExpires, Proceed
<1>12. CASE PlanRefused(r)
  BY <1>12 DEF PlanRefused, Caught
<1>13. CASE PlanOrderFails(r)
  BY <1>13 DEF PlanOrderFails, Proceed
<1>14. CASE WorkRaises(r)
  BY <1>14 DEF WorkRaises, Caught
<1>15. CASE AgentSkipped(r)
  BY <1>15 DEF AgentSkipped, Proceed
<1>16. CASE Finish(r)
  BY <1>16 DEF Finish, EndRun, ForgetSession, Write
<1>17. CASE HandleLost(r)
  BY <1>17 DEF HandleLost, EndRun, ForgetSession
<1>18. CASE HandleCancelled(r)
  BY <1>18 DEF HandleCancelled, EndRun, ForgetSession
<1>19. CASE HandleFailed(r)
  BY <1>19 DEF HandleFailed, EndRun, ForgetSession, Write
<1>20. CASE HandlerRaises(r)
  BY <1>20 DEF HandlerRaises, EndRun
<1> QED BY <1>1, <1>2, <1>3, <1>4, <1>5, <1>6, <1>7, <1>8, <1>9, <1>10, <1>11, <1>12, <1>13, <1>14, <1>15, <1>16, <1>17, <1>18, <1>19, <1>20 DEF RunStep, RunFault

(* An undisturbed run keeps its part of the invariant.                     *)
LEMMA UntouchedOk ==
  ASSUME NEW s, Untouched(s), RunOk(s)
  PROVE  RunOk(s)'
  BY DEF Untouched, RunOk

(* The run r ends, its message to be settled next.                         *)
LEMMA EndRunOk ==
  ASSUME TypeInv, NEW r \in Runners, pc[r] # "idle", NEW label \in Controls \ {"enter", "work", "handle", "idle"},
         EndRun(r, label), at'[r] = "detecting", sess'[r] = "clean", held' = held
  PROVE  RunOk(r)'
  BY PipelineAssumption DEF TypeInv, TypeOK, RunInv, RunOk, EndRun, Goto, Runners

(* A step of a run keeps the types and the bookkeeping of that run.        *)
LEMMA RunTypes ==
  ASSUME TypeInv, NEW r \in Runners, RunStep(r) \/ RunFault(r)
  PROVE  TypeOK' /\ RunOk(r)'
<1> USE DEF TypeInv
<1>0. /\ held' = held /\ brokerVars' = brokerVars /\ req' = req /\ stopping' = stopping
      /\ BrokerTypeOK' /\ req' \in [Jobs -> Requests] /\ stopping' \in SUBSET Jobs
  BY RunFrame DEF brokerVars, TypeOK, BrokerTypeOK
<1>1. pc[r] # "idle" => on[r] \in Jobs /\ row[on[r]] \in Rows /\ (r \in Jobs => on[r] = r)
  BY DEF RunInv, RunOk, TypeOK
<1>2. /\ copy[r] \in Rows /\ at[r] \in Places /\ sess[r] \in Sessions /\ RunOk(r)
      /\ pc[r] = "work" => at[r] # "finishing"
  BY DEF TypeOK, RunInv, RunOk, Stages
<1>3. CASE LoadMissing(r)
  <2>1. pc[r] # "idle" /\ EndRun(r, "ack")
    BY <1>3 DEF LoadMissing, AtStage
  <2>2. at'[r] = "detecting" /\ sess'[r] = "clean"
    BY <1>3, <1>2 DEF LoadMissing, TypeOK, RunOk, ForgetSession
  <2>3. RunOk(r)'
    BY <1>0, <2>1, <2>2, EndRunOk DEF Controls
  <2>4. /\ pc' \in [Runners -> Controls] /\ on' \in [Runners -> Jobs \cup {NoMsg}]
        /\ at' \in [Runners -> Places] /\ copy' \in [Runners -> Rows] /\ sess' \in [Runners -> Sessions]
    BY <1>3, <2>1, RunBookkeeping DEF LoadMissing, TypeOK, Controls
  <2>5. row' \in [Jobs -> Rows]
    BY <1>3 DEF LoadMissing, jobVars, TypeOK
  <2>6. dropped' \in SUBSET Jobs /\ faults' \in Nat
    BY <1>3, <1>1, <2>1 DEF LoadMissing, Fault, TypeOK
  <2> QED BY <1>0, <2>3, <2>4, <2>5, <2>6 DEF TypeOK
<1>4. CASE LoadFails(r)
  <2>1. pc[r] # "idle" /\ EndRun(r, "ack")
    BY <1>4 DEF LoadFails, AtStage
  <2>2. at'[r] = "detecting" /\ sess'[r] = "clean"
    BY <1>4, <1>2 DEF LoadFails, TypeOK, RunOk, ForgetSession
  <2>3. RunOk(r)'
    BY <1>0, <2>1, <2>2, EndRunOk DEF Controls
  <2>4. /\ pc' \in [Runners -> Controls] /\ on' \in [Runners -> Jobs \cup {NoMsg}]
        /\ at' \in [Runners -> Places] /\ copy' \in [Runners -> Rows] /\ sess' \in [Runners -> Sessions]
    BY <1>4, <2>1, RunBookkeeping DEF LoadFails, TypeOK, Controls
  <2>5. row' \in [Jobs -> Rows]
    BY <1>4 DEF LoadFails, jobVars, TypeOK
  <2>6. dropped' \in SUBSET Jobs /\ faults' \in Nat
    BY <1>4, <1>1, <2>1 DEF LoadFails, Fault, TypeOK
  <2> QED BY <1>0, <2>3, <2>4, <2>5, <2>6 DEF TypeOK
<1>5. CASE Load(r)
  <2>2. row' \in [Jobs -> Rows]
    BY <1>5 DEF Load, jobVars, TypeOK
  <2>3. /\ pc' \in [Runners -> Controls] /\ on' \in [Runners -> Jobs \cup {NoMsg}]
        /\ at' \in [Runners -> Places] /\ copy' \in [Runners -> Rows] /\ sess' \in [Runners -> Sessions]
    BY <1>5, <1>1, <1>2 DEF Load, Goto, TypeOK, Controls, Sessions
  <2>4. dropped' \in SUBSET Jobs /\ faults' \in Nat
    BY <1>5 DEF Load, Fault, TypeOK
  <2>5. RunOk(r)'
    BY <1>5, <1>0, <1>1, <1>2 DEF Load, Goto, RunOk, TypeOK, AtStage
  <2> QED BY <1>0, <2>2, <2>3, <2>4, <2>5 DEF TypeOK
<1>6. CASE EnterCancelled(r)
  <2>1. pc[r] # "idle" /\ EndRun(r, "reject")
    BY <1>6 DEF EnterCancelled, AtStage
  <2>2. at'[r] = "detecting" /\ sess'[r] = "clean"
    BY <1>6, <1>2 DEF EnterCancelled, TypeOK, RunOk, ForgetSession
  <2>3. RunOk(r)'
    BY <1>0, <2>1, <2>2, EndRunOk DEF Controls
  <2>4. /\ pc' \in [Runners -> Controls] /\ on' \in [Runners -> Jobs \cup {NoMsg}]
        /\ at' \in [Runners -> Places] /\ copy' \in [Runners -> Rows] /\ sess' \in [Runners -> Sessions]
    BY <1>6, <2>1, RunBookkeeping DEF EnterCancelled, TypeOK, Controls
  <2>5. row' \in [Jobs -> Rows]
    BY <1>6 DEF EnterCancelled, jobVars, TypeOK
  <2>6. dropped' \in SUBSET Jobs /\ faults' \in Nat
    BY <1>6, <1>1, <2>1 DEF EnterCancelled, Fault, TypeOK
  <2> QED BY <1>0, <2>3, <2>4, <2>5, <2>6 DEF TypeOK
<1>7. CASE EnterStage(r)
  <2>1. [copy[r] EXCEPT !.status = at[r], !.stage = at[r]] \in Rows
    BY <1>7, <1>2 DEF EnterStage, AtStage, Rows, Statuses
  <2>2. row' \in [Jobs -> Rows]
    BY <1>7, <1>2, <2>1, WriteType DEF EnterStage
  <2>3. /\ pc' \in [Runners -> Controls] /\ on' \in [Runners -> Jobs \cup {NoMsg}]
        /\ at' \in [Runners -> Places] /\ copy' \in [Runners -> Rows] /\ sess' \in [Runners -> Sessions]
    BY <1>7, <2>1 DEF EnterStage, Goto, TypeOK, Controls
  <2>4. dropped' \in SUBSET Jobs /\ faults' \in Nat
    BY <1>7 DEF EnterStage, Write, Fault, TypeOK
  <2>5. RunOk(r)'
    BY <1>7, <1>0, <1>1, <1>2 DEF EnterStage, Write, Goto, RunOk, TypeOK, AtStage
  <2> QED BY <1>0, <2>2, <2>3, <2>4, <2>5 DEF TypeOK
<1>8. CASE CommitFails(r)
  <2>2. row' \in [Jobs -> Rows]
    BY <1>8 DEF CommitFails, jobVars, TypeOK
  <2>3. /\ pc' \in [Runners -> Controls] /\ on' \in [Runners -> Jobs \cup {NoMsg}]
        /\ at' \in [Runners -> Places] /\ copy' \in [Runners -> Rows] /\ sess' \in [Runners -> Sessions]
    BY <1>8, <1>1, <1>2 DEF CommitFails, Goto, TypeOK, Controls, Sessions
  <2>4. dropped' \in SUBSET Jobs /\ faults' \in Nat
    BY <1>8 DEF CommitFails, Fault, TypeOK
  <2>5. RunOk(r)'
    BY <1>8, <1>0, <1>1, <1>2 DEF CommitFails, Goto, RunOk, TypeOK, AtStage
  <2> QED BY <1>0, <2>2, <2>3, <2>4, <2>5 DEF TypeOK
<1>9. CASE TouchExpired(r)
  <2>2. row' \in [Jobs -> Rows]
    BY <1>9 DEF TouchExpired, jobVars, TypeOK
  <2>3. /\ pc' \in [Runners -> Controls] /\ on' \in [Runners -> Jobs \cup {NoMsg}]
        /\ at' \in [Runners -> Places] /\ copy' \in [Runners -> Rows] /\ sess' \in [Runners -> Sessions]
    BY <1>9, <1>1, <1>2 DEF TouchExpired, Goto, TypeOK, Controls, Sessions
  <2>4. dropped' \in SUBSET Jobs /\ faults' \in Nat
    BY <1>9 DEF TouchExpired, Fault, TypeOK
  <2>5. RunOk(r)'
    BY <1>9, <1>0, <1>1, <1>2 DEF TouchExpired, Goto, RunOk, TypeOK, AtStage
  <2> QED BY <1>0, <2>2, <2>3, <2>4, <2>5 DEF TypeOK
<1>10. CASE WorkOk(r)
  <2>2. row' \in [Jobs -> Rows]
    BY <1>10 DEF WorkOk, Proceed, jobVars, TypeOK
  <2>3. /\ pc' \in [Runners -> Controls] /\ on' \in [Runners -> Jobs \cup {NoMsg}]
        /\ at' \in [Runners -> Places] /\ copy' \in [Runners -> Rows] /\ sess' \in [Runners -> Sessions]
    BY <1>10, <1>1, <1>2, FollowingType DEF WorkOk, Proceed, Goto, TypeOK, Controls, Sessions
  <2>4. dropped' \in SUBSET Jobs /\ faults' \in Nat
    BY <1>10 DEF WorkOk, Proceed, Fault, TypeOK
  <2>5. RunOk(r)'
    BY <1>10, <1>0, <1>1, <1>2 DEF WorkOk, Proceed, Goto, RunOk, TypeOK, AtStage
  <2> QED BY <1>0, <2>2, <2>3, <2>4, <2>5 DEF TypeOK
<1>11. CASE FlushFails(r)
  <2>2. row' \in [Jobs -> Rows]
    BY <1>11 DEF FlushFails, Caught, jobVars, TypeOK
  <2>3. /\ pc' \in [Runners -> Controls] /\ on' \in [Runners -> Jobs \cup {NoMsg}]
        /\ at' \in [Runners -> Places] /\ copy' \in [Runners -> Rows] /\ sess' \in [Runners -> Sessions]
    BY <1>11, <1>1, <1>2 DEF FlushFails, Caught, Goto, TypeOK, Controls, Sessions
  <2>4. dropped' \in SUBSET Jobs /\ faults' \in Nat
    BY <1>11 DEF FlushFails, Caught, Fault, TypeOK
  <2>5. RunOk(r)'
    BY <1>11, <1>0, <1>1, <1>2 DEF FlushFails, Caught, Goto, RunOk, TypeOK, AtStage
  <2> QED BY <1>0, <2>2, <2>3, <2>4, <2>5 DEF TypeOK
<1>12. CASE WorkReloads(r)
  <2>2. row' \in [Jobs -> Rows]
    BY <1>12 DEF WorkReloads, Proceed, jobVars, TypeOK
  <2>3. /\ pc' \in [Runners -> Controls] /\ on' \in [Runners -> Jobs \cup {NoMsg}]
        /\ at' \in [Runners -> Places] /\ copy' \in [Runners -> Rows] /\ sess' \in [Runners -> Sessions]
    BY <1>12, <1>1, <1>2, FollowingType DEF WorkReloads, Proceed, Goto, TypeOK, Controls, Sessions
  <2>4. dropped' \in SUBSET Jobs /\ faults' \in Nat
    BY <1>12 DEF WorkReloads, Proceed, Fault, TypeOK
  <2>5. RunOk(r)'
    BY <1>12, <1>0, <1>1, <1>2 DEF WorkReloads, Proceed, Goto, RunOk, TypeOK, AtStage
  <2> QED BY <1>0, <2>2, <2>3, <2>4, <2>5 DEF TypeOK
<1>13. CASE WorkExpires(r)
  <2>2. row' \in [Jobs -> Rows]
    BY <1>13 DEF WorkExpires, Proceed, jobVars, TypeOK
  <2>3. /\ pc' \in [Runners -> Controls] /\ on' \in [Runners -> Jobs \cup {NoMsg}]
        /\ at' \in [Runners -> Places] /\ copy' \in [Runners -> Rows] /\ sess' \in [Runners -> Sessions]
    BY <1>13, <1>1, <1>2, FollowingType DEF WorkExpires, Proceed, Goto, TypeOK, Controls, Sessions
  <2>4. dropped' \in SUBSET Jobs /\ faults' \in Nat
    BY <1>13 DEF WorkExpires, Proceed, Fault, TypeOK
  <2>5. RunOk(r)'
    BY <1>13, <1>0, <1>1, <1>2 DEF WorkExpires, Proceed, Goto, RunOk, TypeOK, AtStage
  <2> QED BY <1>0, <2>2, <2>3, <2>4, <2>5 DEF TypeOK
<1>14. CASE PlanRefused(r)
  <2>2. row' \in [Jobs -> Rows]
    BY <1>14 DEF PlanRefused, Caught, jobVars, TypeOK
  <2>3. /\ pc' \in [Runners -> Controls] /\ on' \in [Runners -> Jobs \cup {NoMsg}]
        /\ at' \in [Runners -> Places] /\ copy' \in [Runners -> Rows] /\ sess' \in [Runners -> Sessions]
    BY <1>14, <1>1, <1>2 DEF PlanRefused, Caught, Goto, TypeOK, Controls, Sessions
  <2>4. dropped' \in SUBSET Jobs /\ faults' \in Nat
    BY <1>14 DEF PlanRefused, Caught, Fault, TypeOK
  <2>5. RunOk(r)'
    BY <1>14, <1>0, <1>1, <1>2 DEF PlanRefused, Caught, Goto, RunOk, TypeOK, AtStage
  <2> QED BY <1>0, <2>2, <2>3, <2>4, <2>5 DEF TypeOK
<1>15. CASE PlanOrderFails(r)
  <2>2. row' \in [Jobs -> Rows]
    BY <1>15 DEF PlanOrderFails, Proceed, jobVars, TypeOK
  <2>3. /\ pc' \in [Runners -> Controls] /\ on' \in [Runners -> Jobs \cup {NoMsg}]
        /\ at' \in [Runners -> Places] /\ copy' \in [Runners -> Rows] /\ sess' \in [Runners -> Sessions]
    BY <1>15, <1>1, <1>2, FollowingType DEF PlanOrderFails, Proceed, Goto, TypeOK, Controls, Sessions
  <2>4. dropped' \in SUBSET Jobs /\ faults' \in Nat
    BY <1>15 DEF PlanOrderFails, Proceed, Fault, TypeOK
  <2>5. RunOk(r)'
    BY <1>15, <1>0, <1>1, <1>2 DEF PlanOrderFails, Proceed, Goto, RunOk, TypeOK, AtStage
  <2> QED BY <1>0, <2>2, <2>3, <2>4, <2>5 DEF TypeOK
<1>16. CASE WorkRaises(r)
  <2>2. row' \in [Jobs -> Rows]
    BY <1>16 DEF WorkRaises, Caught, jobVars, TypeOK
  <2>3. /\ pc' \in [Runners -> Controls] /\ on' \in [Runners -> Jobs \cup {NoMsg}]
        /\ at' \in [Runners -> Places] /\ copy' \in [Runners -> Rows] /\ sess' \in [Runners -> Sessions]
    BY <1>16, <1>1, <1>2 DEF WorkRaises, Caught, Goto, TypeOK, Controls, Sessions
  <2>4. dropped' \in SUBSET Jobs /\ faults' \in Nat
    BY <1>16 DEF WorkRaises, Caught, Fault, TypeOK
  <2>5. RunOk(r)'
    BY <1>16, <1>0, <1>1, <1>2 DEF WorkRaises, Caught, Goto, RunOk, TypeOK, AtStage
  <2> QED BY <1>0, <2>2, <2>3, <2>4, <2>5 DEF TypeOK
<1>17. CASE AgentSkipped(r)
  <2>2. row' \in [Jobs -> Rows]
    BY <1>17 DEF AgentSkipped, Proceed, jobVars, TypeOK
  <2>3. /\ pc' \in [Runners -> Controls] /\ on' \in [Runners -> Jobs \cup {NoMsg}]
        /\ at' \in [Runners -> Places] /\ copy' \in [Runners -> Rows] /\ sess' \in [Runners -> Sessions]
    BY <1>17, <1>1, <1>2, FollowingType DEF AgentSkipped, Proceed, Goto, TypeOK, Controls, Sessions
  <2>4. dropped' \in SUBSET Jobs /\ faults' \in Nat
    BY <1>17 DEF AgentSkipped, Proceed, Fault, TypeOK
  <2>5. RunOk(r)'
    BY <1>17, <1>0, <1>1, <1>2 DEF AgentSkipped, Proceed, Goto, RunOk, TypeOK, AtStage
  <2> QED BY <1>0, <2>2, <2>3, <2>4, <2>5 DEF TypeOK
<1>18. CASE Finish(r)
  <2>1. pc[r] # "idle" /\ EndRun(r, "ack")
    BY <1>18 DEF Finish, AtStage
  <2>2. at'[r] = "detecting" /\ sess'[r] = "clean"
    BY <1>18, <1>2 DEF Finish, TypeOK, RunOk, ForgetSession
  <2>3. RunOk(r)'
    BY <1>0, <2>1, <2>2, EndRunOk DEF Controls
  <2>4. /\ pc' \in [Runners -> Controls] /\ on' \in [Runners -> Jobs \cup {NoMsg}]
        /\ at' \in [Runners -> Places] /\ copy' \in [Runners -> Rows] /\ sess' \in [Runners -> Sessions]
    BY <1>18, <2>1, RunBookkeeping DEF Finish, TypeOK, Controls
  <2>5. row' \in [Jobs -> Rows]
    <3>1. copy[r] \in Rows
      BY <1>1, <1>2, <2>1 DEF Refreshed
    <3>2. [copy[r] EXCEPT !.status = "complete", !.stage = "none"] \in Rows
      BY <3>1 DEF Rows, Statuses, Terminal
    <3> QED BY <1>18, <3>1, <3>2, WriteType DEF Finish, TypeOK
  <2>6. dropped' \in SUBSET Jobs /\ faults' \in Nat
    BY <1>18, <1>1, <2>1 DEF Finish, Fault, TypeOK
  <2> QED BY <1>0, <2>3, <2>4, <2>5, <2>6 DEF TypeOK
<1>19. CASE HandleLost(r)
  <2>1. pc[r] # "idle" /\ EndRun(r, "ack")
    BY <1>19 DEF HandleLost, AtStage
  <2>2. at'[r] = "detecting" /\ sess'[r] = "clean"
    BY <1>19, <1>2 DEF HandleLost, TypeOK, RunOk, ForgetSession
  <2>3. RunOk(r)'
    BY <1>0, <2>1, <2>2, EndRunOk DEF Controls
  <2>4. /\ pc' \in [Runners -> Controls] /\ on' \in [Runners -> Jobs \cup {NoMsg}]
        /\ at' \in [Runners -> Places] /\ copy' \in [Runners -> Rows] /\ sess' \in [Runners -> Sessions]
    BY <1>19, <2>1, RunBookkeeping DEF HandleLost, TypeOK, Controls
  <2>5. row' \in [Jobs -> Rows]
    BY <1>19 DEF HandleLost, jobVars, TypeOK
  <2>6. dropped' \in SUBSET Jobs /\ faults' \in Nat
    BY <1>19, <1>1, <2>1 DEF HandleLost, Fault, TypeOK
  <2> QED BY <1>0, <2>3, <2>4, <2>5, <2>6 DEF TypeOK
<1>20. CASE HandleCancelled(r)
  <2>1. pc[r] # "idle" /\ EndRun(r, "ack")
    BY <1>20 DEF HandleCancelled, AtStage
  <2>2. at'[r] = "detecting" /\ sess'[r] = "clean"
    BY <1>20, <1>2 DEF HandleCancelled, TypeOK, RunOk, ForgetSession
  <2>3. RunOk(r)'
    BY <1>0, <2>1, <2>2, EndRunOk DEF Controls
  <2>4. /\ pc' \in [Runners -> Controls] /\ on' \in [Runners -> Jobs \cup {NoMsg}]
        /\ at' \in [Runners -> Places] /\ copy' \in [Runners -> Rows] /\ sess' \in [Runners -> Sessions]
    BY <1>20, <2>1, RunBookkeeping DEF HandleCancelled, TypeOK, Controls
  <2>5. row' \in [Jobs -> Rows]
    BY <1>20 DEF HandleCancelled, jobVars, TypeOK
  <2>6. dropped' \in SUBSET Jobs /\ faults' \in Nat
    BY <1>20, <1>1, <2>1 DEF HandleCancelled, Fault, TypeOK
  <2> QED BY <1>0, <2>3, <2>4, <2>5, <2>6 DEF TypeOK
<1>21. CASE HandleFailed(r)
  <2>1. pc[r] # "idle" /\ EndRun(r, "ack")
    BY <1>21 DEF HandleFailed, AtStage
  <2>2. at'[r] = "detecting" /\ sess'[r] = "clean"
    BY <1>21, <1>2 DEF HandleFailed, TypeOK, RunOk, ForgetSession
  <2>3. RunOk(r)'
    BY <1>0, <2>1, <2>2, EndRunOk DEF Controls
  <2>4. /\ pc' \in [Runners -> Controls] /\ on' \in [Runners -> Jobs \cup {NoMsg}]
        /\ at' \in [Runners -> Places] /\ copy' \in [Runners -> Rows] /\ sess' \in [Runners -> Sessions]
    BY <1>21, <2>1, RunBookkeeping DEF HandleFailed, TypeOK, Controls
  <2>5. row' \in [Jobs -> Rows]
    <3>1. Refreshed(r) \in Rows
      BY <1>1, <1>2, <2>1 DEF Refreshed
    <3>2. [Refreshed(r) EXCEPT !.status = "failed", !.error = Refreshed(r).stage] \in Rows
      BY <3>1 DEF Rows, Statuses, Terminal
    <3> QED BY <1>21, <3>1, <3>2, WriteType DEF HandleFailed, TypeOK
  <2>6. dropped' \in SUBSET Jobs /\ faults' \in Nat
    BY <1>21, <1>1, <2>1 DEF HandleFailed, Fault, TypeOK
  <2> QED BY <1>0, <2>3, <2>4, <2>5, <2>6 DEF TypeOK
<1>22. CASE HandlerRaises(r)
  <2>1. pc[r] # "idle" /\ EndRun(r, "retry")
    BY <1>22 DEF HandlerRaises, AtStage
  <2>2. at'[r] = "detecting" /\ sess'[r] = "clean"
    BY <1>22, <1>2 DEF HandlerRaises, TypeOK, RunOk, ForgetSession
  <2>3. RunOk(r)'
    BY <1>0, <2>1, <2>2, EndRunOk DEF Controls
  <2>4. /\ pc' \in [Runners -> Controls] /\ on' \in [Runners -> Jobs \cup {NoMsg}]
        /\ at' \in [Runners -> Places] /\ copy' \in [Runners -> Rows] /\ sess' \in [Runners -> Sessions]
    BY <1>22, <2>1, RunBookkeeping DEF HandlerRaises, TypeOK, Controls
  <2>5. row' \in [Jobs -> Rows]
    BY <1>22 DEF HandlerRaises, jobVars, TypeOK
  <2>6. dropped' \in SUBSET Jobs /\ faults' \in Nat
    BY <1>22, <1>1, <2>1 DEF HandlerRaises, Fault, TypeOK
  <2> QED BY <1>0, <2>3, <2>4, <2>5, <2>6 DEF TypeOK
<1> QED BY <1>3, <1>4, <1>5, <1>6, <1>7, <1>8, <1>9, <1>10, <1>11, <1>12, <1>13, <1>14, <1>15, <1>16, <1>17, <1>18, <1>19, <1>20, <1>21, <1>22 DEF RunStep, RunFault

(* The steps of AnalysisService.run keep the type invariant.               *)
LEMMA RunKeepsTypes ==
  ASSUME TypeInv, NEW r \in Runners, RunStep(r) \/ RunFault(r)
  PROVE  TypeInv'
<1>1. \A s \in Runners \ {r} : Untouched(s)
  BY RunFrame DEF TypeInv
<1>2. \A s \in Runners \ {r} : RunOk(s)'
  BY <1>1, UntouchedOk DEF TypeInv, RunInv
<1>3. RequestInv'
  BY <1>1, RunFrame DEF TypeInv, RequestInv, Exists, Untouched, Runners
<1> QED BY <1>2, <1>3, RunTypes DEF TypeInv, RunInv

(* The submit, stop and delete requests keep the type invariant.           *)
LEMMA ApiKeepsTypes ==
  ASSUME TypeInv, NEW j \in Jobs, Api(j)
  PROVE  TypeInv'
<1> USE DEF TypeInv
<1>1. CASE SubmitFlush(j)
  <2>1. TypeOK'
    BY <1>1, RowTypes, BrokerOperations DEF SubmitFlush, Fault, TypeOK, BrokerTypeOK, brokerVars, apiUnchanged, runVars, Requests, Rows, Statuses, Terminal
  <2>2. RequestInv'
    BY <1>1 DEF SubmitFlush, RequestInv, Exists, apiUnchanged, runVars, NoRow, TypeOK
  <2> QED BY <1>1, <2>1, <2>2 DEF SubmitFlush, apiUnchanged, runVars, brokerVars, RunInv, RunOk
<1>2. CASE SubmitPublish(j)
  <2>1. TypeOK'
    BY <1>2, RowTypes, BrokerOperations DEF SubmitPublish, Fault, TypeOK, BrokerTypeOK, brokerVars, apiUnchanged, runVars, Requests, Rows, Statuses, Terminal
  <2>2. RequestInv'
    BY <1>2 DEF SubmitPublish, RequestInv, Exists, apiUnchanged, runVars, NoRow, TypeOK
  <2> QED BY <1>2, <2>1, <2>2 DEF SubmitPublish, apiUnchanged, runVars, brokerVars, RunInv, RunOk
<1>3. CASE SubmitFallback(j)
  <2>1. TypeOK'
    BY <1>3, RowTypes, BrokerOperations DEF SubmitFallback, Fault, TypeOK, BrokerTypeOK, brokerVars, apiUnchanged, runVars, Requests, Rows, Statuses, Terminal
  <2>2. RequestInv'
    BY <1>3 DEF SubmitFallback, RequestInv, Exists, apiUnchanged, runVars, NoRow, TypeOK
  <2> QED BY <1>3, <2>1, <2>2 DEF SubmitFallback, apiUnchanged, runVars, brokerVars, RunInv, RunOk
<1>4. CASE SubmitCommit(j)
  <2>1. TypeOK'
    BY <1>4, RowTypes DEF SubmitCommit, TypeOK, BrokerTypeOK, brokerVars, Requests, Controls, Runners
  <2>2. held' = held /\ at' = at /\ sess' = sess
    BY <1>4 DEF SubmitCommit, brokerVars
  <2>3. ASSUME NEW s \in Runners, s # j PROVE RunOk(s)'
    <3>1. pc'[s] = pc[s] /\ on'[s] = on[s]
      BY <1>4, <2>3 DEF SubmitCommit, TypeOK
    <3> QED BY <2>2, <3>1 DEF RunInv, RunOk
  <2>4. RunOk(j)'
    <3>1. RunOk(j) /\ j \in Runners /\ j \notin Workers
      BY PipelineAssumption DEF RunInv, Runners
    <3>2. at[j] = "detecting" /\ sess[j] = "clean"
      BY <1>4, <3>1 DEF SubmitCommit, RequestInv, RunOk
    <3> QED BY <1>4, <2>2, <3>1, <3>2 DEF SubmitCommit, TypeOK, RunOk
  <2>5. RequestInv'
    BY <1>4 DEF SubmitCommit, RequestInv, TypeOK, Exists, Runners
  <2> QED BY <2>1, <2>3, <2>4, <2>5 DEF RunInv
<1>5. CASE SubmitAbort(j)
  <2>1. TypeOK'
    BY <1>5, RowTypes, BrokerOperations DEF SubmitAbort, Fault, TypeOK, BrokerTypeOK, brokerVars, apiUnchanged, runVars, Requests, Rows, Statuses, Terminal
  <2>2. RequestInv'
    BY <1>5 DEF SubmitAbort, RequestInv, Exists, apiUnchanged, runVars, NoRow, TypeOK
  <2> QED BY <1>5, <2>1, <2>2 DEF SubmitAbort, apiUnchanged, runVars, brokerVars, RunInv, RunOk
<1>6. CASE StopCheck(j)
  <2>1. TypeOK'
    BY <1>6, RowTypes, BrokerOperations DEF StopCheck, Fault, TypeOK, BrokerTypeOK, brokerVars, apiUnchanged, runVars, Requests, Rows, Statuses, Terminal
  <2>2. RequestInv'
    BY <1>6 DEF StopCheck, RequestInv, Exists, apiUnchanged, runVars, NoRow, TypeOK
  <2> QED BY <1>6, <2>1, <2>2 DEF StopCheck, apiUnchanged, runVars, brokerVars, RunInv, RunOk
<1>7. CASE StopCommit(j)
  <2>1. TypeOK'
    <3>1. row' \in [Jobs -> Rows]
      <4>1. CASE Exists(j)
        <5>1. row' = [row EXCEPT ![j].status = "cancelled"] /\ row[j] \in Rows
          BY <1>7, <4>1 DEF StopCommit, TypeOK
        <5>2. [row[j] EXCEPT !.status = "cancelled"] \in Rows
          BY <5>1 DEF Rows, Statuses, Terminal
        <5> QED BY <5>1, <5>2 DEF TypeOK
      <4>2. CASE ~Exists(j)
        BY <1>7, <4>2 DEF StopCommit, TypeOK
      <4> QED BY <4>1, <4>2
    <3>2. /\ stopping' = stopping \ {j}
          /\ UNCHANGED <<brokerVars, req, faults>> /\ apiUnchanged
      BY <1>7 DEF StopCommit
    <3> QED BY <3>1, <3>2 DEF TypeOK, BrokerTypeOK, brokerVars, apiUnchanged, runVars
  <2>2. RequestInv'
    BY <1>7 DEF StopCommit, RequestInv, Exists, apiUnchanged, runVars, NoRow, TypeOK
  <2> QED BY <1>7, <2>1, <2>2 DEF StopCommit, apiUnchanged, runVars, brokerVars, RunInv, RunOk
<1>8. CASE DeleteJob(j)
  <2>1. TypeOK'
    BY <1>8, RowTypes, BrokerOperations DEF DeleteJob, Fault, TypeOK, BrokerTypeOK, brokerVars, apiUnchanged, runVars, Requests, Rows, Statuses, Terminal
  <2>2. RequestInv'
    BY <1>8 DEF DeleteJob, RequestInv, Exists, apiUnchanged, runVars, NoRow, TypeOK
  <2> QED BY <1>8, <2>1, <2>2 DEF DeleteJob, apiUnchanged, runVars, brokerVars, RunInv, RunOk
<1> QED BY <1>1, <1>2, <1>3, <1>4, <1>5, <1>6, <1>7, <1>8 DEF Api, Submit

(* The steps that are neither a request's nor a run's: deliveries,         *)
(* settlements, crashes, lost channels and expired messages.               *)
Environment ==
    \/ \E w \in Workers : WorkerStep(w) \/ CrashWorker(w) \/ LoseChannel(w)
    \/ \E m \in Messages : Expire(m)
    \/ CrashApi

(* They write no row and answer no request.                                *)
LEMMA EnvironmentFrame ==
  ASSUME TypeInv, Environment
  PROVE  /\ row' = row /\ stopping' \subseteq stopping
         /\ \A j \in Jobs : req'[j] = "done" <=> req[j] = "done"
         /\ \A r \in Runners : pc[r] = "idle" /\ r \in Jobs => pc'[r] = "idle"
<1> USE DEF TypeInv, TypeOK, jobVars, runVars, Goto
<1>1. CASE \E w \in Workers, m \in Messages : Receive(w, m)
  BY <1>1, PipelineAssumption DEF Receive
<1>2. CASE \E w \in Workers : Republish(w) \/ Settle(w)
  BY <1>2, PipelineAssumption DEF Republish, Settle
<1>3. CASE \E w \in Workers : CrashWorker(w) \/ LoseChannel(w)
  BY <1>3, PipelineAssumption DEF CrashWorker, LoseChannel
<1>4. CASE \E m \in Messages : Expire(m)
  BY <1>4 DEF Expire
<1>5. CASE CrashApi
  BY <1>5 DEF CrashApi, brokerVars, Requests
<1> QED BY <1>1, <1>2, <1>3, <1>4, <1>5 DEF Environment, WorkerStep

(* A step of a worker's consumer, or the loss of its process or channel.   *)
LEMMA ConsumerKeepsRuns ==
  ASSUME TypeInv, NEW w \in Workers, WorkerStep(w) \/ CrashWorker(w) \/ LoseChannel(w)
  PROVE  TypeOK' /\ RunInv'
<1> USE DEF TypeInv
<1>0. w \in Runners /\ w \notin Jobs /\ RunOk(w)
  BY PipelineAssumption DEF Runners, RunInv
<1>1. ASSUME NEW m \in Messages, Receive(w, m) PROVE TypeOK' /\ RunInv'
  <2>1. BrokerTypeOK' /\ m.job \in Jobs
    BY <1>1, BrokerOperations DEF Receive, TypeOK, Messages
  <2>2. TypeOK'
    BY <1>1, <2>1 DEF Receive, TypeOK, jobVars, Goto, Controls
  <2>3. RunOk(w)'
    BY <1>0, <1>1, <2>1 DEF Receive, Goto, TypeOK, RunOk
  <2>4. ASSUME NEW s \in Runners \ {w} PROVE RunOk(s)'
    BY <1>1, UntouchedOk DEF Receive, TakeDelivery, Goto, TypeOK, BrokerTypeOK, RunInv, Untouched
  <2> QED BY <2>2, <2>3, <2>4 DEF RunInv
<1>2. CASE Republish(w)
  <2>1. pc[w] = "retry" /\ on[w] \in Jobs
    BY <1>0, <1>2 DEF Republish, RunOk
  <2>2. ready' \in [Messages -> Nat]
    BY <1>2, <2>1, BrokerOperations DEF Republish, TypeOK, BrokerTypeOK
  <2>3. faults' \in Nat /\ UNCHANGED <<held, dead, row, req, stopping, on, at, copy, sess, dropped>>
    BY <1>2 DEF Republish, Fault, TypeOK, jobVars
  <2>4. pc' \in [Runners -> Controls] /\ \A s \in Runners \ {w} : pc'[s] = pc[s]
    BY <1>2 DEF Republish, Goto, TypeOK, Controls
  <2>5. TypeOK'
    BY <2>2, <2>3, <2>4 DEF TypeOK, BrokerTypeOK
  <2>6. RunOk(w)'
    BY <1>0, <1>2, <2>1, <2>3 DEF Republish, Goto, TypeOK, RunOk
  <2>7. ASSUME NEW s \in Runners \ {w} PROVE RunOk(s)'
    BY <2>3, <2>4, UntouchedOk DEF RunInv, Untouched
  <2> QED BY <2>5, <2>6, <2>7 DEF RunInv
<1>3. CASE Settle(w)
  <2>1. BrokerTypeOK'
    BY <1>3, BrokerOperations DEF Settle, TypeOK
  <2>2. held' = [held EXCEPT ![w] = NoMsg]
    BY <1>3 DEF Settle, AckDelivery, RejectDelivery
  <2>3. TypeOK'
    BY <1>3, <2>1 DEF Settle, TypeOK, jobVars, Goto, Controls
  <2>4. RunOk(w)'
    BY <1>0, <1>3, <2>2 DEF Settle, Goto, TypeOK, BrokerTypeOK, RunOk
  <2>5. ASSUME NEW s \in Runners \ {w} PROVE RunOk(s)'
    BY <1>3, <2>2, UntouchedOk DEF Settle, Goto, TypeOK, BrokerTypeOK, RunInv, Untouched
  <2> QED BY <2>3, <2>4, <2>5 DEF RunInv
<1>4. CASE CrashWorker(w)
  <2>1. BrokerTypeOK' /\ held' = [held EXCEPT ![w] = NoMsg]
    BY <1>4, BrokerOperations DEF CrashWorker, RequeueDelivery, TypeOK
  <2>2. TypeOK'
    <3>1. at' \in [Runners -> Places] /\ copy' \in [Runners -> Rows] /\ sess' \in [Runners -> Sessions]
      BY <1>4, RowTypes DEF CrashWorker, ForgetSession, TypeOK, Places, Stages, Sessions
    <3>2. faults' \in Nat /\ UNCHANGED <<row, req, stopping, dropped>>
      BY <1>4 DEF CrashWorker, Fault, TypeOK, jobVars
    <3>3. pc' \in [Runners -> Controls] /\ on' \in [Runners -> Jobs \cup {NoMsg}]
      BY <1>4 DEF CrashWorker, Goto, TypeOK, Controls
    <3> QED BY <2>1, <3>1, <3>2, <3>3 DEF TypeOK
  <2>3. RunOk(w)'
    BY <1>0, <1>4, <2>1 DEF CrashWorker, ForgetSession, Goto, TypeOK, BrokerTypeOK, RunOk
  <2>4. ASSUME NEW s \in Runners \ {w} PROVE RunOk(s)'
    BY <1>4, <2>1, UntouchedOk DEF CrashWorker, ForgetSession, Goto, TypeOK, BrokerTypeOK, RunInv, Untouched
  <2> QED BY <2>2, <2>3, <2>4 DEF RunInv
<1>5. CASE LoseChannel(w)
  <2>1. BrokerTypeOK' /\ held' = [held EXCEPT ![w] = NoMsg]
    BY <1>5, BrokerOperations DEF LoseChannel, RequeueDelivery, TypeOK
  <2>2. TypeOK'
    BY <1>5, <2>1 DEF LoseChannel, Fault, TypeOK, jobVars, runVars
  <2>3. ASSUME NEW s \in Runners PROVE RunOk(s)'
    BY <1>5, <2>1 DEF LoseChannel, runVars, TypeOK, BrokerTypeOK, RunInv, RunOk
  <2> QED BY <2>2, <2>3 DEF RunInv
<1> QED BY <1>1, <1>2, <1>3, <1>4, <1>5 DEF WorkerStep

(* Consumers, crashes and lost channels keep the type invariant.           *)
LEMMA EnvironmentKeepsTypes ==
  ASSUME TypeInv, Environment
  PROVE  TypeInv'
<1> USE DEF TypeInv
<1>1. RequestInv'
  BY EnvironmentFrame, PipelineAssumption DEF RequestInv, Exists, Runners, TypeOK
<1>2. ASSUME NEW w \in Workers, WorkerStep(w) \/ CrashWorker(w) \/ LoseChannel(w)
      PROVE  TypeOK' /\ RunInv'
  BY <1>2, ConsumerKeepsRuns
<1>3. ASSUME NEW m \in Messages, Expire(m) PROVE TypeOK' /\ RunInv'
  <2>1. BrokerTypeOK' /\ held' = held
    BY <1>3, BrokerOperations DEF Expire, ExpireMessage, TypeOK
  <2> QED BY <1>3, <2>1 DEF Expire, Fault, TypeOK, jobVars, runVars, RunInv, RunOk
<1>4. CASE CrashApi
  <2>1. TypeOK'
    BY <1>4, RowTypes DEF CrashApi, Fault, TypeOK, BrokerTypeOK, brokerVars, Requests, Controls, Places, Stages, Sessions
  <2>2. ASSUME NEW s \in Runners PROVE RunOk(s)'
    BY <1>4, PipelineAssumption DEF CrashApi, brokerVars, RunInv, RunOk
  <2> QED BY <1>1, <2>1, <2>2 DEF RunInv
<1> QED BY <1>1, <1>2, <1>3, <1>4 DEF Environment

(* Every step of the pipeline keeps the type invariant.                    *)
LEMMA TypeInvInductive ==
  /\ Init => TypeInv
  /\ TypeInv /\ [Next]_vars => TypeInv'
<1>1. Init => TypeInv
  <2> SUFFICES ASSUME Init PROVE RunInv /\ RequestInv
    BY TypeInit DEF TypeInv
  <2> QED BY PipelineAssumption DEF Init, BrokerInit, RunInv, RunOk, RequestInv, Exists, NoRow, Runners
<1>2. ASSUME TypeInv, Next PROVE TypeInv'
  BY <1>2, RunKeepsTypes, ApiKeepsTypes, EnvironmentKeepsTypes DEF Next, Environment
<1>3. ASSUME TypeInv, UNCHANGED vars PROVE TypeInv'
  BY <1>3 DEF vars, brokerVars, runVars, TypeInv, TypeOK, BrokerTypeOK, RunInv, RunOk, RequestInv, Exists
<1> QED BY <1>1, <1>2, <1>3

(* Every variable of the pipeline stays in its type.                       *)
THEOREM TypeCorrect == Spec => []TypeOK
<1>1. TypeInv => TypeOK
  BY DEF TypeInv
<1> QED BY <1>1, TypeInvInductive, PTL DEF Spec

-----------------------------------------------------------------------------
(* Deleted jobs.                                                           *)

(* delete_job is final, whatever runs and requests are still about.        *)
THEOREM DeletedStaysDeleted == Spec => NeverResurrected
<1> DEFINE Step == \A j \in Jobs : req[j] = "done" /\ ~Exists(j) => ~Exists(j)'
<1>1. ASSUME TypeInv, NEW r \in Runners, RunStep(r) \/ RunFault(r) PROVE Step
  BY <1>1, RunFrame DEF TypeInv, Exists
<1>2. ASSUME TypeInv, NEW k \in Jobs, Api(k) PROVE Step
  <2>1. CASE SubmitCommit(k)
    BY <1>2, <2>1 DEF TypeInv, TypeOK, SubmitCommit, Exists
  <2>2. CASE StopCommit(k)
    BY <1>2, <2>2 DEF TypeInv, TypeOK, StopCommit, Exists
  <2>3. CASE DeleteJob(k)
    BY <1>2, <2>3 DEF TypeInv, TypeOK, DeleteJob, Exists, NoRow
  <2>4. CASE SubmitFlush(k) \/ SubmitPublish(k) \/ SubmitFallback(k) \/ SubmitAbort(k) \/ StopCheck(k)
    BY <2>4 DEF SubmitFlush, SubmitPublish, SubmitFallback, SubmitAbort, StopCheck, Exists
  <2> QED BY <1>2, <2>1, <2>2, <2>3, <2>4 DEF Api, Submit
<1>3. ASSUME TypeInv, Environment PROVE Step
  BY <1>3, EnvironmentFrame DEF Exists
<1>4. TypeInv /\ [Next]_vars => [Step]_vars
  BY <1>1, <1>2, <1>3 DEF Next, Environment
<1> QED BY <1>4, TypeInvInductive, PTL DEF Spec, NeverResurrected

-----------------------------------------------------------------------------
(* Results.                                                                *)

(* Without a message about a job no consumer's step or failure makes one.  *)
LEMMA SilenceKept ==
  ASSUME TypeInv, Environment, NEW j \in Jobs, ~HasMessage(j),
         \A r \in Runners : on[r] = j => pc[r] \in {"ack", "reject"}
  PROVE  /\ ~HasMessage(j)'
         /\ \A r \in Runners : on'[r] = j => pc'[r] \in {"ack", "reject"}
<1> DEFINE Silent == /\ \A m \in Messages : m.job = j => ready'[m] = 0
                     /\ \A w \in Workers : ~HeldBy(w, j)'
           Resting == \A r \in Runners : on'[r] = j => pc'[r] \in {"ack", "reject"}
<1> USE DEF TypeInv
<1>0. BrokerTypeOK /\ BrokerTypeOK' /\ NoMsg \notin Jobs
  BY EnvironmentKeepsTypes, BrokerAssumption DEF TypeOK
<1>1. /\ \A m \in Messages : m.job = j => ready[m] = 0
      /\ \A w \in Workers : ~HeldBy(w, j)
  BY <1>0, SilentJob
<1>2. ASSUME NEW w \in Workers, NEW m \in Messages, Receive(w, m) PROVE Silent /\ Resting
  <2>1. m.job # j /\ m.job \in Jobs
    BY <1>0, <1>1, <1>2 DEF Receive, TakeDelivery, BrokerTypeOK, Messages
  <2>2. Silent
    BY <1>0, <1>1, <1>2, <2>1 DEF Receive, TakeDelivery, BrokerTypeOK, HeldBy
  <2>3. Resting
    BY <1>2, <2>1 DEF Receive, Goto, TypeOK
  <2> QED BY <2>2, <2>3
<1>3. ASSUME NEW w \in Workers, Republish(w) PROVE Silent /\ Resting
  <2>1. on[w] # j /\ on[w] \in Jobs /\ w \in Runners
    BY <1>3, PipelineAssumption DEF Republish, RunInv, RunOk, Runners
  <2>2. NewMessage(on[w]).job # j /\ NewMessage(on[w]) \in Messages
    BY <2>1, NewMessageType DEF NewMessage
  <2>3. held' = held /\ on' = on /\ \A r \in Runners \ {w} : pc'[r] = pc[r]
    BY <1>3 DEF Republish, Goto, TypeOK
  <2>4. \A m \in Messages : m.job = j => ready'[m] = ready[m]
    BY <1>0, <1>3, <2>2 DEF Republish, Publish, Enqueue, BrokerTypeOK
  <2> QED BY <1>1, <2>1, <2>3, <2>4 DEF HeldBy
<1>4. ASSUME NEW w \in Workers, Settle(w) PROVE Silent /\ Resting
  <2>1. ready' = ready /\ held' = [held EXCEPT ![w] = NoMsg]
    BY <1>4 DEF Settle, AckDelivery, RejectDelivery
  <2> QED BY <1>0, <1>1, <1>4, <2>1 DEF Settle, Goto, TypeOK, BrokerTypeOK, HeldBy
<1>5. ASSUME NEW w \in Workers, RequeueDelivery(w) PROVE Silent
  <2>1. ~HeldBy(w, j)
    BY <1>1
  <2> QED BY <1>0, <1>1, <1>5, <2>1 DEF RequeueDelivery, BrokerTypeOK, HeldBy
<1>6. ASSUME NEW w \in Workers, CrashWorker(w) \/ LoseChannel(w) PROVE Silent /\ Resting
  <2>1. Silent
    BY <1>5, <1>6 DEF CrashWorker, LoseChannel
  <2> QED BY <1>0, <1>6, <2>1 DEF CrashWorker, LoseChannel, Goto, runVars, TypeOK
<1>7. ASSUME NEW m \in Messages, Expire(m) PROVE Silent /\ Resting
  <2>1. m.job # j
    BY <1>0, <1>1, <1>7 DEF Expire, ExpireMessage, BrokerTypeOK
  <2> QED BY <1>0, <1>1, <1>7, <2>1 DEF Expire, ExpireMessage, runVars, BrokerTypeOK, HeldBy
<1>8. ASSUME CrashApi PROVE Silent /\ Resting
  BY <1>0, <1>1, <1>8 DEF CrashApi, brokerVars, HeldBy
<1>9. Silent /\ Resting
  BY <1>2, <1>3, <1>4, <1>6, <1>7, <1>8 DEF Environment, WorkerStep
<1>10. Silent => ~HasMessage(j)'
  BY <1>0 DEF BrokerTypeOK, HasMessage, Waiting
<1> QED BY <1>9, <1>10

(* A result about which nothing is left in motion stays until it is        *)
(* deleted: nothing but a message, a run or a stop request can change it.  *)
THEOREM QuietResultStays == Spec => ResultStays
<1> DEFINE Stays(j) == Quiet(j)' /\ row'[j] = row[j]
           Step == \A j \in Jobs : Quiet(j) =>
                     \/ Quiet(j)' /\ row'[j] = row[j]
                     \/ ~Exists(j)'
<1>1. ASSUME TypeInv, NEW r \in Runners, RunStep(r) \/ RunFault(r), NEW j \in Jobs, Quiet(j)
      PROVE  Stays(j)
  <2>1. on[r] # j
    BY <1>1, RunFrame DEF TypeInv, Quiet
  <2>2. row'[j] = row[j] /\ stopping' = stopping /\ ready' = ready /\ held' = held
    BY <1>1, <2>1, RunFrame DEF TypeInv
  <2>3. \A s \in Runners : on'[s] = j => pc'[s] \in {"ack", "reject"}
    <3>1. on'[r] # j
      BY <1>1, <2>1, RunFrame, BrokerAssumption DEF TypeInv
    <3>2. \A s \in Runners \ {r} : Untouched(s)
      BY <1>1, RunFrame DEF TypeInv
    <3> QED BY <1>1, <3>1, <3>2 DEF Quiet, Untouched
  <2> QED BY <1>1, <2>2, <2>3 DEF Quiet, HasMessage, Waiting, HeldBy
<1>2. ASSUME TypeInv, NEW k \in Jobs, Api(k), NEW j \in Jobs, Quiet(j)
      PROVE  Stays(j) \/ ~Exists(j)'
  <2> USE DEF TypeInv
  <2>0. req[j] = "done" /\ BrokerTypeOK
    BY <1>2 DEF Quiet, RequestInv, Exists, TypeOK
  <2>1. CASE SubmitFlush(k) \/ SubmitAbort(k)
    BY <1>2, <2>1 DEF SubmitFlush, SubmitAbort, brokerVars, apiUnchanged, runVars, Quiet, HasMessage, Waiting, HeldBy
  <2>2. CASE SubmitPublish(k) \/ SubmitFallback(k)
    <3>1. k # j /\ NewMessage(k).job # j /\ NewMessage(k) \in Messages
      BY <2>0, <2>2, NewMessageType DEF SubmitPublish, SubmitFallback, NewMessage
    <3>2. \A m \in Messages : m.job = j => ready'[m] = ready[m]
      BY <2>0, <2>2, <3>1 DEF SubmitPublish, SubmitFallback, Publish, Enqueue, BrokerTypeOK
    <3>3. UNCHANGED <<held, row, stopping, pc, on>>
      BY <2>2 DEF SubmitPublish, SubmitFallback, apiUnchanged, runVars
    <3> QED BY <1>2, <3>2, <3>3 DEF Quiet, HasMessage, Waiting, HeldBy
  <2>3. CASE SubmitCommit(k)
    <3>1. k # j
      BY <2>0, <2>3 DEF SubmitCommit
    <3>2. row'[j] = row[j] /\ UNCHANGED <<ready, held, stopping>>
      BY <1>2, <2>3, <3>1 DEF SubmitCommit, TypeOK, brokerVars
    <3>3. \A s \in Runners : on'[s] = j => on[s] = j /\ pc'[s] = pc[s]
      <4>1. \/ on' = [on EXCEPT ![k] = k] /\ pc' = [pc EXCEPT ![k] = "load"]
            \/ on' = on /\ pc' = pc
        BY <2>3 DEF SubmitCommit
      <4> QED BY <1>2, <3>1, <4>1 DEF TypeOK
    <3> QED BY <1>2, <3>2, <3>3 DEF Quiet, HasMessage, Waiting, HeldBy
  <2>4. CASE StopCheck(k)
    <3>1. k # j
      BY <1>2, <2>4 DEF StopCheck, Stoppable, Stages, Quiet
    <3> QED BY <1>2, <2>4, <3>1 DEF StopCheck, brokerVars, apiUnchanged, runVars, Quiet, HasMessage, Waiting, HeldBy
  <2>5. CASE StopCommit(k)
    <3>1. k # j
      BY <1>2, <2>5 DEF StopCommit, Quiet
    <3>2. row'[j] = row[j] /\ j \notin stopping'
      BY <1>2, <2>5, <3>1 DEF StopCommit, TypeOK, Quiet
    <3> QED BY <1>2, <2>5, <3>2 DEF StopCommit, brokerVars, apiUnchanged, runVars, Quiet, HasMessage, Waiting, HeldBy
  <2>6. CASE DeleteJob(k)
    <3>1. CASE k = j
      <4>1. row'[j] = NoRow
        BY <1>2, <2>6, <3>1 DEF DeleteJob, TypeOK
      <4> QED BY <4>1 DEF Exists, NoRow
    <3>2. CASE k # j
      <4>1. row'[j] = row[j]
        BY <1>2, <2>6, <3>2 DEF DeleteJob, TypeOK
      <4> QED BY <1>2, <2>6, <4>1 DEF DeleteJob, brokerVars, apiUnchanged, runVars, Quiet, HasMessage, Waiting, HeldBy
    <3> QED BY <3>1, <3>2
  <2> QED BY <1>2, <2>1, <2>2, <2>3, <2>4, <2>5, <2>6 DEF Api, Submit
<1>3. ASSUME TypeInv, Environment, NEW j \in Jobs, Quiet(j)
      PROVE  Stays(j)
  <2>1. row' = row /\ j \notin stopping'
    <3>1. row' = row /\ stopping' \subseteq stopping
      BY <1>3, EnvironmentFrame
    <3> QED BY <1>3, <3>1 DEF Quiet
  <2>2. ~HasMessage(j)' /\ \A r \in Runners : on'[r] = j => pc'[r] \in {"ack", "reject"}
    BY <1>3, SilenceKept DEF Quiet
  <2> QED BY <1>3, <2>1, <2>2 DEF Quiet
<1>4. TypeInv /\ [Next]_vars => [Step]_vars
  BY <1>1, <1>2, <1>3 DEF Next, Environment
<1> QED BY <1>4, TypeInvInductive, PTL DEF Spec, ResultStays

-----------------------------------------------------------------------------
(* Stopped jobs.                                                           *)

(* A live run that cannot take its job out of "cancelled".                 *)
Harmless(r) ==
    \/ sess[r] # "clean"
    \/ pc[r] = "enter" /\ at[r] \in Stages /\ copy[r].status = "cancelled"

(* A run of a sealed job leaves "cancelled" alone and stays harmless.      *)
LEMMA SealedRun ==
  ASSUME TypeInv, NEW r \in Runners, RunStep(r) \/ RunFault(r), NEW j \in Jobs,
         Sealed(j), on[r] = j
  PROVE  /\ row'[j].status = "cancelled"
         /\ Loaded(r, j)' => Harmless(r)'
<1> USE DEF TypeInv
<1>0. /\ row[j].status = "cancelled" /\ RunOk(r) /\ Exists(on[r])
      /\ pc[r] \in {"enter", "work", "handle"} => Harmless(r)
  BY DEF Sealed, Loaded, RunInv, Exists, Harmless
<1>1. CASE LoadMissing(r)
  BY <1>0, <1>1 DEF LoadMissing
<1>2. CASE LoadFails(r) \/ HandlerRaises(r)
  BY <1>0, <1>2 DEF LoadFails, HandlerRaises, EndRun, Goto, jobVars, Loaded, TypeOK
<1>3. CASE Load(r)
  BY <1>0, <1>3 DEF Load, Goto, jobVars, Harmless, TypeOK, RunOk, Stages
<1>4. CASE EnterCancelled(r) \/ HandleLost(r) \/ HandleCancelled(r)
  BY <1>0, <1>4 DEF EnterCancelled, HandleLost, HandleCancelled, EndRun, Goto, jobVars, Loaded, TypeOK
<1>5. CASE EnterStage(r) \/ Finish(r)
  BY <1>0, <1>5 DEF EnterStage, Finish, AtStage, Harmless, Stages
<1>6. CASE WorkOk(r) \/ FlushFails(r) \/ PlanRefused(r) \/ WorkReloads(r) \/ WorkExpires(r)
           \/ PlanOrderFails(r) \/ WorkRaises(r) \/ AgentSkipped(r)
  BY <1>0, <1>6 DEF WorkOk, FlushFails, PlanRefused, WorkReloads, WorkExpires, PlanOrderFails, WorkRaises, AgentSkipped, Harmless, RunOk
<1>7. CASE CommitFails(r) \/ TouchExpired(r)
  BY <1>0, <1>7 DEF CommitFails, TouchExpired, jobVars, Harmless, TypeOK
<1>9. CASE HandleFailed(r)
  <2>1. sess[r] = "expired"
    BY <1>0, <1>9 DEF HandleFailed, Harmless, TypeOK, Sessions
  <2> QED BY <1>0, <1>9, <2>1 DEF HandleFailed, Refreshed
<1> QED BY <1>1, <1>2, <1>3, <1>4, <1>5, <1>6, <1>7, <1>9 DEF RunStep, RunFault

(* Once no live run holds an earlier copy of the row, "cancelled" is       *)
(* final: no later delivery, retry or stage of any run replaces it.        *)
THEOREM StopIsFinal == Spec => CancelSticks
<1> DEFINE Step == \A j \in Jobs : Sealed(j) => Sealed(j)' \/ ~Exists(j)'
<1> USE DEF TypeInv
<1>1. ASSUME TypeInv, NEW r \in Runners, RunStep(r) \/ RunFault(r), NEW j \in Jobs, Sealed(j)
      PROVE  Sealed(j)'
  <2>1. \A s \in Runners \ {r} : Loaded(s, j)' => Harmless(s)'
    BY <1>1, RunFrame DEF Untouched, Sealed, Loaded, Harmless
  <2>2. CASE on[r] = j
    BY <1>1, <2>1, <2>2, SealedRun DEF Sealed, Harmless
  <2>3. CASE on[r] # j
    BY <1>1, <2>1, <2>3, RunFrame, BrokerAssumption DEF Sealed, Loaded, Harmless
  <2> QED BY <2>2, <2>3
<1>2. ASSUME TypeInv, NEW k \in Jobs, Api(k), NEW j \in Jobs, Sealed(j)
      PROVE  Sealed(j)' \/ ~Exists(j)'
  <2>1. CASE SubmitFlush(k) \/ SubmitPublish(k) \/ SubmitFallback(k) \/ SubmitAbort(k) \/ StopCheck(k)
    BY <1>2, <2>1 DEF SubmitFlush, SubmitPublish, SubmitFallback, SubmitAbort, StopCheck, apiUnchanged, runVars, Sealed, Loaded
  <2>2. CASE SubmitCommit(k)
    <3>1. k # j
      BY <1>2, <2>2 DEF SubmitCommit, Sealed, RequestInv, Exists
    <3>2. row'[j] = row[j] /\ UNCHANGED <<at, copy, sess>>
      BY <1>2, <2>2, <3>1 DEF SubmitCommit, TypeOK
    <3>3. \A s \in Runners : Loaded(s, j)' => Loaded(s, j) /\ pc'[s] = pc[s]
      <4>1. \/ on' = [on EXCEPT ![k] = k] /\ pc' = [pc EXCEPT ![k] = "load"]
            \/ on' = on /\ pc' = pc
        BY <2>2 DEF SubmitCommit
      <4> QED BY <1>2, <3>1, <4>1 DEF TypeOK, Loaded
    <3> QED BY <1>2, <3>2, <3>3 DEF Sealed
  <2>3. CASE StopCommit(k)
    <3>1. row'[j].status = "cancelled"
      <4>1. CASE k = j
        BY <1>2, <2>3, <4>1 DEF StopCommit, Sealed, Exists, TypeOK, Rows
      <4>2. CASE k # j
        BY <1>2, <2>3, <4>2 DEF StopCommit, Sealed, TypeOK
      <4> QED BY <4>1, <4>2
    <3> QED BY <1>2, <2>3, <3>1 DEF StopCommit, apiUnchanged, runVars, Sealed, Loaded
  <2>4. CASE DeleteJob(k)
    <3>1. row'[j] = row[j] \/ row'[j] = NoRow
      BY <1>2, <2>4 DEF DeleteJob, TypeOK
    <3> QED BY <1>2, <2>4, <3>1 DEF DeleteJob, apiUnchanged, runVars, Sealed, Loaded, Exists, NoRow
  <2> QED BY <1>2, <2>1, <2>2, <2>3, <2>4 DEF Api, Submit
<1>3. ASSUME TypeInv, Environment, NEW j \in Jobs, Sealed(j)
      PROVE  Sealed(j)'
  <2>1. row' = row
    BY <1>3, EnvironmentFrame
  <2>2. \A s \in Runners : Loaded(s, j)' =>
            Loaded(s, j) /\ pc'[s] = pc[s] /\ at'[s] = at[s] /\ copy'[s] = copy[s] /\ sess'[s] = sess[s]
    <3>1. ASSUME NEW w \in Workers, NEW m \in Messages, Receive(w, m), NEW s \in Runners, Loaded(s, j)'
          PROVE  Loaded(s, j) /\ pc'[s] = pc[s] /\ at' = at /\ copy' = copy /\ sess' = sess
      BY <1>3, <3>1 DEF Receive, Goto, Loaded, TypeOK
    <3>2. ASSUME NEW w \in Workers, Republish(w) \/ Settle(w), NEW s \in Runners, Loaded(s, j)'
          PROVE  Loaded(s, j) /\ pc'[s] = pc[s] /\ at' = at /\ copy' = copy /\ sess' = sess
      BY <1>3, <3>2 DEF Republish, Settle, Goto, Loaded, TypeOK
    <3>3. ASSUME NEW w \in Workers, CrashWorker(w), NEW s \in Runners, Loaded(s, j)'
          PROVE  s # w /\ Loaded(s, j) /\ pc'[s] = pc[s]
      BY <1>3, <3>3 DEF CrashWorker, Goto, Loaded, TypeOK
    <3>4. ASSUME NEW w \in Workers, CrashWorker(w), NEW s \in Runners \ {w}
          PROVE  at'[s] = at[s] /\ copy'[s] = copy[s] /\ sess'[s] = sess[s]
      BY <1>3, <3>4 DEF CrashWorker, ForgetSession, TypeOK
    <3>5. ASSUME (\E w \in Workers : LoseChannel(w)) \/ (\E m \in Messages : Expire(m)) PROVE UNCHANGED runVars
      BY <3>5 DEF LoseChannel, Expire
    <3>6. ASSUME CrashApi, NEW s \in Runners, Loaded(s, j)'
          PROVE  s \notin Jobs /\ Loaded(s, j) /\ pc'[s] = pc[s]
      BY <1>3, <3>6, BrokerAssumption DEF CrashApi, Loaded
    <3>7. ASSUME CrashApi, NEW s \in Runners \ Jobs
          PROVE  at'[s] = at[s] /\ copy'[s] = copy[s] /\ sess'[s] = sess[s]
      BY <3>7 DEF CrashApi
    <3> QED BY <1>3, <3>1, <3>2, <3>3, <3>4, <3>5, <3>6, <3>7 DEF Environment, WorkerStep, runVars, Loaded
  <2> QED BY <1>3, <2>1, <2>2 DEF Sealed
<1>4. TypeInv /\ [Next]_vars => [Step]_vars
  BY <1>1, <1>2, <1>3 DEF Next, Environment
<1> QED BY <1>4, TypeInvInductive, PTL DEF Spec, CancelSticks

-----------------------------------------------------------------------------
(* Pending jobs.                                                           *)

Active(r) == pc[r] \in {"enter", "work", "handle"}

(* What a live run knows about its job: the request has committed, and     *)
(* once the run or its copy is past "pending", so is the row.              *)
PastPending(r) ==
    Active(r) =>
        /\ req[on[r]] = "done"
        /\ pc[r] = "enter" /\ at[r] = "detecting" => sess[r] = "clean"
        /\ pc[r] = "handle" /\ at[r] = "detecting" => sess[r] # "expired"
        /\ row[on[r]].status = "pending" =>
              /\ copy[r].status = "pending"
              /\ at[r] = "detecting"
              /\ pc[r] = "enter" \/ (pc[r] = "handle" /\ sess[r] = "broken")

(* A message about j that its consumer has not settled by success.         *)
Unanswered(w, j) == HeldBy(w, j) /\ pc[w] # "ack"
Alive(j) == Waiting(j) \/ \E w \in Workers : Unanswered(w, j)

Owed(j) == req[j] = "queued" \/ row[j].status = "pending"
Accounted(j) == Alive(j) \/ j \in dead \/ pc[j] # "idle" \/ j \in dropped

DeliveryInv == \A w \in Workers : held[w] # NoMsg => on[w] = held[w].job
PendingInv ==
    /\ TypeInv
    /\ DeliveryInv
    /\ \A r \in Runners : PastPending(r)
    /\ \A j \in Jobs : Owed(j) => Accounted(j)

(* A run that ends, or that answers its message, has moved its job out of  *)
(* "pending" or is on record as dropped.                                   *)
LEMMA RunAnswers ==
  ASSUME PendingInv, NEW r \in Runners, RunStep(r) \/ RunFault(r)
  PROVE  /\ PastPending(r)'
         /\ pc'[r] \in {"idle", "ack"} => \/ req[on[r]] = "done" /\ row'[on[r]].status # "pending"
                                          \/ on[r] \in dropped'
         /\ row[on[r]].status # "pending" => row'[on[r]].status # "pending"
         /\ dropped \subseteq dropped'
<1> DEFINE Goal == /\ PastPending(r)'
                   /\ pc'[r] \in {"idle", "ack"} => \/ req[on[r]] = "done" /\ row'[on[r]].status # "pending"
                                                    \/ on[r] \in dropped'
                   /\ row[on[r]].status # "pending" => row'[on[r]].status # "pending"
                   /\ dropped \subseteq dropped'
<1> SUFFICES Goal
  OBVIOUS
<1> USE DEF PendingInv, TypeInv, PastPending, Active
<1>0. /\ RunOk(r) /\ PastPending(r) /\ pc[r] # "idle" /\ on[r] \in Jobs /\ req' = req
      /\ r \in Jobs => on[r] = r
  BY RunFrame DEF RunInv, RunOk
<1>1. CASE LoadMissing(r) \/ LoadFails(r) \/ HandlerRaises(r)
  BY <1>0, <1>1 DEF LoadMissing, LoadFails, HandlerRaises, EndRun, Goto, jobVars, TypeOK
<1>2. CASE Load(r)
  <2>1. req[on[r]] = "done"
    BY <1>0, <1>2 DEF Load, RequestInv
  <2>2. at[r] = "detecting" /\ sess[r] = "clean"
    BY <1>0, <1>2 DEF Load, RunOk
  <2>3. /\ pc'[r] = "enter" /\ copy'[r] = row[on[r]]
        /\ UNCHANGED <<row, on, at, sess, dropped>>
    BY <1>2 DEF Load, Goto, jobVars, TypeOK
  <2> QED BY <1>0, <2>1, <2>2, <2>3
<1>3. CASE EnterCancelled(r) \/ HandleCancelled(r)
  BY <1>0, <1>3 DEF EnterCancelled, HandleCancelled, AtStage, Refreshed, EndRun, Goto, jobVars, TypeOK
<1>4. CASE EnterStage(r)
  <2>1. row'[on[r]].status # "pending"
    BY <1>0, <1>4 DEF EnterStage, AtStage, Write, Updated, TypeOK, Stages
  <2>2. pc'[r] = "work" /\ on' = on /\ dropped' = dropped
    BY <1>4 DEF EnterStage, Goto, TypeOK
  <2>3. req[on[r]] = "done"
    BY <1>0, <1>4 DEF EnterStage, AtStage
  <2> QED BY <1>0, <2>1, <2>2, <2>3
<1>5. CASE CommitFails(r) \/ TouchExpired(r)
  BY <1>0, <1>5 DEF CommitFails, TouchExpired, Goto, jobVars, TypeOK
<1>6. CASE WorkOk(r) \/ WorkReloads(r) \/ WorkExpires(r) \/ PlanOrderFails(r) \/ AgentSkipped(r)
  <2>1. Following(r) # "detecting"
    <3>1. at[r] \in Places /\ at[r] # "finishing"
      BY <1>0, <1>6 DEF TypeOK, RunOk, AgentSkipped, WorkOk, WorkReloads, WorkExpires, PlanOrderFails, Stages
    <3> QED BY <3>1, FollowingType
  <2> QED BY <1>0, <1>6, <2>1 DEF WorkOk, WorkReloads, WorkExpires, PlanOrderFails, AgentSkipped, Proceed, Goto, jobVars, TypeOK
<1>7. CASE FlushFails(r) \/ PlanRefused(r) \/ WorkRaises(r)
  BY <1>0, <1>7 DEF FlushFails, PlanRefused, WorkRaises, Caught, Goto, jobVars, TypeOK
<1>8. CASE Finish(r)
  <2>1. row'[on[r]].status # "pending"
    BY <1>0, <1>8 DEF Finish, Write, Updated, TypeOK
  <2> QED BY <1>0, <1>8, <2>1 DEF Finish, EndRun, Goto, TypeOK
<1>9. CASE HandleLost(r)
  BY <1>0, <1>9 DEF HandleLost, EndRun, Goto, jobVars, TypeOK, Exists, NoRow
<1>10. CASE HandleFailed(r)
  <2>1. row[on[r]].status # "pending"
    BY <1>0, <1>10 DEF HandleFailed
  <2>2. row'[on[r]].status # "pending"
    BY <1>0, <1>10, <2>1 DEF HandleFailed, Write, Updated, TypeOK
  <2> QED BY <1>0, <1>10, <2>2 DEF HandleFailed, EndRun, Goto, TypeOK
<1> QED BY <1>1, <1>2, <1>3, <1>4, <1>5, <1>6, <1>7, <1>8, <1>9, <1>10 DEF RunStep, RunFault

(* A run keeps every pending job accounted for.                            *)
LEMMA RunKeepsPending ==
  ASSUME PendingInv, NEW r \in Runners, RunStep(r) \/ RunFault(r)
  PROVE  PendingInv'
<1> USE DEF PendingInv
<1>0. TypeInv' /\ TypeOK /\ NoMsg \notin Jobs
  BY RunKeepsTypes, BrokerAssumption DEF TypeInv
<1>1. /\ UNCHANGED <<ready, held, dead, req>> /\ dropped \subseteq dropped'
      /\ \A s \in Runners \ {r} : Untouched(s)
      /\ \A j \in Jobs : row'[j].status = "pending" => row[j].status = "pending"
  BY <1>0, RunFrame, RunAnswers
<1>2. /\ RunOk(r) /\ pc[r] \in {"load", "enter", "work", "handle"} /\ on[r] \in Jobs
      /\ r \in Workers => on'[r] = on[r]
      /\ r \in Jobs => on[r] = r
  BY <1>0, RunFrame DEF TypeInv, RunInv, RunOk
<1>3. DeliveryInv'
  BY <1>1, <1>2 DEF DeliveryInv, Untouched, Runners
<1>4. ASSUME NEW s \in Runners PROVE PastPending(s)'
  <2>1. CASE s = r
    BY <2>1, RunAnswers
  <2>2. CASE s # r
    <3>1. Untouched(s) /\ (pc[s] # "idle" => on[s] \in Jobs)
      BY <1>1, <2>2 DEF TypeInv, RunInv, RunOk
    <3> QED BY <1>1, <3>1 DEF PastPending, Active, Untouched
  <2> QED BY <2>1, <2>2
<1>5. ASSUME NEW j \in Jobs, Owed(j)' PROVE Accounted(j)'
  <2>1. Owed(j) /\ Accounted(j)
    BY <1>1, <1>5 DEF Owed
  <2>2. row'[j].status = "pending" \/ req[j] = "queued"
    BY <1>1, <1>5 DEF Owed
  <2>3. ASSUME NEW w \in Workers, Unanswered(w, j) PROVE Unanswered(w, j)' \/ j \in dropped'
    <3>1. CASE w # r
      BY <1>1, <2>3, <3>1 DEF Unanswered, HeldBy, Untouched, Runners
    <3>2. CASE w = r
      <4>1. on[r] = j /\ HeldBy(w, j)'
        BY <1>1, <2>3, <3>2 DEF Unanswered, HeldBy, DeliveryInv
      <4>2. pc'[r] = "ack" => j \in dropped'
        BY <2>2, <4>1, RunAnswers
      <4> QED BY <3>2, <4>1, <4>2 DEF Unanswered
    <3> QED BY <3>1, <3>2
  <2>4. pc[j] # "idle" => pc'[j] # "idle" \/ j \in dropped'
    <3>1. CASE j = r
      BY <1>2, <2>2, <3>1, RunAnswers DEF TypeInv, RequestInv
    <3>2. CASE j # r
      BY <1>1, <3>2 DEF Untouched, Runners
    <3> QED BY <3>1, <3>2
  <2> QED BY <1>1, <2>1, <2>3, <2>4 DEF Accounted, Alive, Waiting
<1> QED BY <1>0, <1>3, <1>4, <1>5

(* What a request leaves alone: deliveries, sessions, and every run, but   *)
(* that it may start its own.                                              *)
LEMMA ApiFrame ==
  ASSUME TypeInv, NEW k \in Jobs, Api(k)
  PROVE  /\ UNCHANGED <<held, dead, at, copy, sess, dropped>>
         /\ \A m \in Messages : ready'[m] >= ready[m]
         /\ \A s \in Runners : s # k => pc'[s] = pc[s] /\ on'[s] = on[s]
         /\ \A s \in Workers : pc'[s] = pc[s] /\ on'[s] = on[s]
         /\ pc[k] # "idle" => pc'[k] = pc[k] /\ on'[k] = on[k]
<1>0. /\ TypeOK /\ BrokerTypeOK /\ RequestInv /\ NewMessage(k) \in Messages
  BY NewMessageType DEF TypeInv, TypeOK
<1>1. CASE SubmitFlush(k) \/ SubmitAbort(k) \/ StopCheck(k) \/ StopCommit(k) \/ DeleteJob(k)
  BY <1>0, <1>1 DEF SubmitFlush, SubmitAbort, StopCheck, StopCommit, DeleteJob, brokerVars, apiUnchanged, runVars, BrokerTypeOK
<1>2. CASE SubmitPublish(k) \/ SubmitFallback(k)
  <2>1. \A m \in Messages : ready'[m] >= ready[m]
    BY <1>0, <1>2 DEF SubmitPublish, SubmitFallback, Publish, Enqueue, BrokerTypeOK
  <2> QED BY <1>2, <2>1 DEF SubmitPublish, SubmitFallback, apiUnchanged, runVars
<1>3. CASE SubmitCommit(k)
  <2>1. UNCHANGED <<ready, held, dead, at, copy, sess, dropped>>
    BY <1>3 DEF SubmitCommit, brokerVars
  <2>2. k \notin Workers /\ pc[k] = "idle"
    BY <1>0, <1>3, PipelineAssumption DEF SubmitCommit, RequestInv
  <2>3. \/ on' = [on EXCEPT ![k] = k] /\ pc' = [pc EXCEPT ![k] = "load"]
        \/ on' = on /\ pc' = pc
    BY <1>3 DEF SubmitCommit
  <2> QED BY <1>0, <2>1, <2>2, <2>3 DEF TypeOK, BrokerTypeOK, Runners
<1> QED BY <1>1, <1>2, <1>3 DEF Api, Submit

(* A run that is live after a request has been so before.                  *)
LEMMA ApiRuns ==
  ASSUME TypeInv, NEW k \in Jobs, Api(k), NEW s \in Runners, Active(s)'
  PROVE  Active(s) /\ pc'[s] = pc[s] /\ on'[s] = on[s] /\ on[s] \in Jobs
<1>0. TypeOK /\ RunInv /\ RequestInv
  BY DEF TypeInv
<1>1. CASE s = k /\ pc[k] = "idle"
  <2>1. ~Active(s)'
    BY <1>0, <1>1, PipelineAssumption
       DEF Api, Submit, SubmitFlush, SubmitPublish, SubmitFallback, SubmitAbort, StopCheck, StopCommit,
           DeleteJob, SubmitCommit, apiUnchanged, runVars, Active, TypeOK
  <2> QED BY <2>1
<1>2. CASE s # k \/ pc[k] # "idle"
  <2>1. pc'[s] = pc[s] /\ on'[s] = on[s]
    BY <1>2, ApiFrame
  <2> QED BY <1>0, <2>1 DEF Active, RunInv, RunOk
<1> QED BY <1>1, <1>2

(* A request keeps every pending job accounted for.                        *)
LEMMA ApiKeepsPending ==
  ASSUME PendingInv, NEW k \in Jobs, Api(k)
  PROVE  PendingInv'
<1> USE DEF PendingInv
<1>0. /\ TypeInv' /\ TypeOK /\ BrokerTypeOK /\ RunInv /\ RequestInv
      /\ NewMessage(k) \in Messages /\ NewMessage(k).job = k
  BY ApiKeepsTypes, NewMessageType DEF TypeInv, TypeOK, NewMessage
<1>1. /\ UNCHANGED <<held, dead, at, copy, sess, dropped>>
      /\ \A m \in Messages : ready'[m] >= ready[m]
      /\ \A s \in Runners : s # k => pc'[s] = pc[s] /\ on'[s] = on[s]
      /\ \A s \in Workers : pc'[s] = pc[s] /\ on'[s] = on[s]
      /\ pc[k] # "idle" => pc'[k] = pc[k] /\ on'[k] = on[k]
  BY <1>0, ApiFrame
<1>2. DeliveryInv'
  BY <1>1 DEF DeliveryInv
<1>3. /\ \A j \in Jobs : req[j] = "done" => req'[j] = "done"
      /\ \A j \in Jobs : row'[j].status = "pending" => row[j].status = "pending" \/ req[j] # "done"
  <2>1. CASE SubmitFlush(k) \/ SubmitPublish(k) \/ SubmitFallback(k) \/ SubmitAbort(k) \/ StopCheck(k)
    BY <1>0, <2>1 DEF SubmitFlush, SubmitPublish, SubmitFallback, SubmitAbort, StopCheck, TypeOK
  <2>2. CASE SubmitCommit(k)
    BY <1>0, <2>2 DEF SubmitCommit, TypeOK
  <2>3. CASE StopCommit(k)
    <3>1. \A j \in Jobs : row'[j] = row[j] \/ row'[j].status = "cancelled"
      BY <1>0, <2>3 DEF StopCommit, TypeOK, Rows
    <3> QED BY <2>3, <3>1 DEF StopCommit
  <2>4. CASE DeleteJob(k)
    <3>1. \A j \in Jobs : row'[j] = row[j] \/ row'[j] = NoRow
      BY <1>0, <2>4 DEF DeleteJob, TypeOK
    <3> QED BY <2>4, <3>1 DEF DeleteJob, NoRow
  <2> QED BY <2>1, <2>2, <2>3, <2>4 DEF Api, Submit
<1>4. ASSUME NEW s \in Runners PROVE PastPending(s)'
  <2>1. Active(s)' => pc'[s] = pc[s] /\ on'[s] = on[s] /\ on[s] \in Jobs
    BY <1>0, ApiRuns DEF TypeInv
  <2> QED BY <1>1, <1>3, <2>1 DEF PastPending, Active
<1>5. ASSUME NEW j \in Jobs, Accounted(j) PROVE Accounted(j)'
  <2>1. pc[j] # "idle" => pc'[j] # "idle"
    BY <1>1 DEF Runners
  <2>2. Alive(j) => Alive(j)'
    <3>1. Waiting(j) => Waiting(j)'
      <4>1. ready' \in [Messages -> Nat]
        BY <1>0 DEF TypeInv, TypeOK, BrokerTypeOK
      <4> QED BY <1>0, <1>1, <4>1 DEF Waiting, BrokerTypeOK
    <3>2. \A w \in Workers : Unanswered(w, j) => Unanswered(w, j)'
      BY <1>1 DEF Unanswered, HeldBy
    <3> QED BY <3>1, <3>2 DEF Alive
  <2> QED BY <1>1, <1>5, <2>1, <2>2 DEF Accounted
<1>6. ASSUME NEW j \in Jobs, Owed(j)' PROVE Accounted(j)'
  <2>1. CASE Owed(j)
    BY <1>5, <2>1
  <2>2. CASE ~Owed(j) /\ SubmitPublish(k)
    <3>1. j = k
      BY <1>0, <1>6, <2>2 DEF SubmitPublish, Owed, TypeOK
    <3>2. Waiting(j)'
      BY <1>0, <2>2, <3>1 DEF SubmitPublish, Publish, Enqueue, Waiting, BrokerTypeOK
    <3> QED BY <3>2 DEF Accounted, Alive
  <2>3. CASE ~Owed(j) /\ SubmitCommit(k)
    <3>1. j = k
      BY <1>0, <1>6, <2>3 DEF SubmitCommit, Owed, TypeOK
    <3>2. req[k] = "fallback"
      BY <2>3, <3>1 DEF SubmitCommit, Owed
    <3>3. pc'[j] = "load"
      BY <1>0, <2>3, <3>1, <3>2 DEF SubmitCommit, TypeOK, Runners
    <3> QED BY <3>3 DEF Accounted
  <2>4. CASE ~Owed(j) /\ ~SubmitPublish(k) /\ ~SubmitCommit(k)
    <3>1. /\ row[j].status # "pending" => row'[j].status # "pending"
          /\ req[j] # "queued" => req'[j] # "queued"
      <4>1. CASE SubmitFlush(k) \/ SubmitFallback(k) \/ SubmitAbort(k) \/ StopCheck(k)
        BY <1>0, <4>1 DEF SubmitFlush, SubmitFallback, SubmitAbort, StopCheck, TypeOK
      <4>2. CASE StopCommit(k)
        <5>1. row'[j] = row[j] \/ row'[j].status = "cancelled"
          BY <1>0, <4>2 DEF StopCommit, TypeOK, Rows
        <5> QED BY <4>2, <5>1 DEF StopCommit
      <4>3. CASE DeleteJob(k)
        <5>1. row'[j] = row[j] \/ row'[j] = NoRow
          BY <1>0, <4>3 DEF DeleteJob, TypeOK
        <5> QED BY <4>3, <5>1 DEF DeleteJob, NoRow
      <4> QED BY <2>4, <4>1, <4>2, <4>3 DEF Api, Submit
    <3> QED BY <1>6, <2>4, <3>1 DEF Owed
  <2> QED BY <2>1, <2>2, <2>3, <2>4
<1> QED BY <1>0, <1>2, <1>4, <1>6

(* A run that is live after such a step has been so before.                *)
LEMMA EnvironmentRuns ==
  ASSUME TypeInv, Environment, NEW s \in Runners
  PROVE  Active(s)' => /\ Active(s) /\ pc'[s] = pc[s] /\ on'[s] = on[s] /\ on[s] \in Jobs
                       /\ at'[s] = at[s] /\ copy'[s] = copy[s] /\ sess'[s] = sess[s]
<1>0. TypeOK /\ RunInv /\ Jobs \cap Workers = {}
  BY PipelineAssumption DEF TypeInv
<1>1. Active(s) => on[s] \in Jobs
  BY <1>0 DEF Active, RunInv, RunOk
<1>2. ASSUME NEW w \in Workers, NEW m \in Messages, Receive(w, m), Active(s)'
      PROVE  Active(s) /\ pc'[s] = pc[s] /\ on'[s] = on[s] /\ UNCHANGED <<at, copy, sess>>
  BY <1>0, <1>2 DEF Receive, Goto, Active, TypeOK
<1>3. ASSUME NEW w \in Workers, Republish(w) \/ Settle(w), Active(s)'
      PROVE  Active(s) /\ pc'[s] = pc[s] /\ on'[s] = on[s] /\ UNCHANGED <<at, copy, sess>>
  BY <1>0, <1>3 DEF Republish, Settle, Goto, Active, TypeOK
<1>4. ASSUME NEW w \in Workers, CrashWorker(w), Active(s)'
      PROVE  /\ s # w /\ Active(s) /\ pc'[s] = pc[s] /\ on'[s] = on[s]
             /\ at'[s] = at[s] /\ copy'[s] = copy[s] /\ sess'[s] = sess[s]
  BY <1>0, <1>4 DEF CrashWorker, ForgetSession, Goto, Active, TypeOK
<1>5. ASSUME (\E w \in Workers : LoseChannel(w)) \/ (\E m \in Messages : Expire(m)) PROVE UNCHANGED runVars
  BY <1>5 DEF LoseChannel, Expire
<1>6. ASSUME CrashApi, Active(s)'
      PROVE  /\ s \notin Jobs /\ Active(s) /\ pc'[s] = pc[s] /\ on'[s] = on[s]
             /\ at'[s] = at[s] /\ copy'[s] = copy[s] /\ sess'[s] = sess[s]
  BY <1>6 DEF CrashApi, Active
<1> QED BY <1>1, <1>2, <1>3, <1>4, <1>5, <1>6 DEF Environment, WorkerStep, runVars, Active

(* Consumers and failures keep every pending job accounted for.            *)
LEMMA EnvironmentKeepsPending ==
  ASSUME PendingInv, Environment
  PROVE  PendingInv'
<1> DEFINE Kept(j) == Accounted(j) => Accounted(j)'
           Goal == DeliveryInv' /\ \A j \in Jobs : Kept(j)
<1> USE DEF PendingInv
<1>0. /\ TypeInv /\ TypeInv' /\ TypeOK /\ BrokerTypeOK /\ RunInv /\ Jobs \cap Workers = {}
      /\ row' = row /\ \A j \in Jobs : req'[j] = "done" <=> req[j] = "done"
  BY EnvironmentKeepsTypes, EnvironmentFrame, PipelineAssumption DEF TypeInv, TypeOK
<1>1. ASSUME NEW w \in Workers, NEW m \in Messages, Receive(w, m) PROVE Goal
  <2>1. /\ held' = [held EXCEPT ![w] = m] /\ ready' = [ready EXCEPT ![m] = @ - 1] /\ dead' = dead
        /\ pc' = [pc EXCEPT ![w] = "load"] /\ on' = [on EXCEPT ![w] = m.job] /\ dropped' = dropped
        /\ held[w] = NoMsg /\ m # NoMsg
    BY <1>1, BrokerAssumption DEF Receive, TakeDelivery, Goto
  <2>2. DeliveryInv'
    BY <1>0, <2>1 DEF DeliveryInv, TypeOK, BrokerTypeOK, Runners
  <2>3. ASSUME NEW j \in Jobs PROVE Alive(j) => Alive(j)'
    <3>1. CASE m.job = j
      BY <1>0, <2>1, <3>1 DEF Alive, Unanswered, HeldBy, TypeOK, BrokerTypeOK, Runners
    <3>2. CASE m.job # j
      <4>1. Waiting(j) => Waiting(j)'
        BY <1>0, <2>1, <3>2 DEF Waiting, BrokerTypeOK
      <4>2. \A v \in Workers : Unanswered(v, j) => Unanswered(v, j)'
        BY <1>0, <2>1 DEF Unanswered, HeldBy, TypeOK, BrokerTypeOK, Runners
      <4> QED BY <4>1, <4>2 DEF Alive
    <3> QED BY <3>1, <3>2
  <2>4. \A j \in Jobs : pc[j] # "idle" => pc'[j] # "idle"
    BY <1>0, <2>1 DEF TypeOK, Runners
  <2> QED BY <2>1, <2>2, <2>3, <2>4 DEF Accounted
<1>2. ASSUME NEW w \in Workers, Republish(w) PROVE Goal
  <2>1. /\ UNCHANGED <<held, dead, on, dropped>> /\ pc[w] = "retry" /\ on[w] \in Jobs
        /\ \A r \in Runners \ {w} : pc'[r] = pc[r]
    BY <1>0, <1>2 DEF Republish, Goto, TypeOK, RunInv, RunOk, Runners
  <2>2. DeliveryInv'
    BY <2>1 DEF DeliveryInv
  <2>3. ASSUME NEW j \in Jobs PROVE Alive(j) => Alive(j)'
    <3>1. CASE Publish(on[w]) /\ pc' = [pc EXCEPT ![w] = "ack"]
      <4>1. NewMessage(on[w]) \in Messages /\ NewMessage(on[w]).job = on[w]
        BY <2>1, NewMessageType DEF NewMessage
      <4>2. /\ Waiting(j) => Waiting(j)'
            /\ on[w] = j => Waiting(j)'
        BY <1>0, <3>1, <4>1 DEF Publish, Enqueue, Waiting, BrokerTypeOK
      <4>3. HeldBy(w, j) => on[w] = j
        BY DEF HeldBy, DeliveryInv
      <4> QED BY <2>1, <4>2, <4>3 DEF Alive, Unanswered, HeldBy, Runners
    <3>2. CASE ready' = ready /\ pc' = [pc EXCEPT ![w] = "reject"]
      BY <1>0, <2>1, <3>2 DEF Alive, Waiting, Unanswered, HeldBy, TypeOK, Runners
    <3> QED BY <1>2, <3>1, <3>2 DEF Republish, Goto
  <2>4. \A j \in Jobs : pc'[j] = pc[j]
    BY <1>0, <2>1 DEF Runners
  <2> QED BY <2>1, <2>2, <2>3, <2>4 DEF Accounted
<1>3. ASSUME NEW w \in Workers, Settle(w) PROVE Goal
  <2>1. /\ ready' = ready /\ held' = [held EXCEPT ![w] = NoMsg] /\ dropped' = dropped
        /\ pc' = [pc EXCEPT ![w] = "idle"] /\ on' = [on EXCEPT ![w] = NoMsg]
        /\ dead \subseteq dead'
        /\ pc[w] = "ack" \/ (held[w] # NoMsg => held[w].job \in dead')
    BY <1>3 DEF Settle, AckDelivery, RejectDelivery, Goto
  <2>2. DeliveryInv'
    BY <1>0, <2>1 DEF DeliveryInv, TypeOK, BrokerTypeOK, Runners
  <2>3. ASSUME NEW j \in Jobs PROVE Alive(j) => Alive(j)' \/ j \in dead'
    BY <1>0, <2>1 DEF Alive, Waiting, Unanswered, HeldBy, TypeOK, BrokerTypeOK, Runners
  <2>4. \A j \in Jobs : pc'[j] = pc[j]
    BY <1>0, <2>1 DEF TypeOK, Runners
  <2> QED BY <2>1, <2>2, <2>3, <2>4 DEF Accounted
<1>4. ASSUME NEW w \in Workers, CrashWorker(w) \/ LoseChannel(w) PROVE Goal
  <2>1. /\ RequeueDelivery(w) /\ dropped' = dropped
        /\ \A r \in Runners \ {w} : pc'[r] = pc[r] /\ on'[r] = on[r]
    BY <1>0, <1>4 DEF CrashWorker, LoseChannel, Goto, runVars, TypeOK
  <2>2. DeliveryInv'
    BY <1>0, <2>1 DEF DeliveryInv, RequeueDelivery, BrokerTypeOK, Runners
  <2>3. ASSUME NEW j \in Jobs PROVE Alive(j) => Alive(j)'
    BY <1>0, <2>1, RequeueKeepsMessage DEF Alive, Unanswered, HeldBy, Runners
  <2>4. dead' = dead
    BY <2>1 DEF RequeueDelivery
  <2>5. \A j \in Jobs : pc'[j] = pc[j]
    BY <1>0, <2>1 DEF Runners
  <2> QED BY <2>1, <2>2, <2>3, <2>4, <2>5 DEF Accounted
<1>5. ASSUME NEW m \in Messages, Expire(m) PROVE Goal
  <2>1. /\ ready' = [ready EXCEPT ![m] = @ - 1] /\ dead' = dead \cup {m.job} /\ held' = held
        /\ UNCHANGED <<pc, on, dropped>>
    BY <1>5 DEF Expire, ExpireMessage, runVars
  <2>2. \A j \in Jobs : Waiting(j) => Waiting(j)' \/ j \in dead'
    BY <1>0, <2>1 DEF Waiting, BrokerTypeOK
  <2> QED BY <2>1, <2>2 DEF DeliveryInv, Accounted, Alive, Unanswered, HeldBy
<1>6. ASSUME CrashApi PROVE Goal
  <2>1. /\ UNCHANGED <<ready, held, dead>> /\ dropped' = dropped \cup {j \in Jobs : pc[j] # "idle"}
        /\ \A r \in Workers : pc'[r] = pc[r] /\ on'[r] = on[r]
    BY <1>0, <1>6 DEF CrashApi, brokerVars, Runners
  <2> QED BY <2>1 DEF DeliveryInv, Accounted, Alive, Waiting, Unanswered, HeldBy
<1>7. Goal
  BY <1>1, <1>2, <1>3, <1>4, <1>5, <1>6 DEF Environment, WorkerStep
<1>8. ASSUME NEW s \in Runners PROVE PastPending(s)'
  <2>1. Active(s)' => /\ Active(s) /\ pc'[s] = pc[s] /\ on'[s] = on[s] /\ on[s] \in Jobs
                      /\ at'[s] = at[s] /\ copy'[s] = copy[s] /\ sess'[s] = sess[s]
    BY <1>0, EnvironmentRuns
  <2> QED BY <1>0, <2>1 DEF PastPending, Active
<1>9. ASSUME NEW j \in Jobs, Owed(j)' PROVE Owed(j)
  <2>1. req'[j] = "queued" => req[j] = "queued"
    <3>1. CASE \E w \in Workers : WorkerStep(w) \/ CrashWorker(w) \/ LoseChannel(w)
      BY <3>1 DEF WorkerStep, Receive, Republish, Settle, CrashWorker, LoseChannel, jobVars
    <3>2. CASE \E m \in Messages : Expire(m)
      BY <3>2 DEF Expire, jobVars
    <3>3. CASE CrashApi
      BY <3>3 DEF CrashApi
    <3> QED BY <3>1, <3>2, <3>3 DEF Environment
  <2> QED BY <1>0, <1>9, <2>1 DEF Owed
<1> QED BY <1>0, <1>7, <1>8, <1>9

(* Every step keeps every pending job accounted for.                       *)
LEMMA PendingInvInductive ==
  /\ Init => PendingInv
  /\ PendingInv /\ [Next]_vars => PendingInv'
<1>1. Init => PendingInv
  <2> SUFFICES ASSUME Init PROVE PendingInv
    OBVIOUS
  <2>1. TypeInv
    BY TypeInvInductive
  <2>2. DeliveryInv /\ \A r \in Runners : PastPending(r)
    BY DEF Init, BrokerInit, DeliveryInv, PastPending, Active
  <2>3. \A j \in Jobs : ~Owed(j)
    BY DEF Init, NoRow, Owed
  <2> QED BY <2>1, <2>2, <2>3 DEF PendingInv
<1>2. ASSUME PendingInv, Next PROVE PendingInv'
  BY <1>2, RunKeepsPending, ApiKeepsPending, EnvironmentKeepsPending DEF Next, Environment
<1>3. ASSUME PendingInv, UNCHANGED vars PROVE PendingInv'
  <2>1. TypeInv'
    BY <1>3, TypeInvInductive DEF PendingInv
  <2> QED BY <1>3, <2>1
          DEF vars, brokerVars, runVars, PendingInv, DeliveryInv, PastPending, Active, Owed, Accounted,
              Alive, Waiting, Unanswered, HeldBy
<1> QED BY <1>1, <1>2, <1>3

(* A job that its submitter was told is pending is never simply lost: a    *)
(* message, a task or the dead-letter queue accounts for it, or a run gave *)
(* it up before its first commit.                                          *)
THEOREM PendingAccounted == Spec => []PendingIsAccountedFor
<1>1. PendingInv => PendingIsAccountedFor
  BY DEF PendingInv, PendingIsAccountedFor, Owed, Accounted, Alive, Unanswered, HasMessage
<1> QED BY <1>1, PendingInvInductive, PTL DEF Spec

-----------------------------------------------------------------------------
(* One run of a job at a time.                                             *)

OneWorker == \A v, w \in Workers : v = w

(* What keeps a job from being run twice at a time: no message is redelivered *)
(* while its handler goes on, none is published by a request that then runs   *)
(* the job itself, and, when several workers share the queue, no worker dies  *)
(* between a retry's publication and the acknowledgement of what it repeats.  *)
Exclusive ==
    /\ Faults \cap {"channel", "confirm"} = {}
    /\ OneWorker \/ ~({"handler", "crash"} \subseteq Faults)

(* A delivery about j that may still lead to a run: once it has been       *)
(* answered, only a crash puts it back in the queue.                       *)
Token(w, j) == HeldBy(w, j) /\ (pc[w] = "ack" => "crash" \in Faults)

SingleMessage(j) ==
    /\ \A m \in Messages : m.job = j /\ ready[m] > 0 =>
          /\ ready[m] = 1
          /\ \A n \in Messages : n.job = j /\ ready[n] > 0 => n = m
          /\ \A w \in Workers : ~Token(w, j)
    /\ \A v, w \in Workers : Token(v, j) /\ Token(w, j) => v = w

TokenInv ==
    /\ \A w \in Workers : pc[w] # "idle" => held[w] # NoMsg
    /\ \A w \in Workers : pc[w] = "retry" => "handler" \in Faults
    /\ \A j \in Jobs : HasMessage(j) => req[j] \notin {"new", "flushed", "fallback"} /\ pc[j] = "idle"
    /\ OneWorker \/ \A j \in Jobs : SingleMessage(j)

(* Messages that are taken or settled leave a job with one at most.        *)
LEMMA FewerMessages ==
  ASSUME NEW j \in Jobs, SingleMessage(j), BrokerTypeOK, BrokerTypeOK',
         \A m \in Messages : m.job = j => ready'[m] <= ready[m],
         \A w \in Workers : Token(w, j)' => Token(w, j)
  PROVE  SingleMessage(j)'
<1>1. \A m \in Messages : m.job = j /\ ready'[m] > 0 => ready[m] > 0 /\ (ready[m] = 1 => ready'[m] = 1)
  BY DEF BrokerTypeOK
<1> QED BY <1>1 DEF SingleMessage

(* One message more is one message, where there was none.                  *)
LEMMA FirstMessage ==
  ASSUME NEW j \in Jobs, BrokerTypeOK, NEW m \in Messages, m.job = j, ready' = [ready EXCEPT ![m] = @ + 1],
         \A n \in Messages : n.job = j => ready[n] = 0,
         \A w \in Workers : ~Token(w, j)'
  PROVE  SingleMessage(j)'
<1>1. \A n \in Messages : n.job = j => ready'[n] = IF n = m THEN 1 ELSE 0
  BY DEF BrokerTypeOK
<1> QED BY <1>1 DEF SingleMessage

(* A job without a message has no delivery either.                         *)
LEMMA SilentIsSingle ==
  ASSUME NEW j \in Jobs, BrokerTypeOK, ~HasMessage(j)
  PROVE  SingleMessage(j) /\ (\A m \in Messages : m.job = j => ready[m] = 0) /\ \A w \in Workers : ~Token(w, j)
  BY SilentJob DEF SingleMessage, Token

(* The steps of a run keep the messages and deliveries as they are.        *)
LEMMA RunKeepsTokens ==
  ASSUME TypeInv, TypeInv', TokenInv, NEW r \in Runners, RunStep(r) \/ RunFault(r)
  PROVE  TokenInv'
<1>1. /\ UNCHANGED <<ready, held, req>> /\ pc[r] \in {"load", "enter", "work", "handle"}
      /\ \A s \in Runners \ {r} : pc'[s] = pc[s]
  BY RunFrame DEF TypeInv, Untouched
<1>2. BrokerTypeOK /\ BrokerTypeOK' /\ Workers \subseteq Runners /\ Jobs \subseteq Runners /\ Jobs \cap Workers = {}
  BY PipelineAssumption DEF TypeInv, TypeOK, Runners
<1>3. \A w \in Workers : pc'[w] # "idle" => held'[w] # NoMsg
  BY <1>1, <1>2 DEF TokenInv
<1>4. pc'[r] = "retry" => "handler" \in Faults
  BY <1>1 DEF RunStep, RunFault, LoadMissing, LoadFails, Load, EnterCancelled, EnterStage, CommitFails, TouchExpired,
     WorkOk, FlushFails, WorkReloads, WorkExpires, PlanRefused, PlanOrderFails, WorkRaises, AgentSkipped, Finish,
     HandleLost, HandleCancelled, HandleFailed, HandlerRaises, EndRun, Goto, Proceed, Caught, Fault, TypeInv, TypeOK
<1>5. \A w \in Workers : pc'[w] = "retry" => "handler" \in Faults
  BY <1>1, <1>2, <1>4 DEF TokenInv
<1>6. ASSUME NEW j \in Jobs PROVE HasMessage(j)' => HasMessage(j) /\ req'[j] = req[j] /\ pc'[j] = pc[j]
  <2>1. HasMessage(j)' => HasMessage(j)
    BY <1>1 DEF HasMessage, Waiting, HeldBy
  <2>2. HasMessage(j) => j # r
    BY <1>1 DEF TokenInv
  <2> QED BY <1>1, <1>2, <2>1, <2>2
<1>7. ASSUME NEW j \in Jobs, SingleMessage(j) PROVE SingleMessage(j)'
  <2>1. \A w \in Workers : Token(w, j)' => Token(w, j)
    BY <1>1, <1>2 DEF Token, HeldBy
  <2>2. \A m \in Messages : ready'[m] <= ready[m]
    BY <1>1, <1>2 DEF BrokerTypeOK
  <2> QED BY <1>2, <1>7, <2>1, <2>2, FewerMessages
<1> QED BY <1>3, <1>5, <1>6, <1>7 DEF TokenInv, OneWorker

(* A request publishes its job once, and does not run it then.             *)
LEMMA ApiKeepsTokens ==
  ASSUME Exclusive, TypeInv, TypeInv', TokenInv, NEW k \in Jobs, Api(k)
  PROVE  TokenInv'
<1>0. /\ BrokerTypeOK /\ BrokerTypeOK' /\ Workers \subseteq Runners /\ Jobs \subseteq Runners /\ Jobs \cap Workers = {}
      /\ NewMessage(k) \in Messages /\ NewMessage(k).job = k /\ req \in [Jobs -> Requests] /\ RequestInv
  BY PipelineAssumption, NewMessageType DEF TypeInv, TypeOK, Runners, NewMessage
<1>1. held' = held /\ \A w \in Workers : pc'[w] = pc[w]
  BY <1>0 DEF Api, Submit, SubmitFlush, SubmitPublish, SubmitFallback, SubmitAbort, SubmitCommit, StopCheck,
     StopCommit, DeleteJob, brokerVars, apiUnchanged, runVars, TypeInv, TypeOK
<1>2. \A w \in Workers : (pc'[w] # "idle" => held'[w] # NoMsg) /\ (pc'[w] = "retry" => "handler" \in Faults)
  BY <1>1 DEF TokenInv
<1>3. \A w \in Workers, j \in Jobs : Token(w, j)' <=> Token(w, j)
  BY <1>1 DEF Token, HeldBy
<1>4. CASE SubmitPublish(k)
  <2>1. /\ ready' = [ready EXCEPT ![NewMessage(k)] = @ + 1] /\ req' = [req EXCEPT ![k] = "queued"]
        /\ req[k] = "flushed" /\ pc' = pc
    BY <1>4 DEF SubmitPublish, Publish, Enqueue, apiUnchanged, runVars
  <2>2. ~HasMessage(k)
    BY <2>1 DEF TokenInv
  <2>3. pc[k] = "idle"
    BY <1>0, <2>1 DEF RequestInv
  <2>4. \A j \in Jobs \ {k} : \A m \in Messages : m.job = j => ready'[m] = ready[m]
    BY <1>0, <2>1 DEF BrokerTypeOK
  <2>5. \A j \in Jobs \ {k} : HasMessage(j)' => HasMessage(j)
    BY <1>1, <2>4 DEF HasMessage, Waiting, HeldBy
  <2>6. \A j \in Jobs : HasMessage(j)' => req'[j] \notin {"new", "flushed", "fallback"} /\ pc'[j] = "idle"
    BY <1>0, <2>1, <2>3, <2>5 DEF TokenInv
  <2>7. ASSUME NEW j \in Jobs, SingleMessage(j) PROVE SingleMessage(j)'
    <3>1. CASE j = k
      BY <1>0, <1>3, <2>1, <2>2, <3>1, SilentIsSingle, FirstMessage
    <3>2. CASE j # k
      <4>1. \A m \in Messages : m.job = j => ready'[m] <= ready[m]
        BY <1>0, <2>4, <3>2 DEF BrokerTypeOK
      <4> QED BY <1>0, <1>3, <2>7, <4>1, FewerMessages
    <3> QED BY <3>1, <3>2
  <2> QED BY <1>2, <2>6, <2>7 DEF TokenInv, OneWorker
<1>5. CASE ~SubmitPublish(k)
  <2>1. ready' = ready
    BY <1>5 DEF Api, Submit, SubmitFlush, SubmitFallback, SubmitAbort, SubmitCommit, StopCheck,
       StopCommit, DeleteJob, brokerVars, Exclusive, Fault
  <2>2. \A j \in Jobs : HasMessage(j)' <=> HasMessage(j)
    BY <1>1, <2>1 DEF HasMessage, Waiting, HeldBy
  <2>3. \A j \in Jobs : HasMessage(j) => req'[j] \notin {"new", "flushed", "fallback"} /\ pc'[j] = "idle"
    BY <1>0, <1>5 DEF Api, Submit, SubmitFlush, SubmitFallback, SubmitAbort, SubmitCommit, StopCheck,
       StopCommit, DeleteJob, apiUnchanged, runVars, TokenInv, TypeInv, TypeOK
  <2>4. ASSUME NEW j \in Jobs, SingleMessage(j) PROVE SingleMessage(j)'
    <3>1. \A m \in Messages : ready'[m] <= ready[m]
      BY <1>0, <2>1 DEF BrokerTypeOK
    <3> QED BY <1>0, <1>3, <2>4, <3>1, FewerMessages
  <2> QED BY <1>2, <2>2, <2>3, <2>4 DEF TokenInv, OneWorker
<1> QED BY <1>4, <1>5

(* A delivery moves a message from the queue to a worker.                  *)
LEMMA ReceiveKeepsTokens ==
  ASSUME TypeInv, TypeInv', DeliveryInv, TokenInv, NEW w \in Workers, NEW m \in Messages, Receive(w, m)
  PROVE  TokenInv'
<1>0. /\ BrokerTypeOK /\ BrokerTypeOK' /\ Workers \subseteq Runners /\ Jobs \subseteq Runners /\ Jobs \cap Workers = {}
      /\ m # NoMsg /\ m.job \in Jobs
  BY PipelineAssumption, BrokerAssumption DEF TypeInv, TypeOK, Runners, Messages
<1>1. /\ held' = [held EXCEPT ![w] = m] /\ ready' = [ready EXCEPT ![m] = @ - 1] /\ held[w] = NoMsg /\ ready[m] > 0
      /\ pc' = [pc EXCEPT ![w] = "load"] /\ pc[w] = "idle" /\ req' = req
  BY DEF Receive, TakeDelivery, Goto, jobVars
<1>2. /\ held'[w] = m /\ pc'[w] = "load" /\ \A v \in Workers \ {w} : held'[v] = held[v] /\ pc'[v] = pc[v]
      /\ \A j \in Jobs : pc'[j] = pc[j]
      /\ \A n \in Messages : ready'[n] <= ready[n] /\ (n # m => ready'[n] = ready[n])
      /\ ready'[m] = ready[m] - 1
  BY <1>0, <1>1 DEF BrokerTypeOK, TypeInv, TypeOK
<1>3. \A v \in Workers : (pc'[v] # "idle" => held'[v] # NoMsg) /\ (pc'[v] = "retry" => "handler" \in Faults)
  BY <1>0, <1>2 DEF TokenInv
<1>4. \A j \in Jobs : HasMessage(j)' => HasMessage(j)
  <2>1. HasMessage(m.job)
    BY <1>1 DEF HasMessage, Waiting
  <2>2. ASSUME NEW j \in Jobs, j # m.job PROVE HasMessage(j)' => HasMessage(j)
    BY <1>2, <2>2 DEF HasMessage, Waiting, HeldBy
  <2> QED BY <2>1, <2>2
<1>5. ASSUME NEW j \in Jobs, SingleMessage(j) PROVE SingleMessage(j)'
  <2>1. \A v \in Workers \ {w} : Token(v, j)' <=> Token(v, j)
    BY <1>2 DEF Token, HeldBy
  <2>2. CASE j # m.job
    <3>1. \A v \in Workers : Token(v, j)' => Token(v, j)
      BY <1>2, <2>1, <2>2 DEF Token, HeldBy
    <3> QED BY <1>0, <1>2, <1>5, <3>1, FewerMessages
  <2>3. CASE j = m.job
    <3>1. /\ ready[m] = 1 /\ (\A n \in Messages : n.job = j /\ ready[n] > 0 => n = m)
          /\ \A v \in Workers : ~Token(v, j)
      BY <1>1, <1>5, <2>3 DEF SingleMessage
    <3>2. \A n \in Messages : n.job = j => ~(ready'[n] > 0)
      BY <1>2, <3>1
    <3>3. \A v \in Workers : Token(v, j)' => v = w
      BY <2>1, <3>1
    <3> QED BY <3>2, <3>3 DEF SingleMessage
  <2> QED BY <2>2, <2>3
<1> QED BY <1>1, <1>2, <1>3, <1>4, <1>5 DEF TokenInv, OneWorker

(* A retry publishes the message anew before it acknowledges the old one,  *)
(* which no crash puts back.                                               *)
LEMMA RepublishKeepsTokens ==
  ASSUME Exclusive, TypeInv, TypeInv', DeliveryInv, TokenInv, NEW w \in Workers, Republish(w)
  PROVE  TokenInv'
<1>0. /\ BrokerTypeOK /\ BrokerTypeOK' /\ Workers \subseteq Runners /\ Jobs \subseteq Runners /\ Jobs \cap Workers = {}
      /\ pc[w] = "retry" /\ on[w] \in Jobs /\ held[w] # NoMsg /\ held[w].job = on[w] /\ "handler" \in Faults
  BY PipelineAssumption DEF TypeInv, TypeOK, Runners, Republish, RunInv, RunOk, TokenInv, DeliveryInv
<1> DEFINE j0 == on[w]
           m0 == NewMessage(j0)
<1>1. HeldBy(w, j0) /\ HasMessage(j0)
  BY <1>0 DEF HeldBy, HasMessage
<1>2. /\ held' = held /\ req' = req /\ pc'[w] \in {"ack", "reject"} /\ \A r \in Runners \ {w} : pc'[r] = pc[r]
      /\ \/ ready' = [ready EXCEPT ![m0] = @ + 1] /\ pc'[w] = "ack"
         \/ ready' = ready
  BY <1>0 DEF Republish, Publish, Enqueue, Goto, jobVars, TypeInv, TypeOK
<1>3. m0 \in Messages /\ m0.job = j0
  BY <1>0, NewMessageType DEF NewMessage
<1> HIDE DEF m0, j0
<1>4. \A v \in Workers : (pc'[v] # "idle" => held'[v] # NoMsg) /\ (pc'[v] = "retry" => "handler" \in Faults)
  BY <1>0, <1>2 DEF TokenInv
<1>5. \A j \in Jobs : HasMessage(j)' => HasMessage(j)
  <2>1. \A j \in Jobs : j # j0 => \A n \in Messages : n.job = j => ready'[n] = ready[n]
    BY <1>0, <1>2, <1>3 DEF BrokerTypeOK
  <2> QED BY <1>1, <1>2, <2>1 DEF HasMessage, Waiting, HeldBy
<1>6. \A j \in Jobs : pc'[j] = pc[j]
  BY <1>0, <1>2
<1>7. ASSUME NEW j \in Jobs, SingleMessage(j), "crash" \notin Faults PROVE SingleMessage(j)'
  <2>1. \A v \in Workers : Token(v, j)' => Token(v, j)
    BY <1>0, <1>2 DEF Token, HeldBy
  <2>2. CASE j # j0 \/ ready' = ready
    <3>1. \A n \in Messages : n.job = j => ready'[n] = ready[n]
      BY <1>0, <1>2, <1>3, <2>2 DEF BrokerTypeOK
    <3>2. \A n \in Messages : n.job = j => ready'[n] <= ready[n]
      BY <1>0, <3>1 DEF BrokerTypeOK
    <3> QED BY <1>0, <1>7, <2>1, <3>2, FewerMessages
  <2>3. CASE j = j0 /\ ready' = [ready EXCEPT ![m0] = @ + 1] /\ pc'[w] = "ack"
    <3>1. Token(w, j)
      BY <1>0, <1>1, <2>3 DEF Token
    <3>2. \A n \in Messages : n.job = j => ~(ready[n] > 0)
      BY <1>7, <3>1 DEF SingleMessage
    <3>3. \A n \in Messages : n.job = j => ready[n] = 0
      BY <1>0, <3>2 DEF BrokerTypeOK
    <3>4. \A v \in Workers : Token(v, j) => v = w
      BY <1>7, <3>1 DEF SingleMessage
    <3>5. ~Token(w, j)'
      BY <1>7, <2>3 DEF Token
    <3>6. \A v \in Workers : ~Token(v, j)'
      BY <2>1, <3>4, <3>5
    <3> QED BY <1>0, <1>3, <2>3, <3>3, <3>6, FirstMessage
  <2> QED BY <1>2, <2>2, <2>3
<1>8. OneWorker \/ "crash" \notin Faults
  BY <1>0 DEF Exclusive
<1> QED BY <1>2, <1>4, <1>5, <1>6, <1>7, <1>8 DEF TokenInv, OneWorker

(* What is acknowledged or rejected is gone; what a crash leaves behind is *)
(* in the queue again.                                                     *)
LEMMA SettlementKeepsTokens ==
  ASSUME TypeInv, TypeInv', DeliveryInv, TokenInv, NEW w \in Workers, Settle(w) \/ CrashWorker(w)
  PROVE  TokenInv'
<1>0. /\ BrokerTypeOK /\ BrokerTypeOK' /\ Workers \subseteq Runners /\ Jobs \subseteq Runners /\ Jobs \cap Workers = {}
      /\ held[w] # NoMsg /\ held[w] \in Messages
  BY PipelineAssumption DEF TypeInv, TypeOK, Runners, Settle, CrashWorker, TokenInv, BrokerTypeOK
<1>1. /\ held' = [held EXCEPT ![w] = NoMsg] /\ pc' = [pc EXCEPT ![w] = "idle"] /\ req' = req
      /\ \/ ready' = ready
         \/ ready' = [ready EXCEPT ![held[w]] = @ + 1] /\ "crash" \in Faults
  BY <1>0 DEF Settle, CrashWorker, AckDelivery, RejectDelivery, RequeueDelivery, Goto, Fault, jobVars
<1>2. /\ held'[w] = NoMsg /\ pc'[w] = "idle" /\ \A v \in Workers \ {w} : held'[v] = held[v] /\ pc'[v] = pc[v]
      /\ \A j \in Jobs : pc'[j] = pc[j]
  BY <1>0, <1>1 DEF BrokerTypeOK, TypeInv, TypeOK
<1>3. \A v \in Workers : (pc'[v] # "idle" => held'[v] # NoMsg) /\ (pc'[v] = "retry" => "handler" \in Faults)
  BY <1>2 DEF TokenInv
<1>4. \A j \in Jobs : HasMessage(j)' => HasMessage(j)
  <2>1. HasMessage(held[w].job)
    BY <1>0 DEF HasMessage, HeldBy
  <2>2. ASSUME NEW j \in Jobs, j # held[w].job PROVE HasMessage(j)' => HasMessage(j)
    <3>1. \A n \in Messages : n.job = j => ready'[n] = ready[n]
      BY <1>0, <1>1, <2>2 DEF BrokerTypeOK
    <3> QED BY <1>2, <3>1 DEF HasMessage, Waiting, HeldBy
  <2> QED BY <2>1, <2>2
<1>5. ASSUME NEW j \in Jobs, SingleMessage(j) PROVE SingleMessage(j)'
  <2>1. ~Token(w, j)' /\ \A v \in Workers \ {w} : Token(v, j)' <=> Token(v, j)
    BY <1>2 DEF Token, HeldBy
  <2>2. CASE j # held[w].job \/ ready' = ready
    <3>1. \A n \in Messages : n.job = j => ready'[n] = ready[n]
      BY <1>0, <1>1, <2>2 DEF BrokerTypeOK
    <3>2. \A n \in Messages : n.job = j => ready'[n] <= ready[n]
      BY <1>0, <3>1 DEF BrokerTypeOK
    <3> QED BY <1>0, <1>5, <2>1, <3>2, FewerMessages
  <2>3. CASE j = held[w].job /\ ready' = [ready EXCEPT ![held[w]] = @ + 1] /\ "crash" \in Faults
    <3>1. Token(w, j)
      BY <1>0, <2>3 DEF Token, HeldBy
    <3>2. \A n \in Messages : n.job = j => ~(ready[n] > 0)
      BY <1>5, <3>1 DEF SingleMessage
    <3>3. \A n \in Messages : n.job = j => ready[n] = 0
      BY <1>0, <3>2 DEF BrokerTypeOK
    <3>4. \A v \in Workers : Token(v, j) => v = w
      BY <1>5, <3>1 DEF SingleMessage
    <3>5. \A v \in Workers : ~Token(v, j)'
      BY <2>1, <3>4
    <3> QED BY <1>0, <2>3, <3>3, <3>5, FirstMessage
  <2> QED BY <1>1, <2>2, <2>3
<1> QED BY <1>1, <1>2, <1>3, <1>4, <1>5 DEF TokenInv, OneWorker

(* Every step keeps what makes runs of a job exclude each other.           *)
LEMMA TokensKept ==
  ASSUME Exclusive, TypeInv, DeliveryInv, TokenInv, [Next]_vars
  PROVE  TokenInv'
<1>0. /\ TypeInv' /\ BrokerTypeOK /\ BrokerTypeOK' /\ Jobs \cap Workers = {}
      /\ Workers \subseteq Runners /\ Jobs \subseteq Runners
  BY TypeInvInductive, PipelineAssumption DEF TypeInv, TypeOK, Runners
<1>1. ASSUME held' = held, \A w \in Workers : pc'[w] = pc[w], \A m \in Messages : ready'[m] <= ready[m],
             \A j \in Jobs : pc[j] = "idle" => pc'[j] = "idle",
             \A j \in Jobs : req[j] \notin {"new", "flushed", "fallback"} => req'[j] \notin {"new", "flushed", "fallback"}
      PROVE  TokenInv'
  <2>1. \A w \in Workers, j \in Jobs : Token(w, j)' <=> Token(w, j)
    BY <1>1 DEF Token, HeldBy
  <2>2. \A m \in Messages : ready'[m] > 0 => ready[m] > 0
    BY <1>0, <1>1 DEF BrokerTypeOK
  <2>3. \A j \in Jobs : HasMessage(j)' => HasMessage(j)
    BY <1>1, <2>2 DEF HasMessage, Waiting, HeldBy
  <2>4. \A j \in Jobs : SingleMessage(j) => SingleMessage(j)'
    BY <1>0, <1>1, <2>1, FewerMessages
  <2> QED BY <1>1, <2>3, <2>4 DEF TokenInv, OneWorker
<1>2. ASSUME NEW m \in Messages, Expire(m) PROVE TokenInv'
  BY <1>0, <1>1, <1>2 DEF Expire, ExpireMessage, jobVars, runVars, BrokerTypeOK
<1>3. CASE CrashApi
  <2>1. /\ ready' = ready /\ held' = held /\ (\A w \in Workers : pc'[w] = pc[w]) /\ \A j \in Jobs : pc'[j] = "idle"
        /\ \A j \in Jobs : req'[j] \in {req[j], "aborted"}
    BY <1>0, <1>3 DEF CrashApi, brokerVars
  <2>2. \A m \in Messages : ready'[m] <= ready[m]
    BY <1>0, <2>1 DEF BrokerTypeOK
  <2> QED BY <1>1, <2>1, <2>2
<1>4. CASE UNCHANGED vars
  <2>1. \A m \in Messages : ready'[m] <= ready[m]
    BY <1>0, <1>4 DEF vars, brokerVars, BrokerTypeOK
  <2> QED BY <1>1, <1>4, <2>1 DEF vars, brokerVars, runVars
<1>5. \A w \in Workers : ~LoseChannel(w)
  BY DEF LoseChannel, Fault, Exclusive
<1> QED BY <1>0, <1>2, <1>3, <1>4, <1>5, RunKeepsTokens, ApiKeepsTokens, ReceiveKeepsTokens, RepublishKeepsTokens,
           SettlementKeepsTokens DEF Next, WorkerStep

Busy(r) == pc[r] \in {"load", "enter", "work", "handle"}

(* No two runs of a job at a time.                                         *)
LEMMA RunsExclude ==
  ASSUME TypeInv, DeliveryInv, TokenInv, NEW r \in Runners, NEW s \in Runners, Busy(r), Busy(s), on[r] = on[s]
  PROVE  r = s
<1>1. /\ on[r] \in Jobs /\ (r \in Jobs => on[r] = r) /\ (s \in Jobs => on[s] = s)
      /\ r \in Jobs \cup Workers /\ s \in Jobs \cup Workers
  BY DEF TypeInv, RunInv, RunOk, Busy, Runners
<1>2. \A w \in Workers : Busy(w) => HeldBy(w, on[w]) /\ Token(w, on[w])
  BY DEF Busy, TokenInv, DeliveryInv, HeldBy, Token
<1>3. \A w \in Workers : Busy(w) /\ on[w] \in Jobs => pc[on[w]] = "idle"
  BY <1>2 DEF TokenInv, HasMessage
<1>4. CASE r \in Workers /\ s \in Workers
  BY <1>1, <1>2, <1>4 DEF TokenInv, SingleMessage, OneWorker
<1>5. CASE r \in Jobs \/ s \in Jobs
  BY <1>1, <1>3, <1>5 DEF Busy
<1> QED BY <1>1, <1>4, <1>5

-----------------------------------------------------------------------------
(* Rows and their copies.                                                  *)

(* While its session works, a live run's copy is what the row holds, but   *)
(* that the job may have been stopped; an agent works at the stage its run *)
(* has entered, and from then on the row names a stage.                    *)
InStep(r) ==
    Active(r) =>
        /\ sess[r] = "clean" /\ Exists(on[r]) =>
              /\ row[on[r]].stage = copy[r].stage /\ row[on[r]].error = copy[r].error
              /\ row[on[r]].status \in {copy[r].status, "cancelled"}
        /\ pc[r] = "work" => copy[r].status = at[r] /\ copy[r].stage = at[r]
        /\ Exists(on[r]) /\ sess[r] # "broken" /\ ~(pc[r] = "enter" /\ at[r] = "detecting") =>
              row[on[r]].stage \in Stages

FailOk(j) == row[j].status = "failed" => row[j].error # "none" /\ row[j].error = row[j].stage

StepInv ==
    /\ PendingInv
    /\ TokenInv
    /\ \A r \in Runners : InStep(r)
    /\ \A j \in Jobs : FailOk(j)

(* A run keeps its copy in step with the row, and names the stage in which *)
(* it failed.                                                              *)
LEMMA RunStaysInStep ==
  ASSUME PendingInv, NEW r \in Runners, InStep(r), NEW j \in Jobs, j = on[r], FailOk(j), RunStep(r) \/ RunFault(r)
  PROVE  InStep(r)' /\ FailOk(j)'
<1> USE DEF InStep, Active
<1>0. /\ TypeOK /\ RunOk(r) /\ PastPending(r) /\ pc[r] # "idle" /\ r \in Runners
      /\ row[j] \in Rows /\ copy[r] \in Rows /\ at[r] \in Places /\ sess[r] \in Sessions
  BY RunFrame DEF PendingInv, TypeInv, TypeOK, RunInv
<1>1. CASE LoadMissing(r) \/ LoadFails(r) \/ HandlerRaises(r)
  BY <1>0, <1>1 DEF LoadMissing, LoadFails, HandlerRaises, EndRun, Goto, jobVars, TypeOK, FailOk
<1>2. CASE Load(r)
  <2>1. at[r] = "detecting" /\ sess[r] = "clean"
    BY <1>0, <1>2 DEF Load, RunOk
  <2>2. /\ pc'[r] = "enter" /\ copy'[r] = row[j] /\ UNCHANGED <<row, on, at, sess>>
    BY <1>0, <1>2 DEF Load, Goto, jobVars, TypeOK
  <2> QED BY <2>1, <2>2 DEF FailOk
<1>3. CASE EnterCancelled(r) \/ HandleCancelled(r) \/ HandleLost(r)
  BY <1>0, <1>3 DEF EnterCancelled, HandleCancelled, HandleLost, AtStage, Refreshed, EndRun, Goto, jobVars, TypeOK, FailOk
<1>4. CASE EnterStage(r)
  <2> DEFINE new == [copy[r] EXCEPT !.status = at[r], !.stage = at[r]]
  <2>1. /\ pc[r] = "enter" /\ at[r] \in Stages /\ sess[r] = "clean" /\ Exists(j)
        /\ pc'[r] = "work" /\ copy'[r] = new /\ on' = on /\ at' = at /\ sess' = sess
        /\ row'[j] = Updated(row[j], copy[r], new)
    BY <1>0, <1>4 DEF EnterStage, AtStage, Write, Goto, TypeOK
  <2>2. new.status = at[r] /\ new.stage = at[r] /\ new.error = copy[r].error
    BY <1>0 DEF Rows
  <2> HIDE DEF new
  <2>3. /\ row[j].stage = copy[r].stage /\ row[j].error = copy[r].error
        /\ row[j].status \in {copy[r].status, "cancelled"}
    BY <2>1
  <2>4. row'[j].stage = at[r] /\ row'[j].error = copy[r].error /\ row'[j].status \in {at[r], "cancelled"}
    BY <2>1, <2>2, <2>3 DEF Updated
  <2> QED BY <2>1, <2>2, <2>4 DEF FailOk, Stages
<1>5. CASE CommitFails(r) \/ TouchExpired(r)
  <2>1. /\ pc'[r] = "handle" /\ UNCHANGED <<row, on, at, copy>> /\ pc[r] = "enter"
        /\ sess'[r] = "broken" \/ (sess'[r] = "expired" /\ sess[r] = "expired")
    BY <1>0, <1>5 DEF CommitFails, TouchExpired, Goto, jobVars, TypeOK
  <2>2. sess[r] = "expired" => at[r] # "detecting"
    BY <1>0, <2>1 DEF PastPending
  <2> QED BY <2>1, <2>2 DEF FailOk, Exists
<1>6. CASE WorkOk(r) \/ WorkReloads(r) \/ WorkExpires(r) \/ PlanOrderFails(r) \/ AgentSkipped(r)
  <2>1. /\ pc[r] = "work" /\ pc'[r] = "enter" /\ UNCHANGED <<row, on>> /\ sess[r] = "clean"
        /\ sess'[r] = "clean" => copy'[r] \in {copy[r], row[j]}
    BY <1>0, <1>6 DEF WorkOk, WorkReloads, WorkExpires, PlanOrderFails, AgentSkipped, Proceed, Goto, jobVars, TypeOK,
       RunOk
  <2> QED BY <2>1 DEF FailOk, Exists
<1>7. CASE FlushFails(r) \/ PlanRefused(r) \/ WorkRaises(r)
  <2>1. /\ pc[r] = "work" /\ pc'[r] = "handle" /\ UNCHANGED <<row, on, at, copy>> /\ sess[r] = "clean"
    BY <1>0, <1>7 DEF FlushFails, PlanRefused, WorkRaises, Caught, Goto, jobVars, TypeOK, RunOk
  <2> QED BY <2>1 DEF FailOk, Exists
<1>8. CASE Finish(r)
  <2> DEFINE new == [copy[r] EXCEPT !.status = "complete", !.stage = "none"]
  <2>1. /\ pc[r] = "enter" /\ sess[r] = "clean" /\ Exists(j) /\ pc'[r] \in {"ack", "idle"}
        /\ row'[j] = Updated(row[j], copy[r], new)
    BY <1>0, <1>8 DEF Finish, Write, EndRun, Goto, TypeOK
  <2>2. new.status = "complete"
    BY <1>0 DEF Rows
  <2> HIDE DEF new
  <2>3. row'[j].status # "failed"
    BY <2>1, <2>2 DEF Updated
  <2> QED BY <2>1, <2>3 DEF FailOk
<1>9. CASE HandleFailed(r)
  <2> DEFINE old == Refreshed(r)
             new == [old EXCEPT !.status = "failed", !.error = old.stage]
  <2>1. /\ pc[r] = "handle" /\ sess[r] # "broken" /\ Exists(j) /\ pc'[r] \in {"ack", "idle"}
        /\ row'[j] \in {row[j], Updated(row[j], old, new)}
    BY <1>0, <1>9 DEF HandleFailed, Write, EndRun, Goto, TypeOK
  <2>2. old \in Rows /\ old.stage = row[j].stage /\ old.error = row[j].error /\ row[j].stage \in Stages
    BY <1>0, <2>1 DEF Refreshed, Sessions
  <2>3. new.error = old.stage /\ new.stage = old.stage
    BY <2>2 DEF Rows
  <2> HIDE DEF new, old
  <2>4. row'[j] = row[j] \/ (row'[j].stage = row[j].stage /\ row'[j].error = row[j].stage)
    BY <2>1, <2>2, <2>3 DEF Updated
  <2> QED BY <2>1, <2>2, <2>4 DEF FailOk, Stages
<1> QED BY <1>1, <1>2, <1>3, <1>4, <1>5, <1>6, <1>7, <1>8, <1>9 DEF RunStep, RunFault

(* Every step of a run keeps all runs in step.                             *)
LEMMA RunKeepsStep ==
  ASSUME StepInv, NEW r \in Runners, RunStep(r) \/ RunFault(r)
  PROVE  (\A s \in Runners : InStep(s)') /\ \A j \in Jobs : FailOk(j)'
<1>0. TypeInv /\ TypeOK /\ DeliveryInv /\ TokenInv /\ PendingInv /\ Busy(r) /\ on[r] \in Jobs
  BY RunFrame DEF StepInv, PendingInv, TypeInv, Busy, RunInv, RunOk
<1>1. ASSUME NEW j \in Jobs PROVE FailOk(j)'
  <2>1. CASE j = on[r]
    BY <1>0, <2>1, RunStaysInStep DEF StepInv
  <2>2. CASE j # on[r]
    BY <1>0, <2>2, RunFrame DEF StepInv, FailOk
  <2> QED BY <2>1, <2>2
<1>2. InStep(r)'
  <2>1. InStep(r) /\ FailOk(on[r])
    BY <1>0 DEF StepInv
  <2>2. ASSUME NEW j \in Jobs, j = on[r] PROVE InStep(r)'
    BY <1>0, <2>1, <2>2, RunStaysInStep
  <2> QED BY <1>0, <2>2
<1>3. ASSUME NEW s \in Runners \ {r}, Active(s)' PROVE InStep(s)'
  <2>1. Untouched(s) /\ InStep(s)
    BY <1>0, RunFrame DEF StepInv
  <2>2. Active(s) /\ Busy(s) /\ on[s] \in Jobs
    BY <1>0, <1>3, <2>1 DEF Active, Busy, Untouched, TypeInv, RunInv, RunOk
  <2>3. on[s] # on[r]
    BY <1>0, <2>2, RunsExclude
  <2>4. row'[on[s]] = row[on[s]]
    BY <1>0, <2>2, <2>3, RunFrame
  <2> QED BY <2>1, <2>4 DEF InStep, Active, Untouched, Exists
<1> QED BY <1>1, <1>2, <1>3 DEF InStep

(* A request stops or deletes a job, and inserts none that runs.           *)
LEMMA ApiKeepsStep ==
  ASSUME StepInv, NEW k \in Jobs, Api(k)
  PROVE  (\A s \in Runners : InStep(s)') /\ \A j \in Jobs : FailOk(j)'
<1>0. TypeInv /\ TypeOK /\ PendingInv
  BY DEF StepInv, PendingInv, TypeInv
<1>1. ASSUME NEW j \in Jobs
      PROVE  \/ row'[j] = row[j]
             \/ row'[j] = NoRow
             \/ row'[j] = NewRow /\ req[j] # "done"
             \/ /\ row'[j].status = "cancelled" /\ Exists(j)
                /\ row'[j].stage = row[j].stage /\ row'[j].error = row[j].error
  <2>1. CASE SubmitFlush(k) \/ SubmitPublish(k) \/ SubmitFallback(k) \/ SubmitAbort(k) \/ StopCheck(k)
    BY <2>1 DEF SubmitFlush, SubmitPublish, SubmitFallback, SubmitAbort, StopCheck
  <2>2. CASE SubmitCommit(k) \/ DeleteJob(k)
    BY <1>0, <2>2 DEF SubmitCommit, DeleteJob, TypeOK
  <2>3. CASE StopCommit(k)
    BY <1>0, <2>3 DEF StopCommit, TypeOK, Rows
  <2> QED BY <2>1, <2>2, <2>3 DEF Api, Submit
<1>2. ASSUME NEW j \in Jobs PROVE FailOk(j)'
  BY <1>1 DEF StepInv, FailOk, NoRow, NewRow
<1>3. ASSUME NEW s \in Runners, Active(s)' PROVE InStep(s)'
  <2>1. /\ Active(s) /\ pc'[s] = pc[s] /\ on'[s] = on[s] /\ on[s] \in Jobs /\ UNCHANGED <<at, copy, sess>>
        /\ InStep(s) /\ req[on[s]] = "done"
    BY <1>0, <1>3, ApiRuns, ApiFrame DEF StepInv, PendingInv, PastPending
  <2>2. CASE row'[on[s]] = row[on[s]]
    BY <2>1, <2>2 DEF InStep, Active, Exists
  <2>3. CASE row'[on[s]] = NoRow
    BY <2>1, <2>3 DEF InStep, Active, Exists, NoRow
  <2>4. CASE /\ row'[on[s]].status = "cancelled" /\ Exists(on[s])
             /\ row'[on[s]].stage = row[on[s]].stage /\ row'[on[s]].error = row[on[s]].error
    BY <2>1, <2>4 DEF InStep, Active, Exists
  <2> QED BY <1>1, <2>1, <2>2, <2>3, <2>4
<1> QED BY <1>2, <1>3 DEF InStep

(* Copies are in step and failures are named at the start, and stay so.    *)
LEMMA StepInvInductive ==
  ASSUME Exclusive
  PROVE  (Init => StepInv) /\ (StepInv /\ [Next]_vars => StepInv')
<1>1. Init => StepInv
  <2> SUFFICES ASSUME Init PROVE StepInv
    OBVIOUS
  <2>1. PendingInv
    BY PendingInvInductive
  <2>2. TokenInv
    <3>1. \A j \in Jobs : ~HasMessage(j)
      <4>1. (\A m \in Messages : ~(ready[m] > 0)) /\ \A w \in Workers : held[w] = NoMsg
        BY DEF Init, BrokerInit
      <4> QED BY <4>1 DEF HasMessage, Waiting, HeldBy
    <3>2. \A j \in Jobs : SingleMessage(j)
      BY <2>1, <3>1, SilentIsSingle DEF PendingInv, TypeInv, TypeOK
    <3>3. \A w \in Workers : pc[w] = "idle"
      BY DEF Init, Runners
    <3> QED BY <3>1, <3>2, <3>3 DEF TokenInv
  <2>3. (\A r \in Runners : InStep(r)) /\ \A j \in Jobs : FailOk(j)
    BY DEF Init, InStep, Active, FailOk, NoRow
  <2> QED BY <2>1, <2>2, <2>3 DEF StepInv
<1>2. ASSUME StepInv, [Next]_vars PROVE StepInv'
  <2>1. PendingInv' /\ TokenInv'
    BY <1>2, PendingInvInductive, TokensKept DEF StepInv, PendingInv
  <2>2. ASSUME Environment PROVE (\A s \in Runners : InStep(s)') /\ \A j \in Jobs : FailOk(j)'
    <3>1. row' = row /\ TypeInv
      BY <1>2, <2>2, EnvironmentFrame DEF StepInv, PendingInv
    <3>2. \A j \in Jobs : FailOk(j)'
      BY <1>2, <3>1 DEF StepInv, FailOk
    <3>3. ASSUME NEW s \in Runners, Active(s)' PROVE InStep(s)'
      BY <1>2, <2>2, <3>1, <3>3, EnvironmentRuns DEF StepInv, InStep, Active, Exists
    <3> QED BY <3>2, <3>3 DEF InStep
  <2>3. CASE UNCHANGED vars
    <3>1. UNCHANGED <<row, pc, on, at, copy, sess>>
      BY <2>3 DEF vars, runVars
    <3>2. \A r \in Runners : InStep(r)'
      BY <1>2, <3>1 DEF StepInv, InStep, Active, Exists
    <3>3. \A j \in Jobs : FailOk(j)'
      BY <1>2, <3>1 DEF StepInv, FailOk
    <3> QED BY <2>1, <3>2, <3>3 DEF StepInv
  <2> QED BY <1>2, <2>1, <2>2, <2>3, RunKeepsStep, ApiKeepsStep DEF StepInv, Next, Environment
<1> QED BY <1>1, <1>2

(* No two runs of a job go on at a time, and while a run's agent works the *)
(* row is at that run's stage, unless the job has been stopped or deleted: *)
(* for any number of workers, if no failure makes the broker deliver a     *)
(* message a second time while it is handled or already handled again.     *)
THEOREM RunsOwnTheirJobs == ASSUME Exclusive PROVE Spec => []RunOwnsJob
<1>1. ASSUME StepInv, NEW r \in Runners, NEW j \in Jobs, Loaded(r, j)
      PROVE  /\ \A s \in Runners : Loaded(s, j) => s = r
             /\ pc[r] = "work" /\ Exists(j) => row[j].status \in {at[r], "cancelled"} /\ row[j].stage = at[r]
  <2>1. \A s \in Runners : Loaded(s, j) => s = r
    BY <1>1, RunsExclude DEF StepInv, PendingInv, Loaded, Busy
  <2>2. InStep(r) /\ RunOk(r)
    BY <1>1 DEF StepInv, PendingInv, TypeInv, RunInv
  <2> QED BY <1>1, <2>1, <2>2 DEF InStep, Active, Loaded, RunOk
<1>2. StepInv => RunOwnsJob
  BY <1>1 DEF RunOwnsJob
<1> QED BY <1>2, StepInvInductive, PTL DEF Spec

(* A failed job names the stage it failed in, also when an earlier run of  *)
(* it had failed in another one, and whatever statements and commits fail. *)
THEOREM FailuresNameTheirStage == ASSUME Exclusive PROVE Spec => []FailureNamesStage
<1>1. StepInv => FailureNamesStage
  BY DEF StepInv, FailOk, FailureNamesStage
<1> QED BY <1>1, StepInvInductive, PTL DEF Spec

-----------------------------------------------------------------------------
(* Dead letters.                                                           *)

Rejected(j) == j \in dead \/ \E w \in Workers : pc[w] = "reject" /\ on[w] = j

(* A run that is about to find its job cancelled.                          *)
Stopped(r) ==
    /\ pc[r] = "enter" /\ at[r] = "detecting"
    /\ sess[r] = "clean" /\ copy[r].status = "cancelled"

(* A rejected job is stopped or gone for good: what runs of it are still   *)
(* to come find it so.                                                     *)
DeadOk(j) ==
    Rejected(j) => /\ req[j] = "done"
                   /\ row[j].status \in {"cancelled", "absent"}
                   /\ \A r \in Runners : Active(r) /\ on[r] = j => Stopped(r)

DeadInv == StepInv /\ \A j \in Jobs : DeadOk(j)

(* A run rejects its message only when its job is stopped.                 *)
LEMMA RunRejects ==
  ASSUME DeadInv, NEW r \in Runners, RunStep(r) \/ RunFault(r), NEW j \in Jobs
  PROVE  DeadOk(j)'
<1>0. /\ TypeInv /\ TypeOK /\ DeliveryInv /\ TokenInv /\ PendingInv /\ Busy(r) /\ on[r] \in Jobs /\ InStep(r)
      /\ PastPending(r) /\ RunOk(r) /\ DeadOk(j)
  BY RunFrame DEF DeadInv, StepInv, PendingInv, TypeInv, Busy, RunInv, RunOk
<1>1. /\ dead' = dead /\ req' = req /\ on'[r] \in {on[r], NoMsg} /\ (\A s \in Runners \ {r} : Untouched(s))
      /\ (\A k \in Jobs \ {on[r]} : row'[k] = row[k]) /\ (\A k \in Jobs : ~Exists(k) => row'[k] = row[k])
      /\ NoMsg \notin Jobs /\ Workers \subseteq Runners
  BY <1>0, RunFrame, BrokerAssumption DEF Runners
<1>2. CASE j # on[r]
  <2>1. on'[r] # j /\ on[r] # j /\ row'[j] = row[j]
    BY <1>1, <1>2
  <2>2. Rejected(j)' => Rejected(j)
    BY <1>1, <2>1 DEF Rejected, Untouched
  <2>3. \A s \in Runners : (Active(s) /\ on[s] = j)' => Active(s) /\ on[s] = j /\ (Stopped(s) => Stopped(s)')
    BY <1>1, <2>1 DEF Active, Untouched, Stopped
  <2> QED BY <1>0, <1>1, <2>1, <2>2, <2>3 DEF DeadOk
<1>3. CASE j = on[r] /\ EnterCancelled(r)
  <2>1. /\ pc[r] = "enter" /\ sess[r] = "clean" /\ copy[r].status = "cancelled" /\ row' = row
        /\ pc'[r] \in {"reject", "idle"}
    BY <1>0, <1>3 DEF EnterCancelled, AtStage, EndRun, Goto, jobVars, TypeOK
  <2>2. row'[j].status \in {"cancelled", "absent"} /\ req'[j] = "done"
    BY <1>0, <1>1, <1>3, <2>1 DEF InStep, Active, Exists, PastPending
  <2>3. \A s \in Runners : ~(Active(s) /\ on[s] = j)'
    <3>1. ASSUME NEW s \in Runners \ {r}, Active(s), on[s] = j PROVE FALSE
      BY <1>0, <1>3, <3>1, RunsExclude DEF Active, Busy
    <3> QED BY <1>1, <2>1, <3>1 DEF Active, Untouched
  <2> QED BY <2>2, <2>3 DEF DeadOk
<1>4. CASE j = on[r] /\ ~EnterCancelled(r)
  <2>1. Rejected(j)' => Rejected(j)
    <3>1. pc'[r] # "reject"
      BY <1>0, <1>4 DEF RunStep, RunFault, LoadMissing, LoadFails, Load, EnterStage, CommitFails, TouchExpired, WorkOk,
         FlushFails, WorkReloads, WorkExpires, PlanRefused, PlanOrderFails, WorkRaises, AgentSkipped, Finish, HandleLost,
         HandleCancelled, HandleFailed, HandlerRaises, EndRun, Goto, Proceed, Caught, TypeOK, Busy
    <3> QED BY <1>1, <3>1 DEF Rejected, Untouched
  <2>2. ASSUME Rejected(j) PROVE /\ row'[j].status \in {"cancelled", "absent"} /\ ((Active(r) /\ on[r] = j)' => Stopped(r)')
    <3>1. req[j] = "done" /\ row[j].status \in {"cancelled", "absent"} /\ (Active(r) => Stopped(r))
      BY <1>0, <1>4, <2>2 DEF DeadOk
    <3>2. CASE pc[r] = "load"
      <4>1. at[r] = "detecting" /\ sess[r] = "clean"
        BY <1>0, <3>2 DEF RunOk
      <4>2. LoadMissing(r) \/ LoadFails(r) \/ Load(r) \/ HandlerRaises(r)
        BY <1>4, <3>2 DEF RunStep, RunFault, EnterCancelled, AtStage, EnterStage, CommitFails, TouchExpired, WorkOk,
           FlushFails, WorkReloads, WorkExpires, PlanRefused, PlanOrderFails, WorkRaises, AgentSkipped, Finish, HandleLost,
           HandleCancelled, HandleFailed
      <4>3. CASE Load(r)
        BY <1>0, <1>4, <3>1, <4>1, <4>3 DEF Load, Goto, jobVars, Stopped, TypeOK, Exists
      <4>4. CASE LoadMissing(r) \/ LoadFails(r) \/ HandlerRaises(r)
        BY <1>0, <3>1, <4>4 DEF LoadMissing, LoadFails, HandlerRaises, EndRun, Goto, jobVars, Active, TypeOK
      <4> QED BY <4>2, <4>3, <4>4
    <3>3. CASE pc[r] # "load"
      <4>1. Active(r) /\ Stopped(r)
        BY <1>0, <3>1, <3>3 DEF Busy, Active
      <4>2. FALSE
        BY <1>4, <4>1 DEF Stopped, RunStep, RunFault, LoadMissing, LoadFails, Load, EnterCancelled, AtStage, EnterStage,
           CommitFails, TouchExpired, WorkOk, FlushFails, WorkReloads, WorkExpires, PlanRefused, PlanOrderFails, WorkRaises,
           AgentSkipped, Finish, HandleLost, HandleCancelled, HandleFailed, HandlerRaises, Stages
      <4> QED BY <4>2
    <3> QED BY <3>2, <3>3
  <2>3. \A s \in Runners \ {r} : (Active(s) /\ on[s] = j)' => Active(s) /\ on[s] = j /\ (Stopped(s) => Stopped(s)')
    BY <1>1 DEF Active, Untouched, Stopped
  <2> QED BY <1>0, <1>1, <2>1, <2>2, <2>3 DEF DeadOk
<1> QED BY <1>2, <1>3, <1>4

(* A stopped job is not started by a request.                              *)
LEMMA ApiKeepsDead ==
  ASSUME DeadInv, NEW k \in Jobs, Api(k), NEW j \in Jobs
  PROVE  DeadOk(j)'
<1>0. /\ TypeInv /\ TypeOK /\ DeadOk(j) /\ Workers \subseteq Runners
  BY DEF DeadInv, StepInv, PendingInv, TypeInv, Runners
<1>1. /\ UNCHANGED <<dead, at, copy, sess>> /\ \A w \in Workers : pc'[w] = pc[w] /\ on'[w] = on[w]
  BY <1>0, ApiFrame
<1>2. Rejected(j)' => Rejected(j)
  BY <1>1 DEF Rejected
<1>3. req[j] = "done" => /\ req'[j] = "done"
                         /\ row'[j] = row[j] \/ row'[j].status \in {"cancelled", "absent"}
  <2>1. CASE SubmitFlush(k) \/ SubmitPublish(k) \/ SubmitFallback(k) \/ SubmitAbort(k) \/ StopCheck(k)
    BY <1>0, <2>1 DEF SubmitFlush, SubmitPublish, SubmitFallback, SubmitAbort, StopCheck, TypeOK
  <2>2. CASE SubmitCommit(k)
    BY <1>0, <2>2 DEF SubmitCommit, TypeOK
  <2>3. CASE StopCommit(k)
    BY <1>0, <2>3 DEF StopCommit, TypeOK, Rows
  <2>4. CASE DeleteJob(k)
    BY <1>0, <2>4 DEF DeleteJob, TypeOK, NoRow
  <2> QED BY <2>1, <2>2, <2>3, <2>4 DEF Api, Submit
<1>4. \A s \in Runners : Active(s)' => Active(s) /\ on'[s] = on[s] /\ (Stopped(s) => Stopped(s)')
  BY <1>0, <1>1, ApiRuns DEF Stopped
<1> QED BY <1>0, <1>2, <1>3, <1>4 DEF DeadOk

(* Only rejected messages reach the dead-letter queue when none expires,   *)
(* and a retry that cannot be published is the only other rejection.       *)
LEMMA EnvironmentKeepsDead ==
  ASSUME Faults \cap {"nobroker", "ttl"} = {}, DeadInv, Environment, NEW j \in Jobs
  PROVE  DeadOk(j)'
<1>0. /\ TypeInv /\ TypeOK /\ DeliveryInv /\ DeadOk(j) /\ Workers \subseteq Runners /\ Jobs \cap Workers = {}
      /\ row' = row /\ (req[j] = "done" => req'[j] = "done") /\ j # NoMsg
  BY EnvironmentFrame, PipelineAssumption, BrokerAssumption DEF DeadInv, StepInv, PendingInv, TypeInv, Runners
<1>1. \A s \in Runners : Active(s)' => Active(s) /\ on'[s] = on[s] /\ (Stopped(s) => Stopped(s)')
  BY <1>0, EnvironmentRuns DEF Stopped
<1>2. Rejected(j)' => Rejected(j)
  <2>1. ASSUME NEW w \in Workers, NEW m \in Messages, Receive(w, m) PROVE Rejected(j)' => Rejected(j)
    BY <1>0, <2>1 DEF Receive, TakeDelivery, Goto, Rejected, TypeOK
  <2>2. ASSUME NEW w \in Workers, Republish(w) PROVE Rejected(j)' => Rejected(j)
    BY <1>0, <2>2 DEF Republish, Goto, Fault, Rejected, TypeOK
  <2>3. ASSUME NEW w \in Workers, Settle(w) PROVE Rejected(j)' => Rejected(j)
    <3>1. /\ pc' = [pc EXCEPT ![w] = "idle"] /\ on' = [on EXCEPT ![w] = NoMsg]
          /\ dead' = dead \/ (pc[w] = "reject" /\ dead' = dead \cup {on[w]})
      BY <1>0, <2>3 DEF Settle, AckDelivery, RejectDelivery, Goto, DeliveryInv
    <3> QED BY <1>0, <3>1 DEF Rejected, TypeOK
  <2>4. ASSUME NEW w \in Workers, CrashWorker(w) \/ LoseChannel(w) PROVE Rejected(j)' => Rejected(j)
    BY <1>0, <2>4 DEF CrashWorker, LoseChannel, RequeueDelivery, Goto, runVars, Rejected, TypeOK
  <2>5. ASSUME NEW m \in Messages, Expire(m) PROVE FALSE
    BY <2>5 DEF Expire, Fault
  <2>6. CASE CrashApi
    BY <1>0, <2>6 DEF CrashApi, brokerVars, Rejected
  <2> QED BY <2>1, <2>2, <2>3, <2>4, <2>5, <2>6 DEF Environment, WorkerStep
<1> QED BY <1>0, <1>1, <1>2 DEF DeadOk

(* With the broker up and no message expired, only the message of a        *)
(* stopped or deleted job is ever dead-lettered: a job that could still    *)
(* run is not given up, whatever of its runs fail.                         *)
THEOREM DeadLettersAreStopped ==
  ASSUME Exclusive, Faults \cap {"nobroker", "ttl"} = {}
  PROVE  Spec => []DeadLetterIsStopped
<1>1. Init => DeadInv
  BY StepInvInductive DEF Init, BrokerInit, DeadInv, DeadOk, Rejected, Runners
<1>2. ASSUME DeadInv, [Next]_vars PROVE DeadInv'
  <2>1. StepInv'
    BY <1>2, StepInvInductive DEF DeadInv
  <2>2. CASE UNCHANGED vars
    BY <1>2, <2>1, <2>2 DEF vars, runVars, brokerVars, DeadInv, DeadOk, Rejected, Active, Stopped
  <2> QED BY <1>2, <2>1, <2>2, RunRejects, ApiKeepsDead, EnvironmentKeepsDead DEF DeadInv, Next, Environment
<1>3. DeadInv => DeadLetterIsStopped
  BY DEF DeadInv, DeadOk, Rejected, DeadLetterIsStopped, StepInv, PendingInv, TypeInv, TypeOK, BrokerTypeOK
<1> QED BY <1>1, <1>2, <1>3, PTL DEF Spec

-----------------------------------------------------------------------------
(* The life cycle of a job.                                                *)

(* Where a run goes once its agent has left a stage.                       *)
After(s) ==
    CASE s = "detecting"  -> "mapping"
      [] s = "mapping"    -> "analyzing"
      [] s = "analyzing"  -> "planning"
      [] s = "planning"   -> "validating"
      [] s = "validating" -> "finishing"

(* A run that has entered a stage is the one its copy and, but for a stop, *)
(* its row name, and the next one it enters is the one after that.         *)
Named(r, j) ==
    Entered(r, j) =>
        /\ copy[r].stage \in Stages
        /\ copy[r].status \in {copy[r].stage, "cancelled"}
        /\ Exists(j) => row[j].status \in {copy[r].stage, "cancelled"}
        /\ pc[r] = "enter" => at[r] = After(copy[r].stage)

LifeInv == StepInv /\ \A r \in Runners, j \in Jobs : Named(r, j)

OneEntered == \A r, s \in Runners, j \in Jobs : Entered(r, j) /\ Entered(s, j) => r = s

(* Runs that have entered a stage exclude each other, now and after the    *)
(* next step.                                                              *)
LEMMA OneEnteredNow == StepInv => OneEntered
  BY RunsExclude DEF StepInv, PendingInv, OneEntered, Entered, Loaded, Busy

LEMMA OneEnteredNext == StepInv' => OneEntered'
  BY OneEnteredNow, PTL

(* The progress of a job is that of the run that has entered a stage.      *)
ProgressIsOfRun ==
    \A j \in Jobs :
        /\ \A r \in Runners : Entered(r, j) => ProgressOf(j) = copy[r].stage
        /\ (\A r \in Runners : ~Entered(r, j)) => ProgressOf(j) = "none"

LEMMA ProgressNow == OneEntered => ProgressIsOfRun
<1>1. ASSUME OneEntered, NEW j \in Jobs, NEW r \in Runners, Entered(r, j) PROVE ProgressOf(j) = copy[r].stage
  <2>1. (CHOOSE s \in Runners : Entered(s, j)) = r
    BY <1>1 DEF OneEntered
  <2> QED BY <1>1, <2>1 DEF ProgressOf
<1>2. ASSUME NEW j \in Jobs, \A s \in Runners : ~Entered(s, j) PROVE ProgressOf(j) = "none"
  BY <1>2 DEF ProgressOf
<1> QED BY <1>1, <1>2 DEF ProgressIsOfRun

LEMMA ProgressNext == OneEntered' => ProgressIsOfRun'
  BY ProgressNow, PTL

(* A step of a run leaves a job that has entered a stage where the row and *)
(* the copy name it.                                                       *)
LEMMA RunStaysNamed ==
  ASSUME StepInv, NEW r \in Runners, NEW j \in Jobs, j = on[r], Named(r, j), InStep(r)', RunStep(r) \/ RunFault(r)
  PROVE  Named(r, j)'
<1> USE DEF Named, Entered, Loaded
<1>0. /\ TypeOK /\ RunOk(r) /\ PastPending(r) /\ InStep(r) /\ pc[r] # "idle"
      /\ row[j] \in Rows /\ copy[r] \in Rows /\ at[r] \in Places /\ sess[r] \in Sessions
  BY RunFrame DEF StepInv, PendingInv, TypeInv, TypeOK, RunInv
<1>1. CASE LoadMissing(r) \/ LoadFails(r) \/ HandlerRaises(r)
  BY <1>0, <1>1 DEF LoadMissing, LoadFails, HandlerRaises, EndRun, Goto, TypeOK
<1>2. CASE Load(r)
  BY <1>0, <1>2 DEF Load, Goto, TypeOK, RunOk
<1>3. CASE EnterCancelled(r) \/ HandleCancelled(r) \/ HandleLost(r) \/ Finish(r) \/ HandleFailed(r)
  BY <1>0, <1>3 DEF EnterCancelled, HandleCancelled, HandleLost, Finish, HandleFailed, EndRun, Goto, TypeOK
<1>4. CASE EnterStage(r)
  <2>1. /\ pc'[r] = "work" /\ sess'[r] = "clean" /\ copy'[r].stage = at[r] /\ at[r] \in Stages
        /\ on' = on /\ at' = at /\ copy'[r].status = at[r]
    BY <1>0, <1>4 DEF EnterStage, AtStage, Goto, TypeOK, Rows
  <2>2. Exists(j)' => row'[j].status \in {at[r], "cancelled"}
    BY <2>1 DEF InStep, Active, Exists
  <2> QED BY <2>1, <2>2
<1>5. CASE CommitFails(r) \/ TouchExpired(r)
  <2>1. /\ pc'[r] = "handle" /\ pc[r] = "enter" /\ UNCHANGED <<row, on, at, copy>>
        /\ sess'[r] = "broken" \/ (sess'[r] = "expired" /\ sess[r] = "expired")
    BY <1>0, <1>5 DEF CommitFails, TouchExpired, Goto, jobVars, TypeOK
  <2>2. sess[r] = "expired" => at[r] # "detecting"
    BY <1>0, <2>1 DEF PastPending, Active
  <2> QED BY <2>1, <2>2 DEF Exists
<1>6. CASE WorkOk(r) \/ WorkReloads(r) \/ WorkExpires(r) \/ PlanOrderFails(r) \/ AgentSkipped(r)
  <2>1. /\ pc[r] = "work" /\ pc'[r] = "enter" /\ UNCHANGED <<row, on>> /\ sess[r] = "clean"
        /\ at'[r] = Following(r) /\ at[r] \in Stages
        /\ copy'[r] = copy[r] \/ (copy'[r] = row[j] /\ Exists(j))
    BY <1>0, <1>6 DEF WorkOk, WorkReloads, WorkExpires, PlanOrderFails, AgentSkipped, Proceed, Goto, jobVars, TypeOK,
       RunOk
  <2>2. Named(r, j) /\ Entered(r, j) /\ copy[r].stage = at[r]
    BY <1>0, <2>1 DEF InStep, Active
  <2>3. Following(r) = After(copy[r].stage)
    BY <2>1, <2>2 DEF Following, After
  <2>4. copy'[r].stage = copy[r].stage /\ copy'[r].status \in {copy[r].stage, "cancelled"}
    BY <1>0, <2>1, <2>2 DEF InStep, Active
  <2> QED BY <2>1, <2>2, <2>3, <2>4 DEF Exists
<1>7. CASE FlushFails(r) \/ PlanRefused(r) \/ WorkRaises(r)
  <2>1. /\ pc[r] = "work" /\ pc'[r] = "handle" /\ UNCHANGED <<row, on, at, copy>> /\ sess[r] = "clean"
    BY <1>0, <1>7 DEF FlushFails, PlanRefused, WorkRaises, Caught, Goto, jobVars, TypeOK, RunOk
  <2> QED BY <2>1 DEF Exists
<1> QED BY <1>1, <1>2, <1>3, <1>4, <1>5, <1>6, <1>7 DEF RunStep, RunFault

(* Every step leaves the jobs that have entered a stage so.                *)
LEMMA LifeInvInductive ==
  ASSUME Exclusive
  PROVE  (Init => LifeInv) /\ (LifeInv /\ [Next]_vars => LifeInv')
<1>1. Init => LifeInv
  <2> SUFFICES ASSUME Init PROVE \A r \in Runners, j \in Jobs : ~Entered(r, j)
    BY StepInvInductive DEF LifeInv, Named
  <2> QED BY DEF Init, Entered, Loaded
<1>2. ASSUME LifeInv, [Next]_vars PROVE LifeInv'
  <2>0. /\ StepInv /\ StepInv' /\ TypeInv /\ DeliveryInv /\ TokenInv /\ TypeOK /\ NoMsg \notin Jobs
    BY <1>2, StepInvInductive, BrokerAssumption DEF LifeInv, StepInv, PendingInv, TypeInv
  <2>1. ASSUME NEW r \in Runners, RunStep(r) \/ RunFault(r), NEW s \in Runners, NEW j \in Jobs
        PROVE  Named(s, j)'
    <3>1. /\ Busy(r) /\ on[r] \in Jobs /\ on'[r] \in {on[r], NoMsg} /\ InStep(r)'
          /\ \A q \in Runners \ {r} : Untouched(q)
          /\ \A k \in Jobs \ {on[r]} : row'[k] = row[k]
      BY <2>0, <2>1, RunFrame DEF Busy, TypeInv, RunInv, RunOk, StepInv
    <3>2. CASE s = r /\ j = on[r]
      BY <1>2, <2>0, <2>1, <3>1, <3>2, RunStaysNamed DEF LifeInv
    <3>3. CASE s = r /\ j # on[r]
      BY <2>0, <3>1, <3>3 DEF Named, Entered, Loaded
    <3>4. CASE s # r
      <4>1. Untouched(s) /\ Named(s, j)
        BY <1>2, <3>1, <3>4 DEF LifeInv
      <4>2. Entered(s, j)' => Entered(s, j) /\ j # on[r]
        <5>1. Entered(s, j)' => Entered(s, j)
          BY <4>1 DEF Untouched, Entered, Loaded
        <5>2. Entered(s, j) => Busy(s) /\ on[s] = j
          BY DEF Entered, Loaded, Busy
        <5> QED BY <2>0, <3>1, <3>4, <5>1, <5>2, RunsExclude
      <4> QED BY <3>1, <4>1, <4>2 DEF Named, Untouched, Exists
    <3> QED BY <3>2, <3>3, <3>4
  <2>2. ASSUME NEW k \in Jobs, Api(k), NEW s \in Runners, NEW j \in Jobs
        PROVE  Named(s, j)'
    <3>1. Active(s)' => Active(s) /\ pc'[s] = pc[s] /\ on'[s] = on[s] /\ UNCHANGED <<at, copy, sess>> /\ PastPending(s)
      BY <2>0, <2>2, ApiRuns, ApiFrame DEF StepInv, PendingInv
    <3>2. Entered(s, j)' => Entered(s, j) /\ req[j] = "done"
      BY <3>1 DEF Entered, Loaded, Active, PastPending
    <3>3. req[j] = "done" => row'[j] = row[j] \/ row'[j].status \in {"cancelled", "absent"}
      <4>1. CASE SubmitFlush(k) \/ SubmitPublish(k) \/ SubmitFallback(k) \/ SubmitAbort(k) \/ StopCheck(k)
        BY <4>1 DEF SubmitFlush, SubmitPublish, SubmitFallback, SubmitAbort, StopCheck
      <4>2. CASE SubmitCommit(k)
        BY <2>0, <4>2 DEF SubmitCommit, TypeOK
      <4>3. CASE StopCommit(k)
        BY <2>0, <4>3 DEF StopCommit, TypeOK, Rows
      <4>4. CASE DeleteJob(k)
        BY <2>0, <4>4 DEF DeleteJob, TypeOK, NoRow
      <4> QED BY <2>2, <4>1, <4>2, <4>3, <4>4 DEF Api, Submit
    <3>4. Named(s, j)
      BY <1>2 DEF LifeInv
    <3>5. Entered(s, j)' => UNCHANGED <<at, copy, sess>> /\ pc'[s] = pc[s]
      BY <3>1 DEF Entered, Loaded, Active
    <3> QED BY <3>2, <3>3, <3>4, <3>5 DEF Named, Exists
  <2>3. ASSUME Environment, NEW s \in Runners, NEW j \in Jobs
        PROVE  Named(s, j)'
    <3>1. Entered(s, j)' => Entered(s, j) /\ pc'[s] = pc[s] /\ at'[s] = at[s] /\ copy'[s] = copy[s] /\ sess'[s] = sess[s]
      BY <2>0, <2>3, EnvironmentRuns DEF Entered, Loaded, Active
    <3>2. row' = row
      BY <2>0, <2>3, EnvironmentFrame
    <3>3. Named(s, j)
      BY <1>2 DEF LifeInv
    <3> QED BY <3>1, <3>2, <3>3 DEF Named, Exists
  <2>4. ASSUME UNCHANGED vars, NEW s \in Runners, NEW j \in Jobs
        PROVE  Named(s, j)'
    BY <1>2, <2>4 DEF vars, runVars, LifeInv, Named, Entered, Loaded, Exists
  <2> QED BY <1>2, <2>0, <2>1, <2>2, <2>3, <2>4 DEF LifeInv, Next, Environment
<1> QED BY <1>1, <1>2

(* What the abstract job does when a step changes one job at most, and     *)
(* accepts none.                                                           *)
LEMMA OneJobChanges ==
  ASSUME TypeOK, NEW j \in Jobs, req' = req, NEW s, NEW p, row'[j].status = s, ProgressOf(j)' = p,
         \A k \in Jobs \ {j} : row'[k].status = row[k].status /\ ProgressOf(k)' = ProgressOf(k)
  PROVE  Lifecycle!Set(j, s, p)
<1>1. [k \in Jobs |-> row'[k].status] = [[k \in Jobs |-> row[k].status] EXCEPT ![j] = s]
  OBVIOUS
<1>2. [k \in Jobs |-> ProgressOf(k)'] = [[k \in Jobs |-> ProgressOf(k)] EXCEPT ![j] = p]
  OBVIOUS
<1> QED BY <1>1, <1>2 DEF Lifecycle!Set

(* ... and when it changes none.                                           *)
LEMMA NoJobChanges ==
  ASSUME \A k \in Jobs : row'[k].status = row[k].status /\ ProgressOf(k)' = ProgressOf(k)
                         /\ (req'[k] = "done" <=> req[k] = "done")
  PROVE  UNCHANGED Lifecycle!vars
<1>1. [k \in Jobs |-> row'[k].status] = [k \in Jobs |-> row[k].status]
  OBVIOUS
<1>2. [k \in Jobs |-> ProgressOf(k)'] = [k \in Jobs |-> ProgressOf(k)]
  OBVIOUS
<1> QED BY <1>1, <1>2 DEF Lifecycle!vars
(* A run's step begins, advances, completes, fails or abandons its job, or *)
(* is not seen from outside.                                               *)
LEMMA RunLives ==
  ASSUME LifeInv, LifeInv', NEW r \in Runners, NEW j \in Jobs, j = on[r], RunStep(r) \/ RunFault(r)
  PROVE  [Lifecycle!Next]_(Lifecycle!vars)
<1> DEFINE progress == IF Entered(r, j) THEN copy[r].stage ELSE "none"
           status == row[j].status
           live == Entered(r, j)'
<1>0. /\ StepInv /\ TypeInv /\ DeliveryInv /\ TokenInv /\ TypeOK /\ Busy(r) /\ j \in Jobs /\ req' = req
      /\ row[j] \in Rows /\ copy[r] \in Rows /\ at[r] \in Places /\ sess[r] \in Sessions
      /\ RunOk(r) /\ PastPending(r) /\ InStep(r) /\ Named(r, j)
      /\ (\A s \in Runners \ {r} : Untouched(s)) /\ (\A k \in Jobs \ {j} : row'[k] = row[k])
      /\ on'[r] \in {j, NoMsg} /\ NoMsg \notin Jobs
  BY RunFrame, BrokerAssumption DEF LifeInv, StepInv, PendingInv, TypeInv, RunInv, RunOk, TypeOK, Busy
<1>1. ProgressIsOfRun /\ ProgressIsOfRun'
  BY OneEnteredNow, OneEnteredNext, ProgressNow, ProgressNext DEF LifeInv
<1>2. \A s \in Runners \ {r} : ~Entered(s, j) /\ ~Entered(s, j)'
  <2>1. \A s \in Runners \ {r} : Entered(s, j)' => Entered(s, j)
    BY <1>0 DEF Untouched, Entered, Loaded
  <2>2. \A s \in Runners \ {r} : ~Entered(s, j)
    BY <1>0, RunsExclude DEF Entered, Loaded, Busy
  <2> QED BY <2>1, <2>2
<1>3. ProgressOf(j) = progress
  BY <1>0, <1>1, <1>2 DEF ProgressIsOfRun
<1>4. ProgressOf(j)' = IF live THEN copy'[r].stage ELSE "none"
  BY <1>0, <1>1, <1>2 DEF ProgressIsOfRun
<1>5. ASSUME NEW k \in Jobs \ {j} PROVE row'[k].status = row[k].status /\ ProgressOf(k)' = ProgressOf(k)
  <2>1. ASSUME NEW s \in Runners PROVE Entered(s, k)' <=> Entered(s, k)
    <3>1. CASE s = r
      BY <1>0, <3>1 DEF Entered, Loaded
    <3>2. CASE s # r
      BY <1>0, <3>2 DEF Untouched, Entered, Loaded
    <3> QED BY <3>1, <3>2
  <2>2. ASSUME NEW s \in Runners, Entered(s, k) PROVE copy'[s] = copy[s]
    BY <1>0, <2>2 DEF Untouched, Entered, Loaded
  <2>3. CASE \E s \in Runners : Entered(s, k)
    <3>1. PICK s \in Runners : Entered(s, k)
      BY <2>3
    <3>2. Entered(s, k)' /\ copy'[s] = copy[s]
      BY <2>1, <2>2, <3>1
    <3>3. ProgressOf(k) = copy[s].stage /\ ProgressOf(k)' = copy'[s].stage
      BY <1>1, <3>1, <3>2 DEF ProgressIsOfRun
    <3> QED BY <1>0, <3>2, <3>3
  <2>4. CASE \A s \in Runners : ~Entered(s, k)
    <3>1. \A s \in Runners : ~Entered(s, k)'
      BY <2>1, <2>4
    <3>2. ProgressOf(k) = "none" /\ ProgressOf(k)' = "none"
      BY <1>1, <2>4, <3>1 DEF ProgressIsOfRun
    <3> QED BY <1>0, <3>2
  <2> QED BY <1>0, <2>3, <2>4
<1> HIDE DEF progress, status, live
<1>6. ASSUME NEW t, NEW p, row'[j].status = t, ProgressOf(j)' = p PROVE Lifecycle!Set(j, t, p)
  BY <1>0, <1>5, <1>6, OneJobChanges
\* The step is not seen, or the run is over.
<1>7. ASSUME row'[j].status = status, ProgressOf(j)' \in {progress, "none"}
      PROVE  [Lifecycle!Next]_(Lifecycle!vars)
  <2>1. CASE ProgressOf(j)' = progress
    BY <1>0, <1>3, <1>5, <1>7, <2>1, NoJobChanges DEF status
  <2>2. CASE ProgressOf(j)' = "none" /\ progress # "none"
    <3>1. Lifecycle!Set(j, status, "none")
      BY <1>6, <1>7, <2>2
    <3>2. Lifecycle!Abandon(j)
      BY <1>0, <1>3, <2>2, <3>1 DEF Lifecycle!Abandon, status
    <3> QED BY <1>0, <3>2 DEF Lifecycle!Next
  <2> QED BY <1>7, <2>1, <2>2
<1>8. CASE LoadMissing(r) \/ LoadFails(r) \/ HandlerRaises(r) \/ Load(r) \/ EnterCancelled(r) \/ HandleLost(r)
           \/ HandleCancelled(r)
  <2>1. row' = row /\ ~live
    BY <1>0, <1>8 DEF LoadMissing, LoadFails, HandlerRaises, Load, EnterCancelled, HandleLost, HandleCancelled,
       EndRun, Goto, jobVars, TypeOK, live, Entered, Loaded, RunOk
  <2> QED BY <1>4, <1>7, <2>1 DEF status
<1>9. CASE CommitFails(r) \/ TouchExpired(r)
  <2>1. /\ UNCHANGED <<row, on, at, copy>> /\ pc[r] = "enter"
        /\ sess'[r] = "broken" \/ (sess'[r] = "expired" /\ sess[r] = "expired")
    BY <1>0, <1>9 DEF CommitFails, TouchExpired, Goto, jobVars, TypeOK
  <2>2. sess[r] = "expired" => at[r] # "detecting"
    BY <1>0, <2>1 DEF PastPending, Active
  <2>3. live => Entered(r, j)
    BY <1>0, <2>1, <2>2 DEF live, Entered, Loaded
  <2> QED BY <1>4, <1>7, <2>1, <2>3 DEF status, progress
<1>10. CASE WorkOk(r) \/ WorkReloads(r) \/ WorkExpires(r) \/ PlanOrderFails(r) \/ AgentSkipped(r)
            \/ FlushFails(r) \/ PlanRefused(r) \/ WorkRaises(r)
  <2>1. /\ pc[r] = "work" /\ UNCHANGED <<row, on>> /\ sess[r] = "clean"
        /\ copy'[r] = copy[r] \/ (copy'[r] = row[j] /\ Exists(j))
    BY <1>0, <1>10 DEF WorkOk, WorkReloads, WorkExpires, PlanOrderFails, AgentSkipped, FlushFails, PlanRefused,
       WorkRaises, Caught, Proceed, Goto, jobVars, TypeOK, RunOk
  <2>2. Entered(r, j) /\ copy'[r].stage = copy[r].stage
    BY <1>0, <2>1 DEF Entered, Loaded, InStep, Active
  <2> QED BY <1>4, <1>7, <2>1, <2>2 DEF status, progress
<1>11. CASE EnterStage(r)
  <2> DEFINE new == [copy[r] EXCEPT !.status = at[r], !.stage = at[r]]
  <2>1. /\ pc[r] = "enter" /\ at[r] \in Stages /\ sess[r] = "clean" /\ Exists(j) /\ copy[r].status # "cancelled"
        /\ pc'[r] = "work" /\ copy'[r] = new /\ on' = on /\ sess' = sess
        /\ row'[j] = Updated(row[j], copy[r], new)
    BY <1>0, <1>11 DEF EnterStage, AtStage, Write, Goto, TypeOK
  <2>2. new.status = at[r] /\ new.stage = at[r]
    BY <1>0 DEF Rows
  <2> HIDE DEF new
  <2>3. ProgressOf(j)' = at[r]
    BY <1>0, <1>4, <2>1, <2>2 DEF live, Entered, Loaded
  <2>4. row[j].status \in {copy[r].status, "cancelled"} /\ row[j].status # "absent"
    BY <1>0, <2>1 DEF InStep, Active, Exists
  <2>5. row'[j].status = IF at[r] = copy[r].status THEN row[j].status ELSE at[r]
    BY <2>1, <2>2 DEF Updated
  <2>6. CASE at[r] = "detecting"
    <3>1. ProgressOf(j) = "none"
      BY <1>3, <2>1, <2>6 DEF progress, Entered
    <3>2. row'[j].status = "detecting" \/ (row'[j].status = "cancelled" /\ row[j].status = "cancelled")
      BY <2>4, <2>5, <2>6
    <3>3. Lifecycle!Begin(j)
      BY <1>0, <1>6, <2>3, <2>4, <2>6, <3>1, <3>2 DEF Lifecycle!Begin
    <3> QED BY <1>0, <3>3 DEF Lifecycle!Next
  <2>7. CASE at[r] # "detecting"
    <3>1. Entered(r, j)
      BY <1>0, <2>1, <2>7 DEF Entered, Loaded
    <3>2. /\ ProgressOf(j) = copy[r].stage /\ copy[r].stage \in Stages /\ at[r] = After(copy[r].stage)
          /\ copy[r].status = copy[r].stage /\ row[j].status \in {copy[r].stage, "cancelled"}
      BY <1>0, <1>3, <2>1, <3>1 DEF progress, Named
    <3>3. at[r] = Lifecycle!NextStage(copy[r].stage) /\ copy[r].stage # "validating" /\ at[r] # copy[r].stage
      BY <2>1, <3>2 DEF After, Stages, Lifecycle!NextStage
    <3>4. row'[j].status = at[r]
      BY <2>5, <3>2, <3>3
    <3>5. Lifecycle!Owns(j)
      BY <1>0, <3>2 DEF Lifecycle!Owns, Stages
    <3>6. ASSUME NEW g, g = at[r] PROVE Lifecycle!Set(j, g, g)
      BY <1>6, <2>3, <3>4, <3>6
    <3>7. ASSUME NEW g, g = at[r] PROVE Lifecycle!Advance(j)
      <4>1. g = Lifecycle!NextStage([k \in Jobs |-> ProgressOf(k)][j])
        BY <1>0, <3>2, <3>3, <3>7
      <4>2. [k \in Jobs |-> ProgressOf(k)][j] \notin {"validating", "none"}
        BY <1>0, <3>2, <3>3 DEF Stages
      <4>3. Lifecycle!Set(j, g, g)
        BY <3>6, <3>7
      <4> QED BY <3>5, <4>1, <4>2, <4>3 DEF Lifecycle!Advance, Lifecycle!Set
    <3> QED BY <1>0, <3>7 DEF Lifecycle!Next
  <2> QED BY <2>6, <2>7
<1>12. CASE Finish(r)
  <2> DEFINE new == [copy[r] EXCEPT !.status = "complete", !.stage = "none"]
  <2>1. /\ pc[r] = "enter" /\ at[r] = "finishing" /\ sess[r] = "clean" /\ Exists(j)
        /\ pc'[r] \in {"ack", "idle"} /\ row'[j] = Updated(row[j], copy[r], new)
    BY <1>0, <1>12 DEF Finish, Write, EndRun, Goto, TypeOK
  <2>2. new.status = "complete"
    BY <1>0 DEF Rows
  <2> HIDE DEF new
  <2>3. Entered(r, j) /\ ~live
    BY <1>0, <2>1 DEF Entered, Loaded, live
  <2>4. /\ ProgressOf(j) = copy[r].stage /\ copy[r].stage \in Stages /\ After(copy[r].stage) = "finishing"
        /\ copy[r].status \in {copy[r].stage, "cancelled"} /\ row[j].status \in {copy[r].stage, "cancelled"}
    BY <1>0, <1>3, <2>1, <2>3 DEF progress, Named
  <2>5. copy[r].stage = "validating"
    BY <2>4 DEF After, Stages
  <2>6. row'[j].status = "complete" /\ ProgressOf(j)' = "none"
    BY <1>4, <2>1, <2>2, <2>3, <2>4, <2>5 DEF Updated
  <2>7. Lifecycle!Complete(j)
    BY <1>0, <1>6, <2>4, <2>5, <2>6 DEF Lifecycle!Complete, Lifecycle!Owns
  <2> QED BY <1>0, <2>7 DEF Lifecycle!Next
<1>13. CASE HandleFailed(r)
  <2> DEFINE old == Refreshed(r)
             new == [old EXCEPT !.status = "failed", !.error = old.stage]
  <2>1. /\ pc[r] = "handle" /\ sess[r] # "broken" /\ Exists(j) /\ pc'[r] \in {"ack", "idle"}
        /\ row'[j] \in {row[j], Updated(row[j], old, new)}
    BY <1>0, <1>13 DEF HandleFailed, Write, EndRun, Goto, TypeOK
  <2>2. Entered(r, j) /\ ~live
    BY <1>0, <2>1 DEF Entered, Loaded, live
  <2>3. ProgressOf(j)' = "none"
    BY <1>4, <2>2
  <2>4. /\ ProgressOf(j) = copy[r].stage /\ copy[r].stage \in Stages
        /\ copy[r].status \in {copy[r].stage, "cancelled"} /\ row[j].status \in {copy[r].stage, "cancelled"}
    BY <1>0, <1>3, <2>1, <2>2 DEF progress, Named
  <2>5. old \in Rows /\ old.status \in {copy[r].stage, "cancelled"}
    BY <1>0, <2>4 DEF Refreshed
  <2>6. new.status = "failed"
    BY <2>5 DEF Rows
  <2> HIDE DEF new, old
  <2>7. row'[j] = row[j] \/ row'[j].status = "failed"
    BY <2>1, <2>4, <2>5, <2>6 DEF Updated, Stages
  <2>8. CASE row'[j] = row[j]
    BY <1>7, <2>3, <2>8 DEF status
  <2>9. CASE row'[j].status = "failed"
    <3>1. Lifecycle!Fail(j)
      BY <1>0, <1>6, <2>3, <2>4, <2>9 DEF Lifecycle!Fail, Lifecycle!Owns, Stages
    <3> QED BY <1>0, <3>1 DEF Lifecycle!Next
  <2> QED BY <2>7, <2>8, <2>9
<1> QED BY <1>8, <1>9, <1>10, <1>11, <1>12, <1>13 DEF RunStep, RunFault

(* A request accepts, stops or deletes its job, or is not seen.            *)
LEMMA ApiLives ==
  ASSUME LifeInv, LifeInv', NEW k \in Jobs, Api(k)
  PROVE  [Lifecycle!Next]_(Lifecycle!vars)
<1>0. /\ StepInv /\ PendingInv /\ TypeInv /\ TypeOK
  BY DEF LifeInv, StepInv, PendingInv, TypeInv
<1>1. ProgressIsOfRun /\ ProgressIsOfRun'
  BY OneEnteredNow, OneEnteredNext, ProgressNow, ProgressNext DEF LifeInv
<1>2. ASSUME NEW s \in Runners, NEW j \in Jobs PROVE (Entered(s, j)' <=> Entered(s, j)) /\ copy' = copy
  <2>1. Active(s)' => Active(s) /\ pc'[s] = pc[s] /\ on'[s] = on[s]
    BY <1>0, ApiRuns
  <2>2. Active(s) => pc'[s] = pc[s] /\ on'[s] = on[s]
    <3>1. s = k => pc[k] # "idle" \/ ~Active(s)
      BY DEF Active
    <3> QED BY <1>0, <3>1, ApiFrame DEF Active
  <2> QED BY <1>0, <2>1, <2>2, ApiFrame DEF Entered, Loaded, Active
<1>3. ASSUME NEW j \in Jobs PROVE ProgressOf(j)' = ProgressOf(j)
  <2>1. CASE \E s \in Runners : Entered(s, j)
    <3>1. PICK s \in Runners : Entered(s, j)
      BY <2>1
    <3>2. Entered(s, j)' /\ copy' = copy
      BY <1>2, <3>1
    <3>3. ProgressOf(j) = copy[s].stage /\ ProgressOf(j)' = copy'[s].stage
      BY <1>1, <3>1, <3>2 DEF ProgressIsOfRun
    <3> QED BY <3>2, <3>3
  <2>2. CASE \A s \in Runners : ~Entered(s, j)
    <3>1. \A s \in Runners : ~Entered(s, j)'
      BY <1>2, <2>2
    <3> QED BY <1>1, <2>2, <3>1 DEF ProgressIsOfRun
  <2> QED BY <2>1, <2>2
<1>4. ASSUME row' = row, \A j \in Jobs : req'[j] = "done" <=> req[j] = "done"
      PROVE  UNCHANGED Lifecycle!vars
  BY <1>3, <1>4, NoJobChanges
<1>5. CASE SubmitFlush(k) \/ SubmitPublish(k) \/ SubmitFallback(k) \/ SubmitAbort(k) \/ StopCheck(k)
  BY <1>0, <1>4, <1>5 DEF SubmitFlush, SubmitPublish, SubmitFallback, SubmitAbort, StopCheck, TypeOK
<1>6. CASE SubmitCommit(k)
  <2>1. /\ row' = [row EXCEPT ![k] = NewRow] /\ req' = [req EXCEPT ![k] = "done"] /\ req[k] # "done"
    BY <1>6 DEF SubmitCommit
  <2>2. [j \in Jobs |-> row'[j].status] = [[j \in Jobs |-> row[j].status] EXCEPT ![k] = "pending"]
    BY <1>0, <2>1 DEF TypeOK, NewRow
  <2>3. {j \in Jobs : req'[j] = "done"} = {j \in Jobs : req[j] = "done"} \cup {k}
    BY <1>0, <2>1 DEF TypeOK
  <2>4. [j \in Jobs |-> ProgressOf(j)'] = [j \in Jobs |-> ProgressOf(j)]
    BY <1>3
  <2>5. Lifecycle!Accept(k)
    BY <2>1, <2>2, <2>3, <2>4 DEF Lifecycle!Accept
  <2> QED BY <2>5 DEF Lifecycle!Next
<1>7. CASE StopCommit(k)
  <2>1. req' = req
    BY <1>7 DEF StopCommit
  <2>2. CASE ~Exists(k)
    BY <1>4, <1>7, <2>1, <2>2 DEF StopCommit
  <2>3. CASE Exists(k)
    <3>1. row'[k].status = "cancelled" /\ \A j \in Jobs \ {k} : row'[j].status = row[j].status
      BY <1>0, <1>7, <2>3 DEF StopCommit, TypeOK, Rows
    <3>2. ASSUME NEW p, p = ProgressOf(k) PROVE Lifecycle!Set(k, "cancelled", p)
      BY <1>0, <1>3, <2>1, <3>1, <3>2, OneJobChanges
    <3>3. ASSUME NEW p, p = ProgressOf(k) PROVE Lifecycle!Stop(k)
      <4>1. Lifecycle!Set(k, "cancelled", p) /\ p = [j \in Jobs |-> ProgressOf(j)][k]
        BY <3>2, <3>3
      <4> QED BY <2>3, <4>1 DEF Lifecycle!Stop, Lifecycle!Set, Exists
    <3> QED BY <3>3 DEF Lifecycle!Next
  <2> QED BY <2>2, <2>3
<1>8. CASE DeleteJob(k)
  <2>1. req' = req /\ Exists(k)
    BY <1>8 DEF DeleteJob
  <2>2. row'[k].status = "absent" /\ \A j \in Jobs \ {k} : row'[j].status = row[j].status
    BY <1>0, <1>8 DEF DeleteJob, TypeOK, NoRow
  <2>3. ASSUME NEW p, p = ProgressOf(k) PROVE Lifecycle!Set(k, "absent", p)
    BY <1>0, <1>3, <2>1, <2>2, <2>3, OneJobChanges
  <2>4. ASSUME NEW p, p = ProgressOf(k) PROVE Lifecycle!Delete(k)
    <3>1. Lifecycle!Set(k, "absent", p) /\ p = [j \in Jobs |-> ProgressOf(j)][k]
      BY <2>3, <2>4
    <3> QED BY <2>1, <3>1 DEF Lifecycle!Delete, Lifecycle!Set, Exists
  <2> QED BY <2>4 DEF Lifecycle!Next
<1> QED BY <1>5, <1>6, <1>7, <1>8 DEF Api, Submit

(* Consumers and failures abandon runs, and do nothing else to a job.      *)
LEMMA EnvironmentLives ==
  ASSUME LifeInv, LifeInv', Environment
  PROVE  [Lifecycle!Next]_(Lifecycle!vars)
<1>0. /\ StepInv /\ TypeInv /\ TypeOK
  BY DEF LifeInv, StepInv, PendingInv, TypeInv
<1>1. ProgressIsOfRun /\ ProgressIsOfRun'
  BY OneEnteredNow, OneEnteredNext, ProgressNow, ProgressNext DEF LifeInv
<1>2. ASSUME NEW s \in Runners, NEW j \in Jobs, Entered(s, j)' PROVE Entered(s, j) /\ copy'[s] = copy[s]
  BY <1>0, <1>2, EnvironmentRuns DEF Entered, Loaded, Active
<1>3. ASSUME NEW j \in Jobs PROVE ProgressOf(j) \in Lifecycle!Stages \cup {"none"}
  <2>1. \A s \in Runners : copy[s].stage \in Stages \cup {"none"}
    BY <1>0 DEF TypeOK, Rows
  <2>2. Lifecycle!Stages = Stages
    BY DEF Lifecycle!Stages, Stages
  <2> QED BY <1>1, <2>1, <2>2 DEF ProgressIsOfRun
<1>4. ASSUME NEW j \in Jobs PROVE ProgressOf(j)' \in {ProgressOf(j), "none"}
  <2>1. CASE \E s \in Runners : Entered(s, j)'
    <3>1. PICK s \in Runners : Entered(s, j)'
      BY <2>1
    <3>2. Entered(s, j) /\ copy'[s] = copy[s]
      BY <1>2, <3>1
    <3>3. ProgressOf(j) = copy[s].stage /\ ProgressOf(j)' = copy'[s].stage
      BY <1>1, <3>1, <3>2 DEF ProgressIsOfRun
    <3> QED BY <3>2, <3>3
  <2>2. CASE \A s \in Runners : ~Entered(s, j)'
    BY <1>1, <2>2 DEF ProgressIsOfRun
  <2> QED BY <2>1, <2>2
<1>5. row' = row /\ \A j \in Jobs : req'[j] = "done" <=> req[j] = "done"
  BY <1>0, EnvironmentFrame
<1>6. {j \in Jobs : req'[j] = "done"} = {j \in Jobs : req[j] = "done"}
  BY <1>5
<1>7. [j \in Jobs |-> ProgressOf(j)'] \in [Jobs -> Lifecycle!Stages \cup {"none"}]
  BY <1>3, <1>4
<1>8. Lifecycle!AbandonMany
  BY <1>4, <1>5, <1>6, <1>7 DEF Lifecycle!AbandonMany
<1> QED BY <1>8 DEF Lifecycle!Next

(* The requests, the broker, the workers and the runs together implement   *)
(* the life cycle a client sees, for any number of jobs and workers: a     *)
(* stage is entered only after the one before it, "complete" follows the   *)
(* last one, and the status is written by the one live run or a request.   *)
THEOREM PipelineImplementsLifecycle == ASSUME Exclusive PROVE Spec => ImplementsLifecycle
<1>1. Init => Lifecycle!Init
  <2> SUFFICES ASSUME Init PROVE Lifecycle!Init
    OBVIOUS
  <2>1. \A j \in Jobs : ProgressOf(j) = "none" /\ row[j].status = "absent" /\ req[j] # "done"
    BY DEF Init, ProgressOf, Entered, Loaded, NoRow
  <2> QED BY <2>1 DEF Lifecycle!Init
<1>2. ASSUME LifeInv, LifeInv', [Next]_vars PROVE [Lifecycle!Next]_(Lifecycle!vars)
  <2>1. ASSUME NEW r \in Runners, RunStep(r) \/ RunFault(r) PROVE [Lifecycle!Next]_(Lifecycle!vars)
    <3>1. on[r] \in Jobs
      BY <1>2, <2>1, RunFrame DEF LifeInv, StepInv, PendingInv, TypeInv, RunInv, RunOk
    <3>2. ASSUME NEW j \in Jobs, j = on[r] PROVE [Lifecycle!Next]_(Lifecycle!vars)
      BY <1>2, <2>1, <3>2, RunLives
    <3> QED BY <3>1, <3>2
  <2>2. CASE UNCHANGED vars
    <3>1. UNCHANGED <<row, req, pc, on, at, copy, sess>>
      BY <2>2 DEF vars, runVars
    <3>2. \A j \in Jobs : ProgressOf(j)' = ProgressOf(j)
      BY <3>1 DEF ProgressOf, Entered, Loaded
    <3> QED BY <3>1, <3>2, NoJobChanges
  <2> QED BY <1>2, <2>1, <2>2, ApiLives, EnvironmentLives DEF Next, Environment
<1> QED BY <1>1, <1>2, LifeInvInductive, PTL DEF Spec, ImplementsLifecycle, Lifecycle!Spec
=============================================================================
