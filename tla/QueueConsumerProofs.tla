------------------------ MODULE QueueConsumerProofs ------------------------
(***************************************************************************)
(* The consumer's safety properties, for every handler, every set of jobs  *)
(* and workers and every bound on the failures.                            *)
(***************************************************************************)
EXTENDS QueueConsumer, TLAPS

-----------------------------------------------------------------------------
(* What the broker's operations preserve.                                  *)

(* What publish() enqueues is a message, whatever the job.                 *)
LEMMA NewMessageType == \A j \in Jobs : NewMessage(j) \in Messages
  BY BrokerAssumption DEF NewMessage, Messages

(* Each use of the broker keeps its variables well typed.                  *)
LEMMA BrokerOperations ==
  ASSUME BrokerTypeOK
  PROVE  /\ \A j \in Jobs : Publish(j) => ready' \in [Messages -> Nat]
         /\ \A w \in Workers, m \in Messages : TakeDelivery(w, m) => BrokerTypeOK'
         /\ \A w \in Workers : AckDelivery(w) => BrokerTypeOK'
         /\ \A w \in Workers : RejectDelivery(w) => BrokerTypeOK'
         /\ \A w \in Workers : RequeueDelivery(w) => BrokerTypeOK'
         /\ \A m \in Messages : ExpireMessage(m) => BrokerTypeOK'
<1>1. ASSUME NEW j \in Jobs, Publish(j) PROVE ready' \in [Messages -> Nat]
  BY <1>1, NewMessageType DEF Publish, Enqueue, BrokerTypeOK
<1>2. ASSUME NEW w \in Workers, NEW m \in Messages, TakeDelivery(w, m) PROVE BrokerTypeOK'
  BY <1>2 DEF TakeDelivery, BrokerTypeOK
<1>3. ASSUME NEW w \in Workers, AckDelivery(w) PROVE BrokerTypeOK'
  BY <1>3 DEF AckDelivery, BrokerTypeOK
<1>4. ASSUME NEW w \in Workers, RejectDelivery(w) PROVE BrokerTypeOK'
  <2>1. held[w] # NoMsg => held[w].job \in Jobs
    BY DEF BrokerTypeOK, Messages
  <2> QED BY <1>4, <2>1 DEF RejectDelivery, BrokerTypeOK
<1>5. ASSUME NEW w \in Workers, RequeueDelivery(w) PROVE BrokerTypeOK'
  <2>1. held[w] # NoMsg => held[w] \in Messages
    BY DEF BrokerTypeOK
  <2> QED BY <1>5, <2>1 DEF RequeueDelivery, BrokerTypeOK
<1>6. ASSUME NEW m \in Messages, ExpireMessage(m) PROVE BrokerTypeOK'
  <2>1. m.job \in Jobs
    BY DEF Messages
  <2> QED BY <1>6, <2>1 DEF ExpireMessage, BrokerTypeOK
<1> QED BY <1>1, <1>2, <1>3, <1>4, <1>5, <1>6

(* A delivery that goes back to the queue is as good as one that is held.  *)
LEMMA RequeueKeepsMessage ==
  ASSUME BrokerTypeOK, NEW w \in Workers, RequeueDelivery(w), NEW j \in Jobs
  PROVE  /\ Waiting(j) => Waiting(j)'
         /\ HeldBy(w, j) => Waiting(j)'
         /\ \A v \in Workers \ {w} : held'[v] = held[v]
         /\ held'[w] = NoMsg /\ dead' = dead
<1>1. held[w] # NoMsg => held[w] \in Messages
  BY DEF BrokerTypeOK
<1> QED BY <1>1 DEF RequeueDelivery, BrokerTypeOK, Waiting, HeldBy

-----------------------------------------------------------------------------
(* Invariants.                                                             *)

(* Every message there is has retry_count 0, and a callback holds either   *)
(* the delivery it decoded or, after its channel was lost, nothing.        *)
RetryInv ==
    /\ TypeOK
    /\ RetryFieldIsZero
    /\ \A w \in Workers : /\ phase[w] = "idle" => body[w] = NoMsg
                          /\ held[w] # NoMsg => phase[w] # "idle" /\ held[w] = body[w]

(* A job whose message no callback has answered by an acknowledgement.     *)
Open(w, j) == HeldBy(w, j) /\ phase[w] # "settle"
Safe(j) ==
    j \in completed \/ j \in dead \/ Waiting(j) \/ \E w \in Workers : Open(w, j)

LossInv == RetryInv /\ \A j \in published : Safe(j)

-----------------------------------------------------------------------------
(* RetryInv holds at the start, and every step keeps it.                   *)
LEMMA RetryInvInductive ==
  /\ Init => RetryInv
  /\ RetryInv /\ [Next]_vars => RetryInv'
<1>1. Init => RetryInv
  <2> SUFFICES ASSUME Init PROVE RetryInv
    OBVIOUS
  <2>1. BrokerTypeOK
    BY DEF Init, BrokerInit, BrokerTypeOK
  <2> QED BY <2>1 DEF Init, BrokerInit, RetryInv, TypeOK, RetryFieldIsZero, Phases
<1>2. ASSUME RetryInv, NEW j \in Jobs, Announce(j) PROVE RetryInv'
  <2>1. BrokerTypeOK' /\ NewMessage(j).retry = 0 /\ NewMessage(j) \in Messages
    BY <1>2, BrokerOperations, NewMessageType DEF RetryInv, Announce, TypeOK, BrokerTypeOK, NewMessage
  <2>2. \A m \in Messages : ready'[m] > 0 => m.retry = 0
    BY <1>2, <2>1 DEF RetryInv, Announce, Publish, Enqueue, TypeOK, BrokerTypeOK, RetryFieldIsZero
  <2> QED BY <1>2, <2>1, <2>2 DEF RetryInv, Announce, TypeOK, RetryFieldIsZero
<1>3. ASSUME RetryInv, NEW w \in Workers, NEW m \in Messages, Deliver(w, m) PROVE RetryInv'
  <2>1. BrokerTypeOK' /\ m.retry = 0 /\ m # NoMsg
    BY <1>3, BrokerOperations, BrokerAssumption DEF RetryInv, Deliver, TakeDelivery, TypeOK, RetryFieldIsZero
  <2>2. TypeOK'
    BY <1>3, <2>1 DEF RetryInv, Deliver, Turn, TypeOK, Phases
  <2>3. RetryFieldIsZero'
    BY <1>3, <2>1 DEF RetryInv, Deliver, TakeDelivery, TypeOK, BrokerTypeOK, RetryFieldIsZero
  <2> QED BY <1>3, <2>1, <2>2, <2>3 DEF RetryInv, Deliver, TakeDelivery, Turn, TypeOK, BrokerTypeOK
<1>4. ASSUME RetryInv, NEW w \in Workers, HandlerReturns(w) \/ HandlerRaises(w) \/ HandlerCancelled(w)
      PROVE  RetryInv'
  <2>1. body[w] \in Messages /\ body[w].job \in Jobs
    BY <1>4 DEF RetryInv, TypeOK, HandlerReturns, HandlerRaises, HandlerCancelled, Messages
  <2>2. /\ UNCHANGED <<ready, held, dead, body, published>>
        /\ phase' \in [Workers -> Phases] /\ phase[w] # "idle" /\ phase'[w] # "idle"
        /\ \A v \in Workers \ {w} : phase'[v] = phase[v]
    BY <1>4 DEF HandlerReturns, HandlerRaises, HandlerCancelled, brokerVars, Turn, RetryInv, TypeOK, Phases
  <2>3. completed' \in SUBSET Jobs /\ faults' \in Nat
    BY <1>4, <2>1 DEF HandlerReturns, HandlerRaises, HandlerCancelled, Fault, RetryInv, TypeOK
  <2>4. TypeOK'
    BY <1>4, <2>2, <2>3 DEF RetryInv, TypeOK, BrokerTypeOK
  <2> QED BY <1>4, <2>2, <2>4 DEF RetryInv, RetryFieldIsZero
<1>5. ASSUME RetryInv, NEW w \in Workers, RetryOrBury(w) PROVE RetryInv'
  <2>1. body[w] \in Messages /\ body[w].job \in Jobs /\ phase[w] = "caught"
    BY <1>5 DEF RetryInv, TypeOK, RetryOrBury, Messages
  <2>2. NewMessage(body[w].job) \in Messages /\ NewMessage(body[w].job).retry = 0
    BY <2>1, NewMessageType DEF NewMessage
  <2>3. /\ UNCHANGED <<held, body, published, completed>>
        /\ phase' \in [Workers -> Phases] /\ phase'[w] # "idle" /\ faults' \in Nat
        /\ \A v \in Workers \ {w} : phase'[v] = phase[v]
    BY <1>5 DEF RetryOrBury, Turn, Fault, RetryInv, TypeOK, Phases
  <2>4. Publish(body[w].job) \/ ready' = ready
    BY <1>5 DEF RetryOrBury
  <2>5. ready' \in [Messages -> Nat] /\ \A m \in Messages : ready'[m] > 0 => m.retry = 0
    BY <1>5, <2>2, <2>4 DEF Publish, Enqueue, RetryInv, TypeOK, BrokerTypeOK, RetryFieldIsZero
  <2>6. dead' \in SUBSET Jobs
    BY <1>5, <2>1 DEF RetryOrBury, RetryInv, TypeOK, BrokerTypeOK
  <2>7. TypeOK'
    BY <1>5, <2>1, <2>3, <2>5, <2>6 DEF RetryInv, TypeOK, BrokerTypeOK
  <2> QED BY <1>5, <2>1, <2>3, <2>5, <2>7 DEF RetryInv, RetryFieldIsZero
<1>6. ASSUME RetryInv, NEW w \in Workers, Settle(w) \/ Crash(w) PROVE RetryInv'
  <2>1. /\ BrokerTypeOK' /\ held' = [held EXCEPT ![w] = NoMsg]
        /\ phase' = [phase EXCEPT ![w] = "idle"] /\ body' = [body EXCEPT ![w] = NoMsg]
        /\ UNCHANGED <<published, completed>>
    BY <1>6, BrokerOperations DEF RetryInv, TypeOK, Settle, Crash, AckDelivery, RejectDelivery, RequeueDelivery, Turn
  <2>2. faults' \in Nat
    BY <1>6 DEF Settle, Crash, Fault, RetryInv, TypeOK
  <2>3. TypeOK'
    BY <1>6, <2>1, <2>2 DEF RetryInv, TypeOK, Phases
  <2>4. \A m \in Messages : ready'[m] > 0 => m.retry = 0
    <3>1. CASE ready' = ready
      BY <1>6, <3>1 DEF RetryInv, RetryFieldIsZero
    <3>2. CASE RequeueDelivery(w)
      BY <1>6, <3>2 DEF RequeueDelivery, RetryInv, RetryFieldIsZero, TypeOK, BrokerTypeOK
    <3> QED BY <1>6, <3>1, <3>2 DEF Settle, Crash, AckDelivery, RejectDelivery
  <2>5. \A v \in Workers \ {w} : held'[v] = held[v] /\ phase'[v] = phase[v] /\ body'[v] = body[v]
    BY <1>6, <2>1 DEF RetryInv, TypeOK, BrokerTypeOK
  <2>6. held'[w] = NoMsg /\ phase'[w] = "idle" /\ body'[w] = NoMsg
    BY <1>6, <2>1 DEF RetryInv, TypeOK, BrokerTypeOK
  <2> QED BY <1>6, <2>3, <2>4, <2>5, <2>6 DEF RetryInv, RetryFieldIsZero
<1>7. ASSUME RetryInv, NEW w \in Workers, LoseChannel(w) PROVE RetryInv'
  <2>0. BrokerTypeOK'
    BY <1>7, BrokerOperations DEF RetryInv, TypeOK, LoseChannel
  <2>1. /\ BrokerTypeOK' /\ held' = [held EXCEPT ![w] = NoMsg] /\ faults' \in Nat
        /\ UNCHANGED <<phase, body, published, completed>>
    BY <1>7, <2>0 DEF RetryInv, TypeOK, LoseChannel, RequeueDelivery, Fault
  <2>2. \A m \in Messages : ready'[m] > 0 => m.retry = 0
    BY <1>7 DEF LoseChannel, RequeueDelivery, RetryInv, RetryFieldIsZero, TypeOK, BrokerTypeOK
  <2>3. TypeOK'
    BY <1>7, <2>1 DEF RetryInv, TypeOK
  <2> QED BY <1>7, <2>1, <2>2, <2>3 DEF RetryInv, RetryFieldIsZero, TypeOK, BrokerTypeOK
<1>8. ASSUME RetryInv, NEW m \in Messages, Expire(m) PROVE RetryInv'
  <2>0. BrokerTypeOK'
    BY <1>8, BrokerOperations DEF RetryInv, TypeOK, Expire
  <2>1. /\ BrokerTypeOK' /\ held' = held /\ faults' \in Nat
        /\ UNCHANGED <<phase, body, published, completed>>
    BY <1>8, <2>0 DEF RetryInv, TypeOK, Expire, ExpireMessage, Fault
  <2>2. \A n \in Messages : ready'[n] > 0 => ready[n] > 0
    BY <1>8 DEF Expire, ExpireMessage, RetryInv, TypeOK, BrokerTypeOK
  <2> QED BY <1>8, <2>1, <2>2 DEF RetryInv, RetryFieldIsZero, TypeOK
<1>9. ASSUME RetryInv, UNCHANGED vars PROVE RetryInv'
  BY <1>9 DEF vars, brokerVars, RetryInv, RetryFieldIsZero, TypeOK, BrokerTypeOK
<1> QED BY <1>1, <1>2, <1>3, <1>4, <1>5, <1>6, <1>7, <1>8, <1>9 DEF Next, Work

(* The variables stay in their types.                                      *)
THEOREM ConsumerTypeCorrect == Spec => []TypeOK
<1>1. RetryInv => TypeOK
  BY DEF RetryInv
<1> QED BY <1>1, RetryInvInductive, PTL DEF Spec

(* No message ever says that it has been retried, however often it was:    *)
(* the except clause never takes its dead-letter branch.                   *)
THEOREM RetryFieldStaysZero == Spec => []RetryFieldIsZero
<1>1. RetryInv => RetryFieldIsZero
  BY DEF RetryInv
<1> QED BY <1>1, RetryInvInductive, PTL DEF Spec

-----------------------------------------------------------------------------
(* A published job stays safe: the callback acknowledges only after its    *)
(* handler returned or its message was published again.                    *)
LEMMA LossInvInductive ==
  /\ Init => LossInv
  /\ LossInv /\ [Next]_vars => LossInv'
<1>1. Init => LossInv
  BY RetryInvInductive DEF Init, LossInv
<1> SUFFICES ASSUME LossInv, [Next]_vars, NEW j \in Jobs, j \in published' PROVE Safe(j)'
  BY <1>1, RetryInvInductive DEF LossInv, RetryInv, TypeOK
<1>0. /\ RetryInv /\ TypeOK /\ BrokerTypeOK /\ RetryInv' /\ BrokerTypeOK'
      /\ j \in published => Safe(j)
  BY RetryInvInductive DEF LossInv, RetryInv, TypeOK
<1>2. ASSUME NEW k \in Jobs, Announce(k) PROVE Safe(j)'
  <2>1. NewMessage(k) \in Messages /\ NewMessage(k).job = k
    BY NewMessageType DEF NewMessage
  <2>2. Waiting(j) \/ j = k => Waiting(j)'
    BY <1>0, <1>2, <2>1 DEF Announce, Publish, Enqueue, Waiting, BrokerTypeOK
  <2> QED BY <1>0, <1>2, <2>2 DEF Announce, Safe, Open, HeldBy
<1>3. ASSUME NEW w \in Workers, NEW m \in Messages, Deliver(w, m) PROVE Safe(j)'
  <2>1. /\ held' = [held EXCEPT ![w] = m] /\ ready' = [ready EXCEPT ![m] = @ - 1] /\ held[w] = NoMsg
        /\ phase' = [phase EXCEPT ![w] = "handling"] /\ m # NoMsg
        /\ UNCHANGED <<completed, dead, published>>
    BY <1>3, BrokerAssumption DEF Deliver, TakeDelivery, Turn
  <2>2. Waiting(j) => Waiting(j)' \/ m.job = j
    BY <1>0, <2>1 DEF Waiting, BrokerTypeOK
  <2>3. m.job = j => Open(w, j)'
    BY <1>0, <2>1 DEF Open, HeldBy, TypeOK, BrokerTypeOK
  <2>4. \A v \in Workers : Open(v, j) => Open(v, j)'
    BY <1>0, <2>1 DEF Open, HeldBy, TypeOK, BrokerTypeOK
  <2> QED BY <1>0, <2>1, <2>2, <2>3, <2>4 DEF Safe
<1>4. ASSUME NEW w \in Workers, HandlerReturns(w) \/ HandlerRaises(w) \/ HandlerCancelled(w) PROVE Safe(j)'
  <2>1. /\ UNCHANGED <<ready, held, dead, published>> /\ completed \subseteq completed'
        /\ \A v \in Workers \ {w} : phase'[v] = phase[v]
        /\ phase'[w] = "settle" => body[w].job \in completed'
    BY <1>0, <1>4 DEF HandlerReturns, HandlerRaises, HandlerCancelled, brokerVars, Turn, TypeOK
  <2>2. \A v \in Workers : Open(v, j) => Open(v, j)' \/ j \in completed'
    BY <1>0, <2>1 DEF Open, HeldBy, RetryInv
  <2> QED BY <1>0, <2>1, <2>2 DEF Safe, Waiting
<1>5. ASSUME NEW w \in Workers, RetryOrBury(w) PROVE Safe(j)'
  <2>1. /\ body[w].retry = 0 /\ body[w].job \in Jobs /\ phase[w] = "caught"
        /\ UNCHANGED <<held, completed, published>>
    BY <1>0, <1>5, BrokerAssumption DEF RetryOrBury, RetryInv, RetryFieldIsZero, TypeOK, Messages
  <2>2. /\ dead' = dead
        /\ \/ Publish(body[w].job)
           \/ phase' = [phase EXCEPT ![w] = "reject"] /\ ready' = ready
        /\ \A v \in Workers \ {w} : phase'[v] = phase[v]
    BY <1>0, <1>5, <2>1, ConsumerAssumption DEF RetryOrBury, Turn, TypeOK
  <2>3. CASE Publish(body[w].job)
    <3>1. NewMessage(body[w].job) \in Messages /\ NewMessage(body[w].job).job = body[w].job
      BY <2>1, NewMessageType DEF NewMessage
    <3>2. Waiting(j) \/ body[w].job = j => Waiting(j)'
      BY <1>0, <2>3, <3>1 DEF Publish, Enqueue, Waiting, BrokerTypeOK
    <3>3. HeldBy(w, j) => body[w].job = j
      BY <1>0 DEF HeldBy, RetryInv
    <3> QED BY <1>0, <2>1, <2>2, <3>2, <3>3 DEF Safe, Open, HeldBy
  <2>4. CASE phase' = [phase EXCEPT ![w] = "reject"] /\ ready' = ready
    BY <1>0, <2>1, <2>2, <2>4 DEF Safe, Waiting, Open, HeldBy, TypeOK
  <2> QED BY <2>2, <2>3, <2>4
<1>6. ASSUME NEW w \in Workers, Settle(w) PROVE Safe(j)'
  <2>1. /\ ready' = ready /\ held' = [held EXCEPT ![w] = NoMsg] /\ UNCHANGED <<completed, published>>
        /\ phase' = [phase EXCEPT ![w] = "idle"] /\ dead \subseteq dead'
        /\ phase[w] = "settle" \/ (held[w] # NoMsg => held[w].job \in dead')
    BY <1>6 DEF Settle, AckDelivery, RejectDelivery, Turn
  <2>2. \A v \in Workers : Open(v, j) => Open(v, j)' \/ j \in dead'
    BY <1>0, <2>1 DEF Open, HeldBy, TypeOK, BrokerTypeOK
  <2> QED BY <1>0, <2>1, <2>2 DEF Safe, Waiting
<1>7. ASSUME NEW w \in Workers, Crash(w) \/ LoseChannel(w) PROVE Safe(j)'
  <2>1. /\ RequeueDelivery(w) /\ UNCHANGED <<completed, published>>
        /\ \A v \in Workers \ {w} : phase'[v] = phase[v]
    BY <1>0, <1>7 DEF Crash, LoseChannel, Turn, TypeOK
  <2> QED BY <1>0, <2>1, RequeueKeepsMessage DEF Safe, Open, HeldBy
<1>8. ASSUME NEW m \in Messages, Expire(m) PROVE Safe(j)'
  <2>1. /\ ready' = [ready EXCEPT ![m] = @ - 1] /\ dead' = dead \cup {m.job}
        /\ UNCHANGED <<held, phase, completed, published>>
    BY <1>8 DEF Expire, ExpireMessage
  <2>2. Waiting(j) => Waiting(j)' \/ j \in dead'
    BY <1>0, <2>1 DEF Waiting, BrokerTypeOK
  <2> QED BY <1>0, <2>1, <2>2 DEF Safe, Open, HeldBy
<1>9. CASE UNCHANGED vars
  BY <1>0, <1>9 DEF vars, brokerVars, Safe, Waiting, Open, HeldBy
<1> QED BY <1>2, <1>3, <1>4, <1>5, <1>6, <1>7, <1>8, <1>9 DEF Next, Work

(* At least once: whatever fails, and whenever, a published job has been   *)
(* handled, has a message, or is in the dead-letter queue.                 *)
THEOREM NoMessageIsLost == Spec => []NothingIsLost
<1>1. LossInv => NothingIsLost
  BY DEF LossInv, NothingIsLost, Safe, Open, HasMessage
<1> QED BY <1>1, LossInvInductive, PTL DEF Spec
=============================================================================
