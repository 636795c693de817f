--------------------------- MODULE QueueConsumer ---------------------------
(***************************************************************************)
(* RabbitMQService.consume: what the worker's callback does with a         *)
(* delivery, for any handler.  The handler returns, raises an Exception,   *)
(* or is cancelled; the callback acknowledges, publishes the message again *)
(* or dead-letters it.  JobPipeline is the same consumer with the handler  *)
(* of workers/pipeline_worker.py.                                          *)
(***************************************************************************)
EXTENDS Broker

CONSTANTS
    Faults,     \* the kinds of failure the environment may cause
    MaxFaults   \* bound: how many of them

FaultKinds == {"raise", "cancel", "publish", "crash", "channel", "ttl"}

ASSUME ConsumerAssumption ==
    /\ Faults \subseteq FaultKinds
    /\ MaxFaults \in Nat
    /\ MaxRetries > 1

VARIABLES
    phase,      \* where the callback of each worker is
    body,       \* the message it decoded: outlives a lost delivery
    published,  \* jobs the API has published
    completed,  \* history: jobs a handler of which has returned
    faults

vars == <<brokerVars, phase, body, published, completed, faults>>

Phases == {"idle", "handling", "caught", "settle", "reject"}

TypeOK ==
    /\ BrokerTypeOK
    /\ phase \in [Workers -> Phases]
    /\ body \in [Workers -> Messages \cup {NoMsg}]
    /\ \A w \in Workers : phase[w] # "idle" => body[w] \in Messages
    /\ published \in SUBSET Jobs
    /\ completed \in SUBSET Jobs
    /\ faults \in Nat

Init ==
    /\ BrokerInit
    /\ phase = [w \in Workers |-> "idle"]
    /\ body = [w \in Workers |-> NoMsg]
    /\ published = {}
    /\ completed = {}
    /\ faults = 0

Fault(kind) ==
    /\ kind \in Faults
    /\ faults < MaxFaults
    /\ faults' = faults + 1

Turn(w, p) == phase' = [phase EXCEPT ![w] = p]

(* The API publishes one message per job.                                  *)
Announce(j) ==
    /\ j \notin published
    /\ Publish(j)
    /\ published' = published \cup {j}
    /\ UNCHANGED <<held, dead, phase, body, completed, faults>>

Deliver(w, m) ==
    /\ phase[w] = "idle"
    /\ TakeDelivery(w, m)
    /\ Turn(w, "handling")
    /\ body' = [body EXCEPT ![w] = m]
    /\ UNCHANGED <<published, completed, faults>>

HandlerReturns(w) ==
    /\ phase[w] = "handling"
    /\ Turn(w, "settle")
    /\ completed' = completed \cup {body[w].job}
    /\ UNCHANGED <<brokerVars, body, published, faults>>

HandlerRaises(w) ==
    /\ phase[w] = "handling"
    /\ Fault("raise")
    /\ Turn(w, "caught")
    /\ UNCHANGED <<brokerVars, body, published, completed>>

(* asyncio.CancelledError is no Exception: it leaves message.process().    *)
HandlerCancelled(w) ==
    /\ phase[w] = "handling"
    /\ Fault("cancel")
    /\ Turn(w, "reject")
    /\ UNCHANGED <<brokerVars, body, published, completed>>

(* Variant of RetryOrBury: a failing publish is swallowed.                 *)
RetryQuietly(w) ==
    /\ phase[w] = "caught"
    /\ \/ Publish(body[w].job) /\ UNCHANGED faults
       \/ Fault("publish") /\ UNCHANGED ready
    /\ Turn(w, "settle")
    /\ UNCHANGED <<held, dead, body, published, completed>>

(* The except clause.  The incremented count decides, but publish() builds *)
(* a new body; a failing publish leaves message.process() by an exception, *)
(* a failure to reach the dead-letter exchange is swallowed.               *)
RetryOrBury(w) ==
    LET retries == body[w].retry + 1
    IN /\ phase[w] = "caught"
       /\ IF retries < MaxRetries
          THEN /\ \/ Publish(body[w].job) /\ Turn(w, "settle") /\ UNCHANGED faults
                  \/ Fault("publish") /\ Turn(w, "reject") /\ UNCHANGED ready
               /\ UNCHANGED dead
          ELSE /\ Turn(w, "settle")
               /\ \/ dead' = dead \cup {body[w].job} /\ UNCHANGED faults
                  \/ Fault("publish") /\ UNCHANGED dead
               /\ UNCHANGED ready
       /\ UNCHANGED <<held, body, published, completed>>

(* Variant of Settle: a cancelled callback never settles its delivery.     *)
SettleReturned(w) ==
    /\ phase[w] = "settle" /\ AckDelivery(w)
    /\ Turn(w, "idle")
    /\ body' = [body EXCEPT ![w] = NoMsg]
    /\ UNCHANGED <<published, completed, faults>>

Settle(w) ==
    /\ \/ phase[w] = "settle" /\ AckDelivery(w)
       \/ phase[w] = "reject" /\ RejectDelivery(w)
    /\ Turn(w, "idle")
    /\ body' = [body EXCEPT ![w] = NoMsg]
    /\ UNCHANGED <<published, completed, faults>>

Crash(w) ==
    /\ phase[w] # "idle"
    /\ Fault("crash")
    /\ RequeueDelivery(w)
    /\ Turn(w, "idle")
    /\ body' = [body EXCEPT ![w] = NoMsg]
    /\ UNCHANGED <<published, completed>>

LoseChannel(w) ==
    /\ phase[w] # "idle" /\ held[w] # NoMsg
    /\ Fault("channel")
    /\ RequeueDelivery(w)
    /\ UNCHANGED <<phase, body, published, completed>>

Expire(m) ==
    /\ Fault("ttl")
    /\ ExpireMessage(m)
    /\ UNCHANGED <<phase, body, published, completed>>

Work(w) ==
    \/ \E m \in Messages : Deliver(w, m)
    \/ HandlerReturns(w) \/ RetryOrBury(w) \/ Settle(w)

Next ==
    \/ \E j \in Jobs : Announce(j)
    \/ \E w \in Workers :
          \/ Work(w) \/ HandlerRaises(w) \/ HandlerCancelled(w)
          \/ Crash(w) \/ LoseChannel(w)
    \/ \E m \in Messages : Expire(m)

Spec == Init /\ [][Next]_vars

FairSpec == Spec /\ \A w \in Workers : WF_vars(Work(w))

-----------------------------------------------------------------------------
(* Properties.                                                             *)

(* At least once: a published job has been handled, or a copy of its       *)
(* message is in the queue, with a worker, or in alm.dead-letter.  A crash *)
(* at any point of the callback, between publishing again and              *)
(* acknowledging for instance, loses no job.                               *)
NothingIsLost ==
    \A j \in published : j \in completed \/ HasMessage(j) \/ j \in dead

(* Why the dead-letter branch of the except clause is dead code, and why a *)
(* failure there cannot lose a message: every message in the system says   *)
(* that it has never been retried.                                         *)
RetryFieldIsZero ==
    /\ \A m \in Messages : ready[m] > 0 => m.retry = 0
    /\ \A w \in Workers : body[w] # NoMsg => body[w].retry = 0

(* Each published job is handled, or given up in the open.                 *)
EveryMessageIsSettled ==
    \A j \in Jobs : j \in published ~> j \in completed \/ j \in dead
=============================================================================
