------------------------------- MODULE Broker -------------------------------
(***************************************************************************)
(* The RabbitMQ broker as services/queue/rabbitmq.py uses it: the durable  *)
(* queue alm.analyze, whose dead-letter exchange feeds alm.dead-letter,    *)
(* and consumers with prefetch_count=1 and manual acknowledgement.         *)
(*                                                                         *)
(* A message is abstracted to the job it names and its retry_count field.  *)
(* The queue is a bag: nothing in the code relies on its order, and a      *)
(* requeued message does not return to a definite position.                *)
(***************************************************************************)
EXTENDS Naturals

CONSTANTS
    Jobs,        \* job ids
    Workers,     \* worker processes, one consumer each
    MaxRetries,  \* MAX_RETRIES
    NoMsg        \* a worker holds no delivery

Messages == [job : Jobs, retry : 0 .. MaxRetries]

ASSUME BrokerAssumption ==
    /\ MaxRetries \in Nat
    /\ NoMsg \notin Messages
    /\ NoMsg \notin Jobs

VARIABLES
    ready,  \* copies of each message waiting in alm.analyze
    held,   \* the unacknowledged delivery of each worker, or NoMsg
    dead    \* jobs with a message in alm.dead-letter (nothing consumes it)

brokerVars == <<ready, held, dead>>

BrokerTypeOK ==
    /\ ready \in [Messages -> Nat]
    /\ held \in [Workers -> Messages \cup {NoMsg}]
    /\ dead \in SUBSET Jobs

BrokerInit ==
    /\ ready = [m \in Messages |-> 0]
    /\ held = [w \in Workers |-> NoMsg]
    /\ dead = {}

(* What RabbitMQService.publish enqueues: the body is built anew, with     *)
(* "retry_count": 0, whatever message is being published again.            *)
NewMessage(j) == [job |-> j, retry |-> 0]

Enqueue(m) == ready' = [ready EXCEPT ![m] = @ + 1]

Publish(j) == Enqueue(NewMessage(j))

(* Some copy of a message about j is waiting, or is held by a worker.      *)
Waiting(j) == \E m \in Messages : m.job = j /\ ready[m] > 0
HeldBy(w, j) == held[w] # NoMsg /\ held[w].job = j
HasMessage(j) == Waiting(j) \/ \E w \in Workers : HeldBy(w, j)

(* prefetch_count=1: a worker with an unacknowledged delivery gets no      *)
(* other.                                                                  *)
TakeDelivery(w, m) ==
    /\ held[w] = NoMsg
    /\ ready[m] > 0
    /\ held' = [held EXCEPT ![w] = m]
    /\ ready' = [ready EXCEPT ![m] = @ - 1]
    /\ UNCHANGED dead

(* Leaving message.process(requeue=False) normally acknowledges.  After    *)
(* the channel was lost there is no delivery left to settle and the        *)
(* acknowledgement is without effect.                                      *)
AckDelivery(w) ==
    /\ held' = [held EXCEPT ![w] = NoMsg]
    /\ UNCHANGED <<ready, dead>>

(* Leaving it by an exception rejects with requeue=False: the queue's      *)
(* x-dead-letter-exchange moves the message to alm.dead-letter.            *)
RejectDelivery(w) ==
    /\ dead' = IF held[w] = NoMsg THEN dead ELSE dead \cup {held[w].job}
    /\ held' = [held EXCEPT ![w] = NoMsg]
    /\ UNCHANGED ready

(* The consumer's process or channel is gone: an unacknowledged delivery   *)
(* goes back to the queue.                                                 *)
RequeueDelivery(w) ==
    /\ ready' = IF held[w] = NoMsg THEN ready
                ELSE [ready EXCEPT ![held[w]] = @ + 1]
    /\ held' = [held EXCEPT ![w] = NoMsg]
    /\ UNCHANGED dead

(* x-message-ttl: a message that waited 24 hours is dead-lettered.         *)
ExpireMessage(m) ==
    /\ ready[m] > 0
    /\ ready' = [ready EXCEPT ![m] = @ - 1]
    /\ dead' = dead \cup {m.job}
    /\ UNCHANGED held
=============================================================================
