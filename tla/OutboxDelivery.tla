--------------------------- MODULE OutboxDelivery ---------------------------
(***************************************************************************)
(* The event pipeline: the outbox table of the itinerary database, the     *)
(* workers that publish it (outbox_worker.py), the RabbitMQ queue, the     *)
(* consumers (consumer.py) and the notifications table.                    *)
(*                                                                         *)
(* Everything the program awaits is a step of its own, so workers,         *)
(* consumers, the network and the broker interleave freely.  Failures      *)
(* (crash, lost connection, lost confirm, database error) may strike       *)
(* between any two steps; MaxFailures bounds how many do.                  *)
(***************************************************************************)
EXTENDS Integers, FiniteSets

CONSTANTS
  Events,       \* events, numbered by the outbox order (created_at, id)
  Malformed,    \* bodies that fail ItineraryCreatedEvent.model_validate_json
  Workers,      \* outbox-worker processes
  Consumers,    \* notification-function processes
  Copies,       \* slots for the copies of messages alive at the same time
  BatchSize,    \* batch_size of publish_batch (50)
  Prefetch,     \* prefetch_count of the consumer channel (10)
  MaxFailures,  \* bound on the failures of a behaviour
  NoEvent, NoCopy

ASSUME EventsAssumption == Events \subseteq Nat /\ NoEvent \notin Events
ASSUME MessagesAssumption == Malformed \cap Events = {} /\ NoEvent \notin Malformed
ASSUME CopiesAssumption == NoCopy \notin Copies
ASSUME PlacesAssumption == Consumers \cap {"free", "wire", "queue", "dead"} = {}
ASSUME BoundsAssumption == /\ BatchSize \in Nat \ {0}
                           /\ Prefetch \in Nat \ {0}
                           /\ MaxFailures \in Nat

VARIABLES
  outbox,       \* committed outbox row of each event: absent, pending, published
  wstate,       \* where each worker is in run() / publish_batch
  batch,        \* rows locked by the worker's open transaction
  marked,       \* rows whose published_at is set in that transaction
  sending,      \* the row the worker is publishing
  awaiting,     \* the copy whose confirm the worker awaits
  msg, place,   \* content and whereabouts of each copy
  cstate,       \* where each consumer is in consume() / process_message
  event, tag,   \* the event it handles and the copy that carried it
  notified,     \* number of notifications rows of each event
  failures      \* failures so far

workerVars   == <<wstate, batch, marked, sending, awaiting>>
brokerVars   == <<msg, place>>
consumerVars == <<cstate, event, tag, notified>>
vars == <<outbox, workerVars, brokerVars, consumerVars, failures>>

Messages == Events \cup Malformed

(* A copy is nowhere, in the publisher's socket, in the durable queue, in  *)
(* the dead-letter queue, or delivered to a consumer and unacknowledged.   *)
Places == {"free", "wire", "queue", "dead"} \cup Consumers

Init ==
  /\ outbox = [e \in Events |-> "absent"]
  /\ wstate = [w \in Workers |-> "down"]
  /\ batch = [w \in Workers |-> {}]
  /\ marked = [w \in Workers |-> {}]
  /\ sending = [w \in Workers |-> NoEvent]
  /\ awaiting = [w \in Workers |-> NoCopy]
  /\ msg = [k \in Copies |-> NoEvent]
  /\ place = [k \in Copies |-> "free"]
  /\ cstate = [c \in Consumers |-> "down"]
  /\ event = [c \in Consumers |-> NoEvent]
  /\ tag = [c \in Consumers |-> NoCopy]
  /\ notified = [e \in Events |-> 0]
  /\ failures = 0

(* A failure is allowed while the budget lasts.                            *)
Failure == failures < MaxFailures /\ failures' = failures + 1

-----------------------------------------------------------------------------
(* Mutant: the service publishes first and commits afterwards.             *)
PublishBeforeCommit(e) ==
  /\ outbox[e] = "absent"
  /\ \E k \in Copies :
       /\ place[k] = "free"
       /\ msg' = [msg EXCEPT ![k] = e]
       /\ place' = [place EXCEPT ![k] = "queue"]
  /\ UNCHANGED <<outbox, workerVars, consumerVars, failures>>

(* The itinerary service commits an itinerary with its event (one          *)
(* transaction, the unit of work of create).                               *)
CommitCreate(e) ==
  /\ outbox[e] = "absent"
  /\ outbox' = [outbox EXCEPT ![e] = "pending"]
  /\ UNCHANGED <<workerVars, brokerVars, consumerVars, failures>>

-----------------------------------------------------------------------------
(* The outbox worker.                                                      *)

(* run(): connect, open the channel, declare the (durable) topology.       *)
Connect(w) ==
  /\ wstate[w] = "down"
  /\ wstate' = [wstate EXCEPT ![w] = "idle"]
  /\ UNCHANGED <<outbox, batch, marked, sending, awaiting, brokerVars, consumerVars, failures>>

(* Mutant: the batch query without FOR UPDATE SKIP LOCKED.                 *)
UnlockedSelect == {e \in Events : outbox[e] = "pending"}

(* Rows the batch query may return: unpublished and locked by nobody.      *)
Selectable == {e \in Events : outbox[e] = "pending" /\ \A w \in Workers : e \notin batch[w]}

(* ORDER BY created_at, id LIMIT batch_size.                               *)
NextBatch == {e \in Selectable : Cardinality({f \in Selectable : f < e}) < BatchSize}

(* publish_batch opens its transaction and locks a batch.                  *)
SelectBatch(w) ==
  /\ wstate[w] = "idle"
  /\ Selectable # {}
  /\ batch' = [batch EXCEPT ![w] = NextBatch]
  /\ wstate' = [wstate EXCEPT ![w] = "publish"]
  /\ UNCHANGED <<outbox, marked, sending, awaiting, brokerVars, consumerVars, failures>>

(* exchange.publish sends the next row of the batch and waits for the      *)
(* broker's confirm.                                                       *)
Publish(w) ==
  /\ wstate[w] = "publish"
  /\ \E e \in batch[w] \ marked[w], k \in Copies :
       /\ \A f \in batch[w] \ marked[w] : e <= f
       /\ place[k] = "free"
       /\ msg' = [msg EXCEPT ![k] = e]
       /\ place' = [place EXCEPT ![k] = "wire"]
       /\ sending' = [sending EXCEPT ![w] = e]
       /\ awaiting' = [awaiting EXCEPT ![w] = k]
  /\ wstate' = [wstate EXCEPT ![w] = "await"]
  /\ UNCHANGED <<outbox, batch, marked, consumerVars, failures>>

(* Mutant: published_at is set without waiting for the confirm.            *)
MarkUnconfirmed(w) ==
  /\ wstate[w] = "await"
  /\ marked' = [marked EXCEPT ![w] = @ \cup {sending[w]}]
  /\ awaiting' = [awaiting EXCEPT ![w] = NoCopy]
  /\ sending' = [sending EXCEPT ![w] = NoEvent]
  /\ wstate' = [wstate EXCEPT ![w] = "publish"]
  /\ UNCHANGED <<outbox, batch, brokerVars, consumerVars, failures>>

(* The confirm has arrived: set published_at in the open transaction.      *)
Mark(w) ==
  /\ wstate[w] = "confirmed"
  /\ marked' = [marked EXCEPT ![w] = @ \cup {sending[w]}]
  /\ sending' = [sending EXCEPT ![w] = NoEvent]
  /\ wstate' = [wstate EXCEPT ![w] = "publish"]
  /\ UNCHANGED <<outbox, batch, awaiting, brokerVars, consumerVars, failures>>

(* Every row of the batch is marked: commit, which unlocks the rows.       *)
CommitBatch(w) ==
  /\ wstate[w] = "publish"
  /\ marked[w] = batch[w]
  /\ outbox' = [e \in Events |-> IF e \in marked[w] THEN "published" ELSE outbox[e]]
  /\ batch' = [batch EXCEPT ![w] = {}]
  /\ marked' = [marked EXCEPT ![w] = {}]
  /\ wstate' = [wstate EXCEPT ![w] = "idle"]
  /\ UNCHANGED <<sending, awaiting, brokerVars, consumerVars, failures>>

(* Mutant: the session, with its markers, outlives the rolled-back batch.  *)
RollbackKeepsMarks(w) ==
  /\ batch' = [batch EXCEPT ![w] = {}]
  /\ sending' = [sending EXCEPT ![w] = NoEvent]
  /\ awaiting' = [awaiting EXCEPT ![w] = NoCopy]
  /\ wstate' = [wstate EXCEPT ![w] = "down"]
  /\ UNCHANGED <<outbox, marked, brokerVars, consumerVars>>

(* The transaction of worker w is rolled back and the worker starts over.  *)
Rollback(w) ==
  /\ batch' = [batch EXCEPT ![w] = {}]
  /\ marked' = [marked EXCEPT ![w] = {}]
  /\ sending' = [sending EXCEPT ![w] = NoEvent]
  /\ awaiting' = [awaiting EXCEPT ![w] = NoCopy]
  /\ wstate' = [wstate EXCEPT ![w] = "down"]
  /\ UNCHANGED <<outbox, brokerVars, consumerVars>>

(* Crash, publish error, or database error (a commit that fails too).      *)
AbortBatch(w) == wstate[w] # "down" /\ Failure /\ Rollback(w)

(* Mutant: publish() is called without a timeout.                          *)
WaitForever(w) == wstate[w] = "await" /\ awaiting[w] = NoCopy /\ UNCHANGED vars

(* publish(timeout=10) gives up on a confirm that will never come.         *)
PublishTimeout(w) ==
  /\ wstate[w] = "await"
  /\ awaiting[w] = NoCopy
  /\ Rollback(w)
  /\ UNCHANGED failures

-----------------------------------------------------------------------------
(* The network and the broker.                                             *)

(* The broker stores a persistent message in the queue and confirms it.    *)
(* The publisher may have stopped waiting by then.                         *)
Accept(k) ==
  /\ place[k] = "wire"
  /\ place' = [place EXCEPT ![k] = "queue"]
  /\ wstate' = [w \in Workers |-> IF awaiting[w] = k THEN "confirmed" ELSE wstate[w]]
  /\ awaiting' = [w \in Workers |-> IF awaiting[w] = k THEN NoCopy ELSE awaiting[w]]
  /\ UNCHANGED <<outbox, batch, marked, sending, msg, consumerVars, failures>>

(* A message is lost before the broker stored it.                          *)
LoseOnWire(k) ==
  /\ place[k] = "wire"
  /\ Failure
  /\ place' = [place EXCEPT ![k] = "free"]
  /\ msg' = [msg EXCEPT ![k] = NoEvent]
  /\ awaiting' = [w \in Workers |-> IF awaiting[w] = k THEN NoCopy ELSE awaiting[w]]
  /\ UNCHANGED <<outbox, wstate, batch, marked, sending, consumerVars>>

(* Somebody else (a newer schema version) puts an invalid body in the queue. *)
PublishMalformed(m, k) ==
  /\ \A i \in Copies : msg[i] # m
  /\ place[k] = "free"
  /\ msg' = [msg EXCEPT ![k] = m]
  /\ place' = [place EXCEPT ![k] = "queue"]
  /\ UNCHANGED <<outbox, workerVars, consumerVars, failures>>

(* The broker pushes a ready message to a consumer, up to its prefetch.    *)
Deliver(c, k) ==
  /\ cstate[c] # "down"
  /\ place[k] = "queue"
  /\ Cardinality({i \in Copies : place[i] = c}) < Prefetch
  /\ place' = [place EXCEPT ![k] = c]
  /\ UNCHANGED <<outbox, workerVars, msg, consumerVars, failures>>

(* The broker puts back every unacknowledged message of consumer c.        *)
Requeued(c) == [k \in Copies |-> IF place[k] = c THEN "queue" ELSE place[k]]

-----------------------------------------------------------------------------
(* The consumer.                                                           *)

(* consume(): connect, open the channel, declare the topology, iterate.    *)
Subscribe(c) ==
  /\ cstate[c] = "down"
  /\ cstate' = [cstate EXCEPT ![c] = "idle"]
  /\ UNCHANGED <<outbox, workerVars, brokerVars, event, tag, notified, failures>>

(* Mutant: an invalid message is rejected with requeue=True.               *)
RejectRequeues(c, k) ==
  /\ cstate[c] = "idle"
  /\ place[k] = c
  /\ msg[k] \in Malformed
  /\ place' = [place EXCEPT ![k] = "queue"]
  /\ UNCHANGED <<outbox, workerVars, msg, consumerVars, failures>>

(* process_message: the body does not validate, reject(requeue=False).     *)
RejectMalformed(c, k) ==
  /\ cstate[c] = "idle"
  /\ place[k] = c
  /\ msg[k] \in Malformed
  /\ place' = [place EXCEPT ![k] = "dead"]
  /\ UNCHANGED <<outbox, workerVars, msg, consumerVars, failures>>

(* Mutant: the channel consumes with no_ack, so delivery acknowledges.     *)
HandleAcknowledged(c, k) ==
  /\ cstate[c] = "idle"
  /\ place[k] = c
  /\ msg[k] \in Events
  /\ cstate' = [cstate EXCEPT ![c] = "handle"]
  /\ event' = [event EXCEPT ![c] = msg[k]]
  /\ place' = [place EXCEPT ![k] = "free"]
  /\ msg' = [msg EXCEPT ![k] = NoEvent]
  /\ UNCHANGED <<outbox, workerVars, tag, notified, failures>>

(* process_message: a valid event is handed to SendNotificationFunction.   *)
Handle(c, k) ==
  /\ cstate[c] = "idle"
  /\ place[k] = c
  /\ msg[k] \in Events
  /\ cstate' = [cstate EXCEPT ![c] = "handle"]
  /\ event' = [event EXCEPT ![c] = msg[k]]
  /\ tag' = [tag EXCEPT ![c] = k]
  /\ UNCHANGED <<outbox, workerVars, brokerVars, notified, failures>>

(* Mutant: the notifications table has no key on event_id.                 *)
SaveAlways(c) ==
  /\ cstate[c] = "handle"
  /\ notified' = [notified EXCEPT ![event[c]] = @ + 1]
  /\ cstate' = [cstate EXCEPT ![c] = "ack"]
  /\ UNCHANGED <<outbox, workerVars, brokerVars, event, tag, failures>>

(* Mutant: the IntegrityError of a duplicate counts as a storage failure.  *)
DuplicateRaises(c) ==
  /\ cstate[c] = "handle"
  /\ notified' = [notified EXCEPT ![event[c]] = 1]
  /\ cstate' = [cstate EXCEPT ![c] = IF notified[event[c]] = 0 THEN "ack" ELSE "nack"]
  /\ UNCHANGED <<outbox, workerVars, brokerVars, event, tag, failures>>

(* save_once: the insert commits, or the primary key says the event is     *)
(* there already; both end in an acknowledgement.                          *)
SaveOnce(c) ==
  /\ cstate[c] = "handle"
  /\ notified' = IF notified[event[c]] = 0 THEN [notified EXCEPT ![event[c]] = 1]
                                             ELSE notified
  /\ cstate' = [cstate EXCEPT ![c] = "ack"]
  /\ UNCHANGED <<outbox, workerVars, brokerVars, event, tag, failures>>

(* save_once raises.  The commit may have reached the database (inserted)  *)
(* although its answer was lost.                                           *)
StorageFails(c, inserted) ==
  /\ cstate[c] = "handle"
  /\ Failure
  /\ inserted => notified[event[c]] = 0
  /\ notified' = IF inserted THEN [notified EXCEPT ![event[c]] = 1] ELSE notified
  /\ cstate' = [cstate EXCEPT ![c] = "nack"]
  /\ UNCHANGED <<outbox, workerVars, brokerVars, event, tag>>

(* The message is answered and process_message returns.                    *)
Answered(c) ==
  /\ cstate' = [cstate EXCEPT ![c] = "idle"]
  /\ event' = [event EXCEPT ![c] = NoEvent]
  /\ tag' = [tag EXCEPT ![c] = NoCopy]
  /\ UNCHANGED <<outbox, workerVars, notified, failures>>

Ack(c) ==
  /\ cstate[c] = "ack"
  /\ tag[c] # NoCopy
  /\ place' = [place EXCEPT ![tag[c]] = "free"]
  /\ msg' = [msg EXCEPT ![tag[c]] = NoEvent]
  /\ Answered(c)

(* Mutant: a storage failure is answered with nack(requeue=False).         *)
NackDeadLetters(c) ==
  /\ cstate[c] = "nack"
  /\ tag[c] # NoCopy
  /\ place' = [place EXCEPT ![tag[c]] = "dead"]
  /\ Answered(c)
  /\ UNCHANGED msg

(* After the two-second pause, nack(requeue=True).                         *)
Nack(c) ==
  /\ cstate[c] = "nack"
  /\ tag[c] # NoCopy
  /\ place' = [place EXCEPT ![tag[c]] = "queue"]
  /\ Answered(c)
  /\ UNCHANGED msg

(* consume() leaves its connection: whatever it had prefetched goes back.  *)
Disconnect(c) ==
  /\ place' = Requeued(c)
  /\ cstate' = [cstate EXCEPT ![c] = "down"]
  /\ event' = [event EXCEPT ![c] = NoEvent]
  /\ tag' = [tag EXCEPT ![c] = NoCopy]
  /\ UNCHANGED <<outbox, workerVars, msg, notified>>

(* The answer to a message whose connection is gone raises, and consume()  *)
(* starts over.                                                            *)
AnswerFails(c) ==
  /\ cstate[c] \in {"ack", "nack"}
  /\ tag[c] = NoCopy
  /\ Disconnect(c)
  /\ UNCHANGED failures

(* The connection drops under a handler, which goes on with its database   *)
(* work while the broker redelivers the message.                           *)
LoseConnection(c) ==
  /\ cstate[c] \in {"handle", "ack", "nack"}
  /\ tag[c] # NoCopy
  /\ Failure
  /\ place' = Requeued(c)
  /\ tag' = [tag EXCEPT ![c] = NoCopy]
  /\ UNCHANGED <<outbox, workerVars, msg, cstate, event, notified>>

(* The process dies, or the connection drops between two messages.         *)
CrashConsumer(c) == cstate[c] # "down" /\ Failure /\ Disconnect(c)

-----------------------------------------------------------------------------
WorkerNext(w) ==
  \/ Connect(w) \/ SelectBatch(w) \/ Publish(w) \/ Mark(w) \/ CommitBatch(w)
  \/ AbortBatch(w) \/ PublishTimeout(w)

BrokerNext(k) ==
  \/ Accept(k) \/ LoseOnWire(k)
  \/ \E m \in Malformed : PublishMalformed(m, k)
  \/ \E c \in Consumers : Deliver(c, k)

ConsumerNext(c) ==
  \/ Subscribe(c) \/ SaveOnce(c) \/ Ack(c) \/ Nack(c) \/ AnswerFails(c)
  \/ LoseConnection(c) \/ CrashConsumer(c)
  \/ \E k \in Copies : RejectMalformed(c, k) \/ Handle(c, k)
  \/ \E inserted \in BOOLEAN : StorageFails(c, inserted)

(* Nothing left to publish or consume: workers poll, consumers wait.       *)
AtRest ==
  /\ \A e \in Events : outbox[e] = "published"
  /\ \A k \in Copies : place[k] \in {"free", "dead"}
  /\ \A w \in Workers : wstate[w] = "idle"
  /\ \A c \in Consumers : cstate[c] = "idle"
  /\ UNCHANGED vars

Next ==
  \/ \E e \in Events : CommitCreate(e)
  \/ \E w \in Workers : WorkerNext(w)
  \/ \E k \in Copies : BrokerNext(k)
  \/ \E c \in Consumers : ConsumerNext(c)
  \/ AtRest

SafeSpec == Init /\ [][Next]_vars

(* Both loops retry for ever, the processes are restarted, TCP delivers or *)
(* breaks, and the broker serves its queue; failures and creations are not *)
(* obliged to happen.                                                      *)
Fairness ==
  /\ \A w \in Workers :
       WF_vars(Connect(w) \/ SelectBatch(w) \/ Publish(w) \/ Mark(w)
               \/ CommitBatch(w) \/ PublishTimeout(w))
  /\ \A k \in Copies :
       /\ WF_vars(Accept(k))
       /\ WF_vars(\E c \in Consumers : Deliver(c, k))
  /\ \A c \in Consumers :
       WF_vars(\/ Subscribe(c) \/ SaveOnce(c) \/ Ack(c) \/ Nack(c) \/ AnswerFails(c)
               \/ \E k \in Copies : RejectMalformed(c, k) \/ Handle(c, k))

Spec == SafeSpec /\ Fairness

-----------------------------------------------------------------------------
(* Types, and the shape of publish_batch: rows are locked only while its   *)
(* transaction is open, the row sent and the rows marked are locked rows,  *)
(* and a confirm is awaited only inside publish.                           *)
TypeOK ==
  /\ outbox \in [Events -> {"absent", "pending", "published"}]
  /\ wstate \in [Workers -> {"down", "idle", "publish", "await", "confirmed"}]
  /\ batch \in [Workers -> SUBSET Events]
  /\ marked \in [Workers -> SUBSET Events]
  /\ sending \in [Workers -> Events \cup {NoEvent}]
  /\ awaiting \in [Workers -> Copies \cup {NoCopy}]
  /\ msg \in [Copies -> Messages \cup {NoEvent}]
  /\ place \in [Copies -> Places]
  /\ cstate \in [Consumers -> {"down", "idle", "handle", "ack", "nack"}]
  /\ event \in [Consumers -> Events \cup {NoEvent}]
  /\ tag \in [Consumers -> Copies \cup {NoCopy}]
  /\ notified \in [Events -> Nat]
  /\ failures \in 0..MaxFailures
  /\ \A w \in Workers :
       /\ wstate[w] \in {"down", "idle"} => batch[w] = {}
       /\ wstate[w] \in {"await", "confirmed"} => sending[w] \in batch[w]
       /\ marked[w] \subseteq batch[w]
       /\ awaiting[w] # NoCopy => wstate[w] = "await"

(* Event e is safe: notified already, or the broker still holds a copy     *)
(* that it will deliver (again) until somebody acknowledges it.            *)
Held(e) == \/ notified[e] > 0
           \/ \E k \in Copies : msg[k] = e /\ place[k] \in {"queue"} \cup Consumers

(* "Confirms precede the marker. Crash => redelivery, never silent loss"   *)
(* (outbox_worker.py:41): a row marked published, in the table or in an    *)
(* open transaction, has its notification or a copy on its way.            *)
NoSilentLoss ==
  /\ \A e \in Events : outbox[e] = "published" => Held(e)
  /\ \A w \in Workers : \A e \in marked[w] : Held(e)

(* Workers hold disjoint batches of rows that are still unpublished, so    *)
(* FOR UPDATE SKIP LOCKED keeps a published row from going out again.      *)
BatchesAreExclusive ==
  /\ \A w \in Workers : \A e \in batch[w] : outbox[e] = "pending"
  /\ \A v, w \in Workers : v # w => batch[v] \cap batch[w] = {}

(* Redelivery never makes a second notification (save_once).               *)
AtMostOneNotification == \A e \in Events : notified[e] <= 1

(* Only committed itineraries are published, hence notified: nothing the   *)
(* service rolled back ever leaves it.                                     *)
OnlyCommittedLeave ==
  /\ \A k \in Copies : msg[k] \in Events => outbox[msg[k]] # "absent"
  /\ \A e \in Events : notified[e] > 0 => outbox[e] # "absent"

(* notifications.dead receives invalid messages only: a storage failure    *)
(* requeues the event however often it strikes.                            *)
OnlyInvalidIsDead == \A k \in Copies : place[k] = "dead" => msg[k] \in Malformed

(* "Commit is complete before acknowledgment" (consumer.py:41): a copy a   *)
(* consumer holds leaves the broker only when its event is notified.       *)
AckAfterCommit ==
  [][\A k \in Copies :
       place[k] \in Consumers /\ place'[k] = "free" => notified[msg[k]] > 0]_vars

(* Every committed event is marked published in the end.                   *)
EveryRowPublished == \A e \in Events : outbox[e] = "pending" ~> outbox[e] = "published"

(* An invalid message neither blocks the queue nor circulates for ever.    *)
MalformedIsDeadLettered ==
  \A k \in Copies : (place[k] = "queue" /\ msg[k] \in Malformed) ~> place[k] = "dead"

(* Duplicates are consumed: when failures stop the queue runs dry.         *)
QueueDrains == []<>(\A k \in Copies : place[k] \in {"free", "dead"})

(* The contract, on the committed rows and the notifications table: what   *)
(* is committed is notified in the end, once, and nothing else is, whoever *)
(* crashes and whatever is redelivered.                                    *)
Contract == INSTANCE NotifyContract WITH
              committed <- {e \in Events : outbox[e] # "absent"},
              delivered <- {e \in Events : notified[e] > 0}
ContractSpec == Contract!Spec
=============================================================================
