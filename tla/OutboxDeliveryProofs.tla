------------------------ MODULE OutboxDeliveryProofs ------------------------
(***************************************************************************)
(* Proofs about OutboxDelivery, for any number of events, workers,         *)
(* consumers and copies, any batch and prefetch size, any failure budget.  *)
(*                                                                         *)
(* The argument rests on one fact, HeldStable: no step takes away both the *)
(* notification of an event and the last copy the broker holds of it.  The *)
(* inductive invariant Inv says who relies on it: a worker between confirm *)
(* and commit, and a row already marked published.                         *)
(***************************************************************************)
EXTENDS OutboxDelivery, TLAPS

(* Consumer states in which process_message is handling an event.          *)
Handling == {"handle", "ack", "nack"}

(* The events that can no longer be lost.                                  *)
HeldEvents == {e \in Events : Held(e)}

(* What a worker knows.  A confirmed row is Held; an awaited copy is still *)
(* in the socket and carries the row being sent.                           *)
WorkerInv ==
  \A w \in Workers :
    /\ \A e \in batch[w] : outbox[e] = "pending"
    /\ \A v \in Workers : v # w => batch[v] \cap batch[w] = {}
    /\ marked[w] \subseteq HeldEvents
    /\ wstate[w] = "confirmed" => sending[w] \in HeldEvents
    /\ awaiting[w] # NoCopy => /\ place[awaiting[w]] = "wire"
                               /\ msg[awaiting[w]] = sending[w]

(* What a copy may carry, and where.                                       *)
CopyInv ==
  \A k \in Copies :
    /\ msg[k] \in Events => outbox[msg[k]] # "absent"
    /\ place[k] = "dead" => msg[k] \in Malformed

(* What a consumer knows.  It acknowledges committed notifications only,   *)
(* and a tag it may still answer is a copy the broker counts as delivered  *)
(* to it.                                                                  *)
ConsumerOK(c) ==
  /\ cstate[c] \in Handling => /\ event[c] \in Events
                               /\ outbox[event[c]] # "absent"
  /\ cstate[c] = "ack" => notified[event[c]] > 0
  /\ tag[c] # NoCopy => /\ cstate[c] \in Handling
                        /\ place[tag[c]] = c
                        /\ msg[tag[c]] = event[c]
ConsumerInv == \A c \in Consumers : ConsumerOK(c)

(* What a row and a notification mean.                                     *)
RowInv ==
  \A e \in Events :
    /\ outbox[e] = "published" => e \in HeldEvents
    /\ notified[e] <= 1
    /\ notified[e] > 0 => outbox[e] # "absent"

Inv == TypeOK /\ WorkerInv /\ CopyInv /\ ConsumerInv /\ RowInv

USE EventsAssumption, MessagesAssumption, CopiesAssumption, PlacesAssumption,
    BoundsAssumption

-----------------------------------------------------------------------------
(* Types are preserved by every action.                                    *)
LEMMA TypeStep == TypeOK /\ [Next]_vars => TypeOK'
<1> SUFFICES ASSUME TypeOK, [Next]_vars PROVE TypeOK'
  OBVIOUS
<1> USE DEF TypeOK, Messages, Places, workerVars, brokerVars, consumerVars
<1>1. ASSUME NEW e \in Events, CommitCreate(e) PROVE TypeOK'
  BY <1>1 DEF CommitCreate
<1>2. ASSUME NEW w \in Workers, WorkerNext(w) PROVE TypeOK'
  <2>1. CASE Connect(w)
    BY <2>1 DEF Connect
  <2>2. CASE SelectBatch(w)
    <3>1. NextBatch \subseteq Events
      BY DEF NextBatch, Selectable
    <3> QED BY <2>2, <3>1 DEF SelectBatch
  <2>3. CASE Publish(w)
    BY <2>3 DEF Publish
  <2>4. CASE Mark(w)
    BY <2>4 DEF Mark
  <2>5. CASE CommitBatch(w)
    BY <2>5 DEF CommitBatch
  <2>6. CASE AbortBatch(w)
    BY <2>6 DEF AbortBatch, Rollback, Failure
  <2>7. CASE PublishTimeout(w)
    BY <2>7 DEF PublishTimeout, Rollback
  <2> QED BY <1>2, <2>1, <2>2, <2>3, <2>4, <2>5, <2>6, <2>7 DEF WorkerNext
<1>3. ASSUME NEW k \in Copies, BrokerNext(k) PROVE TypeOK'
  <2>1. CASE Accept(k)
    BY <2>1 DEF Accept
  <2>2. CASE LoseOnWire(k)
    BY <2>2 DEF LoseOnWire, Failure
  <2>3. ASSUME NEW m \in Malformed, PublishMalformed(m, k) PROVE TypeOK'
    BY <2>3 DEF PublishMalformed
  <2>4. ASSUME NEW c \in Consumers, Deliver(c, k) PROVE TypeOK'
    BY <2>4 DEF Deliver
  <2> QED BY <1>3, <2>1, <2>2, <2>3, <2>4 DEF BrokerNext
<1>4. ASSUME NEW c \in Consumers, ConsumerNext(c) PROVE TypeOK'
  <2>1. CASE Subscribe(c)
    BY <2>1 DEF Subscribe
  <2>2. CASE SaveOnce(c)
    BY <2>2 DEF SaveOnce
  <2>3. CASE Ack(c)
    BY <2>3 DEF Ack, Answered
  <2>4. CASE Nack(c)
    BY <2>4 DEF Nack, Answered
  <2>5. CASE AnswerFails(c)
    BY <2>5 DEF AnswerFails, Disconnect, Requeued
  <2>6. CASE LoseConnection(c)
    BY <2>6 DEF LoseConnection, Failure, Requeued
  <2>7. CASE CrashConsumer(c)
    BY <2>7 DEF CrashConsumer, Failure, Disconnect, Requeued
  <2>8. ASSUME NEW k \in Copies, RejectMalformed(c, k) PROVE TypeOK'
    BY <2>8 DEF RejectMalformed
  <2>9. ASSUME NEW k \in Copies, Handle(c, k) PROVE TypeOK'
    BY <2>9 DEF Handle
  <2>10. ASSUME NEW inserted \in BOOLEAN, StorageFails(c, inserted) PROVE TypeOK'
    <3>1. \/ notified' = [notified EXCEPT ![event[c]] = 1]
          \/ notified' = notified
      <4>1. CASE inserted
        BY <2>10, <4>1 DEF StorageFails
      <4>2. CASE ~inserted
        BY <2>10, <4>2 DEF StorageFails
      <4> QED BY <4>1, <4>2
    <3>2. /\ cstate' = [cstate EXCEPT ![c] = "nack"]
          /\ failures < MaxFailures /\ failures' = failures + 1
          /\ UNCHANGED <<outbox, workerVars, brokerVars, event, tag>>
      BY <2>10 DEF StorageFails, Failure
    <3> QED BY <3>1, <3>2
  <2> QED BY <1>4, <2>1, <2>2, <2>3, <2>4, <2>5, <2>6, <2>7, <2>8, <2>9, <2>10
          DEF ConsumerNext
<1>5. CASE AtRest \/ UNCHANGED vars
  BY <1>5 DEF AtRest, vars
<1> QED BY <1>1, <1>2, <1>3, <1>4, <1>5 DEF Next

(* Every reachable state is well typed.                                    *)
THEOREM TypeCorrect == SafeSpec => []TypeOK
<1>1. Init => TypeOK
  BY DEF Init, TypeOK, Messages, Places
<1> QED BY <1>1, TypeStep, PTL DEF SafeSpec

-----------------------------------------------------------------------------
(* The heart of the matter: nothing that happens to a held event makes the *)
(* system forget it.  Only Ack removes a delivered copy, and then the      *)
(* event of that copy is notified.                                         *)
LEMMA HeldStable ==
  ASSUME TypeOK, ConsumerInv, [Next]_vars
  PROVE  HeldEvents \subseteq HeldEvents'
<1> SUFFICES ASSUME NEW e \in Events, Held(e) PROVE Held(e)'
  BY DEF HeldEvents
<1> DEFINE Holds(k) == msg[k] = e /\ place[k] \in {"queue"} \cup Consumers
           Kept == /\ notified[e] > 0 => notified'[e] > 0
                   /\ \A k \in Copies : Holds(k) => Holds(k)' \/ notified'[e] > 0
<1> SUFFICES Kept
  BY DEF Held
<1> USE DEF TypeOK, workerVars, brokerVars, consumerVars
<1>1. ASSUME NEW x \in Events, CommitCreate(x) PROVE Kept
  BY <1>1 DEF CommitCreate
<1>2. ASSUME NEW w \in Workers, WorkerNext(w) PROVE Kept
  <2>1. CASE Publish(w)
    BY <2>1 DEF Publish
  <2> QED BY <1>2, <2>1 DEF WorkerNext, Connect, SelectBatch, Mark, CommitBatch,
                            AbortBatch, PublishTimeout, Rollback
<1>3. ASSUME NEW k \in Copies, BrokerNext(k) PROVE Kept
  <2>1. CASE Accept(k)
    BY <2>1 DEF Accept
  <2>2. CASE LoseOnWire(k)
    BY <2>2 DEF LoseOnWire
  <2>3. ASSUME NEW m \in Malformed, PublishMalformed(m, k) PROVE Kept
    BY <2>3 DEF PublishMalformed
  <2>4. ASSUME NEW c \in Consumers, Deliver(c, k) PROVE Kept
    BY <2>4 DEF Deliver
  <2> QED BY <1>3, <2>1, <2>2, <2>3, <2>4 DEF BrokerNext
<1>4. ASSUME NEW c \in Consumers, ConsumerNext(c) PROVE Kept
  <2>1. CASE Subscribe(c)
    BY <2>1 DEF Subscribe
  <2>2. CASE SaveOnce(c)
    BY <2>2 DEF SaveOnce
  <2>3. CASE Ack(c)
    BY <2>3 DEF Ack, Answered, ConsumerInv, ConsumerOK, Handling
  <2>4. CASE Nack(c)
    BY <2>4 DEF Nack, Answered, ConsumerInv, ConsumerOK, Handling
  <2>5. CASE AnswerFails(c)
    BY <2>5 DEF AnswerFails, Disconnect, Requeued
  <2>6. CASE LoseConnection(c)
    BY <2>6 DEF LoseConnection, Requeued
  <2>7. CASE CrashConsumer(c)
    BY <2>7 DEF CrashConsumer, Disconnect, Requeued
  <2>8. ASSUME NEW k \in Copies, RejectMalformed(c, k) PROVE Kept
    BY <2>8 DEF RejectMalformed
  <2>9. ASSUME NEW k \in Copies, Handle(c, k) PROVE Kept
    BY <2>9 DEF Handle
  <2>10. ASSUME NEW inserted \in BOOLEAN, StorageFails(c, inserted) PROVE Kept
    <3>1. \/ notified' = [notified EXCEPT ![event[c]] = 1]
          \/ notified' = notified
      <4>1. CASE inserted
        BY <2>10, <4>1 DEF StorageFails
      <4>2. CASE ~inserted
        BY <2>10, <4>2 DEF StorageFails
      <4> QED BY <4>1, <4>2
    <3>2. UNCHANGED brokerVars
      BY <2>10 DEF StorageFails
    <3> QED BY <3>1, <3>2
  <2> QED BY <1>4, <2>1, <2>2, <2>3, <2>4, <2>5, <2>6, <2>7, <2>8, <2>9, <2>10
          DEF ConsumerNext
<1>5. CASE AtRest \/ UNCHANGED vars
  BY <1>5 DEF AtRest, vars
<1> QED BY <1>1, <1>2, <1>3, <1>4, <1>5 DEF Next

(* Batches are disjoint sets of pending rows, marked rows are held, and an *)
(* awaited copy is the one its worker sent.                                *)
LEMMA WorkerStep == Inv /\ [Next]_vars => WorkerInv'
<1> SUFFICES ASSUME Inv, [Next]_vars PROVE WorkerInv'
  OBVIOUS
<1> USE DEF Inv, TypeOK, WorkerInv, workerVars, brokerVars, consumerVars
<1>H. HeldEvents \subseteq HeldEvents'
  BY HeldStable
<1>1. ASSUME NEW x \in Events, CommitCreate(x) PROVE WorkerInv'
  BY <1>1, <1>H DEF CommitCreate
<1>2. ASSUME NEW w \in Workers, WorkerNext(w) PROVE WorkerInv'
  <2>1. CASE Connect(w)
    BY <2>1, <1>H DEF Connect
  <2>2. CASE SelectBatch(w)
    BY <2>2, <1>H DEF SelectBatch, NextBatch, Selectable
  <2>3. CASE Publish(w)
    BY <2>3, <1>H DEF Publish
  <2>4. CASE Mark(w)
    BY <2>4, <1>H DEF Mark
  <2>5. CASE CommitBatch(w)
    BY <2>5, <1>H DEF CommitBatch
  <2>6. CASE AbortBatch(w)
    BY <2>6, <1>H DEF AbortBatch, Rollback
  <2>7. CASE PublishTimeout(w)
    BY <2>7, <1>H DEF PublishTimeout, Rollback
  <2> QED BY <1>2, <2>1, <2>2, <2>3, <2>4, <2>5, <2>6, <2>7 DEF WorkerNext
<1>3. ASSUME NEW k \in Copies, BrokerNext(k) PROVE WorkerInv'
  <2>1. CASE Accept(k)
    <3>1. \A w \in Workers : awaiting[w] = k => sending[w] \in HeldEvents'
      BY <2>1 DEF Accept, HeldEvents, Held
    <3> QED BY <2>1, <3>1, <1>H DEF Accept
  <2>2. CASE LoseOnWire(k)
    BY <2>2, <1>H DEF LoseOnWire
  <2>3. ASSUME NEW m \in Malformed, PublishMalformed(m, k) PROVE WorkerInv'
    BY <2>3, <1>H DEF PublishMalformed
  <2>4. ASSUME NEW c \in Consumers, Deliver(c, k) PROVE WorkerInv'
    BY <2>4, <1>H DEF Deliver
  <2> QED BY <1>3, <2>1, <2>2, <2>3, <2>4 DEF BrokerNext
<1>4. ASSUME NEW c \in Consumers, ConsumerNext(c) PROVE WorkerInv'
  <2>1. ASSUME UNCHANGED <<outbox, workerVars>>,
               \A k \in Copies : place[k] = "wire" => place'[k] = "wire" /\ msg'[k] = msg[k]
        PROVE  WorkerInv'
    BY <2>1, <1>H
  <2>2. CASE Ack(c)
    BY <2>1, <2>2 DEF Ack, Answered, ConsumerInv, ConsumerOK, Handling
  <2>3. CASE Nack(c)
    BY <2>1, <2>3 DEF Nack, Answered, ConsumerInv, ConsumerOK, Handling
  <2>4. CASE AnswerFails(c) \/ CrashConsumer(c)
    BY <2>1, <2>4 DEF AnswerFails, CrashConsumer, Disconnect, Requeued
  <2>5. CASE LoseConnection(c)
    <3>1. /\ UNCHANGED <<outbox, workerVars, msg>>
          /\ place' = Requeued(c)
      BY <2>5 DEF LoseConnection
    <3>2. \A k \in Copies : place[k] = "wire" => place'[k] = "wire" /\ msg'[k] = msg[k]
      BY <3>1 DEF Requeued
    <3> QED BY <2>1, <3>1, <3>2
  <2>6. ASSUME NEW k \in Copies, RejectMalformed(c, k) PROVE WorkerInv'
    BY <2>1, <2>6 DEF RejectMalformed
  <2>7. ASSUME UNCHANGED <<outbox, workerVars, brokerVars>> PROVE WorkerInv'
    BY <2>1, <2>7
  <2> QED BY <1>4, <2>2, <2>3, <2>4, <2>5, <2>6, <2>7
          DEF ConsumerNext, Subscribe, SaveOnce, Handle, StorageFails
<1>5. CASE AtRest \/ UNCHANGED vars
  <2>1. UNCHANGED <<outbox, workerVars, brokerVars>>
    BY <1>5 DEF AtRest, vars
  <2> QED BY <2>1, <1>H
<1> QED BY <1>1, <1>2, <1>3, <1>4, <1>5 DEF Next

(* Copies carry committed events, and only invalid ones are dead-lettered. *)
LEMMA CopyStep == Inv /\ [Next]_vars => CopyInv'
<1> SUFFICES ASSUME Inv, [Next]_vars PROVE CopyInv'
  OBVIOUS
<1> USE DEF Inv, TypeOK, CopyInv, workerVars, brokerVars, consumerVars
<1>1. ASSUME NEW e \in Events, CommitCreate(e) PROVE CopyInv'
  BY <1>1 DEF CommitCreate
<1>2. ASSUME NEW w \in Workers, WorkerNext(w) PROVE CopyInv'
  <2>1. CASE Publish(w)
    BY <2>1 DEF Publish, WorkerInv
  <2>2. CASE CommitBatch(w)
    BY <2>2 DEF CommitBatch
  <2> QED BY <1>2, <2>1, <2>2 DEF WorkerNext, Connect, SelectBatch, Mark,
                                  AbortBatch, PublishTimeout, Rollback
<1>3. ASSUME NEW k \in Copies, BrokerNext(k) PROVE CopyInv'
  <2>1. CASE Accept(k)
    BY <2>1 DEF Accept
  <2>2. CASE LoseOnWire(k)
    BY <2>2 DEF LoseOnWire
  <2>3. ASSUME NEW m \in Malformed, PublishMalformed(m, k) PROVE CopyInv'
    BY <2>3 DEF PublishMalformed
  <2>4. ASSUME NEW c \in Consumers, Deliver(c, k) PROVE CopyInv'
    BY <2>4 DEF Deliver
  <2> QED BY <1>3, <2>1, <2>2, <2>3, <2>4 DEF BrokerNext
<1>4. ASSUME NEW c \in Consumers, ConsumerNext(c) PROVE CopyInv'
  <2>1. CASE Ack(c)
    BY <2>1 DEF Ack, Answered
  <2>2. CASE Nack(c)
    BY <2>2 DEF Nack, Answered
  <2>3. CASE AnswerFails(c) \/ CrashConsumer(c)
    BY <2>3 DEF AnswerFails, CrashConsumer, Disconnect, Requeued
  <2>4. CASE LoseConnection(c)
    BY <2>4 DEF LoseConnection, Requeued
  <2>5. ASSUME NEW k \in Copies, RejectMalformed(c, k) PROVE CopyInv'
    BY <2>5 DEF RejectMalformed
  <2>6. ASSUME UNCHANGED <<outbox, brokerVars>> PROVE CopyInv'
    BY <2>6
  <2> QED BY <1>4, <2>1, <2>2, <2>3, <2>4, <2>5, <2>6
          DEF ConsumerNext, Subscribe, SaveOnce, Handle, StorageFails
<1>5. CASE AtRest \/ UNCHANGED vars
  BY <1>5 DEF AtRest, vars
<1> QED BY <1>1, <1>2, <1>3, <1>4, <1>5 DEF Next

(* A consumer acknowledges committed notifications of its own deliveries.  *)
LEMMA ConsumerStep == Inv /\ [Next]_vars => ConsumerInv'
<1> SUFFICES ASSUME Inv, [Next]_vars, NEW d \in Consumers PROVE ConsumerOK(d)'
  BY DEF ConsumerInv
<1> USE DEF ConsumerOK, Handling, workerVars, brokerVars, consumerVars
<1>T. /\ TypeOK
      /\ ConsumerOK(d)
      /\ \A k \in Copies : msg[k] \in Events => outbox[msg[k]] # "absent"
  BY DEF Inv, ConsumerInv, CopyInv
(* A step that leaves what d knows, and the copies delivered to d, alone.   *)
<1>K. ASSUME cstate'[d] = cstate[d], event'[d] = event[d], tag'[d] = tag[d],
             \A e \in Events : /\ outbox[e] # "absent" => outbox'[e] # "absent"
                               /\ notified[e] > 0 => notified'[e] > 0,
             \A k \in Copies : place[k] = d => place'[k] = d /\ msg'[k] = msg[k]
      PROVE  ConsumerOK(d)'
  <2>1. ASSUME tag[d] # NoCopy PROVE place'[tag[d]] = d /\ msg'[tag[d]] = event[d]
    <3>1. tag[d] \in Copies /\ place[tag[d]] = d /\ msg[tag[d]] = event[d]
      BY <1>T, <2>1 DEF TypeOK
    <3> QED BY <1>K, <3>1
  <2>2. ASSUME cstate[d] \in Handling PROVE event[d] \in Events /\ outbox'[event[d]] # "absent"
    <3>1. event[d] \in Events /\ outbox[event[d]] # "absent"
      BY <1>T, <2>2
    <3> QED BY <1>K, <3>1
  <2>3. ASSUME cstate[d] = "ack" PROVE notified'[event[d]] > 0
    <3>1. event[d] \in Events /\ notified[event[d]] > 0
      BY <1>T, <2>3
    <3> QED BY <1>K, <3>1
  <2> QED BY <1>K, <1>T, <2>1, <2>2, <2>3
<1>1. ASSUME NEW e \in Events, CommitCreate(e) PROVE ConsumerOK(d)'
  BY <1>1, <1>K, <1>T DEF CommitCreate, TypeOK
<1>2. ASSUME NEW w \in Workers, WorkerNext(w) PROVE ConsumerOK(d)'
  <2>1. CASE Publish(w)
    BY <2>1, <1>K, <1>T DEF Publish, TypeOK
  <2>2. CASE CommitBatch(w)
    BY <2>2, <1>K, <1>T DEF CommitBatch, TypeOK
  <2>3. ASSUME UNCHANGED <<outbox, brokerVars, consumerVars>> PROVE ConsumerOK(d)'
    BY <2>3, <1>K
  <2> QED BY <1>2, <2>1, <2>2, <2>3 DEF WorkerNext, Connect, SelectBatch, Mark,
                                        AbortBatch, PublishTimeout, Rollback
<1>3. ASSUME NEW k \in Copies, BrokerNext(k) PROVE ConsumerOK(d)'
  <2>1. CASE Accept(k)
    BY <2>1, <1>K, <1>T DEF Accept, TypeOK
  <2>2. CASE LoseOnWire(k)
    BY <2>2, <1>K, <1>T DEF LoseOnWire, TypeOK
  <2>3. ASSUME NEW m \in Malformed, PublishMalformed(m, k) PROVE ConsumerOK(d)'
    BY <2>3, <1>K, <1>T DEF PublishMalformed, TypeOK
  <2>4. ASSUME NEW c \in Consumers, Deliver(c, k) PROVE ConsumerOK(d)'
    <3>1. \A i \in Copies : place[i] = d => i # k
      BY <2>4 DEF Deliver
    <3> QED BY <2>4, <3>1, <1>K, <1>T DEF Deliver, TypeOK
  <2> QED BY <1>3, <2>1, <2>2, <2>3, <2>4 DEF BrokerNext
<1>4. ASSUME NEW c \in Consumers, ConsumerNext(c) PROVE ConsumerOK(d)'
  <2>1. CASE Subscribe(c)
    <3>1. CASE d = c
      BY <2>1, <3>1, <1>T DEF Subscribe, TypeOK
    <3>2. CASE d # c
      BY <2>1, <3>2, <1>K, <1>T DEF Subscribe, TypeOK
    <3> QED BY <3>1, <3>2
  <2>2. CASE SaveOnce(c)
    <3>1. /\ UNCHANGED <<outbox, brokerVars, event, tag>>
          /\ cstate[c] = "handle" /\ cstate' = [cstate EXCEPT ![c] = "ack"]
      BY <2>2 DEF SaveOnce
    <3>4. \/ notified' = [notified EXCEPT ![event[c]] = 1]
          \/ notified' = notified /\ notified[event[c]] # 0
      BY <2>2 DEF SaveOnce
    <3>5. \A e \in Events : notified[e] > 0 \/ e = event[c] => notified'[e] > 0
      BY <3>4, <1>T DEF TypeOK
    <3>2. CASE d = c
      BY <3>1, <3>2, <3>5, <1>T DEF TypeOK
    <3>3. CASE d # c
      BY <3>1, <3>3, <3>5, <1>K, <1>T DEF TypeOK
    <3> QED BY <3>2, <3>3
  <2>3. CASE Ack(c)
    BY <2>3, <1>T DEF Ack, Answered, TypeOK, Inv, ConsumerInv
  <2>4. CASE Nack(c)
    BY <2>4, <1>T DEF Nack, Answered, TypeOK, Inv, ConsumerInv
  <2>5. CASE AnswerFails(c) \/ CrashConsumer(c)
    BY <2>5, <1>T DEF AnswerFails, CrashConsumer, Disconnect, Requeued, TypeOK
  <2>6. CASE LoseConnection(c)
    BY <2>6, <1>T DEF LoseConnection, Requeued, TypeOK
  <2>7. ASSUME NEW k \in Copies, RejectMalformed(c, k) PROVE ConsumerOK(d)'
    BY <2>7, <1>T DEF RejectMalformed, TypeOK
  <2>8. ASSUME NEW k \in Copies, Handle(c, k) PROVE ConsumerOK(d)'
    BY <2>8, <1>T DEF Handle, TypeOK
  <2>9. ASSUME NEW inserted \in BOOLEAN, StorageFails(c, inserted) PROVE ConsumerOK(d)'
    <3>1. CASE inserted
      BY <2>9, <3>1, <1>T DEF StorageFails, TypeOK
    <3>2. CASE ~inserted
      BY <2>9, <3>2, <1>T DEF StorageFails, TypeOK
    <3> QED BY <3>1, <3>2
  <2> QED BY <1>4, <2>1, <2>2, <2>3, <2>4, <2>5, <2>6, <2>7, <2>8, <2>9
          DEF ConsumerNext
<1>5. CASE AtRest \/ UNCHANGED vars
  BY <1>5, <1>K DEF AtRest, vars
<1> QED BY <1>1, <1>2, <1>3, <1>4, <1>5 DEF Next

(* A published row is held, and a notified one was committed.              *)
LEMMA RowStep == Inv /\ [Next]_vars => RowInv'
<1> SUFFICES ASSUME Inv, [Next]_vars PROVE RowInv'
  OBVIOUS
<1> USE DEF Inv, TypeOK, RowInv, workerVars, brokerVars, consumerVars
<1>H. HeldEvents \subseteq HeldEvents'
  BY HeldStable
<1>1. ASSUME NEW e \in Events, CommitCreate(e) PROVE RowInv'
  BY <1>1, <1>H DEF CommitCreate
<1>2. ASSUME NEW w \in Workers, WorkerNext(w) PROVE RowInv'
  <2>1. CASE CommitBatch(w)
    BY <2>1, <1>H DEF CommitBatch, WorkerInv
  <2>2. ASSUME UNCHANGED <<outbox, notified>> PROVE RowInv'
    BY <2>2, <1>H
  <2> QED BY <1>2, <2>1, <2>2 DEF WorkerNext, Connect, SelectBatch, Publish, Mark,
                                  AbortBatch, PublishTimeout, Rollback
<1>3. ASSUME NEW k \in Copies, BrokerNext(k) PROVE RowInv'
  <2>1. UNCHANGED <<outbox, notified>>
    BY <1>3 DEF BrokerNext, Accept, LoseOnWire, PublishMalformed, Deliver
  <2> QED BY <2>1, <1>H
<1>4. ASSUME NEW c \in Consumers, ConsumerNext(c) PROVE RowInv'
  <2>1. CASE SaveOnce(c)
    BY <2>1, <1>H DEF SaveOnce, ConsumerInv, ConsumerOK, Handling
  <2>2. ASSUME NEW inserted \in BOOLEAN, StorageFails(c, inserted) PROVE RowInv'
    <3>1. CASE inserted
      BY <2>2, <3>1, <1>H DEF StorageFails, ConsumerInv, ConsumerOK, Handling
    <3>2. CASE ~inserted
      BY <2>2, <3>2, <1>H DEF StorageFails
    <3> QED BY <3>1, <3>2
  <2>3. ASSUME UNCHANGED <<outbox, notified>> PROVE RowInv'
    BY <2>3, <1>H
  <2> QED BY <1>4, <2>1, <2>2, <2>3
          DEF ConsumerNext, Subscribe, Ack, Nack, Answered, AnswerFails, Disconnect,
              LoseConnection, CrashConsumer, RejectMalformed, Handle
<1>5. CASE AtRest \/ UNCHANGED vars
  <2>1. UNCHANGED <<outbox, notified>>
    BY <1>5 DEF AtRest, vars
  <2> QED BY <2>1, <1>H
<1> QED BY <1>1, <1>2, <1>3, <1>4, <1>5 DEF Next

(* Inv is inductive.                                                       *)
LEMMA InvInductive == /\ Init => Inv
                      /\ Inv /\ [Next]_vars => Inv'
<1>1. Init => Inv
  BY DEF Init, Inv, TypeOK, Messages, Places, WorkerInv, CopyInv, ConsumerInv,
         ConsumerOK, Handling, RowInv
<1>2. Inv /\ [Next]_vars => Inv'
  BY TypeStep, WorkerStep, CopyStep, ConsumerStep, RowStep DEF Inv
<1> QED BY <1>1, <1>2

LEMMA Invariance == SafeSpec => []Inv
  BY InvInductive, PTL DEF SafeSpec

-----------------------------------------------------------------------------
(* No itinerary event is lost: a row marked published has its notification *)
(* or a copy that the broker will deliver.                                 *)
THEOREM PublishedIsNotLost == SafeSpec => []NoSilentLoss
<1>1. Inv => NoSilentLoss
  BY DEF Inv, TypeOK, WorkerInv, RowInv, NoSilentLoss, HeldEvents
<1> QED BY <1>1, Invariance, PTL

(* However many workers run, no row is in two batches, nor in any once it  *)
(* is published.                                                           *)
THEOREM WorkersDoNotShareRows == SafeSpec => []BatchesAreExclusive
<1>1. Inv => BatchesAreExclusive
  BY DEF Inv, WorkerInv, BatchesAreExclusive
<1> QED BY <1>1, Invariance, PTL

(* Redelivery and concurrent handlers never notify an event twice.         *)
THEOREM NotifiedOnce == SafeSpec => []AtMostOneNotification
<1>1. Inv => AtMostOneNotification
  BY DEF Inv, RowInv, AtMostOneNotification
<1> QED BY <1>1, Invariance, PTL

(* Nothing leaves the service before its itinerary is committed.           *)
THEOREM NothingUncommittedLeaves == SafeSpec => []OnlyCommittedLeave
<1>1. Inv => OnlyCommittedLeave
  BY DEF Inv, CopyInv, RowInv, OnlyCommittedLeave
<1> QED BY <1>1, Invariance, PTL

(* A valid event never ends in the dead-letter queue.                      *)
THEOREM ValidEventsAreNotDeadLettered == SafeSpec => []OnlyInvalidIsDead
<1>1. Inv => OnlyInvalidIsDead
  BY DEF Inv, CopyInv, OnlyInvalidIsDead
<1> QED BY <1>1, Invariance, PTL

(* A delivered copy is given up only when its event is notified.           *)
THEOREM AcknowledgedIsNotified == SafeSpec => AckAfterCommit
<1> DEFINE Acked == \A k \in Copies :
                      place[k] \in Consumers /\ place'[k] = "free" => notified[msg[k]] > 0
<1>1. Inv /\ [Next]_vars => [Acked]_vars
  <2> SUFFICES ASSUME Inv, Next PROVE Acked
    OBVIOUS
  <2> USE DEF workerVars, brokerVars, consumerVars
  <2>T. TypeOK /\ ConsumerInv
    BY DEF Inv
  <2>1. ASSUME NEW e \in Events, CommitCreate(e) PROVE Acked
    BY <2>1 DEF CommitCreate
  <2>2. ASSUME NEW w \in Workers, WorkerNext(w) PROVE Acked
    BY <2>2, <2>T DEF TypeOK, WorkerNext, Connect, SelectBatch, Publish, Mark, CommitBatch,
                      AbortBatch, PublishTimeout, Rollback
  <2>3. ASSUME NEW k \in Copies, BrokerNext(k) PROVE Acked
    <3>1. \A j \in Copies : place[j] \in Consumers /\ place'[j] = "free" => FALSE
      <4>1. place \in [Copies -> Places] /\ Consumers \cap {"free", "wire", "queue", "dead"} = {}
        BY <2>T, PlacesAssumption DEF TypeOK
      <4> QED BY <2>3, <4>1 DEF BrokerNext, Accept, LoseOnWire, PublishMalformed, Deliver
    <3> QED BY <3>1
  <2>4. ASSUME NEW c \in Consumers, ConsumerNext(c) PROVE Acked
    <3>1. CASE Ack(c)
      BY <3>1, <2>T DEF Ack, Answered, TypeOK, ConsumerInv, ConsumerOK, Handling
    <3>2. ASSUME \A k \in Copies : place'[k] = "free" => place[k] = "free" PROVE Acked
      BY <3>2
    <3>3. ASSUME UNCHANGED place PROVE Acked
      BY <3>2, <3>3
    <3>4. CASE Nack(c)
      BY <3>2, <3>4, <2>T DEF Nack, TypeOK
    <3>5. CASE AnswerFails(c) \/ CrashConsumer(c) \/ LoseConnection(c)
      BY <3>2, <3>5 DEF AnswerFails, CrashConsumer, Disconnect, LoseConnection, Requeued
    <3>6. ASSUME NEW k \in Copies, RejectMalformed(c, k) PROVE Acked
      BY <3>2, <3>6, <2>T DEF RejectMalformed, TypeOK
    <3> QED BY <2>4, <3>1, <3>3, <3>4, <3>5, <3>6
            DEF ConsumerNext, Subscribe, SaveOnce, Handle, StorageFails
  <2>5. CASE AtRest
    BY <2>5 DEF AtRest, vars
  <2> QED BY <2>1, <2>2, <2>3, <2>4, <2>5 DEF Next
<1> QED BY <1>1, Invariance, PTL DEF SafeSpec, AckAfterCommit

-----------------------------------------------------------------------------
(* The pipeline implements the safety part of NotifyContract: every step   *)
(* commits one event, delivers one event for the first time, or stutters.  *)
THEOREM ImplementsContract == SafeSpec => Contract!SafeSpec
<1> USE DEF workerVars, brokerVars, consumerVars
<1>1. Init => Contract!Init
  BY DEF Init, Contract!Init
<1>2. Inv /\ [Next]_vars => [Contract!Next]_(Contract!contractVars)
  <2> SUFFICES ASSUME Inv, [Next]_vars
               PROVE  Contract!Next \/ UNCHANGED Contract!contractVars
    OBVIOUS
  <2>T. /\ TypeOK /\ RowInv
        /\ \A c \in Consumers : ConsumerOK(c)
    BY DEF Inv, ConsumerInv
  <2>S. ASSUME UNCHANGED <<outbox, notified>> PROVE UNCHANGED Contract!contractVars
    BY <2>S DEF Contract!contractVars
  <2>D. ASSUME NEW e \in Events, outbox[e] # "absent", notified[e] = 0,
               outbox' = outbox, notified' = [notified EXCEPT ![e] = 1]
        PROVE  Contract!Next
    <3>1. \A f \in Events : notified'[f] > 0 <=> notified[f] > 0 \/ f = e
      BY <2>D, <2>T DEF TypeOK
    <3>2. Contract!Deliver(e)
      BY <2>D, <3>1 DEF Contract!Deliver
    <3> QED BY <3>2 DEF Contract!Next
  <2>1. ASSUME NEW e \in Events, CommitCreate(e) PROVE Contract!Next
    <3>1. Contract!Commit(e)
      BY <2>1, <2>T DEF CommitCreate, Contract!Commit, TypeOK
    <3> QED BY <3>1 DEF Contract!Next
  <2>2. ASSUME NEW w \in Workers, WorkerNext(w) PROVE UNCHANGED Contract!contractVars
    <3>1. CASE CommitBatch(w)
      <4>1. \A e \in Events : outbox'[e] # "absent" <=> outbox[e] # "absent"
        BY <3>1 DEF CommitBatch, Inv, TypeOK, WorkerInv
      <4>2. notified' = notified
        BY <3>1 DEF CommitBatch
      <4> QED BY <4>1, <4>2 DEF Contract!contractVars
    <3> QED BY <2>2, <2>S, <3>1 DEF WorkerNext, Connect, SelectBatch, Publish, Mark,
                                    AbortBatch, PublishTimeout, Rollback
  <2>3. ASSUME NEW k \in Copies, BrokerNext(k) PROVE UNCHANGED Contract!contractVars
    BY <2>3, <2>S DEF BrokerNext, Accept, LoseOnWire, PublishMalformed, Deliver
  <2>4. ASSUME NEW c \in Consumers, ConsumerNext(c)
        PROVE  Contract!Next \/ UNCHANGED Contract!contractVars
    <3>1. CASE SaveOnce(c)
      <4>1. event[c] \in Events /\ outbox[event[c]] # "absent" /\ outbox' = outbox
        BY <3>1, <2>T DEF SaveOnce, ConsumerOK, Handling
      <4> QED BY <3>1, <4>1, <2>D, <2>S DEF SaveOnce
    <3>2. ASSUME NEW inserted \in BOOLEAN, StorageFails(c, inserted)
          PROVE  Contract!Next \/ UNCHANGED Contract!contractVars
      <4>1. event[c] \in Events /\ outbox[event[c]] # "absent" /\ outbox' = outbox
        BY <3>2, <2>T DEF StorageFails, ConsumerOK, Handling
      <4>2. CASE inserted
        BY <3>2, <4>1, <4>2, <2>D DEF StorageFails
      <4>3. CASE ~inserted
        BY <3>2, <4>1, <4>3, <2>S DEF StorageFails
      <4> QED BY <4>2, <4>3
    <3> QED BY <2>4, <2>S, <3>1, <3>2
            DEF ConsumerNext, Subscribe, Ack, Nack, Answered, AnswerFails, Disconnect,
                LoseConnection, CrashConsumer, RejectMalformed, Handle
  <2>5. CASE AtRest \/ UNCHANGED vars
    BY <2>5, <2>S DEF AtRest, vars
  <2> QED BY <2>1, <2>2, <2>3, <2>4, <2>5 DEF Next
<1> QED BY <1>1, <1>2, Invariance, PTL DEF SafeSpec, Contract!SafeSpec

-----------------------------------------------------------------------------
(* What happens to an event that is safe: it stays safe.  Neither a crash, *)
(* a lost connection, a rollback nor a repeated acknowledgement takes the  *)
(* last copy of an event that nobody has notified.                         *)
SafeForGood == [][\A e \in Events : Held(e) => Held(e)']_vars

(* Once the broker has confirmed an event it is never lost again.          *)
THEOREM HeldIsForever == SafeSpec => SafeForGood
<1>1. Inv /\ [Next]_vars => [\A e \in Events : Held(e) => Held(e)']_vars
  <2> SUFFICES ASSUME Inv, [Next]_vars, NEW e \in Events, Held(e) PROVE Held(e)'
    OBVIOUS
  <2>1. HeldEvents \subseteq HeldEvents'
    BY HeldStable DEF Inv
  <2>2. e \in HeldEvents'
    BY <2>1 DEF HeldEvents
  <2> QED BY <2>2 DEF HeldEvents
<1> QED BY <1>1, Invariance, PTL DEF SafeSpec, SafeForGood

-----------------------------------------------------------------------------
(* A free slot holds nothing, and the socket carries events only.          *)
CopyShape ==
  \A k \in Copies : /\ place[k] = "free" => msg[k] = NoEvent
                    /\ place[k] = "wire" => msg[k] \in Events

LEMMA ShapeStep == Inv /\ CopyShape /\ [Next]_vars => CopyShape'
<1> SUFFICES ASSUME Inv, CopyShape, [Next]_vars PROVE CopyShape'
  OBVIOUS
<1> USE DEF CopyShape, workerVars, brokerVars, consumerVars
<1>T. TypeOK /\ ConsumerInv
  BY DEF Inv
<1>1. ASSUME UNCHANGED brokerVars PROVE CopyShape'
  BY <1>1
<1>2. ASSUME NEW w \in Workers, WorkerNext(w) PROVE CopyShape'
  <2>1. CASE Publish(w)
    <3>1. PICK e \in batch[w], k \in Copies : /\ msg' = [msg EXCEPT ![k] = e]
                                             /\ place' = [place EXCEPT ![k] = "wire"]
      BY <2>1 DEF Publish
    <3> QED BY <3>1, <1>T DEF TypeOK
  <2> QED BY <1>1, <1>2, <2>1 DEF WorkerNext, Connect, SelectBatch, Mark, CommitBatch,
                                  AbortBatch, PublishTimeout, Rollback
<1>3. ASSUME NEW k \in Copies, BrokerNext(k) PROVE CopyShape'
  <2>1. CASE Accept(k)
    BY <1>T, <2>1 DEF Accept, TypeOK
  <2>2. CASE LoseOnWire(k)
    BY <1>T, <2>2 DEF LoseOnWire, TypeOK
  <2>3. ASSUME NEW m \in Malformed, PublishMalformed(m, k) PROVE CopyShape'
    BY <1>T, <2>3 DEF PublishMalformed, TypeOK
  <2>4. ASSUME NEW c \in Consumers, Deliver(c, k) PROVE CopyShape'
    BY <1>T, <2>4 DEF Deliver, TypeOK
  <2> QED BY <1>3, <2>1, <2>2, <2>3, <2>4 DEF BrokerNext
<1>4. ASSUME NEW c \in Consumers, ConsumerNext(c) PROVE CopyShape'
  <2>1. CASE Ack(c)
    BY <1>T, <2>1 DEF Ack, Answered, TypeOK
  <2>2. CASE Nack(c)
    BY <1>T, <2>2 DEF Nack, Answered, TypeOK
  <2>3. ASSUME place' = Requeued(c), msg' = msg PROVE CopyShape'
    BY <1>T, <2>3 DEF Requeued, TypeOK
  <2>4. ASSUME NEW k \in Copies, RejectMalformed(c, k) PROVE CopyShape'
    BY <1>T, <2>4 DEF RejectMalformed, TypeOK
  <2> QED BY <1>1, <1>4, <2>1, <2>2, <2>3, <2>4
          DEF ConsumerNext, Subscribe, SaveOnce, Handle, StorageFails, AnswerFails,
              LoseConnection, CrashConsumer, Disconnect
<1>5. CASE AtRest \/ UNCHANGED vars
  BY <1>1, <1>5 DEF AtRest, vars
<1> QED BY <1>1, <1>2, <1>3, <1>4, <1>5 DEF Next, CommitCreate

(* An invalid body is neither dropped nor taken for an event: it keeps its *)
(* slot until the dead-letter queue has it, and stays there.               *)
KeepsInvalid(k) ==
  msg[k] \in Malformed => msg'[k] = msg[k] /\ (place[k] = "dead" => place'[k] = "dead")
InvalidIsKept == [][\A k \in Copies : KeepsInvalid(k)]_vars

(* process_message's reject(requeue=False) is the only way out of the      *)
(* queue for a body that does not validate, whoever crashes or requeues.   *)
THEOREM InvalidBodiesAreKept == SafeSpec => InvalidIsKept
<1>1. Init => CopyShape
  BY DEF Init, CopyShape
<1>2. Inv /\ CopyShape /\ [Next]_vars => [\A k \in Copies : KeepsInvalid(k)]_vars
  <2> SUFFICES ASSUME Inv, CopyShape, Next, NEW i \in Copies, msg[i] \in Malformed
               PROVE  msg'[i] = msg[i] /\ (place[i] = "dead" => place'[i] = "dead")
    BY DEF KeepsInvalid
  <2> DEFINE Kept == msg'[i] = msg[i] /\ (place[i] = "dead" => place'[i] = "dead")
  <2>T. /\ TypeOK /\ ConsumerInv
        /\ place[i] # "free" /\ place[i] # "wire"
    BY DEF Inv, CopyShape
  <2> USE DEF workerVars, brokerVars, consumerVars
  <2>1. ASSUME UNCHANGED brokerVars PROVE Kept
    BY <2>1
  <2>2. ASSUME NEW w \in Workers, WorkerNext(w) PROVE Kept
    <3>1. CASE Publish(w)
      BY <3>1, <2>T DEF Publish, TypeOK
    <3> QED BY <2>1, <2>2, <3>1 DEF WorkerNext, Connect, SelectBatch, Mark, CommitBatch,
                                    AbortBatch, PublishTimeout, Rollback
  <2>3. ASSUME NEW k \in Copies, BrokerNext(k) PROVE Kept
    <3>1. i # k \/ \E c \in Consumers : Deliver(c, k)
      BY <2>3, <2>T DEF BrokerNext, Accept, LoseOnWire, PublishMalformed
    <3>2. ASSUME NEW c \in Consumers, Deliver(c, k) PROVE Kept
      BY <2>T, <3>2 DEF Deliver, TypeOK
    <3>3. CASE i # k
      <4>1. place \in [Copies -> Places] /\ DOMAIN msg = Copies
        BY <2>T DEF TypeOK
      <4>2. place'[i] = place[i] /\ msg'[i] = msg[i]
        BY <2>3, <3>3, <4>1 DEF BrokerNext, Accept, LoseOnWire, PublishMalformed, Deliver
      <4> QED BY <4>2
    <3> QED BY <3>1, <3>2, <3>3
  <2>4. ASSUME NEW c \in Consumers, ConsumerNext(c) PROVE Kept
    <3>T. tag[c] # NoCopy => tag[c] # i /\ tag[c] \in Copies
      <4>1. ConsumerOK(c) /\ tag[c] \in Copies \cup {NoCopy}
        BY <2>T DEF ConsumerInv, TypeOK
      <4> QED BY <4>1 DEF ConsumerOK
    <3>1. CASE Ack(c)
      BY <2>T, <3>1, <3>T DEF Ack, Answered, TypeOK
    <3>2. CASE Nack(c)
      BY <2>T, <3>2, <3>T DEF Nack, Answered, TypeOK
    <3>3. ASSUME place' = Requeued(c), msg' = msg PROVE Kept
      BY <2>T, <3>3 DEF Requeued, TypeOK
    <3>4. ASSUME NEW k \in Copies, RejectMalformed(c, k) PROVE Kept
      BY <2>T, <3>4 DEF RejectMalformed, TypeOK
    <3> QED BY <2>1, <2>4, <3>1, <3>2, <3>3, <3>4
            DEF ConsumerNext, Subscribe, SaveOnce, Handle, StorageFails, AnswerFails,
                LoseConnection, CrashConsumer, Disconnect
  <2>5. CASE AtRest
    BY <2>1, <2>5 DEF AtRest, vars
  <2> QED BY <2>1, <2>2, <2>3, <2>4, <2>5 DEF Next, CommitCreate
<1> QED BY <1>1, <1>2, ShapeStep, Invariance, PTL DEF SafeSpec, InvalidIsKept

-----------------------------------------------------------------------------
(* Duplicates come from failures only.  An event is touched once a copy of *)
(* it was made; somebody then still has it in hand, or it is published.    *)
Touched(e) == \/ notified[e] > 0
              \/ \E k \in Copies : msg[k] = e
              \/ \E c \in Consumers : event[c] = e

InHand(e) == \/ outbox[e] = "published"
             \/ \E w \in Workers : \/ e \in marked[w]
                                   \/ wstate[w] \in {"await", "confirmed"} /\ sending[w] = e

(* As long as nothing has failed: no worker waits for a confirm that will  *)
(* not come, and no touched event is back among the rows to be sent.       *)
Undisturbed ==
  failures = 0 => /\ \A w \in Workers : wstate[w] = "await" => awaiting[w] # NoCopy
                  /\ \A e \in Events : Touched(e) => InHand(e)

(* A step without a failure leaves in hand what is in hand, and touches    *)
(* only what a worker has just sent.                                       *)
LEMMA UndisturbedStep == Inv /\ Undisturbed /\ [Next]_vars => Undisturbed'
<1> SUFFICES ASSUME Inv, Undisturbed, [Next]_vars, failures' = 0
             PROVE  /\ \A w \in Workers : wstate'[w] = "await" => awaiting'[w] # NoCopy
                    /\ \A e \in Events : Touched(e)' => InHand(e)'
  BY DEF Undisturbed
<1> DEFINE Waits == \A w \in Workers : wstate'[w] = "await" => awaiting'[w] # NoCopy
           Touches(e) == Touched(e)' => Touched(e) \/ InHand(e)'
           Keeps(e) == InHand(e) => InHand(e)'
           Goal == Waits /\ \A e \in Events : Touches(e) /\ Keeps(e)
<1> USE DEF workerVars, brokerVars, consumerVars
<1>T. TypeOK /\ ConsumerInv
  BY DEF Inv
<1>F. ~ Failure
  BY <1>T DEF Failure, TypeOK
<1>Z. failures = 0
  <2>1. \/ failures' = failures
        \/ Failure
    <3>1. ASSUME NEW c \in Consumers, ConsumerNext(c) PROVE UNCHANGED failures \/ Failure
      BY <3>1 DEF ConsumerNext, Subscribe, SaveOnce, Ack, Nack, Answered, AnswerFails,
         LoseConnection, CrashConsumer, RejectMalformed, Handle, StorageFails
    <3>2. ASSUME NEW w \in Workers, WorkerNext(w) PROVE UNCHANGED failures \/ Failure
      BY <3>2 DEF WorkerNext, Connect, SelectBatch, Publish, Mark, CommitBatch, AbortBatch,
         PublishTimeout
    <3>3. ASSUME NEW k \in Copies, BrokerNext(k) PROVE UNCHANGED failures \/ Failure
      BY <3>3 DEF BrokerNext, Accept, LoseOnWire, PublishMalformed, Deliver
    <3> QED BY <3>1, <3>2, <3>3 DEF Next, CommitCreate, AtRest, vars
  <2> QED BY <2>1, <1>F
<1>W. /\ \A w \in Workers : wstate[w] = "await" => awaiting[w] # NoCopy
      /\ \A e \in Events : Touched(e) => InHand(e)
  BY <1>Z DEF Undisturbed
<1>S. Goal => /\ \A w \in Workers : wstate'[w] = "await" => awaiting'[w] # NoCopy
              /\ \A e \in Events : Touched(e)' => InHand(e)'
  BY <1>W
<1>1. ASSUME NEW x \in Events, CommitCreate(x) PROVE Goal
  BY <1>1, <1>T, <1>W DEF CommitCreate, TypeOK, Touched, InHand
<1>2. ASSUME NEW w \in Workers, WorkerNext(w) PROVE Goal
  <2>1. CASE Connect(w) \/ SelectBatch(w)
    BY <2>1, <1>T, <1>W DEF Connect, SelectBatch, TypeOK, Touched, InHand
  <2>2. CASE Publish(w)
    <3>1. PICK e \in batch[w], k \in Copies : /\ msg' = [msg EXCEPT ![k] = e]
                                             /\ sending' = [sending EXCEPT ![w] = e]
                                             /\ awaiting' = [awaiting EXCEPT ![w] = k]
      BY <2>2 DEF Publish
    <3>2. /\ UNCHANGED <<outbox, marked, event, notified>>
          /\ wstate[w] = "publish" /\ wstate' = [wstate EXCEPT ![w] = "await"]
      BY <2>2 DEF Publish
    <3>3. Waits
      BY <3>1, <3>2, <1>T, <1>W DEF TypeOK
    <3>4. InHand(e)'
      BY <3>1, <3>2, <1>T DEF TypeOK, InHand
    <3>5. \A x \in Events : Touches(x)
      BY <3>1, <3>2, <3>4, <1>T DEF TypeOK, Touched
    <3>6. \A x \in Events : Keeps(x)
      BY <3>1, <3>2, <1>T DEF TypeOK, InHand
    <3> QED BY <3>3, <3>5, <3>6
  <2>3. CASE Mark(w)
    <3>1. /\ UNCHANGED <<outbox, awaiting, msg, event, notified>>
          /\ marked' = [marked EXCEPT ![w] = @ \cup {sending[w]}]
          /\ sending' = [sending EXCEPT ![w] = NoEvent]
          /\ wstate' = [wstate EXCEPT ![w] = "publish"]
      BY <2>3 DEF Mark
    <3>2. \A x \in Events : Keeps(x)
      BY <3>1, <1>T DEF TypeOK, InHand
    <3> QED BY <3>1, <3>2, <1>T, <1>W DEF TypeOK, Touched
  <2>4. CASE CommitBatch(w)
    <3>1. /\ UNCHANGED <<sending, awaiting, msg, event, notified>>
          /\ outbox' = [e \in Events |-> IF e \in marked[w] THEN "published" ELSE outbox[e]]
          /\ marked' = [marked EXCEPT ![w] = {}]
          /\ wstate[w] = "publish" /\ wstate' = [wstate EXCEPT ![w] = "idle"]
      BY <2>4 DEF CommitBatch
    <3>2. \A x \in Events : Keeps(x)
      BY <3>1, <1>T DEF TypeOK, InHand
    <3> QED BY <3>1, <3>2, <1>T, <1>W DEF TypeOK, Touched
  <2>5. ~ AbortBatch(w) /\ ~ PublishTimeout(w)
    BY <1>F, <1>W DEF AbortBatch, PublishTimeout
  <2> QED BY <1>2, <2>1, <2>2, <2>3, <2>4, <2>5 DEF WorkerNext
<1>3. ASSUME NEW k \in Copies, BrokerNext(k) PROVE Goal
  <2>1. CASE Accept(k)
    <3>1. /\ UNCHANGED <<outbox, marked, sending, msg, event, notified>>
          /\ wstate' = [w \in Workers |-> IF awaiting[w] = k THEN "confirmed" ELSE wstate[w]]
          /\ awaiting' = [w \in Workers |-> IF awaiting[w] = k THEN NoCopy ELSE awaiting[w]]
      BY <2>1 DEF Accept
    <3>2. Waits
      BY <3>1, <1>W
    <3>3. \A x \in Events : Keeps(x)
      BY <3>1 DEF InHand
    <3> QED BY <3>1, <3>2, <3>3 DEF Touched
  <2>2. ~ LoseOnWire(k)
    BY <1>F DEF LoseOnWire
  <2>3. ASSUME NEW m \in Malformed, PublishMalformed(m, k) PROVE Goal
    BY <2>3, <1>T, <1>W DEF PublishMalformed, TypeOK, Touched, InHand
  <2>4. ASSUME NEW c \in Consumers, Deliver(c, k) PROVE Goal
    BY <2>4, <1>W DEF Deliver, Touched, InHand
  <2> QED BY <1>3, <2>1, <2>2, <2>3, <2>4 DEF BrokerNext
<1>4. ASSUME NEW c \in Consumers, ConsumerNext(c) PROVE Goal
  <2>W. UNCHANGED <<outbox, workerVars>>
    BY <1>4 DEF ConsumerNext, Subscribe, SaveOnce, Ack, Nack, Answered, AnswerFails,
       Disconnect, LoseConnection, CrashConsumer, RejectMalformed, Handle, StorageFails
  <2>1. Waits /\ \A x \in Events : Keeps(x)
    BY <2>W, <1>W DEF InHand
  <2>2. ASSUME \A k \in Copies : msg'[k] \in {msg[k], NoEvent},
               \A d \in Consumers : event'[d] \in {event[d], NoEvent},
               notified' = notified
        PROVE  Goal
    BY <2>1, <2>2 DEF Touched
  <2>3. CASE SaveOnce(c)
    <3>1. event[c] \in Events
      BY <1>T, <2>3 DEF SaveOnce, ConsumerInv, ConsumerOK, Handling
    <3>2. UNCHANGED <<msg, event>> /\ notified' \in {notified, [notified EXCEPT ![event[c]] = 1]}
      BY <2>3 DEF SaveOnce
    <3> QED BY <2>1, <3>1, <3>2, <1>T DEF Touched, TypeOK
  <2>4. CASE Ack(c)
    BY <1>T, <2>2, <2>4 DEF Ack, Answered, TypeOK
  <2>5. CASE Nack(c)
    BY <1>T, <2>2, <2>5 DEF Nack, Answered, TypeOK
  <2>6. CASE AnswerFails(c)
    BY <1>T, <2>2, <2>6 DEF AnswerFails, Disconnect, TypeOK
  <2>7. ASSUME NEW k \in Copies, Handle(c, k) PROVE Goal
    <3>1. /\ UNCHANGED <<msg, notified>>
          /\ event' = [event EXCEPT ![c] = msg[k]]
      BY <2>7 DEF Handle
    <3> QED BY <2>1, <3>1, <1>T DEF Touched, TypeOK
  <2>8. ASSUME NEW k \in Copies, RejectMalformed(c, k) PROVE Goal
    BY <2>2, <2>8 DEF RejectMalformed
  <2>9. CASE Subscribe(c)
    BY <2>2, <2>9 DEF Subscribe
  <2> QED BY <1>4, <1>F, <2>3, <2>4, <2>5, <2>6, <2>7, <2>8, <2>9
          DEF ConsumerNext, LoseConnection, CrashConsumer, StorageFails
<1>5. ASSUME AtRest \/ UNCHANGED vars PROVE Goal
  BY <1>5, <1>W DEF AtRest, vars, Touched, InHand
<1> HIDE DEF Goal
<1>6. Goal
  BY <1>1, <1>2, <1>3, <1>4, <1>5 DEF Next
<1> QED BY <1>6, <1>S

(* The event that a worker sends has not been sent before: nobody has a    *)
(* copy of it, handles it or has notified it.                              *)
SendsAfresh == \A w \in Workers : wstate[w] = "publish" /\ wstate'[w] = "await" =>
                                  ~ Touched(sending'[w])
OnlyFailuresRepeat == [][failures = 0 => SendsAfresh]_vars

(* Without a failure every event is sent once: SKIP LOCKED, the confirm    *)
(* and the marker together repeat nothing by themselves, however many      *)
(* workers poll.                                                           *)
THEOREM DuplicatesNeedFailures == SafeSpec => OnlyFailuresRepeat
<1>1. Init => Undisturbed
  <2> SUFFICES ASSUME Init PROVE Undisturbed
    OBVIOUS
  <2>1. \A w \in Workers : wstate[w] = "down"
    BY DEF Init
  <2>2. ASSUME NEW e \in Events PROVE ~ Touched(e)
    <3>1. notified[e] = 0 /\ \A k \in Copies : msg[k] = NoEvent
      BY DEF Init
    <3>2. \A c \in Consumers : event[c] = NoEvent
      BY DEF Init
    <3> QED BY <3>1, <3>2, EventsAssumption DEF Touched
  <2> QED BY <2>1, <2>2 DEF Undisturbed
<1>2. Inv /\ Undisturbed /\ [Next]_vars => [failures = 0 => SendsAfresh]_vars
  <2> SUFFICES ASSUME Inv, Undisturbed, Next, failures = 0, NEW w \in Workers,
                      wstate[w] = "publish", wstate'[w] = "await"
               PROVE  ~ Touched(sending'[w])
    BY DEF SendsAfresh
  <2> USE DEF workerVars, brokerVars, consumerVars
  <2>T. TypeOK /\ WorkerInv /\ \A e \in Events : Touched(e) => InHand(e)
    BY DEF Inv, Undisturbed
  <2>1. Publish(w)
    <3>1. ASSUME NEW v \in Workers, WorkerNext(v) PROVE Publish(v) /\ v = w
      BY <3>1, <2>T DEF WorkerNext, Connect, SelectBatch, Publish, Mark, CommitBatch,
         AbortBatch, PublishTimeout, Rollback, TypeOK
    <3>2. ASSUME NEW k \in Copies, BrokerNext(k) PROVE FALSE
      BY <3>2 DEF BrokerNext, Accept, LoseOnWire, PublishMalformed, Deliver
    <3>3. ASSUME UNCHANGED wstate PROVE FALSE
      BY <3>3
    <3>4. ASSUME NEW c \in Consumers, ConsumerNext(c) PROVE UNCHANGED wstate
      BY <3>4 DEF ConsumerNext, Subscribe, SaveOnce, Ack, Nack, Answered, AnswerFails,
         Disconnect, LoseConnection, CrashConsumer, RejectMalformed, Handle, StorageFails
    <3> QED BY <3>1, <3>2, <3>3, <3>4 DEF Next, CommitCreate, AtRest, vars
  <2>2. sending'[w] \in batch[w] \ marked[w]
    BY <2>1, <2>T DEF Publish, TypeOK
  <2>3. sending'[w] \in Events /\ ~ InHand(sending'[w])
    <3>1. sending'[w] \in Events /\ outbox[sending'[w]] = "pending"
      <4>1. batch[w] \in SUBSET Events
        BY <2>T DEF TypeOK
      <4>2. \A e \in batch[w] : outbox[e] = "pending"
        BY <2>T DEF WorkerInv
      <4> QED BY <2>2, <4>1, <4>2
    <3>2. ASSUME NEW v \in Workers, sending'[w] \in batch[v] PROVE v = w
      BY <2>2, <2>T, <3>2 DEF WorkerInv
    <3>3. \A v \in Workers : /\ marked[v] \subseteq batch[v]
                             /\ wstate[v] \in {"await", "confirmed"} => sending[v] \in batch[v]
      BY <2>T DEF TypeOK
    <3> QED BY <2>2, <3>1, <3>2, <3>3 DEF InHand
  <2> QED BY <2>3, <2>T
<1> QED BY <1>1, <1>2, UndisturbedStep, Invariance, PTL DEF SafeSpec, OnlyFailuresRepeat

-----------------------------------------------------------------------------
(* What draining the queue and publishing every row rest on, besides       *)
(* fairness: retries run out.  A failure may leave somebody owing a retry: *)
(* a worker whose confirm will not come, a consumer that could not store   *)
(* its event or whose connection is gone under its handler.                *)
WorkerOwes(w) == wstate[w] = "await" /\ awaiting[w] = NoCopy
ConsumerOwes(c) == \/ cstate[c] = "nack"
                   \/ cstate[c] \in {"handle", "ack"} /\ tag[c] = NoCopy

(* Rows go back to be selected again, or a copy to be delivered again.     *)
GivesBack(w) == \E e \in batch[w] : e \notin batch'[w] /\ outbox'[e] = "pending"
Redelivers(c) == \E k \in Copies : place[k] = c /\ place'[k] = "queue"

NoNewDebt(W, C) == /\ \A w \in W : WorkerOwes(w)' => WorkerOwes(w)
                   /\ \A c \in C : ConsumerOwes(c)' => ConsumerOwes(c)
RetriesSettle ==
  /\ \A w \in Workers : GivesBack(w) => WorkerOwes(w) /\ ~ WorkerOwes(w)'
  /\ \A c \in Consumers : Redelivers(c) => ConsumerOwes(c) /\ ~ ConsumerOwes(c)'

RetryIsOwed ==
  /\ failures' = failures => NoNewDebt(Workers, Consumers) /\ RetriesSettle
  /\ failures' # failures =>
       \/ NoNewDebt(Workers, Consumers)
       \/ \E x \in Workers \cup Consumers : NoNewDebt(Workers \ {x}, Consumers \ {x})
RetriesAreOwed == [][RetryIsOwed]_vars

(* Nothing is sent or delivered again of itself: between failures every    *)
(* retry settles a debt and none is incurred, and a failure leaves at most *)
(* one.  So a failure costs at most two retries, the one it is and the one *)
(* it leaves owed, and when failures stop no event and no invalid message  *)
(* circulates any more (outbox_worker.py:41, consumer.py:41).              *)
THEOREM RetriesRunOut == SafeSpec => RetriesAreOwed
<1>1. Inv /\ [Next]_vars => [RetryIsOwed]_vars
  <2> SUFFICES ASSUME Inv, Next PROVE RetryIsOwed
    OBVIOUS
  <2> USE DEF workerVars, brokerVars, consumerVars
  <2>T. TypeOK /\ WorkerInv /\ ConsumerInv
    BY DEF Inv
  <2>F. failures \in Nat /\ (Failure => failures' # failures)
    BY <2>T DEF TypeOK, Failure
  (* A step without a failure, and one with.                               *)
  <2>N. ASSUME failures' = failures, NoNewDebt(Workers, Consumers), RetriesSettle
        PROVE  RetryIsOwed
    BY <2>N DEF RetryIsOwed
  <2>D. ASSUME Failure, NEW x \in Workers \cup Consumers,
               NoNewDebt(Workers \ {x}, Consumers \ {x})
        PROVE  RetryIsOwed
    BY <2>D, <2>F DEF RetryIsOwed
  <2>1. ASSUME NEW e \in Events, CommitCreate(e) PROVE RetryIsOwed
    BY <2>1, <2>N DEF CommitCreate, NoNewDebt, RetriesSettle, GivesBack, Redelivers,
       WorkerOwes, ConsumerOwes
  <2>2. ASSUME NEW w \in Workers, WorkerNext(w) PROVE RetryIsOwed
    <3>1. /\ UNCHANGED <<cstate, tag>>
          /\ \A k \in Copies : place'[k] = "queue" => place[k] = "queue"
          /\ \A v \in Workers : v # w => /\ wstate'[v] = wstate[v]
                                         /\ awaiting'[v] = awaiting[v]
                                         /\ batch'[v] = batch[v]
      BY <2>2, <2>T DEF WorkerNext, Connect, SelectBatch, Publish, Mark, CommitBatch,
         AbortBatch, PublishTimeout, Rollback, TypeOK
    <3>2. \A c \in Consumers : ConsumerOwes(c)' <=> ConsumerOwes(c)
      BY <3>1 DEF ConsumerOwes
    <3>3. \A c \in Consumers : ~ Redelivers(c)
      BY <3>1, PlacesAssumption DEF Redelivers
    <3>4. \A v \in Workers : v # w => (WorkerOwes(v)' <=> WorkerOwes(v)) /\ ~ GivesBack(v)
      BY <3>1 DEF WorkerOwes, GivesBack
    <3>5. ASSUME failures' = failures, WorkerOwes(w)' => WorkerOwes(w),
                 GivesBack(w) => WorkerOwes(w) /\ ~ WorkerOwes(w)'
          PROVE  RetryIsOwed
      <4>1. NoNewDebt(Workers, Consumers)
        BY <3>2, <3>4, <3>5 DEF NoNewDebt
      <4>2. RetriesSettle
        BY <3>3, <3>4, <3>5 DEF RetriesSettle
      <4> QED BY <3>5, <4>1, <4>2, <2>N
    <3>6. CASE Connect(w) \/ SelectBatch(w) \/ Publish(w) \/ Mark(w)
      <4>1. failures' = failures /\ batch[w] \subseteq batch'[w]
        BY <3>6, <2>T DEF Connect, SelectBatch, Publish, Mark, TypeOK
      <4>2. ~ WorkerOwes(w)'
        BY <3>6, <2>T, CopiesAssumption DEF Connect, SelectBatch, Publish, Mark, TypeOK, WorkerOwes
      <4> QED BY <4>1, <4>2, <3>5 DEF GivesBack
    <3>7. CASE CommitBatch(w)
      <4>1. failures' = failures /\ \A e \in batch[w] : outbox'[e] = "published"
        BY <3>7, <2>T DEF CommitBatch, TypeOK
      <4>2. ~ WorkerOwes(w)'
        BY <3>7, <2>T DEF CommitBatch, TypeOK, WorkerOwes
      <4> QED BY <4>1, <4>2, <3>5 DEF GivesBack
    <3>8. CASE AbortBatch(w)
      <4>1. Failure
        BY <3>8 DEF AbortBatch
      <4>2. NoNewDebt(Workers \ {w}, Consumers \ {w})
        BY <3>2, <3>4 DEF NoNewDebt
      <4> QED BY <4>1, <4>2, <2>D
    <3>9. CASE PublishTimeout(w)
      <4>1. failures' = failures /\ WorkerOwes(w)
        BY <3>9 DEF PublishTimeout, WorkerOwes
      <4>2. ~ WorkerOwes(w)'
        BY <3>9, <2>T DEF PublishTimeout, Rollback, TypeOK, WorkerOwes
      <4> QED BY <4>1, <4>2, <3>5
    <3> QED BY <2>2, <3>6, <3>7, <3>8, <3>9 DEF WorkerNext
  <2>3. ASSUME NEW k \in Copies, BrokerNext(k) PROVE RetryIsOwed
    <3>1. UNCHANGED <<cstate, tag, batch>>
      BY <2>3 DEF BrokerNext, Accept, LoseOnWire, PublishMalformed, Deliver
    <3>2. \A c \in Consumers : ConsumerOwes(c)' <=> ConsumerOwes(c)
      BY <3>1 DEF ConsumerOwes
    <3>3. \A w \in Workers : ~ GivesBack(w)
      BY <3>1 DEF GivesBack
    <3>4. CASE Accept(k)
      <4>1. /\ failures' = failures
            /\ \A i \in Copies : i # k => place'[i] = place[i]
            /\ place[k] = "wire"
        BY <3>4, <2>T DEF Accept, TypeOK
      <4>2. \A w \in Workers : WorkerOwes(w)' => WorkerOwes(w)
        BY <3>4 DEF Accept, WorkerOwes
      <4>3. \A c \in Consumers : ~ Redelivers(c)
        BY <4>1, PlacesAssumption DEF Redelivers
      <4> QED BY <4>1, <4>2, <4>3, <3>2, <3>3, <2>N DEF NoNewDebt, RetriesSettle
    <3>5. CASE LoseOnWire(k)
      <4>1. Failure /\ wstate' = wstate
            /\ awaiting' = [w \in Workers |-> IF awaiting[w] = k THEN NoCopy ELSE awaiting[w]]
        BY <3>5 DEF LoseOnWire
      <4>2. ASSUME NEW w \in Workers, awaiting[w] = k
            PROVE  NoNewDebt(Workers \ {w}, Consumers \ {w})
        <5>1. ASSUME NEW v \in Workers, v # w PROVE awaiting[v] # k
          <6> SUFFICES ASSUME awaiting[v] = k PROVE FALSE
            OBVIOUS
          <6>1. k # NoCopy
            BY CopiesAssumption
          <6>2. sending[v] = sending[w]
            BY <4>2, <6>1, <2>T DEF WorkerInv
          <6>3. sending[v] \in batch[v] /\ sending[w] \in batch[w]
            BY <4>2, <6>1, <2>T DEF TypeOK
          <6> QED BY <5>1, <6>2, <6>3, <2>T DEF WorkerInv
        <5>2. \A v \in Workers \ {w} : WorkerOwes(v)' => WorkerOwes(v)
          BY <4>1, <5>1 DEF WorkerOwes
        <5> QED BY <5>2, <3>2 DEF NoNewDebt
      <4>3. ASSUME \A w \in Workers : awaiting[w] # k PROVE NoNewDebt(Workers, Consumers)
        BY <4>1, <4>3, <3>2 DEF NoNewDebt, WorkerOwes
      <4> QED BY <4>1, <4>2, <4>3, <2>D, <2>F DEF RetryIsOwed
    <3>6. ASSUME NEW m \in Malformed, PublishMalformed(m, k) PROVE RetryIsOwed
      <4>1. /\ failures' = failures /\ UNCHANGED <<wstate, awaiting>>
            /\ \A i \in Copies : i # k => place'[i] = place[i]
            /\ place[k] = "free"
        BY <3>6, <2>T DEF PublishMalformed, TypeOK
      <4>2. \A c \in Consumers : ~ Redelivers(c)
        BY <4>1, PlacesAssumption DEF Redelivers
      <4> QED BY <4>1, <4>2, <3>2, <3>3, <2>N DEF NoNewDebt, RetriesSettle, WorkerOwes
    <3>7. ASSUME NEW d \in Consumers, Deliver(d, k) PROVE RetryIsOwed
      <4>1. /\ failures' = failures /\ UNCHANGED <<wstate, awaiting>>
            /\ \A i \in Copies : i # k => place'[i] = place[i]
            /\ place[k] = "queue"
        BY <3>7, <2>T DEF Deliver, TypeOK
      <4>2. \A c \in Consumers : ~ Redelivers(c)
        BY <4>1, PlacesAssumption DEF Redelivers
      <4> QED BY <4>1, <4>2, <3>2, <3>3, <2>N DEF NoNewDebt, RetriesSettle, WorkerOwes
    <3> QED BY <2>3, <3>4, <3>5, <3>6, <3>7 DEF BrokerNext
  <2>4. ASSUME NEW c \in Consumers, ConsumerNext(c) PROVE RetryIsOwed
    <3>1. UNCHANGED <<outbox, workerVars>>
      BY <2>4 DEF ConsumerNext, Subscribe, SaveOnce, Ack, Nack, Answered, AnswerFails,
         Disconnect, LoseConnection, CrashConsumer, RejectMalformed, Handle, StorageFails
    <3>2. \A w \in Workers : (WorkerOwes(w)' <=> WorkerOwes(w)) /\ ~ GivesBack(w)
      BY <3>1 DEF WorkerOwes, GivesBack
    <3>3. \A d \in Consumers : d # c => cstate'[d] = cstate[d] /\ tag'[d] = tag[d]
      BY <2>4, <2>T DEF ConsumerNext, Subscribe, SaveOnce, Ack, Nack, Answered, AnswerFails,
         Disconnect, LoseConnection, CrashConsumer, RejectMalformed, Handle, StorageFails, TypeOK
    <3>4. \A d \in Consumers : d # c => (ConsumerOwes(d)' <=> ConsumerOwes(d))
      BY <3>3 DEF ConsumerOwes
    <3>5. CASE Failure
      <4>1. NoNewDebt(Workers \ {c}, Consumers \ {c})
        BY <3>2, <3>4 DEF NoNewDebt
      <4> QED BY <3>5, <4>1, <2>D
    <3>6. ASSUME failures' = failures, ConsumerOwes(c)' => ConsumerOwes(c),
                 \A k \in Copies : place[k] \notin {c, "queue"} => place'[k] # "queue",
                 Redelivers(c) => ConsumerOwes(c) /\ ~ ConsumerOwes(c)'
          PROVE  RetryIsOwed
      <4>1. \A d \in Consumers : d # c => ~ Redelivers(d)
        BY <3>6, PlacesAssumption DEF Redelivers
      <4>2. NoNewDebt(Workers, Consumers)
        BY <3>2, <3>4, <3>6 DEF NoNewDebt
      <4>3. RetriesSettle
        BY <3>2, <3>6, <4>1 DEF RetriesSettle
      <4> QED BY <3>6, <4>2, <4>3, <2>N
    <3>7. CASE Subscribe(c) \/ SaveOnce(c)
      <4>1. failures' = failures /\ place' = place /\ tag' = tag
        BY <3>7 DEF Subscribe, SaveOnce
      <4>2. ConsumerOwes(c)' => ConsumerOwes(c)
        BY <3>7, <4>1, <2>T DEF Subscribe, SaveOnce, ConsumerOwes, TypeOK
      <4>3. ~ Redelivers(c)
        BY <4>1, PlacesAssumption DEF Redelivers
      <4> QED BY <4>1, <4>2, <4>3, <3>6
    <3>8. CASE Ack(c)
      <4>1. /\ failures' = failures /\ cstate'[c] = "idle"
            /\ place' = [place EXCEPT ![tag[c]] = "free"]
        BY <3>8, <2>T DEF Ack, Answered, TypeOK
      <4>2. \A k \in Copies : place'[k] \in {place[k], "free"}
        BY <4>1, <2>T DEF TypeOK
      <4>3. ~ ConsumerOwes(c)' /\ ~ Redelivers(c)
        BY <4>1, <4>2, PlacesAssumption DEF ConsumerOwes, Redelivers
      <4> QED BY <4>1, <4>2, <4>3, <3>6
    <3>9. CASE Nack(c)
      <4>1. /\ failures' = failures /\ cstate'[c] = "idle" /\ cstate[c] = "nack"
            /\ place' = [place EXCEPT ![tag[c]] = "queue"] /\ place[tag[c]] = c
        BY <3>9, <2>T DEF Nack, Answered, TypeOK, ConsumerInv, ConsumerOK
      <4>2. \A k \in Copies : place'[k] = place[k] \/ (place[k] = c /\ place'[k] = "queue")
        BY <4>1, <2>T DEF TypeOK
      <4>3. ~ ConsumerOwes(c)' /\ ConsumerOwes(c)
        BY <4>1 DEF ConsumerOwes
      <4> QED BY <4>1, <4>2, <4>3, <3>6
    <3>10. CASE AnswerFails(c)
      <4>1. /\ failures' = failures /\ cstate'[c] = "down"
            /\ cstate[c] \in {"ack", "nack"} /\ tag[c] = NoCopy
            /\ place' = [k \in Copies |-> IF place[k] = c THEN "queue" ELSE place[k]]
        BY <3>10, <2>T DEF AnswerFails, Disconnect, Requeued, TypeOK
      <4>2. \A k \in Copies : place'[k] = place[k] \/ (place[k] = c /\ place'[k] = "queue")
        BY <4>1
      <4>3. ~ ConsumerOwes(c)' /\ ConsumerOwes(c)
        BY <4>1 DEF ConsumerOwes
      <4> QED BY <4>1, <4>2, <4>3, <3>6
    <3>11. ASSUME NEW k \in Copies, RejectMalformed(c, k) PROVE RetryIsOwed
      <4>1. /\ failures' = failures /\ UNCHANGED <<cstate, tag>>
            /\ place' = [place EXCEPT ![k] = "dead"]
        BY <3>11 DEF RejectMalformed
      <4>2. \A i \in Copies : place'[i] \in {place[i], "dead"}
        BY <4>1, <2>T DEF TypeOK
      <4>3. (ConsumerOwes(c)' => ConsumerOwes(c)) /\ ~ Redelivers(c)
        BY <4>1, <4>2, PlacesAssumption DEF ConsumerOwes, Redelivers
      <4> QED BY <4>1, <4>2, <4>3, <3>6
    <3>12. ASSUME NEW k \in Copies, Handle(c, k) PROVE RetryIsOwed
      <4>1. failures' = failures /\ place' = place /\ cstate'[c] = "handle" /\ tag'[c] = k
        BY <3>12, <2>T DEF Handle, TypeOK
      <4>2. ~ ConsumerOwes(c)' /\ ~ Redelivers(c)
        BY <4>1, PlacesAssumption, CopiesAssumption DEF ConsumerOwes, Redelivers
      <4> QED BY <4>1, <4>2, <3>6
    <3> QED BY <2>4, <3>5, <3>7, <3>8, <3>9, <3>10, <3>11, <3>12
            DEF ConsumerNext, StorageFails, LoseConnection, CrashConsumer
  <2>5. CASE AtRest
    BY <2>5, <2>N DEF AtRest, vars, NoNewDebt, RetriesSettle, GivesBack, Redelivers,
       WorkerOwes, ConsumerOwes
  <2> QED BY <2>1, <2>2, <2>3, <2>4, <2>5 DEF Next
<1> QED BY <1>1, Invariance, PTL DEF SafeSpec, RetriesAreOwed
=============================================================================
