---------------------------- MODULE SystemProofs ----------------------------
(***************************************************************************)
(* Proofs about System, for any number of requests, itineraries, workers,  *)
(* consumers and messages: the composition runs each of its parts as the   *)
(* part's own module describes it, so that what is proved of a part holds  *)
(* of the system; what clients are told is kept; and nothing but what they *)
(* stored is notified, once.                                               *)
(*                                                                         *)
(* Both parts' theorems are used here: those of the service because this   *)
(* module extends them, those of the pipeline as theorems of Delivery.     *)
(***************************************************************************)
EXTENDS System, ItineraryStoreProofs

(* What is proved of OutboxDelivery, over this system's variables.         *)
Delivery == INSTANCE OutboxDeliveryProofs WITH
              Events <- Ids, MaxFailures <- MaxPipelineFailures, failures <- pipelineFailures

(* The service's events are the rows of the outbox.                        *)
Coupled == \A i \in Ids : i \in events <=> outbox[i] # "absent"

(* No two creations draw the same id.                                      *)
OwnIds ==
  \A r \in Requests : Creates(r) =>
    /\ call[r].id \in used
    /\ \A q \in Requests \ {r} : Creates(q) => call[q].id # call[r].id

(* A creation has its event from its commit on, before it is answered: one *)
(* answered 201 has it, one that has it is answered 201 or 503.            *)
Told ==
  \A r \in Requests : Creates(r) =>
    /\ reply[r] # NoReply /\ reply[r].status = "ok" => call[r].id \in events
    /\ pc[r] = "answer" => call[r].id \in events
    /\ call[r].id \in events => IF reply[r] = NoReply THEN pc[r] = "answer"
                               ELSE reply[r].status \in {"ok", "unavailable"}

SystemInv == Inv /\ Delivery!Inv /\ Coupled /\ OwnIds /\ Told

-----------------------------------------------------------------------------
(* Every step of the system is a step of the service, or none.             *)
LEMMA ServiceRefines == [SystemNext]_systemVars => [Next]_vars
<1>1. ASSUME NEW r \in Requests, ServiceStep(r) PROVE Next
  BY <1>1 DEF ServiceStep, Next
<1> QED BY <1>1 DEF SystemNext, PipelineStep, AtRest, systemVars

(* Every step of the system is a step of the pipeline, or none.            *)
LEMMA PipelineRefines == [SystemNext]_systemVars => [Pipeline!Next]_(Pipeline!vars)
<1>1. UNCHANGED pipelineVars => UNCHANGED Pipeline!vars
  BY DEF pipelineVars, Pipeline!vars, Pipeline!workerVars, Pipeline!brokerVars,
     Pipeline!consumerVars
<1>2. ASSUME NEW r \in Requests, ServiceStep(r)
      PROVE  UNCHANGED pipelineVars \/ Pipeline!Next
  BY <1>2 DEF ServiceStep, EventCommitted, Pipeline!Next
<1>3. PipelineStep => Pipeline!Next
  BY DEF PipelineStep, Pipeline!Next
<1>4. AtRest \/ UNCHANGED systemVars => UNCHANGED pipelineVars
  BY DEF AtRest, systemVars
<1> QED BY <1>1, <1>2, <1>3, <1>4 DEF SystemNext

(* Pipeline and Delivery are the same specification under two names.       *)
LEMMA SameWorker ==
  ASSUME NEW w \in Workers, Pipeline!WorkerNext(w)
  PROVE  Delivery!WorkerNext(w)
<1>1. \A S : Pipeline!Cardinality(S) = Delivery!Cardinality(S)
  BY DEF Pipeline!Cardinality, Delivery!Cardinality
<1>2. Pipeline!NextBatch = Delivery!NextBatch
  BY <1>1 DEF Pipeline!NextBatch, Delivery!NextBatch, Pipeline!Selectable, Delivery!Selectable
<1>3. Pipeline!SelectBatch(w) => Delivery!SelectBatch(w)
  BY <1>2 DEF Pipeline!SelectBatch, Delivery!SelectBatch, Pipeline!Selectable,
      Delivery!Selectable, Pipeline!brokerVars, Delivery!brokerVars,
      Pipeline!consumerVars, Delivery!consumerVars
<1> QED
  BY <1>3 DEF Pipeline!WorkerNext, Delivery!WorkerNext, Pipeline!Connect, Delivery!Connect,
      Pipeline!Publish, Delivery!Publish, Pipeline!Mark, Delivery!Mark,
      Pipeline!CommitBatch, Delivery!CommitBatch, Pipeline!AbortBatch,
      Delivery!AbortBatch, Pipeline!PublishTimeout, Delivery!PublishTimeout,
      Pipeline!Failure, Delivery!Failure, Pipeline!Rollback, Delivery!Rollback,
      Pipeline!brokerVars, Delivery!brokerVars, Pipeline!consumerVars,
      Delivery!consumerVars

LEMMA SameBroker ==
  ASSUME NEW k \in Copies, Pipeline!BrokerNext(k)
  PROVE  Delivery!BrokerNext(k)
<1>1. \A S : Pipeline!Cardinality(S) = Delivery!Cardinality(S)
  BY DEF Pipeline!Cardinality, Delivery!Cardinality
<1>2. ASSUME NEW c \in Consumers PROVE Pipeline!Deliver(c, k) => Delivery!Deliver(c, k)
  BY <1>1 DEF Pipeline!Deliver, Delivery!Deliver, Pipeline!workerVars, Delivery!workerVars,
      Pipeline!consumerVars, Delivery!consumerVars
<1> QED
  BY <1>2 DEF Pipeline!BrokerNext, Delivery!BrokerNext, Pipeline!Accept, Delivery!Accept,
      Pipeline!LoseOnWire, Delivery!LoseOnWire, Pipeline!PublishMalformed,
      Delivery!PublishMalformed, Pipeline!Failure, Delivery!Failure,
      Pipeline!workerVars, Delivery!workerVars, Pipeline!consumerVars,
      Delivery!consumerVars

LEMMA SameConsumer ==
  ASSUME NEW c \in Consumers, Pipeline!ConsumerNext(c)
  PROVE  Delivery!ConsumerNext(c)
<1> USE DEF Pipeline!workerVars, Delivery!workerVars, Pipeline!brokerVars, Delivery!brokerVars
<1>1. ASSUME NEW b, Pipeline!StorageFails(c, b) PROVE Delivery!StorageFails(c, b)
  BY <1>1 DEF Pipeline!StorageFails, Delivery!StorageFails, Pipeline!Failure, Delivery!Failure
<1>2. ASSUME NEW k, Pipeline!RejectMalformed(c, k) \/ Pipeline!Handle(c, k)
      PROVE  Delivery!RejectMalformed(c, k) \/ Delivery!Handle(c, k)
  BY <1>2 DEF Pipeline!RejectMalformed, Delivery!RejectMalformed, Pipeline!Handle,
      Delivery!Handle, Pipeline!consumerVars, Delivery!consumerVars
<1>3. Pipeline!Ack(c) \/ Pipeline!Nack(c) => Delivery!Ack(c) \/ Delivery!Nack(c)
  BY DEF Pipeline!Ack, Delivery!Ack, Pipeline!Nack, Delivery!Nack, Pipeline!Answered,
      Delivery!Answered
<1>4. Pipeline!AnswerFails(c) \/ Pipeline!LoseConnection(c) \/ Pipeline!CrashConsumer(c) =>
        Delivery!AnswerFails(c) \/ Delivery!LoseConnection(c) \/ Delivery!CrashConsumer(c)
  BY DEF Pipeline!AnswerFails, Delivery!AnswerFails, Pipeline!LoseConnection,
      Delivery!LoseConnection, Pipeline!CrashConsumer, Delivery!CrashConsumer,
      Pipeline!Disconnect, Delivery!Disconnect, Pipeline!Requeued, Delivery!Requeued,
      Pipeline!Failure, Delivery!Failure
<1>5. Pipeline!Subscribe(c) \/ Pipeline!SaveOnce(c) =>
        Delivery!Subscribe(c) \/ Delivery!SaveOnce(c)
  BY DEF Pipeline!Subscribe, Delivery!Subscribe, Pipeline!SaveOnce, Delivery!SaveOnce
<1> QED BY <1>1, <1>2, <1>3, <1>4, <1>5 DEF Pipeline!ConsumerNext, Delivery!ConsumerNext

LEMMA SamePipeline == /\ Pipeline!Init => Delivery!Init
                      /\ [Pipeline!Next]_(Pipeline!vars) => [Delivery!Next]_(Delivery!vars)
<1>1. Pipeline!Init => Delivery!Init
  BY DEF Pipeline!Init, Delivery!Init
<1>2. UNCHANGED Pipeline!vars => UNCHANGED Delivery!vars
  BY DEF Pipeline!vars, Delivery!vars, Pipeline!workerVars, Delivery!workerVars,
      Pipeline!brokerVars, Delivery!brokerVars, Pipeline!consumerVars,
      Delivery!consumerVars
<1>3. ASSUME NEW i \in Ids, Pipeline!CommitCreate(i) PROVE Delivery!CommitCreate(i)
  BY <1>3 DEF Pipeline!CommitCreate, Delivery!CommitCreate, Pipeline!workerVars,
      Delivery!workerVars, Pipeline!brokerVars, Delivery!brokerVars,
      Pipeline!consumerVars, Delivery!consumerVars
<1>4. Pipeline!AtRest => UNCHANGED Pipeline!vars
  BY DEF Pipeline!AtRest
<1>5. Pipeline!Next => Delivery!Next \/ UNCHANGED Delivery!vars
  BY <1>2, <1>3, <1>4, SameWorker, SameBroker, SameConsumer DEF Pipeline!Next, Delivery!Next
<1> QED BY <1>1, <1>2, <1>5

(* So each step of the system preserves the invariant of the pipeline.     *)
LEMMA DeliveryInv ==
  /\ SystemInit => Delivery!Inv
  /\ Delivery!Inv /\ [SystemNext]_systemVars => Delivery!Inv'
<1>1. SystemInit => Delivery!Init
  BY SamePipeline DEF SystemInit
<1>2. [SystemNext]_systemVars => [Delivery!Next]_(Delivery!vars)
  BY PipelineRefines, SamePipeline
<1> QED BY <1>1, <1>2, Delivery!InvInductive, EventAssumption, MessageAssumption,
           CopyAssumption, PlaceAssumption, PipelineBounds

-----------------------------------------------------------------------------
(* What a request asks is fixed when it begins, with a fresh id if it is a *)
(* creation.                                                               *)
LEMMA CallFrame ==
  ASSUME NEW r \in Requests, StepOf(r)
  PROVE  \/ UNCHANGED <<call, used>> /\ pc[r] \notin {"idle", "done"}
         \/ \E c \in Call : Begin(r, c)
<1> DEFINE Goal == UNCHANGED <<call, used>> /\ pc[r] \notin {"idle", "done"}
<1>1. CASE Build(r) \/ Read(r) \/ Validate(r) \/ AddItinerary(r) \/ AddEvent(r)
  BY <1>1 DEF Build, Read, Validate, AddItinerary, AddEvent
<1>2. CASE LockRow(r) \/ WriteRow(r) \/ DeleteRow(r)
  BY <1>2 DEF LockRow, WriteRow, DeleteRow
<1>3. CASE Commit(r) \/ Return(r) \/ Abort(r)
  BY <1>3 DEF Commit, Return, Persist, Abort
<1> QED BY <1>1, <1>2, <1>3 DEF StepOf, Serve

(* What a step may do to a creation's event and answer: the commit brings  *)
(* the event and no answer yet; after it only 201 or 503 is answered, and  *)
(* before it no 201.                                                       *)
LEMMA AnswerFrame ==
  ASSUME TypeOK, NEW r \in Requests, ControlOK(r), StepOf(r), Creates(r)
  PROVE  \/ Persist(r) /\ pc'[r] = "answer" /\ reply'[r] = NoReply
         \/ /\ pc[r] = "answer" /\ pc'[r] = "done" /\ UNCHANGED events
            /\ reply'[r] # NoReply /\ reply'[r].status \in {"ok", "unavailable"}
         \/ /\ pc[r] # "answer" /\ pc'[r] # "answer" /\ UNCHANGED events
            /\ reply'[r] # NoReply => reply'[r].status # "ok"
<1> DEFINE Silent == /\ pc[r] # "answer" /\ pc'[r] # "answer" /\ UNCHANGED events
                     /\ reply'[r] # NoReply => reply'[r].status # "ok"
<1>A. ASSUME NEW s \in {"ok", "invalid", "missing", "unavailable"},
             NEW b \in Row \cup {NoRow}, Answer(r, s, b)
      PROVE  reply'[r].status = s /\ reply'[r] # NoReply /\ pc'[r] = "done"
  <2>1. reply'[r] = [status |-> s, body |-> b] /\ pc'[r] = "done"
    BY <1>A DEF Answer, GoTo, TypeOK
  <2>2. [status |-> s, body |-> b] \in Reply BY DEF Reply
  <2> QED BY <2>1, <2>2, NullAssumption
<1>N. NoRow \in Row \cup {NoRow}
  OBVIOUS
<1>S. pc[r] # "done" => reply[r] = NoReply
  BY DEF ControlOK
<1>G. \A l : GoTo(r, l) => pc'[r] = l
  BY DEF GoTo, TypeOK
<1>1. CASE Build(r) \/ Validate(r)
  BY <1>1, <1>A, <1>N, <1>S, <1>G DEF Build, Validate
<1>2. CASE Read(r) \/ LockRow(r) \/ WriteRow(r) \/ DeleteRow(r)
  BY <1>2 DEF Read, LockRow, WriteRow, DeleteRow, ControlOK, Creates
<1>3. CASE AddItinerary(r) \/ AddEvent(r)
  BY <1>3, <1>S, <1>G DEF AddItinerary, AddEvent
<1>4. CASE Commit(r)
  BY <1>4, <1>S, <1>G DEF Commit, Persist, Ready
<1>5. CASE Return(r)
  <2>1. outcome[r] \in Reply /\ outcome[r].status = "ok"
    BY <1>5 DEF Return, ControlOK, TypeOK
  <2>2. outcome[r].body \in Row \cup {NoRow}
    BY <2>1 DEF Reply
  <2> QED BY <1>5, <1>A, <2>1, <2>2 DEF Return
<1>6. CASE Abort(r)
  BY <1>6, <1>A, <1>N DEF Abort
<1>7. ASSUME NEW c \in Call, Begin(r, c) PROVE Silent
  <2>1. pc[r] = "idle" /\ UNCHANGED <<events, reply>>
    BY <1>7 DEF Begin
  <2>2. pc'[r] # "answer"
    BY <1>7, <1>G DEF Begin
  <2> QED BY <2>1, <2>2, <1>S
<1> QED BY <1>1, <1>2, <1>3, <1>4, <1>5, <1>6, <1>7 DEF StepOf, Serve

(* Ids are drawn once.                                                     *)
LEMMA OwnIdsStep ==
  ASSUME TypeOK, OwnIds, NEW r \in Requests, StepOf(r)
  PROVE  OwnIds'
<1>1. CASE UNCHANGED <<call, used>>
  BY <1>1 DEF OwnIds, Creates
<1>2. ASSUME NEW c \in Call, Begin(r, c) PROVE OwnIds'
  <2>1. /\ call' = [call EXCEPT ![r] = c]
        /\ c.op = "create" => c.id \notin used /\ used' = used \cup {c.id}
        /\ used \subseteq used'
    BY <1>2 DEF Begin
  <2>2. call'[r] = c /\ \A q \in Requests \ {r} : call'[q] = call[q]
    BY <2>1 DEF TypeOK
  <2>3. \A q \in Requests \ {r} : Creates(q)' <=> Creates(q)
    BY <2>2 DEF Creates
  <2>4. Creates(r)' => c.op = "create"
    BY <2>2 DEF Creates
  <2> QED BY <2>1, <2>2, <2>3, <2>4 DEF OwnIds
<1> QED BY <1>1, <1>2, CallFrame

(* Clients are told the truth.                                             *)
LEMMA ToldStep ==
  ASSUME Inv, OwnIds, Told, NEW r \in Requests, StepOf(r)
  PROVE  Told'
<1>T. TypeOK /\ ControlOK(r) /\ ClaimOK(r) /\ EventsOK
  BY DEF Inv
<1>1. ASSUME Creates(r)'
      PROVE  /\ reply'[r] # NoReply /\ reply'[r].status = "ok" => call'[r].id \in events'
             /\ pc'[r] = "answer" => call'[r].id \in events'
             /\ call'[r].id \in events' => IF reply'[r] = NoReply THEN pc'[r] = "answer"
                                          ELSE reply'[r].status \in {"ok", "unavailable"}
  <2>1. ASSUME NEW c \in Call, Begin(r, c)
        PROVE  /\ reply'[r] = NoReply /\ pc'[r] # "answer"
               /\ call'[r].id \notin events'
    <3>1. call'[r] = c /\ events' = events /\ reply' = reply /\ pc[r] = "idle"
      BY <1>T, <2>1 DEF Begin, TypeOK
    <3>2. c.id \notin events
      BY <1>1, <1>T, <2>1, <3>1 DEF Begin, Creates, EventsOK
    <3>3. pc'[r] # "answer"
      BY <1>T, <2>1 DEF Begin, GoTo, TypeOK
    <3> QED BY <1>T, <3>1, <3>2, <3>3 DEF ControlOK
  <2>2. CASE UNCHANGED call /\ pc[r] \notin {"idle", "done"}
    <3>1. Creates(r) BY <1>1, <2>2 DEF Creates
    <3>2. CASE pc[r] = "answer"
      <4>1. call[r].id \in events BY <3>1, <3>2 DEF Told
      <4>2. ~ Persist(r) BY <3>2 DEF Persist
      <4> QED BY <1>T, <2>2, <3>1, <3>2, <4>1, <4>2, AnswerFrame
    <3>3. CASE pc[r] # "answer"
      <4>1. call[r].id \notin events BY <1>T, <2>2, <3>1, <3>3 DEF ClaimOK, Pending, Creates
      <4>2. Persist(r) => call[r].id \in events'
        BY <3>1, PersistFacts DEF Creates
      <4> QED BY <1>T, <2>2, <3>1, <3>3, <4>1, <4>2, AnswerFrame
    <3> QED BY <3>2, <3>3
  <2> QED BY <2>1, <2>2, CallFrame
<1>2. ASSUME NEW q \in Requests, q # r, Creates(q)'
      PROVE  /\ Creates(q) /\ call'[q] = call[q] /\ reply'[q] = reply[q] /\ pc'[q] = pc[q]
             /\ call[q].id \in events' <=> call[q].id \in events
  <2>1. Creates(q) /\ call'[q] = call[q] /\ reply'[q] = reply[q] /\ pc'[q] = pc[q]
    BY <1>T, <1>2, OthersUntouched DEF Creates
  <2>2. CASE Persist(r)
    <3>1. Creates(r) => call[r].id # call[q].id BY <1>2, <2>1 DEF OwnIds
    <3>2. call[r] # NoCall BY <1>T, <2>2 DEF ControlOK, Persist
    <3>3. call[r].op = "create" => events' = events \cup {call[r].id}
      BY <2>2, PersistFacts
    <3>4. call[r].op # "create" => events' = events
      BY <2>2, PersistFacts
    <3> QED BY <2>1, <3>1, <3>2, <3>3, <3>4 DEF Creates
  <2>3. CASE UNCHANGED events BY <2>1, <2>3
  <2> QED BY <1>T, <2>2, <2>3, DataFrame
<1> QED BY <1>1, <1>2 DEF Told

-----------------------------------------------------------------------------
(* The pipeline adds no row and takes none away: what a worker publishes   *)
(* has been pending.                                                       *)
LEMMA RowsStay ==
  ASSUME Delivery!Inv, PipelineStep, NEW i \in Ids
  PROVE  outbox'[i] = "absent" <=> outbox[i] = "absent"
<1>T. /\ outbox \in [Ids -> {"absent", "pending", "published"}]
      /\ batch \in [Workers -> SUBSET Ids]
      /\ \A w \in Workers : marked[w] \subseteq batch[w]
      /\ \A w \in Workers : \A e \in batch[w] : outbox[e] = "pending"
  BY DEF Delivery!Inv, Delivery!TypeOK, Delivery!WorkerInv
<1>1. ASSUME NEW w \in Workers, Pipeline!CommitBatch(w)
      PROVE  outbox'[i] = "absent" <=> outbox[i] = "absent"
  BY <1>1, <1>T DEF Pipeline!CommitBatch
<1>2. ASSUME NEW w \in Workers, Pipeline!WorkerNext(w), ~ Pipeline!CommitBatch(w)
      PROVE  outbox' = outbox
  BY <1>2 DEF Pipeline!WorkerNext, Pipeline!Connect, Pipeline!SelectBatch, Pipeline!Publish,
     Pipeline!Mark, Pipeline!AbortBatch, Pipeline!PublishTimeout, Pipeline!Rollback
<1>3. ASSUME NEW k \in Copies, Pipeline!BrokerNext(k) PROVE outbox' = outbox
  BY <1>3 DEF Pipeline!BrokerNext, Pipeline!Accept, Pipeline!LoseOnWire,
     Pipeline!PublishMalformed, Pipeline!Deliver
<1>4. ASSUME NEW c \in Consumers, Pipeline!ConsumerNext(c) PROVE outbox' = outbox
  BY <1>4 DEF Pipeline!ConsumerNext, Pipeline!Subscribe, Pipeline!SaveOnce, Pipeline!Ack,
     Pipeline!Nack, Pipeline!Answered, Pipeline!AnswerFails, Pipeline!LoseConnection,
     Pipeline!CrashConsumer, Pipeline!Disconnect, Pipeline!RejectMalformed,
     Pipeline!Handle, Pipeline!StorageFails
<1> QED BY <1>1, <1>2, <1>3, <1>4 DEF PipelineStep

(* Rows come with the commits of creations, one for one.                   *)
LEMMA CoupledStep ==
  ASSUME Inv, Delivery!Inv, Coupled, [SystemNext]_systemVars
  PROVE  Coupled'
<1>1. ASSUME UNCHANGED <<events, pipelineVars>> PROVE Coupled'
  BY <1>1 DEF Coupled, pipelineVars
<1>2. ASSUME NEW i \in Ids, events' = events \cup {i}, EventCommitted(i) PROVE Coupled'
  <2>1. outbox \in [Ids -> {"absent", "pending", "published"}]
    BY DEF Delivery!Inv, Delivery!TypeOK
  <2>2. \A j \in Ids : outbox'[j] # "absent" <=> outbox[j] # "absent" \/ j = i
    BY <1>2, <2>1 DEF EventCommitted, Pipeline!CommitCreate
  <2> QED BY <1>2, <2>2 DEF Coupled
<1>3. CASE PipelineStep
  <2>1. events' = events BY <1>3 DEF PipelineStep, vars
  <2> QED BY <1>3, <2>1, RowsStay DEF Coupled
<1>4. CASE AtRest \/ UNCHANGED systemVars
  BY <1>1, <1>4 DEF AtRest, systemVars, vars
<1> QED BY <1>1, <1>2, <1>3, <1>4 DEF SystemNext, ServiceStep

LEMMA SystemInvInductive ==
  /\ SystemInit => SystemInv
  /\ SystemInv /\ [SystemNext]_systemVars => SystemInv'
<1>1. SystemInit => SystemInv
  <2> SUFFICES ASSUME SystemInit PROVE SystemInv
    OBVIOUS
  <2>1. Inv BY InvInit DEF SystemInit
  <2>2. Coupled /\ OwnIds /\ Told
    BY DEF SystemInit, Init, Pipeline!Init, Coupled, OwnIds, Told, Creates
  <2> QED BY <2>1, <2>2, DeliveryInv DEF SystemInv
<1>2. SystemInv /\ [SystemNext]_systemVars => SystemInv'
  <2> SUFFICES ASSUME SystemInv, [SystemNext]_systemVars PROVE SystemInv'
    OBVIOUS
  <2>I. Inv /\ Delivery!Inv /\ Coupled /\ OwnIds /\ Told
    BY DEF SystemInv
  <2>1. Inv' BY <2>I, ServiceRefines, InvInductive
  <2>2. Delivery!Inv' BY <2>I, DeliveryInv
  <2>3. Coupled' BY <2>I, CoupledStep
  <2>4. ASSUME UNCHANGED vars PROVE OwnIds' /\ Told'
    BY <2>I, <2>4 DEF vars, OwnIds, Told, Creates
  <2>5. ASSUME NEW r \in Requests, ServiceStep(r) PROVE OwnIds' /\ Told'
    <3>1. StepOf(r) BY <2>5 DEF ServiceStep, StepOf
    <3> QED BY <2>I, <3>1, OwnIdsStep, ToldStep DEF Inv
  <2>6. OwnIds' /\ Told'
    BY <2>4, <2>5 DEF SystemNext, PipelineStep, AtRest, systemVars
  <2> QED BY <2>1, <2>2, <2>3, <2>6 DEF SystemInv
<1> QED BY <1>1, <1>2

LEMMA SystemInvariance == SystemSafe => []SystemInv
  BY SystemInvInductive, PTL DEF SystemSafe

-----------------------------------------------------------------------------
(* In the system the itinerary service runs as ItineraryStore describes    *)
(* it: what ItineraryStoreProofs proves of it holds of the system.         *)
THEOREM ServiceRuns == SystemSafe => SafeSpec
<1>1. SystemInit => Init BY DEF SystemInit
<1> QED BY <1>1, ServiceRefines, PTL DEF SystemSafe, SafeSpec

(* In the system the pipeline runs as OutboxDelivery describes it, its     *)
(* creations being those the service commits: what OutboxDeliveryProofs    *)
(* proves of it holds of the system.                                       *)
THEOREM PipelineRuns == SystemSafe => Pipeline!SafeSpec
<1>1. SystemInit => Pipeline!Init BY DEF SystemInit
<1> QED BY <1>1, PipelineRefines, PTL DEF SystemSafe, Pipeline!SafeSpec

LEMMA DeliveryRuns == SystemSafe => Delivery!SafeSpec
<1>1. Pipeline!SafeSpec => Delivery!SafeSpec
  <2>1. Pipeline!Init => Delivery!Init BY SamePipeline
  <2>2. [Pipeline!Next]_(Pipeline!vars) => [Delivery!Next]_(Delivery!vars) BY SamePipeline
  <2> QED BY <2>1, <2>2, PTL DEF Pipeline!SafeSpec, Delivery!SafeSpec
<1> QED BY <1>1, PipelineRuns

(* Whatever is on its way or has arrived was committed.                    *)
LEMMA AnnouncedIsCommitted ==
  ASSUME SystemInv, NEW i \in Ids, Announced(i)
  PROVE  i \in events
<1>1. /\ \A k \in Copies : msg[k] \in Ids => outbox[msg[k]] # "absent"
      /\ notified[i] > 0 => outbox[i] # "absent"
  BY DEF SystemInv, Delivery!Inv, Delivery!CopyInv, Delivery!RowInv
<1> QED BY <1>1 DEF Announced, SystemInv, Coupled

(* What is committed is on record.                                         *)
LEMMA CommittedIsOnRecord ==
  ASSUME SystemInv, NEW i \in events
  PROVE  OnRecord(i)
<1>1. i \in Ids /\ outbox[i] # "absent"
  BY DEF SystemInv, Inv, TypeOK, Coupled
<1>2. outbox[i] \in {"pending", "published"}
  BY <1>1 DEF SystemInv, Delivery!Inv, Delivery!TypeOK
<1>3. outbox[i] = "published" => Pipeline!Held(i)
  BY <1>1 DEF SystemInv, Delivery!Inv, Delivery!RowInv, Delivery!HeldEvents, Delivery!Held,
     Pipeline!Held
<1> QED BY <1>2, <1>3 DEF OnRecord

(* A creation answered 201 has its event on record ever after; one that is *)
(* refused has nothing published, before its answer or after.  The event   *)
(* may go out between the commit and the answer, which is then 201 or 503. *)
THEOREM AnswersKept == SystemSafe => []AnswerIsKept
<1>1. SystemInv => AnswerIsKept
  <2> SUFFICES ASSUME SystemInv, NEW r \in Requests, Creates(r)
               PROVE  /\ reply[r] # NoReply /\ reply[r].status = "ok"
                            => OnRecord(call[r].id)
                      /\ Announced(call[r].id) =>
                            IF reply[r] = NoReply THEN pc[r] = "answer"
                            ELSE reply[r].status \in {"ok", "unavailable"}
    BY DEF AnswerIsKept
  <2>1. call[r].id \in Ids BY DEF SystemInv, Inv, TypeOK, Creates, Call
  <2>2. Told BY DEF SystemInv
  <2>3. call[r].id \in events => OnRecord(call[r].id) BY CommittedIsOnRecord
  <2>4. Announced(call[r].id) => call[r].id \in events BY <2>1, AnnouncedIsCommitted
  <2> QED BY <2>2, <2>3, <2>4 DEF Told
<1> QED BY <1>1, SystemInvariance, PTL

(* Only itineraries that clients have stored are notified, and once.  This *)
(* is the pipeline's contract, whose committed rows are the events of the  *)
(* service.                                                                *)
THEOREM SystemNotifies == SystemSafe => Notify!SafeSpec
<1>1. SystemInit => Notify!Init
  BY DEF SystemInit, Init, Pipeline!Init, Notify!Init
<1>2. SystemSafe => Delivery!Contract!SafeSpec
  BY DeliveryRuns, Delivery!ImplementsContract, EventAssumption, MessageAssumption,
     CopyAssumption, PlaceAssumption, PipelineBounds
<1> DEFINE Agreed == events = {i \in Ids : outbox[i] # "absent"}
<1>3. SystemInv => Agreed
  BY DEF SystemInv, Inv, TypeOK, Coupled
<1>4. Agreed /\ Agreed' /\ [Delivery!Contract!Next]_(Delivery!Contract!contractVars)
        => [Notify!Next]_(Notify!contractVars)
  BY DEF Delivery!Contract!Next, Delivery!Contract!Commit, Delivery!Contract!Deliver,
     Delivery!Contract!contractVars, Notify!Next, Notify!Commit, Notify!Deliver,
     Notify!contractVars
<1> HIDE DEF Agreed
<1> QED BY <1>1, <1>2, <1>3, <1>4, SystemInvariance, PTL
        DEF SystemSafe, Delivery!Contract!SafeSpec, Notify!SafeSpec

(* The clients' contract and the notifications' contract hold together, of *)
(* the same itineraries: requests take effect one at a time or not at all, *)
(* and only what they stored is notified, once.                            *)
THEOREM SystemImplementsContracts == SystemSafe => Contract!SafeSpec /\ Notify!SafeSpec
  BY ServiceRuns, ImplementsContract, SystemNotifies

(* Every stored itinerary, deleted since or not, has its event on record,  *)
(* at most one notification, and no copy in the dead-letter queue.         *)
StoredIsNotForgotten ==
  \A i \in events : /\ OnRecord(i)
                    /\ notified[i] <= 1
                    /\ \A k \in Copies : msg[k] = i => place[k] # "dead"

(* So it is at every instant of every run, whatever the client was told:   *)
(* also when the 201 was lost and turned into a 503.                       *)
THEOREM NothingStoredIsForgotten == SystemSafe => []StoredIsNotForgotten
<1>1. SystemInv => StoredIsNotForgotten
  <2> SUFFICES ASSUME SystemInv, NEW i \in events
               PROVE  /\ OnRecord(i)
                      /\ notified[i] <= 1
                      /\ \A k \in Copies : msg[k] = i => place[k] # "dead"
    BY DEF StoredIsNotForgotten
  <2>1. i \in Ids BY DEF SystemInv, Inv, TypeOK
  <2>2. notified[i] <= 1 BY <2>1 DEF SystemInv, Delivery!Inv, Delivery!RowInv
  <2>3. \A k \in Copies : msg[k] = i => place[k] # "dead"
    BY <2>1, MessageAssumption DEF SystemInv, Delivery!Inv, Delivery!CopyInv
  <2> QED BY <2>2, <2>3, CommittedIsOnRecord
<1> QED BY <1>1, SystemInvariance, PTL

(* What requests do to the events does not disturb the pipeline: in the    *)
(* system, too, an event that is safe stays safe, no event is sent twice   *)
(* while nothing has failed, and retries run out when failures stop.       *)
THEOREM PipelineKeepsItsPromises ==
  SystemSafe => Delivery!SafeForGood /\ Delivery!OnlyFailuresRepeat /\ Delivery!RetriesAreOwed
  BY DeliveryRuns, Delivery!HeldIsForever, Delivery!DuplicatesNeedFailures,
     Delivery!RetriesRunOut, EventAssumption, MessageAssumption, CopyAssumption,
     PlaceAssumption, PipelineBounds
=============================================================================
