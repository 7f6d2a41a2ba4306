------------------------------- MODULE System -------------------------------
(***************************************************************************)
(* From a client's request to its notification: the itinerary service      *)
(* (ItineraryStore) and the event pipeline (OutboxDelivery), which share   *)
(* the itinerary database.  The commit of a creation inserts the outbox    *)
(* row from which the pipeline starts.  Nothing else is shared: the two    *)
(* interleave and fail independently.                                      *)
(***************************************************************************)
EXTENDS ItineraryStore

CONSTANTS
  Malformed, Workers, Consumers, Copies, BatchSize, Prefetch,  \* as in OutboxDelivery
  MaxPipelineFailures,  \* bound on the failures of the pipeline
  NoEvent, NoCopy

(* An itinerary's id also names its event: what OutboxDelivery assumes of  *)
(* events is assumed of ids.                                               *)
ASSUME EventAssumption == Ids \subseteq Nat /\ NoEvent \notin Ids
ASSUME MessageAssumption == Malformed \cap Ids = {} /\ NoEvent \notin Malformed
ASSUME CopyAssumption == NoCopy \notin Copies
ASSUME PlaceAssumption == Consumers \cap {"free", "wire", "queue", "dead"} = {}
ASSUME PipelineBounds == /\ BatchSize \in Nat \ {0}
                         /\ Prefetch \in Nat \ {0}
                         /\ MaxPipelineFailures \in Nat

VARIABLES
  outbox, wstate, batch, marked, sending, awaiting, msg, place,
  cstate, event, tag, notified, pipelineFailures

pipelineVars == <<outbox, wstate, batch, marked, sending, awaiting, msg, place,
                  cstate, event, tag, notified, pipelineFailures>>
systemVars == <<vars, pipelineVars>>

Pipeline == INSTANCE OutboxDelivery WITH
              Events <- Ids, MaxFailures <- MaxPipelineFailures, failures <- pipelineFailures

SystemInit == Init /\ Pipeline!Init

-----------------------------------------------------------------------------
(* Mutant: the outbox row is added in a session that is never committed.   *)
EventForgotten(i) == UNCHANGED pipelineVars

(* The transaction that commits itinerary i commits its outbox row.        *)
EventCommitted(i) == Pipeline!CommitCreate(i)

(* A step of request r: the pipeline sees it only if it commits an event.  *)
ServiceStep(r) ==
  /\ (\E c \in Call : Begin(r, c)) \/ Serve(r) \/ Abort(r)
  /\ \/ UNCHANGED <<events, pipelineVars>>
     \/ \E i \in Ids \ events : events' = events \cup {i} /\ EventCommitted(i)

(* A step of a worker, the broker or a consumer.                           *)
PipelineStep ==
  /\ \/ \E w \in Workers : Pipeline!WorkerNext(w)
     \/ \E k \in Copies : Pipeline!BrokerNext(k)
     \/ \E c \in Consumers : Pipeline!ConsumerNext(c)
  /\ UNCHANGED vars

(* Every request is answered and every event handled: workers poll,        *)
(* consumers wait.                                                         *)
AtRest ==
  /\ \A r \in Requests : pc[r] = "done"
  /\ \A i \in Ids : outbox[i] # "pending"
  /\ \A k \in Copies : place[k] \in {"free", "dead"}
  /\ \A w \in Workers : wstate[w] = "idle"
  /\ \A c \in Consumers : cstate[c] = "idle"
  /\ UNCHANGED systemVars

SystemNext == (\E r \in Requests : ServiceStep(r)) \/ PipelineStep \/ AtRest

SystemSafe == SystemInit /\ [][SystemNext]_systemVars

(* The fairness of the two parts.                                          *)
SystemSpec == SystemSafe /\ Pipeline!Fairness /\ \A r \in Requests : WF_vars(Serve(r))

-----------------------------------------------------------------------------
Creates(r) == call[r] # NoCall /\ call[r].op = "create"

(* Something of the event of i is under way or has arrived.                *)
Announced(i) == \/ outbox[i] # "absent"
                \/ notified[i] > 0
                \/ \E k \in Copies : msg[k] = i

(* The event of i is on record: its row waits to be published, or what was *)
(* published is notified or still to be delivered.                         *)
OnRecord(i) == outbox[i] = "pending" \/ Pipeline!Held(i)

(* What a client is told of its creation agrees with what becomes of it:   *)
(* the event of one answered 201 is on record ever after, whoever crashes, *)
(* and one that is refused is never published, let alone notified, neither *)
(* before its answer nor after.  The event may overtake the 201, which the *)
(* handler still has to send when its commit is done; and a 503 leaves     *)
(* both open (the commit may have happened, database.py:129).              *)
AnswerIsKept ==
  \A r \in Requests : Creates(r) =>
    /\ reply[r] # NoReply /\ reply[r].status = "ok" => OnRecord(call[r].id)
    /\ Announced(call[r].id) => IF reply[r] = NoReply THEN pc[r] = "answer"
                                ELSE reply[r].status \in {"ok", "unavailable"}

(* "Notification not persisted within 60 seconds" (scripts/smoke.py:94)    *)
(* must not happen: with both parts at work, the contract of the           *)
(* notifications holds of the itineraries that clients have stored.  Each  *)
(* is notified, once, whatever fails in between and though it may be       *)
(* deleted at once; nothing else is.                                       *)
Notify == INSTANCE NotifyContract WITH
            Events <- Ids,
            committed <- events,
            delivered <- {i \in Ids : notified[i] > 0}
NotifySpec == Notify!Spec
=============================================================================
