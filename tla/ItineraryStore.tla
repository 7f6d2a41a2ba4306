--------------------------- MODULE ItineraryStore ---------------------------
(***************************************************************************)
(* The itinerary service (application/service.py) on its database          *)
(* (infrastructure/database.py): concurrent create, get, update and delete *)
(* requests.                                                               *)
(*                                                                         *)
(* An update reads the itinerary in one transaction, validates its         *)
(* airports over HTTP with no transaction open, and writes in a second     *)
(* transaction that locks the row again.  Every await is a step boundary;  *)
(* a transaction's writes become visible when it commits, which is before  *)
(* the client is answered.                                                 *)
(***************************************************************************)
EXTENDS Naturals, FiniteSets

CONSTANTS
  Requests,     \* requests, each served once
  Ids,          \* itinerary ids (uuid4)
  Users,        \* authenticated subjects
  Data,         \* itinerary inputs that pass the schema
  Valid,        \* those that satisfy the rules of domain/models.py
  MaxFailures,  \* bound on the failures of a behaviour
  NoRow, NoCall, NoReply, NoRequest

Row == [user : Users, data : Valid]
Call == [op : {"create", "update"}, user : Users, id : Ids, data : Data]
        \cup [op : {"get", "delete"}, user : Users, id : Ids]
Labels == {"idle", "build", "read", "validate", "add", "addEvent", "lock", "write",
           "delete", "commit", "answer", "done"}
Reply == [status : {"ok", "invalid", "missing", "unavailable"}, body : Row \cup {NoRow}]

ASSUME DataAssumption == Valid \subseteq Data
ASSUME NullAssumption == /\ NoRow \notin Row
                         /\ NoCall \notin Call
                         /\ NoReply \notin Reply
                         /\ NoRequest \notin Requests
ASSUME FailureAssumption == MaxFailures \in Nat

VARIABLES
  rows,       \* committed itineraries table
  events,     \* itineraries with a committed outbox row
  lock,       \* the request whose transaction locks each row
  used,       \* every id uuid4 has returned
  call, pc,   \* the call of each request and where its handler is
  unsaved,    \* the writes flushed in its open transaction
  outcome,    \* what it will answer, once its transaction has ended well
  reply,      \* its answer
  failures    \* failures so far

vars == <<rows, events, lock, used, call, pc, unsaved, outcome, reply, failures>>

(* A transaction's flushed writes: the row (NoRow to delete it), and       *)
(* whether an outbox row goes with it.                                     *)
Nothing == [row |-> NoRow, event |-> FALSE]

Init ==
  /\ rows = [i \in Ids |-> NoRow]
  /\ events = {}
  /\ lock = [i \in Ids |-> NoRequest]
  /\ used = {}
  /\ call = [r \in Requests |-> NoCall]
  /\ pc = [r \in Requests |-> "idle"]
  /\ unsaved = [r \in Requests |-> Nothing]
  /\ outcome = [r \in Requests |-> NoReply]
  /\ reply = [r \in Requests |-> NoReply]
  /\ failures = 0

GoTo(r, l) == pc' = [pc EXCEPT ![r] = l]

(* The handler of r returns a body or raises.                              *)
Answer(r, status, body) ==
  /\ reply' = [reply EXCEPT ![r] = [status |-> status, body |-> body]]
  /\ GoTo(r, "done")

(* The handler of r has its result, but is still to close the session and  *)
(* to return.                                                              *)
Ready(r, body) ==
  /\ outcome' = [outcome EXCEPT ![r] = [status |-> "ok", body |-> body]]
  /\ GoTo(r, "answer")

(* WHERE id = ... AND user_id = ... finds the committed row.               *)
Owned(c) == rows[c.id] # NoRow /\ rows[c.id].user = c.user

(* Mutant: update skips the domain rules.                                  *)
AcceptAnything(d) == TRUE

(* The domain rules of Itinerary.__post_init__.                            *)
Acceptable(d) == d \in Valid

(* A request arrives at its route; create draws a fresh uuid4.             *)
Begin(r, c) ==
  /\ pc[r] = "idle"
  /\ c.op = "create" => c.id \notin used
  /\ used' = IF c.op = "create" THEN used \cup {c.id} ELSE used
  /\ call' = [call EXCEPT ![r] = c]
  /\ GoTo(r, CASE c.op = "create" -> "build"
               [] c.op = "delete" -> "delete"
               [] OTHER -> "read")
  /\ UNCHANGED <<rows, events, lock, unsaved, outcome, reply, failures>>

(* create: the constructor applies the domain rules before any await.      *)
Build(r) ==
  /\ pc[r] = "build"
  /\ IF Acceptable(call[r].data)
     THEN GoTo(r, "validate") /\ UNCHANGED reply
     ELSE Answer(r, "invalid", NoRow)
  /\ UNCHANGED <<rows, events, lock, used, call, unsaved, outcome, failures>>

(* get, alone or as the first half of update: SELECT ... FOR UPDATE waits  *)
(* for the row's lock; its own transaction ends at once.  update then      *)
(* builds the new itinerary, which applies the domain rules.               *)
Read(r) ==
  /\ pc[r] = "read"
  /\ \/ ~ Owned(call[r]) /\ Answer(r, "missing", NoRow) /\ UNCHANGED outcome
     \/ /\ Owned(call[r])
        /\ lock[call[r].id] = NoRequest
        /\ \/ /\ call[r].op = "get"
              /\ Ready(r, rows[call[r].id])
              /\ UNCHANGED reply
           \/ /\ call[r].op = "update"
              /\ IF Acceptable(call[r].data)
                 THEN GoTo(r, "validate") /\ UNCHANGED reply
                 ELSE Answer(r, "invalid", NoRow)
              /\ UNCHANGED outcome
  /\ UNCHANGED <<rows, events, lock, used, call, unsaved, failures>>

(* _validate: both airports exist, one does not, or the catalogue cannot   *)
(* be asked.                                                               *)
Validate(r) ==
  /\ pc[r] = "validate"
  /\ \/ GoTo(r, IF call[r].op = "create" THEN "add" ELSE "lock") /\ UNCHANGED reply
     \/ Answer(r, "invalid", NoRow)
     \/ Answer(r, "unavailable", NoRow)
  /\ UNCHANGED <<rows, events, lock, used, call, unsaved, outcome, failures>>

(* Mutant: the row is added in a transaction of its own.                   *)
AddCommitted(r) ==
  /\ pc[r] = "add"
  /\ rows' = [rows EXCEPT ![call[r].id] = [user |-> call[r].user, data |-> call[r].data]]
  /\ unsaved' = [unsaved EXCEPT ![r].row = [user |-> call[r].user, data |-> call[r].data]]
  /\ GoTo(r, "addEvent")
  /\ UNCHANGED <<events, lock, used, call, outcome, reply, failures>>

(* uow.itineraries.add: the INSERT is flushed, not committed.              *)
AddItinerary(r) ==
  /\ pc[r] = "add"
  /\ unsaved' = [unsaved EXCEPT ![r].row = [user |-> call[r].user, data |-> call[r].data]]
  /\ GoTo(r, "addEvent")
  /\ UNCHANGED <<rows, events, lock, used, call, outcome, reply, failures>>

(* uow.outbox.add, in the same transaction.                                *)
AddEvent(r) ==
  /\ pc[r] = "addEvent"
  /\ unsaved' = [unsaved EXCEPT ![r].event = TRUE]
  /\ GoTo(r, "commit")
  /\ UNCHANGED <<rows, events, lock, used, call, outcome, reply, failures>>

(* Mutant: get reads without FOR UPDATE.                                   *)
ReadAgain(r) ==
  /\ pc[r] = "lock"
  /\ IF Owned(call[r]) THEN GoTo(r, "write") /\ UNCHANGED reply
                       ELSE Answer(r, "missing", NoRow)
  /\ UNCHANGED <<rows, events, lock, used, call, unsaved, outcome, failures>>

(* update's second transaction: get locks the row, or it is gone.          *)
LockRow(r) ==
  /\ pc[r] = "lock"
  /\ \/ /\ ~ Owned(call[r])
        /\ Answer(r, "missing", NoRow)
        /\ UNCHANGED lock
     \/ /\ Owned(call[r])
        /\ lock[call[r].id] = NoRequest
        /\ lock' = [lock EXCEPT ![call[r].id] = r]
        /\ GoTo(r, "write")
        /\ UNCHANGED reply
  /\ UNCHANGED <<rows, events, used, call, unsaved, outcome, failures>>

(* uow.itineraries.update: every field of the locked row is set, flushed.  *)
WriteRow(r) ==
  /\ pc[r] = "write"
  /\ unsaved' = [unsaved EXCEPT ![r].row = [user |-> call[r].user, data |-> call[r].data]]
  /\ GoTo(r, "commit")
  /\ UNCHANGED <<rows, events, lock, used, call, outcome, reply, failures>>

(* Mutant: DELETE ... WHERE id = ..., whoever the owner is.                *)
DeleteAnyRow(r) ==
  /\ pc[r] = "delete"
  /\ rows[call[r].id] # NoRow
  /\ lock[call[r].id] = NoRequest
  /\ lock' = [lock EXCEPT ![call[r].id] = r]
  /\ GoTo(r, "commit")
  /\ UNCHANGED <<rows, events, used, call, unsaved, outcome, reply, failures>>

(* delete: the DELETE locks the row; rowcount 0 means there is none.       *)
DeleteRow(r) ==
  /\ pc[r] = "delete"
  /\ \/ /\ ~ Owned(call[r])
        /\ Answer(r, "missing", NoRow)
        /\ UNCHANGED lock
     \/ /\ Owned(call[r])
        /\ lock[call[r].id] = NoRequest
        /\ lock' = [lock EXCEPT ![call[r].id] = r]
        /\ GoTo(r, "commit")
        /\ UNCHANGED reply
  /\ UNCHANGED <<rows, events, used, call, unsaved, outcome, failures>>

(* The transaction of r ends: its row lock is released.                    *)
EndTransaction(r) ==
  /\ lock' = [i \in Ids |-> IF lock[i] = r THEN NoRequest ELSE lock[i]]
  /\ unsaved' = [unsaved EXCEPT ![r] = Nothing]

(* The unit of work commits what was flushed.                              *)
Persist(r) ==
  /\ pc[r] = "commit"
  /\ rows' = [rows EXCEPT ![call[r].id] = unsaved[r].row]
  /\ events' = IF unsaved[r].event THEN events \cup {call[r].id} ELSE events
  /\ EndTransaction(r)
  /\ UNCHANGED <<used, call>>

(* __aexit__: the writes are there for everybody, while the handler still  *)
(* awaits the database's confirmation and the close of the session.        *)
Commit(r) == Persist(r) /\ Ready(r, unsaved[r].row) /\ UNCHANGED <<reply, failures>>

(* create and update return the itinerary they stored, get the one it      *)
(* read, delete no body.                                                   *)
Return(r) ==
  /\ pc[r] = "answer"
  /\ Answer(r, outcome[r].status, outcome[r].body)
  /\ UNCHANGED <<rows, events, lock, used, call, unsaved, outcome, failures>>

Failure == failures < MaxFailures /\ failures' = failures + 1

(* Mutant: an error leaves the session, its transaction and its locks open. *)
AbortKeepsLock(r) ==
  /\ pc[r] \notin {"idle", "done"}
  /\ Failure
  /\ Answer(r, "unavailable", NoRow)
  /\ UNCHANGED <<rows, events, lock, used, call, unsaved, outcome>>

(* The database fails or the process dies: rollback.  What is committed    *)
(* stays so: the confirmation of the commit may not come back, or the      *)
(* close of the session may fail, and a 503 is answered all the same.      *)
Abort(r) ==
  /\ pc[r] \notin {"idle", "done"}
  /\ Failure
  /\ Answer(r, "unavailable", NoRow)
  /\ EndTransaction(r)
  /\ UNCHANGED <<rows, events, used, call, outcome>>

-----------------------------------------------------------------------------
Serve(r) ==
  \/ Build(r) \/ Read(r) \/ Validate(r) \/ AddItinerary(r) \/ AddEvent(r)
  \/ LockRow(r) \/ WriteRow(r) \/ DeleteRow(r) \/ Commit(r) \/ Return(r)

(* Every request is served; no more arrive.                                *)
AllServed == (\A r \in Requests : pc[r] = "done") /\ UNCHANGED vars

Next ==
  \/ \E r \in Requests : \/ \E c \in Call : Begin(r, c)
                         \/ Serve(r) \/ Abort(r)
  \/ AllServed

SafeSpec == Init /\ [][Next]_vars

(* HTTP calls time out (30 s) and the database answers or fails, so every  *)
(* handler goes on; clients need not send anything.                        *)
Spec == SafeSpec /\ \A r \in Requests : WF_vars(Serve(r))

-----------------------------------------------------------------------------
(* Types; only rows that satisfy the domain rules are ever stored.         *)
TypeOK ==
  /\ rows \in [Ids -> Row \cup {NoRow}]
  /\ events \in SUBSET Ids
  /\ lock \in [Ids -> Requests \cup {NoRequest}]
  /\ used \in SUBSET Ids
  /\ call \in [Requests -> Call \cup {NoCall}]
  /\ pc \in [Requests -> Labels]
  /\ unsaved \in [Requests -> [row : Row \cup {NoRow}, event : BOOLEAN]]
  /\ outcome \in [Requests -> Reply \cup {NoReply}]
  /\ reply \in [Requests -> Reply \cup {NoReply}]
  /\ failures \in 0..MaxFailures

(* The unit of work of create is atomic: there is an itinerary only if     *)
(* there is its event, however the transaction ends.                       *)
ItineraryHasEvent == \A i \in Ids : rows[i] # NoRow => i \in events

(* "Lock inside the write transaction to avoid resurrecting a deleted      *)
(* record" (service.py:89): a deleted itinerary never comes back.          *)
NoResurrection == [][\A i \in events : rows[i] = NoRow => rows'[i] = NoRow]_vars

(* A row changes only by a call of its owner, and keeps its owner.         *)
OwnRowsOnly ==
  [][\A i \in Ids : rows[i] # NoRow /\ rows'[i] # rows[i] =>
       /\ \E r \in Requests : /\ pc[r] = "commit" /\ pc'[r] = "answer"
                              /\ call[r].id = i
                              /\ call[r].user = rows[i].user
       /\ rows'[i] # NoRow => rows'[i].user = rows[i].user]_vars

(* A locked row does not change under its holder.                          *)
LockedRowIsStable ==
  [][\A i \in Ids : lock[i] # NoRequest /\ rows'[i] # rows[i] => pc'[lock[i]] = "answer"]_vars

(* The service implements its contract: concurrent calls behave as if each *)
(* took effect at one instant, and each is answered, so no error path      *)
(* leaves a lock behind.                                                   *)
Contract == INSTANCE ItineraryContract
ContractSpec == Contract!Spec
=============================================================================
