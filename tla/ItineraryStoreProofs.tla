------------------------ MODULE ItineraryStoreProofs ------------------------
(***************************************************************************)
(* Proofs about ItineraryStore, for any number of requests, itineraries,   *)
(* users and inputs, and any failure budget.                               *)
(*                                                                         *)
(* The invariant follows a request through its handler: an uncommitted     *)
(* creation owns an id nobody else has written under, and an update or a   *)
(* deletion about to commit holds the lock of a row that is still there    *)
(* and still belongs to its user.  That makes each commit an atomic step   *)
(* of ItineraryContract.                                                   *)
(***************************************************************************)
EXTENDS ItineraryStore, TLAPS

New(c) == [user |-> c.user, data |-> c.data]

(* The handler of r has been called and has not answered.                  *)
Running(r) == pc[r] \notin {"idle", "done"}

(* Its transactions have not ended yet.                                    *)
Pending(r) == pc[r] \notin {"idle", "answer", "done"}

(* Where a handler is tells which operation it serves and, past the domain *)
(* rules, that its input satisfies them.                                   *)
ControlOK(r) ==
  /\ call[r] = NoCall <=> pc[r] = "idle"
  /\ reply[r] = NoReply <=> pc[r] # "done"
  /\ pc[r] = "answer" => outcome[r] # NoReply /\ outcome[r].status = "ok"
  /\ pc[r] \notin {"answer", "done"} => outcome[r] = NoReply
  /\ pc[r] \in {"build", "add", "addEvent"} => call[r].op = "create"
  /\ pc[r] = "read" => call[r].op \in {"get", "update"}
  /\ pc[r] = "validate" => call[r].op \in {"create", "update"}
  /\ pc[r] \in {"lock", "write"} => call[r].op = "update"
  /\ pc[r] = "delete" => call[r].op = "delete"
  /\ pc[r] = "commit" => call[r].op \in {"create", "update", "delete"}
  /\ pc[r] \in {"validate", "add", "addEvent", "lock", "write"} => call[r].data \in Valid
  /\ pc[r] = "commit" => call[r].op = "delete" \/ call[r].data \in Valid

(* What the open transaction of r has flushed.                             *)
UnsavedOK(r) ==
  /\ pc[r] = "addEvent" => unsaved[r] = [row |-> New(call[r]), event |-> FALSE]
  /\ pc[r] = "commit" /\ call[r].op = "create" =>
       unsaved[r] = [row |-> New(call[r]), event |-> TRUE]
  /\ pc[r] = "commit" /\ call[r].op = "update" =>
       unsaved[r] = [row |-> New(call[r]), event |-> FALSE]
  /\ pc[r] = "commit" /\ call[r].op = "delete" => unsaved[r] = Nothing
  /\ pc[r] \notin {"addEvent", "commit"} => unsaved[r] = Nothing

(* What r may count on when it commits.                                    *)
ClaimOK(r) ==
  /\ Pending(r) /\ call[r].op = "create" =>
       /\ call[r].id \in used
       /\ call[r].id \notin events
       /\ \A q \in Requests : q # r /\ Pending(q) /\ call[q].op = "create"
                                => call[q].id # call[r].id
  /\ pc[r] = "write" \/ (pc[r] = "commit" /\ call[r].op # "create") =>
       /\ lock[call[r].id] = r
       /\ Owned(call[r])

(* Locks are held by running writers, on their own row.                    *)
LocksOK == \A i \in Ids : lock[i] # NoRequest =>
             /\ pc[lock[i]] \in {"write", "commit"}
             /\ call[lock[i]].op # "create"
             /\ call[lock[i]].id = i

EventsOK == ItineraryHasEvent /\ events \subseteq used

Inv == /\ TypeOK
       /\ \A r \in Requests : ControlOK(r) /\ UnsavedOK(r) /\ ClaimOK(r)
       /\ LocksOK
       /\ EventsOK

USE DataAssumption, NullAssumption, FailureAssumption

(* The steps of request r.                                                 *)
StepOf(r) == \/ \E c \in Call : Begin(r, c)
             \/ Serve(r) \/ Abort(r)

LEMMA NextIsAStep == [Next]_vars => (\E r \in Requests : StepOf(r)) \/ UNCHANGED vars
  BY DEF Next, StepOf, AllServed

-----------------------------------------------------------------------------
(* A step of one request leaves the local state of the others alone.       *)
LEMMA OthersUntouched ==
  ASSUME TypeOK, NEW r \in Requests, StepOf(r), NEW q \in Requests, q # r
  PROVE  /\ call'[q] = call[q]
         /\ pc'[q] = pc[q]
         /\ reply'[q] = reply[q]
         /\ outcome'[q] = outcome[q]
         /\ unsaved'[q] = unsaved[q]
<1> DEFINE Same == /\ call'[q] = call[q]
                   /\ pc'[q] = pc[q]
                   /\ reply'[q] = reply[q]
                   /\ outcome'[q] = outcome[q]
                   /\ unsaved'[q] = unsaved[q]
<1> USE DEF TypeOK, GoTo, Answer, Ready, EndTransaction
<1>1. ASSUME NEW c \in Call, Begin(r, c) PROVE Same
  BY <1>1 DEF Begin
<1>2. CASE Build(r) \/ Read(r) \/ Validate(r)
  BY <1>2 DEF Build, Read, Validate
<1>3. CASE AddItinerary(r) \/ AddEvent(r) \/ WriteRow(r)
  BY <1>3 DEF AddItinerary, AddEvent, WriteRow
<1>4. CASE LockRow(r) \/ DeleteRow(r)
  BY <1>4 DEF LockRow, DeleteRow
<1>5. CASE Commit(r) \/ Return(r) \/ Abort(r)
  BY <1>5 DEF Commit, Return, Abort, Persist
<1> QED BY <1>1, <1>2, <1>3, <1>4, <1>5 DEF StepOf, Serve

(* Both ways a handler goes on are well typed.                             *)
LEMMA MoveTypes ==
  ASSUME TypeOK, NEW r \in Requests
  PROVE  /\ \A l \in Labels : GoTo(r, l) => pc' \in [Requests -> Labels]
         /\ \A s \in {"ok", "invalid", "missing", "unavailable"}, b \in Row \cup {NoRow} :
              Answer(r, s, b) => /\ pc' \in [Requests -> Labels]
                                 /\ reply' \in [Requests -> Reply \cup {NoReply}]
         /\ \A b \in Row \cup {NoRow} :
              Ready(r, b) => /\ pc' \in [Requests -> Labels]
                             /\ outcome' \in [Requests -> Reply \cup {NoReply}]
<1>1. \A l \in Labels : GoTo(r, l) => pc' \in [Requests -> Labels]
  BY DEF TypeOK, GoTo
<1>2. \A s \in {"ok", "invalid", "missing", "unavailable"}, b \in Row \cup {NoRow} :
        [status |-> s, body |-> b] \in Reply
  BY DEF Reply
<1>3. ASSUME NEW s \in {"ok", "invalid", "missing", "unavailable"},
             NEW b \in Row \cup {NoRow}, Answer(r, s, b)
      PROVE  /\ pc' \in [Requests -> Labels]
             /\ reply' \in [Requests -> Reply \cup {NoReply}]
  BY <1>1, <1>2, <1>3 DEF TypeOK, Answer, Labels
<1>4. ASSUME NEW b \in Row \cup {NoRow}, Ready(r, b)
      PROVE  /\ pc' \in [Requests -> Labels]
             /\ outcome' \in [Requests -> Reply \cup {NoReply}]
  BY <1>1, <1>2, <1>4 DEF TypeOK, Ready, Labels
<1> QED BY <1>1, <1>3, <1>4

(* Types are preserved.                                                    *)
LEMMA TypeStep == Inv /\ [Next]_vars => TypeOK'
<1> SUFFICES ASSUME Inv, NEW r \in Requests, StepOf(r) PROVE TypeOK'
  BY NextIsAStep DEF Inv, TypeOK, vars
<1>T. TypeOK /\ ControlOK(r) /\ UnsavedOK(r)
  BY DEF Inv
<1>G. \A l \in Labels : GoTo(r, l) => pc' \in [Requests -> Labels]
  BY <1>T, MoveTypes
<1>A. \A s \in {"ok", "invalid", "missing", "unavailable"}, b \in Row \cup {NoRow} :
        Answer(r, s, b) => /\ pc' \in [Requests -> Labels]
                           /\ reply' \in [Requests -> Reply \cup {NoReply}]
  BY <1>T, MoveTypes
<1>B. \A b \in Row \cup {NoRow} :
        Ready(r, b) => /\ pc' \in [Requests -> Labels]
                       /\ outcome' \in [Requests -> Reply \cup {NoReply}]
  BY <1>T, MoveTypes
<1>E. EndTransaction(r) => /\ lock' \in [Ids -> Requests \cup {NoRequest}]
                           /\ unsaved' \in [Requests -> [row : Row \cup {NoRow}, event : BOOLEAN]]
  BY <1>T DEF TypeOK, EndTransaction, Nothing
<1> USE DEF TypeOK
<1>1. ASSUME NEW c \in Call, Begin(r, c) PROVE TypeOK'
  BY <1>1, <1>T, <1>G DEF Begin, Call, Labels
<1>2. CASE Build(r)
  BY <1>2, <1>T, <1>G, <1>A DEF Build, Labels
<1>3. CASE Read(r)
  <2>1. Owned(call[r]) => rows[call[r].id] \in Row \cup {NoRow}
    BY <1>3, <1>T DEF Read, ControlOK, Call
  <2> QED BY <1>3, <1>T, <1>G, <1>A, <1>B, <2>1 DEF Read, Labels
<1>4. CASE Validate(r)
  BY <1>4, <1>T, <1>G, <1>A DEF Validate, Labels
<1>5. CASE AddItinerary(r) \/ WriteRow(r)
  <2>1. [user |-> call[r].user, data |-> call[r].data] \in Row
    BY <1>5, <1>T DEF AddItinerary, WriteRow, ControlOK, Row, Call
  <2>2. /\ unsaved' = [unsaved EXCEPT ![r].row = [user |-> call[r].user, data |-> call[r].data]]
        /\ UNCHANGED <<rows, events, lock, used, call, outcome, reply, failures>>
        /\ pc' \in [Requests -> Labels]
    BY <1>5, <1>G DEF AddItinerary, WriteRow, Labels
  <2>3. unsaved' \in [Requests -> [row : Row \cup {NoRow}, event : BOOLEAN]]
    BY <2>1, <2>2, <1>T
  <2> QED BY <2>2, <2>3, <1>T
<1>6. CASE AddEvent(r)
  BY <1>6, <1>T, <1>G DEF AddEvent, Labels
<1>7. CASE LockRow(r)
  BY <1>7, <1>T, <1>G, <1>A DEF LockRow, Labels
<1>8. CASE DeleteRow(r)
  BY <1>8, <1>T, <1>G, <1>A DEF DeleteRow, Labels
<1>9. ASSUME Persist(r)
      PROVE  /\ rows' \in [Ids -> Row \cup {NoRow}]
             /\ events' \in SUBSET Ids
             /\ UNCHANGED <<used, call>>
  BY <1>9, <1>T DEF Persist, ControlOK, Call
<1>10. CASE Commit(r)
  BY <1>10, <1>T, <1>B, <1>E, <1>9 DEF Commit, Persist
<1>11. CASE Return(r)
  <2>1. outcome[r] \in Reply
    BY <1>11, <1>T DEF Return, ControlOK
  <2>2. /\ outcome[r].status \in {"ok", "invalid", "missing", "unavailable"}
        /\ outcome[r].body \in Row \cup {NoRow}
    BY <2>1 DEF Reply
  <2>3. /\ pc' \in [Requests -> Labels]
        /\ reply' \in [Requests -> Reply \cup {NoReply}]
        /\ UNCHANGED <<rows, events, lock, used, call, unsaved, outcome, failures>>
    BY <1>11, <2>2, <1>A DEF Return
  <2> QED BY <2>3, <1>T
<1>12. CASE Abort(r)
  BY <1>12, <1>T, <1>A, <1>E DEF Abort, Failure
<1> QED BY <1>1, <1>2, <1>3, <1>4, <1>5, <1>6, <1>7, <1>8, <1>10, <1>11, <1>12
        DEF StepOf, Serve

-----------------------------------------------------------------------------
(* The handler that steps keeps its control and its transaction in order.  *)
LEMMA ControlStep ==
  ASSUME Inv, NEW r \in Requests, StepOf(r)
  PROVE  ControlOK(r)'
<1>T. TypeOK /\ ControlOK(r)
  BY DEF Inv
<1>N. \A s, b : [status |-> s, body |-> b] \in Reply => [status |-> s, body |-> b] # NoReply
  BY NullAssumption
<1>R. \A s \in {"ok", "invalid", "missing", "unavailable"}, b \in Row \cup {NoRow} :
        [status |-> s, body |-> b] # NoReply
  BY <1>N DEF Reply
<1>C. pc[r] # "idle" => call[r] \in Call /\ call[r] # NoCall
  BY <1>T DEF TypeOK, ControlOK
<1>D. \A s \in {"ok", "invalid", "missing", "unavailable"}, b \in Row \cup {NoRow} :
        Answer(r, s, b) => pc'[r] = "done" /\ reply'[r] # NoReply
  BY <1>T, <1>R DEF TypeOK, Answer, GoTo
<1>B. \A b \in Row \cup {NoRow} :
        Ready(r, b) => /\ pc'[r] = "answer"
                       /\ outcome'[r] # NoReply /\ outcome'[r].status = "ok"
  BY <1>T, <1>R DEF TypeOK, Ready, GoTo
<1> USE DEF ControlOK, GoTo
<1>1. ASSUME NEW c \in Call, Begin(r, c) PROVE ControlOK(r)'
  <2>1. call'[r] = c /\ c # NoCall /\ reply'[r] = NoReply /\ outcome'[r] = NoReply
    BY <1>1, <1>T DEF Begin, TypeOK
  <2>2. pc'[r] = CASE c.op = "create" -> "build"
                   [] c.op = "delete" -> "delete"
                   [] OTHER -> "read"
    BY <1>1, <1>T DEF Begin, TypeOK
  <2>3. c.op \in {"create", "update", "get", "delete"}
    BY DEF Call
  <2> QED BY <2>1, <2>2, <2>3
<1>2. CASE Build(r)
  BY <1>2, <1>T, <1>C, <1>D DEF Build, TypeOK, Acceptable
<1>3. CASE Read(r)
  <2>1. Owned(call[r]) => rows[call[r].id] \in Row \cup {NoRow}
    BY <1>3, <1>C, <1>T DEF Read, TypeOK, Call
  <2>2. call[r].op \in {"get", "update"} /\ call' = call /\ outcome[r] = NoReply
    BY <1>3, <1>T DEF Read
  <2>3. CASE Ready(r, rows[call[r].id]) /\ Owned(call[r]) /\ reply' = reply
    BY <1>3, <1>T, <1>B, <1>C, <2>1, <2>2, <2>3 DEF Read
  <2>4. CASE pc'[r] = "done" /\ reply'[r] # NoReply
    BY <1>3, <1>C, <2>2, <2>4 DEF Read
  <2>5. CASE GoTo(r, "validate") /\ Acceptable(call[r].data) /\ call[r].op = "update"
             /\ UNCHANGED <<reply, outcome>>
    BY <1>3, <1>T, <1>C, <2>2, <2>5 DEF Read, TypeOK, Acceptable
  <2> QED BY <1>3, <1>D, <2>3, <2>4, <2>5 DEF Read
<1>4. CASE Validate(r)
  BY <1>4, <1>T, <1>C, <1>D DEF Validate, TypeOK
<1>5. CASE AddItinerary(r) \/ AddEvent(r) \/ WriteRow(r)
  BY <1>5, <1>T, <1>C DEF AddItinerary, AddEvent, WriteRow, TypeOK
<1>6. CASE LockRow(r) \/ DeleteRow(r)
  BY <1>6, <1>T, <1>C, <1>D DEF LockRow, DeleteRow, TypeOK
<1>7. CASE Commit(r)
  <2>1. unsaved[r].row \in Row \cup {NoRow}
    BY <1>T DEF TypeOK
  <2>2. /\ pc[r] = "commit" /\ pc'[r] = "answer" /\ UNCHANGED <<call, reply>>
        /\ outcome'[r] # NoReply /\ outcome'[r].status = "ok"
    BY <1>7, <1>B, <2>1 DEF Commit, Persist
  <2> QED BY <2>2, <1>C, <1>T
<1>9. CASE Return(r)
  <2>1. outcome[r] \in Reply
    BY <1>9, <1>T DEF Return, TypeOK
  <2>2. /\ outcome[r].status \in {"ok", "invalid", "missing", "unavailable"}
        /\ outcome[r].body \in Row \cup {NoRow}
    BY <2>1 DEF Reply
  <2>3. pc'[r] = "done" /\ reply'[r] # NoReply /\ call' = call /\ pc[r] = "answer"
    BY <1>9, <1>D, <2>2 DEF Return
  <2> QED BY <2>3, <1>C
<1>8. CASE Abort(r)
  <2>1. pc'[r] = "done" /\ reply'[r] # NoReply /\ call' = call /\ pc[r] # "idle"
    BY <1>8, <1>D DEF Abort
  <2> QED BY <2>1, <1>C
<1> QED BY <1>1, <1>2, <1>3, <1>4, <1>5, <1>6, <1>7, <1>8, <1>9 DEF StepOf, Serve

LEMMA UnsavedStep ==
  ASSUME Inv, NEW r \in Requests, StepOf(r)
  PROVE  UnsavedOK(r)'
<1>T. TypeOK /\ ControlOK(r) /\ UnsavedOK(r)
  BY DEF Inv
<1>D. /\ \A s, b : Answer(r, s, b) => pc'[r] = "done"
      /\ \A b : Ready(r, b) => pc'[r] = "answer"
  BY <1>T DEF TypeOK, Answer, Ready, GoTo
<1>P. TypeOK'
  BY TypeStep DEF Next, StepOf
<1>E. EndTransaction(r) => unsaved'[r] = Nothing
  BY <1>T DEF TypeOK, EndTransaction
<1> USE DEF UnsavedOK, GoTo
<1>1. ASSUME NEW c \in Call, Begin(r, c) PROVE UnsavedOK(r)'
  <2>1. pc[r] = "idle" /\ pc'[r] \in {"build", "delete", "read"} /\ unsaved' = unsaved
    BY <1>1, <1>T DEF Begin, TypeOK
  <2> QED BY <2>1, <1>T
<1>2. CASE Build(r) \/ Read(r) \/ Validate(r)
  <2>1. /\ pc[r] \in {"build", "read", "validate"}
        /\ pc'[r] \in {"answer", "done", "validate", "add", "lock"}
        /\ unsaved' = unsaved
    BY <1>2, <1>T, <1>D DEF Build, Read, Validate, TypeOK
  <2> QED BY <2>1, <1>T
<1>3. CASE AddItinerary(r)
  <2>1. pc[r] = "add" /\ pc'[r] = "addEvent" /\ call' = call
    BY <1>3, <1>T DEF AddItinerary, TypeOK
  <2>2. unsaved'[r].row = New(call[r]) /\ unsaved'[r].event = unsaved[r].event
    BY <1>3, <1>T DEF AddItinerary, TypeOK, New
  <2>3. unsaved[r] = [row |-> NoRow, event |-> FALSE]
    BY <2>1, <1>T DEF Nothing
  <2>5. unsaved'[r].event = FALSE
    BY <2>2, <2>3
  <2>4. unsaved'[r] = [row |-> New(call[r]), event |-> FALSE]
    BY <2>2, <2>5, <1>P DEF TypeOK
  <2> QED BY <2>1, <2>4 DEF New
<1>4. CASE AddEvent(r)
  <2>1. pc[r] = "addEvent" /\ pc'[r] = "commit" /\ call' = call /\ call[r].op = "create"
    BY <1>4, <1>T DEF AddEvent, TypeOK, ControlOK
  <2>2. unsaved'[r].event = TRUE /\ unsaved'[r].row = unsaved[r].row
    BY <1>4, <1>T DEF AddEvent, TypeOK
  <2>3. unsaved[r] = [row |-> New(call[r]), event |-> FALSE]
    BY <2>1, <1>T
  <2>4. unsaved'[r] = [row |-> New(call[r]), event |-> TRUE]
    BY <2>2, <2>3, <1>P DEF TypeOK
  <2> QED BY <2>1, <2>4 DEF New
<1>5. CASE WriteRow(r)
  <2>1. pc[r] = "write" /\ pc'[r] = "commit" /\ call' = call /\ call[r].op = "update"
    BY <1>5, <1>T DEF WriteRow, TypeOK, ControlOK
  <2>2. unsaved'[r].row = New(call[r]) /\ unsaved'[r].event = unsaved[r].event
    BY <1>5, <1>T DEF WriteRow, TypeOK, New
  <2>3. unsaved[r] = [row |-> NoRow, event |-> FALSE]
    BY <2>1, <1>T DEF Nothing
  <2>5. unsaved'[r].event = FALSE
    BY <2>2, <2>3
  <2>4. unsaved'[r] = [row |-> New(call[r]), event |-> FALSE]
    BY <2>2, <2>5, <1>P DEF TypeOK
  <2> QED BY <2>1, <2>4 DEF New
<1>6. CASE LockRow(r)
  <2>1. pc[r] = "lock" /\ pc'[r] \in {"done", "write"} /\ unsaved' = unsaved
    BY <1>6, <1>T, <1>D DEF LockRow, TypeOK
  <2> QED BY <2>1, <1>T
<1>7. CASE DeleteRow(r)
  <2>1. /\ pc[r] = "delete" /\ pc'[r] \in {"done", "commit"} /\ unsaved' = unsaved
        /\ call' = call /\ call[r].op = "delete"
    BY <1>7, <1>T, <1>D DEF DeleteRow, TypeOK, ControlOK
  <2> QED BY <2>1, <1>T
<1>8. CASE Commit(r) \/ Return(r) \/ Abort(r)
  <2>1. pc'[r] \in {"answer", "done"} /\ unsaved'[r] = Nothing
    BY <1>8, <1>T, <1>D, <1>E DEF Commit, Return, Abort, Persist
  <2> QED BY <2>1
<1> QED BY <1>1, <1>2, <1>3, <1>4, <1>5, <1>6, <1>7, <1>8 DEF StepOf, Serve

-----------------------------------------------------------------------------
(* What a commit does, operation by operation.                             *)
LEMMA PersistFacts ==
  ASSUME Inv, NEW r \in Requests, Persist(r)
  PROVE  LET c == call[r] IN
         /\ c \in Call
         /\ c.op \in {"create", "update", "delete"}
         /\ c.op = "create" => /\ c.id \notin events /\ rows[c.id] = NoRow
                               /\ rows' = [rows EXCEPT ![c.id] = New(c)]
                               /\ events' = events \cup {c.id}
         /\ c.op # "create" => /\ lock[c.id] = r /\ Owned(c)
                               /\ events' = events
         /\ c.op = "update" => rows' = [rows EXCEPT ![c.id] = New(c)]
         /\ c.op = "delete" => rows' = [rows EXCEPT ![c.id] = NoRow]
         /\ c.op # "delete" => c.data \in Valid
<1>T. /\ TypeOK /\ ControlOK(r) /\ UnsavedOK(r) /\ ClaimOK(r) /\ EventsOK
      /\ pc[r] = "commit"
  BY DEF Inv, Persist
<1>1. call[r] \in Call /\ call[r].op \in {"create", "update", "delete"} /\ call[r].id \in Ids
  BY <1>T DEF ControlOK, TypeOK, Call
<1>2. call[r].op # "delete" => call[r].data \in Valid
  BY <1>T DEF ControlOK
<1>3. CASE call[r].op = "create"
  <2>1. unsaved[r].row = New(call[r]) /\ unsaved[r].event = TRUE
    BY <1>T, <1>3 DEF UnsavedOK
  <2>2. call[r].id \notin events
    BY <1>T, <1>3 DEF ClaimOK, Pending
  <2>3. rows[call[r].id] = NoRow
    BY <1>T, <1>1, <2>2 DEF EventsOK, ItineraryHasEvent
  <2> QED BY <1>1, <1>2, <1>3, <2>1, <2>2, <2>3 DEF Persist
<1>4. CASE call[r].op # "create"
  <2>1. lock[call[r].id] = r /\ Owned(call[r])
    BY <1>T, <1>4 DEF ClaimOK
  <2>2. /\ unsaved[r].event = FALSE
        /\ call[r].op = "update" => unsaved[r].row = New(call[r])
        /\ call[r].op = "delete" => unsaved[r].row = NoRow
    BY <1>T, <1>1, <1>4 DEF UnsavedOK, Nothing
  <2> QED BY <1>1, <1>2, <1>4, <2>1, <2>2 DEF Persist
<1> QED BY <1>3, <1>4

(* Committed data changes only by a commit.                                *)
LEMMA DataFrame ==
  ASSUME TypeOK, NEW r \in Requests, StepOf(r)
  PROVE  \/ UNCHANGED <<rows, events>>
         \/ Persist(r) /\ pc'[r] = "answer"
<1> DEFINE Same == UNCHANGED <<rows, events>>
<1>D. /\ \A s, b : Answer(r, s, b) => pc'[r] = "done"
      /\ \A b : Ready(r, b) => pc'[r] = "answer"
  BY DEF TypeOK, Answer, Ready, GoTo
<1>1. ASSUME NEW c \in Call, Begin(r, c) PROVE Same
  BY <1>1 DEF Begin
<1>2. CASE Build(r) \/ Read(r) \/ Validate(r)
  BY <1>2 DEF Build, Read, Validate
<1>3. CASE AddItinerary(r) \/ AddEvent(r) \/ WriteRow(r)
  BY <1>3 DEF AddItinerary, AddEvent, WriteRow
<1>4. CASE LockRow(r) \/ DeleteRow(r) \/ Return(r) \/ Abort(r)
  BY <1>4 DEF LockRow, DeleteRow, Return, Abort
<1>5. CASE Commit(r)
  BY <1>5, <1>D DEF Commit
<1> QED BY <1>1, <1>2, <1>3, <1>4, <1>5 DEF StepOf, Serve

(* A lock is taken when it is free and the row is the caller's, and        *)
(* released by the end of the transaction.                                 *)
Takes(r) ==
  /\ pc[r] \in {"lock", "delete"} /\ pc'[r] \in {"write", "commit"}
  /\ Owned(call[r])
  /\ lock[call[r].id] = NoRequest
  /\ lock' = [lock EXCEPT ![call[r].id] = r]
  /\ UNCHANGED <<rows, call>>

LEMMA LockFrame ==
  ASSUME TypeOK, NEW r \in Requests, StepOf(r)
  PROVE  \/ UNCHANGED lock
         \/ Takes(r)
         \/ EndTransaction(r) /\ ~ Pending(r)'
<1> DEFINE Goal == \/ UNCHANGED lock
                   \/ Takes(r)
                   \/ EndTransaction(r) /\ ~ Pending(r)'
<1>D. /\ \A s, b : Answer(r, s, b) => pc'[r] = "done"
      /\ \A b : Ready(r, b) => pc'[r] = "answer"
  BY DEF TypeOK, Answer, Ready, GoTo
<1>1. ASSUME NEW c \in Call, Begin(r, c) PROVE Goal
  BY <1>1 DEF Begin
<1>2. CASE Build(r) \/ Read(r) \/ Validate(r)
  BY <1>2 DEF Build, Read, Validate
<1>3. CASE AddItinerary(r) \/ AddEvent(r) \/ WriteRow(r)
  BY <1>3 DEF AddItinerary, AddEvent, WriteRow
<1>4. CASE LockRow(r) \/ DeleteRow(r)
  BY <1>4 DEF LockRow, DeleteRow, TypeOK, GoTo, Takes
<1>5. CASE Commit(r) \/ Return(r) \/ Abort(r)
  BY <1>5, <1>D DEF Commit, Return, Abort, Persist, Pending
<1> QED BY <1>1, <1>2, <1>3, <1>4, <1>5 DEF StepOf, Serve

(* The handler that steps keeps its own claim.                             *)
LEMMA OwnClaim ==
  ASSUME Inv, NEW r \in Requests, StepOf(r)
  PROVE  ClaimOK(r)'
<1>T. TypeOK /\ ControlOK(r) /\ ClaimOK(r) /\ EventsOK
  BY DEF Inv
<1>D. /\ \A s, b : Answer(r, s, b) => pc'[r] = "done"
      /\ \A b : Ready(r, b) => pc'[r] = "answer"
  BY <1>T DEF TypeOK, Answer, Ready, GoTo
<1>O. pc'[r] \in {"answer", "done"} => ClaimOK(r)'
  BY DEF ClaimOK, Pending
<1>F. \A q \in Requests : q # r => call'[q] = call[q] /\ pc'[q] = pc[q]
  BY <1>T, OthersUntouched
(* A handler that goes on holding or not holding what it did.              *)
<1>K. ASSUME UNCHANGED <<rows, events, used, call, lock>>, Pending(r),
             pc'[r] = "write" \/ (pc'[r] = "commit" /\ call[r].op # "create") => pc[r] = "write"
      PROVE  ClaimOK(r)'
  BY <1>K, <1>T, <1>F DEF ClaimOK, Pending, Owned
<1>1. ASSUME NEW c \in Call, Begin(r, c) PROVE ClaimOK(r)'
  <2>1. /\ call'[r] = c /\ UNCHANGED <<events, rows, lock>>
        /\ pc'[r] \notin {"write", "commit"}
    BY <1>1, <1>T DEF Begin, TypeOK, GoTo
  <2>2. ASSUME c.op = "create"
        PROVE  /\ c.id \in used' /\ c.id \notin events'
               /\ \A q \in Requests : q # r /\ Pending(q)' /\ call'[q].op = "create"
                                        => call'[q].id # c.id
    <3>1. c.id \notin used /\ used' = used \cup {c.id}
      BY <1>1, <2>2 DEF Begin
    <3>2. c.id \notin events
      BY <3>1, <1>T DEF EventsOK
    <3>3. \A q \in Requests : Pending(q) /\ call[q].op = "create" => call[q].id \in used
      BY DEF Inv, ClaimOK
    <3> QED BY <3>1, <3>2, <3>3, <2>1, <1>F DEF Pending
  <2> QED BY <2>1, <2>2 DEF ClaimOK
<1>2. CASE Build(r) \/ Read(r) \/ Validate(r)
  <2>1. /\ UNCHANGED <<rows, events, used, call, lock>>
        /\ Pending(r)
        /\ pc'[r] \notin {"write", "commit"}
    BY <1>2, <1>T, <1>D DEF Build, Read, Validate, TypeOK, GoTo, Pending
  <2> QED BY <2>1, <1>K
<1>3. CASE AddItinerary(r) \/ AddEvent(r) \/ WriteRow(r)
  <2>1. /\ UNCHANGED <<rows, events, used, call, lock>>
        /\ Pending(r)
        /\ pc[r] = "write" \/ (pc'[r] # "write" /\ call[r].op = "create")
    BY <1>3, <1>T DEF AddItinerary, AddEvent, WriteRow, TypeOK, GoTo, Pending, ControlOK
  <2> QED BY <2>1, <1>K
<1>4. CASE LockRow(r) \/ DeleteRow(r)
  <2>1. CASE pc'[r] = "done"
    BY <2>1, <1>O
  <2>2. CASE pc'[r] # "done"
    <3>1. Takes(r)
      BY <1>4, <2>2, <1>D, <1>T DEF LockRow, DeleteRow, TypeOK, GoTo, Takes
    <3>2. call[r].op \in {"update", "delete"} /\ call[r].id \in Ids
      BY <3>1, <1>T DEF Takes, ControlOK, TypeOK, Call
    <3> QED BY <3>1, <3>2, <1>T DEF Takes, ClaimOK, Owned, TypeOK
  <2> QED BY <2>1, <2>2
<1>5. CASE Commit(r) \/ Return(r) \/ Abort(r)
  BY <1>5, <1>D, <1>O DEF Commit, Return, Abort
<1> QED BY <1>1, <1>2, <1>3, <1>4, <1>5 DEF StepOf, Serve

(* Another handler keeps its claim: a commit frees only its own lock and   *)
(* touches only its own row, and a new id is nobody else's.                *)
LEMMA OthersClaim ==
  ASSUME Inv, NEW r \in Requests, StepOf(r), NEW q \in Requests, q # r
  PROVE  ClaimOK(q)'
<1>T. TypeOK /\ ControlOK(r) /\ ControlOK(q) /\ ClaimOK(r) /\ ClaimOK(q) /\ EventsOK
  BY DEF Inv
<1>F. call'[q] = call[q] /\ pc'[q] = pc[q]
  BY <1>T, OthersUntouched
<1>C. Pending(q) => call[q] \in Call /\ call[q].id \in Ids
  BY <1>T DEF Pending, ControlOK, TypeOK, Call
<1>1. ASSUME Pending(q), call[q].op = "create"
      PROVE  /\ call[q].id \in used'
             /\ call[q].id \notin events'
             /\ \A p \in Requests : p # q /\ Pending(p)' /\ call'[p].op = "create"
                                      => call'[p].id # call[q].id
  <2>1. /\ call[q].id \in used /\ call[q].id \notin events
        /\ \A p \in Requests : p # q /\ Pending(p) /\ call[p].op = "create"
                                 => call[p].id # call[q].id
    BY <1>1, <1>T DEF ClaimOK
  <2>2. call[q].id \in used'
    BY <2>1, <1>T DEF StepOf, Serve, Begin, Build, Read, Validate, AddItinerary, AddEvent,
       LockRow, WriteRow, DeleteRow, Commit, Return, Abort, Persist
  <2>3. call[q].id \notin events'
    <3>1. CASE Persist(r)
      <4>1. Pending(r)
        BY <3>1 DEF Persist, Pending
      <4>2. call[r].op = "create" => events' = events \cup {call[r].id}
        BY <3>1, PersistFacts
      <4>3. call[r].op # "create" => events' = events
        BY <3>1, PersistFacts
      <4> QED BY <4>1, <4>2, <4>3, <2>1
    <3> QED BY <3>1, <2>1, <1>T, DataFrame
  <2>4. ASSUME Pending(r)', call'[r].op = "create"
        PROVE  call'[r].id # call[q].id
    <3>1. CASE \E c \in Call : Begin(r, c)
      BY <3>1, <2>1, <2>4, <1>T DEF Begin, TypeOK
    <3>2. CASE ~ \E c \in Call : Begin(r, c)
      <4>1. ~ (Return(r) \/ Abort(r))
        BY <2>4, <1>T DEF Return, Abort, Answer, GoTo, TypeOK, Pending
      <4>2. Pending(r) /\ call' = call
        BY <3>2, <4>1 DEF StepOf, Serve, Build, Read, Validate, AddItinerary, AddEvent, Pending,
           LockRow, WriteRow, DeleteRow, Commit, Persist
      <4> QED BY <4>2, <2>1, <2>4
    <3> QED BY <3>1, <3>2
  <2>5. \A p \in Requests : p # r => call'[p] = call[p] /\ pc'[p] = pc[p]
    BY <1>T, OthersUntouched
  <2> QED BY <2>1, <2>2, <2>3, <2>4, <2>5 DEF Pending
<1>2. ASSUME pc[q] = "write" \/ (pc[q] = "commit" /\ call[q].op # "create")
      PROVE  lock'[call[q].id] = q /\ Owned(call[q])'
  <2>1. lock[call[q].id] = q /\ Owned(call[q]) /\ call[q].id \in Ids
    BY <1>2, <1>T, <1>C DEF ClaimOK, Pending
  <2>2. lock'[call[q].id] = q
    <3>1. CASE Takes(r)
      BY <3>1, <2>1, <1>T, NullAssumption DEF Takes, TypeOK
    <3>2. CASE EndTransaction(r)
      BY <3>2, <2>1 DEF EndTransaction
    <3> QED BY <3>1, <3>2, <2>1, <1>T, LockFrame
  <2>3. rows'[call[q].id] = rows[call[q].id]
    <3>1. CASE Persist(r)
      <4>1. call[r].id # call[q].id
        BY <3>1, <2>1, PersistFacts DEF Owned
      <4> QED BY <3>1, <4>1, <2>1, <1>T DEF Persist, TypeOK
    <3> QED BY <3>1, <1>T, DataFrame
  <2> QED BY <2>1, <2>2, <2>3, <1>F DEF Owned
<1> QED BY <1>1, <1>2, <1>F DEF ClaimOK, Pending

(* A lock is held by a request that is about to write, on its own row.     *)
LEMMA LocksStep ==
  ASSUME Inv, NEW r \in Requests, StepOf(r)
  PROVE  LocksOK'
<1> SUFFICES ASSUME NEW i \in Ids, lock'[i] # NoRequest
             PROVE  /\ pc'[lock'[i]] \in {"write", "commit"}
                    /\ call'[lock'[i]].op # "create"
                    /\ call'[lock'[i]].id = i
  BY DEF LocksOK
<1>T. TypeOK /\ ControlOK(r) /\ LocksOK
  BY DEF Inv
<1>F. \A q \in Requests : q # r => call'[q] = call[q] /\ pc'[q] = pc[q]
  BY <1>T, OthersUntouched
<1>1. CASE lock'[i] = lock[i]
  <2>1. /\ pc[lock[i]] \in {"write", "commit"} /\ lock[i] \in Requests
        /\ call[lock[i]].op # "create" /\ call[lock[i]].id = i
    BY <1>1, <1>T DEF LocksOK, TypeOK
  <2>2. CASE lock[i] # r
    BY <1>1, <2>1, <2>2, <1>F
  <2>3. CASE lock[i] = r
    <3>1. /\ pc'[r] = "commit" /\ call' = call
          \/ EndTransaction(r)
      BY <2>1, <2>3, <1>T DEF StepOf, Serve, Begin, Build, Read, Validate, AddItinerary,
         AddEvent, LockRow, WriteRow, DeleteRow, Commit, Return, Abort, Persist,
         TypeOK, GoTo
    <3>2. ~ EndTransaction(r)
      BY <1>1, <2>3 DEF EndTransaction
    <3> QED BY <3>1, <3>2, <1>1, <2>1, <2>3
  <2> QED BY <2>2, <2>3
<1>2. CASE lock'[i] # lock[i]
  <2>1. ~ EndTransaction(r)
    BY <1>2 DEF EndTransaction
  <2>2. Takes(r)
    BY <1>2, <2>1, <1>T, LockFrame
  <2>3. lock'[i] = r /\ call[r].id = i
    BY <1>2, <2>2, <1>T DEF Takes, TypeOK
  <2> QED BY <2>2, <2>3, <1>T DEF Takes, ControlOK
<1> QED BY <1>1, <1>2

(* Row and event of a creation are committed together.                     *)
LEMMA EventsStep ==
  ASSUME Inv, NEW r \in Requests, StepOf(r)
  PROVE  EventsOK'
<1>T. TypeOK /\ ClaimOK(r) /\ EventsOK
  BY DEF Inv
<1>U. used \subseteq used'
  BY DEF StepOf, Serve, Begin, Build, Read, Validate, AddItinerary, AddEvent,
     LockRow, WriteRow, DeleteRow, Commit, Return, Abort, Persist
<1>1. CASE UNCHANGED <<rows, events>>
  BY <1>1, <1>T, <1>U DEF EventsOK, ItineraryHasEvent
<1>2. CASE Persist(r)
  <2> DEFINE i == call[r].id
  <2>1. i \in Ids /\ Pending(r)
    BY <1>2, PersistFacts DEF Call, Persist, Pending
  <2>2. \A j \in Ids : j # i => rows'[j] = rows[j]
    BY <1>2, <1>T DEF Persist, TypeOK
  <2>3. CASE call[r].op = "create"
    <3>1. events' = events \cup {i} /\ i \in used
      BY <1>2, <2>1, <2>3, PersistFacts, <1>T DEF ClaimOK
    <3> QED BY <3>1, <2>2, <1>T, <1>U DEF EventsOK, ItineraryHasEvent
  <2>4. CASE call[r].op # "create"
    <3>1. events' = events /\ rows[i] # NoRow
      BY <1>2, <2>4, PersistFacts DEF Owned
    <3> QED BY <3>1, <2>1, <2>2, <1>T, <1>U DEF EventsOK, ItineraryHasEvent
  <2> QED BY <2>3, <2>4
<1> QED BY <1>1, <1>2, <1>T, DataFrame

-----------------------------------------------------------------------------
LEMMA InvInit == Init => Inv
<1> SUFFICES ASSUME Init PROVE Inv
  OBVIOUS
<1>1. TypeOK
  BY DEF Init, TypeOK, Nothing, Labels
<1>2. ASSUME NEW r \in Requests PROVE ControlOK(r) /\ UnsavedOK(r) /\ ClaimOK(r)
  BY DEF Init, ControlOK, UnsavedOK, ClaimOK, Pending
<1>3. LocksOK /\ EventsOK
  BY DEF Init, LocksOK, EventsOK, ItineraryHasEvent
<1> QED BY <1>1, <1>2, <1>3 DEF Inv

LEMMA InvInductive == Inv /\ [Next]_vars => Inv'
<1> SUFFICES ASSUME Inv, [Next]_vars PROVE Inv'
  OBVIOUS
<1>1. CASE UNCHANGED vars
  BY <1>1 DEF vars, Inv, TypeOK, ControlOK, UnsavedOK, ClaimOK, LocksOK, EventsOK,
     ItineraryHasEvent, Pending, Owned, New
<1>2. ASSUME NEW r \in Requests, StepOf(r) PROVE Inv'
  <2>1. TypeOK'
    BY TypeStep
  <2>2. ASSUME NEW q \in Requests PROVE (ControlOK(q) /\ UnsavedOK(q) /\ ClaimOK(q))'
    <3>1. CASE q = r
      BY <1>2, <3>1, ControlStep, UnsavedStep, OwnClaim
    <3>2. CASE q # r
      <4>1. ControlOK(q) /\ UnsavedOK(q) /\ TypeOK
        BY DEF Inv
      <4>2. /\ call'[q] = call[q] /\ pc'[q] = pc[q]
            /\ reply'[q] = reply[q] /\ outcome'[q] = outcome[q] /\ unsaved'[q] = unsaved[q]
        BY <1>2, <3>2, <4>1, OthersUntouched
      <4>3. ClaimOK(q)'
        BY <1>2, <3>2, OthersClaim
      <4>4. ControlOK(q)'
        BY <4>1, <4>2 DEF ControlOK
      <4>5. UnsavedOK(q)'
        BY <4>1, <4>2 DEF UnsavedOK, New
      <4> QED BY <4>3, <4>4, <4>5
    <3> QED BY <3>1, <3>2
  <2>3. LocksOK' /\ EventsOK'
    BY <1>2, LocksStep, EventsStep
  <2> QED BY <2>1, <2>2, <2>3 DEF Inv
<1> QED BY <1>1, <1>2, NextIsAStep

LEMMA Invariance == SafeSpec => []Inv
  BY InvInit, InvInductive, PTL DEF SafeSpec

-----------------------------------------------------------------------------
(* The state is well typed, and only rows that satisfy the domain rules    *)
(* are stored.                                                             *)
THEOREM TypeCorrect == SafeSpec => []TypeOK
<1>1. Inv => TypeOK
  BY DEF Inv
<1> QED BY <1>1, Invariance, PTL

(* The unit of work of create is atomic: wherever it fails, there is no    *)
(* itinerary without its outbox row.                                       *)
THEOREM CreationIsAtomic == SafeSpec => []ItineraryHasEvent
<1>1. Inv => ItineraryHasEvent
  BY DEF Inv, EventsOK
<1> QED BY <1>1, Invariance, PTL

(* A deleted itinerary never comes back, whatever updates were validated   *)
(* before it was deleted.                                                  *)
THEOREM DeletedStaysDeleted == SafeSpec => NoResurrection
<1>1. ASSUME Inv, [Next]_vars, NEW i \in events, rows[i] = NoRow
      PROVE  rows'[i] = NoRow
  <2>1. CASE UNCHANGED vars
    BY <1>1, <2>1 DEF vars
  <2>2. ASSUME NEW r \in Requests, StepOf(r) PROVE rows'[i] = NoRow
    <3>1. CASE UNCHANGED <<rows, events>>
      BY <1>1, <3>1
    <3>2. CASE Persist(r)
      <4>1. call[r].op = "create" => i # call[r].id
        BY <1>1, <3>2, PersistFacts
      <4>2. call[r].op # "create" => i # call[r].id
        BY <1>1, <3>2, PersistFacts DEF Owned
      <4> QED BY <1>1, <3>2, <4>1, <4>2 DEF Persist, Inv, TypeOK
    <3> QED BY <1>1, <2>2, <3>1, <3>2, DataFrame DEF Inv
  <2> QED BY <1>1, <2>1, <2>2, NextIsAStep
<1>2. Inv /\ [Next]_vars => [\A i \in events : rows[i] = NoRow => rows'[i] = NoRow]_vars
  BY <1>1
<1> QED BY <1>2, Invariance, PTL DEF SafeSpec, NoResurrection

(* A row changes only by a committing call of its owner, and keeps its     *)
(* owner.                                                                  *)
THEOREM RowsBelongToTheirOwner == SafeSpec => OwnRowsOnly
<1> DEFINE Owns(i) ==
      /\ \E r \in Requests : /\ pc[r] = "commit" /\ pc'[r] = "answer"
                             /\ call[r].id = i
                             /\ call[r].user = rows[i].user
      /\ rows'[i] # NoRow => rows'[i].user = rows[i].user
<1>1. ASSUME Inv, [Next]_vars, NEW i \in Ids, rows[i] # NoRow, rows'[i] # rows[i]
      PROVE  Owns(i)
  <2>1. ~ UNCHANGED vars
    BY <1>1 DEF vars
  <2>2. PICK r \in Requests : StepOf(r)
    BY <1>1, <2>1, NextIsAStep
  <2>3. Persist(r) /\ pc[r] = "commit" /\ pc'[r] = "answer"
    BY <1>1, <2>2, DataFrame DEF Inv, Persist
  <2>4. call[r].id = i
    BY <1>1, <2>3 DEF Persist, Inv, TypeOK
  <2>5. call[r].op # "create" /\ Owned(call[r])
    BY <1>1, <2>3, <2>4, PersistFacts
  <2>6. rows'[i] # NoRow => rows'[i].user = call[r].user
    <3>1. rows \in [Ids -> Row \cup {NoRow}]
      BY <1>1 DEF Inv, TypeOK
    <3>2. \/ rows' = [rows EXCEPT ![i] = New(call[r])]
          \/ rows' = [rows EXCEPT ![i] = NoRow]
      BY <1>1, <2>3, <2>4, <2>5, PersistFacts
    <3> QED BY <3>1, <3>2 DEF New
  <2> QED BY <2>3, <2>4, <2>5, <2>6 DEF Owned
<1>2. Inv /\ [Next]_vars => [\A i \in Ids : rows[i] # NoRow /\ rows'[i] # rows[i] => Owns(i)]_vars
  BY <1>1
<1> QED BY <1>2, Invariance, PTL DEF SafeSpec, OwnRowsOnly

(* A locked row does not change under its holder.                          *)
THEOREM LocksProtect == SafeSpec => LockedRowIsStable
<1>1. ASSUME Inv, [Next]_vars, NEW i \in Ids, lock[i] # NoRequest, rows'[i] # rows[i]
      PROVE  pc'[lock[i]] = "answer"
  <2>1. ~ UNCHANGED vars
    BY <1>1 DEF vars
  <2>2. PICK r \in Requests : StepOf(r)
    BY <1>1, <2>1, NextIsAStep
  <2>3. Persist(r) /\ pc'[r] = "answer"
    BY <1>1, <2>2, DataFrame DEF Inv
  <2>4. call[r].id = i
    BY <1>1, <2>3 DEF Persist, Inv, TypeOK
  <2>5. CASE call[r].op # "create"
    BY <1>1, <2>3, <2>4, <2>5, PersistFacts
  <2>6. CASE call[r].op = "create"
    <3>1. rows[i] = NoRow
      BY <1>1, <2>3, <2>4, <2>6, PersistFacts
    <3>2. pc[lock[i]] \in {"write", "commit"} /\ call[lock[i]].op # "create"
          /\ call[lock[i]].id = i /\ lock[i] \in Requests
      BY <1>1 DEF Inv, LocksOK, TypeOK
    <3>3. ControlOK(lock[i]) /\ ClaimOK(lock[i])
      BY <3>2, <1>1 DEF Inv
    <3>4. rows[i] # NoRow
      BY <3>2, <3>3 DEF ClaimOK, Owned
    <3> QED BY <3>1, <3>4
  <2> QED BY <2>5, <2>6
<1>2. Inv /\ [Next]_vars =>
        [\A i \in Ids : lock[i] # NoRequest /\ rows'[i] # rows[i] => pc'[lock[i]] = "answer"]_vars
  BY <1>1
<1> QED BY <1>2, Invariance, PTL DEF SafeSpec, LockedRowIsStable

-----------------------------------------------------------------------------
(* Every step of a handler is a step of the contract or changes nothing    *)
(* the contract sees; in particular each commit is one atomic call, and a  *)
(* read that waits for a lock returns what was committed.                  *)
LEMMA StepRefines ==
  ASSUME Inv, NEW r \in Requests, StepOf(r)
  PROVE  Contract!Next \/ UNCHANGED Contract!contractVars
<1> DEFINE Goal == Contract!Next \/ UNCHANGED Contract!contractVars
<1>T. TypeOK /\ ControlOK(r)
  BY DEF Inv
<1>V. UNCHANGED <<rows, events, used, call, outcome, reply>> => Goal
  BY DEF Contract!contractVars
<1>C. pc[r] \notin {"idle", "done"} => call[r] \in Call /\ Contract!Waiting(r)
  BY <1>T DEF ControlOK, TypeOK, Contract!Waiting
<1>A. \A s, b : /\ Answer(r, s, b) /\ pc[r] \notin {"idle", "done"}
                /\ UNCHANGED <<rows, events, used, call, outcome>>
                => Contract!Answer(r, s, b)
  BY <1>C DEF Answer, Contract!Answer
(* Refusals.                                                               *)
<1>R. ASSUME NEW s \in {"invalid", "unavailable", "missing"}, Answer(r, s, NoRow),
             pc[r] \notin {"idle", "answer", "done"}, s = "missing" => ~ Owned(call[r]),
             UNCHANGED <<rows, events, used, call, outcome>>
      PROVE  Goal
  <2>1. Contract!Answer(r, s, NoRow) /\ outcome[r] = NoReply
    BY <1>R, <1>A, <1>T DEF ControlOK
  <2>2. Contract!Refuse(r)
    BY <2>1, <1>R DEF Contract!Refuse, Contract!Owned, Owned
  <2> QED BY <2>2 DEF Contract!Next, Contract!Step
(* Answers to what has taken effect.                                       *)
<1>B. ASSUME pc[r] = "answer",
             Answer(r, outcome[r].status, outcome[r].body) \/ Answer(r, "unavailable", NoRow),
             UNCHANGED <<rows, events, used, call, outcome>>
      PROVE  Goal
  <2>1. outcome[r] # NoReply /\ outcome[r].status = "ok"
    BY <1>B, <1>T DEF ControlOK
  <2>2. Contract!Return(r)
    BY <1>A, <1>B, <2>1 DEF Contract!Return
  <2> QED BY <2>2 DEF Contract!Next, Contract!Step
<1>1. ASSUME NEW c \in Call, Begin(r, c) PROVE Goal
  <2>1. Contract!Begin(r, c)
    BY <1>1, <1>T DEF Begin, Contract!Begin, ControlOK
  <2> QED BY <2>1 DEF Contract!Next, Contract!Call, Call
<1>2. CASE Build(r)
  BY <1>2, <1>V, <1>R DEF Build
<1>3. CASE Read(r)
  <2> DEFINE b == rows[call[r].id]
  <2>1. CASE Ready(r, b) /\ Owned(call[r]) /\ call[r].op = "get" /\ UNCHANGED reply
    <3>1. b \in Row \cup {NoRow}
      BY <1>3, <1>T, <1>C DEF Read, TypeOK, Call
    <3>2. Contract!Get(call[r], b)
      BY <1>3, <2>1 DEF Read, Contract!Get, Contract!Owned, Owned
    <3>3. Contract!Succeed(r, b)
      BY <1>3, <1>T, <1>C, <2>1, <3>2
         DEF Read, Ready, ControlOK, Contract!Succeed, Contract!Effect
    <3> QED BY <3>1, <3>3 DEF Contract!Next, Contract!Step, Contract!Row, Row
  <2>2. CASE UNCHANGED outcome
    BY <1>3, <2>2, <1>V, <1>R DEF Read
  <2> QED BY <1>3, <2>1, <2>2 DEF Read
<1>4. CASE Validate(r)
  BY <1>4, <1>V, <1>R DEF Validate
<1>5. CASE AddItinerary(r) \/ AddEvent(r) \/ WriteRow(r)
  BY <1>5, <1>V DEF AddItinerary, AddEvent, WriteRow
<1>6. CASE LockRow(r) \/ DeleteRow(r)
  BY <1>6, <1>V, <1>R DEF LockRow, DeleteRow
<1>7. CASE Return(r) \/ Abort(r)
  <2>1. CASE pc[r] = "answer"
    BY <1>7, <1>B, <2>1 DEF Return, Abort
  <2>2. CASE pc[r] # "answer"
    BY <1>7, <1>R, <2>2 DEF Return, Abort
  <2> QED BY <2>1, <2>2
(* Commits.                                                                *)
<1>8. CASE Commit(r)
  <2> DEFINE c == call[r]
             b == unsaved[r].row
  <2>1. Persist(r) /\ pc[r] = "commit" /\ UNCHANGED <<used, call, reply>>
    BY <1>8 DEF Commit, Persist
  <2>2. b \in Row \cup {NoRow}
    BY <1>T DEF TypeOK
  <2>3. /\ Contract!Waiting(r) /\ outcome[r] = NoReply
        /\ outcome' = [outcome EXCEPT ![r] = [status |-> "ok", body |-> b]]
    BY <1>8, <1>C, <1>T, <2>1 DEF Commit, Ready, ControlOK
  <2>4. /\ c.op = "delete" => b = NoRow
        /\ c.op # "delete" => b = New(c)
    <3>1. c.op \in {"create", "update", "delete"} /\ UnsavedOK(r)
      BY <2>1, PersistFacts DEF Inv
    <3> QED BY <2>1, <3>1 DEF UnsavedOK, Nothing
  <2>5. Contract!Effect(c, b)
    <3>1. CASE c.op = "create"
      <4>1. Contract!Create(c, b)
        BY <2>1, <2>4, <3>1, PersistFacts DEF Contract!Create, New
      <4> QED BY <4>1 DEF Contract!Effect
    <3>2. CASE c.op = "update"
      <4>1. Contract!Update(c, b)
        BY <2>1, <2>4, <3>2, PersistFacts DEF Contract!Update, Contract!Owned, Owned, New
      <4> QED BY <4>1 DEF Contract!Effect
    <3>3. CASE c.op = "delete"
      <4>1. Contract!Delete(c, b)
        BY <2>1, <2>4, <3>3, PersistFacts DEF Contract!Delete, Contract!Owned, Owned
      <4> QED BY <4>1 DEF Contract!Effect
    <3> QED BY <2>1, <3>1, <3>2, <3>3, PersistFacts
  <2>6. Contract!Succeed(r, b)
    BY <2>1, <2>3, <2>5 DEF Contract!Succeed
  <2> QED BY <2>2, <2>6 DEF Contract!Next, Contract!Step, Contract!Row, Row
<1> QED BY <1>1, <1>2, <1>3, <1>4, <1>5, <1>6, <1>7, <1>8 DEF StepOf, Serve

(* The service implements the safety part of its contract: concurrent      *)
(* requests behave as if each took effect at one instant.                  *)
THEOREM ImplementsContract == SafeSpec => Contract!SafeSpec
<1>1. Init => Contract!Init
  BY DEF Init, Contract!Init
<1>2. Inv /\ [Next]_vars => [Contract!Next]_(Contract!contractVars)
  <2> SUFFICES ASSUME Inv, [Next]_vars
               PROVE  Contract!Next \/ UNCHANGED Contract!contractVars
    OBVIOUS
  <2>1. CASE UNCHANGED vars
    BY <2>1 DEF vars, Contract!contractVars
  <2> QED BY <2>1, NextIsAStep, StepRefines
<1> QED BY <1>1, <1>2, Invariance, PTL DEF SafeSpec, Contract!SafeSpec

-----------------------------------------------------------------------------
(* What answering every request rests on, besides fairness.  A request is  *)
(* blocked when the row it wants is locked by another transaction.         *)
Blocked(r) ==
  /\ pc[r] \in {"read", "lock", "delete"}
  /\ Owned(call[r])
  /\ lock[call[r].id] # NoRequest

(* Whoever a request waits for is still running and waits for nobody.      *)
WaitsAreShort ==
  \A r \in Requests : Blocked(r) => /\ Running(lock[call[r].id])
                                    /\ ~ Blocked(lock[call[r].id])

(* Requests never wait in a chain or in a cycle: a request takes its only  *)
(* lock last, so the holder of a lock just writes and commits, and no      *)
(* answered request has left a lock behind.                                *)
THEOREM WaitsEndWithTheHolder == SafeSpec => []WaitsAreShort
<1>1. Inv => WaitsAreShort
  <2> SUFFICES ASSUME Inv, NEW r \in Requests, Blocked(r)
               PROVE  LET h == lock[call[r].id] IN Running(h) /\ ~ Blocked(h)
    BY DEF WaitsAreShort
  <2>1. call[r].id \in Ids
    <3>1. ControlOK(r) /\ call[r] \in Call \cup {NoCall} /\ pc[r] # "idle"
      BY DEF Inv, TypeOK, Blocked
    <3> QED BY <3>1 DEF ControlOK, Call
  <2>2. pc[lock[call[r].id]] \in {"write", "commit"}
    BY <2>1 DEF Inv, LocksOK, Blocked
  <2> QED BY <2>2 DEF Running, Blocked
<1> QED BY <1>1, Invariance, PTL

(* How far a handler has come.                                             *)
Stage(l) == CASE l = "idle" -> 0
              [] l \in {"build", "read"} -> 1
              [] l = "validate" -> 2
              [] l \in {"add", "lock", "delete"} -> 3
              [] l \in {"addEvent", "write"} -> 4
              [] l = "commit" -> 5
              [] l = "answer" -> 6
              [] OTHER -> 7

OneAdvances == \E r \in Requests : /\ Stage(pc'[r]) > Stage(pc[r])
                                   /\ \A q \in Requests \ {r} : pc'[q] = pc[q]
EveryStepAdvances == [][OneAdvances]_vars

(* Every step, failures included, brings one request nearer to its answer  *)
(* and takes none back: no handler retries or loops, so a request is       *)
(* answered after at most seven steps of its own.                          *)
THEOREM HandlersOnlyAdvance == SafeSpec => EveryStepAdvances
<1>1. ASSUME Inv, NEW r \in Requests, StepOf(r) PROVE Stage(pc'[r]) > Stage(pc[r])
  <2>T. TypeOK
    BY <1>1 DEF Inv
  <2>D. /\ \A s, b : Answer(r, s, b) => pc'[r] = "done"
        /\ \A b : Ready(r, b) => pc'[r] = "answer"
    BY <2>T DEF TypeOK, Answer, Ready, GoTo
  <2>R. pc[r] \in Labels
    BY <2>T DEF TypeOK
  <2> USE DEF Stage, GoTo
  <2>1. ASSUME NEW c \in Call, Begin(r, c) PROVE Stage(pc'[r]) > Stage(pc[r])
    <3>1. pc[r] = "idle" /\ pc'[r] \in {"build", "delete", "read"}
      BY <2>1, <2>T DEF Begin, TypeOK
    <3> QED BY <3>1
  <2>2. CASE Build(r) \/ Read(r) \/ Validate(r)
    <3>1. \/ pc[r] \in {"build", "read"} /\ pc'[r] \in {"validate", "answer", "done"}
          \/ pc[r] = "validate" /\ pc'[r] \in {"add", "lock", "done"}
      BY <2>2, <2>T, <2>D DEF Build, Read, Validate, TypeOK
    <3> QED BY <3>1
  <2>3. CASE AddItinerary(r) \/ AddEvent(r) \/ WriteRow(r)
    <3>1. \/ pc[r] = "add" /\ pc'[r] = "addEvent"
          \/ pc[r] \in {"addEvent", "write"} /\ pc'[r] = "commit"
      BY <2>3, <2>T DEF AddItinerary, AddEvent, WriteRow, TypeOK
    <3> QED BY <3>1
  <2>4. CASE LockRow(r) \/ DeleteRow(r)
    <3>1. pc[r] \in {"lock", "delete"} /\ pc'[r] \in {"write", "commit", "done"}
      BY <2>4, <2>T, <2>D DEF LockRow, DeleteRow, TypeOK
    <3> QED BY <3>1
  <2>5. CASE Commit(r) \/ Return(r) \/ Abort(r)
    <3>1. \/ pc[r] = "commit" /\ pc'[r] = "answer"
          \/ pc[r] \notin {"idle", "done"} /\ pc'[r] = "done"
      BY <2>5, <2>D DEF Commit, Return, Abort, Persist
    <3> QED BY <3>1, <2>R DEF Labels
  <2> QED BY <1>1, <2>1, <2>2, <2>3, <2>4, <2>5 DEF StepOf, Serve
<1>2. ASSUME Inv, NEW r \in Requests, StepOf(r) PROVE OneAdvances
  <2>1. \A q \in Requests \ {r} : pc'[q] = pc[q]
    BY <1>2, OthersUntouched DEF Inv
  <2> QED BY <1>1, <1>2, <2>1 DEF OneAdvances
<1>3. Inv /\ [Next]_vars => [OneAdvances]_vars
  BY <1>2, NextIsAStep
<1> QED BY <1>3, Invariance, PTL DEF SafeSpec, EveryStepAdvances
=============================================================================
