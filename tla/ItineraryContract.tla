------------------------- MODULE ItineraryContract -------------------------
(***************************************************************************)
(* What the itinerary service promises its clients: each request is        *)
(* answered once, and takes effect at a single instant between its call    *)
(* and its answer, or not at all.  No transactions, locks or validation    *)
(* calls appear here.                                                      *)
(***************************************************************************)
CONSTANTS Requests, Ids, Users, Data, Valid,
          NoRow, NoCall, NoReply

VARIABLES rows,      \* the itineraries
          events,    \* the itineraries with an ItineraryCreatedEvent
          used,      \* every id ever drawn for a new itinerary
          call,      \* the call of each request
          outcome,   \* what it will answer, once it has taken effect
          reply      \* and its answer

contractVars == <<rows, events, used, call, outcome, reply>>

Row == [user : Users, data : Valid]
Call == [op : {"create", "update"}, user : Users, id : Ids, data : Data]
        \cup [op : {"get", "delete"}, user : Users, id : Ids]
Reply == [status : {"ok", "invalid", "missing", "unavailable"}, body : Row \cup {NoRow}]

Init == /\ rows = [i \in Ids |-> NoRow]
        /\ events = {}
        /\ used = {}
        /\ call = [r \in Requests |-> NoCall]
        /\ outcome = [r \in Requests |-> NoReply]
        /\ reply = [r \in Requests |-> NoReply]

(* A request arrives.  A creation draws an id nobody has seen.             *)
Begin(r, c) ==
  /\ call[r] = NoCall
  /\ c.op = "create" => c.id \notin used
  /\ used' = IF c.op = "create" THEN used \cup {c.id} ELSE used
  /\ call' = [call EXCEPT ![r] = c]
  /\ UNCHANGED <<rows, events, outcome, reply>>

(* The itinerary a call names exists and belongs to its user.              *)
Owned(c) == rows[c.id] # NoRow /\ rows[c.id].user = c.user

(* The request has arrived and is not answered.                            *)
Waiting(r) == call[r] # NoCall /\ reply[r] = NoReply

Answer(r, status, body) ==
  /\ Waiting(r)
  /\ reply' = [reply EXCEPT ![r] = [status |-> status, body |-> body]]
  /\ UNCHANGED <<rows, events, used, call, outcome>>

(* What a successful call does, and the body it returns.                   *)
Create(c, body) ==
  /\ c.op = "create"
  /\ body = [user |-> c.user, data |-> c.data]
  /\ rows' = [rows EXCEPT ![c.id] = body]
  /\ events' = events \cup {c.id}

Update(c, body) ==
  /\ c.op = "update" /\ Owned(c)
  /\ body = [user |-> c.user, data |-> c.data]
  /\ rows' = [rows EXCEPT ![c.id] = body]
  /\ UNCHANGED events

Get(c, body) ==
  /\ c.op = "get" /\ Owned(c)
  /\ body = rows[c.id]
  /\ UNCHANGED <<rows, events>>

Delete(c, body) ==
  /\ c.op = "delete" /\ Owned(c)
  /\ body = NoRow
  /\ rows' = [rows EXCEPT ![c.id] = NoRow]
  /\ UNCHANGED events

Effect(c, body) == Create(c, body) \/ Update(c, body) \/ Get(c, body) \/ Delete(c, body)

(* The call takes effect, and everybody sees it at once.                   *)
Succeed(r, body) ==
  /\ Waiting(r) /\ outcome[r] = NoReply
  /\ Effect(call[r], body)
  /\ outcome' = [outcome EXCEPT ![r] = [status |-> "ok", body |-> body]]
  /\ UNCHANGED <<used, call, reply>>

(* The client learns of it later.  The answer may get lost on the way: a   *)
(* 503 does not mean that nothing was done.                                *)
Return(r) ==
  /\ outcome[r] # NoReply
  /\ Answer(r, "ok", outcome[r].body) \/ Answer(r, "unavailable", NoRow)

(* Nothing is done: a rule is broken, the itinerary is not there for this  *)
(* user, or something the service needs is down.                           *)
Refuse(r) ==
  /\ outcome[r] = NoReply
  /\ \/ Answer(r, "invalid", NoRow)
     \/ Answer(r, "unavailable", NoRow)
     \/ Answer(r, "missing", NoRow) /\ ~ Owned(call[r])

Step(r) == Refuse(r) \/ Return(r) \/ \E body \in Row \cup {NoRow} : Succeed(r, body)

Next == \E r \in Requests : Step(r) \/ \E c \in Call : Begin(r, c)

SafeSpec == Init /\ [][Next]_contractVars

Spec == SafeSpec /\ \A r \in Requests : WF_contractVars(Step(r))
=============================================================================
