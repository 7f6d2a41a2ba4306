--------------------------- MODULE FrontendProofs ---------------------------
(***************************************************************************)
(* Proofs about Frontend, for any trips, data and bounds: types, how a     *)
(* session ends, and what the list shows.                                  *)
(*                                                                         *)
(* The invariant says of each trip what the list will show of it when the  *)
(* answers under way have arrived, and that this is what the server stores *)
(* (Sure), unless the trip is one of those about which the list may be     *)
(* wrong (unsure).                                                         *)
(***************************************************************************)
EXTENDS Frontend, TLAPS

Live(s) == request[s] # NoRequest

(* The types of all but the history of loads.                              *)
Types ==
  /\ token \in 0..issued
  /\ issued \in 0..MaxSessions
  /\ valid \in SUBSET (1..issued)
  /\ airports \in BOOLEAN
  /\ list \in [Trips -> Seq(Data)]
  /\ dialog \in {"none", "form", "delete"}
  /\ editing \in Trips \cup {NoTrip}
  /\ pendingDelete \in Trips \cup {NoTrip}
  /\ disabled \in SUBSET Buttons
  /\ request \in [Senders -> Request \cup {NoRequest}]
  /\ orphans \in SUBSET Write
  /\ store \in Store
  /\ used \in SUBSET Trips
  /\ calls \in 0..MaxCalls
  /\ unsure \in SUBSET Trips

(* What TypeOK says of the shape of the page.                              *)
Page ==
  /\ token = 0 => dialog = "none" /\ ~ airports
  /\ \A b \in Buttons \ {"login"} : b \in disabled <=> request[b] # NoRequest
  /\ "login" \in disabled <=> \E s \in LoginLoads : request[s] # NoRequest

(* What a request looks like: form and delete write, the others read; a    *)
(* 401 is the answer to a session that has expired.                        *)
Shape ==
  /\ \A s \in Senders : Live(s) =>
       /\ request[s].session \in 1..issued
       /\ request[s].write # NoWrite <=> s \in Writers
       /\ request[s].status = "denied" => request[s].session \notin valid
  /\ Live("form") => /\ request["form"].write.op \in {"create", "edit"}
                     /\ request["form"].write.data \in Data
  /\ Live("delete") => /\ request["delete"].write.op = "delete"
                       /\ request["delete"].write.data = NoData
                       /\ pendingDelete # NoTrip
  /\ dialog = "delete" => pendingDelete # NoTrip
  /\ editing # NoTrip => dialog = "form"

(* Whatever names a trip names one whose id the server has drawn.          *)
Known ==
  /\ \A t \in Trips : store[t] # NoData \/ list[t] # <<>> => t \in used
  /\ \A s \in TripLoads, t \in Trips : Live(s) /\ request[s].seen[t] # NoData => t \in used
  /\ Touched \subseteq used
  /\ pendingDelete \in used \cup {NoTrip}
  /\ editing \in used \cup {NoTrip}

(* A load that has been served has read what is stored, but for the trips  *)
(* written while it was under way.                                         *)
Read ==
  \A s \in TripLoads : Live(s) =>
    /\ Touched \subseteq dirty[s]
    /\ request[s].status = "ok" =>
         \A t \in Trips \ dirty[s] : request[s].seen[t] = store[t]

On(s, t) == Live(s) /\ request[s].write.trip = t
Done(s, t) == On(s, t) /\ request[s].status = "ok"

(* What the list will show of t when the answers to come have arrived.     *)
Expected(t) ==
  IF Done("delete", t) THEN <<>>
  ELSE IF Done("form", t) THEN Updated(list[t], request["form"].write) ELSE list[t]

(* A trip whose entry is not outdated: nobody's write is left on it, the   *)
(* answers to come will make the list agree with the server, and if it is  *)
(* being created, nothing on the page names it yet.                        *)
Sure(t) ==
  /\ \A w \in orphans : w.trip # t
  /\ Expected(t) = Shown(store)[t]
  /\ On("form", t) /\ request["form"].write.op = "create" =>
       /\ list[t] = <<>>
       /\ pendingDelete # t
       /\ ~ On("delete", t)

Inv == TypeOK /\ Shape /\ Known /\ Read /\ \A t \in Trips \ unsure : Sure(t)

-----------------------------------------------------------------------------
(* The sets of senders, spelled out for the provers.                       *)
LEMMA SendersFact ==
  /\ Senders = {"startTrips", "loginTrips", "startAirports", "loginAirports", "reload",
                "form", "delete", "report"}
  /\ TripLoads \subseteq Senders /\ AirportLoads \subseteq Senders
  /\ LoginLoads \subseteq Senders /\ StartLoads \subseteq Senders
  /\ Writers \subseteq Senders /\ Buttons \ {"login"} \subseteq Senders
  /\ TripLoads \cap Writers = {} /\ AirportLoads \cap Writers = {}
BY DEF Senders, TripLoads, AirportLoads, LoginLoads, StartLoads, Writers, Buttons

(* A request just sent is a request.                                       *)
LEMMA AskedType ==
  ASSUME NEW s \in Sessions, NEW w \in Write \cup {NoWrite}
  PROVE  Asked(s, w) \in Request /\ Asked(s, w) # NoRequest
BY NullAssumption DEF Asked, Request, Store

(* Answering a request leaves a request.                                   *)
LEMMA ReplyType ==
  ASSUME NEW r \in Request, NEW status \in {"sent", "ok", "denied", "failed", "drawing"},
         NEW seen \in Store
  PROVE  /\ [r EXCEPT !.status = status] \in Request
         /\ [r EXCEPT !.status = status, !.seen = seen] \in Request
         /\ [r EXCEPT !.status = status] # NoRequest
         /\ [r EXCEPT !.status = status, !.seen = seen] # NoRequest
BY NullAssumption DEF Request

(* The empty list, and a list just loaded, are lists.                      *)
LEMMA ListTypes ==
  /\ NoTrips \in [Trips -> Seq(Data)]
  /\ \A st \in Store : Shown(st) \in [Trips -> Seq(Data)]
<1>1. <<>> \in Seq(Data) OBVIOUS
<1>2. NoTrips \in [Trips -> Seq(Data)] BY <1>1 DEF NoTrips
<1>3. \A d \in Data : <<d>> \in Seq(Data) OBVIOUS
<1>4. ASSUME NEW st \in Store, NEW t \in Trips
      PROVE  (IF st[t] = NoData THEN <<>> ELSE <<st[t]>>) \in Seq(Data)
  BY <1>1, <1>3 DEF Store
<1> QED BY <1>2, <1>4 DEF Shown

(* What logout() leaves.                                                   *)
LEMMA ClearTypes ==
  ASSUME ClearPage, Types, issued' = issued, token' = 0
  PROVE  /\ airports' \in BOOLEAN
         /\ list' \in [Trips -> Seq(Data)]
         /\ dialog' \in {"none", "form", "delete"}
         /\ editing' \in Trips \cup {NoTrip}
         /\ unsure' \in SUBSET Trips
         /\ token' \in 0..issued'
<1>1. issued \in Nat BY BoundsAssumption DEF Types
<1>2. token' \in 0..issued' BY <1>1
<1>3. list' \in [Trips -> Seq(Data)] BY ListTypes DEF ClearPage
<1>4. airports' \in BOOLEAN /\ unsure' \in SUBSET Trips BY DEF ClearPage
<1> QED BY <1>2, <1>3, <1>4 DEF ClearPage

(* The edited or created copies of a trip are a sequence of data.          *)
LEMMA UpdatedType ==
  ASSUME NEW l \in Seq(Data), NEW w, w.data \in Data
  PROVE  Updated(l, w) \in Seq(Data)
BY DEF Updated

(* TypeOK, in the parts in which it is proved.                             *)
LEMMA TypeParts == TypeOK <=> Types /\ Page /\ dirty \in [TripLoads -> SUBSET Trips]
BY DEF TypeOK, Types, Page

(* A request the page has sent, and the state it leaves its sender in.     *)
LEMMA SendTypes ==
  ASSUME Types, token # 0, NEW s \in Senders, NEW w \in Write \cup {NoWrite}, Send(s, w)
  PROVE  /\ request' \in [Senders -> Request \cup {NoRequest}]
         /\ calls' \in 0..MaxCalls
         /\ request'[s] = Asked(token, w) /\ request'[s] # NoRequest
         /\ \A x \in Senders \ {s} : request'[x] = request[x]
<1> USE BoundsAssumption
<1>1. token \in Sessions BY DEF Types, Sessions
<1>2. Asked(token, w) \in Request /\ Asked(token, w) # NoRequest BY <1>1, AskedType
<1> QED BY <1>2 DEF Types, Send, Calling

(* Types: the user's steps.                                                *)
LEMMA UserTypes ==
  ASSUME TypeOK, Shape, User
  PROVE  Types'
<1> USE BoundsAssumption, NullAssumption, SendersFact, TypeParts
<1>0. Types OBVIOUS
<1>1. CASE Login
  <2>1. issued + 1 \in Sessions /\ Calling BY <1>0, <1>1 DEF Login, Types, Sessions
  <2>2. Asked(issued + 1, NoWrite) \in Request BY <2>1, AskedType
  <2>3. request' \in [Senders -> Request \cup {NoRequest}] BY <1>0, <1>1, <2>2 DEF Login, Types
  <2>4. /\ issued' \in 0..MaxSessions /\ token' \in 0..issued'
        /\ calls' \in 0..MaxCalls
    BY <1>0, <1>1, <2>1 DEF Login, Types, Calling
  <2>5. valid' \in SUBSET (1..issued') BY <1>0, <1>1 DEF Login, Types
  <2>6. disabled' \in SUBSET Buttons BY <1>0, <1>1 DEF Login, Types, Buttons
  <2>7. UNCHANGED <<airports, list, dialog, editing, pendingDelete, orphans, store, used, unsure>>
    BY <1>1 DEF Login, pageVars
  <2>8. /\ airports' \in BOOLEAN /\ dialog' \in {"none", "form", "delete"}
        /\ list' \in [Trips -> Seq(Data)] /\ store' \in Store /\ orphans' \in SUBSET Write
        /\ editing' \in Trips \cup {NoTrip} /\ pendingDelete' \in Trips \cup {NoTrip}
        /\ used' \in SUBSET Trips /\ unsure' \in SUBSET Trips
    BY <1>0, <2>7 DEF Types
  <2> QED BY <2>3, <2>4, <2>5, <2>6, <2>8 DEF Types
<1>2. CASE ClickLogout
  BY <1>0, <1>2, ClearTypes DEF ClickLogout, Types, serverVars
<1>3. CASE CloseDialog BY <1>0, <1>3 DEF CloseDialog, Types, serverVars
<1>4. CASE ConfirmDelete
  <2>1. pendingDelete \in Trips /\ token # 0 BY <1>0, <1>4 DEF ConfirmDelete, Shape, Page, Types
  <2>2. [op |-> "delete", trip |-> pendingDelete, data |-> NoData] \in Write BY <2>1 DEF Write
  <2>3. /\ request' \in [Senders -> Request \cup {NoRequest}]
        /\ calls' \in 0..MaxCalls
    BY <1>0, <1>4, <2>1, <2>2, SendTypes DEF ConfirmDelete, Writers
  <2> QED BY <1>0, <1>4, <2>3 DEF ConfirmDelete, Types, pageVars, serverVars, Buttons, Writers
<1>5. CASE ReloadPage
  <2>1. ASSUME NEW s \in Senders PROVE request'[s] \in Request \cup {NoRequest}
    <3>1. CASE token # 0
      <4>1. token \in Sessions BY <1>0, <3>1 DEF Types, Sessions
      <4>2. Asked(token, NoWrite) \in Request BY <4>1, AskedType
      <4> QED BY <1>5, <4>2 DEF ReloadPage
    <3>2. CASE token = 0 BY <1>5, <3>2 DEF ReloadPage
    <3> QED BY <3>1, <3>2
  <2>2. request' \in [Senders -> Request \cup {NoRequest}] BY <2>1, <1>5 DEF ReloadPage
  <2>3. Unserved \subseteq Write
    <3>1. ASSUME NEW x \in Writers, request[x] # NoRequest PROVE request[x].write \in Write
      <4>1. request[x] \in Request /\ request[x].write # NoWrite
        BY <1>0, <3>1 DEF Types, Shape, Live
      <4> QED BY <4>1 DEF Request
    <3> QED BY <3>1 DEF Unserved
  <2>4. calls' \in 0..MaxCalls BY <1>0, <1>5 DEF ReloadPage, Calling, Types
  <2> QED BY <1>0, <1>5, <2>2, <2>3, <2>4, ListTypes DEF ReloadPage, ClearPage, Types, serverVars
<1>6. ASSUME NEW b \in {"reload", "report"}, ClickRead(b) PROVE Types'
  <2>1. /\ request' \in [Senders -> Request \cup {NoRequest}]
        /\ calls' \in 0..MaxCalls
    BY <1>0, <1>6, SendTypes DEF ClickRead, Clickable
  <2> QED BY <1>0, <1>6, <2>1 DEF ClickRead, Types, pageVars, serverVars, Buttons, Writers
<1>7. ASSUME NEW t \in Trips \cup {NoTrip}, OpenForm(t) PROVE Types'
  BY <1>0, <1>7 DEF OpenForm, Types, serverVars
<1>8. ASSUME NEW t \in Trips, AskDelete(t) PROVE Types'
  BY <1>0, <1>8 DEF AskDelete, Types, serverVars
<1>9. ASSUME NEW t \in Trips, NEW d \in Data, Submit(t, d) PROVE Types'
  <2> DEFINE w == [op |-> IF editing = NoTrip THEN "create" ELSE "edit", trip |-> t, data |-> d]
  <2>1. w \in Write /\ token # 0 BY <1>0, <1>9 DEF Submit, Write, Page
  <2>2. Send("form", w) BY <1>9 DEF Submit
  <2> HIDE DEF w
  <2>3. /\ request' \in [Senders -> Request \cup {NoRequest}]
        /\ calls' \in 0..MaxCalls
    BY <1>0, <2>1, <2>2, SendTypes
  <2> QED BY <1>0, <1>9, <2>3 DEF Submit, Types, pageVars, Buttons, Writers
<1> QED BY <1>1, <1>2, <1>3, <1>4, <1>5, <1>6, <1>7, <1>8, <1>9, User DEF User

(* Types: the steps of the environment.                                    *)
LEMMA EnvironmentTypes ==
  ASSUME TypeOK, Shape, Environment
  PROVE  Types'
<1> USE SendersFact, TypeParts
<1>0. Types OBVIOUS
<1>1. ASSUME NEW s \in Senders, Serve(s) PROVE Types'
  <2>1. request[s] \in Request BY <1>0, <1>1 DEF Types, Serve
  <2>2. /\ request' \in [Senders -> Request \cup {NoRequest}]
        /\ store' \in Store
    <3>1. ASSUME NEW st \in {"sent", "ok", "denied", "failed"}, NEW seen \in Store,
                 request' = [request EXCEPT ![s].status = st, ![s].seen = seen]
          PROVE  request' \in [Senders -> Request \cup {NoRequest}]
      <4>1. [request[s] EXCEPT !.status = st, !.seen = seen] \in Request BY <2>1, ReplyType
      <4>2. request' = [request EXCEPT ![s] = [request[s] EXCEPT !.status = st, !.seen = seen]]
        BY <3>1, <1>0, <2>1 DEF Types
      <4> QED BY <1>0, <4>1, <4>2 DEF Types
    <3>2. request[s].seen \in Store /\ store \in Store BY <1>0, <2>1 DEF Types, Request
    <3>3. CASE request[s].session \notin valid
      BY <1>1, <3>1, <3>2, <3>3 DEF Serve
    <3>4. CASE request[s].session \in valid /\ request[s].write = NoWrite
      BY <1>1, <3>1, <3>2, <3>4 DEF Serve
    <3>5. CASE request[s].session \in valid /\ request[s].write # NoWrite
      <4>1. request[s].write \in Write BY <2>1, <3>5 DEF Request
      <4>2. store' \in Store
        BY <1>1, <3>2, <3>5, <4>1 DEF Serve, CarryOut, Store, Write
      <4>3. request' \in [Senders -> Request \cup {NoRequest}]
        <5>1. request' = [request EXCEPT
                            ![s].status = IF Refused(request[s].write) THEN "failed" ELSE "ok",
                            ![s].seen = request[s].seen]
          BY <1>1, <3>5 DEF Serve
        <5> QED BY <3>1, <3>2, <5>1
      <4> QED BY <4>2, <4>3
    <3> QED BY <1>1, <3>3, <3>4, <3>5 DEF Serve
  <2> QED BY <1>0, <1>1, <2>2 DEF Serve, Types, pageVars
<1>2. ASSUME NEW s \in Senders, NEW late \in BOOLEAN, Fail(s, late) PROVE Types'
  <2>1. request[s] \in Request BY <1>0, <1>2 DEF Types, Fail
  <2>2. [request[s] EXCEPT !.status = "failed"] \in Request
    <3>1. request[s].seen \in Store BY <2>1 DEF Request
    <3> QED BY <2>1, <3>1, ReplyType
  <2>3. request' \in [Senders -> Request \cup {NoRequest}]
    <3>1. request' = [request EXCEPT ![s] = [request[s] EXCEPT !.status = "failed"]]
      BY <1>0, <1>2, <2>1 DEF Fail, Types
    <3> QED BY <1>0, <2>2, <3>1 DEF Types
  <2>4. late => request[s].write \in Write /\ request[s].write.trip \in Trips
    BY <1>2, <2>1 DEF Fail, Request, Write
  <2>5. orphans' \in SUBSET Write /\ unsure' \in SUBSET Trips
    <3>1. CASE late BY <1>0, <1>2, <2>4, <3>1 DEF Fail, Types
    <3>2. CASE ~ late BY <1>0, <1>2, <3>2 DEF Fail, Types
    <3> QED BY <3>1, <3>2
  <2> QED BY <1>0, <1>2, <2>3, <2>5 DEF Fail, Types, pageVars, serverVars
<1>3. ASSUME NEW w \in orphans, Settle(w) PROVE Types'
  <2>1. w \in Write /\ store \in Store BY <1>0, <1>3 DEF Types
  <2>2. store' \in Store BY <1>3, <2>1 DEF Settle, CarryOut, Store, Write
  <2> QED BY <1>0, <1>3, <2>2 DEF Settle, Types, pageVars
<1>4. ASSUME NEW s \in valid, Expire(s) PROVE Types'
  BY <1>0, <1>4 DEF Expire, Types, pageVars
<1> QED BY <1>1, <1>2, <1>3, <1>4, Environment DEF Environment

(* Types: the answers.                                                     *)
LEMMA AnswerTypes ==
  ASSUME TypeOK, Shape, NEW s \in Senders, AnswerTo(s)
  PROVE  Types'
<1> USE SendersFact, TypeParts
<1>0. Types /\ dirty \in [TripLoads -> SUBSET Trips] OBVIOUS
<1>1. ASSUME NEW x \in Senders, NEW status, Arrives(x, status)
      PROVE  /\ request' \in [Senders -> Request \cup {NoRequest}]
             /\ disabled' \in SUBSET Buttons
             /\ UNCHANGED <<calls, pendingDelete, orphans, store, used, issued, valid>>
  BY <1>0, <1>1 DEF Arrives, Types, Enabled, serverVars
<1>2. CASE Denied(s) BY <1>0, <1>1, <1>2, ClearTypes DEF Denied, Types
<1>3. CASE Failed(s) BY <1>0, <1>1, <1>3 DEF Failed, Types
<1>4. CASE s \in AirportLoads /\ AirportsArrive(s)
  BY <1>0, <1>1, <1>4 DEF AirportsArrive, Types
<1>9. CASE s \in AirportLoads /\ DrawMap(s)
  <2>1. request[s] \in Request BY <1>0, <1>9 DEF DrawMap, Types
  <2>2. [request[s] EXCEPT !.status = "drawing"] \in Request
    <3>1. request[s].seen \in Store BY <2>1 DEF Request
    <3> QED BY <2>1, <3>1, ReplyType
  <2>3. request' \in [Senders -> Request \cup {NoRequest}]
    BY <1>0, <1>9, <2>2 DEF DrawMap, Types
  <2> QED BY <1>0, <1>9, <2>3 DEF DrawMap, Types, serverVars
<1>10. CASE s \in AirportLoads /\ MapDrawn(s) BY <1>0, <1>1, <1>10 DEF MapDrawn, Types
<1>5. CASE s \in TripLoads /\ TripsArrive(s)
  <2>1. request[s] \in Request BY <1>0, <1>5 DEF TripsArrive, Arrives, Types
  <2>2. Shown(request[s].seen) \in [Trips -> Seq(Data)] BY <2>1, ListTypes DEF Request
  <2>3. dirty[s] \in SUBSET Trips BY <1>0, <1>5
  <2>4. list' \in [Trips -> Seq(Data)] /\ unsure' \in SUBSET Trips
    BY <1>0, <1>5, <2>2, <2>3 DEF TripsArrive, Types
  <2> QED BY <1>0, <1>1, <1>5, <2>4 DEF TripsArrive, Types
<1>6. CASE s = "form" /\ Saved
  <2>1. Arrives("form", {"ok"}) BY <1>6 DEF Saved
  <2>2. Live("form") BY <2>1 DEF Arrives, Live
  <2>3. request["form"].write.data \in Data BY <2>2 DEF Shape
  <2>4. list' \in [Trips -> Seq(Data)]
    <3>1. \A t \in Trips : Updated(list[t], request["form"].write) \in Seq(Data)
      BY <1>0, <2>3, UpdatedType DEF Types
    <3> QED BY <1>0, <1>6, <3>1 DEF Saved, Types
  <2> QED BY <1>0, <1>1, <1>6, <2>1, <2>4 DEF Saved, Types
<1>7. CASE s = "delete" /\ Deleted
  <2>1. Arrives("delete", {"ok"}) BY <1>7 DEF Deleted
  <2>2. Live("delete") BY <2>1 DEF Arrives, Live
  <2>3. pendingDelete \in Trips /\ request["delete"].write \in Write
    BY <1>0, <2>2 DEF Shape, Types, Live, Request, Writers
  <2>4. list' \in [Trips -> Seq(Data)]
    <3>1. <<>> \in Seq(Data) OBVIOUS
    <3> QED BY <1>0, <1>7, <3>1 DEF Deleted, Types
  <2>5. unsure' \in SUBSET Trips BY <1>0, <1>7, <2>3 DEF Deleted, Types, Write
  <2> QED BY <1>0, <1>1, <1>7, <2>1, <2>4, <2>5 DEF Deleted, Types
<1>8. CASE s = "report" /\ ReportArrives BY <1>0, <1>1, <1>8 DEF ReportArrives, Types
<1> QED BY <1>2, <1>3, <1>4, <1>5, <1>6, <1>7, <1>8, <1>9, <1>10, AnswerTo(s) DEF AnswerTo

-----------------------------------------------------------------------------
(* What the server's answer changes.                                       *)
LEMMA ServeStep ==
  ASSUME Types, NEW s \in Senders, Serve(s)
  PROVE  /\ Live(s) /\ request'[s] # NoRequest
         /\ \A x \in Senders \ {s} : request'[x] = request[x]
         /\ request'[s].session = request[s].session
         /\ request'[s].write = request[s].write
         /\ request[s].status = "sent"
         /\ request'[s].status = "denied" => request[s].session \notin valid
         /\ request[s].write = NoWrite => store' = store
         /\ request[s].write # NoWrite =>
              \/ request'[s].status # "ok" /\ store' = store
              \/ /\ request'[s].status = "ok" /\ ~ Refused(request[s].write)
                 /\ store' = [store EXCEPT ![request[s].write.trip] = request[s].write.data]
         /\ request'[s].status = "ok" /\ request[s].write = NoWrite /\ s \in TripLoads
              => request'[s].seen = store
         /\ request'[s].status # "ok" => request'[s].seen = request[s].seen
<1>1. request[s] \in Request BY DEF Types, Serve
<1>2. request[s].seen \in Store /\ store \in Store BY <1>1 DEF Types, Request
<1>3. ASSUME NEW st \in {"sent", "ok", "denied", "failed"}, NEW seen \in Store,
             request' = [request EXCEPT ![s].status = st, ![s].seen = seen]
      PROVE  /\ \A x \in Senders \ {s} : request'[x] = request[x]
             /\ request'[s] # NoRequest
             /\ request'[s].session = request[s].session
             /\ request'[s].write = request[s].write
             /\ request'[s].status = st /\ request'[s].seen = seen
  <2>1. request'[s] = [request[s] EXCEPT !.status = st, !.seen = seen]
    BY <1>1, <1>3 DEF Types
  <2>2. request'[s] # NoRequest BY <1>1, <2>1, ReplyType
  <2> QED BY <1>1, <1>3, <2>1, <2>2 DEF Types, Request
<1>4. CASE request[s].session \notin valid
  <2>1. request' = [request EXCEPT ![s].status = "denied", ![s].seen = request[s].seen]
        /\ store' = store
    BY <1>4 DEF Serve
  <2> QED BY <1>2, <1>3, <1>4, <2>1 DEF Serve, Live
<1>5. CASE request[s].session \in valid /\ request[s].write = NoWrite
  <2> DEFINE seen == IF s \in TripLoads THEN store ELSE request[s].seen
  <2>1. request' = [request EXCEPT ![s].status = "ok", ![s].seen = seen] /\ store' = store
    BY <1>5 DEF Serve
  <2>2. seen \in Store BY <1>2
  <2>3. seen = store \/ s \notin TripLoads OBVIOUS
  <2> HIDE DEF seen
  <2> QED BY <1>2, <1>3, <1>5, <2>1, <2>2, <2>3 DEF Serve, Live
<1>6. CASE request[s].session \in valid /\ request[s].write # NoWrite
  <2> DEFINE st == IF Refused(request[s].write) THEN "failed" ELSE "ok"
  <2>1. request' = [request EXCEPT ![s].status = st, ![s].seen = request[s].seen]
    BY <1>6 DEF Serve
  <2>2. st \in {"sent", "ok", "denied", "failed"} /\ st # "denied" OBVIOUS
  <2>3. \/ st # "ok" /\ store' = store
        \/ /\ st = "ok" /\ ~ Refused(request[s].write)
           /\ store' = [store EXCEPT ![request[s].write.trip] = request[s].write.data]
    BY <1>6 DEF Serve, CarryOut
  <2> HIDE DEF st
  <2>4. /\ \A x \in Senders \ {s} : request'[x] = request[x]
        /\ request'[s] # NoRequest
        /\ request'[s].session = request[s].session
        /\ request'[s].write = request[s].write
        /\ request'[s].status = st /\ request'[s].seen = request[s].seen
    BY <1>2, <1>3, <2>1, <2>2
  <2>5. Live(s) /\ request[s].status = "sent" BY DEF Serve, Live
  <2> QED BY <1>6, <2>2, <2>3, <2>4, <2>5
<1> QED BY <1>4, <1>5, <1>6 DEF Serve

(* What a failure changes.                                                 *)
LEMMA FailStep ==
  ASSUME Types, NEW s \in Senders, NEW late \in BOOLEAN, Fail(s, late)
  PROVE  /\ Live(s) /\ request'[s] # NoRequest
         /\ \A x \in Senders \ {s} : request'[x] = request[x]
         /\ request'[s].session = request[s].session
         /\ request'[s].write = request[s].write
         /\ request'[s].seen = request[s].seen
         /\ request[s].status = "sent" /\ request'[s].status = "failed"
<1>1. request[s] \in Request BY DEF Types, Fail
<1>2. request'[s] = [request[s] EXCEPT !.status = "failed"] BY <1>1 DEF Fail, Types
<1>3. request'[s] # NoRequest
  <2>1. request[s].seen \in Store BY <1>1 DEF Request
  <2> QED BY <1>1, <1>2, <2>1, ReplyType
<1>4. \A x \in Senders \ {s} : request'[x] = request[x] BY DEF Fail, Types
<1> QED BY <1>1, <1>2, <1>3, <1>4 DEF Fail, Live, Request

(* A request answered leaves its sender and its button, and nothing else.  *)
LEMMA ArriveStep ==
  ASSUME Types, NEW s \in Senders, NEW status, Arrives(s, status)
  PROVE  /\ Live(s) /\ request[s].status \in status
         /\ request'[s] = NoRequest
         /\ \A x \in Senders \ {s} : request'[x] = request[x]
         /\ disabled' = Enabled(s)
         /\ UNCHANGED <<calls, pendingDelete, orphans, store, used, issued, valid>>
BY DEF Arrives, Types, Live, serverVars

(* What the start of the drawing changes.                                  *)
LEMMA DrawStep ==
  ASSUME Types, NEW s \in Senders, DrawMap(s)
  PROVE  /\ Live(s) /\ request'[s] # NoRequest
         /\ \A x \in Senders \ {s} : request'[x] = request[x]
         /\ request'[s].session = request[s].session
         /\ request'[s].write = request[s].write
         /\ request'[s].seen = request[s].seen
         /\ request[s].status = "ok" /\ request'[s].status = "drawing"
         /\ UNCHANGED <<calls, token, list, dialog, editing, pendingDelete, disabled,
                        orphans, store, used, issued, valid, unsure>>
<1>1. request[s] \in Request BY DEF Types, DrawMap
<1>2. request'[s] = [request[s] EXCEPT !.status = "drawing"] BY <1>1 DEF DrawMap, Types
<1>3. request'[s] # NoRequest
  <2>1. request[s].seen \in Store BY <1>1 DEF Request
  <2> QED BY <1>1, <1>2, <2>1, ReplyType
<1>4. \A x \in Senders \ {s} : request'[x] = request[x] BY DEF DrawMap, Types
<1> QED BY <1>1, <1>2, <1>3, <1>4 DEF DrawMap, Live, Request, serverVars

-----------------------------------------------------------------------------
(* The page keeps its shape, and so do the requests: the user's steps.     *)
LEMMA UserShape ==
  ASSUME TypeOK, Shape, User, Types'
  PROVE  Page' /\ Shape'
<1> USE SendersFact, TypeParts
<1>0. Types /\ Page OBVIOUS
<1>1. CASE Login
  <2>1. \A s \in Senders : request'[s] = IF s \in LoginLoads THEN Asked(issued + 1, NoWrite)
                                         ELSE request[s]
    BY <1>1 DEF Login
  <2>2. issued + 1 \in Sessions /\ issued \in Nat
    BY <1>0, <1>1, BoundsAssumption DEF Login, Types, Sessions
  <2>3. /\ Asked(issued + 1, NoWrite) # NoRequest
        /\ Asked(issued + 1, NoWrite).session = issued + 1
        /\ Asked(issued + 1, NoWrite).write = NoWrite
        /\ Asked(issued + 1, NoWrite).status = "sent"
    BY <2>2, AskedType DEF Asked
  <2>4. Page' BY <1>0, <1>1, <2>1, <2>2, <2>3 DEF Login, Page, pageVars, Buttons, Writers, LoginLoads
  <2>5. ASSUME NEW s \in Senders, Live(s)'
        PROVE  /\ request'[s].session \in 1..issued'
               /\ request'[s].write # NoWrite <=> s \in Writers
               /\ request'[s].status = "denied" => request'[s].session \notin valid'
    <3>1. CASE s \in LoginLoads
      BY <1>1, <2>1, <2>2, <2>3, <3>1 DEF Login, LoginLoads, Writers
    <3>2. CASE s \notin LoginLoads
      <4>1. Live(s) /\ request'[s] = request[s] BY <2>1, <2>5, <3>2 DEF Live
      <4>2. request[s].session \in 1..issued BY <4>1 DEF Shape
      <4> QED BY <1>1, <2>2, <4>1, <4>2 DEF Login, Shape
    <3> QED BY <3>1, <3>2
  <2>6. request'["form"] = request["form"] /\ request'["delete"] = request["delete"]
    BY <2>1 DEF LoginLoads, Writers
  <2> QED BY <1>1, <2>4, <2>5, <2>6 DEF Login, Shape, Live, pageVars
<1>2. CASE ClickLogout \/ CloseDialog
  BY <1>0, <1>2 DEF ClickLogout, ClearPage, CloseDialog, Page, Shape, Live, serverVars
<1>3. CASE ReloadPage
  <2>1. \A s \in Senders : request'[s] = IF s \in StartLoads /\ token # 0
                                         THEN Asked(token, NoWrite) ELSE NoRequest
    BY <1>3 DEF ReloadPage
  <2>2. token # 0 => /\ Asked(token, NoWrite) # NoRequest
                     /\ Asked(token, NoWrite).session \in 1..issued
                     /\ Asked(token, NoWrite).write = NoWrite
                     /\ Asked(token, NoWrite).status = "sent"
    <3>1. token # 0 => token \in Sessions /\ token \in 1..issued
      BY <1>0, BoundsAssumption DEF Types, Sessions
    <3> QED BY <3>1, AskedType DEF Asked
  <2>3. UNCHANGED <<issued, valid, token>> /\ dialog' = "none" /\ editing' = NoTrip
        /\ ~ airports' /\ disabled' = {}
    BY <1>3 DEF ReloadPage, ClearPage, serverVars
  <2>4. Page' BY <2>1, <2>3 DEF Page, Buttons, LoginLoads, StartLoads, Writers
  <2> QED BY <2>1, <2>2, <2>3, <2>4 DEF Shape, Live, StartLoads, Writers
<1>4. CASE ConfirmDelete
  <2> DEFINE w == [op |-> "delete", trip |-> pendingDelete, data |-> NoData]
  <2>1. w \in Write /\ token # 0 /\ pendingDelete # NoTrip
    BY <1>0, <1>4 DEF ConfirmDelete, Shape, Page, Types, Write
  <2>2. w # NoWrite /\ w.op = "delete" /\ w.data = NoData BY <2>1, NullAssumption
  <2>3. Send("delete", w) BY <1>4 DEF ConfirmDelete
  <2> HIDE DEF w
  <2>4. /\ request'["delete"] = Asked(token, w) /\ request'["delete"] # NoRequest
        /\ \A x \in Senders \ {"delete"} : request'[x] = request[x]
    BY <1>0, <2>1, <2>3, SendTypes
  <2>5. token \in 1..issued BY <1>0, <2>1, BoundsAssumption DEF Types
  <2>6. /\ request'["delete"].session = token /\ request'["delete"].write = w
        /\ request'["delete"].status = "sent"
    BY <2>4 DEF Asked
  <2>7. UNCHANGED <<token, airports, dialog, editing, pendingDelete, issued, valid>>
        /\ disabled' = disabled \cup {"delete"}
    BY <1>4 DEF ConfirmDelete, pageVars, serverVars
  <2>8. Page' BY <1>0, <2>4, <2>7 DEF Page, Buttons, LoginLoads, Writers
  <2> QED BY <2>1, <2>2, <2>4, <2>5, <2>6, <2>7, <2>8 DEF Shape, Live, Writers
<1>5. ASSUME NEW b \in {"reload", "report"}, ClickRead(b) PROVE Page' /\ Shape'
  <2>1. /\ request'[b] = Asked(token, NoWrite) /\ request'[b] # NoRequest
        /\ \A x \in Senders \ {b} : request'[x] = request[x]
    BY <1>0, <1>5, SendTypes DEF ClickRead, Clickable
  <2>2. token \in 1..issued BY <1>0, <1>5, BoundsAssumption DEF Types, ClickRead, Clickable
  <2>3. /\ request'[b].session = token /\ request'[b].write = NoWrite
        /\ request'[b].status = "sent"
    BY <2>1 DEF Asked
  <2>4. UNCHANGED <<token, airports, dialog, editing, pendingDelete, issued, valid>>
        /\ disabled' = disabled \cup {b}
    BY <1>5 DEF ClickRead, pageVars, serverVars
  <2>5. Page' BY <1>0, <2>1, <2>4 DEF Page, Buttons, LoginLoads, Writers
  <2> QED BY <2>1, <2>2, <2>3, <2>4, <2>5 DEF Shape, Live, Writers
<1>6. ASSUME NEW t \in Trips \cup {NoTrip}, OpenForm(t) PROVE Page' /\ Shape'
  BY <1>0, <1>6 DEF OpenForm, Clickable, Page, Shape, Live, serverVars
<1>7. ASSUME NEW t \in Trips, AskDelete(t) PROVE Page' /\ Shape'
  BY <1>0, <1>7, NullAssumption DEF AskDelete, Clickable, Page, Shape, Live, serverVars
<1>8. ASSUME NEW t \in Trips, NEW d \in Data, Submit(t, d) PROVE Page' /\ Shape'
  <2> DEFINE w == [op |-> IF editing = NoTrip THEN "create" ELSE "edit", trip |-> t, data |-> d]
  <2>1. w \in Write /\ token # 0 BY <1>0, <1>8 DEF Submit, Write, Page
  <2>2. w # NoWrite /\ w.op \in {"create", "edit"} /\ w.data \in Data BY <2>1, NullAssumption
  <2>3. Send("form", w) BY <1>8 DEF Submit
  <2> HIDE DEF w
  <2>4. /\ request'["form"] = Asked(token, w) /\ request'["form"] # NoRequest
        /\ \A x \in Senders \ {"form"} : request'[x] = request[x]
    BY <1>0, <2>1, <2>3, SendTypes
  <2>5. token \in 1..issued BY <1>0, <2>1, BoundsAssumption DEF Types
  <2>6. /\ request'["form"].session = token /\ request'["form"].write = w
        /\ request'["form"].status = "sent"
    BY <2>4 DEF Asked
  <2>7. UNCHANGED <<token, airports, dialog, editing, pendingDelete, issued, valid>>
        /\ disabled' = disabled \cup {"form"}
    BY <1>8 DEF Submit, pageVars
  <2>8. Page' BY <1>0, <2>4, <2>7 DEF Page, Buttons, LoginLoads, Writers
  <2> QED BY <2>1, <2>2, <2>4, <2>5, <2>6, <2>7, <2>8 DEF Shape, Live, Writers
<1> QED BY <1>1, <1>2, <1>3, <1>4, <1>5, <1>6, <1>7, <1>8, User DEF User

(* The page keeps its shape, and so do the requests: the environment.      *)
LEMMA EnvironmentShape ==
  ASSUME TypeOK, Shape, Environment
  PROVE  Page' /\ Shape'
<1> USE SendersFact, TypeParts
<1>0. Types /\ Page OBVIOUS
<1>1. ASSUME NEW s \in Senders, Live(s), request'[s] # NoRequest,
             \A x \in Senders \ {s} : request'[x] = request[x],
             request'[s].session = request[s].session,
             request'[s].write = request[s].write,
             request'[s].status = "denied" => request[s].session \notin valid,
             UNCHANGED <<token, pageVars, disabled, issued, valid>>
      PROVE  Page' /\ Shape'
  <2>1. UNCHANGED <<token, airports, dialog, editing, pendingDelete, disabled, issued, valid>>
    BY <1>1 DEF pageVars
  <2>2. \A x \in Senders : request'[x] # NoRequest <=> request[x] # NoRequest
    BY <1>1 DEF Live
  <2>3. Page' BY <1>0, <2>1, <2>2 DEF Page
  <2>4. ASSUME NEW x \in Senders, Live(x)'
        PROVE  /\ request'[x].session \in 1..issued'
               /\ request'[x].write # NoWrite <=> x \in Writers
               /\ request'[x].status = "denied" => request'[x].session \notin valid'
               /\ Live(x) /\ request'[x].write = request[x].write
    <3>1. CASE x = s BY <1>1, <2>1, <3>1 DEF Shape
    <3>2. CASE x # s BY <1>1, <2>1, <2>4, <3>2 DEF Shape, Live
    <3> QED BY <3>1, <3>2
  <2> QED BY <2>1, <2>3, <2>4 DEF Shape, Writers
<1>2. ASSUME NEW s \in Senders, Serve(s) PROVE Page' /\ Shape'
  <2>1. UNCHANGED <<token, pageVars, disabled, issued, valid>> BY <1>2 DEF Serve
  <2> QED BY <1>0, <1>1, <1>2, <2>1, ServeStep
<1>3. ASSUME NEW s \in Senders, NEW late \in BOOLEAN, Fail(s, late) PROVE Page' /\ Shape'
  <2>1. UNCHANGED <<token, pageVars, disabled, issued, valid>> BY <1>3 DEF Fail, serverVars
  <2>2. request'[s].status # "denied" BY <1>0, <1>3, FailStep
  <2> QED BY <1>0, <1>1, <1>3, <2>1, <2>2, FailStep
<1>4. ASSUME NEW w \in orphans, Settle(w) PROVE Page' /\ Shape'
  BY <1>0, <1>4 DEF Settle, pageVars, Page, Shape, Live
<1>5. ASSUME NEW n \in valid, Expire(n) PROVE Page' /\ Shape'
  BY <1>0, <1>5 DEF Expire, pageVars, Page, Shape, Live
<1> QED BY <1>2, <1>3, <1>4, <1>5, Environment DEF Environment

(* The page keeps its shape, and so do the requests: the answers.          *)
LEMMA AnswerShape ==
  ASSUME TypeOK, Shape, NEW s \in Senders, AnswerTo(s)
  PROVE  Page' /\ Shape'
<1> USE SendersFact, TypeParts
<1>0. Types /\ Page OBVIOUS
<1>1. ASSUME NEW status, Arrives(s, status),
             token' = 0 => dialog' = "none" /\ ~ airports',
             dialog' \in {dialog, "none"},
             editing' = NoTrip \/ (editing' = editing /\ dialog' = dialog)
      PROVE  Page' /\ Shape'
  <2>1. /\ Live(s) /\ request'[s] = NoRequest
        /\ \A x \in Senders \ {s} : request'[x] = request[x]
        /\ disabled' = Enabled(s)
        /\ UNCHANGED <<pendingDelete, issued, valid>>
    BY <1>0, <1>1, ArriveStep
  <2>2. \A b \in Buttons \ {"login"} : b \in disabled' <=> request'[b] # NoRequest
    <3>1. CASE s \in LoginLoads
      BY <1>0, <2>1, <3>1 DEF Enabled, Page, Buttons, LoginLoads, Writers
    <3>2. CASE s \notin LoginLoads
      BY <1>0, <2>1, <3>2 DEF Enabled, Page, Buttons
    <3> QED BY <3>1, <3>2
  <2>3. "login" \in disabled' <=> \E x \in LoginLoads : request'[x] # NoRequest
    <3>1. CASE s \in LoginLoads
      <4>1. "login" \in disabled BY <1>0, <2>1, <3>1 DEF Page, Live
      <4> QED BY <2>1, <3>1, <4>1 DEF Enabled
    <3>2. CASE s \notin LoginLoads
      <4>1. s # "login" BY DEF Senders, TripLoads, AirportLoads, Writers
      <4> QED BY <1>0, <2>1, <3>2, <4>1 DEF Enabled, Page
    <3> QED BY <3>1, <3>2
  <2>4. Page' BY <1>1, <2>2, <2>3 DEF Page
  <2>5. \A x \in Senders : Live(x)' => Live(x) /\ request'[x] = request[x]
    BY <2>1 DEF Live
  <2> QED BY <1>1, <2>1, <2>4, <2>5 DEF Shape, Writers
<1>2. CASE Denied(s) BY <1>1, <1>2 DEF Denied, ClearPage
<1>3. CASE Failed(s) BY <1>0, <1>1, <1>3 DEF Failed, Page
<1>4. CASE s \in AirportLoads /\ AirportsArrive(s)
  BY <1>0, <1>1, <1>4 DEF AirportsArrive, Page
<1>9. CASE s \in AirportLoads /\ DrawMap(s)
  <2>1. token # 0 /\ airports' = TRUE BY <1>9 DEF DrawMap
  <2>2. /\ UNCHANGED <<token, dialog, editing, pendingDelete, disabled, issued, valid>>
        /\ \A x \in Senders : (request'[x] # NoRequest <=> Live(x))
                              /\ request'[x].session = request[x].session
                              /\ request'[x].write = request[x].write
                              /\ request'[x].status \in {request[x].status, "drawing"}
    BY <1>0, <1>9, DrawStep DEF Live
  <2>3. \A x \in Senders : request'[x] # NoRequest <=> request[x] # NoRequest
    BY <2>2 DEF Live
  <2>4. Page' BY <1>0, <2>1, <2>2, <2>3 DEF Page
  <2>5. ASSUME NEW x \in Senders, Live(x)'
        PROVE  /\ request'[x].session \in 1..issued'
               /\ request'[x].write # NoWrite <=> x \in Writers
               /\ request'[x].status = "denied" => request'[x].session \notin valid'
               /\ Live(x) /\ request'[x].write = request[x].write
    BY <2>2, <2>5 DEF Shape, Live
  <2> QED BY <2>2, <2>4, <2>5 DEF Shape, Writers
<1>10. CASE s \in AirportLoads /\ MapDrawn(s)
  BY <1>0, <1>1, <1>10 DEF MapDrawn, Page
<1>5. CASE s \in TripLoads /\ TripsArrive(s)
  BY <1>0, <1>1, <1>5 DEF TripsArrive, Page
<1>6. CASE s = "form" /\ Saved
  <2>1. /\ Arrives("form", {"ok"}) /\ editing' = NoTrip
        /\ dialog' = IF dialog = "form" THEN "none" ELSE dialog
        /\ UNCHANGED <<token, airports>>
    BY <1>6 DEF Saved
  <2> QED BY <1>0, <1>1, <1>6, <2>1 DEF Page
<1>7. CASE s = "delete" /\ Deleted
  <2>1. /\ Arrives("delete", {"ok"}) /\ editing' = editing
        /\ dialog' = IF dialog = "delete" THEN "none" ELSE dialog
        /\ UNCHANGED <<token, airports>>
    BY <1>7 DEF Deleted
  <2>2. editing' = NoTrip \/ (editing' = editing /\ dialog' = dialog) BY <2>1 DEF Shape
  <2> QED BY <1>0, <1>1, <1>7, <2>1, <2>2 DEF Page
<1>8. CASE s = "report" /\ ReportArrives BY <1>0, <1>1, <1>8 DEF ReportArrives, Page
<1> QED BY <1>2, <1>3, <1>4, <1>5, <1>6, <1>7, <1>8, <1>9, <1>10, AnswerTo(s) DEF AnswerTo

-----------------------------------------------------------------------------
(* The trips that are touched are trips.                                   *)
LEMMA TouchedType == ASSUME Types, Shape PROVE Touched \subseteq Trips
<1>1. ASSUME NEW s \in Writers, Live(s) PROVE request[s].write.trip \in Trips
  <2>1. request[s] \in Request /\ request[s].write # NoWrite
    BY <1>1, SendersFact DEF Types, Shape, Live
  <2> QED BY <2>1 DEF Request, Write
<1>2. \A w \in orphans : w.trip \in Trips BY DEF Types, Write
<1> QED BY <1>1, <1>2 DEF Touched, Live

(* A step keeps the types.                                                 *)
LEMMA TypeStep ==
  ASSUME TypeOK, Shape, [Next]_vars
  PROVE  TypeOK' /\ Shape'
<1>0. Types /\ Page /\ dirty \in [TripLoads -> SUBSET Trips] BY TypeParts
<1>1. CASE Next
  <2>1. Types' BY <1>1, UserTypes, EnvironmentTypes, AnswerTypes DEF Next
  <2>2. Page' /\ Shape'
    BY <1>1, <2>1, UserShape, EnvironmentShape, AnswerShape DEF Next
  <2>3. Touched \subseteq Trips BY <1>0, TouchedType
  <2>4. Touched' \subseteq Trips
    <3>1. ASSUME NEW s \in Writers, Live(s)' PROVE request'[s].write.trip \in Trips
      <4>1. request'[s] \in Request /\ request'[s].write # NoWrite
        BY <2>1, <2>2, <3>1, SendersFact DEF Types, Shape, Live
      <4> QED BY <4>1 DEF Request, Write
    <3>2. \A w \in orphans' : w.trip \in Trips BY <2>1 DEF Types, Write
    <3> QED BY <3>1, <3>2 DEF Touched, Live
  <2>5. dirty' \in [TripLoads -> SUBSET Trips]
    <3>1. dirty' = [s \in TripLoads |-> IF request'[s] = NoRequest THEN {}
                                        ELSE dirty[s] \cup Touched \cup Touched']
      BY <1>1 DEF Next, Overlaps
    <3> QED BY <1>0, <2>3, <2>4, <3>1
  <2> QED BY <2>1, <2>2, <2>5 DEF TypeOK, Types, Page
<1>2. CASE UNCHANGED vars
  <2>1. UNCHANGED <<token, airports, list, dialog, editing, pendingDelete, disabled, request,
                    orphans, store, used, issued, valid, calls, dirty, unsure>>
    BY <1>2 DEF vars, pageVars, serverVars
  <2>2. TypeOK' BY <2>1 DEF TypeOK
  <2>3. Shape' BY <2>1 DEF Shape, Live
  <2> QED BY <2>2, <2>3
<1> QED BY <1>1, <1>2

(* Initially.                                                              *)
LEMMA InitTypes == Init => TypeOK /\ Shape
<1> SUFFICES ASSUME Init PROVE TypeOK /\ Shape OBVIOUS
<1> USE SendersFact, NullAssumption, BoundsAssumption
<1>1. \A s \in Senders : request[s] = NoRequest BY DEF Init
<1>2. Shape BY <1>1 DEF Init, Shape, Live, Writers
<1>3. Page BY <1>1 DEF Init, Page
<1>4. list \in [Trips -> Seq(Data)] BY ListTypes DEF Init
<1>5. token \in 0..issued /\ issued \in 0..MaxSessions /\ valid \in SUBSET (1..issued)
      /\ calls \in 0..MaxCalls /\ dirty \in [TripLoads -> SUBSET Trips]
  BY DEF Init
<1>6. Types BY <1>4, <1>5 DEF Init, Types
<1> QED BY <1>2, <1>3, <1>5, <1>6, TypeParts

-----------------------------------------------------------------------------
(* What every step respects: the store changes only at touched trips, a    *)
(* load has read what is stored, and whatever names a trip names one whose *)
(* id was drawn.                                                           *)
StepFacts ==
  /\ \A t \in Trips : store'[t] = store[t] \/ t \in Touched
  /\ \A s \in TripLoads : request'[s] # NoRequest =>
       \/ /\ Live(s) /\ request'[s].seen = request[s].seen
          /\ request'[s].status = "ok" => request[s].status = "ok"
       \/ request'[s].seen = store /\ store' = store
       \/ request'[s].status = "sent" /\ \A t \in Trips : request'[s].seen[t] = NoData
  /\ Touched' \subseteq Touched \cup used'
  /\ used \subseteq used'
  /\ pendingDelete' \in used \cup {NoTrip} /\ editing' \in used \cup {NoTrip}
  /\ \A t \in Trips : list'[t] # <<>> => t \in used

(* Touched, by its parts.                                                  *)
LEMMA TouchedParts ==
  /\ \A w \in orphans : w.trip \in Touched
  /\ \A s \in Writers : Live(s) => request[s].write.trip \in Touched
BY DEF Touched, Live

(* A step after which no write is under way but those there were.          *)
LEMMA TouchedShrinks ==
  ASSUME \A w \in orphans' : w.trip \in Touched,
         \A s \in Writers : request'[s] # NoRequest => request'[s].write.trip \in Touched
  PROVE  Touched' \subseteq Touched
BY DEF Touched

(* StepFacts: the user's steps.                                            *)
LEMMA UserFacts ==
  ASSUME TypeOK, Shape, Known, User
  PROVE  StepFacts
<1> USE SendersFact, TypeParts
<1>0. Types /\ Page OBVIOUS
<1>1. ASSUME UNCHANGED <<list, store, used, orphans, pendingDelete, editing>>,
             NEW S \in SUBSET Senders, NEW n \in Sessions, S \cap Writers = {},
             \A x \in Senders : request'[x] = IF x \in S THEN Asked(n, NoWrite) ELSE request[x]
      PROVE  StepFacts
  <2>1. \A x \in Writers : request'[x] = request[x] BY <1>1
  <2>2. Touched' = Touched BY <1>1, <2>1 DEF Touched
  <2>3. ASSUME NEW s \in TripLoads, request'[s] # NoRequest
        PROVE \/ /\ Live(s) /\ request'[s].seen = request[s].seen
                 /\ request'[s].status = "ok" => request[s].status = "ok"
              \/ request'[s].status = "sent" /\ \A t \in Trips : request'[s].seen[t] = NoData
    <3>1. CASE s \in S BY <1>1, <3>1 DEF Asked
    <3>2. CASE s \notin S BY <1>1, <2>3, <3>2 DEF Live
    <3> QED BY <3>1, <3>2
  <2> QED BY <1>1, <2>2, <2>3 DEF StepFacts, Known
<1>2. ASSUME UNCHANGED <<store, used, orphans, request>>,
             pendingDelete' \in used \cup {NoTrip}, editing' \in used \cup {NoTrip},
             list' \in {list, NoTrips}
      PROVE  StepFacts
  <2>1. Touched' = Touched BY <1>2 DEF Touched
  <2>2. \A t \in Trips : list'[t] # <<>> => t \in used BY <1>2 DEF NoTrips, Known
  <2>3. \A s \in TripLoads : request'[s] # NoRequest =>
          /\ Live(s) /\ request'[s].seen = request[s].seen
          /\ request'[s].status = "ok" => request[s].status = "ok"
    BY <1>2 DEF Live
  <2> QED BY <1>2, <2>1, <2>2, <2>3 DEF StepFacts
<1>3. ASSUME UNCHANGED <<list, store, orphans, pendingDelete, editing>>,
             NEW s \in Writers, NEW w, request'[s].write = w, w.trip \in used', used \subseteq used',
             \A x \in Senders \ {s} : request'[x] = request[x]
      PROVE  StepFacts
  <2>1. Touched' \subseteq Touched \cup used' BY <1>3 DEF Touched
  <2>2. \A x \in TripLoads : request'[x] # NoRequest =>
          /\ Live(x) /\ request'[x].seen = request[x].seen
          /\ request'[x].status = "ok" => request[x].status = "ok"
    BY <1>3 DEF Live
  <2> QED BY <1>3, <2>1, <2>2 DEF StepFacts, Known
<1>4. CASE Login
  <2>1. issued + 1 \in Sessions BY <1>0, <1>4, BoundsAssumption DEF Login, Types, Sessions
  <2>2. LoginLoads \cap Writers = {} BY DEF LoginLoads, Writers
  <2> QED BY <1>1, <1>4, <2>1, <2>2 DEF Login, pageVars
<1>5. CASE ClickLogout BY <1>2, <1>5 DEF ClickLogout, ClearPage, serverVars, Known
<1>6. CASE CloseDialog BY <1>2, <1>6 DEF CloseDialog, serverVars, Known
<1>7. CASE ConfirmDelete
  <2> DEFINE w == [op |-> "delete", trip |-> pendingDelete, data |-> NoData]
  <2>1. w \in Write /\ token # 0 /\ pendingDelete # NoTrip
    BY <1>0, <1>7 DEF ConfirmDelete, Shape, Page, Types, Write
  <2>2. Send("delete", w) /\ w.trip = pendingDelete BY <1>7 DEF ConfirmDelete
  <2> HIDE DEF w
  <2>3. /\ request'["delete"] = Asked(token, w)
        /\ \A x \in Senders \ {"delete"} : request'[x] = request[x]
    BY <1>0, <2>1, <2>2, SendTypes
  <2>4. request'["delete"].write = w BY <2>3 DEF Asked
  <2>5. UNCHANGED <<list, store, used, orphans, pendingDelete, editing>>
    BY <1>7 DEF ConfirmDelete, pageVars, serverVars
  <2>6. w.trip \in used' BY <2>1, <2>2, <2>5 DEF Known
  <2>7. "delete" \in Writers BY DEF Writers
  <2> QED BY <1>3, <2>3, <2>4, <2>5, <2>6, <2>7
<1>8. CASE ReloadPage
  <2>1. \A s \in Senders : request'[s] = IF s \in StartLoads /\ token # 0
                                         THEN Asked(token, NoWrite) ELSE NoRequest
    BY <1>8 DEF ReloadPage
  <2>2. UNCHANGED <<store, used>> /\ list' = NoTrips /\ editing' = NoTrip /\ pendingDelete' = NoTrip
        /\ orphans' = orphans \cup Unserved
    BY <1>8 DEF ReloadPage, ClearPage, serverVars
  <2>3. Touched' \subseteq Touched
    <3>1. \A w \in orphans' : w.trip \in Touched BY <2>2, TouchedParts DEF Unserved, Live
    <3>2. \A s \in Writers : request'[s] = NoRequest BY <2>1 DEF StartLoads, Writers
    <3> QED BY <3>1, <3>2, TouchedShrinks
  <2>4. ASSUME NEW s \in TripLoads, request'[s] # NoRequest
        PROVE request'[s].status = "sent" /\ \A t \in Trips : request'[s].seen[t] = NoData
    BY <2>1, <2>4 DEF Asked
  <2>5. \A t \in Trips : list'[t] = <<>> BY <2>2 DEF NoTrips
  <2> QED BY <2>2, <2>3, <2>4, <2>5 DEF StepFacts
<1>9. ASSUME NEW b \in {"reload", "report"}, ClickRead(b) PROVE StepFacts
  <2>1. /\ request'[b] = Asked(token, NoWrite)
        /\ \A x \in Senders \ {b} : request'[x] = request[x]
    BY <1>0, <1>9, SendTypes DEF ClickRead, Clickable
  <2>2. token \in Sessions BY <1>0, <1>9, BoundsAssumption DEF Types, ClickRead, Clickable, Sessions
  <2>3. UNCHANGED <<list, store, used, orphans, pendingDelete, editing>>
    BY <1>9 DEF ClickRead, pageVars, serverVars
  <2>4. {b} \in SUBSET Senders /\ {b} \cap Writers = {} BY DEF Writers
  <2>5. \A x \in Senders : request'[x] = IF x \in {b} THEN Asked(token, NoWrite) ELSE request[x]
    BY <2>1
  <2> QED BY <1>1, <2>2, <2>3, <2>4, <2>5
<1>10. ASSUME NEW t \in Trips \cup {NoTrip}, OpenForm(t) PROVE StepFacts
  BY <1>2, <1>10 DEF OpenForm, serverVars, Known
<1>11. ASSUME NEW t \in Trips, AskDelete(t) PROVE StepFacts
  BY <1>2, <1>11 DEF AskDelete, serverVars, Known
<1>12. ASSUME NEW t \in Trips, NEW d \in Data, Submit(t, d) PROVE StepFacts
  <2> DEFINE w == [op |-> IF editing = NoTrip THEN "create" ELSE "edit", trip |-> t, data |-> d]
  <2>1. w \in Write /\ token # 0 BY <1>0, <1>12 DEF Submit, Write, Page
  <2>2. Send("form", w) /\ w.trip = t BY <1>12 DEF Submit
  <2> HIDE DEF w
  <2>3. /\ request'["form"] = Asked(token, w)
        /\ \A x \in Senders \ {"form"} : request'[x] = request[x]
    BY <1>0, <2>1, <2>2, SendTypes
  <2>4. request'["form"].write = w BY <2>3 DEF Asked
  <2>5. UNCHANGED <<list, store, orphans, pendingDelete, editing>> /\ used' = used \cup {t}
    BY <1>12 DEF Submit, pageVars
  <2>6. w.trip \in used' BY <2>2, <2>5
  <2>7. "form" \in Writers BY DEF Writers
  <2> QED BY <1>3, <2>3, <2>4, <2>5, <2>6, <2>7
<1> QED BY <1>4, <1>5, <1>6, <1>7, <1>8, <1>9, <1>10, <1>11, <1>12, User DEF User

(* StepFacts: the environment.                                             *)
LEMMA EnvironmentFacts ==
  ASSUME TypeOK, Shape, Known, Environment
  PROVE  StepFacts
<1> USE SendersFact, TypeParts
<1>0. Types OBVIOUS
<1>1. ASSUME UNCHANGED <<list, used, pendingDelete, editing>>,
             \A t \in Trips : store'[t] = store[t] \/ t \in Touched,
             Touched' \subseteq Touched,
             \A s \in TripLoads : request'[s] # NoRequest =>
               \/ /\ Live(s) /\ request'[s].seen = request[s].seen
                  /\ request'[s].status = "ok" => request[s].status = "ok"
               \/ request'[s].seen = store /\ store' = store
      PROVE  StepFacts
  BY <1>1 DEF StepFacts, Known
<1>2. ASSUME NEW s \in Senders, request'[s].write = request[s].write, Live(s),
             \A x \in Senders \ {s} : request'[x] = request[x],
             \A w \in orphans' : w.trip \in Touched
      PROVE  Touched' \subseteq Touched
  <2>1. \A x \in Writers : request'[x] # NoRequest => request'[x].write.trip \in Touched
    BY <1>2, TouchedParts DEF Live
  <2> QED BY <1>2, <2>1, TouchedShrinks
<1>3. ASSUME NEW s \in Senders, Serve(s) PROVE StepFacts
  <2>1. UNCHANGED <<list, used, pendingDelete, editing, orphans>> BY <1>3 DEF Serve, pageVars
  <2>2. Touched' \subseteq Touched BY <1>0, <1>2, <1>3, <2>1, ServeStep, TouchedParts
  <2>3. ASSUME NEW t \in Trips PROVE store'[t] = store[t] \/ t \in Touched
    <3>1. CASE s \in Writers
      <4>1. request[s].write.trip \in Touched BY <1>0, <1>3, <3>1, ServeStep, TouchedParts
      <4>2. \/ store' = store
            \/ store' = [store EXCEPT ![request[s].write.trip] = request[s].write.data]
        BY <1>0, <1>3, ServeStep
      <4> QED BY <1>0, <4>1, <4>2 DEF Types, Store
    <3>2. CASE s \notin Writers
      <4>1. request[s].write = NoWrite BY <1>0, <1>3, <3>2, ServeStep DEF Shape
      <4> QED BY <1>0, <1>3, <4>1, ServeStep
    <3> QED BY <3>1, <3>2
  <2>4. ASSUME NEW x \in TripLoads, request'[x] # NoRequest
        PROVE  \/ /\ Live(x) /\ request'[x].seen = request[x].seen
                  /\ request'[x].status = "ok" => request[x].status = "ok"
               \/ request'[x].seen = store /\ store' = store
    <3>1. CASE x = s
      <4>1. Live(s) /\ s \notin Writers BY <1>0, <1>3, <3>1, ServeStep
      <4>2. request[s].write = NoWrite BY <4>1 DEF Shape
      <4> QED BY <1>0, <1>3, <3>1, <4>1, <4>2, ServeStep
    <3>2. CASE x # s BY <1>0, <1>3, <2>4, <3>2, ServeStep DEF Live
    <3> QED BY <3>1, <3>2
  <2> QED BY <1>1, <2>1, <2>2, <2>3, <2>4
<1>4. ASSUME NEW s \in Senders, NEW late \in BOOLEAN, Fail(s, late) PROVE StepFacts
  <2>1. UNCHANGED <<list, used, pendingDelete, editing, store>>
    BY <1>4 DEF Fail, pageVars, serverVars
  <2>2. Live(s) BY <1>0, <1>4, FailStep
  <2>3. ASSUME NEW w \in orphans' PROVE w.trip \in Touched
    <3>1. CASE w \in orphans BY <3>1, TouchedParts
    <3>2. CASE w \notin orphans
      <4>1. late /\ w = request[s].write /\ request[s].write # NoWrite BY <1>4, <2>3, <3>2 DEF Fail
      <4>2. s \in Writers BY <2>2, <4>1 DEF Shape
      <4> QED BY <2>2, <4>1, <4>2, TouchedParts
    <3> QED BY <3>1, <3>2
  <2>4. Touched' \subseteq Touched BY <1>0, <1>2, <1>4, <2>3, FailStep
  <2>5. ASSUME NEW x \in TripLoads, request'[x] # NoRequest
        PROVE  /\ Live(x) /\ request'[x].seen = request[x].seen
               /\ request'[x].status = "ok" => request[x].status = "ok"
    <3>1. CASE x = s BY <1>0, <1>4, <3>1, FailStep
    <3>2. CASE x # s BY <1>0, <1>4, <2>5, <3>2, FailStep DEF Live
    <3> QED BY <3>1, <3>2
  <2> QED BY <1>1, <2>1, <2>4, <2>5
<1>5. ASSUME NEW w \in orphans, Settle(w) PROVE StepFacts
  <2>1. UNCHANGED <<list, used, pendingDelete, editing, request>> /\ orphans' \subseteq orphans
    BY <1>5 DEF Settle, pageVars
  <2>2. w.trip \in Touched BY TouchedParts
  <2>3. \A t \in Trips : store'[t] = store[t] \/ t \in Touched
    BY <1>0, <1>5, <2>2 DEF Settle, CarryOut, Types, Store
  <2>4. Touched' \subseteq Touched BY <2>1 DEF Touched
  <2>5. \A x \in TripLoads : request'[x] # NoRequest =>
          /\ Live(x) /\ request'[x].seen = request[x].seen
          /\ request'[x].status = "ok" => request[x].status = "ok"
    BY <2>1 DEF Live
  <2> QED BY <1>1, <2>1, <2>3, <2>4, <2>5
<1>6. ASSUME NEW n \in valid, Expire(n) PROVE StepFacts
  <2>1. UNCHANGED <<list, used, pendingDelete, editing, request, orphans, store>>
    BY <1>6 DEF Expire, pageVars
  <2>2. Touched' = Touched BY <2>1 DEF Touched
  <2>3. \A x \in TripLoads : request'[x] # NoRequest =>
          /\ Live(x) /\ request'[x].seen = request[x].seen
          /\ request'[x].status = "ok" => request[x].status = "ok"
    BY <2>1 DEF Live
  <2> QED BY <1>1, <2>1, <2>2, <2>3
<1> QED BY <1>3, <1>4, <1>5, <1>6, Environment DEF Environment

(* StepFacts: the answers.                                                 *)
LEMMA AnswerFacts ==
  ASSUME TypeOK, Shape, Known, NEW s \in Senders, AnswerTo(s)
  PROVE  StepFacts
<1> USE SendersFact, TypeParts
<1>0. Types OBVIOUS
<1>1. ASSUME NEW status, Arrives(s, status), editing' \in {editing, NoTrip},
             \A t \in Trips : list'[t] # <<>> => t \in used
      PROVE  StepFacts
  <2>1. /\ request'[s] = NoRequest
        /\ \A x \in Senders \ {s} : request'[x] = request[x]
        /\ UNCHANGED <<pendingDelete, orphans, store, used>>
    BY <1>0, <1>1, ArriveStep
  <2>2. \A x \in Senders : request'[x] # NoRequest => Live(x) /\ request'[x] = request[x]
    BY <2>1 DEF Live
  <2>3. Touched' \subseteq Touched
    <3>1. \A x \in Writers : request'[x] # NoRequest => request'[x].write.trip \in Touched
      BY <2>2, TouchedParts
    <3>2. \A w \in orphans' : w.trip \in Touched BY <2>1, TouchedParts
    <3> QED BY <3>1, <3>2, TouchedShrinks
  <2>4. \A x \in TripLoads : request'[x] # NoRequest =>
          /\ Live(x) /\ request'[x].seen = request[x].seen
          /\ request'[x].status = "ok" => request[x].status = "ok"
    BY <2>2
  <2> QED BY <1>1, <2>1, <2>3, <2>4 DEF StepFacts, Known
<1>2. \A t \in Trips : list[t] # <<>> => t \in used BY DEF Known
<1>3. CASE Denied(s)
  <2>1. \A t \in Trips : list'[t] = <<>> BY <1>3 DEF Denied, ClearPage, NoTrips
  <2> QED BY <1>1, <1>3, <2>1 DEF Denied, ClearPage
<1>4. CASE Failed(s) BY <1>1, <1>2, <1>4 DEF Failed
<1>5. CASE s \in AirportLoads /\ AirportsArrive(s) BY <1>1, <1>2, <1>5 DEF AirportsArrive
<1>10. CASE s \in AirportLoads /\ DrawMap(s)
  <2>1. /\ UNCHANGED <<list, store, used, orphans, pendingDelete, editing>>
        /\ \A x \in Senders \ {s} : request'[x] = request[x]
    BY <1>0, <1>10, DrawStep
  <2>2. s \notin Writers /\ s \notin TripLoads
    BY <1>10 DEF AirportLoads, Writers, TripLoads
  <2>3. Touched' \subseteq Touched
    <3>1. \A x \in Writers : request'[x] # NoRequest => request'[x].write.trip \in Touched
      BY <2>1, <2>2, TouchedParts DEF Live
    <3>2. \A w \in orphans' : w.trip \in Touched BY <2>1, TouchedParts
    <3> QED BY <3>1, <3>2, TouchedShrinks
  <2>4. \A x \in TripLoads : request'[x] # NoRequest =>
          /\ Live(x) /\ request'[x].seen = request[x].seen
          /\ request'[x].status = "ok" => request[x].status = "ok"
    BY <2>1, <2>2 DEF Live
  <2> QED BY <1>2, <2>1, <2>3, <2>4 DEF StepFacts, Known
<1>11. CASE s \in AirportLoads /\ MapDrawn(s) BY <1>1, <1>2, <1>11 DEF MapDrawn
<1>6. CASE s \in TripLoads /\ TripsArrive(s)
  <2>1. Arrives(s, {"ok"}) /\ editing' = editing BY <1>6 DEF TripsArrive
  <2>2. Live(s) BY <1>0, <2>1, ArriveStep
  <2>3. list' = list \/ list' = Shown(request[s].seen) BY <1>6 DEF TripsArrive
  <2>4. \A t \in Trips : Shown(request[s].seen)[t] # <<>> => t \in used
    BY <1>6, <2>2 DEF Shown, Known
  <2> QED BY <1>1, <1>2, <2>1, <2>3, <2>4
<1>7. CASE s = "form" /\ Saved
  <2>1. Arrives("form", {"ok"}) /\ editing' = NoTrip BY <1>7 DEF Saved
  <2>2. Live("form") /\ "form" \in Writers BY <1>0, <1>7, <2>1, ArriveStep DEF Writers
  <2>3. request["form"].write.trip \in used BY <2>2, TouchedParts DEF Known
  <2>4. \A t \in Trips : t # request["form"].write.trip => list'[t] = list[t]
    BY <1>0, <1>7 DEF Saved, Types
  <2> QED BY <1>1, <1>2, <1>7, <2>1, <2>3, <2>4
<1>8. CASE s = "delete" /\ Deleted
  <2>1. Arrives("delete", {"ok"}) /\ editing' = editing BY <1>8 DEF Deleted
  <2>2. \A t \in Trips : list'[t] \in {list[t], <<>>} BY <1>0, <1>8 DEF Deleted, Types
  <2> QED BY <1>1, <1>2, <1>8, <2>1, <2>2
<1>9. CASE s = "report" /\ ReportArrives BY <1>1, <1>2, <1>9 DEF ReportArrives
<1> QED BY <1>3, <1>4, <1>5, <1>6, <1>7, <1>8, <1>9, <1>10, <1>11, AnswerTo(s) DEF AnswerTo

(* A step keeps what names a trip known, and what a load has read true.    *)
LEMMA KnownStep ==
  ASSUME TypeOK, Shape, Known, Read, Next
  PROVE  Known' /\ Read'
<1>1. StepFacts BY UserFacts, EnvironmentFacts, AnswerFacts DEF Next
<1>2. used \subseteq used' BY <1>1 DEF StepFacts
<1>3. Known'
  <2>1. ASSUME NEW t \in Trips, store'[t] # NoData \/ list'[t] # <<>> PROVE t \in used'
    <3>1. CASE list'[t] # <<>> BY <1>1, <1>2, <3>1 DEF StepFacts
    <3>2. CASE store'[t] # NoData
      <4>1. store'[t] = store[t] \/ t \in Touched BY <1>1 DEF StepFacts
      <4> QED BY <1>2, <3>2, <4>1 DEF Known
    <3> QED BY <2>1, <3>1, <3>2
  <2>2. ASSUME NEW s \in TripLoads, NEW t \in Trips, request'[s] # NoRequest,
               request'[s].seen[t] # NoData
        PROVE  t \in used'
    <3>1. \/ Live(s) /\ request'[s].seen = request[s].seen
          \/ request'[s].seen = store
          \/ request'[s].seen[t] = NoData
      BY <1>1, <2>2 DEF StepFacts
    <3> QED BY <1>2, <2>2, <3>1 DEF Known
  <2>3. Touched' \subseteq used' BY <1>1, <1>2 DEF StepFacts, Known
  <2>4. pendingDelete' \in used' \cup {NoTrip} /\ editing' \in used' \cup {NoTrip}
    BY <1>1, <1>2 DEF StepFacts
  <2> QED BY <2>1, <2>2, <2>3, <2>4 DEF Known, Live
<1>4. ASSUME NEW s \in TripLoads, request'[s] # NoRequest
      PROVE  /\ Touched' \subseteq dirty'[s]
             /\ request'[s].status = "ok" =>
                  \A t \in Trips \ dirty'[s] : request'[s].seen[t] = store'[t]
  <2>1. dirty'[s] = dirty[s] \cup Touched \cup Touched' BY <1>4 DEF Next, Overlaps
  <2>2. ASSUME request'[s].status = "ok", NEW t \in Trips \ dirty'[s]
        PROVE  request'[s].seen[t] = store'[t]
    <3>1. store'[t] = store[t] BY <1>1, <2>1, <2>2 DEF StepFacts
    <3>2. \/ /\ Live(s) /\ request'[s].seen = request[s].seen
             /\ request[s].status = "ok"
          \/ request'[s].seen = store
      <4>1. request'[s].status # "sent" BY <2>2
      <4> QED BY <1>1, <1>4, <2>2, <4>1 DEF StepFacts
    <3> QED BY <2>1, <2>2, <3>1, <3>2 DEF Read
  <2> QED BY <2>1, <2>2
<1>5. Read' BY <1>4 DEF Read, Live
<1> QED BY <1>3, <1>5

-----------------------------------------------------------------------------
(* A step that leaves what concerns t alone.                               *)
LEMMA SureFrame ==
  ASSUME NEW t \in Trips, Sure(t),
         \A w \in orphans' : w.trip # t,
         list'[t] = list[t], store'[t] = store[t],
         Done("form", t)' <=> Done("form", t),
         Done("delete", t)' <=> Done("delete", t),
         Done("form", t) => request'["form"].write = request["form"].write,
         On("form", t)' /\ request'["form"].write.op = "create" =>
           /\ list[t] = <<>>
           /\ pendingDelete' # t
           /\ ~ On("delete", t)'
  PROVE  Sure(t)'
<1>1. Shown(store')[t] = Shown(store)[t] BY DEF Shown
<1>2. Expected(t)' = Expected(t) BY DEF Expected, Updated
<1> QED BY <1>1, <1>2 DEF Sure

(* A step that leaves the page's own writes alone.                         *)
LEMMA SureStays ==
  ASSUME NEW t \in Trips, Sure(t),
         \A w \in orphans' : w.trip # t,
         list'[t] = list[t], store'[t] = store[t],
         \A s \in Writers : request'[s] = request[s],
         pendingDelete' = pendingDelete \/ pendingDelete' # t
  PROVE  Sure(t)'
<1>1. \A s \in Writers : (On(s, t)' <=> On(s, t)) /\ (Done(s, t)' <=> Done(s, t))
  BY DEF On, Done, Live
<1>2. "form" \in Writers /\ "delete" \in Writers BY DEF Writers
<1>3. On("form", t)' /\ request'["form"].write.op = "create" =>
        list[t] = <<>> /\ pendingDelete' # t /\ ~ On("delete", t)'
  BY <1>1, <1>2 DEF Sure
<1> QED BY <1>1, <1>2, <1>3, SureFrame

(* What was sure stays sure: the user's steps.                             *)
LEMMA UserSure ==
  ASSUME TypeOK, Shape, Known, Read, User,
         NEW t \in Trips, t \notin unsure', t \notin unsure => Sure(t)
  PROVE  Sure(t)'
<1> USE SendersFact, TypeParts
<1>0. Types /\ Page OBVIOUS
<1>1. ASSUME UNCHANGED <<list, store, orphans, unsure>>,
             \A s \in Writers : request'[s] = request[s],
             pendingDelete' = pendingDelete \/ list[pendingDelete'] # <<>>
      PROVE  Sure(t)'
  <2>1. Sure(t) BY <1>1
  <2>2. \A w \in orphans' : w.trip # t BY <1>1, <2>1 DEF Sure
  <2>3. CASE pendingDelete' = pendingDelete \/ pendingDelete' # t
    BY <1>1, <2>1, <2>2, <2>3, SureStays
  <2>4. CASE list[t] # <<>>
    <3>1. \A s \in Writers : (On(s, t)' <=> On(s, t)) /\ (Done(s, t)' <=> Done(s, t))
      BY <1>1 DEF On, Done, Live
    <3>2. "form" \in Writers /\ "delete" \in Writers BY DEF Writers
    <3>3. ~ (On("form", t)' /\ request'["form"].write.op = "create")
      BY <1>1, <2>1, <2>4, <3>1, <3>2 DEF Sure
    <3> QED BY <1>1, <2>1, <2>2, <3>1, <3>2, <3>3, SureFrame
  <2> QED BY <1>1, <2>3, <2>4
<1>2. CASE ClickLogout \/ ReloadPage BY <1>2 DEF ClickLogout, ReloadPage, ClearPage
<1>3. CASE Login
  <2>1. \A s \in Writers : request'[s] = request[s] BY <1>3 DEF Login, LoginLoads, Writers
  <2> QED BY <1>1, <1>3, <2>1 DEF Login, pageVars
<1>4. CASE CloseDialog BY <1>1, <1>4 DEF CloseDialog, serverVars
<1>5. ASSUME NEW b \in {"reload", "report"}, ClickRead(b) PROVE Sure(t)'
  <2>1. \A x \in Senders \ {b} : request'[x] = request[x]
    BY <1>0, <1>5, SendTypes DEF ClickRead, Clickable
  <2>2. \A s \in Writers : request'[s] = request[s] BY <2>1 DEF Writers
  <2> QED BY <1>1, <1>5, <2>2 DEF ClickRead, pageVars, serverVars
<1>6. ASSUME NEW u \in Trips \cup {NoTrip}, OpenForm(u) PROVE Sure(t)'
  BY <1>1, <1>6 DEF OpenForm, serverVars
<1>7. ASSUME NEW u \in Trips, AskDelete(u) PROVE Sure(t)'
  BY <1>1, <1>7 DEF AskDelete, serverVars
<1>8. CASE ConfirmDelete
  <2> DEFINE w == [op |-> "delete", trip |-> pendingDelete, data |-> NoData]
  <2>1. w \in Write /\ token # 0 /\ pendingDelete # NoTrip /\ w.trip = pendingDelete
    BY <1>0, <1>8 DEF ConfirmDelete, Shape, Page, Types, Write
  <2>2. Send("delete", w) BY <1>8 DEF ConfirmDelete
  <2> HIDE DEF w
  <2>3. /\ request'["delete"] = Asked(token, w)
        /\ \A x \in Senders \ {"delete"} : request'[x] = request[x]
    BY <1>0, <2>1, <2>2, SendTypes
  <2>4. request'["delete"].write = w /\ request'["delete"].status = "sent" BY <2>3 DEF Asked
  <2>5. ~ Live("delete")
    BY <1>0, <1>8 DEF ConfirmDelete, Page, Live, Buttons, Writers
  <2>6. UNCHANGED <<list, store, orphans, unsure, pendingDelete>> /\ Sure(t)
    BY <1>8 DEF ConfirmDelete, pageVars, serverVars
  <2>7. request'["form"] = request["form"] BY <2>3
  <2>8. (On("form", t)' <=> On("form", t)) /\ (Done("form", t)' <=> Done("form", t))
    BY <2>7 DEF On, Done, Live
  <2>9. ~ Done("delete", t) /\ ~ Done("delete", t)' BY <2>4, <2>5 DEF Done, On
  <2>10. On("delete", t)' => pendingDelete = t BY <2>1, <2>4 DEF On
  <2>11. On("form", t)' /\ request'["form"].write.op = "create" =>
           list[t] = <<>> /\ pendingDelete' # t /\ ~ On("delete", t)'
    BY <2>6, <2>7, <2>8, <2>10 DEF Sure
  <2>12. \A x \in orphans' : x.trip # t BY <2>6 DEF Sure
  <2> QED BY <2>6, <2>7, <2>8, <2>9, <2>11, <2>12, SureFrame
<1>9. ASSUME NEW u \in Trips, NEW d \in Data, Submit(u, d) PROVE Sure(t)'
  <2> DEFINE w == [op |-> IF editing = NoTrip THEN "create" ELSE "edit", trip |-> u, data |-> d]
  <2>1. w \in Write /\ token # 0 BY <1>0, <1>9 DEF Submit, Write, Page
  <2>2. Send("form", w) /\ w.trip = u BY <1>9 DEF Submit
  <2>3. w.op = "create" => u \notin used BY <1>9 DEF Submit
  <2> HIDE DEF w
  <2>4. /\ request'["form"] = Asked(token, w)
        /\ \A x \in Senders \ {"form"} : request'[x] = request[x]
    BY <1>0, <2>1, <2>2, SendTypes
  <2>5. request'["form"].write = w /\ request'["form"].status = "sent" BY <2>4 DEF Asked
  <2>6. ~ Live("form") BY <1>0, <1>9 DEF Submit, Page, Live, Buttons, Writers
  <2>7. UNCHANGED <<list, store, orphans, unsure, pendingDelete>> /\ Sure(t)
    BY <1>9 DEF Submit, pageVars
  <2>8. request'["delete"] = request["delete"] BY <2>4
  <2>9. (On("delete", t)' <=> On("delete", t)) /\ (Done("delete", t)' <=> Done("delete", t))
    BY <2>8 DEF On, Done, Live
  <2>10. ~ Done("form", t) /\ ~ Done("form", t)' BY <2>5, <2>6 DEF Done, On
  <2>11. On("form", t)' => t = u BY <2>2, <2>5 DEF On
  <2>12. ASSUME On("form", t)', w.op = "create"
         PROVE  list[t] = <<>> /\ pendingDelete' # t /\ ~ On("delete", t)'
    <3>1. t \notin used BY <2>3, <2>11, <2>12
    <3>2. ~ On("delete", t) BY <3>1, TouchedParts DEF Known, On, Writers
    <3>3. t # NoTrip BY NullAssumption
    <3> QED BY <2>7, <2>9, <3>1, <3>2, <3>3 DEF Known
  <2>13. \A x \in orphans' : x.trip # t BY <2>7 DEF Sure
  <2> QED BY <2>5, <2>7, <2>9, <2>10, <2>12, <2>13, SureFrame
<1> QED BY <1>2, <1>3, <1>4, <1>5, <1>6, <1>7, <1>8, <1>9, User DEF User

(* What was sure stays sure: the server answers a write of the page.       *)
LEMMA ServeSure ==
  ASSUME TypeOK, Shape, NEW s \in Writers, Serve(s), NEW t \in Trips, Sure(t)
  PROVE  Sure(t)'
<1> USE SendersFact, TypeParts
<1> DEFINE w == request[s].write
<1>0. Types OBVIOUS
<1>1. /\ Live(s) /\ request'[s] # NoRequest
      /\ \A x \in Senders \ {s} : request'[x] = request[x]
      /\ request'[s].write = w
      /\ request[s].status = "sent"
      /\ w # NoWrite
      /\ \/ request'[s].status # "ok" /\ store' = store
         \/ /\ request'[s].status = "ok" /\ ~ Refused(w)
            /\ store' = [store EXCEPT ![w.trip] = w.data]
  BY <1>0, ServeStep DEF Shape
<1>2. UNCHANGED <<list, orphans, pendingDelete>> BY DEF Serve, pageVars
<1>3. \A x \in orphans' : x.trip # t BY <1>2 DEF Sure
<1>4. \A x \in Writers : On(x, t)' <=> On(x, t) BY <1>1 DEF On, Live
<1>5. \A x \in Writers : request'[x] # NoRequest => request'[x].write = request[x].write BY <1>1
<1>6. \A x \in Writers \ {s} : Done(x, t)' <=> Done(x, t) BY <1>1 DEF Done, On, Live
<1>7. ~ Done(s, t) BY <1>1 DEF Done
<1>8. "form" \in Writers /\ "delete" \in Writers BY DEF Writers
<1>9. On("form", t)' /\ request'["form"].write.op = "create" =>
        list[t] = <<>> /\ pendingDelete' # t /\ ~ On("delete", t)'
  BY <1>2, <1>4, <1>5, <1>8 DEF Sure, On, Live
<1>10. CASE request'[s].status # "ok" \/ w.trip # t
  <2>1. ~ Done(s, t)' BY <1>1, <1>10 DEF Done, On
  <2>2. store'[t] = store[t] BY <1>0, <1>1, <1>10 DEF Types, Store
  <2>3. \A x \in Writers : Done(x, t)' <=> Done(x, t) BY <1>6, <1>7, <2>1
  <2>4. Done("form", t) => request'["form"].write = request["form"].write
    BY <1>4, <1>5, <1>8 DEF Done, On, Live
  <2> QED BY <1>2, <1>3, <1>8, <1>9, <2>2, <2>3, <2>4, SureFrame
<1>11. CASE request'[s].status = "ok" /\ w.trip = t
  <2>1. store'[t] = w.data /\ ~ Refused(w) BY <1>0, <1>1, <1>11 DEF Types, Store
  <2>2. Done(s, t)' BY <1>1, <1>11 DEF Done, On, Live
  <2>3. Expected(t)' = Shown(store')[t]
    <3>1. CASE s = "delete"
      <4>1. w.data = NoData BY <1>1, <3>1 DEF Shape
      <4> QED BY <2>1, <2>2, <3>1, <4>1 DEF Expected, Shown
    <3>2. CASE s = "form"
      <4>1. w.op \in {"create", "edit"} /\ w.data \in Data BY <1>1, <3>2 DEF Shape
      <4>2. w.data # NoData BY <4>1, NullAssumption
      <4>3. Shown(store')[t] = <<w.data>> BY <2>1, <4>2 DEF Shown
      <4>4. Expected(t) = Shown(store)[t] BY DEF Sure
      <4>5. ~ Done("delete", t)' /\ Updated(list[t], w) = <<w.data>>
        <5>1. CASE w.op = "create"
          <6>1. On("form", t) BY <1>1, <1>11, <3>2 DEF On
          <6>2. list[t] = <<>> /\ ~ On("delete", t) BY <3>2, <5>1, <6>1 DEF Sure
          <6>3. Updated(list[t], w) = <<w.data>> BY <5>1, <6>2 DEF Updated
          <6> QED BY <1>4, <1>8, <6>2, <6>3 DEF Done
        <5>2. CASE w.op = "edit"
          <6>1. store[t] # NoData BY <1>11, <2>1, <5>2 DEF Refused
          <6>2. Expected(t) = <<store[t]>> BY <4>4, <6>1 DEF Shown
          <6>3. ~ Done("delete", t) BY <6>2 DEF Expected
          <6>4. list[t] = <<store[t]>> BY <1>7, <3>2, <6>2, <6>3 DEF Expected
          <6>5. Updated(list[t], w) = <<w.data>> BY <5>2, <6>4 DEF Updated
          <6> QED BY <1>6, <1>8, <3>2, <6>3, <6>5
        <5> QED BY <4>1, <5>1, <5>2
      <4>6. Expected(t)' = Updated(list[t], w)
        BY <1>1, <1>2, <2>2, <3>2, <4>5 DEF Expected, Updated
      <4> QED BY <4>3, <4>5, <4>6
    <3> QED BY <3>1, <3>2 DEF Writers
  <2> QED BY <1>2, <1>3, <1>9, <2>3 DEF Sure
<1> QED BY <1>1, <1>10, <1>11

(* What was sure stays sure: the environment.                              *)
LEMMA EnvironmentSure ==
  ASSUME TypeOK, Shape, Environment,
         NEW t \in Trips, t \notin unsure', t \notin unsure => Sure(t)
  PROVE  Sure(t)'
<1> USE SendersFact, TypeParts
<1>0. Types OBVIOUS
<1>1. ASSUME NEW s \in Senders, Serve(s) PROVE Sure(t)'
  <2>1. Sure(t) BY <1>1 DEF Serve
  <2>2. CASE s \in Writers BY <1>1, <2>1, <2>2, ServeSure
  <2>3. CASE s \notin Writers
    <3>1. request[s].write = NoWrite BY <1>0, <1>1, <2>3, ServeStep DEF Shape
    <3>2. store' = store /\ \A x \in Writers : request'[x] = request[x]
      BY <1>0, <1>1, <2>3, <3>1, ServeStep
    <3>3. UNCHANGED <<list, orphans, pendingDelete>> BY <1>1 DEF Serve, pageVars
    <3>4. \A x \in orphans' : x.trip # t BY <2>1, <3>3 DEF Sure
    <3> QED BY <2>1, <3>2, <3>3, <3>4, SureStays
  <2> QED BY <2>2, <2>3
<1>2. ASSUME NEW s \in Senders, NEW late \in BOOLEAN, Fail(s, late) PROVE Sure(t)'
  <2>1. Sure(t) BY <1>2 DEF Fail
  <2>2. UNCHANGED <<list, store, pendingDelete>> BY <1>2 DEF Fail, pageVars, serverVars
  <2>3. /\ Live(s) /\ request'[s] # NoRequest
        /\ \A x \in Senders \ {s} : request'[x] = request[x]
        /\ request'[s].write = request[s].write
        /\ request[s].status = "sent" /\ request'[s].status = "failed"
    BY <1>0, <1>2, FailStep
  <2>4. \A x \in orphans' : x.trip # t BY <1>2, <2>1 DEF Fail, Sure
  <2>5. \A x \in Writers : (On(x, t)' <=> On(x, t)) /\ (Done(x, t)' <=> Done(x, t))
    BY <2>3 DEF Done, On, Live
  <2>6. \A x \in Writers : request'[x].write = request[x].write BY <2>3
  <2>7. "form" \in Writers /\ "delete" \in Writers BY DEF Writers
  <2>8. On("form", t)' /\ request'["form"].write.op = "create" =>
          list[t] = <<>> /\ pendingDelete' # t /\ ~ On("delete", t)'
    BY <2>1, <2>2, <2>5, <2>6, <2>7 DEF Sure
  <2> QED BY <2>1, <2>2, <2>4, <2>5, <2>6, <2>7, <2>8, SureFrame
<1>3. ASSUME NEW w \in orphans, Settle(w) PROVE Sure(t)'
  <2>1. Sure(t) BY <1>3 DEF Settle
  <2>2. UNCHANGED <<list, request, pendingDelete>> /\ orphans' \subseteq orphans
    BY <1>3 DEF Settle, pageVars
  <2>3. w.trip # t BY <2>1 DEF Sure
  <2>4. store'[t] = store[t] BY <1>0, <1>3, <2>3 DEF Settle, CarryOut, Types, Store
  <2>5. \A x \in orphans' : x.trip # t BY <2>1, <2>2 DEF Sure
  <2> QED BY <2>1, <2>2, <2>4, <2>5, SureStays
<1>4. ASSUME NEW n \in valid, Expire(n) PROVE Sure(t)'
  <2>1. UNCHANGED <<list, request, pendingDelete, orphans, store>> /\ Sure(t)
    BY <1>4 DEF Expire, pageVars
  <2>2. \A x \in orphans' : x.trip # t BY <2>1 DEF Sure
  <2> QED BY <2>1, <2>2, SureStays
<1> QED BY <1>1, <1>2, <1>3, <1>4, Environment DEF Environment

(* What was sure stays sure, and a load makes sure: the answers.           *)
LEMMA AnswerSure ==
  ASSUME TypeOK, Shape, Read, NEW s \in Senders, AnswerTo(s),
         NEW t \in Trips, t \notin unsure', t \notin unsure => Sure(t)
  PROVE  Sure(t)'
<1> USE SendersFact, TypeParts
<1>0. Types OBVIOUS
<1>1. ASSUME NEW status, Arrives(s, status)
      PROVE  /\ Live(s) /\ request[s].status \in status /\ request'[s] = NoRequest
             /\ \A x \in Senders \ {s} : request'[x] = request[x]
             /\ UNCHANGED <<pendingDelete, orphans, store>>
  BY <1>0, <1>1, ArriveStep
<1>2. "form" \in Writers /\ "delete" \in Writers BY DEF Writers
<1>3. ASSUME NEW status, Arrives(s, status), list' = list, Sure(t), ~ Done(s, t) \/ s \notin Writers
      PROVE  Sure(t)'
  <2>1. ~ Done(s, t)' /\ ~ On(s, t)' BY <1>1, <1>3 DEF Done, On, Live
  <2>2. \A x \in Writers \ {s} : (On(x, t)' <=> On(x, t)) /\ (Done(x, t)' <=> Done(x, t))
    BY <1>1, <1>3 DEF Done, On, Live
  <2>3. \A x \in Writers : Done(x, t)' <=> Done(x, t) BY <1>3, <2>1, <2>2
  <2>4. \A x \in Writers : Done(x, t) => request'[x].write = request[x].write
    BY <1>1, <1>3 DEF Done
  <2>5. On("form", t)' /\ request'["form"].write.op = "create" =>
          list[t] = <<>> /\ pendingDelete' # t /\ ~ On("delete", t)'
    BY <1>1, <1>2, <1>3, <2>1, <2>2 DEF Sure
  <2>6. (\A x \in orphans' : x.trip # t) /\ store'[t] = store[t] BY <1>1, <1>3 DEF Sure
  <2> QED BY <1>2, <1>3, <2>3, <2>4, <2>5, <2>6, SureFrame
<1>4. CASE Denied(s) BY <1>4 DEF Denied, ClearPage
<1>5. CASE Failed(s)
  <2>1. Arrives(s, {"failed"}) /\ list' = list /\ Sure(t) BY <1>5 DEF Failed
  <2>2. ~ Done(s, t) BY <1>1, <2>1 DEF Done
  <2> QED BY <1>3, <2>1, <2>2
<1>6. CASE s \in AirportLoads /\ AirportsArrive(s) BY <1>3, <1>6 DEF AirportsArrive
<1>11. CASE s \in AirportLoads /\ DrawMap(s)
  <2>1. /\ UNCHANGED <<list, store, orphans, pendingDelete>> /\ Sure(t)
        /\ \A x \in Senders \ {s} : request'[x] = request[x]
    BY <1>0, <1>11, DrawStep
  <2>2. \A x \in Writers : request'[x] = request[x]
    BY <1>11, <2>1 DEF AirportLoads, Writers
  <2>3. \A x \in orphans' : x.trip # t BY <2>1 DEF Sure
  <2> QED BY <2>1, <2>2, <2>3, SureStays
<1>12. CASE s \in AirportLoads /\ MapDrawn(s) BY <1>3, <1>12 DEF MapDrawn
<1>7. CASE s = "report" /\ ReportArrives
  <2>1. s \notin Writers BY <1>7 DEF Writers
  <2> QED BY <1>3, <1>7, <2>1 DEF ReportArrives
<1>8. CASE s \in TripLoads /\ TripsArrive(s)
  <2>1. Arrives(s, {"ok"}) BY <1>8 DEF TripsArrive
  <2>2. CASE token = 0 BY <1>3, <1>8, <2>1, <2>2 DEF TripsArrive
  <2>3. CASE token # 0
    <3>1. list' = Shown(request[s].seen) /\ t \notin dirty[s] BY <1>8, <2>3 DEF TripsArrive
    <3>2. Live(s) /\ request[s].status = "ok" BY <1>1, <2>1
    <3>3. Touched \subseteq dirty[s] /\ request[s].seen[t] = store[t]
      BY <1>8, <3>1, <3>2 DEF Read
    <3>4. /\ \A x \in orphans' : x.trip # t
          /\ \A x \in Writers : ~ On(x, t)' /\ ~ Done(x, t)'
          /\ store' = store
      <4>1. \A x \in Writers : request'[x] = request[x] BY <1>1, <1>8, <2>1
      <4>2. t \notin Touched BY <3>1, <3>3
      <4>3. \A x \in Writers : ~ On(x, t) BY <4>2, TouchedParts DEF On
      <4>4. \A x \in Writers : ~ On(x, t)' /\ ~ Done(x, t)'
        BY <4>1, <4>3 DEF On, Done, Live
      <4>5. \A x \in orphans' : x.trip # t BY <1>1, <2>1, <4>2, TouchedParts
      <4> QED BY <1>1, <2>1, <4>4, <4>5
    <3>5. list'[t] = Shown(store)[t] BY <3>1, <3>3 DEF Shown
    <3>6. Expected(t)' = list'[t] BY <1>2, <3>4 DEF Expected
    <3>7. Shown(store')[t] = Shown(store)[t] BY <3>4
    <3> QED BY <1>2, <3>4, <3>5, <3>6, <3>7 DEF Sure
  <2> QED BY <2>2, <2>3
<1>9. CASE s = "form" /\ Saved
  <2> DEFINE w == request["form"].write
  <2>1. Arrives("form", {"ok"}) /\ Sure(t) BY <1>9 DEF Saved
  <2>2. list' = [list EXCEPT ![w.trip] = Updated(@, w)] BY <1>9 DEF Saved
  <2>3. /\ Live("form") /\ request["form"].status = "ok" /\ request'["form"] = NoRequest
        /\ request'["delete"] = request["delete"]
        /\ UNCHANGED <<pendingDelete, orphans, store>>
    BY <1>1, <1>9, <2>1
  <2>4. ~ On("form", t)' /\ ~ Done("form", t)' BY <2>3 DEF Done, On, Live
  <2>5. Done("delete", t)' <=> Done("delete", t) BY <2>3 DEF Done, On, Live
  <2>6. Done("form", t) <=> w.trip = t BY <2>3 DEF Done, On
  <2>7. list'[t] = IF Done("form", t) THEN Updated(list[t], w) ELSE list[t]
    BY <1>0, <2>2, <2>6 DEF Types
  <2>8. Expected(t)' = Expected(t)
    <3>1. Expected(t)' = IF Done("delete", t) THEN <<>> ELSE list'[t] BY <2>4, <2>5 DEF Expected
    <3> QED BY <2>7, <3>1 DEF Expected
  <2>9. Shown(store')[t] = Shown(store)[t] BY <2>3
  <2>10. \A x \in orphans' : x.trip # t BY <2>1, <2>3 DEF Sure
  <2> QED BY <2>1, <2>4, <2>8, <2>9, <2>10 DEF Sure
<1>10. CASE s = "delete" /\ Deleted
  <2> DEFINE u == request["delete"].write.trip
  <2>1. /\ Arrives("delete", {"ok"})
        /\ list' = [list EXCEPT ![pendingDelete] = <<>>]
        /\ unsure' = IF pendingDelete = u THEN unsure ELSE unsure \cup {u, pendingDelete}
    BY <1>10 DEF Deleted
  <2>2. Sure(t) BY <2>1
  <2>3. /\ Live("delete") /\ request["delete"].status = "ok" /\ request'["delete"] = NoRequest
        /\ request'["form"] = request["form"]
        /\ UNCHANGED <<pendingDelete, orphans, store>>
    BY <1>1, <1>10, <2>1
  <2>4. CASE t # u
    <3>1. list'[t] = list[t] /\ ~ Done("delete", t)
      BY <1>0, <2>1, <2>4 DEF Types, Done, On
    <3>2. ~ Done("delete", t)' /\ ~ On("delete", t)' BY <2>3 DEF Done, On, Live
    <3>3. (On("form", t)' <=> On("form", t)) /\ (Done("form", t)' <=> Done("form", t))
      BY <2>3 DEF Done, On, Live
    <3>4. On("form", t)' /\ request'["form"].write.op = "create" =>
            list[t] = <<>> /\ pendingDelete' # t /\ ~ On("delete", t)'
      BY <2>2, <2>3, <3>2, <3>3 DEF Sure
    <3>5. (\A x \in orphans' : x.trip # t) /\ store'[t] = store[t] BY <2>2, <2>3 DEF Sure
    <3> QED BY <2>2, <2>3, <3>1, <3>2, <3>3, <3>4, <3>5, SureFrame
  <2>5. CASE t = u
    <3>1. pendingDelete = t BY <2>1, <2>5
    <3>2. list'[t] = <<>> BY <1>0, <2>1, <3>1 DEF Types
    <3>3. On("delete", t) /\ Done("delete", t) BY <2>3, <2>5 DEF Done, On
    <3>4. Shown(store)[t] = <<>> BY <2>2, <3>3 DEF Sure, Expected
    <3>5. ~ (On("form", t) /\ request["form"].write.op = "create") BY <2>2, <3>3 DEF Sure
    <3>6. On("form", t)' <=> On("form", t) BY <2>3 DEF On, Live
    <3>7. ~ (On("form", t)' /\ request'["form"].write.op = "create") BY <2>3, <3>5, <3>6
    <3>8. ~ Done("delete", t)' BY <2>3 DEF Done, On, Live
    <3>9. Expected(t)' = <<>>
      <4>1. CASE Done("form", t)'
        <5>1. request'["form"].write.op # "create" BY <3>7, <4>1 DEF Done
        <5>2. Expected(t)' = [i \in DOMAIN list'[t] |-> request'["form"].write.data]
          BY <3>8, <4>1, <5>1 DEF Expected, Updated
        <5> QED BY <3>2, <5>2
      <4>2. CASE ~ Done("form", t)' BY <3>2, <3>8, <4>2 DEF Expected
      <4> QED BY <4>1, <4>2
    <3>10. Shown(store')[t] = Shown(store)[t] BY <2>3
    <3>11. \A x \in orphans' : x.trip # t BY <2>2, <2>3 DEF Sure
    <3> QED BY <3>4, <3>7, <3>9, <3>10, <3>11 DEF Sure
  <2> QED BY <2>4, <2>5
<1> QED BY <1>4, <1>5, <1>6, <1>7, <1>8, <1>9, <1>10, <1>11, <1>12, AnswerTo(s) DEF AnswerTo

-----------------------------------------------------------------------------
(* Inv is inductive.                                                       *)
LEMMA InvInit == Init => Inv
<1> SUFFICES ASSUME Init PROVE Inv OBVIOUS
<1>1. \A s \in Senders : request[s] = NoRequest BY DEF Init
<1>2. Touched = {} BY <1>1, SendersFact DEF Init, Touched
<1>3. \A t \in Trips : list[t] = <<>> BY DEF Init, NoTrips
<1>4. Known BY <1>1, <1>2, <1>3, SendersFact DEF Init, Known, Live
<1>5. Read BY <1>1, SendersFact DEF Read, Live
<1> QED BY <1>4, <1>5, InitTypes DEF Init, Inv

(* Inv is kept by every step.                                              *)
LEMMA InvStep == Inv /\ [Next]_vars => Inv'
<1> SUFFICES ASSUME Inv, [Next]_vars PROVE Inv' OBVIOUS
<1>0. TypeOK /\ Shape /\ Known /\ Read BY DEF Inv
<1>1. TypeOK' /\ Shape' BY <1>0, TypeStep
<1>2. CASE Next
  <2>1. Known' /\ Read' BY <1>0, <1>2, KnownStep
  <2>2. ASSUME NEW t \in Trips, t \notin unsure' PROVE Sure(t)'
    <3>1. t \notin unsure => Sure(t) BY DEF Inv
    <3> QED BY <1>0, <1>2, <2>2, <3>1, UserSure, EnvironmentSure, AnswerSure DEF Next
  <2> QED BY <1>1, <2>1, <2>2 DEF Inv
<1>3. CASE UNCHANGED vars
  <2>1. UNCHANGED <<list, store, used, request, orphans, pendingDelete, editing, dirty, unsure>>
    BY <1>3 DEF vars, pageVars, serverVars
  <2>2. Touched' = Touched BY <2>1 DEF Touched
  <2>3. Known' /\ Read' BY <1>0, <2>1, <2>2 DEF Known, Read, Live
  <2>4. \A t \in Trips : Sure(t)' <=> Sure(t)
    BY <2>1 DEF Sure, On, Done, Live, Expected, Updated, Shown
  <2> QED BY <1>1, <2>1, <2>3, <2>4 DEF Inv
<1> QED BY <1>2, <1>3

(* Every reachable page has the shape TypeOK states: no value is lost or   *)
(* mixed up, nothing is open or loaded without a session, and a button is  *)
(* disabled exactly while its request is under way (busy(), app.js:52).    *)
THEOREM TypeCorrect == SafeSpec => []TypeOK
<1>1. SafeSpec => [](TypeOK /\ Shape) BY InitTypes, TypeStep, PTL DEF SafeSpec
<1> QED BY <1>1, PTL

(* The token goes only by a click on logout or by the 401 of a request     *)
(* whose session has expired, and takes the list, the dialog and the       *)
(* airports with it (logout(), app.js:68, and api(), app.js:41).           *)
THEOREM SessionEnds == SafeSpec => SessionEndsForAReason
<1>1. SafeSpec => [](TypeOK /\ Shape) BY InitTypes, TypeStep, PTL DEF SafeSpec
<1>2. ASSUME TypeOK, Shape, [Next]_vars, token # 0, token' = 0
      PROVE  EndsForAReason
  <2>0. Types BY <1>2, TypeParts
  <2>1. Next BY <1>2 DEF vars
  <2>2. CASE User
    <3>1. ~ Login BY <1>2, <2>0, BoundsAssumption DEF Login, Types
    <3>2. CASE ClickLogout BY <3>2 DEF ClickLogout, ClearPage, EndsForAReason
    <3>3. ~ CloseDialog /\ ~ ConfirmDelete /\ ~ ReloadPage
      BY <1>2 DEF CloseDialog, ConfirmDelete, ReloadPage
    <3>4. \A b : ~ ClickRead(b) BY <1>2 DEF ClickRead
    <3>5. \A t : ~ OpenForm(t) /\ ~ AskDelete(t) BY <1>2 DEF OpenForm, AskDelete
    <3>6. \A t, d : ~ Submit(t, d) BY <1>2 DEF Submit
    <3> QED BY <2>2, <3>1, <3>2, <3>3, <3>4, <3>5, <3>6 DEF User
  <2>3. ~ Environment
    <3>1. \A s : ~ Serve(s) BY <1>2 DEF Serve
    <3>2. \A s, late : ~ Fail(s, late) BY <1>2 DEF Fail
    <3>3. \A w : ~ Settle(w) /\ ~ Expire(w) BY <1>2 DEF Settle, Expire
    <3> QED BY <3>1, <3>2, <3>3 DEF Environment
  <2>4. ASSUME NEW s \in Senders, AnswerTo(s) PROVE EndsForAReason
    <3>1. CASE Denied(s)
      <4>1. Arrives(s, {"denied"}) BY <3>1 DEF Denied
      <4>2. Live(s) /\ request[s].status = "denied" /\ request'[s] = NoRequest
        BY <2>0, <4>1, ArriveStep
      <4>3. request[s].session \notin valid BY <1>2, <4>2 DEF Shape
      <4>4. list' = NoTrips /\ dialog' = "none" /\ ~ airports' BY <3>1 DEF Denied, ClearPage
      <4> QED BY <4>2, <4>3, <4>4 DEF Live, EndsForAReason
    <3>2. \A x : ~ Failed(x) /\ ~ AirportsArrive(x) /\ ~ TripsArrive(x)
      BY <1>2 DEF Failed, AirportsArrive, TripsArrive
    <3>3. \A x : ~ DrawMap(x) /\ ~ MapDrawn(x) BY <1>2 DEF DrawMap, MapDrawn
    <3>4. ~ Saved /\ ~ Deleted /\ ~ ReportArrives BY <1>2 DEF Saved, Deleted, ReportArrives
    <3> QED BY <2>4, <3>1, <3>2, <3>3, <3>4 DEF AnswerTo
  <2> QED BY <2>1, <2>2, <2>3, <2>4 DEF Next
<1>3. TypeOK /\ Shape /\ [Next]_vars => [token # 0 /\ token' = 0 => EndsForAReason]_vars BY <1>2
<1> QED BY <1>1, <1>3, PTL DEF SafeSpec, SessionEndsForAReason

(* The list agrees with the server about every trip that is neither being  *)
(* written nor rightly outdated: loads and the answers to writes, however  *)
(* they are ordered, never leave it wrong otherwise (loadTrips(),          *)
(* app.js:193, and the answers at app.js:236 and 251).                     *)
THEOREM ListTrue == SafeSpec => []ListIsTrue
<1>1. SafeSpec => []Inv BY InvInit, InvStep, PTL DEF SafeSpec
<1>2. Inv => ListIsTrue
  <2> SUFFICES ASSUME Inv, NEW t \in Trips, t \notin unsure \cup Touched
               PROVE  list[t] = Shown(store)[t]
    BY DEF ListIsTrue
  <2>1. Sure(t) BY DEF Inv
  <2>2. \A s \in Writers : ~ On(s, t) BY TouchedParts DEF On
  <2>3. Expected(t) = list[t] BY <2>2 DEF Expected, Done, Writers
  <2> QED BY <2>1, <2>3 DEF Sure
<1> QED BY <1>1, <1>2, PTL

-----------------------------------------------------------------------------
(* A request that a sender awaits is awaited to its end, unless the page   *)
(* is reloaded; once the server has answered it, the answer is left as it  *)
(* is, but that a map is drawn from it.                                    *)
StaysAsked(s) ==
  \/ request'[s] = NoRequest
  \/ /\ request'[s].session = request[s].session
     /\ request'[s].write = request[s].write
     /\ request[s].status # "sent" =>
          /\ request'[s].seen = request[s].seen
          /\ \/ request'[s].status = request[s].status
             \/ request[s].status = "ok" /\ request'[s].status = "drawing"
  \/ ReloadPage
AllStayAsked == \A s \in Senders : Live(s) => StaysAsked(s)
NoRequestIsReplaced == [][AllStayAsked]_vars

(* No click, login or logout sends a second request in the place of one    *)
(* under way: busy() disables the button until its own request has settled *)
(* (app.js:52), so a write is not sent twice by impatient clicks and no    *)
(* answer is taken for that of another request.                            *)
THEOREM RequestsAreNotReplaced == SafeSpec => NoRequestIsReplaced
<1>1. SafeSpec => [](TypeOK /\ Shape) BY InitTypes, TypeStep, PTL DEF SafeSpec
<1>2. TypeOK /\ Shape /\ [Next]_vars => [AllStayAsked]_vars
  <2> SUFFICES ASSUME TypeOK, Shape, Next, NEW s \in Senders, Live(s)
               PROVE  StaysAsked(s)
    BY DEF AllStayAsked
  <2>0. Types /\ Page BY TypeParts
  <2>1. ASSUME request'[s] = request[s] PROVE StaysAsked(s) BY <2>1 DEF StaysAsked
  (* What the user can click sends nothing for a sender that waits.        *)
  <2>2. CASE User
    <3>1. CASE Login
      <4>1. s \notin LoginLoads BY <2>0, <3>1 DEF Login, Page, Live
      <4>2. request'[s] = request[s] BY <3>1, <4>1 DEF Login
      <4> QED BY <4>2, <2>1
    <3>2. CASE ClickLogout \/ CloseDialog
      BY <3>2, <2>1 DEF ClickLogout, CloseDialog
    <3>3. ASSUME NEW b \in Senders, b \in Buttons \ {"login"}, b \notin disabled,
                 NEW w, Send(b, w)
          PROVE  StaysAsked(s)
      <4>1. s # b BY <2>0, <3>3 DEF Page, Live
      <4>2. request'[s] = request[s] BY <2>0, <3>3, <4>1 DEF Send, Types
      <4> QED BY <4>2, <2>1
    <3>4. CASE ConfirmDelete
      BY <3>3, <3>4, SendersFact DEF ConfirmDelete, Buttons, Writers
    <3>5. CASE ReloadPage BY <3>5 DEF StaysAsked
    <3>6. ASSUME NEW b \in {"reload", "report"}, ClickRead(b) PROVE StaysAsked(s)
      <4>1. b \in Senders /\ b \in Buttons \ {"login"} BY SendersFact DEF Buttons
      <4> QED BY <3>3, <3>6, <4>1 DEF ClickRead
    <3>7. ASSUME NEW t \in Trips \cup {NoTrip}, OpenForm(t) PROVE StaysAsked(s)
      BY <3>7, <2>1 DEF OpenForm
    <3>8. ASSUME NEW t \in Trips, AskDelete(t) PROVE StaysAsked(s)
      BY <3>8, <2>1 DEF AskDelete
    <3>9. ASSUME NEW t \in Trips, NEW d \in Data, Submit(t, d) PROVE StaysAsked(s)
      BY <3>3, <3>9, SendersFact DEF Submit, Buttons, Writers
    <3> QED BY <2>2, <3>1, <3>2, <3>4, <3>5, <3>6, <3>7, <3>8, <3>9 DEF User
  <2>3. CASE Environment
    <3>1. ASSUME NEW x \in Senders, Serve(x) PROVE StaysAsked(s)
      <4>1. CASE x = s
        <5>1. /\ request'[s].session = request[s].session
              /\ request'[s].write = request[s].write
          BY <2>0, <3>1, <4>1, ServeStep
        <5>2. request[s].status = "sent" BY <3>1, <4>1 DEF Serve
        <5> QED BY <5>1, <5>2 DEF StaysAsked
      <4>2. CASE x # s
        <5>1. request'[s] = request[s] BY <2>0, <3>1, <4>2, ServeStep
        <5> QED BY <5>1, <2>1
      <4> QED BY <4>1, <4>2
    <3>2. ASSUME NEW x \in Senders, NEW late \in BOOLEAN, Fail(x, late) PROVE StaysAsked(s)
      <4>1. CASE x = s
        <5>1. /\ request'[s].session = request[s].session
              /\ request'[s].write = request[s].write
              /\ request[s].status = "sent"
          BY <2>0, <3>2, <4>1, FailStep
        <5> QED BY <5>1 DEF StaysAsked
      <4>2. CASE x # s
        <5>1. request'[s] = request[s] BY <2>0, <3>2, <4>2, FailStep
        <5> QED BY <5>1, <2>1
      <4> QED BY <4>1, <4>2
    <3>3. ASSUME NEW w, Settle(w) \/ Expire(w) PROVE StaysAsked(s)
      BY <3>3, <2>1 DEF Settle, Expire
    <3> QED BY <2>3, <3>1, <3>2, <3>3 DEF Environment
  <2>4. ASSUME NEW x \in Senders, AnswerTo(x) PROVE StaysAsked(s)
    <3>1. CASE DrawMap(x)
      <4>1. CASE x = s BY <2>0, <3>1, <4>1, DrawStep DEF StaysAsked
      <4>2. CASE x # s
        <5>1. request'[s] = request[s] BY <2>0, <3>1, <4>2, DrawStep
        <5> QED BY <5>1, <2>1
      <4> QED BY <4>1, <4>2
    <3>2. CASE \E status : Arrives(x, status)
      <4>1. PICK status : Arrives(x, status) BY <3>2
      <4>2. request'[s] = IF x = s THEN NoRequest ELSE request[s]
        BY <2>0, <4>1, ArriveStep
      <4> QED BY <4>2, <2>1 DEF StaysAsked
    <3>3. DrawMap(x) \/ \E status : Arrives(x, status)
      BY <2>4 DEF AnswerTo, Denied, Failed, AirportsArrive, MapDrawn, TripsArrive, Saved,
         Deleted, ReportArrives
    <3> QED BY <3>1, <3>2, <3>3
  <2> QED BY <2>2, <2>3, <2>4 DEF Next
<1> QED BY <1>1, <1>2, PTL DEF SafeSpec, NoRequestIsReplaced
=============================================================================
