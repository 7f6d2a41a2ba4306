------------------------------ MODULE Frontend ------------------------------
(***************************************************************************)
(* The browser page (frontend/app.js): one state object shared by handlers *)
(* that await the API, so that answers meet a page that has moved on: the  *)
(* user has logged out or in again, reloaded the page, closed a dialog or  *)
(* opened another one.                                                     *)
(*                                                                         *)
(* A handler runs without interruption up to its await; the answer runs    *)
(* the rest.  The page is the only client of its user, and the itineraries *)
(* fit on one page of the listing (ReportPaging is about several).         *)
(***************************************************************************)
EXTENDS Naturals, Sequences

CONSTANTS
  Trips,        \* itinerary ids
  Data,         \* what an itinerary says
  MaxSessions,  \* bound on the logins of a behaviour
  MaxCalls,     \* bound on the clicks and page loads that call the API
  NoTrip, NoData, NoWrite, NoRequest

TripLoads    == {"startTrips", "loginTrips"}
AirportLoads == {"startAirports", "loginAirports", "reload"}
StartLoads   == {"startTrips", "startAirports"}
LoginLoads   == {"loginTrips", "loginAirports"}
Writers      == {"form", "delete"}
Senders      == TripLoads \cup AirportLoads \cup Writers \cup {"report"}
Buttons      == {"login", "reload", "report"} \cup Writers

Sessions == 1..MaxSessions
Store    == [Trips -> Data \cup {NoData}]
Write    == [op : {"create", "edit", "delete"}, trip : Trips, data : Data \cup {NoData}]
Request  == [session : Sessions, status : {"sent", "ok", "denied", "failed", "drawing"},
             write : Write \cup {NoWrite}, seen : Store]

ASSUME BoundsAssumption == MaxSessions \in Nat /\ MaxCalls \in Nat
ASSUME NullAssumption == /\ NoTrip \notin Trips
                         /\ NoData \notin Data
                         /\ NoWrite \notin Write
                         /\ NoRequest \notin Request

VARIABLES
  token,          \* state.token and sessionStorage: the session, 0 for none
  airports,       \* state.airports is loaded
  list,           \* state.trips: the copies it holds of each trip
  dialog,         \* the modal dialog that is open
  editing,        \* the field itinerary-id of the open form, NoTrip if empty
  pendingDelete,  \* the variable of that name
  disabled,       \* buttons that are disabled
  request,        \* the request each sender awaits
  orphans,        \* writes under way that nobody awaits any more
  store, used,    \* the server's itineraries, and every id it has drawn
  issued, valid,  \* sessions opened so far, and those not yet expired
  calls,          \* clicks and page loads that called the API so far
  dirty,          \* history: trips with a write under way during a load
  unsure          \* history: trips whose entry may rightly be outdated

pageVars   == <<airports, list, dialog, editing, pendingDelete>>
serverVars == <<store, used, issued, valid>>
vars == <<token, pageVars, disabled, request, orphans, serverVars, calls, dirty, unsure>>

NoTrips == [t \in Trips |-> <<>>]

(* The list that shows the itineraries s.                                  *)
Shown(s) == [t \in Trips |-> IF s[t] = NoData THEN <<>> ELSE <<s[t]>>]

(* The page's writes the server has not carried out yet, and the trips of  *)
(* all writes under way: not carried out, or not known to the page.        *)
Unserved == {request[s].write : s \in {x \in Writers : request[x] # NoRequest
                                                      /\ request[x].status = "sent"}}
Touched == {w.trip : w \in orphans}
           \cup {request[s].write.trip : s \in {x \in Writers : request[x] # NoRequest}}

(* A fresh tab; the user may have itineraries from earlier.                *)
Init ==
  /\ token = 0
  /\ airports = FALSE
  /\ list = NoTrips
  /\ dialog = "none"
  /\ editing = NoTrip
  /\ pendingDelete = NoTrip
  /\ disabled = {}
  /\ request = [s \in Senders |-> NoRequest]
  /\ orphans = {}
  /\ store \in Store
  /\ used = {t \in Trips : store[t] # NoData}
  /\ issued = 0
  /\ valid = {}
  /\ calls = 0
  /\ dirty = [s \in TripLoads |-> {}]
  /\ unsure = Trips

-----------------------------------------------------------------------------
(* What the user does.                                                     *)

Calling == calls < MaxCalls /\ calls' = calls + 1

(* api(): the request carries the token the page has now.                  *)
Asked(session, write) == [session |-> session, status |-> "sent", write |-> write,
                          seen |-> [t \in Trips |-> NoData]]

Send(s, write) == Calling /\ request' = [request EXCEPT ![s] = Asked(token, write)]

(* The login succeeds and enter() starts both loads.  The login button is  *)
(* enabled again when both have settled.                                   *)
Login ==
  /\ token = 0
  /\ "login" \notin disabled
  /\ issued < MaxSessions
  /\ Calling
  /\ issued' = issued + 1
  /\ token' = issued + 1
  /\ valid' = valid \cup {issued + 1}
  /\ disabled' = disabled \cup {"login"}
  /\ request' = [s \in Senders |-> IF s \in LoginLoads THEN Asked(issued + 1, NoWrite)
                                                      ELSE request[s]]
  /\ UNCHANGED <<pageVars, orphans, store, used, unsure>>

(* logout(): the state is cleared and both dialogs are closed; requests    *)
(* under way are not aborted.                                              *)
ClearPage ==
  /\ airports' = FALSE
  /\ list' = NoTrips
  /\ dialog' = "none"
  /\ editing' = NoTrip
  /\ unsure' = Trips

(* The workspace is visible, and no modal dialog makes it inert.           *)
Clickable == token # 0 /\ dialog = "none"

ClickLogout ==
  /\ Clickable
  /\ token' = 0
  /\ ClearPage
  /\ UNCHANGED <<calls, pendingDelete, disabled, request, orphans, serverVars>>

(* busy(button, action) for the buttons that only read.                    *)
ClickRead(b) ==
  /\ Clickable
  /\ b \notin disabled
  /\ Send(b, NoWrite)
  /\ disabled' = disabled \cup {b}
  /\ UNCHANGED <<token, pageVars, orphans, serverVars, unsure>>

(* openForm(trip), or openForm() for a new itinerary (NoTrip).             *)
OpenForm(t) ==
  /\ Clickable
  /\ airports
  /\ t # NoTrip => list[t] # <<>>
  /\ editing' = t
  /\ dialog' = "form"
  /\ UNCHANGED <<calls, token, airports, list, pendingDelete, disabled, request, orphans,
                 serverVars, unsure>>

(* "Eliminar" on a card.                                                   *)
AskDelete(t) ==
  /\ Clickable
  /\ list[t] # <<>>
  /\ pendingDelete' = t
  /\ dialog' = "delete"
  /\ UNCHANGED <<calls, token, airports, list, editing, disabled, request, orphans,
                 serverVars, unsure>>

(* The form is closed, or the trip is to be kept ("Conservar").            *)
CloseDialog ==
  /\ dialog # "none"
  /\ dialog' = "none"
  /\ editing' = NoTrip
  /\ UNCHANGED <<calls, token, airports, list, pendingDelete, disabled, request,
                 orphans, serverVars, unsure>>

(* The form is submitted: a POST, for which the service will draw a fresh  *)
(* id, or a PUT of the itinerary in the hidden field.                      *)
Submit(t, d) ==
  /\ dialog = "form"
  /\ "form" \notin disabled
  /\ IF editing = NoTrip THEN t \notin used ELSE t = editing
  /\ Send("form", [op |-> IF editing = NoTrip THEN "create" ELSE "edit",
                   trip |-> t, data |-> d])
  /\ used' = used \cup {t}
  /\ disabled' = disabled \cup {"form"}
  /\ UNCHANGED <<token, pageVars, orphans, store, issued, valid, unsure>>

(* "Eliminar" in the dialog.                                               *)
ConfirmDelete ==
  /\ dialog = "delete"
  /\ "delete" \notin disabled
  /\ Send("delete", [op |-> "delete", trip |-> pendingDelete, data |-> NoData])
  /\ disabled' = disabled \cup {"delete"}
  /\ UNCHANGED <<token, pageVars, orphans, serverVars, unsure>>

(* The page is reloaded: only sessionStorage survives, writes under way go *)
(* on without it, and enter() is started if there is a token.              *)
ReloadPage ==
  /\ IF token # 0 THEN Calling ELSE UNCHANGED calls
  /\ ClearPage
  /\ pendingDelete' = NoTrip
  /\ disabled' = {}
  /\ request' = [s \in Senders |-> IF s \in StartLoads /\ token # 0
                                   THEN Asked(token, NoWrite) ELSE NoRequest]
  /\ orphans' = orphans \cup Unserved
  /\ UNCHANGED <<token, serverVars>>

-----------------------------------------------------------------------------
(* The network and the server.                                             *)

(* A PUT or DELETE of an itinerary that is gone is a 404.                  *)
Refused(w) == w.op # "create" /\ store[w.trip] = NoData

CarryOut(w) == store' = IF Refused(w) THEN store
                        ELSE [store EXCEPT ![w.trip] = w.data]

(* The server answers: 401 for an expired session, else the reads return   *)
(* what is stored and the writes take effect.                              *)
Serve(s) ==
  LET r == request[s]
      Reply(status, seen) == request' = [request EXCEPT ![s].status = status, ![s].seen = seen]
  IN
  /\ r # NoRequest /\ r.status = "sent"
  /\ \/ /\ r.session \notin valid
        /\ Reply("denied", r.seen)
        /\ UNCHANGED store
     \/ /\ r.session \in valid
        /\ r.write = NoWrite
        /\ Reply("ok", IF s \in TripLoads THEN store ELSE r.seen)
        /\ UNCHANGED store
     \/ /\ r.session \in valid
        /\ r.write # NoWrite
        /\ Reply(IF Refused(r.write) THEN "failed" ELSE "ok", r.seen)
        /\ CarryOut(r.write)
  /\ UNCHANGED <<calls, token, pageVars, disabled, orphans, used, issued, valid, unsure>>

(* The request fails: the network is down, 429, 5xx.  A write may have     *)
(* been done, or be done later, all the same.                              *)
Fail(s, late) ==
  LET r == request[s] IN
  /\ r # NoRequest /\ r.status = "sent"
  /\ late => r.write # NoWrite
  /\ request' = [request EXCEPT ![s].status = "failed"]
  /\ orphans' = IF late THEN orphans \cup {r.write} ELSE orphans
  /\ unsure' = IF late THEN unsure \cup {r.write.trip} ELSE unsure
  /\ UNCHANGED <<calls, token, pageVars, disabled, serverVars>>

(* A write nobody awaits takes effect, or does not.                        *)
Settle(w) ==
  /\ orphans' = orphans \ {w}
  /\ CarryOut(w) \/ UNCHANGED store
  /\ UNCHANGED <<calls, token, pageVars, disabled, request, used, issued, valid, unsure>>

Expire(s) ==
  /\ valid' = valid \ {s}
  /\ UNCHANGED <<calls, token, pageVars, disabled, request, orphans, store, used, issued, unsure>>

-----------------------------------------------------------------------------
(* The page, when an answer arrives.                                       *)

(* Mutant: busy() re-enables the button only when all went well.           *)
EnabledOnSuccess(s) ==
  disabled \ (IF request[s].status # "ok" THEN {}
              ELSE IF s \in LoginLoads
                   THEN (IF \A x \in LoginLoads \ {s} : request[x] = NoRequest
                         THEN {"login"} ELSE {})
                   ELSE {s})

(* finally: the sender's button is enabled again.                          *)
Enabled(s) ==
  disabled \ (IF s \in LoginLoads
              THEN (IF \A x \in LoginLoads \ {s} : request[x] = NoRequest
                    THEN {"login"} ELSE {})
              ELSE {s})

Arrives(s, status) ==
  /\ request[s] # NoRequest
  /\ request[s].status \in status
  /\ request' = [request EXCEPT ![s] = NoRequest]
  /\ disabled' = Enabled(s)
  /\ UNCHANGED <<calls, pendingDelete, orphans, serverVars>>

(* Mutant: every error ends the session.                                   *)
LogoutOnError(s) ==
  /\ Arrives(s, {"denied", "failed"})
  /\ token' = 0
  /\ ClearPage

(* 401: logout(), whatever session the request was sent with.              *)
Denied(s) ==
  /\ Arrives(s, {"denied"})
  /\ token' = 0
  /\ ClearPage

(* Any other error is shown.                                               *)
Failed(s) ==
  /\ Arrives(s, {"failed"})
  /\ UNCHANGED <<token, airports, list, dialog, editing, unsure>>

(* loadAirports returns if somebody has logged out, and raises if there is *)
(* no Plotly to draw the map with; the airports are loaded all the same.   *)
AirportsArrive(s) ==
  /\ Arrives(s, {"ok"})
  /\ airports' = (airports \/ token # 0)
  /\ UNCHANGED <<token, list, dialog, editing, unsure>>

(* The airports are loaded and the map is drawn, which loadAirports awaits *)
(* too.                                                                    *)
DrawMap(s) ==
  /\ request[s] # NoRequest
  /\ request[s].status = "ok"
  /\ token # 0
  /\ airports' = TRUE
  /\ request' = [request EXCEPT ![s].status = "drawing"]
  /\ UNCHANGED <<calls, token, list, dialog, editing, pendingDelete, disabled, orphans,
                 serverVars, unsure>>

(* The map is drawn, or cannot be: only now the button is enabled again.   *)
MapDrawn(s) ==
  /\ Arrives(s, {"drawing"})
  /\ UNCHANGED <<token, airports, list, dialog, editing, unsure>>

(* loadTrips: the list is replaced, unless somebody has logged out.        *)
TripsArrive(s) ==
  /\ Arrives(s, {"ok"})
  /\ IF token = 0 THEN UNCHANGED <<list, unsure>>
     ELSE list' = Shown(request[s].seen) /\ unsure' = dirty[s]
  /\ UNCHANGED <<token, airports, dialog, editing>>

(* Mutant: a saved itinerary is appended, edited or not.                   *)
AlwaysAppended(copies, w) == Append(copies, w.data)

(* The copies of a trip after w: a created itinerary is appended, an       *)
(* edited one replaced.                                                    *)
Updated(copies, w) == IF w.op = "create" THEN Append(copies, w.data)
                      ELSE [i \in DOMAIN copies |-> w.data]

(* The form's request succeeds; the form is closed, whatever it is used    *)
(* for by now.                                                             *)
Saved ==
  LET w == request["form"].write IN
  /\ Arrives("form", {"ok"})
  /\ list' = [list EXCEPT ![w.trip] = Updated(@, w)]
  /\ dialog' = IF dialog = "form" THEN "none" ELSE dialog
  /\ editing' = NoTrip
  /\ UNCHANGED <<token, airports, unsure>>

(* A deletion is answered: the dialog is closed, and the trip that         *)
(* pendingDelete names by now leaves the list.                             *)
Deleted ==
  LET t == request["delete"].write.trip IN
  /\ Arrives("delete", {"ok"})
  /\ list' = [list EXCEPT ![pendingDelete] = <<>>]
  /\ dialog' = IF dialog = "delete" THEN "none" ELSE dialog
  /\ unsure' = IF pendingDelete = t THEN unsure ELSE unsure \cup {t, pendingDelete}
  /\ UNCHANGED <<token, airports, editing>>

(* The report is shown; nothing else depends on it.                        *)
ReportArrives ==
  /\ Arrives("report", {"ok"})
  /\ UNCHANGED <<token, airports, list, dialog, editing, unsure>>

AnswerTo(s) ==
  \/ Denied(s) \/ Failed(s)
  \/ s \in AirportLoads /\ (AirportsArrive(s) \/ DrawMap(s) \/ MapDrawn(s))
  \/ s \in TripLoads /\ TripsArrive(s)
  \/ s = "form" /\ Saved
  \/ s = "delete" /\ Deleted
  \/ s = "report" /\ ReportArrives

User ==
  \/ Login \/ ClickLogout \/ CloseDialog \/ ConfirmDelete \/ ReloadPage
  \/ \E b \in {"reload", "report"} : ClickRead(b)
  \/ \E t \in Trips \cup {NoTrip} : OpenForm(t)
  \/ \E t \in Trips : AskDelete(t) \/ \E d \in Data : Submit(t, d)

Environment ==
  \/ \E s \in Senders : Serve(s) \/ \E late \in BOOLEAN : Fail(s, late)
  \/ \E w \in orphans : Settle(w)
  \/ \E s \in valid : Expire(s)

(* History: which trips have a write under way during a load.              *)
Overlaps == dirty' = [s \in TripLoads |-> IF request'[s] = NoRequest THEN {}
                                          ELSE dirty[s] \cup Touched \cup Touched']

Next == (User \/ Environment \/ \E s \in Senders : AnswerTo(s)) /\ Overlaps

SafeSpec == Init /\ [][Next]_vars

(* fetch settles, since the gateway answers within its timeout or the      *)
(* connection breaks, and the event loop runs what awaits it; newPlot      *)
(* draws or raises.  The user need not do anything.                        *)
Spec == SafeSpec /\ \A s \in Senders : WF_vars((Serve(s) \/ AnswerTo(s)) /\ Overlaps)

-----------------------------------------------------------------------------
(* Types, and the shape of the page: a token exists only if it was issued, *)
(* nothing is loaded or open without one, and a sender that awaits its     *)
(* request has its button disabled, so that no click is sent twice.        *)
TypeOK ==
  /\ token \in 0..issued
  /\ issued \in 0..MaxSessions
  /\ valid \in SUBSET (1..issued)
  /\ airports \in BOOLEAN
  /\ list \in [Trips -> Seq(Data)]
  /\ dialog \in {"none", "form", "delete"}
  /\ editing \in Trips \cup {NoTrip}
  /\ pendingDelete \in Trips \cup {NoTrip}
  /\ disabled \in SUBSET Buttons
  /\ request \in [Senders -> Request \cup {NoRequest}]
  /\ orphans \in SUBSET Write
  /\ store \in Store
  /\ used \in SUBSET Trips
  /\ calls \in 0..MaxCalls
  /\ dirty \in [TripLoads -> SUBSET Trips]
  /\ unsure \in SUBSET Trips
  /\ token = 0 => dialog = "none" /\ ~ airports
  /\ \A b \in Buttons \ {"login"} : b \in disabled <=> request[b] # NoRequest
  /\ "login" \in disabled <=> \E s \in LoginLoads : request[s] # NoRequest

(* The list agrees with the server about every trip no write of which is   *)
(* under way, whatever loads, logins, expiries and reloads came between;   *)
(* but for the trips written while a load was under way (app.js:193), the  *)
(* writes whose answer was lost, and the two trips mixed up by a deletion  *)
(* that is answered when pendingDelete names another one (app.js:236).     *)
ListIsTrue ==
  \A t \in Trips : t \notin unsure \cup Touched => list[t] = Shown(store)[t]

(* Logout was clicked, or a request was answered with 401.                 *)
EndsForAReason ==
  /\ \/ Clickable /\ UNCHANGED request
     \/ \E s \in Senders : /\ request[s] # NoRequest /\ request'[s] = NoRequest
                           /\ request[s].status = "denied"
                           /\ request[s].session \notin valid
  /\ list' = NoTrips /\ dialog' = "none" /\ ~ airports'

(* "lo elimina al salir o recibir 401" (docs/README.md:109): the token     *)
(* goes by a click on logout, or by the 401 of a request whose session has *)
(* expired, and then nothing of the session stays on the page.             *)
SessionEndsForAReason == [][token # 0 /\ token' = 0 => EndsForAReason]_vars

(* A deletion has been answered (and the page not been reloaded).          *)
DeletionAnswered == /\ request["delete"] # NoRequest
                    /\ request'["delete"] = NoRequest
                    /\ pendingDelete' # NoTrip

(* "¿Eliminar este itinerario? Se quitará de tus planes guardados",        *)
(* "Conservar" or "Eliminar" (index.html:131): what leaves the list with a *)
(* deletion is the itinerary for which "Eliminar" was chosen.              *)
KeptTripStays ==
  [][DeletionAnswered /\ token' # 0 =>
       \A t \in Trips : list[t] # <<>> /\ list'[t] = <<>>
                        => t = request["delete"].write.trip]_vars
=============================================================================
