------------------------------- MODULE Gateway -------------------------------
(***************************************************************************)
(* The API gateway: the rate limiter it shares with its replicas through   *)
(* Redis, the login, and the forwarding of a request with its token, which *)
(* every service on the way verifies again (shared/auth.py).               *)
(*                                                                         *)
(* The callers are the requests of one address: counters are kept per      *)
(* address, so addresses do not interact.  Time is counted in ticks.       *)
(***************************************************************************)
EXTENDS Naturals

CONSTANTS
  Callers,     \* browsers behind the address, one request at a time each
  Window,      \* length of a window (60 s)
  ApiLimit,    \* rate_limit, requests to the API in a window
  LoginLimit,  \* login_rate_limit
  TokenLife    \* lifetime_minutes of a token

ASSUME GatewayAssumption == {Window, ApiLimit, LoginLimit, TokenLife} \subseteq Nat \ {0}

VARIABLES
  count, ttl,    \* gateway:rate:*, and its remaining time to live
  pc, kind,      \* where each caller's request is, and what it asks for
  session,       \* remaining life of each caller's token, 0: expired or none
  answer,        \* status of the last answer
  watched,       \* an observer: the key it watches,
  watch, seen    \* for how much longer, and the requests let in meanwhile

observer == <<watched, watch, seen>>
limiter == <<count, ttl, observer>>
vars == <<limiter, pc, kind, session, answer>>

Keys == {"login", "api"}
Kinds == {"login", "direct", "nested"}
Labels == {"idle", "limit", "enter", "service", "inner"}
Statuses == {"none", "200", "401", "429", "503"}

Key(c) == IF kind[c] = "login" THEN "login" ELSE "api"
Limit(k) == IF k = "login" THEN LoginLimit ELSE ApiLimit
Smaller(m, n) == IF m < n THEN m ELSE n

Init ==
  /\ count = [k \in Keys |-> 0] /\ ttl = [k \in Keys |-> 0]
  /\ pc = [c \in Callers |-> "idle"]
  /\ kind = [c \in Callers |-> "direct"]
  /\ session = [c \in Callers |-> 0]
  /\ answer = [c \in Callers |-> "none"]
  /\ watched = "api" /\ watch = 0 /\ seen = 0

GoTo(c, l) == pc' = [pc EXCEPT ![c] = l] /\ UNCHANGED <<kind, answer>>

(* The gateway answers; what the request was is forgotten.                 *)
Answer(c, status) ==
  /\ pc' = [pc EXCEPT ![c] = "idle"]
  /\ kind' = [kind EXCEPT ![c] = "direct"]
  /\ answer' = [answer EXCEPT ![c] = status]

Send(c) ==
  /\ pc[c] = "idle"
  /\ pc' = [pc EXCEPT ![c] = "limit"]
  /\ kind' \in {[kind EXCEPT ![c] = k] : k \in Kinds}
  /\ answer' = [answer EXCEPT ![c] = "none"]
  /\ UNCHANGED <<limiter, session>>

-----------------------------------------------------------------------------
(* The limiter.                                                            *)

(* Mutants: EXPIRE sent after INCR, and lost; EXPIRE at every request.     *)
CountOnly(k) ==
  /\ count' = [count EXCEPT ![k] = Smaller(@ + 1, Limit(k) + 1)]
  /\ ttl' \in {ttl, [ttl EXCEPT ![k] = Window]}

CountAndProlong(k) ==
  /\ count' = [count EXCEPT ![k] = Smaller(@ + 1, Limit(k) + 1)]
  /\ ttl' = [ttl EXCEPT ![k] = Window]

(* The script: INCR, and EXPIRE for the first of a window.  The count      *)
(* matters only up to the first request that is refused.                   *)
Count(k) ==
  /\ count' = [count EXCEPT ![k] = Smaller(@ + 1, Limit(k) + 1)]
  /\ ttl' = [ttl EXCEPT ![k] = IF count[k] = 0 THEN Window ELSE @]

Noticed(k) == /\ seen' = IF watched = k /\ watch > 0 THEN seen + 1 ELSE seen
              /\ UNCHANGED <<watched, watch>>

Allow(c) ==
  /\ pc[c] = "limit"
  /\ Count(Key(c))
  /\ count'[Key(c)] <= Limit(Key(c))
  /\ GoTo(c, "enter")
  /\ Noticed(Key(c))
  /\ UNCHANGED session

Refuse(c) ==
  /\ pc[c] = "limit"
  /\ Count(Key(c))
  /\ count'[Key(c)] > Limit(Key(c))
  /\ Answer(c, "429")
  /\ UNCHANGED <<observer, session>>

(* Mutant: without Redis requests are let in.                              *)
FailOpen(c) ==
  /\ pc[c] = "limit"
  /\ UNCHANGED <<count, ttl>>
  /\ GoTo(c, "enter")
  /\ Noticed(Key(c))
  /\ UNCHANGED session

(* Redis fails, before or after it ran the script.                         *)
LimiterFails(c) ==
  /\ pc[c] = "limit"
  /\ Count(Key(c)) \/ UNCHANGED <<count, ttl>>
  /\ Answer(c, "503")
  /\ UNCHANGED <<observer, session>>

(* Redis ran the script and the reply is lost: redis-py sends it again.    *)
Recount(c) ==
  /\ pc[c] = "limit"
  /\ Count(Key(c))
  /\ UNCHANGED <<observer, pc, kind, session, answer>>

-----------------------------------------------------------------------------
(* The request.                                                            *)

Login(c) ==
  /\ pc[c] = "enter" /\ kind[c] = "login"
  /\ \/ Answer(c, "401") /\ UNCHANGED session
     \/ Answer(c, "200") /\ session' = [session EXCEPT ![c] = TokenLife]
  /\ UNCHANGED limiter

(* The gateway verifies the token and forwards the request.                *)
Authenticate(c) ==
  /\ pc[c] = "enter" /\ kind[c] # "login"
  /\ IF session[c] = 0 THEN Answer(c, "401") ELSE GoTo(c, "service")
  /\ UNCHANGED <<limiter, session>>

(* The service verifies it again.  It answers, or first asks another       *)
(* service with the same token: create and update ask for airports, a      *)
(* report for itineraries.  Its status is passed on.                       *)
Serve(c) ==
  /\ pc[c] = "service"
  /\ \/ session[c] = 0 /\ Answer(c, "401")
     \/ session[c] > 0 /\ kind[c] = "direct" /\ Answer(c, "200")
     \/ session[c] > 0 /\ kind[c] = "nested" /\ GoTo(c, "inner")
  /\ UNCHANGED <<limiter, session>>

(* The service asked by a service: raise_for_status turns its 401 into     *)
(* AirportUnavailable or ItineraryUnavailable.                             *)
ServeInner(c) ==
  /\ pc[c] = "inner"
  /\ Answer(c, IF session[c] = 0 THEN "503" ELSE "200")
  /\ UNCHANGED <<limiter, session>>

(* No service, no connection, or no answer in time: UpstreamUnavailable.   *)
UpstreamFails(c) ==
  /\ pc[c] \in {"service", "inner"}
  /\ Answer(c, "503")
  /\ UNCHANGED <<limiter, session>>

-----------------------------------------------------------------------------
(* The environment.                                                        *)

Watch(k) ==
  /\ watch = 0
  /\ watched' = k /\ watch' = Window /\ seen' = 0
  /\ UNCHANGED <<count, ttl, pc, kind, session, answer>>

(* Redis evicts the counter or loses it in a restart: the observer stops.  *)
LoseCounter(k) ==
  /\ count[k] > 0
  /\ count' = [count EXCEPT ![k] = 0] /\ ttl' = [ttl EXCEPT ![k] = 0]
  /\ watch' = IF watched = k THEN 0 ELSE watch
  /\ UNCHANGED <<watched, seen, pc, kind, session, answer>>

(* A gateway goes down with its requests, the counters stay.               *)
Crash(c) ==
  /\ pc[c] # "idle"
  /\ Answer(c, "503")
  /\ UNCHANGED <<limiter, session>>

Less(n) == IF n > 0 THEN n - 1 ELSE 0

Tick ==
  /\ count' = [k \in Keys |-> IF ttl[k] = 1 THEN 0 ELSE count[k]]
  /\ ttl' = [k \in Keys |-> Less(ttl[k])]
  /\ watch' = Less(watch)
  /\ session' = [c \in Callers |-> Less(session[c])]
  /\ UNCHANGED <<watched, seen, pc, kind, answer>>

Next ==
  \/ \E c \in Callers :
       \/ Send(c) \/ Allow(c) \/ Refuse(c) \/ LimiterFails(c) \/ Recount(c)
       \/ Login(c) \/ Authenticate(c) \/ Serve(c) \/ ServeInner(c) \/ UpstreamFails(c)
       \/ Crash(c)
  \/ \E k \in Keys : Watch(k) \/ LoseCounter(k)
  \/ Tick

SafeSpec == Init /\ [][Next]_vars

(* Time passes.                                                            *)
Spec == SafeSpec /\ WF_vars(Tick)

-----------------------------------------------------------------------------
(* Types; a counter and its time to live come and go together.             *)
TypeOK ==
  /\ count \in [Keys -> Nat] /\ ttl \in [Keys -> 0..Window]
  /\ \A k \in Keys : count[k] <= Limit(k) + 1 /\ (count[k] = 0 <=> ttl[k] = 0)
  /\ pc \in [Callers -> Labels] /\ kind \in [Callers -> Kinds]
  /\ session \in [Callers -> 0..TokenLife]
  /\ answer \in [Callers -> Statuses]
  /\ watched \in Keys /\ watch \in 0..Window /\ seen \in Nat

(* Whenever one starts to watch, no more than twice the limit is let in    *)
(* during the length of a window: fixed windows may meet back to back, but *)
(* neither failures of Redis nor crashes of gateways let more in.          *)
AtMostTwoWindows == seen <= 2 * Limit(watched)

(* An address over its limit is not kept out for ever, however it insists  *)
(* and whatever fails.                                                     *)
QuotaReturns == \A k \in Keys : count[k] > Limit(k) ~> count[k] = 0

(* "401: credenciales/token incorrectos, ausentes o vencidos"              *)
(* (docs/README.md:103): a token that a service finds expired is answered  *)
(* with 401.                                                               *)
ExpiredIsUnauthorized ==
  [][\A c \in Callers : Serve(c) \/ ServeInner(c) => (session[c] = 0 => answer'[c] = "401")]_vars
=============================================================================
