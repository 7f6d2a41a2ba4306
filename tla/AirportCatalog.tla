--------------------------- MODULE AirportCatalog ---------------------------
(***************************************************************************)
(* The airport service: its two copies of the catalogue in Redis           *)
(* (application/service.py) and its calls to API Colombia, retried and     *)
(* guarded by a circuit breaker (infrastructure/adapters.py).              *)
(*                                                                         *)
(* Time is counted in ticks: an entry has its remaining time to live, data *)
(* has an age, and an open circuit its remaining recovery time.            *)
(***************************************************************************)
EXTENDS Naturals, FiniteSets

CONSTANTS
  Callers,     \* concurrent GET /airports and GET /airports/{id}
  FreshTtl,    \* cache_ttl (1 h)
  StaleTtl,    \* stale_cache_ttl (24 h)
  Attempts,    \* attempts of AsyncRetrying (3)
  Threshold,   \* failure_threshold of the breaker (3)
  Recovery,    \* recovery_timeout of the breaker (30 s)
  WriteDelay   \* longest time both writes to Redis take (socket_timeout, 2 s each)

ASSUME BoundsAssumption == /\ {Attempts, Threshold, Recovery, FreshTtl} \subseteq Nat \ {0}
                           /\ {WriteDelay, StaleTtl} \subseteq Nat
ASSUME TtlAssumption == StaleTtl >= FreshTtl + WriteDelay

VARIABLES
  fresh, stale,   \* airports:fresh and airports:stale
  failed,         \* _failure_count, up to the threshold
  open, rest,     \* the breaker's state and the rest of its recovery time
  provider,       \* whether API Colombia is well
  pc, tries,      \* where each call is, and its requests to the provider
  got,            \* age of the catalogue it got from the provider
  answer          \* how it was answered

breakerVars == <<failed, open, rest>>
vars == <<fresh, stale, breakerVars, provider, pc, tries, got, answer>>

Labels == {"idle", "readFresh", "request", "readStale", "writeStale", "writeFresh"}
Answers == {"none", "fresh", "live", "stale", "unavailable", "error"}

Gone == [ttl |-> 0, age |-> 0]

Init ==
  /\ fresh = Gone /\ stale = Gone
  /\ failed = 0 /\ open = FALSE /\ rest = 0
  /\ provider \in {"up", "down"}
  /\ pc = [c \in Callers |-> "idle"]
  /\ tries = [c \in Callers |-> 0]
  /\ got = [c \in Callers |-> 0]
  /\ answer = [c \in Callers |-> "none"]

GoTo(c, l) == pc' = [pc EXCEPT ![c] = l]

(* The handler of c returns or raises.                                     *)
Answer(c, a) == /\ answer' = [answer EXCEPT ![c] = a]
                /\ tries' = [tries EXCEPT ![c] = 0]
                /\ got' = [got EXCEPT ![c] = 0]
                /\ GoTo(c, "idle")

-----------------------------------------------------------------------------
(* The circuit breaker of this process.                                    *)

(* Mutant: nothing ends the recovery time.                                 *)
OpenForGood == open

(* Open, and the recovery time not over: calls are rejected.  After it the *)
(* circuit is half open, and calls pass.                                   *)
Opened == open /\ rest > 0

(* An operation failed, whatever the exception.                            *)
CallFailed ==
  /\ failed' = IF failed < Threshold THEN failed + 1 ELSE failed
  /\ open' = (open \/ failed' = Threshold)
  /\ rest' = IF failed' = Threshold THEN Recovery ELSE rest

CallSucceeded == failed' = 0 /\ open' = FALSE /\ rest' = 0

-----------------------------------------------------------------------------
Begin(c) ==
  /\ pc[c] = "idle"
  /\ answer' = [answer EXCEPT ![c] = "none"]
  /\ GoTo(c, "readFresh")
  /\ UNCHANGED <<fresh, stale, breakerVars, provider, tries, got>>

(* Mutant: the circuit is not consulted.                                   *)
ReadFreshUnguarded(c) ==
  /\ pc[c] = "readFresh"
  /\ \/ fresh.ttl > 0 /\ Answer(c, "fresh")
     \/ GoTo(c, "request") /\ UNCHANGED <<tries, got, answer>>
  /\ UNCHANGED <<fresh, stale, breakerVars, provider>>

(* Mutant: a rejected call counts as one more failure.                     *)
ReadFreshRejected(c) ==
  /\ pc[c] = "readFresh"
  /\ \/ fresh.ttl > 0 /\ Answer(c, "fresh") /\ UNCHANGED breakerVars
     \/ /\ IF Opened THEN GoTo(c, "readStale") /\ CallFailed
                      ELSE GoTo(c, "request") /\ UNCHANGED breakerVars
        /\ UNCHANGED <<tries, got, answer>>
  /\ UNCHANGED <<fresh, stale, provider>>

(* airports:fresh is there: return it.  If it is not, or Redis fails, ask  *)
(* the provider, unless the circuit is open.                               *)
ReadFresh(c) ==
  /\ pc[c] = "readFresh"
  /\ \/ fresh.ttl > 0 /\ Answer(c, "fresh")
     \/ /\ GoTo(c, IF Opened THEN "readStale" ELSE "request")
        /\ UNCHANGED <<tries, got, answer>>
  /\ UNCHANGED <<fresh, stale, breakerVars, provider>>

(* A valid catalogue.                                                      *)
Respond(c) ==
  /\ pc[c] = "request"
  /\ provider = "up"
  /\ CallSucceeded
  /\ got' = [got EXCEPT ![c] = 0]
  /\ GoTo(c, "writeStale")
  /\ UNCHANGED <<fresh, stale, provider, tries, answer>>

(* Mutant: one request too many.                                           *)
FailOnceMore(c) ==
  /\ pc[c] = "request"
  /\ provider = "down"
  /\ IF tries[c] + 1 <= Attempts
     THEN tries' = [tries EXCEPT ![c] = @ + 1] /\ GoTo(c, "request") /\ UNCHANGED breakerVars
     ELSE CallFailed /\ GoTo(c, "readStale") /\ UNCHANGED tries
  /\ UNCHANGED <<fresh, stale, provider, got, answer>>

(* Mutant: AsyncRetrying without stop_after_attempt.                       *)
RetryForever(c) ==
  /\ pc[c] = "request"
  /\ provider = "down"
  /\ tries' = [tries EXCEPT ![c] = (@ + 1) % Attempts]
  /\ GoTo(c, "request")
  /\ UNCHANGED <<fresh, stale, breakerVars, provider, got, answer>>

(* A transport error, a 429 or a 5xx: try again after the backoff, up to   *)
(* the last attempt.                                                       *)
FailTransiently(c) ==
  /\ pc[c] = "request"
  /\ provider = "down"
  /\ IF tries[c] + 1 < Attempts
     THEN /\ tries' = [tries EXCEPT ![c] = @ + 1]
          /\ GoTo(c, "request")
          /\ UNCHANGED breakerVars
     ELSE /\ CallFailed
          /\ GoTo(c, "readStale")
          /\ UNCHANGED tries
  /\ UNCHANGED <<fresh, stale, provider, got, answer>>

(* Another 4xx, or a body that is no airport collection.                   *)
FailForever(c) ==
  /\ pc[c] = "request"
  /\ provider = "down"
  /\ CallFailed
  /\ GoTo(c, "readStale")
  /\ UNCHANGED <<fresh, stale, provider, tries, got, answer>>

(* A collection with an item that is no object, or with a coordinate no    *)
(* float can hold: translate raises AttributeError or OverflowError, which *)
(* list_airports of the adapter does not catch.                            *)
FailUnread(c) ==
  /\ pc[c] = "request"
  /\ provider = "down"
  /\ CallFailed
  /\ Answer(c, "error")
  /\ UNCHANGED <<fresh, stale, provider>>

(* Mutant: the fallback is cached as fresh, to spare the provider.         *)
ReadStaleAndCache(c) ==
  /\ pc[c] = "readStale"
  /\ \/ /\ stale.ttl > 0
        /\ Answer(c, "stale")
        /\ fresh' = [ttl |-> FreshTtl, age |-> stale.age]
     \/ Answer(c, "unavailable") /\ UNCHANGED fresh
  /\ UNCHANGED <<stale, breakerVars, provider>>

(* AirportUnavailable: the stale copy, or 503 if there is none or Redis    *)
(* fails.                                                                  *)
ReadStale(c) ==
  /\ pc[c] = "readStale"
  /\ \/ stale.ttl > 0 /\ Answer(c, "stale")
     \/ Answer(c, "unavailable")
  /\ UNCHANGED <<fresh, stale, breakerVars, provider>>

(* Mutant: each write has a try of its own.                                *)
WriteStaleAndGoOn(c) ==
  /\ pc[c] = "writeStale"
  /\ stale' \in {[ttl |-> StaleTtl, age |-> got[c]], stale}
  /\ GoTo(c, "writeFresh")
  /\ UNCHANGED <<fresh, breakerVars, provider, tries, got, answer>>

(* cache.set of the stale copy: done, or failed with or without effect,    *)
(* which gives up writing.                                                 *)
WriteStale(c) ==
  /\ pc[c] = "writeStale"
  /\ \/ /\ stale' = [ttl |-> StaleTtl, age |-> got[c]]
        /\ \/ GoTo(c, "writeFresh") /\ UNCHANGED <<tries, got, answer>>
           \/ Answer(c, "live")
     \/ Answer(c, "live") /\ UNCHANGED stale
  /\ UNCHANGED <<fresh, breakerVars, provider>>

WriteFresh(c) ==
  /\ pc[c] = "writeFresh"
  /\ fresh' \in {[ttl |-> FreshTtl, age |-> got[c]], fresh}
  /\ Answer(c, "live")
  /\ UNCHANGED <<stale, breakerVars, provider>>

-----------------------------------------------------------------------------
(* The provider breaks down and recovers.                                  *)
ProviderFlips ==
  /\ provider' \in {"up", "down"} \ {provider}
  /\ UNCHANGED <<fresh, stale, breakerVars, pc, tries, got, answer>>

(* The process is restarted: its calls and its breaker are gone, Redis     *)
(* keeps the entries.                                                      *)
Restart ==
  /\ failed' = 0 /\ open' = FALSE /\ rest' = 0
  /\ pc' = [c \in Callers |-> "idle"]
  /\ tries' = [c \in Callers |-> 0]
  /\ got' = [c \in Callers |-> 0]
  /\ answer' = [c \in Callers |-> "none"]
  /\ UNCHANGED <<fresh, stale, provider>>

Older(e) == IF e.ttl <= 1 THEN Gone ELSE [ttl |-> e.ttl - 1, age |-> e.age + 1]

Writing(c) == pc[c] \in {"writeStale", "writeFresh"}

(* Time passes.  A request to the provider may take any time; a write to   *)
(* Redis is over, or has timed out, within WriteDelay.                     *)
Tick ==
  /\ \A c \in Callers : Writing(c) => got[c] < WriteDelay
  /\ fresh' = Older(fresh) /\ stale' = Older(stale)
  /\ rest' = IF rest > 0 THEN rest - 1 ELSE 0
  /\ got' = [c \in Callers |-> IF Writing(c) THEN got[c] + 1 ELSE 0]
  /\ UNCHANGED <<failed, open, provider, pc, tries, answer>>

Serve(c) ==
  \/ ReadFresh(c) \/ Respond(c) \/ FailTransiently(c) \/ FailForever(c) \/ FailUnread(c)
  \/ ReadStale(c) \/ WriteStale(c) \/ WriteFresh(c)

Next ==
  \/ \E c \in Callers : Begin(c) \/ Serve(c)
  \/ ProviderFlips \/ Restart \/ Tick

SafeSpec == Init /\ [][Next]_vars

(* Every await ends (timeouts), and time passes.                           *)
Spec == SafeSpec /\ WF_vars(Tick) /\ \A c \in Callers : WF_vars(Serve(c))

-----------------------------------------------------------------------------
(* Types; a call sends at most Attempts requests, the circuit is open from *)
(* the last failure it tolerates.                                          *)
TypeOK ==
  /\ fresh \in [ttl : 0..FreshTtl, age : Nat]
  /\ stale \in [ttl : 0..StaleTtl, age : Nat]
  /\ failed \in 0..Threshold
  /\ open \in BOOLEAN /\ (open <=> failed = Threshold)
  /\ rest \in 0..Recovery
  /\ provider \in {"up", "down"}
  /\ pc \in [Callers -> Labels]
  /\ tries \in [Callers -> 0..(Attempts - 1)]
  /\ got \in [Callers -> 0..WriteDelay]
  /\ answer \in [Callers -> Answers]

(* The fallback outlives the copy it backs: while airports:fresh is        *)
(* served, airports:stale is there, and stays at least as long, however    *)
(* the writes of concurrent calls interleave or fail.                      *)
FreshHasFallback == fresh.ttl > 0 => stale.ttl >= fresh.ttl

(* No catalogue is served beyond its time: fresh data is at most FreshTtl  *)
(* old (plus the time to write it), fallback data at most StaleTtl.        *)
BoundedAge ==
  /\ fresh.ttl > 0 => fresh.ttl + fresh.age <= FreshTtl + WriteDelay
  /\ stale.ttl > 0 => stale.ttl + stale.age <= StaleTtl + WriteDelay

(* While the circuit is open the provider is left alone: only requests     *)
(* that were under way when it opened go on.                               *)
OpenCircuitDrains ==
  [][Opened => \A c \in Callers : pc'[c] = "request" => pc[c] = "request"]_vars

(* Every call is answered, however the provider and Redis fail.            *)
EveryCallAnswered == \A c \in Callers : pc[c] # "idle" ~> pc[c] = "idle"

(* "permite recuperacion despues de 30 s" (docs/README.md:30): late        *)
(* failures may reopen the circuit, but it does not stay open for ever.    *)
CircuitRecovers == Opened ~> ~ Opened

(* Once the provider is well for good, calls are answered with current     *)
(* data again: neither the circuit nor the fallback persists.              *)
CatalogueHeals ==
  <>[](provider = "up") =>
    <>[][\A c \in Callers : answer'[c] # answer[c] => answer'[c] \in {"none", "fresh", "live"}]_vars

(* "Tras fallar el proveedor se utiliza esta segunda copia si aun existe"  *)
(* (docs/README.md:31): no call fails with an uncaught exception while the *)
(* second copy is there.                                                   *)
FallbackIsUsed ==
  [][\A c \in Callers : answer'[c] = "error" /\ answer[c] # "error" => stale.ttl = 0]_vars
=============================================================================
