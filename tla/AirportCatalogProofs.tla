------------------------ MODULE AirportCatalogProofs ------------------------
(***************************************************************************)
(* Proofs about AirportCatalog, for any number of calls and any times to   *)
(* live, attempts, threshold and recovery time.                            *)
(*                                                                         *)
(* A call that has written the stale copy and not yet the fresh one knows  *)
(* how long the stale copy still lives at least: its time to live and the  *)
(* age of the data the call holds add up to StaleTtl.                      *)
(***************************************************************************)
EXTENDS AirportCatalog, TLAPS

(* What a call in writeFresh may count on.                                 *)
Backed == \A c \in Callers : pc[c] = "writeFresh" => stale.ttl + got[c] >= StaleTtl

Inv == TypeOK /\ Backed /\ FreshHasFallback /\ BoundedAge

LEMMA Bounds ==
  /\ Attempts \in Nat \ {0} /\ Threshold \in Nat \ {0} /\ Recovery \in Nat \ {0}
  /\ FreshTtl \in Nat \ {0} /\ StaleTtl \in Nat /\ WriteDelay \in Nat
  /\ StaleTtl >= FreshTtl + WriteDelay
  BY BoundsAssumption, TtlAssumption

LEMMA InitInv == Init => Inv
<1> SUFFICES ASSUME Init PROVE Inv
  OBVIOUS
<1>1. TypeOK
  <2>1. fresh \in [ttl : 0..FreshTtl, age : Nat] /\ stale \in [ttl : 0..StaleTtl, age : Nat]
    BY Bounds DEF Init, Gone
  <2>2. failed \in 0..Threshold /\ open \in BOOLEAN /\ (open <=> failed = Threshold)
        /\ rest \in 0..Recovery /\ provider \in {"up", "down"}
    <3>1. failed \in 0..Threshold /\ failed # Threshold /\ rest \in 0..Recovery
          /\ provider \in {"up", "down"}
      BY Bounds DEF Init
    <3>2. open = FALSE
      BY DEF Init
    <3> QED BY <3>1, <3>2, Zenon
  <2>3. /\ pc \in [Callers -> Labels] /\ answer \in [Callers -> Answers]
        /\ tries \in [Callers -> 0..(Attempts - 1)] /\ got \in [Callers -> 0..WriteDelay]
    BY Bounds DEF Init, Labels, Answers
  <2> QED BY <2>1, <2>2, <2>3 DEF TypeOK
<1>2. Backed
  BY DEF Init, Backed
<1>3. FreshHasFallback /\ BoundedAge
  BY DEF Init, FreshHasFallback, BoundedAge, Gone
<1> QED BY <1>1, <1>2, <1>3 DEF Inv

(* A call's own bookkeeping.                                               *)
LEMMA GoToTypes ==
  ASSUME TypeOK, NEW c \in Callers, NEW l \in Labels, GoTo(c, l)
  PROVE  pc' \in [Callers -> Labels]
  BY DEF TypeOK, GoTo

LEMMA AnswerTypes ==
  ASSUME TypeOK, NEW c \in Callers, NEW a \in Answers, Answer(c, a)
  PROVE  /\ pc' \in [Callers -> Labels]
         /\ tries' \in [Callers -> 0..(Attempts - 1)]
         /\ got' \in [Callers -> 0..WriteDelay]
         /\ answer' \in [Callers -> Answers]
<1>1. 0 \in 0..(Attempts - 1) /\ 0 \in 0..WriteDelay /\ "idle" \in Labels
  BY Bounds DEF Labels
<1>2. /\ pc' = [pc EXCEPT ![c] = "idle"] /\ tries' = [tries EXCEPT ![c] = 0]
      /\ got' = [got EXCEPT ![c] = 0] /\ answer' = [answer EXCEPT ![c] = a]
  BY DEF Answer, GoTo
<1> QED BY <1>1, <1>2 DEF TypeOK

LEMMA FailureTypes ==
  ASSUME TypeOK, CallFailed
  PROVE  /\ failed' \in 0..Threshold
         /\ open' \in BOOLEAN /\ (open' <=> failed' = Threshold)
         /\ rest' \in 0..Recovery
<1>1. failed' \in 0..Threshold /\ rest' \in 0..Recovery
  BY Bounds DEF TypeOK, CallFailed
<1>2. failed = Threshold => failed' = Threshold
  BY Bounds DEF TypeOK, CallFailed
<1>3. open' = (open \/ failed' = Threshold) /\ open \in BOOLEAN /\ (open <=> failed = Threshold)
  BY DEF TypeOK, CallFailed
<1>4. open' \in BOOLEAN /\ (open' <=> failed' = Threshold)
  BY <1>2, <1>3, Zenon
<1> QED BY <1>1, <1>4

LEMMA SuccessTypes ==
  ASSUME TypeOK, CallSucceeded
  PROVE  /\ failed' \in 0..Threshold
         /\ open' \in BOOLEAN /\ (open' <=> failed' = Threshold)
         /\ rest' \in 0..Recovery
<1>1. failed' \in 0..Threshold /\ failed' # Threshold /\ rest' \in 0..Recovery
  BY Bounds DEF CallSucceeded
<1>2. open' = FALSE
  BY DEF CallSucceeded
<1> QED BY <1>1, <1>2, Zenon

(* An entry that lives on keeps the sum of its time to live and its age.   *)
LEMMA OlderTypes ==
  ASSUME NEW n \in Nat, NEW e \in [ttl : 0..n, age : Nat]
  PROVE  /\ Older(e) \in [ttl : 0..n, age : Nat]
         /\ Older(e).ttl = IF e.ttl > 0 THEN e.ttl - 1 ELSE 0
         /\ Older(e).ttl > 0 => Older(e).ttl + Older(e).age = e.ttl + e.age
  BY DEF Older, Gone

LEMMA TypeStep == Inv /\ [Next]_vars => TypeOK'
<1> SUFFICES ASSUME Inv, [Next]_vars PROVE TypeOK'
  OBVIOUS
<1>T. TypeOK
  BY DEF Inv
<1>1. CASE UNCHANGED vars
  BY <1>1, <1>T DEF TypeOK, vars, breakerVars
<1>2. ASSUME NEW c \in Callers, Begin(c) \/ ReadFresh(c) \/ ReadStale(c) PROVE TypeOK'
  <2>1. CASE Begin(c)
    <3>1. pc' \in [Callers -> Labels]
      BY <2>1, <1>T, GoToTypes DEF Begin, Labels
    <3> QED BY <2>1, <3>1, <1>T DEF TypeOK, Begin, breakerVars, Answers
  <2>2. CASE ReadFresh(c) \/ ReadStale(c)
    <3>1. UNCHANGED <<fresh, stale, failed, open, rest, provider>>
      BY <2>2 DEF ReadFresh, ReadStale, breakerVars
    <3>2. \/ \E a \in Answers : Answer(c, a)
          \/ (\E l \in Labels : GoTo(c, l)) /\ UNCHANGED <<tries, got, answer>>
      BY <2>2 DEF ReadFresh, ReadStale, Labels, Answers
    <3>3. CASE \E a \in Answers : Answer(c, a)
      BY <3>1, <3>3, <1>T, AnswerTypes DEF TypeOK
    <3>4. CASE (\E l \in Labels : GoTo(c, l)) /\ UNCHANGED <<tries, got, answer>>
      BY <3>1, <3>4, <1>T, GoToTypes DEF TypeOK
    <3> QED BY <3>2, <3>3, <3>4
  <2> QED BY <1>2, <2>1, <2>2
<1>3. ASSUME NEW c \in Callers, Respond(c) PROVE TypeOK'
  BY <1>3, <1>T, GoToTypes, AnswerTypes, Bounds, FailureTypes, SuccessTypes DEF TypeOK, Respond, Labels
<1>4. ASSUME NEW c \in Callers, FailTransiently(c) PROVE TypeOK'
  BY <1>4, <1>T, GoToTypes, AnswerTypes, Bounds, FailureTypes, SuccessTypes DEF TypeOK, FailTransiently, breakerVars, Labels
<1>5. ASSUME NEW c \in Callers, FailForever(c) \/ FailUnread(c) PROVE TypeOK'
  BY <1>5, <1>T, GoToTypes, AnswerTypes, Bounds, FailureTypes, SuccessTypes DEF TypeOK, FailForever, FailUnread, Labels, Answers
<1>6. ASSUME NEW c \in Callers, WriteStale(c) \/ WriteFresh(c) PROVE TypeOK'
  <2>1. got[c] \in Nat
    BY <1>T, <1>6 DEF TypeOK
  <2> QED BY <1>6, <2>1, <1>T, GoToTypes, AnswerTypes, Bounds
          DEF TypeOK, WriteStale, WriteFresh, breakerVars, Labels, Answers
<1>7. CASE ProviderFlips
  BY <1>7, <1>T DEF TypeOK, ProviderFlips, breakerVars
<1>8. CASE Restart
  <2>1. CallSucceeded /\ UNCHANGED <<fresh, stale, provider>>
    BY <1>8 DEF Restart, CallSucceeded
  <2>2. /\ pc' \in [Callers -> Labels] /\ answer' \in [Callers -> Answers]
        /\ tries' \in [Callers -> 0..(Attempts - 1)] /\ got' \in [Callers -> 0..WriteDelay]
    BY <1>8, Bounds DEF Restart, Labels, Answers
  <2> QED BY <2>1, <2>2, <1>T, SuccessTypes DEF TypeOK
<1>9. CASE Tick
  <2>1. fresh' \in [ttl : 0..FreshTtl, age : Nat] /\ stale' \in [ttl : 0..StaleTtl, age : Nat]
    BY <1>9, <1>T, OlderTypes, Bounds DEF TypeOK, Tick
  <2>2. rest' \in 0..Recovery
    BY <1>9, <1>T, Bounds DEF TypeOK, Tick
  <2>3. \A c \in Callers : (IF Writing(c) THEN got[c] + 1 ELSE 0) \in 0..WriteDelay
    BY <1>9, <1>T, Bounds DEF TypeOK, Tick
  <2>4. got' \in [Callers -> 0..WriteDelay]
    BY <1>9, <2>3 DEF Tick
  <2>5. UNCHANGED <<failed, open, provider, pc, tries, answer>>
    BY <1>9 DEF Tick
  <2> QED BY <2>1, <2>2, <2>4, <2>5, <1>T DEF TypeOK
<1> QED BY <1>1, <1>2, <1>3, <1>4, <1>5, <1>6, <1>7, <1>8, <1>9 DEF Next, Serve

-----------------------------------------------------------------------------
(* A step that neither writes to Redis nor passes time leaves the copies   *)
(* alone and brings no call to writeFresh.                                 *)
LEMMA OtherSteps ==
  ASSUME TypeOK,
         \/ \E c \in Callers : Begin(c) \/ ReadFresh(c) \/ Respond(c) \/ FailTransiently(c)
                               \/ FailForever(c) \/ FailUnread(c) \/ ReadStale(c)
         \/ ProviderFlips \/ Restart
         \/ UNCHANGED vars
  PROVE  /\ UNCHANGED <<fresh, stale>>
         /\ \A d \in Callers : pc'[d] = "writeFresh" => pc[d] = "writeFresh" /\ got'[d] = got[d]
<1>1. CASE \E c \in Callers : Begin(c) \/ ReadFresh(c) \/ Respond(c) \/ FailTransiently(c)
                              \/ FailForever(c) \/ FailUnread(c) \/ ReadStale(c)
  <2>1. PICK c \in Callers : Begin(c) \/ ReadFresh(c) \/ Respond(c) \/ FailTransiently(c)
                             \/ FailForever(c) \/ FailUnread(c) \/ ReadStale(c)
    BY <1>1
  <2>2. UNCHANGED <<fresh, stale>>
    BY <2>1 DEF Begin, ReadFresh, Respond, FailTransiently, FailForever, FailUnread, ReadStale
  <2>3. \E l \in Labels \ {"writeFresh"} : pc' = [pc EXCEPT ![c] = l]
    BY <2>1 DEF Begin, ReadFresh, Respond, FailTransiently, FailForever, FailUnread, ReadStale,
                GoTo, Answer, Labels
  <2>4. got' = [got EXCEPT ![c] = 0] \/ got' = got
    BY <2>1 DEF Begin, ReadFresh, Respond, FailTransiently, FailForever, FailUnread, ReadStale,
                Answer
  <2> QED BY <2>2, <2>3, <2>4 DEF TypeOK
<1>2. CASE ProviderFlips \/ Restart \/ UNCHANGED vars
  BY <1>2 DEF ProviderFlips, Restart, vars
<1> QED BY <1>1, <1>2

(* What the two writes do.                                                 *)
LEMMA StaleWritten ==
  ASSUME TypeOK, NEW c \in Callers, WriteStale(c)
  PROVE  /\ fresh' = fresh
         /\ stale' = stale \/ stale' = [ttl |-> StaleTtl, age |-> got[c]]
         /\ stale'.ttl >= stale.ttl
         /\ pc'[c] = "writeFresh" => stale'.ttl = StaleTtl
         /\ \A d \in Callers \ {c} : pc'[d] = pc[d] /\ got'[d] = got[d]
<1>1. /\ fresh' = fresh
      /\ stale' = stale \/ stale' = [ttl |-> StaleTtl, age |-> got[c]]
      /\ pc' = [pc EXCEPT ![c] = "idle"] \/ /\ pc' = [pc EXCEPT ![c] = "writeFresh"]
                                            /\ stale' = [ttl |-> StaleTtl, age |-> got[c]]
      /\ got' = [got EXCEPT ![c] = 0] \/ got' = got
  BY DEF WriteStale, GoTo, Answer
<1>2. stale.ttl \in 0..StaleTtl
  BY DEF TypeOK
<1> QED BY <1>1, <1>2, Bounds DEF TypeOK

LEMMA FreshWritten ==
  ASSUME TypeOK, NEW c \in Callers, WriteFresh(c)
  PROVE  /\ stale' = stale
         /\ fresh' = fresh \/ fresh' = [ttl |-> FreshTtl, age |-> got[c]]
         /\ pc[c] = "writeFresh"
         /\ \A d \in Callers : pc'[d] = "writeFresh" => pc[d] = "writeFresh" /\ got'[d] = got[d]
<1>1. /\ pc[c] = "writeFresh" /\ stale' = stale
      /\ fresh' = fresh \/ fresh' = [ttl |-> FreshTtl, age |-> got[c]]
      /\ pc' = [pc EXCEPT ![c] = "idle"] /\ got' = [got EXCEPT ![c] = 0]
  BY DEF WriteFresh, GoTo, Answer
<1> QED BY <1>1 DEF TypeOK

(* What the passing of time does.                                          *)
LEMMA Aged ==
  ASSUME TypeOK, Tick
  PROVE  /\ fresh'.ttl = (IF fresh.ttl > 0 THEN fresh.ttl - 1 ELSE 0)
         /\ stale'.ttl = (IF stale.ttl > 0 THEN stale.ttl - 1 ELSE 0)
         /\ fresh'.ttl > 0 => fresh'.ttl + fresh'.age = fresh.ttl + fresh.age
         /\ stale'.ttl > 0 => stale'.ttl + stale'.age = stale.ttl + stale.age
         /\ \A d \in Callers : pc'[d] = "writeFresh" => pc[d] = "writeFresh" /\ got'[d] = got[d] + 1
<1>1. fresh' = Older(fresh) /\ stale' = Older(stale) /\ pc' = pc
  BY DEF Tick
<1>2. \A d \in Callers : pc[d] = "writeFresh" => got'[d] = got[d] + 1
  BY DEF Tick, Writing
<1> QED BY <1>1, <1>2, OlderTypes, Bounds DEF TypeOK

LEMMA BackedStep == Inv /\ [Next]_vars => Backed'
<1> SUFFICES ASSUME Inv, [Next]_vars, NEW d \in Callers, pc'[d] = "writeFresh"
             PROVE  stale'.ttl + got'[d] >= StaleTtl
  BY DEF Backed
<1>T. TypeOK /\ TypeOK' /\ Backed
  BY TypeStep DEF Inv
<1>S. stale.ttl \in Nat /\ stale'.ttl \in Nat /\ got[d] \in Nat /\ got'[d] \in Nat /\ StaleTtl \in Nat
  BY <1>T, Bounds DEF TypeOK
<1>1. ASSUME NEW c \in Callers, WriteStale(c) PROVE stale'.ttl + got'[d] >= StaleTtl
  BY <1>1, <1>T, <1>S, StaleWritten DEF Backed
<1>2. ASSUME NEW c \in Callers, WriteFresh(c) PROVE stale'.ttl + got'[d] >= StaleTtl
  BY <1>2, <1>T, <1>S, FreshWritten DEF Backed
<1>3. CASE Tick
  BY <1>3, <1>T, <1>S, Aged DEF Backed
<1>4. CASE pc[d] = "writeFresh" /\ got'[d] = got[d] /\ stale' = stale
  BY <1>4, <1>T, <1>S DEF Backed
<1> QED BY <1>1, <1>2, <1>3, <1>4, <1>T, OtherSteps DEF Next, Serve

LEMMA FallbackStep == Inv /\ [Next]_vars => FreshHasFallback'
<1> SUFFICES ASSUME Inv, [Next]_vars PROVE FreshHasFallback'
  OBVIOUS
<1>T. TypeOK /\ TypeOK' /\ Backed /\ FreshHasFallback
  BY TypeStep DEF Inv
<1>S. fresh.ttl \in Nat /\ stale.ttl \in Nat /\ stale'.ttl \in Nat
  BY <1>T DEF TypeOK
<1>1. ASSUME NEW c \in Callers, WriteStale(c) PROVE FreshHasFallback'
  BY <1>1, <1>T, <1>S, StaleWritten DEF FreshHasFallback
<1>2. ASSUME NEW c \in Callers, WriteFresh(c) PROVE FreshHasFallback'
  <2>1. stale.ttl >= FreshTtl
    <3>1. stale.ttl + got[c] >= StaleTtl
      BY <1>2, <1>T, FreshWritten DEF Backed
    <3>2. got[c] \in Nat /\ got[c] <= WriteDelay
      BY <1>T, Bounds DEF TypeOK
    <3> QED BY <3>1, <3>2, <1>S, Bounds
  <2> QED BY <1>2, <2>1, <1>T, <1>S, FreshWritten DEF FreshHasFallback
<1>3. CASE Tick
  BY <1>3, <1>T, <1>S, Aged DEF FreshHasFallback
<1>4. CASE UNCHANGED <<fresh, stale>>
  BY <1>4, <1>T DEF FreshHasFallback
<1> QED BY <1>1, <1>2, <1>3, <1>4, <1>T, OtherSteps DEF Next, Serve

LEMMA AgeStep == Inv /\ [Next]_vars => BoundedAge'
<1> SUFFICES ASSUME Inv, [Next]_vars PROVE BoundedAge'
  OBVIOUS
<1>T. TypeOK /\ TypeOK' /\ BoundedAge
  BY TypeStep DEF Inv
<1>G. ASSUME NEW c \in Callers PROVE got[c] \in Nat /\ got[c] <= WriteDelay
  BY <1>T, Bounds DEF TypeOK
<1>1. ASSUME NEW c \in Callers, WriteStale(c) PROVE BoundedAge'
  BY <1>1, <1>G, <1>T, StaleWritten, Bounds DEF BoundedAge
<1>2. ASSUME NEW c \in Callers, WriteFresh(c) PROVE BoundedAge'
  BY <1>2, <1>G, <1>T, FreshWritten, Bounds DEF BoundedAge
<1>3. CASE Tick
  <2>1. fresh.ttl \in Nat /\ stale.ttl \in Nat
    BY <1>T DEF TypeOK
  <2> QED BY <1>3, <2>1, <1>T, Aged DEF BoundedAge
<1>4. CASE UNCHANGED <<fresh, stale>>
  BY <1>4, <1>T DEF BoundedAge
<1> QED BY <1>1, <1>2, <1>3, <1>4, <1>T, OtherSteps DEF Next, Serve

LEMMA Invariance == SafeSpec => []Inv
<1>1. Inv /\ [Next]_vars => Inv'
  BY TypeStep, BackedStep, FallbackStep, AgeStep DEF Inv
<1> QED BY InitInv, <1>1, PTL DEF SafeSpec

-----------------------------------------------------------------------------
(* A call sends at most Attempts requests, and the breaker is open exactly *)
(* from the failure that reaches the threshold (adapters.py:32).           *)
THEOREM TypeCorrect == SafeSpec => []TypeOK
<1>1. Inv => TypeOK
  BY DEF Inv
<1> QED BY Invariance, <1>1, PTL

(* Whatever the number of concurrent fills and however their writes fail,  *)
(* airports:fresh never outlives airports:stale (service.py:41).           *)
THEOREM FallbackOutlivesFresh == SafeSpec => []FreshHasFallback
<1>1. Inv => FreshHasFallback
  BY DEF Inv
<1> QED BY Invariance, <1>1, PTL

(* No copy is served beyond its time to live, however slowly a call writes *)
(* the catalogue it got (service.py:41).                                   *)
THEOREM CopiesAgeBounded == SafeSpec => []BoundedAge
<1>1. Inv => BoundedAge
  BY DEF Inv
<1> QED BY Invariance, <1>1, PTL

(* An open circuit starts no request, for any number of callers            *)
(* (adapters.py:32).                                                       *)
THEOREM OpenCircuitIsQuiet == SafeSpec => OpenCircuitDrains
<1>1. TypeOK /\ [Next]_vars =>
        [Opened => \A c \in Callers : pc'[c] = "request" => pc[c] = "request"]_vars
  <2> SUFFICES ASSUME TypeOK, Next, Opened, NEW d \in Callers, pc'[d] = "request"
               PROVE  pc[d] = "request"
    OBVIOUS
  <2>1. ASSUME NEW c \in Callers, Begin(c) PROVE pc[d] = "request"
    BY <2>1 DEF TypeOK, Begin, GoTo
  <2>2. ASSUME NEW c \in Callers, ReadFresh(c) PROVE pc[d] = "request"
    BY <2>2 DEF TypeOK, ReadFresh, GoTo, Answer
  <2>3. ASSUME NEW c \in Callers, Respond(c) \/ FailTransiently(c) \/ FailForever(c) \/ FailUnread(c)
        PROVE  pc[d] = "request"
    BY <2>3 DEF TypeOK, Respond, FailTransiently, FailForever, FailUnread, GoTo, Answer
  <2>4. ASSUME NEW c \in Callers, ReadStale(c) \/ WriteStale(c) \/ WriteFresh(c)
        PROVE  pc[d] = "request"
    BY <2>4 DEF TypeOK, ReadStale, WriteStale, WriteFresh, GoTo, Answer
  <2>5. CASE ProviderFlips \/ Restart \/ Tick
    BY <2>5 DEF ProviderFlips, Restart, Tick
  <2> QED BY <2>1, <2>2, <2>3, <2>4, <2>5 DEF Next, Serve
<1> QED BY TypeCorrect, <1>1, PTL DEF SafeSpec, OpenCircuitDrains

-----------------------------------------------------------------------------
(* The calls that have a request under way, or are about to retry one.     *)
Asking == {c \in Callers : pc[c] = "request"}

Paid == Opened => /\ Asking' \subseteq Asking
                  /\ rest' > rest => Asking' # Asking
ReopeningIsPaid == [][Paid]_vars

(* While the circuit is open no call joins those that ask the provider,    *)
(* and the recovery time starts again only when one of them fails and      *)
(* leaves.  So it restarts at most as often as calls were under way when   *)
(* it opened: the reason why CircuitRecovers holds, and the docs' 30 s are *)
(* at most postponed by late failures (adapters.py:32).                    *)
THEOREM LateFailuresRunOut == SafeSpec => ReopeningIsPaid
<1>1. TypeOK /\ [Next]_vars => [Paid]_vars
  <2> SUFFICES ASSUME TypeOK, Next PROVE Paid
    OBVIOUS
  <2> SUFFICES ASSUME Opened PROVE /\ Asking' \subseteq Asking
                                   /\ rest' > rest => Asking' # Asking
    BY DEF Paid
  <2>I. pc \in [Callers -> Labels] /\ rest \in Nat /\ Recovery \in Nat
    BY BoundsAssumption DEF TypeOK
  <2>K. UNCHANGED rest => ~ (rest' > rest)
    BY <2>I
  (* A failure may start the recovery time again, and ends a request.      *)
  <2>1. ASSUME NEW c \in Callers, pc[c] = "request", pc'[c] # "request",
               \A d \in Callers : d # c => pc'[d] = pc[d]
        PROVE  Asking' \subseteq Asking /\ Asking' # Asking
    BY <2>1 DEF Asking
  <2>2. ASSUME Asking' \subseteq Asking, UNCHANGED rest
        PROVE  Asking' \subseteq Asking /\ (rest' > rest => Asking' # Asking)
    BY <2>2, <2>K
  <2>3. ASSUME NEW c \in Callers, Begin(c) \/ ReadFresh(c) \/ ReadStale(c) \/ WriteStale(c)
                                  \/ WriteFresh(c)
        PROVE  Asking' \subseteq Asking /\ UNCHANGED rest
    <3>1. pc'[c] # "request" /\ \A d \in Callers : d # c => pc'[d] = pc[d]
      BY <2>3, <2>I DEF Begin, ReadFresh, ReadStale, WriteStale, WriteFresh, GoTo, Answer
    <3>2. UNCHANGED rest
      BY <2>3 DEF Begin, ReadFresh, ReadStale, WriteStale, WriteFresh, breakerVars
    <3> QED BY <3>1, <3>2 DEF Asking
  <2>4. ASSUME NEW c \in Callers, Respond(c) \/ FailForever(c) \/ FailUnread(c)
        PROVE  Asking' \subseteq Asking /\ Asking' # Asking
    <3>1. pc[c] = "request" /\ pc'[c] # "request" /\ \A d \in Callers : d # c => pc'[d] = pc[d]
      BY <2>4, <2>I DEF Respond, FailForever, FailUnread, GoTo, Answer
    <3> QED BY <3>1, <2>1
  <2>5. ASSUME NEW c \in Callers, FailTransiently(c)
        PROVE  Asking' \subseteq Asking /\ (rest' > rest => Asking' # Asking)
    <3>1. CASE tries[c] + 1 < Attempts
      <4>1. pc' = pc /\ UNCHANGED rest
        BY <2>5, <3>1, <2>I DEF FailTransiently, GoTo, breakerVars
      <4> QED BY <4>1, <2>K DEF Asking
    <3>2. CASE ~ (tries[c] + 1 < Attempts)
      <4>1. pc[c] = "request" /\ pc'[c] # "request" /\ \A d \in Callers : d # c => pc'[d] = pc[d]
        BY <2>5, <3>2, <2>I DEF FailTransiently, GoTo
      <4> QED BY <4>1, <2>1
    <3> QED BY <3>1, <3>2
  <2>6. CASE ProviderFlips
    BY <2>6, <2>K DEF ProviderFlips, breakerVars, Asking
  <2>7. CASE Restart
    <3>1. Asking' = {} /\ ~ (rest' > rest)
      BY <2>7, <2>I DEF Restart, Asking
    <3> QED BY <3>1
  <2>8. CASE Tick
    <3>1. UNCHANGED pc /\ ~ (rest' > rest)
      BY <2>8, <2>I DEF Tick
    <3> QED BY <3>1 DEF Asking
  <2> QED BY <2>2, <2>3, <2>4, <2>5, <2>6, <2>7, <2>8 DEF Next, Serve
<1> QED BY TypeCorrect, <1>1, PTL DEF SafeSpec, ReopeningIsPaid

(* The steps a call still has before it, the retries it has left included. *)
Left(c) == CASE pc[c] = "idle" -> 0
             [] pc[c] = "writeFresh" -> 1
             [] pc[c] \in {"writeStale", "readStale"} -> 2
             [] pc[c] = "request" -> 2 + (Attempts - tries[c])
             [] OTHER -> Attempts + 3

Advances == \A c \in Callers :
              pc[c] # "idle" /\ (pc'[c] # pc[c] \/ tries'[c] # tries[c]) => Left(c)' < Left(c)
CallsOnlyAdvance == [][Advances]_vars

(* A call under way never goes back: each of its steps uses up one of the  *)
(* at most Attempts + 3 it has, so neither the retries nor the fallback    *)
(* can loop, whatever the provider, Redis and the circuit do               *)
(* (adapters.py:103).                                                      *)
THEOREM CallsNeverLoop == SafeSpec => CallsOnlyAdvance
<1>1. TypeOK /\ [Next]_vars => [Advances]_vars
  <2> SUFFICES ASSUME TypeOK, Next, NEW d \in Callers, pc[d] # "idle",
                      pc'[d] # pc[d] \/ tries'[d] # tries[d]
               PROVE  Left(d)' < Left(d)
    BY DEF Advances
  <2>I. /\ pc \in [Callers -> Labels] /\ Attempts \in Nat \ {0}
        /\ tries \in [Callers -> 0..(Attempts - 1)]
    BY BoundsAssumption DEF TypeOK
  <2>A. tries[d] \in 0..(Attempts - 1)
    BY <2>I
  <2> USE DEF Left
  (* Only the steps of a call move it.                                     *)
  <2>1. ASSUME NEW c \in Callers, Begin(c) PROVE FALSE
    BY <2>1, <2>I DEF Begin, GoTo
  <2>2. CASE ProviderFlips \/ Tick
    BY <2>2 DEF ProviderFlips, Tick
  <2>3. CASE Restart
    <3>1. pc'[d] = "idle"
      BY <2>3 DEF Restart
    <3>2. Left(d) > 0
      BY <2>A, <2>I
    <3> QED BY <3>1, <3>2
  <2>4. ASSUME NEW c \in Callers, Serve(c) PROVE Left(d)' < Left(d)
    <3>1. c = d
      BY <2>4, <2>I DEF Serve, ReadFresh, Respond, FailTransiently, FailForever, FailUnread,
         ReadStale, WriteStale, WriteFresh, GoTo, Answer
    <3>2. CASE ReadFresh(c)
      <4>1. pc[d] = "readFresh"
        BY <3>1, <3>2 DEF ReadFresh
      <4>2. \/ pc'[d] \in {"idle", "readStale"}
            \/ pc'[d] = "request" /\ tries'[d] = tries[d]
        BY <3>1, <3>2, <2>I DEF ReadFresh, GoTo, Answer
      <4> QED BY <4>1, <4>2, <2>A, <2>I
    <3>3. CASE Respond(c) \/ FailForever(c) \/ FailUnread(c)
      <4>1. pc[d] = "request" /\ pc'[d] \in {"writeStale", "readStale", "idle"}
        BY <3>1, <3>3, <2>I DEF Respond, FailForever, FailUnread, GoTo, Answer
      <4> QED BY <4>1, <2>A, <2>I
    <3>4. CASE FailTransiently(c)
      <4>1. CASE tries[c] + 1 < Attempts
        <5>1. pc[d] = "request" /\ pc'[d] = "request" /\ tries'[d] = tries[d] + 1
          BY <3>1, <3>4, <4>1, <2>I DEF FailTransiently, GoTo
        <5> QED BY <5>1, <2>A, <2>I
      <4>2. CASE ~ (tries[c] + 1 < Attempts)
        <5>1. pc[d] = "request" /\ pc'[d] = "readStale"
          BY <3>1, <3>4, <4>2, <2>I DEF FailTransiently, GoTo
        <5> QED BY <5>1, <2>A, <2>I
      <4> QED BY <4>1, <4>2
    <3>5. CASE ReadStale(c) \/ WriteStale(c) \/ WriteFresh(c)
      <4>1. \/ pc[d] \in {"readStale", "writeStale"} /\ pc'[d] \in {"idle", "writeFresh"}
            \/ pc[d] = "writeFresh" /\ pc'[d] = "idle"
        BY <3>1, <3>5, <2>I DEF ReadStale, WriteStale, WriteFresh, GoTo, Answer
      <4> QED BY <4>1
    <3> QED BY <2>4, <3>2, <3>3, <3>4, <3>5 DEF Serve
  <2> QED BY <2>1, <2>2, <2>3, <2>4 DEF Next
<1> QED BY TypeCorrect, <1>1, PTL DEF SafeSpec, CallsOnlyAdvance
=============================================================================
