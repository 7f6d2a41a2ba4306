---------------------------- MODULE GatewayProofs ----------------------------
(***************************************************************************)
(* Proofs about Gateway, for any number of callers, any limits and any     *)
(* length of a window.                                                     *)
(*                                                                         *)
(* While the observer watches, the requests let in belong to the window    *)
(* that was open when it began, or to that one and the next; the next one  *)
(* outlasts the observer, since its counter got the whole time to live     *)
(* later than the observer began.                                          *)
(***************************************************************************)
EXTENDS Gateway, TLAPS

Counted == Smaller(count[watched], Limit(watched))

OneWindow == seen <= Counted
Between == count[watched] = 0 /\ seen <= Limit(watched)
SecondWindow == /\ count[watched] > 0 /\ ttl[watched] >= watch
                /\ seen <= Limit(watched) + Counted

Inv ==
  /\ TypeOK
  /\ watch > 0 => OneWindow \/ Between \/ SecondWindow
  /\ AtMostTwoWindows

LEMMA Bounds ==
  /\ Window \in Nat \ {0} /\ TokenLife \in Nat \ {0}
  /\ \A k \in Keys : Limit(k) \in Nat \ {0}
  BY GatewayAssumption DEF Keys, Limit

LEMMA InitInv == Init => Inv
<1> SUFFICES ASSUME Init PROVE Inv
  OBVIOUS
<1>1. /\ count \in [Keys -> Nat] /\ ttl \in [Keys -> 0..Window]
      /\ \A k \in Keys : count[k] <= Limit(k) + 1 /\ (count[k] = 0 <=> ttl[k] = 0)
  BY Bounds DEF Init
<1>2. /\ pc \in [Callers -> Labels] /\ kind \in [Callers -> Kinds]
      /\ session \in [Callers -> 0..TokenLife] /\ answer \in [Callers -> Statuses]
  BY Bounds DEF Init, Labels, Kinds, Statuses
<1>3. watched \in Keys /\ watch = 0 /\ seen = 0 /\ watch \in 0..Window
  BY Bounds DEF Init, Keys
<1>4. AtMostTwoWindows
  BY <1>3, Bounds DEF AtMostTwoWindows
<1> QED BY <1>1, <1>2, <1>3, <1>4 DEF Inv, TypeOK

(* The parts of the state that belong to the requests.                     *)
RequestTypes ==
  /\ pc \in [Callers -> Labels] /\ kind \in [Callers -> Kinds]
  /\ session \in [Callers -> 0..TokenLife] /\ answer \in [Callers -> Statuses]

(* The parts that belong to the limiter.                                   *)
LimiterTypes ==
  /\ count \in [Keys -> Nat] /\ ttl \in [Keys -> 0..Window]
  /\ \A k \in Keys : count[k] <= Limit(k) + 1 /\ (count[k] = 0 <=> ttl[k] = 0)
  /\ watched \in Keys /\ watch \in 0..Window /\ seen \in Nat

LEMMA AllTypes == TypeOK <=> RequestTypes /\ LimiterTypes
  BY DEF TypeOK, RequestTypes, LimiterTypes

LEMMA RequestStep == TypeOK /\ [Next]_vars => RequestTypes'
<1> SUFFICES ASSUME TypeOK, [Next]_vars PROVE RequestTypes'
  OBVIOUS
<1>T. RequestTypes
  BY AllTypes
<1>1. ASSUME NEW c \in Callers, NEW l \in Labels, GoTo(c, l), UNCHANGED session
      PROVE  RequestTypes'
  BY <1>1, <1>T DEF GoTo, RequestTypes
<1>2. ASSUME NEW c \in Callers, NEW s \in Statuses, Answer(c, s),
             session' = session \/ session' = [session EXCEPT ![c] = TokenLife]
      PROVE  RequestTypes'
  <2>1. TokenLife \in 0..TokenLife /\ "idle" \in Labels /\ "direct" \in Kinds
    BY Bounds DEF Labels, Kinds
  <2>2. session' \in [Callers -> 0..TokenLife]
    BY <1>2, <2>1, <1>T DEF RequestTypes
  <2> QED BY <1>2, <2>1, <2>2, <1>T DEF Answer, RequestTypes
<1>3. ASSUME NEW c \in Callers, Send(c) PROVE RequestTypes'
  <2>1. PICK k \in Kinds : kind' = [kind EXCEPT ![c] = k]
    BY <1>3 DEF Send
  <2> QED BY <1>3, <2>1, <1>T DEF Send, RequestTypes, Labels, Statuses
<1>4. ASSUME NEW c \in Callers,
             \/ Allow(c) \/ Refuse(c) \/ LimiterFails(c) \/ Login(c) \/ Authenticate(c)
             \/ Serve(c) \/ ServeInner(c) \/ UpstreamFails(c) \/ Crash(c)
      PROVE  RequestTypes'
  <2>1. \/ \E l \in Labels : GoTo(c, l) /\ UNCHANGED session
        \/ \E s \in Statuses : Answer(c, s) /\ (session' = session
                                                \/ session' = [session EXCEPT ![c] = TokenLife])
    BY <1>4 DEF Allow, Refuse, LimiterFails, Login, Authenticate, Serve, ServeInner,
                UpstreamFails, Crash, Labels, Statuses
  <2> QED BY <2>1, <1>1, <1>2
<1>5. CASE Tick
  <2>1. \A c \in Callers : Less(session[c]) \in 0..TokenLife
    BY <1>T, Bounds DEF RequestTypes, Less
  <2> QED BY <1>5, <2>1, <1>T DEF Tick, RequestTypes
<1>6. CASE \E k \in Keys : Watch(k) \/ LoseCounter(k)
  BY <1>6, <1>T DEF Watch, LoseCounter, RequestTypes
<1>7. CASE UNCHANGED vars \/ \E c \in Callers : Recount(c)
  BY <1>7, <1>T DEF vars, RequestTypes, Recount
<1> QED BY <1>3, <1>4, <1>5, <1>6, <1>7 DEF Next

(* What the script does to a counter.                                      *)
LEMMA Counting ==
  ASSUME LimiterTypes, NEW k \in Keys, Count(k)
  PROVE  /\ count' \in [Keys -> Nat] /\ ttl' \in [Keys -> 0..Window]
         /\ \A j \in Keys : count'[j] <= Limit(j) + 1 /\ (count'[j] = 0 <=> ttl'[j] = 0)
         /\ \A j \in Keys \ {k} : count'[j] = count[j] /\ ttl'[j] = ttl[j]
         /\ count'[k] = Smaller(count[k] + 1, Limit(k) + 1)
         /\ ttl'[k] = IF count[k] = 0 THEN Window ELSE ttl[k]
<1>1. /\ count' = [count EXCEPT ![k] = Smaller(count[k] + 1, Limit(k) + 1)]
      /\ ttl' = [ttl EXCEPT ![k] = IF count[k] = 0 THEN Window ELSE ttl[k]]
  BY DEF Count
<1>2. Limit(k) \in Nat \ {0} /\ count[k] \in Nat /\ Window \in Nat \ {0} /\ ttl[k] \in 0..Window
  BY Bounds DEF LimiterTypes
<1>3. /\ Smaller(count[k] + 1, Limit(k) + 1) \in Nat \ {0}
      /\ Smaller(count[k] + 1, Limit(k) + 1) <= Limit(k) + 1
      /\ (IF count[k] = 0 THEN Window ELSE ttl[k]) \in 0..Window
      /\ (IF count[k] = 0 THEN Window ELSE ttl[k]) # 0
  BY <1>2 DEF Smaller, LimiterTypes
<1>4. /\ count' \in [Keys -> Nat] /\ ttl' \in [Keys -> 0..Window]
      /\ count'[k] = Smaller(count[k] + 1, Limit(k) + 1)
      /\ ttl'[k] = IF count[k] = 0 THEN Window ELSE ttl[k]
      /\ \A j \in Keys \ {k} : count'[j] = count[j] /\ ttl'[j] = ttl[j]
  BY <1>1, <1>3 DEF LimiterTypes
<1>5. \A j \in Keys : count'[j] <= Limit(j) + 1 /\ (count'[j] = 0 <=> ttl'[j] = 0)
  BY <1>3, <1>4 DEF LimiterTypes
<1> QED BY <1>4, <1>5

Watching == watch > 0 => OneWindow \/ Between \/ SecondWindow

(* The script keeps the account, and lets the observer see one more only   *)
(* within the limit.                                                       *)
LEMMA CountStep ==
  ASSUME LimiterTypes, Watching, NEW k \in Keys, Count(k), UNCHANGED <<watched, watch>>,
         \/ seen' = seen
         \/ seen' = seen + 1 /\ watched = k /\ count'[k] <= Limit(k)
  PROVE  Watching'
<1> SUFFICES ASSUME watch > 0 PROVE (OneWindow \/ Between \/ SecondWindow)'
  BY DEF Watching
<1> DEFINE L == Limit(watched)
           n == count[watched]
           m == count'[watched]
<1>1. /\ L \in Nat \ {0} /\ n \in Nat /\ m \in Nat /\ seen \in Nat /\ watched \in Keys
      /\ Window \in Nat /\ watch \in 0..Window /\ ttl[watched] \in 0..Window
  BY Bounds, Counting DEF LimiterTypes
<1>2. CASE watched # k
  <2>1. m = n /\ ttl'[watched] = ttl[watched] /\ seen' = seen
    BY <1>1, <1>2, Counting
  <2> QED BY <2>1 DEF Watching, OneWindow, Between, SecondWindow, Counted, Limit
<1>3. CASE watched = k
  <2>1. /\ m = Smaller(n + 1, L + 1)
        /\ ttl'[watched] = IF n = 0 THEN Window ELSE ttl[watched]
    BY <1>3, Counting
  <2>2. seen' = seen \/ (seen' = seen + 1 /\ m <= L)
    BY <1>3
  <2>3. /\ OneWindow' <=> seen' <= Smaller(m, L)
        /\ SecondWindow' <=> m > 0 /\ ttl'[watched] >= watch /\ seen' <= L + Smaller(m, L)
    BY DEF OneWindow, SecondWindow, Counted, Limit
  <2>4. /\ OneWindow <=> seen <= Smaller(n, L)
        /\ Between <=> n = 0 /\ seen <= L
        /\ SecondWindow <=> n > 0 /\ ttl[watched] >= watch /\ seen <= L + Smaller(n, L)
    BY DEF OneWindow, Between, SecondWindow, Counted
  <2> HIDE DEF L, n, m
  <2>5. CASE OneWindow
    BY <1>1, <2>1, <2>2, <2>3, <2>4, <2>5 DEF Smaller
  <2>6. CASE Between
    BY <1>1, <2>1, <2>2, <2>3, <2>4, <2>6 DEF Smaller
  <2>7. CASE SecondWindow
    BY <1>1, <2>1, <2>2, <2>3, <2>4, <2>7 DEF Smaller
  <2> QED BY <2>5, <2>6, <2>7 DEF Watching
<1> QED BY <1>2, <1>3

(* What the account says is within two limits.                             *)
LEMMA AccountIsBounded ==
  ASSUME LimiterTypes, Watching, watch > 0
  PROVE  seen <= 2 * Limit(watched)
<1>1. Limit(watched) \in Nat /\ count[watched] \in Nat /\ seen \in Nat
  BY Bounds DEF LimiterTypes
<1> QED BY <1>1 DEF Watching, OneWindow, Between, SecondWindow, Counted, Smaller

LEMMA InvStep == Inv /\ [Next]_vars => Inv'
<1> SUFFICES ASSUME Inv, [Next]_vars PROVE Inv'
  OBVIOUS
<1>T. TypeOK /\ RequestTypes' /\ LimiterTypes /\ Watching /\ AtMostTwoWindows
  BY RequestStep, AllTypes DEF Inv, Watching
<1>B. /\ Window \in Nat \ {0} /\ Limit(watched) \in Nat \ {0} /\ count[watched] \in Nat
      /\ watch \in 0..Window /\ ttl[watched] \in 0..Window /\ seen \in Nat /\ watched \in Keys
      /\ count[watched] = 0 <=> ttl[watched] = 0
  BY <1>T, Bounds DEF LimiterTypes
<1>S. SUFFICES LimiterTypes' /\ Watching' /\ AtMostTwoWindows'
  BY <1>T DEF Inv, Watching, TypeOK, RequestTypes, LimiterTypes
<1>U. ASSUME UNCHANGED <<count, ttl, watched, watch, seen>>
      PROVE  LimiterTypes' /\ Watching' /\ AtMostTwoWindows'
  BY <1>U, <1>T DEF LimiterTypes, Watching, OneWindow, Between, SecondWindow, Counted, Limit,
                    AtMostTwoWindows
<1>C. ASSUME NEW k \in Keys, Count(k), UNCHANGED <<watched, watch>>,
             \/ seen' = seen
             \/ seen' = seen + 1 /\ watched = k /\ watch > 0 /\ count'[k] <= Limit(k)
      PROVE  LimiterTypes' /\ Watching' /\ AtMostTwoWindows'
  <2>1. LimiterTypes'
    BY <1>T, <1>B, <1>C, Counting DEF LimiterTypes
  <2>2. Watching'
    BY <1>T, <1>C, CountStep
  <2>3. CASE watch > 0
    <3>1. Limit(watched) \in Nat /\ count'[watched] \in Nat /\ seen' \in Nat
      BY <1>B, <2>1, <1>C DEF LimiterTypes
    <3>2. Watching' => (seen' <= Smaller(count'[watched], Limit(watched))
                        \/ seen' <= Limit(watched)
                        \/ seen' <= Limit(watched) + Smaller(count'[watched], Limit(watched)))
      BY <1>C, <2>3 DEF Watching, OneWindow, Between, SecondWindow, Counted, Limit
    <3>3. seen' <= 2 * Limit(watched)
      BY <2>2, <3>1, <3>2 DEF Smaller
    <3> QED BY <1>C, <2>1, <2>2, <3>3 DEF AtMostTwoWindows, Limit
  <2>4. CASE ~ watch > 0
    BY <1>C, <1>T, <2>1, <2>2, <2>4 DEF AtMostTwoWindows, Limit
  <2> QED BY <2>3, <2>4
<1>K. ASSUME NEW c \in Callers PROVE Key(c) \in Keys
  BY DEF Key, Keys
<1>1. ASSUME NEW c \in Callers, Allow(c) PROVE LimiterTypes' /\ Watching' /\ AtMostTwoWindows'
  <2>1. /\ Count(Key(c)) /\ UNCHANGED <<watched, watch>>
        /\ \/ seen' = seen
           \/ seen' = seen + 1 /\ watched = Key(c) /\ watch > 0 /\ count'[Key(c)] <= Limit(Key(c))
    BY <1>1 DEF Allow, Noticed
  <2> QED BY <1>C, <1>K, <2>1
<1>2. ASSUME NEW c \in Callers, Refuse(c) \/ LimiterFails(c) \/ Recount(c)
      PROVE  LimiterTypes' /\ Watching' /\ AtMostTwoWindows'
  <2>1. (Count(Key(c)) \/ UNCHANGED <<count, ttl>>) /\ UNCHANGED <<watched, watch, seen>>
    BY <1>2 DEF Refuse, LimiterFails, Recount, observer
  <2> QED BY <1>C, <1>U, <1>K, <2>1
<1>3. ASSUME NEW c \in Callers,
             \/ Send(c) \/ Login(c) \/ Authenticate(c) \/ Serve(c) \/ ServeInner(c)
             \/ UpstreamFails(c) \/ Crash(c)
      PROVE  LimiterTypes' /\ Watching' /\ AtMostTwoWindows'
  <2>1. UNCHANGED <<count, ttl, watched, watch, seen>>
    BY <1>3 DEF Send, Login, Authenticate, Serve, ServeInner, UpstreamFails, Crash, limiter, observer
  <2> QED BY <1>U, <2>1
<1>4. ASSUME NEW k \in Keys, Watch(k) PROVE LimiterTypes' /\ Watching' /\ AtMostTwoWindows'
  <2>1. /\ watched' = k /\ watch' = Window /\ seen' = 0 /\ UNCHANGED <<count, ttl>>
    BY <1>4 DEF Watch
  <2>2. Limit(k) \in Nat \ {0} /\ count[k] \in Nat
    BY <1>T, Bounds DEF LimiterTypes
  <2>3. LimiterTypes'
    BY <1>T, <1>B, <2>1 DEF LimiterTypes
  <2>4. Watching'
    BY <2>1, <2>2 DEF Watching, OneWindow, Counted, Smaller, Limit
  <2>5. AtMostTwoWindows'
    BY <2>1, <2>2 DEF AtMostTwoWindows, Limit
  <2> QED BY <2>3, <2>4, <2>5
<1>5. ASSUME NEW k \in Keys, LoseCounter(k) PROVE LimiterTypes' /\ Watching' /\ AtMostTwoWindows'
  <2>1. /\ count' = [count EXCEPT ![k] = 0] /\ ttl' = [ttl EXCEPT ![k] = 0]
        /\ watch' = (IF watched = k THEN 0 ELSE watch) /\ UNCHANGED <<watched, seen>>
    BY <1>5 DEF LoseCounter
  <2>2. LimiterTypes'
    <3>1. count' \in [Keys -> Nat] /\ ttl' \in [Keys -> 0..Window]
      BY <1>T, <1>B, <2>1 DEF LimiterTypes
    <3>2. \A j \in Keys : \/ count'[j] = count[j] /\ ttl'[j] = ttl[j]
                          \/ count'[j] = 0 /\ ttl'[j] = 0
      BY <1>T, <2>1 DEF LimiterTypes
    <3>3. \A j \in Keys : count'[j] <= Limit(j) + 1 /\ (count'[j] = 0 <=> ttl'[j] = 0)
      BY <1>T, <3>2, Bounds DEF LimiterTypes
    <3>4. watched' \in Keys /\ watch' \in 0..Window /\ seen' \in Nat
      BY <1>B, <2>1
    <3> QED BY <3>1, <3>3, <3>4 DEF LimiterTypes, Limit
  <2>3. watched # k => count'[watched] = count[watched] /\ ttl'[watched] = ttl[watched]
    BY <1>T, <1>B, <2>1 DEF LimiterTypes
  <2>4. Watching'
    BY <1>T, <1>B, <2>1, <2>3 DEF Watching, OneWindow, Between, SecondWindow, Counted, Limit
  <2>5. AtMostTwoWindows'
    BY <1>T, <2>1 DEF AtMostTwoWindows, Limit
  <2> QED BY <2>2, <2>4, <2>5
<1>6. CASE Tick
  <2>1. /\ count' = [k \in Keys |-> IF ttl[k] = 1 THEN 0 ELSE count[k]]
        /\ ttl' = [k \in Keys |-> Less(ttl[k])]
        /\ watch' = Less(watch) /\ UNCHANGED <<watched, seen>>
    BY <1>6 DEF Tick
  <2>2. LimiterTypes'
    <3>1. \A k \in Keys :
            /\ (IF ttl[k] = 1 THEN 0 ELSE count[k]) \in Nat /\ Less(ttl[k]) \in 0..Window
            /\ (IF ttl[k] = 1 THEN 0 ELSE count[k]) <= Limit(k) + 1
            /\ (IF ttl[k] = 1 THEN 0 ELSE count[k]) = 0 <=> Less(ttl[k]) = 0
      BY <1>T, Bounds DEF LimiterTypes, Less
    <3>2. watch' \in 0..Window
      BY <1>B, <2>1 DEF Less
    <3> QED BY <1>T, <2>1, <3>1, <3>2 DEF LimiterTypes, Limit
  <2>3. /\ count'[watched] = (IF ttl[watched] = 1 THEN 0 ELSE count[watched])
        /\ ttl'[watched] = Less(ttl[watched])
    BY <1>B, <2>1
  <2>4. Watching'
    <3> SUFFICES ASSUME watch' > 0 PROVE (OneWindow \/ Between \/ SecondWindow)'
      BY DEF Watching
    <3> DEFINE L == Limit(watched)
               n == count[watched]
               m == count'[watched]
    <3>1. /\ OneWindow' <=> seen <= Smaller(m, L)
          /\ Between' <=> m = 0 /\ seen <= L
          /\ SecondWindow' <=> m > 0 /\ Less(ttl[watched]) >= Less(watch) /\ seen <= L + Smaller(m, L)
      BY <2>1, <2>3 DEF OneWindow, Between, SecondWindow, Counted, Limit
    <3>2. /\ OneWindow <=> seen <= Smaller(n, L)
          /\ Between <=> n = 0 /\ seen <= L
          /\ SecondWindow <=> n > 0 /\ ttl[watched] >= watch /\ seen <= L + Smaller(n, L)
      BY DEF OneWindow, Between, SecondWindow, Counted
    <3>3. watch > 1
      BY <1>B, <2>1 DEF Less
    <3>4. OneWindow \/ Between \/ SecondWindow
      BY <1>T, <1>B, <3>3 DEF Watching
    <3>5. L \in Nat \ {0} /\ n \in Nat /\ m = (IF ttl[watched] = 1 THEN 0 ELSE n)
      BY <1>B, <2>3
    <3> HIDE DEF L, n, m
    <3> QED BY <1>B, <3>1, <3>2, <3>3, <3>4, <3>5 DEF Smaller, Less
  <2>5. AtMostTwoWindows'
    BY <1>T, <2>1 DEF AtMostTwoWindows, Limit
  <2> QED BY <2>2, <2>4, <2>5
<1>7. CASE UNCHANGED vars
  BY <1>7, <1>U DEF vars, limiter, observer
<1> QED BY <1>1, <1>2, <1>3, <1>4, <1>5, <1>6, <1>7 DEF Next

LEMMA Invariance == SafeSpec => []Inv
  BY InitInv, InvStep, PTL DEF SafeSpec

-----------------------------------------------------------------------------
(* A counter has a time to live exactly while it counts, whatever fails    *)
(* (gateway adapters.py:59).                                               *)
THEOREM TypeCorrect == SafeSpec => []TypeOK
<1>1. Inv => TypeOK
  BY DEF Inv
<1> QED BY Invariance, <1>1, PTL

(* In no span of the length of a window are more than two limits let in,   *)
(* for any number of callers and gateways (gateway adapters.py:68).        *)
THEOREM TwoWindowsAtMost == SafeSpec => []AtMostTwoWindows
<1>1. Inv => AtMostTwoWindows
  BY DEF Inv
<1> QED BY Invariance, <1>1, PTL

-----------------------------------------------------------------------------
(* What QuotaReturns rests on, besides time passing: the window of a count *)
(* runs down, whatever is counted in it.                                   *)
RunsDown == \A k \in Keys : count[k] > 0 => /\ ttl'[k] <= ttl[k]
                                            /\ Tick => ttl'[k] < ttl[k]
WindowsRunDown == [][RunsDown]_vars

(* No request prolongs a window that is open: EXPIRE is sent with the      *)
(* first request only, so requests that insist while they are refused,     *)
(* retries of the script and failures of Redis leave the end of the window *)
(* where it was, and every count has an end (main.py:87).                  *)
THEOREM RefusedRequestsDoNotProlong == SafeSpec => WindowsRunDown
<1>1. TypeOK /\ [Next]_vars => [RunsDown]_vars
  <2> SUFFICES ASSUME TypeOK, Next, NEW k \in Keys, count[k] > 0
               PROVE  ttl'[k] <= ttl[k] /\ (Tick => ttl'[k] < ttl[k])
    BY DEF RunsDown
  <2>T. /\ count \in [Keys -> Nat] /\ ttl \in [Keys -> 0..Window] /\ Window \in Nat
        /\ ttl[k] \in 0..Window /\ ttl[k] # 0
    BY GatewayAssumption DEF TypeOK
  <2>2. ASSUME NEW j \in Keys, Count(j) PROVE ttl'[k] = ttl[k]
    BY <2>2, <2>T DEF Count
  <2>3. ASSUME Tick PROVE ttl'[k] < ttl[k]
    <3>1. ttl'[k] = Less(ttl[k])
      BY <2>3 DEF Tick
    <3> QED BY <3>1, <2>T DEF Less
  <2>4. ASSUME NEW c \in Callers, Allow(c) \/ Refuse(c) \/ LimiterFails(c) \/ Recount(c)
        PROVE  ttl'[k] = ttl[k]
    <3>1. Key(c) \in Keys
      BY DEF Key, Keys
    <3>2. Count(Key(c)) \/ UNCHANGED ttl
      BY <2>4 DEF Allow, Refuse, LimiterFails, Recount
    <3> QED BY <3>1, <3>2, <2>2
  <2>5. ASSUME NEW c \in Callers,
               \/ Send(c) \/ Login(c) \/ Authenticate(c) \/ Serve(c) \/ ServeInner(c)
               \/ UpstreamFails(c) \/ Crash(c)
        PROVE  ttl'[k] = ttl[k]
    BY <2>5 DEF Send, Login, Authenticate, Serve, ServeInner, UpstreamFails, Crash, limiter
  <2>6. ASSUME NEW j \in Keys, Watch(j) \/ LoseCounter(j)
        PROVE  ttl'[k] = ttl[k] \/ ttl'[k] = 0
    BY <2>6, <2>T DEF Watch, LoseCounter
  <2>7. ttl'[k] = ttl[k] \/ ttl'[k] = 0 \/ Tick
    BY <2>4, <2>5, <2>6 DEF Next
  <2>8. ttl'[k] <= ttl[k]
    <3>1. CASE Tick
      <4>1. ttl'[k] = Less(ttl[k])
        BY <3>1 DEF Tick
      <4> QED BY <4>1, <2>T DEF Less
    <3> QED BY <2>7, <2>T, <3>1
  <2> QED BY <2>3, <2>8
<1> QED BY TypeCorrect, <1>1, PTL DEF SafeSpec, WindowsRunDown
=============================================================================
