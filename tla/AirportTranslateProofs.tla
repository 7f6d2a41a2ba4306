----------------------- MODULE AirportTranslateProofs -----------------------
(***************************************************************************)
(* Proofs about AirportTranslate, for every pair of integers, not only for *)
(* the edges a run enumerates.                                             *)
(***************************************************************************)
EXTENDS AirportTranslate, TLAPS

USE NullAssumption, TooLargeAssumption, RecordAssumption

(* What coordinate() lets through.                                         *)
LEMMA CoordinateBound ==
  ASSUME NEW v, NEW bound \in Nat
  PROVE  /\ Coordinate(v, bound) \in (-bound..bound) \cup {Null}
         /\ Coordinate(v, bound) # Null => Coordinate(v, bound) = v /\ v \in Int
         /\ v \in -bound..bound => Coordinate(v, bound) = v
  BY DEF Coordinate

(* The two outcomes of a translation.                                      *)
LEMMA TranslationCases ==
  ASSUME NEW r \in Pair
  PROVE  LET lat == Coordinate(r.latitude, 90)
             lon == Coordinate(r.longitude, 180)
         IN  \/ /\ Swapped(lat, lon)
                /\ Translation(r) = [latitude |-> lon, longitude |-> lat]
             \/ /\ ~ Swapped(lat, lon)
                /\ Translation(r) = [latitude |-> lat, longitude |-> lon]
  BY DEF Translation

(* The coordinates of every translated airport are places of this world    *)
(* or null.                                                                *)
LEMMA TranslationType ==
  ASSUME NEW r \in Pair
  PROVE  Translation(r) \in [latitude : (-90..90) \cup {Null}, longitude : (-180..180) \cup {Null}]
<1> DEFINE lat == Coordinate(r.latitude, 90)
           lon == Coordinate(r.longitude, 180)
<1>1. lat \in (-90..90) \cup {Null} /\ lon \in (-180..180) \cup {Null}
  BY CoordinateBound
<1>2. Swapped(lat, lon) => lat \in -180..180 /\ lon \in -90..90
  BY <1>1 DEF Swapped
<1> QED BY <1>1, <1>2, TranslationCases

Inv == /\ TypeOK
       /\ airport # NoAirport => airport = IF Overflows(raw) THEN Raised ELSE Translation(raw)

LEMMA Invariance == Spec => []Inv
<1>1. Init => Inv
  BY DEF Init, Inv, TypeOK
<1>2. Inv /\ [Translate]_vars => Inv'
  BY TranslationType DEF Inv, TypeOK, Translate, vars
<1> QED BY <1>1, <1>2, PTL DEF Spec

(* Whatever the provider sends, an airport has coordinates of this world,  *)
(* or null (adapters.py:57), unless its translation raises.                *)
THEOREM TypeCorrect == Spec => []TypeOK
<1>1. Inv => TypeOK
  BY DEF Inv
<1> QED BY <1>1, Invariance, PTL

(* A Colombian airport ends in its place, whichever way round it came.     *)
THEOREM ColombianAirportsAreRestored == Spec => []ColombiaIsRestored
<1>1. ASSUME Inv, airport # NoAirport PROVE ColombiaIsRestored
  <2> DEFINE lat == Coordinate(raw.latitude, 90)
             lon == Coordinate(raw.longitude, 180)
  <2>1. /\ raw \in Pair
        /\ Overflows(raw) \/ airport = Translation(raw)
    BY <1>1 DEF Inv, TypeOK
  <2>2. ASSUME InWorld(raw.latitude, raw.longitude) \/ InWorld(raw.longitude, raw.latitude)
        PROVE  ~ Overflows(raw)
    BY <2>2 DEF InWorld, Overflows
  <2>3. ASSUME InColombia(raw.latitude, raw.longitude) PROVE airport = raw
    <3>1. lat = raw.latitude /\ lon = raw.longitude /\ ~ Swapped(lat, lon)
      BY <2>3, CoordinateBound DEF InColombia, InWorld, Swapped
    <3> QED BY <2>1, <2>2, <2>3, <3>1, TranslationCases DEF Pair, InColombia
  <2>4. ASSUME InColombia(raw.longitude, raw.latitude)
        PROVE  airport = [latitude |-> raw.longitude, longitude |-> raw.latitude]
    <3>1. lat = raw.latitude /\ lon = raw.longitude /\ Swapped(lat, lon)
      BY <2>4, CoordinateBound DEF InColombia, InWorld, Swapped
    <3> QED BY <2>1, <2>2, <2>4, <3>1, TranslationCases DEF InColombia
  <2> QED BY <2>3, <2>4 DEF ColombiaIsRestored
<1>2. Inv => ColombiaIsRestored
  BY <1>1 DEF ColombiaIsRestored
<1> QED BY <1>2, Invariance, PTL

(* Nothing is moved but into Colombia.                                     *)
THEOREM OtherAirportsStay == Spec => []OthersStay
<1>1. ASSUME Inv, airport # NoAirport, InWorld(raw.latitude, raw.longitude), airport # raw
      PROVE  InColombia(airport.latitude, airport.longitude)
  <2> DEFINE lat == Coordinate(raw.latitude, 90)
             lon == Coordinate(raw.longitude, 180)
  <2>1. raw \in Pair /\ airport = Translation(raw)
    BY <1>1 DEF Inv, TypeOK, InWorld, Overflows
  <2>2. lat = raw.latitude /\ lon = raw.longitude
    BY <1>1, CoordinateBound DEF InWorld
  <2>3. Swapped(lat, lon) /\ airport = [latitude |-> lon, longitude |-> lat]
    BY <1>1, <2>1, <2>2, TranslationCases DEF Pair
  <2> QED BY <1>1, <2>2, <2>3 DEF Swapped, InColombia, InWorld
<1>2. Inv => OthersStay
  BY <1>1 DEF OthersStay
<1> QED BY <1>2, Invariance, PTL

(* A record in our form is a fixed point of the translation.               *)
THEOREM TranslationIsIdempotent == Spec => []Idempotent
<1>1. ASSUME Inv, airport \notin {NoAirport, Raised} PROVE Translation(airport) = airport
  <2> DEFINE a == airport
             lat == Coordinate(raw.latitude, 90)
             lon == Coordinate(raw.longitude, 180)
  <2>1. raw \in Pair /\ a = Translation(raw)
    BY <1>1 DEF Inv, TypeOK
  <2>2. a \in [latitude : (-90..90) \cup {Null}, longitude : (-180..180) \cup {Null}]
    BY <2>1, TranslationType
  <2>3. Coordinate(a.latitude, 90) = a.latitude /\ Coordinate(a.longitude, 180) = a.longitude
    BY <2>2 DEF Coordinate
  <2>4. ~ Swapped(a.latitude, a.longitude)
    <3>1. lat \in (-90..90) \cup {Null} /\ lon \in (-180..180) \cup {Null}
      BY CoordinateBound
    <3> QED BY <2>1, <3>1, TranslationCases DEF Swapped
  <2> QED BY <2>2, <2>3, <2>4 DEF Translation
<1>2. Inv => Idempotent
  BY <1>1 DEF Idempotent
<1> QED BY <1>2, Invariance, PTL
=============================================================================
