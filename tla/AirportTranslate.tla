-------------------------- MODULE AirportTranslate --------------------------
(***************************************************************************)
(* The coordinates of an airport record, from API Colombia's form to ours: *)
(* AirportColombiaAdapter.translate.  The provider swaps the axes of some  *)
(* records; the adapter restores a pair only when it can be nothing else   *)
(* than a Colombian place with its axes swapped.  A field that holds no    *)
(* number, or none of its axis, is null; an integer that no float can hold *)
(* raises OverflowError, which nothing on the way to the caller catches.   *)
(***************************************************************************)
EXTENDS Integers

CONSTANTS
  RawValues,   \* what a coordinate field may hold
  Null,        \* what float() refuses, and our "no coordinate"
  TooLarge,    \* an integer from 2^1024 on; the others are in Int
  NoAirport,
  Raised       \* what is left of a record whose translation raises

ASSUME NullAssumption == Null \notin Int
ASSUME TooLargeAssumption == TooLarge \notin Int
ASSUME RecordAssumption ==
  /\ NoAirport # Raised
  /\ {NoAirport, Raised} \cap
       [latitude : RawValues \cup {Null}, longitude : RawValues \cup {Null}] = {}

VARIABLES
  raw,         \* the coordinates of the provider's record
  airport      \* those of our record, NoAirport until it is translated or raised

vars == <<raw, airport>>

Pair == [latitude : RawValues, longitude : RawValues]

(* Mutant: 180 degrees for both axes.                                      *)
AnyDegree(v, bound) == IF v \in Int /\ -180 <= v /\ v <= 180 THEN v ELSE Null

(* coordinate(key, bound).                                                 *)
Coordinate(v, bound) == IF v \in Int /\ -bound <= v /\ v <= bound THEN v ELSE Null

(* Mutants: the box without its western edge; only one axis looked at.     *)
NarrowSwap(lat, lon) ==
  /\ lat # Null /\ lon # Null
  /\ -82 < lat /\ lat <= -66
  /\ -5 <= lon /\ lon <= 14

LatitudeOnly(lat, lon) == lat # Null /\ lon # Null /\ -82 <= lat /\ lat <= -66

(* A Colombian longitude in the place of the latitude, and the reverse.    *)
Swapped(lat, lon) ==
  /\ lat # Null /\ lon # Null
  /\ -82 <= lat /\ lat <= -66
  /\ -5 <= lon /\ lon <= 14

Translation(r) ==
  LET lat == Coordinate(r.latitude, 90)
      lon == Coordinate(r.longitude, 180)
  IN  IF Swapped(lat, lon) THEN [latitude |-> lon, longitude |-> lat]
                           ELSE [latitude |-> lat, longitude |-> lon]

Init == raw \in Pair /\ airport = NoAirport

(* float() raises OverflowError, which is no ValueError.                   *)
Overflows(r) == TooLarge \in {r.latitude, r.longitude}

Translate ==
  /\ airport = NoAirport
  /\ airport' = IF Overflows(raw) THEN Raised ELSE Translation(raw)
  /\ UNCHANGED raw

Spec == Init /\ [][Translate]_vars

-----------------------------------------------------------------------------
InWorld(lat, lon) == /\ lat \in Int /\ -90 <= lat /\ lat <= 90
                     /\ lon \in Int /\ -180 <= lon /\ lon <= 180

InColombia(lat, lon) == InWorld(lat, lon) /\ -5 <= lat /\ lat <= 14 /\ -82 <= lon /\ lon <= -66

(* An airport that is translated has coordinates of this world, or null.   *)
TypeOK ==
  /\ raw \in Pair
  /\ airport \in [latitude : (-90..90) \cup {Null}, longitude : (-180..180) \cup {Null}]
                 \cup {NoAirport, Raised}

(* A Colombian airport ends in its place, whichever way round the provider *)
(* has it.                                                                 *)
ColombiaIsRestored ==
  airport # NoAirport =>
    /\ InColombia(raw.latitude, raw.longitude) => airport = raw
    /\ InColombia(raw.longitude, raw.latitude) =>
         airport = [latitude |-> raw.longitude, longitude |-> raw.latitude]

(* Nothing is moved but into Colombia: "preserve correctly oriented        *)
(* records" (adapters.py:70).                                              *)
OthersStay ==
  airport # NoAirport /\ InWorld(raw.latitude, raw.longitude) /\ airport # raw =>
    InColombia(airport.latitude, airport.longitude)

(* Translating a record that is in our form already changes nothing.       *)
Idempotent == airport \notin {NoAirport, Raised} => Translation(airport) = airport
=============================================================================
