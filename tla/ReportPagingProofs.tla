------------------------- MODULE ReportPagingProofs -------------------------
(***************************************************************************)
(* Proofs about ReportPaging, for any number of itineraries and any page   *)
(* size.                                                                   *)
(*                                                                         *)
(* The argument follows the rows the offset has passed: those with fewer   *)
(* than offset rows before them.  A page reads exactly the rows it passes, *)
(* a deletion or a late creation moves at most one row across the offset.  *)
(***************************************************************************)
EXTENDS ReportPaging, FiniteSetTheorems, TLAPS

RankIn(S, r) == Cardinality({s \in S : s < r})

Passed == {r \in live : RankIn(live, r) < offset}
Unread == {r \in steady : read[r] = 0}
Read == {r \in Rows : read[r] > 0}

(* Rows that will be read again, unless they go.                           *)
Ahead == {r \in live : read[r] > 0 /\ RankIn(live, r) >= offset}

TotalInv ==
  /\ TypeOK
  /\ pc = "page" => answer = "none" /\ offset <= high
  /\ TotalWasTrue

USE RowsAssumption, PageAssumption DEF Rows

LEMMA FiniteRows ==
  ASSUME TypeOK
  PROVE  /\ IsFiniteSet(Rows) /\ IsFiniteSet(live)
         /\ Size \in Nat /\ live \subseteq Rows
<1>1. IsFiniteSet(1..MaxRows)
  BY FS_Interval
<1>2. live \subseteq 1..MaxRows
  BY DEF TypeOK
<1> QED BY <1>1, <1>2, FS_Subset, FS_CardinalityType DEF Size

(* A creation and a deletion change the number of rows by one.             *)
LEMMA Sizes ==
  ASSUME TypeOK
  PROVE  /\ \A r \in creating : Cardinality(live \cup {r}) = Size + 1
         /\ \A r \in live : Cardinality(live \ {r}) = Size - 1
<1>1. IsFiniteSet(live)
  BY FiniteRows
<1>2. \A r \in creating : r \notin live
  BY DEF TypeOK
<1> QED BY <1>1, <1>2, FS_AddElement, FS_RemoveElement DEF Size

LEMMA InitTotal == Init => TotalInv
<1> SUFFICES ASSUME Init PROVE TotalInv
  OBVIOUS
<1>1. read \in [Rows -> Nat]
  BY DEF Init
<1>2. TypeOK
  BY <1>1 DEF Init, TypeOK
<1> QED BY <1>2 DEF Init, TotalInv, TotalWasTrue

(* What a page does.                                                       *)
LEMMA PageTypes ==
  ASSUME TypeOK, NEW skipped \in SUBSET live, NEW page \in SUBSET (live \ skipped),
         Selects(skipped, page), Extend(page)
  PROVE  /\ read' \in [Rows -> Nat]
         /\ Cardinality(page) \in Nat
         /\ Cardinality(page) = (IF offset < Size THEN Smaller(PageSize, Size - offset) ELSE 0)
         /\ offset' = offset + Cardinality(page)
<1>1. IsFiniteSet(page) /\ IsFiniteSet(skipped)
  BY FiniteRows, FS_Subset
<1>2. Cardinality(page) \in Nat /\ Cardinality(skipped) \in Nat
  BY <1>1, FS_CardinalityType
<1>3. read' \in [Rows -> Nat]
  BY DEF TypeOK, Extend
<1>4. offset \in Nat /\ Size \in Nat
  BY FiniteRows DEF TypeOK
<1> QED BY <1>2, <1>3, <1>4 DEF Selects, Extend, Smaller

LEMMA TypeStep == TypeOK /\ [Next]_vars => TypeOK'
<1> SUFFICES ASSUME TypeOK, [Next]_vars PROVE TypeOK'
  OBVIOUS
<1>S. Size \in Nat /\ live \subseteq Rows /\ IsFiniteSet(live) /\ low \in Nat /\ high \in Nat
  BY FiniteRows DEF TypeOK
<1>1. CASE Stamp
  <2>1. Size' = Size
    BY <1>1 DEF Stamp, Size
  <2> QED BY <1>1, <2>1 DEF Stamp, TypeOK, history, result
<1>2. ASSUME NEW r \in Rows, CommitCreate(r) PROVE TypeOK'
  <2>1. Size' = Size + 1
    BY <1>2, Sizes DEF CommitCreate, Size
  <2>2. CASE pc = "page"
    <3>1. /\ live' = live \cup {r} /\ creating' = creating \ {r} /\ r \in creating
          /\ UNCHANGED <<stamped, pc, read, offset, answer, steady, low, shifted>>
          /\ high' = IF Size + 1 > high THEN Size + 1 ELSE high
          /\ late' = late \/ late' = late + 1
      BY <1>2, <2>2 DEF CommitCreate, result
    <3>2. live' \subseteq 1..stamped' /\ creating' \subseteq 1..stamped' /\ live' \cap creating' = {}
      BY <3>1 DEF TypeOK
    <3>3. {low, high, shifted, late}' \subseteq Nat
      BY <1>S, <3>1 DEF TypeOK
    <3>4. steady' \subseteq live'
      BY <2>2, <3>1 DEF TypeOK
    <3>5. low' <= Size' /\ Size' <= high'
      BY <1>S, <2>1, <2>2, <3>1 DEF TypeOK
    <3> QED BY <3>1, <3>2, <3>3, <3>4, <3>5 DEF TypeOK
  <2>3. CASE pc # "page"
    BY <1>2, <1>S, <2>1, <2>3 DEF CommitCreate, TypeOK, result, history
  <2> QED BY <2>2, <2>3
<1>3. ASSUME NEW r \in Rows, GiveUp(r) PROVE TypeOK'
  <2>1. Size' = Size
    BY <1>3 DEF GiveUp, Size
  <2> QED BY <1>3, <2>1 DEF GiveUp, TypeOK, history, result
<1>4. ASSUME NEW r \in Rows, CommitDelete(r) PROVE TypeOK'
  <2>1. Size' = Size - 1
    BY <1>4, Sizes DEF CommitDelete, Size
  <2>2. Size' \in Nat
    <3>1. IsFiniteSet(live \ {r})
      BY <1>S, FS_RemoveElement
    <3> QED BY <3>1, <1>4, FS_CardinalityType DEF CommitDelete, Size
  <2>3. CASE pc = "page"
    <3>1. /\ live' = live \ {r}
          /\ UNCHANGED <<creating, stamped, pc, read, offset, answer, high, late>>
          /\ low' = (IF low < Size - 1 THEN low ELSE Size - 1)
          /\ steady' = steady \ {r}
          /\ shifted' = shifted \/ shifted' = shifted + 1
      BY <1>4, <2>3 DEF CommitDelete, result, Smaller
    <3>2. live' \subseteq 1..stamped' /\ creating' \subseteq 1..stamped' /\ live' \cap creating' = {}
      BY <3>1 DEF TypeOK
    <3>3. {low, high, shifted, late}' \subseteq Nat
      BY <1>S, <2>1, <2>2, <3>1 DEF TypeOK
    <3>4. steady' \subseteq live' /\ low' <= Size' /\ Size' <= high'
      BY <1>S, <2>1, <2>2, <2>3, <3>1 DEF TypeOK
    <3>5. steady' \subseteq Rows
      BY <3>1 DEF TypeOK
    <3> QED BY <3>1, <3>2, <3>3, <3>4, <3>5 DEF TypeOK
  <2>4. CASE pc # "page"
    BY <1>4, <1>S, <2>1, <2>4 DEF CommitDelete, TypeOK, result, history
  <2> QED BY <2>3, <2>4
<1>5. CASE Begin
  <2>1. Size' = Size /\ read' \in [Rows -> Nat]
    BY <1>5 DEF Begin, Size, writes
  <2> QED BY <1>5, <1>S, <2>1 DEF Begin, TypeOK, writes
<1>6. CASE FetchPage
  <2>1. Size' = Size
    BY <1>6 DEF FetchPage, Size, writes
  <2>2. read' \in [Rows -> Nat] /\ offset' \in Nat
    <3>1. PICK skipped \in SUBSET live : \E page \in SUBSET (live \ skipped) :
                 Selects(skipped, page) /\ Extend(page)
      BY <1>6 DEF FetchPage
    <3>2. PICK page \in SUBSET (live \ skipped) : Selects(skipped, page) /\ Extend(page)
      BY <3>1
    <3>3. offset \in Nat
      BY DEF TypeOK
    <3> QED BY <3>2, <3>3, PageTypes
  <2>3. UNCHANGED <<live, creating, stamped, steady, low, high, shifted, late>>
    BY <1>6 DEF FetchPage, writes, history
  <2>4. pc' \in {"idle", "page"} /\ answer' \in {"none", "report", "unavailable"} /\ pc = "page"
    BY <1>6 DEF FetchPage, TypeOK
  <2> QED BY <2>1, <2>2, <2>3, <2>4 DEF TypeOK
<1>7. CASE Fail
  <2>1. Size' = Size
    BY <1>7 DEF Fail, Size, writes
  <2> QED BY <1>7, <2>1 DEF Fail, TypeOK, writes, history, result
<1>8. CASE UNCHANGED vars
  <2>1. Size' = Size
    BY <1>8 DEF vars, Size, writes
  <2> QED BY <1>8, <2>1 DEF vars, TypeOK, writes, history, result
<1> QED BY <1>1, <1>2, <1>3, <1>4, <1>5, <1>6, <1>7, <1>8 DEF Next

LEMMA TotalStep == TotalInv /\ [Next]_vars => TotalInv'
<1> SUFFICES ASSUME TotalInv, [Next]_vars PROVE TotalInv'
  OBVIOUS
<1>T. TypeOK /\ TypeOK'
  BY TypeStep DEF TotalInv
<1>S. {Size, low, high, offset} \subseteq Nat
  BY <1>T, FiniteRows DEF TypeOK
<1>1. CASE Stamp \/ (\E r \in Rows : GiveUp(r)) \/ UNCHANGED vars
  BY <1>1, <1>T DEF Stamp, GiveUp, vars, TotalInv, TotalWasTrue, history, result
<1>2. ASSUME NEW r \in Rows, CommitCreate(r) PROVE TotalInv'
  <2>1. CASE pc = "page"
    BY <1>2, <1>S, <2>1, <1>T DEF CommitCreate, TotalInv, TotalWasTrue, result
  <2>2. CASE pc # "page"
    BY <1>2, <2>2, <1>T DEF CommitCreate, TotalInv, TotalWasTrue, result, history
  <2> QED BY <2>1, <2>2
<1>3. ASSUME NEW r \in Rows, CommitDelete(r) PROVE TotalInv'
  <2>1. CASE pc = "page"
    BY <1>3, <2>1, <1>T DEF CommitDelete, TotalInv, TotalWasTrue, result
  <2>2. CASE pc # "page"
    BY <1>3, <2>2, <1>T DEF CommitDelete, TotalInv, TotalWasTrue, result, history
  <2> QED BY <2>1, <2>2
<1>4. CASE Begin
  BY <1>4, <1>S, <1>T DEF Begin, TotalInv, TotalWasTrue
<1>5. CASE FetchPage
  <2>0. PICK skipped \in SUBSET live : \E page \in SUBSET (live \ skipped) :
          /\ Selects(skipped, page) /\ Extend(page)
          /\ IF LastPage(page) THEN pc' = "idle" /\ answer' = "report"
                               ELSE UNCHANGED <<pc, answer>>
    BY <1>5 DEF FetchPage
  <2>1. PICK page \in SUBSET (live \ skipped) :
          /\ Selects(skipped, page) /\ Extend(page)
          /\ IF LastPage(page) THEN pc' = "idle" /\ answer' = "report"
                               ELSE UNCHANGED <<pc, answer>>
    BY <2>0
  <2>2. /\ offset' = offset + Cardinality(page) /\ Cardinality(page) \in Nat
        /\ Cardinality(page) = (IF offset < Size THEN Smaller(PageSize, Size - offset) ELSE 0)
    BY <1>T, <2>1, PageTypes
  <2>3. low <= Size /\ Size <= high /\ offset <= high /\ answer = "none" /\ pc = "page"
    BY <1>5, <1>T DEF FetchPage, TypeOK, TotalInv
  <2>4. low' = low /\ high' = high
    BY <1>5 DEF FetchPage, history
  <2>5. CASE LastPage(page)
    <3>1. offset' \in low..high
      BY <1>S, <2>2, <2>3, <2>5 DEF LastPage, Smaller
    <3> QED BY <1>T, <2>1, <2>4, <2>5, <3>1 DEF TotalInv, TotalWasTrue
  <2>6. CASE ~ LastPage(page)
    <3>1. offset' <= high
      BY <1>S, <2>2, <2>3, <2>6 DEF LastPage, Smaller
    <3> QED BY <1>T, <2>1, <2>3, <2>4, <2>6, <3>1 DEF TotalInv, TotalWasTrue
  <2> QED BY <2>5, <2>6
<1>6. CASE Fail
  BY <1>6, <1>T DEF Fail, TotalInv, TotalWasTrue
<1> QED BY <1>1, <1>2, <1>3, <1>4, <1>5, <1>6 DEF Next

-----------------------------------------------------------------------------
(* How ranks move.                                                         *)

LEMMA RankNat ==
  ASSUME NEW S, IsFiniteSet(S), NEW r
  PROVE  IsFiniteSet({s \in S : s < r}) /\ RankIn(S, r) \in Nat
  BY FS_Subset, FS_CardinalityType DEF RankIn

LEMMA RankGrows ==
  ASSUME NEW S \in SUBSET Rows, IsFiniteSet(S), NEW a \in S, NEW b \in Rows, a < b
  PROVE  RankIn(S, a) < RankIn(S, b)
<1> DEFINE A == {s \in S : s < a}
           B == {s \in S : s < b}
<1>1. IsFiniteSet(A) /\ IsFiniteSet(B)
  BY RankNat
<1>0. a \in Nat /\ b \in Nat /\ \A s \in S : s \in Nat
  OBVIOUS
<1>2. a \notin A /\ A \cup {a} \subseteq B
  <2>1. ~ a < a /\ \A s \in S : s < a => s < b
    BY <1>0
  <2> QED BY <2>1
<1>3. Cardinality(A \cup {a}) = Cardinality(A) + 1
  BY <1>1, <1>2, FS_AddElement
<1>4. Cardinality(A \cup {a}) <= Cardinality(B)
  BY <1>1, <1>2, FS_Subset
<1> HIDE DEF A, B
<1>5. Cardinality(A) \in Nat /\ Cardinality(B) \in Nat
  BY <1>1, FS_CardinalityType
<1>6. Cardinality(A) < Cardinality(B)
  BY <1>3, <1>4, <1>5
<1> QED BY <1>6 DEF RankIn, A, B

(* No two rows have the same rank.                                         *)
LEMMA RanksDiffer ==
  ASSUME NEW S \in SUBSET Rows, IsFiniteSet(S), NEW a \in S, NEW b \in S,
         RankIn(S, a) = RankIn(S, b)
  PROVE  a = b
<1>1. RankIn(S, a) \in Nat /\ RankIn(S, b) \in Nat
  BY RankNat
<1>2. a \in Nat /\ b \in Nat
  OBVIOUS
<1>3. ~ a < b /\ ~ b < a
  BY <1>1, RankGrows
<1> QED BY <1>2, <1>3

(* A row more moves the later rows by one, and no other.                   *)
LEMMA RankWithout ==
  ASSUME NEW S, IsFiniteSet(S), NEW d \in S, NEW r
  PROVE  RankIn(S, r) = IF d < r THEN RankIn(S \ {d}, r) + 1 ELSE RankIn(S \ {d}, r)
<1> DEFINE A == {s \in S : s < r}
           B == {s \in S \ {d} : s < r}
<1>1. IsFiniteSet(A)
  BY RankNat
<1>2. B = A \ {d} /\ (d \in A <=> d < r)
  OBVIOUS
<1>3. Cardinality(B) = IF d \in A THEN Cardinality(A) - 1 ELSE Cardinality(A)
  BY <1>1, <1>2, FS_RemoveElement
<1>4. Cardinality(A) \in Nat
  BY <1>1, FS_CardinalityType
<1> HIDE DEF A, B
<1>5. Cardinality(A) = IF d \in A THEN Cardinality(B) + 1 ELSE Cardinality(B)
  BY <1>3, <1>4
<1>6. CASE d < r
  BY <1>2, <1>5, <1>6 DEF RankIn, A, B
<1>7. CASE ~ d < r
  BY <1>2, <1>5, <1>7 DEF RankIn, A, B
<1> QED BY <1>6, <1>7

(* Where a page lies among the rows.                                       *)
LEMMA PageRanks ==
  ASSUME TypeOK, NEW skipped \in SUBSET live, NEW page \in SUBSET (live \ skipped),
         Selects(skipped, page)
  PROVE  /\ \A r \in skipped : RankIn(live, r) < offset
         /\ \A r \in skipped \cup page : RankIn(live, r) < offset + Cardinality(page)
         /\ \A r \in page : RankIn(live, r) >= offset
         /\ \A r \in live \ (skipped \cup page) : RankIn(live, r) >= offset + Cardinality(page)
         /\ LastPage(page) => live = skipped \cup page
<1> DEFINE seen == skipped \cup page
           k == Cardinality(skipped)
           n == Cardinality(page)
<1>1. live \subseteq Rows /\ Size \in Nat /\ offset \in Nat /\ IsFiniteSet(live)
  BY FiniteRows DEF TypeOK
<1>2. IsFiniteSet(skipped) /\ IsFiniteSet(page) /\ IsFiniteSet(seen)
  BY <1>1, FS_Subset
<1>3. k \in Nat /\ n \in Nat
  BY <1>2, FS_CardinalityType
<1>4. Cardinality(seen) = k + n
  <2>1. skipped \cap page = {}
    OBVIOUS
  <2> QED BY <1>2, <1>3, <2>1, FS_Union, FS_EmptySet
<1>5. k = Smaller(offset, Size) /\ n = Smaller(PageSize, Size - k)
  BY DEF Selects
<1>6. k <= offset /\ (k = offset \/ k = Size)
  BY <1>1, <1>5 DEF Smaller
<1>7. k = Size => skipped = live
  BY <1>1, FS_Subset DEF Size
<1>8. Before(skipped, live \ skipped) /\ Before(page, live \ seen)
  BY DEF Selects
<1>9. ASSUME NEW T \in {skipped, seen}, NEW r \in T
      PROVE  RankIn(live, r) < Cardinality(T)
  <2>1. {s \in live : s < r} \subseteq T \ {r}
    <3>1. Before(T, live \ T)
      BY <1>8 DEF Before
    <3>2. \A s \in live \ T : r < s
      BY <3>1 DEF Before
    <3>3. r \in Nat /\ \A s \in live : s \in Nat
      BY <1>1
    <3>4. \A s \in live : s < r => s \in T /\ s # r
      BY <3>2, <3>3
    <3> QED BY <3>4
  <2>2. IsFiniteSet(T)
    BY <1>2
  <2>3. IsFiniteSet(T \ {r}) /\ Cardinality(T \ {r}) = Cardinality(T) - 1
    BY <2>2, FS_RemoveElement
  <2>4. RankIn(live, r) <= Cardinality(T \ {r})
    BY <2>1, <2>3, FS_Subset DEF RankIn
  <2>5. RankIn(live, r) \in Nat /\ Cardinality(T) \in Nat
    BY <1>1, <2>2, RankNat, FS_CardinalityType
  <2> QED BY <2>3, <2>4, <2>5
<1>10. ASSUME NEW T \in {skipped, seen}, NEW r \in live \ T
       PROVE  RankIn(live, r) >= Cardinality(T)
  <2>1. T \subseteq {s \in live : s < r}
    BY <1>8 DEF Before
  <2> QED BY <1>1, <2>1, RankNat, FS_Subset DEF RankIn
<1>11. ASSUME NEW r \in skipped PROVE RankIn(live, r) < offset
  <2>1. RankIn(live, r) < k /\ RankIn(live, r) \in Nat
    BY <1>1, <1>9, RankNat
  <2> QED BY <1>1, <1>3, <1>6, <2>1
<1>12. ASSUME NEW r \in seen PROVE RankIn(live, r) < offset + n
  <2>1. RankIn(live, r) < Cardinality(seen) /\ RankIn(live, r) \in Nat
    BY <1>1, <1>9, RankNat
  <2> QED BY <1>1, <1>3, <1>4, <1>6, <2>1
<1>13. ASSUME NEW r \in page PROVE RankIn(live, r) >= offset
  <2>1. k = offset
    BY <1>6, <1>7
  <2> QED BY <1>10, <2>1
<1>14. ASSUME NEW r \in live \ seen PROVE RankIn(live, r) >= offset + n
  <2>1. k = offset
    BY <1>6, <1>7
  <2> QED BY <1>4, <1>10, <2>1
<1>15. ASSUME LastPage(page) PROVE live = seen
  <2>1. n = Size - k
    BY <1>1, <1>3, <1>5, <1>15 DEF LastPage, Smaller
  <2>2. Cardinality(seen) = Cardinality(live)
    BY <1>1, <1>3, <1>4, <2>1 DEF Size
  <2> QED BY <1>1, <2>2, FS_Subset
<1> QED BY <1>11, <1>12, <1>13, <1>14, <1>15

-----------------------------------------------------------------------------
(* While a report is read: what it missed so far, and what it read twice   *)
(* or will, is accounted for; what it read was committed.                  *)
AccountInv ==
  /\ TotalInv
  /\ \A r \in Rows : read[r] > 0 => r \notin creating /\ r <= stamped
  /\ pc = "page" => /\ Cardinality(Passed \cap Unread) <= shifted
                    /\ offset + Cardinality(Ahead) <= Cardinality(Read) + late
  /\ MissesAreDeletions
  /\ RepeatsAreLateCreations

LEMMA FiniteParts ==
  ASSUME TypeOK
  PROVE  /\ IsFiniteSet(Passed) /\ IsFiniteSet(Ahead) /\ IsFiniteSet(Read)
         /\ IsFiniteSet(Passed \cap Unread) /\ IsFiniteSet(Unread)
         /\ {Cardinality(Passed \cap Unread), Cardinality(Ahead), Cardinality(Read)} \subseteq Nat
         /\ {offset, shifted, late} \subseteq Nat
<1>1. IsFiniteSet(Rows) /\ live \subseteq Rows /\ steady \subseteq Rows
  BY FiniteRows DEF TypeOK
<1>2. Passed \subseteq Rows /\ Ahead \subseteq Rows /\ Read \subseteq Rows /\ Unread \subseteq Rows
  BY <1>1 DEF Passed, Ahead, Read, Unread
<1>3. Passed \cap Unread \subseteq Rows
  BY <1>2
<1>4. /\ IsFiniteSet(Passed) /\ IsFiniteSet(Ahead) /\ IsFiniteSet(Read)
      /\ IsFiniteSet(Passed \cap Unread) /\ IsFiniteSet(Unread)
  BY <1>1, <1>2, <1>3, FS_Subset
<1>5. {Cardinality(Passed \cap Unread), Cardinality(Ahead), Cardinality(Read)} \subseteq Nat
  BY <1>4, FS_CardinalityType
<1> QED BY <1>4, <1>5 DEF TypeOK

(* Sets that grow by at most one element.                                  *)
LEMMA OneMore ==
  ASSUME NEW S, IsFiniteSet(S), NEW T, NEW q, T \subseteq S \cup {q}
  PROVE  Cardinality(T) <= Cardinality(S) + 1
<1>0. Cardinality(S) \in Nat
  BY FS_CardinalityType
<1>1. IsFiniteSet(S \cup {q}) /\ Cardinality(S \cup {q}) <= Cardinality(S) + 1
  <2>1. /\ IsFiniteSet(S \cup {q})
        /\ Cardinality(S \cup {q}) = Cardinality(S) \/ Cardinality(S \cup {q}) = Cardinality(S) + 1
    BY FS_AddElement
  <2> QED BY <1>0, <2>1
<1>2. Cardinality(T) <= Cardinality(S \cup {q}) /\ IsFiniteSet(T)
  BY <1>1, FS_Subset
<1>3. {Cardinality(T), Cardinality(S), Cardinality(S \cup {q})} \subseteq Nat
  BY <1>1, <1>2, FS_CardinalityType
<1> QED BY <1>1, <1>2, <1>3

(* A deletion brings at most one row below the offset, and none if the     *)
(* offset had not passed it.                                               *)
LEMMA DeletionShifts ==
  ASSUME TypeOK, TypeOK', NEW d \in live, live' = live \ {d}, UNCHANGED <<offset, read>>
  PROVE  /\ \E q : Passed' \subseteq Passed \cup {q}
         /\ ~ RankIn(live, d) < offset => Passed' \subseteq Passed
         /\ Ahead' \subseteq Ahead
<1>1. live \subseteq Rows /\ IsFiniteSet(live) /\ IsFiniteSet(live \ {d}) /\ offset \in Nat
  BY FiniteRows, FS_Subset DEF TypeOK
<1>2. ASSUME NEW r \in live
      PROVE  /\ RankIn(live, r) \in Nat /\ RankIn(live \ {d}, r) \in Nat
             /\ RankIn(live, r) = IF d < r THEN RankIn(live \ {d}, r) + 1 ELSE RankIn(live \ {d}, r)
  BY <1>1, RankNat, RankWithout
<1>3. Passed' = {r \in live \ {d} : RankIn(live \ {d}, r) < offset}
  BY DEF Passed, RankIn
<1>4. Ahead' = {r \in live \ {d} : read[r] > 0 /\ RankIn(live \ {d}, r) >= offset}
  BY DEF Ahead, RankIn
<1>5. Ahead' \subseteq Ahead
  <2>1. SUFFICES ASSUME NEW r \in Ahead' PROVE r \in Ahead
    OBVIOUS
  <2>2. r \in live /\ read[r] > 0 /\ RankIn(live \ {d}, r) >= offset
    BY <1>4
  <2>3. RankIn(live, r) >= offset
    BY <1>1, <1>2, <2>2
  <2> QED BY <2>2, <2>3 DEF Ahead
<1>6. \A r \in Passed' \ Passed : r \in live /\ d < r /\ RankIn(live, r) = offset
  <2>1. SUFFICES ASSUME NEW r \in Passed' \ Passed
                 PROVE  r \in live /\ d < r /\ RankIn(live, r) = offset
    OBVIOUS
  <2>2. r \in live /\ RankIn(live \ {d}, r) < offset
    BY <1>3
  <2>3. ~ RankIn(live, r) < offset
    BY <2>2 DEF Passed
  <2>4. /\ RankIn(live, r) \in Nat /\ RankIn(live \ {d}, r) \in Nat
        /\ RankIn(live, r) = IF d < r THEN RankIn(live \ {d}, r) + 1 ELSE RankIn(live \ {d}, r)
    BY <1>2, <2>2
  <2>5. d < r /\ RankIn(live, r) = offset
    BY <1>1, <2>2, <2>3, <2>4
  <2> QED BY <2>2, <2>5
<1>7. \E q : Passed' \subseteq Passed \cup {q}
  <2>1. ASSUME NEW r \in Passed' \ Passed, NEW s \in Passed' \ Passed PROVE r = s
    <3>1. r \in live /\ s \in live /\ RankIn(live, r) = RankIn(live, s)
      BY <1>6
    <3>2. live \in SUBSET Rows
      BY <1>1
    <3> QED BY <1>1, <3>1, <3>2, RanksDiffer
  <2>2. CASE Passed' \subseteq Passed
    BY <2>2
  <2>3. CASE ~ (Passed' \subseteq Passed)
    BY <2>1, <2>3
  <2> QED BY <2>2, <2>3
<1>8. ASSUME ~ RankIn(live, d) < offset PROVE Passed' \subseteq Passed
  <2>1. SUFFICES ASSUME NEW r \in Passed' \ Passed PROVE FALSE
    OBVIOUS
  <2>2. r \in live /\ d < r /\ RankIn(live, r) = offset
    BY <1>6
  <2>3. RankIn(live, d) < RankIn(live, r)
    BY <1>1, <2>2, RankGrows
  <2> QED BY <1>1, <1>2, <1>8, <2>2, <2>3
<1> QED BY <1>5, <1>7, <1>8

(* A creation brings no older row below the offset, and takes at most one  *)
(* row beyond it, none if it comes after the rows that were read.          *)
LEMMA CreationShifts ==
  ASSUME TypeOK, TypeOK', NEW c \in creating, read[c] = 0,
         live' = live \cup {c}, UNCHANGED <<offset, read>>
  PROVE  /\ Passed' \subseteq Passed \cup {c}
         /\ \E q : Ahead' \subseteq Ahead \cup {q}
         /\ (~ \E s \in live : c < s /\ read[s] > 0) => Ahead' \subseteq Ahead
<1> DEFINE more == live \cup {c}
<1>0. /\ live \subseteq Rows /\ IsFiniteSet(live) /\ offset \in Nat /\ c \notin live
      /\ c \in Rows
  <2>1. live \subseteq Rows /\ IsFiniteSet(live)
    BY FiniteRows
  <2>2. offset \in Nat /\ live \cap creating = {} /\ creating \subseteq 1..stamped /\ stamped \in 0..MaxRows
    BY DEF TypeOK
  <2>3. c \in Rows
    BY <2>2, RowsAssumption
  <2> QED BY <2>1, <2>2, <2>3
<1>1. /\ live \subseteq Rows /\ IsFiniteSet(live) /\ offset \in Nat /\ c \notin live
      /\ more \subseteq Rows /\ IsFiniteSet(more) /\ more \ {c} = live
  BY <1>0, FS_AddElement
<1>2. ASSUME NEW r \in more
      PROVE  /\ RankIn(live, r) \in Nat /\ RankIn(more, r) \in Nat
             /\ RankIn(more, r) = IF c < r THEN RankIn(live, r) + 1 ELSE RankIn(live, r)
  <2>1. RankIn(live, r) \in Nat /\ RankIn(more, r) \in Nat
    BY <1>1, RankNat
  <2>2. RankIn(more, r) = IF c < r THEN RankIn(more \ {c}, r) + 1 ELSE RankIn(more \ {c}, r)
    <3>1. c \in more
      OBVIOUS
    <3> HIDE DEF more
    <3> QED BY <1>1, <3>1, RankWithout
  <2> QED BY <1>1, <2>1, <2>2
<1>3. Passed' = {r \in more : RankIn(more, r) < offset}
  BY DEF Passed, RankIn
<1>4. Ahead' = {r \in more : read[r] > 0 /\ RankIn(more, r) >= offset}
  BY DEF Ahead, RankIn
<1>5. Passed' \subseteq Passed \cup {c}
  <2>1. SUFFICES ASSUME NEW r \in Passed', r # c PROVE r \in Passed
    OBVIOUS
  <2>2. r \in live /\ RankIn(more, r) < offset
    BY <1>3, <2>1
  <2>3. RankIn(live, r) < offset
    BY <1>1, <1>2, <2>2
  <2> QED BY <2>2, <2>3 DEF Passed
<1>6. \A r \in Ahead' \ Ahead : r \in live /\ read[r] > 0 /\ c < r /\ RankIn(more, r) = offset
  <2>1. SUFFICES ASSUME NEW r \in Ahead' \ Ahead
                 PROVE  r \in live /\ read[r] > 0 /\ c < r /\ RankIn(more, r) = offset
    OBVIOUS
  <2>2. r \in more /\ read[r] > 0 /\ RankIn(more, r) >= offset
    BY <1>4
  <2>3. r \in live
    BY <2>2
  <2>4. ~ RankIn(live, r) >= offset
    BY <2>2, <2>3 DEF Ahead
  <2>5. /\ RankIn(live, r) \in Nat /\ RankIn(more, r) \in Nat
        /\ RankIn(more, r) = IF c < r THEN RankIn(live, r) + 1 ELSE RankIn(live, r)
    BY <1>2, <2>2
  <2> HIDE DEF more
  <2>6. c < r /\ RankIn(more, r) = offset
    BY <1>1, <2>2, <2>4, <2>5
  <2> QED BY <2>2, <2>3, <2>6
<1>7. \E q : Ahead' \subseteq Ahead \cup {q}
  <2>1. \A r, s \in Ahead' \ Ahead : r = s
    BY <1>1, <1>6, RanksDiffer
  <2>2. CASE Ahead' \subseteq Ahead
    BY <2>2
  <2>3. CASE ~ (Ahead' \subseteq Ahead)
    BY <2>1, <2>3
  <2> QED BY <2>2, <2>3
<1>8. (~ \E s \in live : c < s /\ read[s] > 0) => Ahead' \subseteq Ahead
  BY <1>6
<1> QED BY <1>5, <1>7, <1>8

(* A page reads the rows it passes, and counts the others ahead.           *)
LEMMA PageAccounts ==
  ASSUME TypeOK, TypeOK', NEW skipped \in SUBSET live, NEW page \in SUBSET (live \ skipped),
         Selects(skipped, page), Extend(page), UNCHANGED <<live, steady>>
  PROVE  /\ Passed' \cap Unread' \subseteq Passed \cap Unread
         /\ LastPage(page) /\ steady \subseteq live => Unread' \subseteq Passed \cap Unread
         /\ offset' + Cardinality(Ahead') + Cardinality(Read)
              <= offset + Cardinality(Ahead) + Cardinality(Read')
<1>1. /\ live \subseteq Rows /\ offset \in Nat /\ read \in [Rows -> Nat]
      /\ IsFiniteSet(live) /\ IsFiniteSet(page) /\ steady \subseteq Rows
  BY FiniteRows, FS_Subset DEF TypeOK
<1>2. /\ offset' = offset + Cardinality(page) /\ Cardinality(page) \in Nat
      /\ \A r \in Rows : read'[r] = IF r \in page THEN read[r] + 1 ELSE read[r]
  BY PageTypes DEF Extend
<1>3. /\ \A r \in skipped : RankIn(live, r) < offset
      /\ \A r \in skipped \cup page : RankIn(live, r) < offset + Cardinality(page)
      /\ \A r \in page : RankIn(live, r) >= offset
      /\ \A r \in live \ (skipped \cup page) : RankIn(live, r) >= offset + Cardinality(page)
      /\ LastPage(page) => live = skipped \cup page
  BY PageRanks
<1>4. \A r \in live : RankIn(live, r) \in Nat
  BY <1>1, RankNat
<1>5. Passed' = {r \in live : RankIn(live, r) < offset + Cardinality(page)}
  BY <1>2 DEF Passed, RankIn
<1>6. Ahead' = {r \in live : read'[r] > 0 /\ RankIn(live, r) >= offset + Cardinality(page)}
  BY <1>2 DEF Ahead, RankIn
<1>7. Passed' \subseteq skipped \cup page
  <2>1. SUFFICES ASSUME NEW r \in Passed', r \notin skipped \cup page PROVE FALSE
    OBVIOUS
  <2>2. r \in live /\ RankIn(live, r) < offset + Cardinality(page)
    BY <1>5
  <2>3. RankIn(live, r) >= offset + Cardinality(page)
    BY <1>3, <2>1, <2>2
  <2> QED BY <1>1, <1>2, <1>4, <2>2, <2>3
<1>8. Unread' \cap (skipped \cup page) \subseteq Passed \cap Unread
  <2>1. \A r \in Unread' : r \in Rows /\ r \notin page /\ r \in Unread
    BY <1>1, <1>2 DEF Unread
  <2>2. skipped \subseteq Passed
    BY <1>3 DEF Passed
  <2> QED BY <2>1, <2>2
<1>9. /\ Passed' \cap Unread' \subseteq Passed \cap Unread
      /\ LastPage(page) /\ steady \subseteq live => Unread' \subseteq Passed \cap Unread
  <2>1. Unread' \subseteq steady
    BY DEF Unread
  <2> QED BY <1>3, <1>7, <1>8, <2>1
<1>10. Read' = Read \cup page
  <2>1. \A r \in Rows : read'[r] > 0 <=> read[r] > 0 \/ r \in page
    <3>1. \A r \in Rows : read[r] \in Nat
      BY <1>1
    <3> QED BY <1>2, <3>1
  <2>2. page \subseteq Rows
    BY <1>1
  <2> QED BY <2>1, <2>2 DEF Read
<1>11. Ahead' \subseteq Ahead \ page
  <2>1. \A r \in Ahead' : r \in live /\ r \notin page
    <3>1. SUFFICES ASSUME NEW r \in Ahead', r \in page PROVE FALSE
      BY <1>6
    <3>2. RankIn(live, r) >= offset + Cardinality(page) /\ r \in live
      BY <1>6
    <3> QED BY <1>1, <1>2, <1>3, <1>4, <3>1, <3>2
  <2>2. SUFFICES ASSUME NEW r \in Ahead' PROVE r \in Ahead
    BY <2>1
  <2>3. r \in live /\ r \notin page /\ read'[r] > 0 /\ RankIn(live, r) >= offset + Cardinality(page)
    BY <1>6, <2>1
  <2>4. read[r] > 0
    BY <1>1, <1>2, <2>3
  <2>5. RankIn(live, r) >= offset
    BY <1>1, <1>2, <1>4, <2>3
  <2> QED BY <2>3, <2>4, <2>5 DEF Ahead
<1>12. Read \cap page \subseteq Ahead
  BY <1>1, <1>3 DEF Read, Ahead
<1> DEFINE again == Read \cap page
<1>13. IsFiniteSet(Ahead') /\ IsFiniteSet(again) /\ IsFiniteSet(Read) /\ IsFiniteSet(Ahead)
  BY <1>1, FiniteParts, FS_Subset, <1>11, <1>12
<1>14. Cardinality(Ahead') + Cardinality(again) <= Cardinality(Ahead)
  <2>1. Ahead' \cap again = {} /\ Ahead' \cup again \subseteq Ahead
    BY <1>11, <1>12
  <2>2. Cardinality(Ahead' \cup again) = Cardinality(Ahead') + Cardinality(again) - Cardinality(Ahead' \cap again)
    BY <1>13, FS_Union
  <2>3. Cardinality(Ahead' \cap again) = 0
    BY <2>1, FS_EmptySet
  <2>4. Cardinality(Ahead' \cup again) <= Cardinality(Ahead)
    BY <1>13, <2>1, FS_Subset
  <2>5. Cardinality(Ahead') \in Nat /\ Cardinality(again) \in Nat
    BY <1>13, FS_CardinalityType
  <2> HIDE DEF again
  <2> QED BY <2>2, <2>3, <2>4, <2>5
<1>15. Cardinality(Read') = Cardinality(Read) + Cardinality(page) - Cardinality(again)
  BY <1>1, <1>10, <1>13, FS_Union
<1>16. {Cardinality(Ahead'), Cardinality(again), Cardinality(Read), Cardinality(Ahead)} \subseteq Nat
  BY <1>13, FS_CardinalityType
<1> HIDE DEF again
<1>17. offset' + Cardinality(Ahead') + Cardinality(Read)
         <= offset + Cardinality(Ahead) + Cardinality(Read')
  <2>1. offset' = offset + Cardinality(page) /\ offset \in Nat /\ Cardinality(page) \in Nat
    BY <1>1, <1>2
  <2> QED BY <2>1, <1>14, <1>15, <1>16
<1> QED BY <1>9, <1>17

LEMMA InitAccount == Init => AccountInv
<1> SUFFICES ASSUME Init PROVE AccountInv
  OBVIOUS
<1>1. TotalInv
  BY InitTotal
<1>2. \A r \in Rows : read[r] = 0
  BY DEF Init
<1>3. pc = "idle" /\ answer = "none"
  BY DEF Init
<1> QED BY <1>1, <1>2, <1>3 DEF AccountInv, MissesAreDeletions, RepeatsAreLateCreations

(* Steps that leave the rows and the report alone.                         *)
LEMMA AccountFrame ==
  ASSUME AccountInv, TotalInv', UNCHANGED <<read, offset, steady, shifted, late>>,
         pc' = "page" => pc = "page" /\ live' = live,
         answer' = "report" => answer = "report",
         \A r \in Rows : r \in creating' \/ ~ r <= stamped' => r \in creating \/ ~ r <= stamped
  PROVE  AccountInv'
<1>1. Unread' = Unread /\ Read' = Read
  BY DEF Unread, Read
<1>2. live' = live => Passed' = Passed /\ Ahead' = Ahead
  BY DEF Passed, Ahead, RankIn
<1>3. \A r \in Rows : read'[r] > 0 => r \notin creating' /\ r <= stamped'
  BY DEF AccountInv
<1>4. pc' = "page" => /\ Cardinality(Passed' \cap Unread') <= shifted'
                      /\ offset' + Cardinality(Ahead') <= Cardinality(Read') + late'
  BY <1>1, <1>2 DEF AccountInv
<1>5. MissesAreDeletions' /\ RepeatsAreLateCreations'
  BY <1>1 DEF AccountInv, MissesAreDeletions, RepeatsAreLateCreations, Unread, Read
<1> QED BY <1>3, <1>4, <1>5 DEF AccountInv

LEMMA AccountStep == AccountInv /\ [Next]_vars => AccountInv'
<1> SUFFICES ASSUME AccountInv, [Next]_vars PROVE AccountInv'
  OBVIOUS
<1>T. TypeOK /\ TypeOK' /\ TotalInv /\ TotalInv'
  BY TypeStep, TotalStep DEF AccountInv, TotalInv
<1>N. /\ {Cardinality(Passed \cap Unread), Cardinality(Ahead), Cardinality(Read)} \subseteq Nat
      /\ {Cardinality(Passed \cap Unread), Cardinality(Ahead), Cardinality(Read)}' \subseteq Nat
      /\ {offset, shifted, late} \subseteq Nat
      /\ IsFiniteSet(Passed \cap Unread) /\ IsFiniteSet(Ahead)
  <2>1. ASSUME TypeOK' PROVE {Cardinality(Passed \cap Unread), Cardinality(Ahead), Cardinality(Read)}' \subseteq Nat
    <3>1. IsFiniteSet(Rows) /\ live' \subseteq Rows /\ steady' \subseteq Rows
      <4>1. IsFiniteSet(Rows)
        BY <1>T, FiniteRows
      <4>2. stamped' \in 0..MaxRows /\ live' \subseteq 1..stamped' /\ steady' \subseteq Rows
        BY <2>1 DEF TypeOK
      <4>3. 1..stamped' \subseteq Rows
        BY <4>2
      <4> QED BY <4>1, <4>2, <4>3
    <3>2. Passed' \cap Unread' \subseteq Rows /\ Ahead' \subseteq Rows /\ Read' \subseteq Rows
      BY <3>1 DEF Passed, Ahead, Read
    <3> QED BY <3>1, <3>2, FS_Subset, FS_CardinalityType
  <2> QED BY <1>T, <2>1, FiniteParts
<1>R. \A r \in Rows : read[r] > 0 => r \notin creating /\ r <= stamped
  BY DEF AccountInv
<1>1. CASE Stamp
  BY <1>1, <1>T, AccountFrame DEF Stamp, result, history, TypeOK
<1>2. ASSUME NEW c \in Rows, GiveUp(c) PROVE AccountInv'
  BY <1>2, <1>T, AccountFrame DEF GiveUp, result, history
<1>3. CASE Fail
  BY <1>3, <1>T, AccountFrame DEF Fail, writes, result, history
<1>4. CASE UNCHANGED vars
  BY <1>4, <1>T, AccountFrame DEF vars, writes, result, history
<1>5. ASSUME NEW c \in Rows, CommitCreate(c) PROVE AccountInv'
  <2>1. CASE pc # "page"
    BY <1>5, <2>1, <1>T, AccountFrame DEF CommitCreate, result, history
  <2>2. CASE pc = "page"
    <3>1. /\ c \in creating /\ live' = live \cup {c} /\ creating' = creating \ {c}
          /\ UNCHANGED <<stamped, pc, read, offset, answer, steady, shifted>>
          /\ late' = IF \E s \in live : c < s /\ read[s] > 0 THEN late + 1 ELSE late
      BY <1>5, <2>2 DEF CommitCreate, result
    <3>2. read[c] = 0
      BY <1>R, <1>T, <3>1 DEF TypeOK
    <3>3. /\ Passed' \subseteq Passed \cup {c}
          /\ \E q : Ahead' \subseteq Ahead \cup {q}
          /\ (~ \E s \in live : c < s /\ read[s] > 0) => Ahead' \subseteq Ahead
      BY <1>T, <3>1, <3>2, CreationShifts
    <3>4. Unread' = Unread /\ Read' = Read
      BY <3>1 DEF Unread, Read
    <3>5. c \notin Unread
      BY <1>T, <2>2, <3>1 DEF TypeOK, Unread
    <3>6. Cardinality(Passed' \cap Unread') <= shifted'
      <4>1. Passed' \cap Unread' \subseteq Passed \cap Unread
        BY <3>3, <3>4, <3>5
      <4>2. Cardinality(Passed' \cap Unread') <= Cardinality(Passed \cap Unread)
        BY <1>N, <4>1, FS_Subset
      <4>3. Cardinality(Passed \cap Unread) <= shifted
        BY <2>2 DEF AccountInv
      <4> QED BY <1>N, <3>1, <4>2, <4>3
    <3>7. offset' + Cardinality(Ahead') <= Cardinality(Read') + late'
      <4>1. offset + Cardinality(Ahead) <= Cardinality(Read) + late
        BY <2>2 DEF AccountInv
      <4>2. CASE \E s \in live : c < s /\ read[s] > 0
        <5>1. Cardinality(Ahead') <= Cardinality(Ahead) + 1
          BY <1>N, <3>3, OneMore
        <5> QED BY <1>N, <3>1, <3>4, <4>1, <4>2, <5>1
      <4>3. CASE ~ \E s \in live : c < s /\ read[s] > 0
        <5>1. Cardinality(Ahead') <= Cardinality(Ahead)
          BY <1>N, <3>3, <4>3, FS_Subset
        <5> QED BY <1>N, <3>1, <3>4, <4>1, <4>3, <5>1
      <4> QED BY <4>2, <4>3
    <3>8. answer' = "none"
      BY <1>T, <2>2, <3>1 DEF TotalInv
    <3>9. \A r \in Rows : read'[r] > 0 => r \notin creating' /\ r <= stamped'
      BY <1>R, <3>1
    <3> QED BY <1>T, <3>6, <3>7, <3>8, <3>9
            DEF AccountInv, MissesAreDeletions, RepeatsAreLateCreations
  <2> QED BY <2>1, <2>2
<1>6. ASSUME NEW d \in Rows, CommitDelete(d) PROVE AccountInv'
  <2>1. CASE pc # "page"
    BY <1>6, <2>1, <1>T, AccountFrame DEF CommitDelete, result, history
  <2>2. CASE pc = "page"
    <3>1. /\ d \in live /\ live' = live \ {d} /\ steady' = steady \ {d}
          /\ UNCHANGED <<creating, stamped, pc, read, offset, answer, late>>
          /\ shifted' = IF RankIn(live, d) < offset THEN shifted + 1 ELSE shifted
      BY <1>6, <2>2 DEF CommitDelete, result, Rank, RankIn
    <3>2. /\ \E q : Passed' \subseteq Passed \cup {q}
          /\ ~ RankIn(live, d) < offset => Passed' \subseteq Passed
          /\ Ahead' \subseteq Ahead
      BY <1>T, <3>1, DeletionShifts
    <3>3. Unread' \subseteq Unread /\ Read' = Read
      BY <3>1 DEF Unread, Read
    <3>4. Cardinality(Passed' \cap Unread') <= shifted'
      <4>1. Cardinality(Passed \cap Unread) <= shifted
        BY <2>2 DEF AccountInv
      <4>2. CASE RankIn(live, d) < offset
        <5>1. \E q : Passed' \cap Unread' \subseteq (Passed \cap Unread) \cup {q}
          BY <3>2, <3>3
        <5>2. Cardinality(Passed' \cap Unread') <= Cardinality(Passed \cap Unread) + 1
          BY <1>N, <5>1, OneMore
        <5> QED BY <1>N, <3>1, <4>1, <4>2, <5>2
      <4>3. CASE ~ RankIn(live, d) < offset
        <5>1. Passed' \cap Unread' \subseteq Passed \cap Unread
          BY <3>2, <3>3, <4>3
        <5>2. Cardinality(Passed' \cap Unread') <= Cardinality(Passed \cap Unread)
          BY <1>N, <5>1, FS_Subset
        <5> QED BY <1>N, <3>1, <4>1, <4>3, <5>2
      <4> QED BY <4>2, <4>3
    <3>5. offset' + Cardinality(Ahead') <= Cardinality(Read') + late'
      <4>1. offset + Cardinality(Ahead) <= Cardinality(Read) + late
        BY <2>2 DEF AccountInv
      <4>2. Cardinality(Ahead') <= Cardinality(Ahead)
        BY <1>N, <3>2, FS_Subset
      <4> QED BY <1>N, <3>1, <3>3, <4>1, <4>2
    <3>6. answer' = "none"
      BY <1>T, <2>2, <3>1 DEF TotalInv
    <3>7. \A r \in Rows : read'[r] > 0 => r \notin creating' /\ r <= stamped'
      BY <1>R, <3>1
    <3> QED BY <1>T, <3>4, <3>5, <3>6, <3>7
            DEF AccountInv, MissesAreDeletions, RepeatsAreLateCreations
  <2> QED BY <2>1, <2>2
<1>7. CASE Begin
  <2>1. offset' = 0 /\ shifted' = 0 /\ late' = 0 /\ answer' = "none" /\ \A r \in Rows : read'[r] = 0
    BY <1>7 DEF Begin
  <2>2. live' \subseteq Rows /\ IsFiniteSet(live')
    BY <1>7, <1>T, FiniteRows DEF Begin, writes
  <2>3. Passed' = {}
    <3>1. \A r \in live' : RankIn(live', r) \in Nat
      BY <2>2, RankNat
    <3>2. Passed' = {r \in live' : RankIn(live', r) < 0}
      BY <2>1 DEF Passed, RankIn
    <3>3. \A n \in Nat : ~ n < 0
      OBVIOUS
    <3> QED BY <3>1, <3>2, <3>3
  <2>4. Ahead' = {} /\ Read' = {}
    <3>1. \A r \in Rows : ~ read'[r] > 0
      BY <2>1
    <3> QED BY <2>2, <3>1 DEF Ahead, Read
  <2>5. Passed' \cap Unread' = {}
    BY <2>3
  <2> QED BY <1>T, <2>1, <2>4, <2>5, FS_EmptySet
          DEF AccountInv, MissesAreDeletions, RepeatsAreLateCreations
<1>8. CASE FetchPage
  <2>1. PICK skipped \in SUBSET live : \E page \in SUBSET (live \ skipped) :
          /\ Selects(skipped, page) /\ Extend(page)
          /\ IF LastPage(page) THEN pc' = "idle" /\ answer' = "report"
                               ELSE UNCHANGED <<pc, answer>>
    BY <1>8 DEF FetchPage
  <2>2. PICK page \in SUBSET (live \ skipped) :
          /\ Selects(skipped, page) /\ Extend(page)
          /\ IF LastPage(page) THEN pc' = "idle" /\ answer' = "report"
                               ELSE UNCHANGED <<pc, answer>>
    BY <2>1
  <2>3. pc = "page" /\ UNCHANGED <<live, creating, stamped, steady, shifted, late>>
    BY <1>8 DEF FetchPage, writes, history
  <2>4. /\ Passed' \cap Unread' \subseteq Passed \cap Unread
        /\ LastPage(page) /\ steady \subseteq live => Unread' \subseteq Passed \cap Unread
        /\ offset' + Cardinality(Ahead') + Cardinality(Read)
             <= offset + Cardinality(Ahead) + Cardinality(Read')
    BY <1>T, <2>2, <2>3, PageAccounts
  <2>5. /\ Cardinality(Passed \cap Unread) <= shifted
        /\ offset + Cardinality(Ahead) <= Cardinality(Read) + late
    BY <2>3 DEF AccountInv
  <2>6. steady \subseteq live /\ answer = "none" /\ offset' \in Nat
    BY <1>T, <2>3 DEF TypeOK, TotalInv
  <2>7. Cardinality(Passed' \cap Unread') <= shifted'
    <3>1. Cardinality(Passed' \cap Unread') <= Cardinality(Passed \cap Unread)
      BY <1>N, <2>4, FS_Subset
    <3> QED BY <1>N, <2>3, <2>5, <3>1
  <2>8. offset' + Cardinality(Ahead') <= Cardinality(Read') + late'
    BY <1>N, <2>3, <2>4, <2>5, <2>6
  <2>9. \A r \in Rows : read'[r] > 0 => r \notin creating' /\ r <= stamped'
    <3>1. \A r \in page : r \notin creating /\ r <= stamped
      BY <1>T DEF TypeOK
    <3>2. \A r \in Rows : r \notin page => read'[r] = read[r]
      BY <2>2 DEF Extend
    <3> QED BY <1>R, <2>3, <3>1, <3>2
  <2>10. CASE LastPage(page)
    <3>1. Cardinality(Unread') <= shifted'
      <4>1. Cardinality(Unread') <= Cardinality(Passed \cap Unread) /\ IsFiniteSet(Unread')
        BY <1>N, <2>4, <2>6, <2>10, FS_Subset
      <4>2. Cardinality(Unread') \in Nat
        BY <4>1, FS_CardinalityType
      <4> QED BY <1>N, <2>3, <2>5, <4>1, <4>2
    <3>2. offset' <= Cardinality(Read') + late'
      BY <1>N, <2>3, <2>6, <2>8
    <3>3. MissesAreDeletions' /\ RepeatsAreLateCreations'
      BY <3>1, <3>2 DEF MissesAreDeletions, RepeatsAreLateCreations, Unread, Read
    <3> QED BY <1>T, <2>2, <2>9, <2>10, <3>3 DEF AccountInv
  <2>11. CASE ~ LastPage(page)
    <3>1. answer' = "none"
      BY <2>2, <2>6, <2>11
    <3> QED BY <1>T, <2>7, <2>8, <2>9, <3>1
            DEF AccountInv, MissesAreDeletions, RepeatsAreLateCreations
  <2> QED BY <2>10, <2>11
<1> QED BY <1>1, <1>2, <1>3, <1>4, <1>5, <1>6, <1>7, <1>8 DEF Next

LEMMA Accounting == Spec => []AccountInv
  BY InitAccount, AccountStep, PTL DEF Spec

-----------------------------------------------------------------------------
(* A row is committed once, and low and high bracket the number of rows    *)
(* (itinerary database.py:61, 94).                                         *)
THEOREM TypeCorrect == Spec => []TypeOK
<1>1. Init => TypeOK
  BY InitTotal DEF TotalInv
<1> QED BY <1>1, TypeStep, PTL DEF Spec

(* The total of a report is the number of itineraries there were at some   *)
(* instant while it was read, for any page size (report adapters.py:15).   *)
THEOREM TotalIsOfAnInstant == Spec => []TotalWasTrue
<1>1. TotalInv => TotalWasTrue
  BY DEF TotalInv
<1> QED BY <1>1, InitTotal, TotalStep, PTL DEF Spec

(* A report misses at most one lasting itinerary for each deletion behind  *)
(* its offset (report adapters.py:18), for any page size.                  *)
THEOREM MissesAreBounded == Spec => []MissesAreDeletions
<1>1. AccountInv => MissesAreDeletions
  BY DEF AccountInv
<1> QED BY Accounting, <1>1, PTL

(* A report counts at most one itinerary twice for each creation that is   *)
(* committed out of order (itinerary service.py:39), for any page size.    *)
THEOREM RepeatsAreBounded == Spec => []RepeatsAreLateCreations
<1>1. AccountInv => RepeatsAreLateCreations
  BY DEF AccountInv
<1> QED BY Accounting, <1>1, PTL

-----------------------------------------------------------------------------
(* What ReportEnds rests on, besides the pages being answered: there are   *)
(* never more rows than MaxRows, and a page that does not end the report   *)
(* brings PageSize of them.                                                *)
HighInv == TotalInv /\ high <= MaxRows

LEMMA HighStep == HighInv /\ [Next]_vars => HighInv'
<1> SUFFICES ASSUME HighInv, [Next]_vars PROVE HighInv'
  OBVIOUS
<1>T. TypeOK /\ high \in Nat /\ high <= MaxRows /\ stamped \in 0..MaxRows
  BY DEF HighInv, TotalInv, TypeOK
<1>1. TotalInv'
  BY TotalStep DEF HighInv
<1>2. Size <= MaxRows /\ Size' <= MaxRows
  <2>1. ASSUME NEW S, S \subseteq 1..MaxRows PROVE Cardinality(S) <= MaxRows
    <3>1. IsFiniteSet(1..MaxRows) /\ Cardinality(1..MaxRows) = MaxRows
      BY FS_Interval
    <3> QED BY <2>1, <3>1, FS_Subset
  <2>2. live \subseteq 1..MaxRows
    BY <1>T DEF TypeOK
  <2>3. live' \subseteq 1..MaxRows
    BY <1>1 DEF TotalInv, TypeOK
  <2> QED BY <2>1, <2>2, <2>3 DEF Size
<1>3. high' \in {high, Size, Size'}
  <2>1. ASSUME NEW r \in Rows, CommitCreate(r) PROVE high' \in {high, Size'}
    <3>1. Size' = Size + 1
      BY <1>T, <2>1, Sizes DEF CommitCreate, Size
    <3> QED BY <2>1, <3>1 DEF CommitCreate, history
  <2>2. ASSUME NEW r \in Rows, GiveUp(r) \/ CommitDelete(r) PROVE UNCHANGED high
    BY <2>2 DEF GiveUp, CommitDelete, history
  <2>3. CASE Stamp \/ FetchPage \/ Fail \/ UNCHANGED vars
    BY <2>3 DEF Stamp, FetchPage, Fail, vars, history
  <2>4. CASE Begin
    BY <2>4 DEF Begin
  <2> QED BY <2>1, <2>2, <2>3, <2>4 DEF Next
<1> QED BY <1>T, <1>1, <1>2, <1>3 DEF HighInv

PageCounts == FetchPage => /\ offset' <= high /\ high <= MaxRows
                           /\ pc' = "page" => offset' = offset + PageSize
PagesAreBounded == [][PageCounts]_vars

(* Every page but the last moves the offset on by a full page, and the     *)
(* offset never passes the most rows there were meanwhile: a report reads  *)
(* at most MaxRows \div PageSize + 1 pages, however the writes interleave. *)
THEOREM EveryPageCounts == Spec => PagesAreBounded
<1>1. Init => HighInv
  <2>1. Init => TotalInv
    BY InitTotal
  <2>2. Init => high = 0
    BY DEF Init
  <2> QED BY <2>1, <2>2 DEF HighInv
<1>2. HighInv /\ HighInv' /\ [Next]_vars => [PageCounts]_vars
  <2> SUFFICES ASSUME HighInv, HighInv', FetchPage
               PROVE  /\ offset' <= high /\ high <= MaxRows
                      /\ pc' = "page" => offset' = offset + PageSize
    BY DEF PageCounts
  <2>T. TypeOK /\ pc = "page" /\ offset \in Nat
    BY DEF HighInv, TotalInv, TypeOK, FetchPage
  <2>1. high <= MaxRows /\ UNCHANGED <<live, low, high>>
    BY DEF HighInv, FetchPage, writes, history
  <2>9. PICK skipped \in SUBSET live : \E page \in SUBSET (live \ skipped) :
          /\ Selects(skipped, page)
          /\ Extend(page)
          /\ IF LastPage(page) THEN pc' = "idle" /\ answer' = "report"
                               ELSE UNCHANGED <<pc, answer>>
    BY DEF FetchPage
  <2>2. PICK page \in SUBSET (live \ skipped) :
          /\ Selects(skipped, page)
          /\ Extend(page)
          /\ IF LastPage(page) THEN pc' = "idle" /\ answer' = "report"
                               ELSE UNCHANGED <<pc, answer>>
    BY <2>9
  <2>3. offset' = offset + Cardinality(page) /\ Cardinality(page) \in Nat
        /\ Cardinality(page) = (IF offset < Size THEN Smaller(PageSize, Size - offset) ELSE 0)
    BY <2>2, <2>T, PageTypes
  <2>4. offset' <= high
    <3>1. CASE LastPage(page)
      <4>1. answer' = "report"
        BY <2>2, <3>1
      <4>2. TotalWasTrue'
        BY DEF HighInv, TotalInv
      <4>3. offset' \in low'..high'
        BY <4>1, <4>2 DEF TotalWasTrue
      <4> QED BY <4>3, <2>1
    <3>2. CASE ~ LastPage(page)
      <4>1. pc' = "page"
        BY <2>2, <2>T, <3>2
      <4> QED BY <4>1, <2>1 DEF HighInv, TotalInv
    <3> QED BY <3>1, <3>2
  <2>5. pc' = "page" => offset' = offset + PageSize
    <3> SUFFICES ASSUME pc' = "page" PROVE Cardinality(page) = PageSize
      BY <2>3
    <3>1. ~ LastPage(page)
      BY <2>2
    <3>2. Size \in Nat
      BY <2>T, FiniteRows
    <3> QED BY <3>1, <3>2, <2>3, <2>T DEF LastPage, Smaller
  <2> QED BY <2>1, <2>4, <2>5
<1> QED BY <1>1, <1>2, HighStep, PTL DEF Spec, PagesAreBounded
=============================================================================
