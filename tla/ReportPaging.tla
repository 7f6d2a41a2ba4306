---------------------------- MODULE ReportPaging ----------------------------
(***************************************************************************)
(* The report function reads the itineraries of a user page by page        *)
(* (report adapters.py) while requests of the same user create and delete  *)
(* itineraries; the page of "my trips" reads them with the same loop       *)
(* (app.js).  There is no snapshot: every page is a query of its own.      *)
(*                                                                         *)
(* A row is its place in the order of the query, ORDER BY created_at, id.  *)
(* created_at is drawn before the airports are validated, so rows are not  *)
(* committed in that order.                                                *)
(***************************************************************************)
EXTENDS Naturals, FiniteSets

CONSTANTS
  MaxRows,    \* itineraries ever created (bound)
  PageSize    \* rows in a full page (100)

ASSUME RowsAssumption == MaxRows \in Nat
ASSUME PageAssumption == PageSize \in Nat \ {0}

Rows == 1..MaxRows

VARIABLES
  live,       \* the rows the query sees
  creating,   \* rows with their created_at, not committed yet
  stamped,    \* number of created_at drawn so far
  pc,         \* "page" while the report is being read
  read,       \* how often each row is in the result
  offset,     \* length of the result, the offset of the next page
  answer,     \* how the last report was answered
  (* History of the report that is being read, or was read last:           *)
  steady,     \* rows there from its first query to its last
  low, high,  \* fewest and most rows there were meanwhile
  shifted,    \* deletions of rows the offset had passed
  late        \* rows committed before one that the result already held

writes == <<live, creating, stamped>>
result == <<read, offset>>
history == <<steady, low, high, shifted, late>>
vars == <<writes, pc, result, answer, history>>

Init ==
  /\ live = {} /\ creating = {} /\ stamped = 0
  /\ pc = "idle" /\ answer = "none"
  /\ read = [r \in Rows |-> 0] /\ offset = 0
  /\ steady = {} /\ low = 0 /\ high = 0 /\ shifted = 0 /\ late = 0

Size == Cardinality(live)
Smaller(m, n) == IF m < n THEN m ELSE n
Before(R, S) == \A r \in R, s \in S : r < s

(* How many rows come before r.                                            *)
Rank(r) == Cardinality({s \in live : s < r})

-----------------------------------------------------------------------------
(* Requests that write.                                                    *)

(* create: datetime.now(UTC), then the airports are validated.             *)
Stamp ==
  /\ stamped < MaxRows
  /\ stamped' = stamped + 1
  /\ creating' = creating \cup {stamped + 1}
  /\ UNCHANGED <<live, pc, result, answer, history>>

(* Mutant: a commit whose answer is lost is tried again.                   *)
CommitAgain(r) ==
  /\ r \in creating
  /\ live' = live \cup {r}
  /\ UNCHANGED <<creating, stamped, pc, result, answer, history>>

(* create commits, in any order.                                           *)
CommitCreate(r) ==
  /\ r \in creating
  /\ creating' = creating \ {r}
  /\ live' = live \cup {r}
  /\ IF pc = "page"
     THEN /\ high' = IF Size + 1 > high THEN Size + 1 ELSE high
          /\ late' = IF \E s \in live : r < s /\ read[s] > 0 THEN late + 1 ELSE late
          /\ UNCHANGED <<steady, low, shifted>>
     ELSE UNCHANGED history
  /\ UNCHANGED <<stamped, pc, result, answer>>

(* create is refused or fails.                                             *)
GiveUp(r) ==
  /\ r \in creating
  /\ creating' = creating \ {r}
  /\ UNCHANGED <<live, stamped, pc, result, answer, history>>

CommitDelete(r) ==
  /\ r \in live
  /\ live' = live \ {r}
  /\ IF pc = "page"
     THEN /\ low' = Smaller(low, Size - 1)
          /\ steady' = steady \ {r}
          /\ shifted' = IF Rank(r) < offset THEN shifted + 1 ELSE shifted
          /\ UNCHANGED <<high, late>>
     ELSE UNCHANGED history
  /\ UNCHANGED <<creating, stamped, pc, result, answer>>

-----------------------------------------------------------------------------
(* The report.                                                             *)

Begin ==
  /\ pc = "idle"
  /\ pc' = "page" /\ answer' = "none"
  /\ read' = [r \in Rows |-> 0] /\ offset' = 0
  /\ steady' = live /\ low' = Size /\ high' = Size /\ shifted' = 0 /\ late' = 0
  /\ UNCHANGED writes

(* Mutants: the query has no order; its offset is one too many.            *)
AnyOrder(skipped, page) ==
  /\ Cardinality(skipped) = Smaller(offset, Size)
  /\ Cardinality(page) = Smaller(PageSize, Size - Cardinality(skipped))

OffByOne(skipped, page) ==
  /\ Cardinality(skipped) = Smaller(offset + 1, Size)
  /\ Cardinality(page) = Smaller(PageSize, Size - Cardinality(skipped))
  /\ Before(skipped, live \ skipped)
  /\ Before(page, live \ (skipped \cup page))

(* ... ORDER BY created_at, id OFFSET offset LIMIT 100.                    *)
Selects(skipped, page) ==
  /\ Cardinality(skipped) = Smaller(offset, Size)
  /\ Cardinality(page) = Smaller(PageSize, Size - Cardinality(skipped))
  /\ Before(skipped, live \ skipped)
  /\ Before(page, live \ (skipped \cup page))

(* Mutant: a full page is taken for the last.                              *)
FullIsLast(page) == Cardinality(page) <= PageSize

LastPage(page) == Cardinality(page) < PageSize

(* Mutant: the page is added to a copy of the result.                      *)
ExtendCopy(page) == UNCHANGED result

(* result.extend(page).                                                    *)
Extend(page) ==
  /\ read' = [r \in Rows |-> IF r \in page THEN read[r] + 1 ELSE read[r]]
  /\ offset' = offset + Cardinality(page)

FetchPage ==
  /\ pc = "page"
  /\ \E skipped \in SUBSET live : \E page \in SUBSET (live \ skipped) :
       /\ Selects(skipped, page)
       /\ Extend(page)
       /\ IF LastPage(page) THEN pc' = "idle" /\ answer' = "report"
                            ELSE UNCHANGED <<pc, answer>>
  /\ UNCHANGED <<writes, history>>

(* The itinerary service does not answer, or not with a list: 503.         *)
Fail ==
  /\ pc = "page"
  /\ pc' = "idle" /\ answer' = "unavailable"
  /\ UNCHANGED <<writes, result, history>>

Next ==
  \/ Stamp
  \/ \E r \in Rows : CommitCreate(r) \/ GiveUp(r) \/ CommitDelete(r)
  \/ Begin \/ FetchPage \/ Fail

Spec == Init /\ [][Next]_vars

(* A query that does not end the report by its failure or its timeout      *)
(* (15 s) is answered; nobody is obliged to write or to ask for a report.  *)
FairSpec == Spec /\ WF_vars(FetchPage)

-----------------------------------------------------------------------------
(* Types; a row is created once, and the history brackets the present.     *)
TypeOK ==
  /\ stamped \in 0..MaxRows
  /\ live \subseteq 1..stamped
  /\ creating \subseteq 1..stamped
  /\ live \cap creating = {}
  /\ pc \in {"idle", "page"} /\ answer \in {"none", "report", "unavailable"}
  /\ read \in [Rows -> Nat] /\ offset \in Nat
  /\ steady \subseteq Rows
  /\ {low, high, shifted, late} \subseteq Nat
  /\ pc = "page" => steady \subseteq live /\ low <= Size /\ Size <= high

(* total_itineraries is the number of itineraries the user really had at   *)
(* some instant while the report was read, although no page was read at    *)
(* the same instant as another.                                            *)
TotalWasTrue == answer = "report" => offset \in low..high

(* A report misses an itinerary that was there all the time only if one    *)
(* that it had passed was deleted meanwhile: at most one for each.         *)
MissesAreDeletions ==
  answer = "report" => Cardinality({r \in steady : read[r] = 0}) <= shifted

(* A report counts an itinerary again only if a creation with an earlier   *)
(* created_at was committed meanwhile: at most one for each.               *)
RepeatsAreLateCreations ==
  answer = "report" => offset <= Cardinality({r \in Rows : read[r] > 0}) + late

(* The loop over the pages has no bound of its own (adapters.py:15), yet   *)
(* it ends: no sequence of deletions and late creations keeps it going     *)
(* when no more rows are drawn than MaxRows.                               *)
ReportEnds == pc = "page" ~> pc = "idle"
=============================================================================
