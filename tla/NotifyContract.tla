--------------------------- MODULE NotifyContract ---------------------------
(***************************************************************************)
(* What the event pipeline promises to the rest of the system, with no     *)
(* outbox, broker or consumer in sight: an itinerary that was committed is *)
(* notified once, and nothing else is ever notified.                       *)
(***************************************************************************)

CONSTANT Events          \* ids of the ItineraryCreatedEvent instances

VARIABLES committed,     \* events whose itinerary has been committed
          delivered      \* events with a persisted notification

contractVars == <<committed, delivered>>

Init == /\ committed = {}
        /\ delivered = {}

(* An itinerary is created together with its event.                        *)
Commit(e) == /\ e \notin committed
             /\ committed' = committed \cup {e}
             /\ UNCHANGED delivered

(* The notification of a committed event is persisted, for the first time. *)
Deliver(e) == /\ e \in committed \ delivered
              /\ delivered' = delivered \cup {e}
              /\ UNCHANGED committed

Next == \E e \in Events : Commit(e) \/ Deliver(e)

SafeSpec == Init /\ [][Next]_contractVars

(* Creation is the user's choice; delivery is the system's duty.           *)
Spec == SafeSpec /\ \A e \in Events : WF_contractVars(Deliver(e))
=============================================================================
