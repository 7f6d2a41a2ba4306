-------------------------- MODULE MCItineraryStore --------------------------
(* A finite instance of ItineraryStore for TLC.                            *)
EXTENDS ItineraryStore
=============================================================================
