-------------------------- MODULE MCOutboxDelivery --------------------------
(* Finite instances of OutboxDelivery for TLC.                             *)
EXTENDS OutboxDelivery, TLC

(* Workers, consumers and copies are interchangeable (safety runs only).   *)
Symmetry == Permutations(Workers) \cup Permutations(Consumers) \cup Permutations(Copies)
=============================================================================
