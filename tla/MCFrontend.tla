----------------------------- MODULE MCFrontend -----------------------------
(* Frontend for TLC: neither trips nor their data are told apart.          *)
EXTENDS Frontend, TLC

Symmetry == Permutations(Trips) \cup Permutations(Data)
=============================================================================
