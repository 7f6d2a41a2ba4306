----------------------------- MODULE MCGateway -----------------------------
(* Finite instances of Gateway.                                            *)
EXTENDS Gateway
=============================================================================
