------------------------------ MODULE MCSystem ------------------------------
(* A finite instance of System for TLC.                                    *)
EXTENDS System
=============================================================================
