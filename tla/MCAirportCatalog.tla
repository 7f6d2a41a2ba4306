-------------------------- MODULE MCAirportCatalog --------------------------
(* Finite instances of AirportCatalog for TLC.                             *)
EXTENDS AirportCatalog
=============================================================================
