--------------------------- MODULE MCReportPaging ---------------------------
(* Finite instances of ReportPaging.                                       *)
EXTENDS ReportPaging
=============================================================================
