-------------------------- MODULE MCReportingDelivery --------------------------
(* Small instances of ReportingDelivery for TLC. *)
EXTENDS ReportingDelivery, TLC

CONSTANTS r1, r2

(* A report of one page, and an empty one. *)
FullAndEmpty == (r1 :> 1) @@ (r2 :> 0)
OnePage == [r \in Runs |-> 1]
=============================================================================
