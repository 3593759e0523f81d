---------------------------- MODULE MCSheetSync ----------------------------
(* Small instances of SheetSync for TLC. *)
EXTENDS SheetSync, TLC

CONSTANTS l1, b1

(* LeadOf: one booking attached to the lead, one without a lead. *)
Attached == [b \in {b1} |-> l1]
Leadless == [b \in {b1} |-> None]

(* Runs are interchangeable. *)
RunSymmetry == Permutations(Runs)
=============================================================================
