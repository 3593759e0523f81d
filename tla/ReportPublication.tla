--------------------------- MODULE ReportPublication ---------------------------
(***************************************************************************)
(* What the delivery of reports promises for one destination: a run is     *)
(* completed, failed or cancelled once; the destination moves to a run's   *)
(* report in the step that completes the run, and never otherwise; every   *)
(* report it showed before is kept as a predecessor.                       *)
(***************************************************************************)
CONSTANTS
  Runs,  \* confirmed runs
  None   \* the tab that was there before

VARIABLES
  outcome,  \* outcome[r]
  current,  \* whose report the destination names
  past      \* whose reports it named before

vars == <<outcome, current, past>>

Init ==
  /\ outcome = [r \in Runs |-> "open"]
  /\ current = None
  /\ past = {}

Complete(r) ==
  /\ outcome[r] = "open"
  /\ outcome' = [outcome EXCEPT ![r] = "completed"]
  /\ current' = r
  /\ past' = past \cup {current}

End(r) ==
  /\ outcome[r] = "open"
  /\ \E o \in {"failed", "cancelled"} : outcome' = [outcome EXCEPT ![r] = o]
  /\ UNCHANGED <<current, past>>

Next == \E r \in Runs : Complete(r) \/ End(r)

Spec == Init /\ [][Next]_vars
=============================================================================
