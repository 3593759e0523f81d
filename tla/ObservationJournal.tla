-------------------------- MODULE ObservationJournal --------------------------
(***************************************************************************)
(* What the Granot lifecycle promises about observations and the lead they *)
(* concern, whoever processes them and however often: an observation is    *)
(* decided attempt by attempt, once each, as long as no attempt concluded; *)
(* it writes the lead at most once, in the step that decides it and that   *)
(* makes it the lead's temporal winner; winners follow each other in       *)
(* temporal order; evidence of acceptance belongs to the winner and is     *)
(* withdrawn by the next winner only.                                      *)
(***************************************************************************)
EXTENDS Integers

CONSTANTS
  Observations,    \* numbered in their temporal order
  Fields, Values, Says,
  Offsets,         \* the most attempts to decide an observation
  BornWinners,     \* winners that a lead may have when it appears
  None

VARIABLES
  journal,   \* journal[r][n]: the decision of attempt n on observation r
  wrote,     \* the observations that wrote the lead
  present,   \* whether there is a lead,
  values,    \* its fields,
  winner,    \* its temporal winner,
  evidence   \* and the decision on the winner that it is certified by

vars == <<journal, wrote, present, values, winner, evidence>>

-----------------------------------------------------------------------------
Attempts == 1 .. Offsets
NoMatch == {"pending_match", "unmatched"}
Accepting == {"applied", "already_current"}

Init ==
  /\ journal = [r \in Observations |-> [n \in Attempts |-> None]]
  /\ wrote = {}
  /\ ~present
  /\ values \in [Fields -> Values]
  /\ winner = -1
  /\ evidence = None

Appear ==
  /\ ~present /\ present'
  /\ winner' \in BornWinners
  /\ UNCHANGED <<journal, wrote, values, evidence>>

Edit ==
  /\ present
  /\ values' \in [Fields -> Values]
  /\ UNCHANGED <<journal, wrote, present, winner, evidence>>

(* The first attempt that is not decided, if the earlier ones found no match. *)
Open(r, n) ==
  /\ journal[r][n] = None
  /\ \A m \in Attempts : m < n => journal[r][m] = "pending_match"

Enter(r, n, outcome) ==
  /\ Open(r, n)
  /\ journal' = [journal EXCEPT ![r][n] = outcome]

(* A decision that leaves the lead as it is. *)
Note(r, n) ==
  /\ \E o \in NoMatch \cup Accepting \cup {"stale"} :
       /\ Enter(r, n, o)
       /\ o = "pending_match" => n < Offsets
       /\ o \notin NoMatch => present
  /\ UNCHANGED <<wrote, present, values, winner, evidence>>

Win(r) ==
  /\ present /\ winner < r
  /\ winner' = r /\ evidence' = None

(* The lead shows already what the observation says. *)
Accept(r, n) ==
  /\ Enter(r, n, "already_current") /\ Win(r)
  /\ UNCHANGED <<wrote, present, values>>

(* Each field stays, or becomes what the observation says. *)
Write(r, n) ==
  /\ r \notin wrote
  /\ Enter(r, n, "applied") /\ Win(r)
  /\ wrote' = wrote \cup {r}
  /\ values' \in [Fields -> Values]
  /\ \A f \in Fields : values'[f] \in {values[f], Says[r][f]}
  /\ UNCHANGED present

Certify(r, n) ==
  /\ winner = r
  /\ journal[r][n] \in Accepting
  /\ \A m \in Attempts : m > n => journal[r][m] = None
  /\ evidence' = <<r, n>>
  /\ UNCHANGED <<journal, wrote, present, values, winner>>

Next ==
  \/ Appear \/ Edit
  \/ \E r \in Observations, n \in Attempts :
       Note(r, n) \/ Accept(r, n) \/ Write(r, n) \/ Certify(r, n)

Spec == Init /\ [][Next]_vars
=============================================================================
