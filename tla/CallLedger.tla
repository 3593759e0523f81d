----------------------------- MODULE CallLedger -----------------------------
(***************************************************************************)
(* What is promised about call leads, whoever reads the Call Log and       *)
(* however often.  A lead is a duplicate from the start or never, and only *)
(* behind a paid lead of an earlier call of its caller; the result on it   *)
(* is one that the log has shown for its very call, and only a later       *)
(* observation replaces it.  A call whose telephony session is known has   *)
(* one lead at a time, and what was removed stays removed.                 *)
(***************************************************************************)
EXTENDS Integers

CONSTANTS Calls, Caller, Start, Identified, Slots  \* Slots: names of a call's leads

VARIABLES
  shown,  \* shown[c]: how often the log's result changed, -1 before the first
  lead    \* lead[c][s]: not made yet, here or gone; a duplicate or not; the result
          \* on it, and when that was observed

vars == <<shown, lead>>

Init ==
  /\ shown = [c \in Calls |-> -1]
  /\ lead = [c \in Calls |-> [s \in Slots |->
               [st |-> "none", dup |-> FALSE, result |-> 0, at |-> -1]]]

Show(c) ==
  /\ shown'[c] > shown[c] /\ shown' = [shown EXCEPT ![c] = shown'[c]]
  /\ UNCHANGED lead

IsHere(c, s) == lead[c][s].st = "here"

PaidBefore(c) ==
  \E d \in Calls \ {c} : /\ Caller[d] = Caller[c] /\ Start[d] < Start[c]
                         /\ \E s \in Slots : /\ lead[d][s].st # "none"
                                            /\ ~lead[d][s].dup

(* One lead gets a result that the log has shown, observed later than its last. *)
Observe(c, s, dup) ==
  LET row == lead'[c][s] IN
  /\ row.at > lead[c][s].at /\ row.result \in 0 .. shown[c]
  /\ lead' = [lead EXCEPT ![c][s] = [st |-> "here", dup |-> dup,
                                     result |-> row.result, at |-> row.at]]
  /\ UNCHANGED shown

Enter(c, s) ==
  /\ lead[c][s].st = "none"
  /\ c \in Identified => \A t \in Slots : ~IsHere(c, t)
  /\ \E dup \in BOOLEAN : (dup => PaidBefore(c)) /\ Observe(c, s, dup)

Renew(c, s) == IsHere(c, s) /\ Observe(c, s, lead[c][s].dup)

Remove(c, s) ==
  /\ IsHere(c, s)
  /\ lead' = [lead EXCEPT ![c][s].st = "gone"]
  /\ UNCHANGED shown

Next ==
  \E c \in Calls :
    \/ Show(c)
    \/ \E s \in Slots : Enter(c, s) \/ Renew(c, s) \/ Remove(c, s)

Spec == Init /\ [][Next]_vars
=============================================================================
