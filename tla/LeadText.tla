------------------------------ MODULE LeadText ------------------------------
(***************************************************************************)
(* What lead messaging promises about one confirmation text: the provider  *)
(* accepts it at most once, and what is concluded about it is true.  A     *)
(* text concluded to be unsent may be opened again; one that was handed    *)
(* over, or whose fate is unknown, is never tried again.                   *)
(***************************************************************************)
CONSTANTS
  Messages,   \* lead messages
  Texts       \* the texts a provider could accept, each for one message

VARIABLES
  texts,      \* the texts the provider accepted
  verdict     \* verdict[m]: what is concluded about message m

vars == <<texts, verdict>>

Texted(m) == \E t \in texts : t.msg = m

Init ==
  /\ texts = {}
  /\ verdict = [m \in Messages |-> "open"]

(* The provider accepts a text whose fate is not concluded. *)
Accept(t) ==
  /\ ~Texted(t.msg)
  /\ verdict[t.msg] \in {"open", "unknown"}
  /\ texts' = texts \cup {t}
  /\ UNCHANGED verdict

Conclude(m, v) ==
  /\ verdict[m] = "open"
  /\ v = "handed_over" => Texted(m)
  /\ v = "unsent" => ~Texted(m)
  /\ verdict' = [verdict EXCEPT ![m] = v]
  /\ UNCHANGED texts

Reopen(m) ==
  /\ verdict[m] = "unsent"
  /\ verdict' = [verdict EXCEPT ![m] = "open"]
  /\ UNCHANGED texts

Step ==
  \/ \E t \in Texts : Accept(t)
  \/ \E m \in Messages : \/ \E v \in {"handed_over", "unsent", "unknown"} :
                              Conclude(m, v)
                         \/ Reopen(m)

(* A drain concludes about every expired dispatch in one update. *)
GiveUp ==
  /\ \E M \in SUBSET Messages :
       /\ \A m \in M : verdict[m] = "open"
       /\ verdict' = [m \in Messages |->
                        IF m \in M THEN "unknown" ELSE verdict[m]]
  /\ UNCHANGED texts

Spec == Init /\ [][Step \/ GiveUp]_vars
=============================================================================
