----------------------------- MODULE MCCallLeads -----------------------------
(* Small instances of CallLeads for TLC. *)
EXTENDS CallLeads

CONSTANTS c1, c2

(* Two calls of one caller, one after the other. *)
SameCaller == [c \in Calls |-> "caller"]
InTurn == [c \in Calls |-> IF c = c1 THEN 0 ELSE 1]
=============================================================================
