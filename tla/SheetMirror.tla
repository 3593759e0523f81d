----------------------------- MODULE SheetMirror -----------------------------
(***************************************************************************)
(* What Sheet Sync promises about the rows that mirror the documents: a    *)
(* change owes its documents a row from the step that commits it; rows are *)
(* written forward only; and a debt is struck off only when the row is     *)
(* that of the document as it is now.  Nothing is promised about a row     *)
(* after a stray write, nor about the row of a document that was removed   *)
(* and whose row nobody had located.                                       *)
(***************************************************************************)
EXTENDS Naturals

CONSTANT Docs

VARIABLES
  version,   \* version[d]: changes of d so far
  alive,     \* whether d exists
  kept,      \* the documents whose rows are kept
  owed,      \* the documents whose rows may still be written
  row,       \* the version that d's row shows, 0 for no row
  stray      \* whether the last write to d's row was a stray one

vars == <<version, alive, kept, owed, row, stray>>

Init ==
  /\ version = [d \in Docs |-> 0]
  /\ alive = [d \in Docs |-> FALSE]
  /\ kept \in SUBSET Docs
  /\ owed = {}
  /\ row = [d \in Docs |-> 0]
  /\ stray = [d \in Docs |-> FALSE]

Touch(d) ==
  /\ alive[d] \/ version[d] = 0
  /\ version'[d] = version[d] + 1 /\ alive'[d]
  /\ d \in kept'

Remove(d) ==
  /\ alive[d]
  /\ version'[d] = version[d] /\ ~alive'[d]

(* The documents D are touched or removed, all of them at once. *)
Change(D) ==
  /\ version' \in [Docs -> Nat] /\ alive' \in [Docs -> BOOLEAN]
  /\ \A d \in D : Touch(d) \/ Remove(d)
  /\ \A d \in Docs \ D : version'[d] = version[d] /\ alive'[d] = alive[d]
  /\ \A d \in Docs \ D : d \in kept' <=> d \in kept
  /\ owed \cup D \subseteq owed' /\ owed' \subseteq Docs
  /\ UNCHANGED <<row, stray>>

Shown(d) == IF alive[d] THEN version[d] ELSE 0

Settled(d) == d \in kept /\ d \notin owed /\ ~stray[d] => row[d] = Shown(d)

(* A row is written forward, or removed when its document is gone. *)
Write(d) ==
  /\ row' = [row EXCEPT ![d] = row'[d]] /\ row'[d] \in 0 .. version[d]
  /\ row'[d] < row[d] => row'[d] = 0 /\ ~alive[d]
  /\ stray' = [stray EXCEPT ![d] = FALSE]
  /\ Settled(d)'
  /\ UNCHANGED <<version, alive, kept, owed>>

Stray(d) ==
  /\ row' = [row EXCEPT ![d] = row'[d]] /\ row'[d] \in 0 .. version[d]
  /\ stray' = [stray EXCEPT ![d] = TRUE]
  /\ UNCHANGED <<version, alive, kept, owed>>

(* Debts are struck off once they are paid; others are taken on again. *)
Settle ==
  /\ owed' \subseteq Docs
  /\ \A d \in owed \ owed' : Settled(d)'
  /\ UNCHANGED <<version, alive, kept, row, stray>>

Next ==
  \/ \E D \in SUBSET Docs : Change(D)
  \/ \E d \in Docs : Write(d) \/ Stray(d)
  \/ Settle

Spec == Init /\ [][Next]_vars
=============================================================================
