--------------------------- MODULE MCGranotReceipts ---------------------------
(* Small instances of GranotReceipts for TLC. *)
EXTENDS GranotReceipts, TLC

\* Two observations that disagree on every field, the newer one being 2.
MCReceipts == {1, 2}
MCSays == [r \in MCReceipts |-> [f \in Fields |-> IF r = 1 THEN "a" ELSE "b"]]

\* One observation.
OneReceipt == {1}
OneSays == [r \in OneReceipt |-> [f \in Fields |-> "a"]]

\* A lead that earlier observations wrote, and one that none did.
WonBefore == {0}
NeverWon == {NoWinner}
EitherWay == {0, NoWinner}

WorkerSymmetry == Permutations(Workers)
=============================================================================
