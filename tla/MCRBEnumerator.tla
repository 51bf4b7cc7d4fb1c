--------------------------- MODULE MCRBEnumerator ---------------------------
(* Instances of RBEnumerator for TLC.                                      *)
EXTENDS RBEnumerator, TLC

Slots4  == 1..4

\* Slot n holds value n; the last two perhaps the 2 of slot 2.
PinnedOrTwo == [n \in Node |-> IF n < 3 THEN {n} ELSE {2, n}]
=============================================================================
