---------------------------- MODULE MCRBQueries ----------------------------
(* An instance with duplicates for TLC: the tree as a sequence, and what   *)
(* the queries make of it.                                                 *)
EXTENDS RBQueriesShape, RBTreeRefinement

Slots6 == 1..6
Keys   == 1..13

\* Slot n holds the key 2n, slots 3 to 6 perhaps the key 8 of slot 4: odd
\* keys are never there, 8 up to four times, every other even key once.
EvenOrEight == [n \in Node |-> IF n < 3 THEN {2 * n} ELSE {2 * n, 8}]
=============================================================================
