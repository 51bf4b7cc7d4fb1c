--------------------------- MODULE MCRBContainer ---------------------------
(* Instances of RBContainer for TLC.                                       *)
EXTENDS RBContainerRefinement, TLC

Values2 == 1..2
Values4 == 1..4
Slots5  == 1..5

\* Slot n holds value n, and the last slot any value: every set of values, and
\* a slot for a value that is there already.
PinnedButLast == [n \in Node |-> IF n \in Value THEN {n} ELSE Value]

\* Two slots for each of two values, and one for either.
TwoOfEach == [n \in Node |-> IF n < 3 THEN {1} ELSE IF n < 5 THEN {2} ELSE Value]

\* Any slot holds any value.
Anything == [n \in Node |-> Value]
=============================================================================
