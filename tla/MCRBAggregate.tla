--------------------------- MODULE MCRBAggregate ---------------------------
(* An instance of RBAggregate for TLC.                                     *)
EXTENDS RBAggregate, MCRBTree

Slots7 == 1..7
Pinned5 == PinnedOrListed(5)

\* Five keys in any order, or seven grown in one of the orders and drained in
\* any; walked at any time.
AggKeysSpec == AggInit /\ [][AggNext /\ FreeOrGrowThenDrain]_aggVars
=============================================================================
