-------------------------- MODULE RBTreeRefinement --------------------------
(***************************************************************************)
(* The tree implements the sequence of OrderedNodes: its in-order is the   *)
(* sequence, attach_node and the unlinking of remove_node are the steps    *)
(* that take effect, and no fixup step changes the order.                  *)
(***************************************************************************)
EXTENDS RBTreeShape

\* The call as its caller sees it: from the first step after attach_node or
\* the unlinking nothing but the colours is still to be settled.
StageSeen ==
    LET op == CASE pc = "idle"      -> "none"
                [] pc = "descend"   -> "insert"
                [] pc = "before"    -> "before"
                [] pc = "after"     -> "after"
                [] pc = "successor" -> "remove"
                [] OTHER            -> "settling"
    IN  [op   |-> op,
         node |-> IF op = "settling" THEN nil ELSE arg,
         at   |-> beside]

Ordered == INSTANCE OrderedNodes
    WITH seq <- InOrder, held <- Detached, key <- value,
         call <- StageSeen, result <- rval

\* Every step of the tree is a step of the sequence or leaves it alone: order
\* by comparator, duplicates in order of insertion, EEXIST exactly for a key
\* that is there, positions where the caller asked for them.
ImplementsOrderedNodes == Ordered!Spec

\* The same with the promise that every call comes back.
ImplementsFairly == Ordered!FairSpec
=============================================================================
