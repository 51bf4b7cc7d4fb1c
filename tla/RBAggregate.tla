---------------------------- MODULE RBAggregate ----------------------------
(***************************************************************************)
(* An augmented tree: the tree of RBTree with a client whose walk_dirty    *)
(* callback keeps in every node the size of its subtree, as in the         *)
(* order-statistic trees for which mulle--rbtree.h:588 recommends it.  The *)
(* dirty flags have to tell walk_dirty every node whose subtree a call has *)
(* changed.                                                                *)
(***************************************************************************)
EXTENDS RBTreeShape

VARIABLE size   \* the client's field in the value of each node

aggVars == <<vars, size>>

\* __mulle__rbtree_walk_dirty below n: the callbacks of dirty nodes, children
\* first, read what the callbacks and the clean nodes below left there.
SizeAfter ==
    LET reached == DirtyReached
        after[n \in Ref] ==
            IF ~IsLinked(n) THEN 0
            ELSE IF n \notin reached THEN size[n]
            ELSE 1 + after[child[n]["left"]] + after[child[n]["right"]]
    IN  [n \in Node |-> IF n \in reached THEN after[n] ELSE size[n]]

AggInit == Init /\ size = [n \in Node |-> 0]

WalkDirtyAndCount == WalkDirty /\ size' = SizeAfter

\* No other step runs the callback; a freed slot is reset.
SizesKept == size' = [n \in Node |-> IF status'[n] = "free" THEN 0 ELSE size[n]]

AggNext == \/ WalkDirtyAndCount
           \/ (NodeCall \/ Continue) /\ SizesKept

AggSpec == AggInit /\ [][AggNext]_aggVars

\* Between calls a clean node's field is right, whatever was inserted, removed
\* and rotated since it was computed; so after walk_dirty all fields are.
FreshWhereClean ==
    pc = "idle" =>
        \A n \in Linked \ dirty : size[n] = Len(InOrderFrom[n])
=============================================================================
