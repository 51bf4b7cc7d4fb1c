--------------------------- MODULE RBQueriesShape ---------------------------
(***************************************************************************)
(* What the queries of RBQueries answer, against the in-order sequence.    *)
(* A caller asks them between two calls, remove_node takes next_node in    *)
(* the middle of one; the answers are right at every step.                 *)
(***************************************************************************)
EXTENDS RBQueries, RBTreeShape

\* The in-order, closed by the sentinel at both ends.
AtIn(seq, i) == IF i \in DOMAIN seq THEN seq[i] ELSE nil
At(i) == AtIn(InOrder, i)

\* next_node and previous_node, which climb the parent links, follow the order
\* that the child links give, and end at the sentinel; walk, walk_reverse and
\* both enumerators are made of them.
NeighboursFollowOrder ==
    LET seq == InOrder
    IN  /\ Outermost(root, "left") = AtIn(seq, 1)
        /\ Outermost(root, "right") = AtIn(seq, Len(seq))
        /\ \A i \in DOMAIN seq : /\ Neighbour(seq[i], "right") = AtIn(seq, i + 1)
                                 /\ Neighbour(seq[i], "left") = AtIn(seq, i - 1)

\* find_node finds a node exactly if some node has the key, although the
\* removals and rotations before have moved equal keys to both sides of one
\* another.
SearchFindsWhatIsThere ==
    \A k \in Value :
        IF \E n \in Linked : value[n] = k
        THEN FindNode(k) \in Linked /\ value[FindNode(k)] = k
        ELSE FindNode(k) = nil

\* find_node_equal_or_greater answers the first node at or above the key, or,
\* of several nodes with that key, any one.  Then there is nothing but equal
\* ones between it and the first: stepping back over them with previous_node
\* and going on with next_node misses no node of the range
\* (mulle--rbtree.h:584).
SearchStartsRange ==
    LET seq == InOrder
    IN  \A k \in Value :
            LET n == FindEqualOrGreater(k)
                from == {i \in DOMAIN seq : value[seq[i]] >= k}
            IN  IF from = {} THEN n = nil
                ELSE \E first, i \in from :
                        /\ \A j \in from : first <= j
                        /\ seq[i] = n
                        /\ i = first \/ \A j \in first .. i : value[seq[j]] = k

\* The recursive count is the number of nodes inserted and not yet removed.
CountIsExact == Count(root) = Cardinality(Linked)
=============================================================================
