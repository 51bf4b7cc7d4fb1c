----------------------------- MODULE RBQueries -----------------------------
(***************************************************************************)
(* The queries of mulle--rbtree.h: they read the links of RBTree and       *)
(* change nothing.  Each loop of the C code is a recursive function; what  *)
(* is written out twice there, for next and previous, leftmost and         *)
(* rightmost, is one operator with the side as a parameter.                *)
(***************************************************************************)
EXTENDS RBTree

\* find_leftmost_node, find_rightmost_node.  On an empty tree the sentinel,
\* whose children are itself, is the result.
Outermost(n, s) ==
    LET down[m \in Ref] == IF child[m][s] = nil THEN m ELSE down[child[m][s]]
    IN  down[n]

\* Bubble up until we come from the other side.
\* Mutant: one step only.
ClimbOnce(n, s) == parent[n]
Climb(n, s) ==
    LET up[m \in Ref] == IF parent[m] # nil /\ child[parent[m]][s] = m
                         THEN up[parent[m]] ELSE parent[m]
    IN  up[n]

\* next_node (s = "right"), previous_node (s = "left")
Neighbour(n, s) ==
    IF child[n][s] # nil THEN Outermost(child[n][s], Other(s)) ELSE Climb(n, s)

\* find_node, with_payload and with_extra: they differ in what is compared.
\* Mutant: the comparator's arguments are exchanged.
FindNodeExchanged(k) ==
    LET down[m \in Ref] == IF m = nil \/ value[m] = k THEN m
                           ELSE down[child[m][Other(WayFrom(k, m))]]
    IN  down[root]
FindNode(k) ==
    LET down[m \in Ref] == IF m = nil \/ value[m] = k THEN m
                           ELSE down[child[m][WayFrom(k, m)]]
    IN  down[root]

\* find_node_equal_or_greater: where the search for k would leave the tree to
\* the left, that node is the next greater one; where to the right, it is the
\* first one further up.
\* Mutant: the last node visited, whichever way the search left it.
FindEqualOrGreaterLast(k) ==
    LET down[m \in Ref] ==
            IF m = nil \/ value[m] = k \/ child[m][WayFrom(k, m)] = nil THEN m
            ELSE down[child[m][WayFrom(k, m)]]
    IN  down[root]
FindEqualOrGreater(k) ==
    LET down[m \in Ref] ==
            IF m = nil \/ value[m] = k THEN m
            ELSE LET s == WayFrom(k, m)
                 IN  IF child[m][s] # nil THEN down[child[m][s]]
                     ELSE IF s = "left" THEN m
                     ELSE Climb(m, "right")
    IN  down[root]

\* __mulle__rbtree_walk_count
\* Mutant: a node with one child counts as a leaf.
CountLeafwise(n) ==
    LET count[m \in Ref] ==
            IF m = nil THEN 0
            ELSE IF nil \in {child[m]["left"], child[m]["right"]} THEN 1
            ELSE count[child[m]["left"]] + count[child[m]["right"]] + 1
    IN  count[n]
Count(n) ==
    LET count[m \in Ref] ==
            IF m = nil THEN 0
            ELSE count[child[m]["left"]] + count[child[m]["right"]] + 1
    IN  count[n]

\* get_node_value: the sentinel has no payload to read, its value is NULL.
NodeValue(n) == IF n = nil THEN nil ELSE value[n]
=============================================================================
