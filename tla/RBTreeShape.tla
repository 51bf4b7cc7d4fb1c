---------------------------- MODULE RBTreeShape ----------------------------
(***************************************************************************)
(* The tree of RBTree seen as a whole: its in-order sequence of nodes, its *)
(* heights, and the properties that need them, as recursive functions that *)
(* end at nil, and at any slot that should not have been linked.           *)
(***************************************************************************)
EXTENDS RBTreeInvariant, Sequences

IsLinked(n) == n # nil /\ status[n] = "linked"

\* What _mulle__rbtree_walk visits from n on.
InOrderFrom[n \in Ref] ==
    IF ~IsLinked(n) THEN <<>>
    ELSE InOrderFrom[child[n]["left"]] \o <<n>> \o InOrderFrom[child[n]["right"]]

InOrder == InOrderFrom[root]

HeightFrom[n \in Ref] ==
    IF ~IsLinked(n) THEN 0
    ELSE LET l == HeightFrom[child[n]["left"]]
             r == HeightFrom[child[n]["right"]]
         IN  1 + IF l > r THEN l ELSE r

\* Along leftmost links, with x counting once more while it lacks a black.
BlackHeightFrom[n \in Ref] ==
    IF ~IsLinked(n) THEN 0
    ELSE BlackHeightFrom[child[n]["left"]] + Weight(n, "left")

-----------------------------------------------------------------------------
\* The links from the root make one tree that holds every linked node once:
\* nothing is lost, shared or cyclic, at no step of any call.
OneTree ==
    LET seq == InOrder
    IN  /\ {seq[i] : i \in DOMAIN seq} = Linked
        /\ \A i, j \in DOMAIN seq : seq[i] = seq[j] => i = j

\* The comparator's order is the in-order, at every step.
Sorted ==
    LET seq == InOrder
    IN  ~Positional =>
            \A i \in 1 .. Len(seq) - 1 :
                IF AllowDuplicates THEN value[seq[i]] <= value[seq[i + 1]]
                                   ELSE value[seq[i]] < value[seq[i + 1]]

\* The witnesses of IInv and of OrderInv, computed.
LevelFrom[n \in Ref] == IF ~IsLinked(n) THEN 0 ELSE 1 + LevelFrom[parent[n]]

RoomFrom[n \in Ref] ==
    IF ~IsLinked(n) THEN {value[m] : m \in Linked \cup Detached}
    ELSE {v \in RoomFrom[parent[n]] :
             parent[n] = nil \/ Fits(v, parent[n], SlotOf(child, parent[n], n))}
WayUpFrom[n \in Ref] ==
    IF n = arg \/ ~IsLinked(n) THEN {} ELSE {n} \cup WayUpFrom[parent[n]]

\* Every path down from a node has as many black nodes as any other, counting
\* the black that x lacks while a removal is being repaired.
BlackBalanced == Balanced(BlackHeightFrom)

\* The inductive invariant holds, so that its proof is not about nothing.
InductiveInvariant == InvariantBy(LevelFrom, BlackHeightFrom)

\* So do those of the order: every search has come the right way, the values
\* that may stand below a node fit all nodes above it, the successor fits the
\* place of the node to remove, and the search of an insertion is on the way to
\* the equal key.
InductiveOrder ==
    /\ WayOK
    /\ ~Positional => OrderedBy(RoomFrom, WayUpFrom[parent[y]]) /\ DuplicatesAhead

TwoTo[k \in Nat] == IF k = 0 THEN 1 ELSE 2 * TwoTo[k - 1]

\* Between calls the height is at most 2 * log2( n + 1)
\* (asset/dox/api/toc/index.md:333).
HeightBound ==
    pc = "idle" =>
        TwoTo[HeightFrom[root]] <= (Cardinality(Linked) + 1) * (Cardinality(Linked) + 1)

\* How far the running call has come: looking for a place, in a fixup, over.
Stage == IF pc = "idle" THEN 0
         ELSE IF pc \in RedRedLabels \cup BlackBlackLabels THEN 1 ELSE 2

\* The steps, at most, that its loop still takes: a search is bounded by what
\* is below it and a fixup by what is above it, until it rotates.
StepsLeft ==
    CASE pc = "idle"                  -> 0
      [] Stage = 2                    -> HeightFrom[y]
      [] pc = "redred"                -> IF RedRedAgain THEN 2 + LevelFrom[x] ELSE 0
      [] pc = "blackblack"            -> IF BlackBlackAgain THEN 3 + LevelFrom[parent[x]] ELSE 0
      [] pc = "nephews"               -> 2
      [] pc \in {"redred_outer", "outer"} -> 1

\* Each step of a call brings it closer to its end, and each of its loops takes
\* hardly more steps than the tree is high: a fixup that has rotated goes no
\* further up, and no rotation puts a search or a fixup back.
CallsAdvance ==
    [][pc # "idle" =>
          /\ StepsLeft \in 0 .. HeightFrom[root] + 3
          /\ \/ Stage' < Stage
             \/ Stage' = Stage /\ StepsLeft' < StepsLeft]_vars
=============================================================================
