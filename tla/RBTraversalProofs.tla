------------------------- MODULE RBTraversalProofs -------------------------
(***************************************************************************)
(* Theorems about what reads the tree: the neighbours of a node, the       *)
(* searches and the count agree with the in-order and the values, so that  *)
(* mulle_rbtree_done meets each value once and a traversal meets in order  *)
(* each node that stays, and never stands on one that is gone; walk_dirty  *)
(* tells its client every node whose subtree has changed.                  *)
(***************************************************************************)
EXTENDS RBEnumerator, RBQueriesShape, RBAggregate, RBTreeRefinementProofs, RBContainerProofs

USE NilAssumption DEF Side, Ref, Color

-----------------------------------------------------------------------------
(* The queries read the links of the tree. Their loops end because links   *)
(* lead down or up and a slot outside of the tree has no children.         *)

\* A slot of the pool that is not in the tree has no children.
UnlinkedBare == \A n \in Node \ Linked, s \in Side : child[n][s] = nil

LEMMA RelinkingLeavesBare ==
    ASSUME NEW d \in [Ref -> Nat], NEW h \in [Ref -> Nat], InvariantBy(d, h), Relinking,
           UnlinkedBare
    PROVE  UnlinkedBare'
  <1>1. TypeOK /\ LinksOK /\ Linked \subseteq Node /\ nil \notin Linked
    BY DEF InvariantBy, Linked
  <1>2. child \in [Ref -> [Side -> Ref]] /\ parent \in [Ref -> Ref]
        /\ status \in [Node -> {"free", "detached", "linked"}]
    BY <1>1 DEF TypeOK
  <1>3. CASE Attach
    <2>1. /\ arg \in Node /\ \A s \in Side : child[arg][s] = nil
          /\ x # nil => x \in Linked
      BY <1>3, FreePlace
    <2>2. Linked' = Linked \cup {arg}
      BY <1>2, <1>3, <2>1 DEF Attach, Linked
    <2>3. \A n \in Node \ Linked' : child'[n] = child[n]
      BY <1>2, <1>3, <2>1, <2>2 DEF Attach
    <2> QED BY <2>2, <2>3 DEF UnlinkedBare
  <1>4. CASE Unlink
    <2>1. arg \in Linked /\ Cuttable(y, Heir, parent[y], h)
      BY <1>4, CutKin
    <2>2. Linked' = Linked \ {arg} /\ \A s \in Side : child'[arg][s] = nil
      <3>1. status' = [status EXCEPT ![arg] = "free"]
        BY <1>4 DEF Unlink, Freed
      <3>2. \E c : child' = [c EXCEPT ![arg] = [s \in Side |-> nil]] /\ c \in [Ref -> [Side -> Ref]]
        <4>1. y \in Node /\ arg \in Node
          BY <1>1, <2>1 DEF Cuttable
        <4>2. CutOut.child \in [Ref -> [Side -> Ref]] /\ Replaced.child \in [Ref -> [Side -> Ref]]
          BY <1>1, <4>1, CutOutType, ReplacedType
        <4>3. child' = [(IF y = arg THEN CutOut ELSE Replaced).child
                          EXCEPT ![arg] = [s \in Side |-> nil]]
          BY <1>4 DEF Unlink, Freed
        <4> QED BY <4>2, <4>3
      <3>3. Linked' = Linked \ {arg}
        BY <1>1, <1>2, <2>1, <3>1 DEF Linked
      <3> QED BY <1>1, <2>1, <3>2, <3>3
    <2>3. CASE y = arg
      <3>1. child' = [Relinked(child, parent[y], y, Heir) EXCEPT ![arg] = [s \in Side |-> nil]]
        BY <1>4, <2>3 DEF Unlink, Freed, CutOut
      <3>2. parent[y] = nil \/ parent[y] \in Linked
        BY <2>1 DEF Cuttable
      <3>3. ASSUME NEW n \in Node, n \notin Linked PROVE child'[n] = child[n]
        BY <1>2, <2>1, <3>1, <3>2, <3>3 DEF Relinked
      <3> QED BY <2>2, <3>3 DEF UnlinkedBare
    <2>4. CASE y # arg
      <3>1. PICK g, k, L, R, u, c : Grafted(y, Heir, parent[y], arg, g, k, L, R, u, c)
        BY <1>4, <2>1, <2>4, Graft
      <3>2. y \in Linked /\ u \in Linked /\ (g # nil => g \in Linked)
        BY <2>1, <3>1 DEF Grafted, Cuttable
      <3>3. ASSUME NEW n \in Node, n \notin Linked, NEW s \in Side PROVE child'[n][s] = child[n][s]
        BY <2>1, <3>1, <3>2, <3>3 DEF Grafted
      <3> QED BY <2>2, <3>3 DEF UnlinkedBare
    <2> QED BY <2>3, <2>4
  <1>5. CASE ~Attach /\ ~Unlink
    <2>1. PICK s \in Side, p \in Node : Rotatable(d, s, p) /\ Rotate(s, p)
      BY <1>5, FixupTurns DEF Relinking
    <2>2. TurnedLinks(s, p) /\ Linked' = Linked
      <3>1. status' = status
        BY <1>1, <1>5, RelinkingGoesOn
      <3> QED BY <1>1, <2>1, <3>1, RotateLinks DEF Linked
    <2>3. PICK o, t, b, g, k : Around(s, p, o, t, b, g, k)
      BY <1>1, <2>1, <2>2, RotatedAround
    <2>4. ASSUME NEW n \in Node, n \notin Linked PROVE child'[n] = child[n]
      BY <1>1, <2>3, <2>4 DEF Around
    <2> QED BY <2>2, <2>4 DEF UnlinkedBare
  <1> QED BY <1>3, <1>4, <1>5

LEMMA StepBare == IInv /\ UnlinkedBare /\ [Next]_vars => UnlinkedBare'
  <1> SUFFICES ASSUME IInv, UnlinkedBare, [Next]_vars PROVE UnlinkedBare'
    OBVIOUS
  <1>1. PICK d \in [Ref -> Nat], h \in [Ref -> Nat] : InvariantBy(d, h)
    BY DEF IInv
  <1>2. CASE Relinking
    BY <1>1, <1>2, RelinkingLeavesBare
  <1>3. CASE ~Relinking
    <2>1. TypeOK /\ child \in [Ref -> [Side -> Ref]]
      BY <1>1 DEF InvariantBy, TypeOK
    <2>2. Linked' = Linked
      BY <1>3, <2>1, OthersRelinkNothing
    <2>3. ASSUME NEW n \in Node, NEW v \in Payload[n], NewNode(n, v) PROVE UnlinkedBare'
      BY <2>1, <2>2, <2>3 DEF NewNode, UnlinkedBare
    <2>4. CASE ~\E n \in Node : \E v \in Payload[n] : NewNode(n, v)
      <3>1. child' = child
        <4>1. CASE UNCHANGED vars
          BY <4>1 DEF vars
        <4>2. CASE NodeCall
          BY <2>4, <4>2 DEF NodeCall, InsertNode, InsertBeside, RemoveNode, ClearMarker,
                            MarkNodeAsDirty, EnableMarking, FreeNode, heap
        <4>3. CASE WalkDirty
          BY <4>3 DEF WalkDirty
        <4>4. CASE Continue
          BY <1>3, <4>4 DEF Continue, Relinking, Descend, RefuseDuplicate, Slide, RecolourUncle,
                      RedRedDone, Successor, RecolourSibling, BlackBlackDone, heap
        <4> QED BY <4>1, <4>2, <4>3, <4>4 DEF Next
      <3> QED BY <2>2, <3>1 DEF UnlinkedBare
    <2> QED BY <2>3, <2>4
  <1> QED BY <1>2, <1>3

LEMMA BareHolds == Spec => []UnlinkedBare
  <1>1. Init => UnlinkedBare
    BY DEF Init, UnlinkedBare
  <1> QED BY <1>1, StepBare, InvariantHolds, PTL DEF Spec

-----------------------------------------------------------------------------
(* Loops.  At n a loop goes on to next[n] until it stops and answers out[n]. *)

Loops(f, Stop, next, out) ==
    \A n \in Ref : f[n] = IF n \in Stop THEN out[n] ELSE f[next[n]]
Ending(Stop, next, out) ==
    /\ next \in [Ref -> Ref] /\ out \in [Ref -> Ref]
    /\ \E M \in [Ref -> Nat] : \A n \in Ref : n \notin Stop => M[next[n]] < M[n]

LEMMA LoopEnds ==
    ASSUME NEW Stop, NEW next, NEW out, Ending(Stop, next, out)
    PROVE  /\ \E f \in [Ref -> Ref] : Loops(f, Stop, next, out)
           /\ \A f : Loops(f, Stop, next, out) => \A n \in Ref : f[n] \in Ref
  <1> DEFINE V == Ref
             G == [f \in [Ref -> V] |-> [n \in Ref |-> IF n \in Stop THEN out[n] ELSE f[next[n]]]]
             S == Ref
  <1>0. PICK M \in [Ref -> Nat] : \A n \in Ref : n \notin Stop => M[next[n]] < M[n]
    BY DEF Ending
  <1> next \in [Ref -> Ref] /\ out \in [Ref -> Ref]
    BY DEF Ending
  <1>1. G \in [[S -> V] -> [S -> V]]
    OBVIOUS
  <1>2. ASSUME NEW f \in [S -> V], NEW g \in [S -> V], NEW n \in S,
               \A m \in S : M[m] < M[n] => f[m] = g[m]
        PROVE  G[f][n] = G[g][n]
    BY <1>0, <1>2
  <1>3. Descends(G, S, V, M)
    <2> HIDE DEF G, S, V
    <2> QED BY <1>1, <1>2 DEF Descends
  <1>4. V # {} /\ M \in [S -> Nat]
    OBVIOUS
  <1>5. PICK f \in [S -> V] : f = G[f]
    <2> HIDE DEF G, S, V
    <2> QED BY <1>3, <1>4, RecursionExists
  <1>6. \A n \in Ref : f[n] = IF n \in Stop THEN out[n] ELSE f[next[n]]
    BY <1>5
  <1>7. ASSUME NEW g, \A n \in Ref : g[n] = IF n \in Stop THEN out[n] ELSE g[next[n]]
        PROVE  \A n \in Ref : g[n] \in Ref
    <2> DEFINE D == {n \in Ref : g[n] \notin Ref}
    <2>1. SUFFICES ASSUME D # {} PROVE FALSE
      OBVIOUS
    <2>2. PICK n \in D : \A u \in D : M[n] <= M[u]
      <3>1. \A u \in D : M[u] \in Nat
        OBVIOUS
      <3> HIDE DEF D
      <3> QED BY <2>1, <3>1, LeastOf
    <2>3. n \in Ref /\ n \notin Stop /\ next[n] \in Ref /\ next[n] \in D
      BY <1>7, <2>2
    <2>4. M[next[n]] < M[n] /\ M[n] \in Nat /\ M[next[n]] \in Nat
      BY <1>0, <2>3
    <2> QED BY <2>2, <2>3, <2>4
  <1> QED BY <1>6, <1>7 DEF Loops

\* N falls along the child links, from the slots outside of the tree too.
LEMMA DownMeasure ==
    ASSUME NEW d \in [Ref -> Nat], NEW h \in [Ref -> Nat], InvariantBy(d, h), UnlinkedBare
    PROVE  \E M \in [Ref -> Nat] : \A n \in Node, s \in Side : M[child[n][s]] < M[n]
  <1>1. PICK N : Sinking(Linked, child, N)
    BY MeasureExists
  <1> DEFINE M == [n \in Ref |-> IF n \in Linked \cup {nil} THEN N[n] ELSE N[nil] + 1]
  <1>2. Linked \subseteq Node /\ N \in [Ref -> Nat]
    BY <1>1 DEF Sinking, Linked
  <1>3. M \in [Ref -> Nat]
    BY <1>2
  <1>4. ASSUME NEW n \in Node, NEW s \in Side PROVE M[child[n][s]] < M[n]
    <2>1. CASE n \in Linked
      <3>1. child[n][s] \in Linked \cup {nil} /\ N[child[n][s]] < N[n]
        BY <1>1, <2>1 DEF Sinking, InvariantBy, LinksOK
      <3>2. M[child[n][s]] = N[child[n][s]] /\ M[n] = N[n]
        BY <1>2, <2>1, <3>1
      <3> QED BY <3>1, <3>2
    <2>2. CASE n \notin Linked
      <3>1. child[n][s] = nil
        BY <2>2 DEF UnlinkedBare
      <3>2. M[nil] = N[nil] /\ M[n] = N[nil] + 1 /\ N[nil] \in Nat
        BY <1>2, <2>2
      <3> QED BY <3>1, <3>2
    <2> QED BY <2>1, <2>2
  <1> QED BY <1>3, <1>4

\* M falls where a node is the child of its parent, the sentinel included,
\* whose parent link remove_node may have left.
LEMMA UpMeasure ==
    ASSUME NEW d \in [Ref -> Nat], NEW h \in [Ref -> Nat], InvariantBy(d, h), UnlinkedBare
    PROVE  \E M \in [Ref -> Nat] : \A n \in Ref, s \in Side :
              parent[n] # nil /\ child[parent[n]][s] = n => M[parent[n]] < M[n]
  <1> DEFINE M == [n \in Ref |-> IF n \in Linked THEN d[n]
                                ELSE IF n = nil THEN d[parent[nil]] + 1 ELSE 0]
  <1>1. /\ TypeOK /\ LinksOK /\ Linked \subseteq Node /\ nil \notin Linked
        /\ parent \in [Ref -> Ref]
    BY DEF InvariantBy, Linked, TypeOK
  <1>2. M \in [Ref -> Nat]
    BY <1>1
  <1>3. ASSUME NEW n \in Ref, NEW s \in Side, parent[n] # nil, child[parent[n]][s] = n
        PROVE  M[parent[n]] < M[n]
    <2> DEFINE p == parent[n]
    <2>1. p \in Node
      BY <1>1, <1>3
    <2>2. CASE n = nil
      <3>1. M[n] = d[p] + 1 /\ d[p] \in Nat
        BY <1>1, <2>2
      <3>2. M[p] = d[p] \/ M[p] = 0
        BY <2>1
      <3> QED BY <3>1, <3>2
    <2>3. CASE n # nil
      <3>1. p \in Linked
        BY <1>3, <2>1, <2>3 DEF UnlinkedBare
      <3>2. n \in Linked /\ d[p] < d[n]
        BY <1>1, <1>3, <2>3, <3>1 DEF LinksOK, InvariantBy, Descending
      <3> QED BY <1>1, <3>1, <3>2
    <2> QED BY <2>2, <2>3
  <1> QED BY <1>2, <1>3

\* A step of the loop of find_leftmost_node and find_rightmost_node.
LEMMA OutermostIs ==
    ASSUME NEW d \in [Ref -> Nat], NEW h \in [Ref -> Nat], InvariantBy(d, h), UnlinkedBare,
           NEW s \in Side
    PROVE  \A n \in Ref : /\ Outermost(n, s) \in Ref
                          /\ Outermost(n, s) = IF child[n][s] = nil THEN n
                                               ELSE Outermost(child[n][s], s)
  <1>1. child \in [Ref -> [Side -> Ref]] /\ child[nil][s] = nil
    BY DEF InvariantBy, TypeOK, SentinelIntact
  <1>2. PICK M \in [Ref -> Nat] : \A n \in Node, r \in Side : M[child[n][r]] < M[n]
    BY DownMeasure
  <1> DEFINE Stop == {n \in Ref : child[n][s] = nil}
             next == [n \in Ref |-> child[n][s]]
             out  == [n \in Ref |-> n]
             down == CHOOSE f : f = [m \in Ref |-> IF child[m][s] = nil THEN m ELSE f[child[m][s]]]
  <1>3. Ending(Stop, next, out)
    <2>1. next \in [Ref -> Ref] /\ out \in [Ref -> Ref]
      BY <1>1
    <2>2. \A n \in Ref : n \notin Stop => M[next[n]] < M[n]
      BY <1>1, <1>2
    <2> HIDE DEF Stop, next, out
    <2> QED BY <2>1, <2>2 DEF Ending
  <1>4. /\ \E f \in [Ref -> Ref] : Loops(f, Stop, next, out)
        /\ \A f : Loops(f, Stop, next, out) => \A n \in Ref : f[n] \in Ref
    <2> HIDE DEF Stop, next, out
    <2> QED BY <1>3, LoopEnds
  <1>5. \E f : f = [m \in Ref |-> IF child[m][s] = nil THEN m ELSE f[child[m][s]]]
    <2>1. PICK f \in [Ref -> Ref] : Loops(f, Stop, next, out)
      BY <1>4
    <2>2. f = [m \in Ref |-> IF child[m][s] = nil THEN m ELSE f[child[m][s]]]
      BY <2>1 DEF Loops
    <2> QED BY <2>2
  <1>6. down = [m \in Ref |-> IF child[m][s] = nil THEN m ELSE down[child[m][s]]]
    BY <1>5
  <1>7. \A n : Outermost(n, s) = down[n]
    BY DEF Outermost
  <1> HIDE DEF down
  <1>8. Loops(down, Stop, next, out)
    BY <1>6 DEF Loops
  <1>9. \A n \in Ref : down[n] \in Ref
    <2> HIDE DEF Stop, next, out
    <2> QED BY <1>4, <1>8
  <1> QED BY <1>1, <1>6, <1>7, <1>9

\* A step of the bubbling up.
LEMMA ClimbIs ==
    ASSUME NEW d \in [Ref -> Nat], NEW h \in [Ref -> Nat], InvariantBy(d, h), UnlinkedBare,
           NEW s \in Side
    PROVE  \A n \in Ref : /\ Climb(n, s) \in Ref
                          /\ Climb(n, s) = IF parent[n] # nil /\ child[parent[n]][s] = n
                                           THEN Climb(parent[n], s) ELSE parent[n]
  <1>1. parent \in [Ref -> Ref]
    BY DEF InvariantBy, TypeOK
  <1>2. PICK M \in [Ref -> Nat] : \A n \in Ref, r \in Side :
              parent[n] # nil /\ child[parent[n]][r] = n => M[parent[n]] < M[n]
    BY UpMeasure
  <1> DEFINE Stop == {n \in Ref : ~(parent[n] # nil /\ child[parent[n]][s] = n)}
             next == parent
             up == CHOOSE f : f = [m \in Ref |-> IF parent[m] # nil /\ child[parent[m]][s] = m
                                                 THEN f[parent[m]] ELSE parent[m]]
  <1>3. Ending(Stop, next, next)
    <2>1. \A n \in Ref : n \notin Stop => M[next[n]] < M[n]
      BY <1>2
    <2> HIDE DEF Stop
    <2> QED BY <1>1, <2>1 DEF Ending
  <1>4. /\ \E f \in [Ref -> Ref] : Loops(f, Stop, next, next)
        /\ \A f : Loops(f, Stop, next, next) => \A n \in Ref : f[n] \in Ref
    <2> HIDE DEF Stop, next
    <2> QED BY <1>3, LoopEnds
  <1>5. \E f : f = [m \in Ref |-> IF parent[m] # nil /\ child[parent[m]][s] = m
                                  THEN f[parent[m]] ELSE parent[m]]
    <2>1. PICK f \in [Ref -> Ref] : Loops(f, Stop, next, next)
      BY <1>4
    <2>2. f = [m \in Ref |-> IF parent[m] # nil /\ child[parent[m]][s] = m
                             THEN f[parent[m]] ELSE parent[m]]
      BY <2>1 DEF Loops
    <2> QED BY <2>2
  <1>6. up = [m \in Ref |-> IF parent[m] # nil /\ child[parent[m]][s] = m
                            THEN up[parent[m]] ELSE parent[m]]
    BY <1>5
  <1>7. \A n : Climb(n, s) = up[n]
    BY DEF Climb
  <1> HIDE DEF up
  <1>8. Loops(up, Stop, next, next)
    BY <1>6 DEF Loops
  <1>9. \A n \in Ref : up[n] \in Ref
    <2> HIDE DEF Stop, next
    <2> QED BY <1>4, <1>8
  <1> QED BY <1>1, <1>6, <1>7, <1>9

-----------------------------------------------------------------------------
(* The walk of the subtree at n stands in the in-order behind lo nodes.    *)

Sits(seq, f, n, lo) ==
    /\ lo \in Nat /\ Len(seq) \in Nat
    /\ lo + Len(f[n]) <= Len(seq)
    /\ \A i \in 1 .. Len(f[n]) : seq[lo + i] = f[n][i]

\* So do the walks of the children l and r of n, on both sides of n.
SitsOn(seq, f, n, l, r, lo) ==
    LET a == Len(f[l])
        b == Len(f[r])
    IN  /\ a \in Nat /\ b \in Nat /\ Len(f[n]) = a + 1 + b /\ Len(seq) \in Nat
        /\ Sits(seq, f, l, lo)
        /\ seq[lo + a + 1] = n /\ lo + a + 1 \in 1 .. Len(seq)
        /\ Sits(seq, f, r, lo + a + 1)

LEMMA SitsBelow ==
    ASSUME NEW L, NEW ch, NEW f, Walks(L, ch, f), NEW n \in L, NEW seq,
           NEW lo, Sits(seq, f, n, lo)
    PROVE  SitsOn(seq, f, n, ch[n]["left"], ch[n]["right"], lo)
  <1> DEFINE l == f[ch[n]["left"]]
             r == f[ch[n]["right"]]
             j == f[n]
             a == Len(l)
             b == Len(r)
  <1>1. l \in Seq(L) /\ r \in Seq(L) /\ j = Join(l, n, r)
    BY WalkAt
  <1>2. IsJoin(j, l, n, r)
    <2> HIDE DEF l, r, j
    <2> QED BY <1>1, Joined
  <1>3. /\ a \in Nat /\ b \in Nat /\ Len(j) = a + 1 + b /\ Len(seq) \in Nat
        /\ lo \in Nat /\ lo + Len(j) <= Len(seq)
        /\ \A i \in 1 .. Len(j) : seq[lo + i] = j[i]
        /\ \A i \in 1 .. a : j[i] = l[i]
        /\ j[a + 1] = n
        /\ \A i \in 1 .. b : j[a + 1 + i] = r[i]
    <2> QED BY <1>2 DEF IsJoin, Sits
  <1> HIDE DEF l, r, j, a, b
  <1>4. /\ lo + a <= Len(seq) /\ lo + a + 1 \in 1 .. Len(seq)
        /\ \A i \in 1 .. a : seq[lo + i] = l[i]
        /\ seq[lo + a + 1] = n
    <2>1. \A i \in 1 .. a : i \in 1 .. Len(j)
      BY <1>3
    <2>2. a + 1 \in 1 .. Len(j) /\ lo + (a + 1) = lo + a + 1
      BY <1>3
    <2>3. seq[lo + (a + 1)] = j[a + 1]
      BY <1>3, <2>2
    <2>4. lo + a <= Len(seq) /\ lo + a + 1 \in 1 .. Len(seq)
      BY <1>3
    <2>5. \A i \in 1 .. a : seq[lo + i] = l[i]
      BY <1>3, <2>1
    <2>6. seq[lo + a + 1] = n
      BY <1>3, <2>2, <2>3
    <2> QED BY <2>4, <2>5, <2>6
  <1>5. ASSUME NEW i \in 1 .. b PROVE seq[(lo + a + 1) + i] = r[i]
    <2>1. a + 1 + i \in 1 .. Len(j) /\ lo + (a + 1 + i) = (lo + a + 1) + i
      BY <1>3
    <2>2. seq[lo + (a + 1 + i)] = j[a + 1 + i] /\ j[a + 1 + i] = r[i]
      BY <1>3, <2>1
    <2> QED BY <2>1, <2>2
  <1>6. lo + a + 1 \in Nat /\ (lo + a + 1) + b <= Len(seq)
    BY <1>3
  <1> QED BY <1>3, <1>4, <1>5, <1>6 DEF Sits, SitsOn, l, r, j, a, b

\* The walk of a subtree begins and ends at its outermost nodes.
LEMMA EndsOfWalk ==
    ASSUME NEW d \in [Ref -> Nat], NEW h \in [Ref -> Nat], InvariantBy(d, h), UnlinkedBare
    PROVE  \A n \in Linked : /\ Len(InOrderFrom[n]) \in Nat \ {0}
                             /\ InOrderFrom[n][1] = Outermost(n, "left")
                             /\ InOrderFrom[n][Len(InOrderFrom[n])] = Outermost(n, "right")
  <1> DEFINE f == InOrderFrom
             ch == child
             L == Linked
             Good(n) == /\ Len(f[n]) \in Nat \ {0}
                        /\ f[n][1] = Outermost(n, "left")
                        /\ f[n][Len(f[n])] = Outermost(n, "right")
             D == {n \in L : ~Good(n)}
  <1>1. PICK N : Sinking(L, ch, N)
    BY MeasureExists
  <1>2. /\ Walks(L, ch, f) /\ L \subseteq Node /\ nil \notin L
        /\ \A n \in L, s \in Side : ch[n][s] \in L \cup {nil}
    BY InOrderWalks DEF InvariantBy, Linked, LinksOK
  <1>3. \A s \in Side, n \in L : Outermost(n, s) = IF ch[n][s] = nil THEN n
                                                  ELSE Outermost(ch[n][s], s)
    BY <1>2, OutermostIs
  <1>4. f[nil] = <<>>
    BY <1>2, WalkOutside
  <1> HIDE DEF f, ch, L
  <1>5. SUFFICES ASSUME D # {} PROVE FALSE
    BY DEF f, L
  <1>6. PICK n \in D : \A u \in D : N[n] <= N[u]
    <2>1. \A u \in D : N[u] \in Nat
      BY <1>1, <1>2 DEF Sinking
    <2> HIDE DEF D
    <2> QED BY <1>5, <2>1, LeastOf
  <1>7. n \in L /\ ~Good(n)
    BY <1>6
  <1>8. ASSUME NEW s \in Side, ch[n][s] # nil PROVE Good(ch[n][s])
    <2>1. ch[n][s] \in L /\ N[ch[n][s]] < N[n] /\ N[n] \in Nat /\ N[ch[n][s]] \in Nat
      BY <1>1, <1>2, <1>7, <1>8 DEF Sinking
    <2> QED BY <1>6, <2>1
  <1> DEFINE l == f[ch[n]["left"]]
             r == f[ch[n]["right"]]
  <1>9. IsJoin(f[n], l, n, r)
    <2>1. l \in Seq(L) /\ r \in Seq(L) /\ f[n] = Join(l, n, r)
      BY <1>2, <1>7, WalkAt
    <2> HIDE DEF l, r
    <2> QED BY <1>7, <2>1, Joined
  <1>10. Len(f[n]) \in Nat \ {0}
    <2> HIDE DEF l, r
    <2> QED BY <1>9 DEF IsJoin
  <1>11. f[n][1] = Outermost(n, "left")
    <2>1. CASE ch[n]["left"] = nil
      <3>1. Len(l) = 0
        BY <1>4, <2>1
      <3>2. f[n][1] = n
        <4> HIDE DEF l, r
        <4> QED BY <1>9, <3>1 DEF IsJoin
      <3> QED BY <1>3, <1>7, <2>1, <3>2
    <2>2. CASE ch[n]["left"] # nil
      <3>1. Len(l) \in Nat \ {0} /\ l[1] = Outermost(ch[n]["left"], "left")
        BY <1>8, <2>2
      <3>2. f[n][1] = l[1]
        <4> HIDE DEF l, r
        <4> QED BY <1>9, <3>1 DEF IsJoin
      <3> QED BY <1>3, <1>7, <2>2, <3>1, <3>2
    <2> QED BY <2>1, <2>2
  <1>12. f[n][Len(f[n])] = Outermost(n, "right")
    <2>1. CASE ch[n]["right"] = nil
      <3>1. Len(r) = 0
        BY <1>4, <2>1
      <3>2. f[n][Len(f[n])] = n
        <4> HIDE DEF l, r
        <4> QED BY <1>9, <3>1 DEF IsJoin
      <3> QED BY <1>3, <1>7, <2>1, <3>2
    <2>2. CASE ch[n]["right"] # nil
      <3>1. Len(r) \in Nat \ {0} /\ r[Len(r)] = Outermost(ch[n]["right"], "right")
        BY <1>8, <2>2
      <3>2. f[n][Len(f[n])] = r[Len(r)]
        <4> HIDE DEF l, r
        <4> QED BY <1>9, <3>1 DEF IsJoin
      <3> QED BY <1>3, <1>7, <2>2, <3>1, <3>2
    <2> QED BY <2>1, <2>2
  <1> QED BY <1>7, <1>10, <1>11, <1>12

\* Where the walk of a subtree stands in the in-order, and that bubbling up
\* from its top leads to the nodes on either side of it.
LEMMA Framed ==
    ASSUME NEW d \in [Ref -> Nat], NEW h \in [Ref -> Nat], InvariantBy(d, h), UnlinkedBare
    PROVE  \A n \in Linked : \E lo :
              /\ Sits(InOrder, InOrderFrom, n, lo)
              /\ At(lo) = Climb(n, "left")
              /\ At(lo + Len(InOrderFrom[n]) + 1) = Climb(n, "right")
  <1> DEFINE f == InOrderFrom
             ch == child
             L == Linked
             seq == InOrder
             Good(n, lo) == /\ Sits(seq, f, n, lo)
                            /\ At(lo) = Climb(n, "left")
                            /\ At(lo + Len(f[n]) + 1) = Climb(n, "right")
             D == {n \in L : ~\E lo : Good(n, lo)}
  <1>1. /\ Walks(L, ch, f) /\ L \subseteq Node /\ nil \notin L
        /\ \A n \in L, s \in Side : ch[n][s] # nil => ch[n][s] \in L /\ parent[ch[n][s]] = n
        /\ \A n \in L : ch[n]["left"] = ch[n]["right"] => ch[n]["left"] = nil
        /\ \A n \in L : IF n = root THEN parent[n] = nil
                        ELSE parent[n] \in L /\ \E s \in Side : ch[parent[n]][s] = n
        /\ \A n \in L, s \in Side : ch[n][s] # nil => d[n] < d[ch[n][s]]
    BY InOrderWalks DEF InvariantBy, Linked, LinksOK, Descending
  <1>2. \A s \in Side, n \in L : Climb(n, s) = IF parent[n] # nil /\ ch[parent[n]][s] = n
                                              THEN Climb(parent[n], s) ELSE parent[n]
    BY <1>1, ClimbIs
  <1>3. seq \in Seq(L) /\ seq = f[root] /\ Len(seq) \in Nat /\ DOMAIN seq = 1 .. Len(seq)
    BY InOrderMeetsAll, LenProperties DEF InOrder
  <1>4. \A i : At(i) = IF i \in 1 .. Len(seq) THEN seq[i] ELSE nil
    BY <1>3 DEF At, AtIn
  <1> HIDE DEF f, ch, L, seq
  <1>5. SUFFICES ASSUME D # {} PROVE FALSE
    BY DEF f, L, seq
  <1>6. PICK n \in D : \A u \in D : d[n] <= d[u]
    <2>1. \A u \in D : d[u] \in Nat
      BY <1>1
    <2> HIDE DEF D
    <2> QED BY <1>5, <2>1, LeastOf
  <1>7. n \in L /\ \A lo : ~Good(n, lo)
    BY <1>6
  <1>8. CASE n = root
    <2>1. Sits(seq, f, n, 0)
      BY <1>3, <1>8 DEF Sits
    <2>2. At(0) = nil /\ At(0 + Len(f[n]) + 1) = nil
      BY <1>3, <1>4, <1>8
    <2>3. Climb(n, "left") = nil /\ Climb(n, "right") = nil
      BY <1>1, <1>2, <1>7, <1>8
    <2> QED BY <1>7, <2>1, <2>2, <2>3
  <1>9. CASE n # root
    <2> DEFINE p == parent[n]
    <2>1. PICK s \in Side : p \in L /\ ch[p][s] = n /\ p # nil /\ ch[p][Other(s)] # n
      BY <1>1, <1>7, <1>9 DEF Other
    <2>2. PICK lo : Good(p, lo)
      <3>1. d[p] < d[n] /\ d[p] \in Nat /\ d[n] \in Nat
        BY <1>1, <1>7, <2>1
      <3> QED BY <1>6, <2>1, <3>1
    <2> DEFINE a == Len(f[ch[p]["left"]])
               b == Len(f[ch[p]["right"]])
    <2>3. /\ a \in Nat /\ b \in Nat /\ Len(f[p]) = a + 1 + b /\ lo \in Nat
          /\ Sits(seq, f, ch[p]["left"], lo)
          /\ seq[lo + a + 1] = p /\ lo + a + 1 \in 1 .. Len(seq)
          /\ Sits(seq, f, ch[p]["right"], lo + a + 1)
      <3>1. lo \in Nat /\ Sits(seq, f, p, lo)
        BY <2>2 DEF Sits
      <3>2. Walks(L, ch, f) /\ p \in L /\ seq \in Seq(L)
        BY <1>1, <1>3, <2>1
      <3>3. SitsOn(seq, f, p, ch[p]["left"], ch[p]["right"], lo)
        <4> HIDE DEF p
        <4> QED BY <3>1, <3>2, SitsBelow
      <3> QED BY <3>1, <3>3 DEF SitsOn
    <2>4. At(lo + a + 1) = p
      BY <1>4, <2>3
    <2>5. CASE s = "left"
      <3>1. Climb(n, "left") = Climb(p, "left") /\ Climb(n, "right") = p
        BY <1>2, <1>7, <2>1, <2>5 DEF Other
      <3>2. Len(f[n]) = a /\ Sits(seq, f, n, lo)
        BY <2>1, <2>3, <2>5
      <3>3. Good(n, lo)
        BY <2>2, <2>4, <3>1, <3>2
      <3> QED BY <1>7, <3>3
    <2>6. CASE s = "right"
      <3>1. Climb(n, "right") = Climb(p, "right") /\ Climb(n, "left") = p
        BY <1>2, <1>7, <2>1, <2>6 DEF Other
      <3>2. Len(f[n]) = b /\ Sits(seq, f, n, lo + a + 1)
        BY <2>1, <2>3, <2>6
      <3>3. (lo + a + 1) + Len(f[n]) + 1 = lo + Len(f[p]) + 1
        <4> HIDE DEF a, b
        <4> QED BY <2>3, <3>2
      <3>4. Good(n, lo + a + 1)
        BY <2>2, <2>4, <3>1, <3>2, <3>3
      <3> QED BY <1>7, <3>4
    <2> QED BY <2>5, <2>6
  <1> QED BY <1>8, <1>9

\* The neighbours of the i-th node in order.
LEMMA NeighboursAre ==
    ASSUME NEW d \in [Ref -> Nat], NEW h \in [Ref -> Nat], InvariantBy(d, h), UnlinkedBare
    PROVE  /\ Outermost(root, "left") = At(1)
           /\ Outermost(root, "right") = At(Len(InOrder))
           /\ \A i \in DOMAIN InOrder : /\ Neighbour(At(i), "right") = At(i + 1)
                                        /\ Neighbour(At(i), "left") = At(i - 1)
  <1> DEFINE f == InOrderFrom
             ch == child
             L == Linked
             seq == InOrder
  <1>1. /\ Walks(L, ch, f) /\ L \subseteq Node /\ nil \notin L
        /\ \A n \in L, s \in Side : ch[n][s] # nil => ch[n][s] \in L
        /\ root \in Ref /\ (root # nil => root \in L) /\ ch[nil]["left"] = nil /\ ch[nil]["right"] = nil
    <2>1. Walks(L, ch, f) /\ TypeOK /\ LinksOK /\ SentinelIntact
      BY InOrderWalks DEF InvariantBy
    <2> QED BY <2>1 DEF Linked, LinksOK, SentinelIntact, TypeOK
  <1>2. seq \in Seq(L) /\ seq = f[root] /\ Len(seq) \in Nat /\ DOMAIN seq = 1 .. Len(seq)
    BY InOrderMeetsAll, LenProperties DEF InOrder
  <1>3. OnceEach(seq) /\ Elements(seq) = L
    BY <1>1, InOrderMeetsAll DEF InOrder
  <1>4. \A i : At(i) = IF i \in 1 .. Len(seq) THEN seq[i] ELSE nil
    BY <1>2 DEF At, AtIn
  <1>5. \A n \in L : /\ Len(f[n]) \in Nat \ {0}
                     /\ f[n][1] = Outermost(n, "left")
                     /\ f[n][Len(f[n])] = Outermost(n, "right")
    BY EndsOfWalk
  <1>6. Outermost(nil, "left") = nil /\ Outermost(nil, "right") = nil
    BY <1>1, OutermostIs
  <1>7. f[nil] = <<>>
    BY <1>1, WalkOutside
  <1>8. \A n \in L : \E lo : /\ Sits(seq, f, n, lo)
                            /\ At(lo) = Climb(n, "left")
                            /\ At(lo + Len(f[n]) + 1) = Climb(n, "right")
    BY Framed
  <1> HIDE DEF f, ch, L, seq
  <1>9. Outermost(root, "left") = At(1) /\ Outermost(root, "right") = At(Len(seq))
    <2>1. CASE root = nil
      BY <1>2, <1>4, <1>6, <1>7, <2>1
    <2>2. CASE root # nil
      <3>1. Len(seq) \in Nat \ {0} /\ seq[1] = Outermost(root, "left")
            /\ seq[Len(seq)] = Outermost(root, "right")
        BY <1>1, <1>2, <1>5, <2>2
      <3>2. 1 \in 1 .. Len(seq) /\ Len(seq) \in 1 .. Len(seq)
        BY <3>1
      <3> QED BY <1>4, <3>1, <3>2
    <2> QED BY <2>1, <2>2
  <1>10. ASSUME NEW i \in DOMAIN seq
         PROVE  Neighbour(At(i), "right") = At(i + 1) /\ Neighbour(At(i), "left") = At(i - 1)
    <2> DEFINE n == seq[i]
               l == ch[n]["left"]
               r == ch[n]["right"]
               a == Len(f[l])
               b == Len(f[r])
    <2>1. n \in L /\ At(i) = n /\ i \in 1 .. Len(seq)
      BY <1>2, <1>3, <1>4 DEF Elements
    <2>2. PICK lo : /\ Sits(seq, f, n, lo)
                    /\ At(lo) = Climb(n, "left")
                    /\ At(lo + Len(f[n]) + 1) = Climb(n, "right")
      BY <1>8, <2>1
    <2>3. /\ a \in Nat /\ b \in Nat /\ Len(f[n]) = a + 1 + b
          /\ Sits(seq, f, l, lo)
          /\ seq[lo + a + 1] = n /\ lo + a + 1 \in 1 .. Len(seq)
          /\ Sits(seq, f, r, lo + a + 1)
      <3>1. Walks(L, ch, f) /\ n \in L /\ seq \in Seq(L) /\ Sits(seq, f, n, lo)
        BY <1>1, <1>2, <2>1, <2>2
      <3>2. SitsOn(seq, f, n, ch[n]["left"], ch[n]["right"], lo)
        <4> HIDE DEF n
        <4> QED BY <3>1, SitsBelow
      <3> QED BY <3>2 DEF SitsOn
    <2>4. i = lo + a + 1 /\ lo \in Nat
      BY <1>2, <1>3, <2>1, <2>2, <2>3 DEF OnceEach, Sits
    <2>5. l \in L \cup {nil} /\ r \in L \cup {nil}
      BY <1>1, <2>1
    <2>6. Neighbour(n, "right") = At(i + 1)
      <3>1. CASE r = nil
        <4>1. b = 0 /\ Neighbour(n, "right") = Climb(n, "right")
          BY <1>7, <3>1 DEF Neighbour, ch
        <4>2. lo + Len(f[n]) + 1 = i + 1
          <5> HIDE DEF n, a, b
          <5> QED BY <2>3, <2>4, <4>1
        <4> QED BY <2>2, <4>1, <4>2
      <3>2. CASE r # nil
        <4>1. Neighbour(n, "right") = Outermost(r, "left")
          BY <3>2 DEF Neighbour, ch, Other
        <4>2. b \in Nat \ {0} /\ f[r][1] = Outermost(r, "left")
          BY <1>5, <2>5, <3>2
        <4>3. seq[i + 1] = f[r][1] /\ i + 1 \in 1 .. Len(seq)
          <5>1. i + 1 = lo + a + 1 + 1 /\ 1 \in 1 .. b /\ lo + a + 1 + b <= Len(seq)
            <6>1. lo + a + 1 + b <= Len(seq)
              BY <2>3 DEF Sits
            <6> HIDE DEF n, a, l, r
            <6> QED BY <2>4, <4>2, <6>1
          <5>2. seq[lo + a + 1 + 1] = f[r][1]
            BY <2>3, <5>1 DEF Sits
          <5>3. i + 1 \in 1 .. Len(seq)
            <6> HIDE DEF n, a, b, l, r
            <6> QED BY <1>2, <2>1, <2>3, <2>4, <4>2, <5>1
          <5> QED BY <5>1, <5>2, <5>3
        <4> QED BY <1>4, <4>1, <4>2, <4>3
      <3> QED BY <3>1, <3>2
    <2>7. Neighbour(n, "left") = At(i - 1)
      <3>1. CASE l = nil
        <4>1. a = 0 /\ Neighbour(n, "left") = Climb(n, "left")
          BY <1>7, <3>1 DEF Neighbour, ch
        <4>2. lo = i - 1
          <5> HIDE DEF n, a, b
          <5> QED BY <2>3, <2>4, <4>1
        <4> QED BY <2>2, <4>1, <4>2
      <3>2. CASE l # nil
        <4>1. Neighbour(n, "left") = Outermost(l, "right")
          BY <3>2 DEF Neighbour, ch, Other
        <4>2. a \in Nat \ {0} /\ f[l][a] = Outermost(l, "right")
          BY <1>5, <2>5, <3>2
        <4>3. seq[i - 1] = f[l][a] /\ i - 1 \in 1 .. Len(seq)
          <5>1. i - 1 = lo + a /\ i - 1 \in 1 .. Len(seq) /\ a \in 1 .. a
            <6> HIDE DEF n, a, l, r
            <6> QED BY <1>2, <2>1, <2>3, <2>4, <4>2
          <5>2. seq[lo + a] = f[l][a]
            BY <2>3, <5>1 DEF Sits
          <5> QED BY <5>1, <5>2
        <4> QED BY <1>4, <4>1, <4>2, <4>3
      <3> QED BY <3>1, <3>2
    <2> QED BY <2>1, <2>6, <2>7
  <1> QED BY <1>9, <1>10 DEF seq

\* next_node and previous_node follow the in-order in both directions, in
\* trees of every size, between two calls and at every step inside them.
THEOREM NeighboursAgree == Spec => []NeighboursFollowOrder
  <1>1. IInv /\ UnlinkedBare => NeighboursFollowOrder
    <2> SUFFICES ASSUME IInv, UnlinkedBare PROVE NeighboursFollowOrder
      OBVIOUS
    <2>1. PICK d \in [Ref -> Nat], h \in [Ref -> Nat] : InvariantBy(d, h)
      BY DEF IInv
    <2> QED BY <2>1, NeighboursAre DEF NeighboursFollowOrder, At, AtIn
  <1> QED BY <1>1, InvariantHolds, BareHolds, PTL

-----------------------------------------------------------------------------
(* The searches.                                                           *)

\* A step of the loop of find_node, and of find_node_equal_or_greater.
FindsDown(down, k) ==
    \A n \in Ref : down[n] = IF n = nil \/ value[n] = k THEN n
                             ELSE down[child[n][WayFrom(k, n)]]
FindsGreaterDown(down, k) ==
    \A n \in Ref : down[n] = IF n = nil \/ value[n] = k THEN n
                             ELSE IF child[n][WayFrom(k, n)] # nil
                             THEN down[child[n][WayFrom(k, n)]]
                             ELSE IF WayFrom(k, n) = "left" THEN n
                             ELSE Climb(n, "right")

LEMMA FindNodeIs ==
    ASSUME NEW d \in [Ref -> Nat], NEW h \in [Ref -> Nat], InvariantBy(d, h), UnlinkedBare,
           NEW k
    PROVE  \E down : FindNode(k) = down[root] /\ FindsDown(down, k)
  <1>1. child \in [Ref -> [Side -> Ref]]
    BY DEF InvariantBy, TypeOK
  <1>2. PICK M \in [Ref -> Nat] : \A n \in Node, r \in Side : M[child[n][r]] < M[n]
    BY DownMeasure
  <1>3. \A n : WayFrom(k, n) \in Side
    BY DEF WayFrom
  <1> DEFINE Stop == {n \in Ref : n = nil \/ value[n] = k}
             next == [n \in Ref |-> child[n][WayFrom(k, n)]]
             out  == [n \in Ref |-> n]
             down == CHOOSE f : f = [m \in Ref |-> IF m = nil \/ value[m] = k THEN m
                                                   ELSE f[child[m][WayFrom(k, m)]]]
  <1>4. Ending(Stop, next, out)
    <2>1. next \in [Ref -> Ref] /\ out \in [Ref -> Ref]
      BY <1>1, <1>3
    <2>2. \A n \in Ref : n \notin Stop => M[next[n]] < M[n]
      BY <1>2, <1>3
    <2> HIDE DEF Stop, next, out
    <2> QED BY <2>1, <2>2 DEF Ending
  <1>5. \E f \in [Ref -> Ref] : Loops(f, Stop, next, out)
    <2> HIDE DEF Stop, next, out
    <2> QED BY <1>4, LoopEnds
  <1>6. \E f : f = [m \in Ref |-> IF m = nil \/ value[m] = k THEN m
                                  ELSE f[child[m][WayFrom(k, m)]]]
    <2>1. PICK f \in [Ref -> Ref] : Loops(f, Stop, next, out)
      BY <1>5
    <2>2. f = [m \in Ref |-> IF m = nil \/ value[m] = k THEN m
                             ELSE f[child[m][WayFrom(k, m)]]]
      BY <2>1 DEF Loops
    <2> QED BY <2>2
  <1>7. down = [m \in Ref |-> IF m = nil \/ value[m] = k THEN m
                              ELSE down[child[m][WayFrom(k, m)]]]
    BY <1>6
  <1>8. FindNode(k) = down[root]
    BY DEF FindNode
  <1> HIDE DEF down
  <1>9. FindsDown(down, k)
    BY <1>7 DEF FindsDown
  <1> QED BY <1>8, <1>9

LEMMA FindGreaterIs ==
    ASSUME NEW d \in [Ref -> Nat], NEW h \in [Ref -> Nat], InvariantBy(d, h), UnlinkedBare,
           NEW k
    PROVE  \E down : FindEqualOrGreater(k) = down[root] /\ FindsGreaterDown(down, k)
  <1>1. child \in [Ref -> [Side -> Ref]]
    BY DEF InvariantBy, TypeOK
  <1>2. PICK M \in [Ref -> Nat] : \A n \in Node, r \in Side : M[child[n][r]] < M[n]
    BY DownMeasure
  <1>3. \A n : WayFrom(k, n) \in Side
    BY DEF WayFrom
  <1>0. \A n \in Ref : Climb(n, "right") \in Ref
    BY ClimbIs
  <1> DEFINE Stop == {n \in Ref : n = nil \/ value[n] = k \/ child[n][WayFrom(k, n)] = nil}
             next == [n \in Ref |-> child[n][WayFrom(k, n)]]
             out  == [n \in Ref |-> IF n = nil \/ value[n] = k THEN n
                                    ELSE IF WayFrom(k, n) = "left" THEN n
                                    ELSE Climb(n, "right")]
             down == CHOOSE f : f = [m \in Ref |->
                        IF m = nil \/ value[m] = k THEN m
                        ELSE IF child[m][WayFrom(k, m)] # nil
                        THEN f[child[m][WayFrom(k, m)]]
                        ELSE IF WayFrom(k, m) = "left" THEN m
                        ELSE Climb(m, "right")]
  <1>4. Ending(Stop, next, out)
    <2>1. next \in [Ref -> Ref] /\ out \in [Ref -> Ref]
      BY <1>0, <1>1, <1>3
    <2>2. \A n \in Ref : n \notin Stop => M[next[n]] < M[n]
      BY <1>2, <1>3
    <2> HIDE DEF Stop, next, out
    <2> QED BY <2>1, <2>2 DEF Ending
  <1>5. \E f \in [Ref -> Ref] : Loops(f, Stop, next, out)
    <2> HIDE DEF Stop, next, out
    <2> QED BY <1>4, LoopEnds
  <1>6. \E f : f = [m \in Ref |-> IF m = nil \/ value[m] = k THEN m
                                  ELSE IF child[m][WayFrom(k, m)] # nil
                                  THEN f[child[m][WayFrom(k, m)]]
                                  ELSE IF WayFrom(k, m) = "left" THEN m
                                  ELSE Climb(m, "right")]
    <2>1. PICK f \in [Ref -> Ref] : Loops(f, Stop, next, out)
      BY <1>5
    <2>2. f = [m \in Ref |-> IF m = nil \/ value[m] = k THEN m
                             ELSE IF child[m][WayFrom(k, m)] # nil
                             THEN f[child[m][WayFrom(k, m)]]
                             ELSE IF WayFrom(k, m) = "left" THEN m
                             ELSE Climb(m, "right")]
      BY <2>1 DEF Loops
    <2> QED BY <2>2
  <1>7. down = [m \in Ref |-> IF m = nil \/ value[m] = k THEN m
                              ELSE IF child[m][WayFrom(k, m)] # nil
                              THEN down[child[m][WayFrom(k, m)]]
                              ELSE IF WayFrom(k, m) = "left" THEN m
                              ELSE Climb(m, "right")]
    BY <1>6
  <1>8. FindEqualOrGreater(k) = down[root]
    BY DEF FindEqualOrGreater
  <1> HIDE DEF down
  <1> QED BY <1>7, <1>8 DEF FindsGreaterDown

\* Below every node the search for k meets a node with that value if there is
\* one: equal values may stand on both sides of one another, but not of others.
LEMMA SearchMeets ==
    ASSUME NEW d \in [Ref -> Nat], NEW h \in [Ref -> Nat], InvariantBy(d, h), UnlinkedBare,
           NEW A \in [Ref -> SUBSET Int], Narrowing(A), NEW k \in Int
    PROVE  IF \E m \in Linked : value[m] = k
           THEN FindNode(k) \in Linked /\ value[FindNode(k)] = k
           ELSE FindNode(k) = nil
  <1> DEFINE f == InOrderFrom
             ch == child
             L == Linked
  <1>1. PICK N : Sinking(L, ch, N)
    BY MeasureExists
  <1>2. /\ Walks(L, ch, f) /\ L \subseteq Node /\ nil \notin L
        /\ \A n \in L, s \in Side : ch[n][s] \in L \cup {nil}
        /\ root \in L \cup {nil} /\ \A n \in L : value[n] \in Int
    <2>1. Walks(L, ch, f) /\ TypeOK /\ LinksOK
      BY InOrderWalks DEF InvariantBy
    <2> QED BY <2>1, ValueIsInt DEF Linked, LinksOK
  <1>3. PICK down : /\ FindNode(k) = down[root]
                    /\ \A n \in Ref : down[n] = IF n = nil \/ value[n] = k THEN n
                                                ELSE down[ch[n][WayFrom(k, n)]]
    <2>1. \E down : FindNode(k) = down[root] /\ FindsDown(down, k)
      BY FindNodeIs
    <2> QED BY <2>1 DEF FindsDown
  <1>4. \A n \in L, s \in Side : \A m \in Elements(f[ch[n][s]]) : m \in L /\ Fits(value[m], n, s)
    <2> SUFFICES ASSUME NEW n \in L, NEW s \in Side, NEW m \in Elements(f[ch[n][s]])
                 PROVE  m \in L /\ Fits(value[m], n, s)
      OBVIOUS
    <2>0. \A i \in Linked :
             /\ Ascends(InOrderFrom[i], value)
             /\ \A e \in Elements(InOrderFrom[i]) : e \in Linked /\ value[e] \in A[i]
             /\ \A t \in Side : \A e \in Elements(InOrderFrom[child[i][t]]) :
                   Fits(value[e], i, t)
      BY WalkAscends
    <2>1. \A i \in Linked : \A e \in Elements(InOrderFrom[i]) : e \in Linked
      BY <2>0
    <2>2. \A i \in Linked, t \in Side :
             \A e \in Elements(InOrderFrom[child[i][t]]) : Fits(value[e], i, t)
      BY <2>0
    <2>3. ch[n][s] \in L
      BY <1>2, WalkOutside
    <2>4. m \in L
      BY <2>1, <2>3
    <2> QED BY <2>2, <2>4
  <1> DEFINE Good(n) == IF \E m \in Elements(f[n]) : value[m] = k
                        THEN down[n] \in L /\ value[down[n]] = k
                        ELSE down[n] = nil
             D == {n \in L \cup {nil} : ~Good(n)}
  <1>5. Elements(f[root]) = L
    BY <1>2, InOrderMeetsAll DEF InOrder
  <1>6. Elements(f[nil]) = {}
    BY <1>2, WalkOutside
  <1>7. \A n \in L : Elements(f[n]) = Elements(f[ch[n]["left"]]) \cup {n}
                                       \cup Elements(f[ch[n]["right"]])
    <2> HIDE DEF f, ch, L
    <2> QED BY <1>2, WalkElements
  <1> HIDE DEF f, ch, L
  <1>8. SUFFICES ASSUME D # {} PROVE FALSE
    <2>1. D = {} => Good(root)
      BY <1>2
    <2> HIDE DEF D
    <2> QED BY <1>3, <1>5, <1>8, <2>1 DEF L
  <1>9. PICK n \in D : \A u \in D : N[n] <= N[u]
    <2>1. \A u \in D : N[u] \in Nat
      BY <1>1, <1>2 DEF Sinking
    <2> HIDE DEF D
    <2> QED BY <1>8, <2>1, LeastOf
  <1>10. n \in L /\ n # nil /\ ~Good(n)
    BY <1>3, <1>6, <1>9
  <1>11. value[n] # k
    BY <1>2, <1>3, <1>7, <1>10
  <1> DEFINE s == WayFrom(k, n)
  <1>12. s \in Side /\ down[n] = down[ch[n][s]]
    BY <1>2, <1>3, <1>10, <1>11 DEF WayFrom
  <1>13. Good(ch[n][s])
    <2>1. ch[n][s] \in L \cup {nil} /\ N[ch[n][s]] < N[n] /\ N[n] \in Nat /\ N[ch[n][s]] \in Nat
      BY <1>1, <1>2, <1>10, <1>12 DEF Sinking
    <2> HIDE DEF s
    <2> QED BY <1>9, <2>1
  <1>14. \A m \in Elements(f[n]) : value[m] = k => m \in Elements(f[ch[n][s]])
    <2> SUFFICES ASSUME NEW m \in Elements(f[n]), value[m] = k PROVE m \in Elements(f[ch[n][s]])
      OBVIOUS
    <2>1. PICK r \in Side : m \in Elements(f[ch[n][r]])
      BY <1>7, <1>10, <1>11
    <2>2. Fits(k, n, r) /\ value[n] \in Int
      BY <1>2, <1>4, <1>10, <2>1
    <2>3. r = s
      BY <1>11, <2>2 DEF Fits, WayFrom
    <2> QED BY <2>1, <2>3
  <1>15. \A m \in Elements(f[ch[n][s]]) : m \in Elements(f[n])
    BY <1>7, <1>10, <1>12
  <1> HIDE DEF s
  <1> QED BY <1>10, <1>12, <1>13, <1>14, <1>15

\* Where a comparator decides, find_node finds a key exactly if it is there.
THEOREM SearchesFind ==
    ASSUME ~Positional
    PROVE  Spec => []SearchFindsWhatIsThere
  <1>1. IInv /\ UnlinkedBare /\ OrderInv => SearchFindsWhatIsThere
    <2> SUFFICES ASSUME IInv, UnlinkedBare, OrderInv PROVE SearchFindsWhatIsThere
      OBVIOUS
    <2>1. PICK d \in [Ref -> Nat], h \in [Ref -> Nat] : InvariantBy(d, h)
      BY DEF IInv
    <2>2. PICK A \in [Ref -> SUBSET Int] : Narrowing(A)
      BY DEF OrderInv, OrderedBy
    <2>3. \A k \in Value : k \in Int
      BY ValueAssumption
    <2> QED BY <2>1, <2>2, <2>3, SearchMeets DEF SearchFindsWhatIsThere
  <1> QED BY <1>1, InvariantHolds, BareHolds, OrderHolds, PTL

\* The search for an equal or greater node meets an equal one if there is one.
LEMMA GreaterMeets ==
    ASSUME NEW d \in [Ref -> Nat], NEW h \in [Ref -> Nat], InvariantBy(d, h), UnlinkedBare,
           NEW A \in [Ref -> SUBSET Int], Narrowing(A), NEW k \in Int,
           \E m \in Linked : value[m] = k
    PROVE  FindEqualOrGreater(k) \in Linked /\ value[FindEqualOrGreater(k)] = k
  <1> DEFINE f == InOrderFrom
             ch == child
             L == Linked
  <1>1. PICK N : Sinking(L, ch, N)
    BY MeasureExists
  <1>2. /\ Walks(L, ch, f) /\ L \subseteq Node /\ nil \notin L
        /\ \A n \in L, s \in Side : ch[n][s] \in L \cup {nil}
        /\ root \in Ref /\ \A n \in L : value[n] \in Int
    <2>1. Walks(L, ch, f) /\ TypeOK /\ LinksOK
      BY InOrderWalks DEF InvariantBy
    <2> QED BY <2>1, ValueIsInt DEF Linked, LinksOK
  <1>3. PICK down : /\ FindEqualOrGreater(k) = down[root]
                    /\ \A n \in Ref : down[n] = IF n = nil \/ value[n] = k THEN n
                                                ELSE IF ch[n][WayFrom(k, n)] # nil
                                                THEN down[ch[n][WayFrom(k, n)]]
                                                ELSE IF WayFrom(k, n) = "left" THEN n
                                                ELSE Climb(n, "right")
    <2>1. \E down : FindEqualOrGreater(k) = down[root] /\ FindsGreaterDown(down, k)
      BY FindGreaterIs
    <2> QED BY <2>1 DEF FindsGreaterDown
  <1>4. \A n \in L, s \in Side : \A m \in Elements(f[ch[n][s]]) : Fits(value[m], n, s)
    BY WalkAscends
  <1>5. Elements(f[root]) = L
    BY <1>2, InOrderMeetsAll DEF InOrder
  <1>6. \A n \in Ref : n \notin L => Elements(f[n]) = {}
    <2> SUFFICES ASSUME NEW n \in Ref, n \notin L PROVE Elements(f[n]) = {}
      OBVIOUS
    <2> HIDE DEF f, ch, L
    <2> QED BY <1>2, WalkOutside
  <1>7. \A n \in L : Elements(f[n]) = Elements(f[ch[n]["left"]]) \cup {n}
                                       \cup Elements(f[ch[n]["right"]])
    <2> HIDE DEF f, ch, L
    <2> QED BY <1>2, WalkElements
  <1> DEFINE Has(n) == \E m \in Elements(f[n]) : value[m] = k
             D == {n \in L : Has(n) /\ ~(down[n] \in L /\ value[down[n]] = k)}
  <1>8. Has(root) /\ root \in L
    BY <1>2, <1>5, <1>6
  <1> HIDE DEF f, ch, L
  <1>9. SUFFICES ASSUME D # {} PROVE FALSE
    <2>1. D = {} => down[root] \in L /\ value[down[root]] = k
      BY <1>8
    <2> HIDE DEF D
    <2> QED BY <1>3, <1>9, <2>1 DEF L
  <1>10. PICK n \in D : \A u \in D : N[n] <= N[u]
    <2>1. \A u \in D : N[u] \in Nat
      BY <1>1, <1>2 DEF Sinking
    <2> HIDE DEF D
    <2> QED BY <1>9, <2>1, LeastOf
  <1>11. n \in L /\ n # nil /\ Has(n) /\ ~(down[n] \in L /\ value[down[n]] = k) /\ n \in Ref
    BY <1>2, <1>10
  <1>12. value[n] # k
    BY <1>3, <1>11
  <1> DEFINE s == WayFrom(k, n)
  <1>13. PICK m \in Elements(f[n]) : value[m] = k
    BY <1>11
  <1>14. s \in Side /\ m \in Elements(f[ch[n][s]])
    <2>1. PICK r \in Side : m \in Elements(f[ch[n][r]])
      BY <1>7, <1>11, <1>12, <1>13
    <2>2. Fits(k, n, r) /\ value[n] \in Int
      BY <1>2, <1>4, <1>11, <1>13, <2>1
    <2>3. r = s
      BY <1>12, <2>2 DEF Fits, WayFrom
    <2> QED BY <2>1, <2>3
  <1>15. ch[n][s] \in L /\ ch[n][s] # nil
    BY <1>2, <1>6, <1>11, <1>14
  <1>16. down[n] = down[ch[n][s]]
    BY <1>3, <1>11, <1>12, <1>15
  <1>17. Has(ch[n][s])
    BY <1>13, <1>14
  <1>18. N[ch[n][s]] < N[n] /\ N[n] \in Nat /\ N[ch[n][s]] \in Nat
    BY <1>1, <1>2, <1>11, <1>14 DEF Sinking
  <1> HIDE DEF s
  <1> QED BY <1>10, <1>11, <1>15, <1>16, <1>17, <1>18

\* What lies behind the first i nodes in order is greater than k, they are not.
Divides(seq, i, k) ==
    /\ i \in Nat /\ i <= Len(seq)
    /\ \A j \in 1 .. Len(seq) : IF j <= i THEN value[seq[j]] < k ELSE value[seq[j]] > k

\* Without an equal node the search answers with the first greater one.
LEMMA GreaterFirst ==
    ASSUME NEW d \in [Ref -> Nat], NEW h \in [Ref -> Nat], InvariantBy(d, h), UnlinkedBare,
           NEW A \in [Ref -> SUBSET Int], Narrowing(A), NEW k \in Int,
           \A m \in Linked : value[m] # k
    PROVE  \E i : Divides(InOrder, i, k) /\ FindEqualOrGreater(k) = At(i + 1)
  <1> DEFINE f == InOrderFrom
             ch == child
             L == Linked
             seq == InOrder
  <1>1. PICK N : Sinking(L, ch, N)
    BY MeasureExists
  <1>2. /\ Walks(L, ch, f) /\ L \subseteq Node /\ nil \notin L
        /\ \A n \in L, s \in Side : ch[n][s] \in L \cup {nil}
        /\ root \in L \cup {nil} /\ \A n \in L : value[n] \in Int
    <2>1. Walks(L, ch, f) /\ TypeOK /\ LinksOK
      BY InOrderWalks DEF InvariantBy
    <2> QED BY <2>1, ValueIsInt DEF Linked, LinksOK, TypeOK
  <1>3. PICK down : /\ FindEqualOrGreater(k) = down[root]
                    /\ \A n \in Ref : down[n] = IF n = nil \/ value[n] = k THEN n
                                                ELSE IF ch[n][WayFrom(k, n)] # nil
                                                THEN down[ch[n][WayFrom(k, n)]]
                                                ELSE IF WayFrom(k, n) = "left" THEN n
                                                ELSE Climb(n, "right")
    <2>1. \E down : FindEqualOrGreater(k) = down[root] /\ FindsGreaterDown(down, k)
      BY FindGreaterIs
    <2> QED BY <2>1 DEF FindsGreaterDown
  <1>4. seq \in Seq(L) /\ seq = f[root] /\ Len(seq) \in Nat /\ DOMAIN seq = 1 .. Len(seq)
        /\ OnceEach(seq) /\ Elements(seq) = L
    BY <1>2, InOrderMeetsAll, LenProperties DEF InOrder
  <1>5. \A i : At(i) = IF i \in 1 .. Len(seq) THEN seq[i] ELSE nil
    BY <1>4 DEF At, AtIn
  <1>6. \A i \in 1 .. Len(seq) : seq[i] \in L /\ value[seq[i]] \in Int
    BY <1>2, <1>4 DEF Elements
  <1>7. \A i, j \in 1 .. Len(seq) : i <= j => value[seq[i]] <= value[seq[j]]
    <2>1. CASE root \in L
      <3>1. Ascends(seq, value)
        BY <1>4, <2>1, WalkAscends
      <3> SUFFICES ASSUME NEW i \in 1 .. Len(seq), NEW j \in 1 .. Len(seq), i <= j
                   PROVE  value[seq[i]] <= value[seq[j]]
        OBVIOUS
      <3>2. CASE i = j
        BY <1>6, <3>2
      <3>3. CASE i # j
        <4>1. i < j
          BY <3>3
        <4> QED BY <1>4, <3>1, <4>1 DEF Ascends
      <3> QED BY <3>2, <3>3
    <2>2. CASE root = nil
      <3>1. seq = <<>>
        BY <1>2, <1>4, <2>2, WalkOutside
      <3> QED BY <3>1
    <2> QED BY <1>2, <2>1, <2>2
  <1>8. \A n \in L : \E lo : Sits(seq, f, n, lo) /\ At(lo + Len(f[n]) + 1) = Climb(n, "right")
    BY Framed
  <1>9. f[nil] = <<>>
    BY <1>2, WalkOutside
  <1>10. \A m \in L : value[m] # k
    OBVIOUS
  <1> HIDE DEF f, ch, L, seq
  <1> DEFINE Smaller(n, lo) ==
                /\ Sits(seq, f, n, lo)
                /\ \A i \in 1 .. Len(seq) : i <= lo => value[seq[i]] < k
                /\ \A i \in 1 .. Len(seq) : i > lo + Len(f[n]) => value[seq[i]] > k
             Answers(m) == \E i : Divides(seq, i, k) /\ m = At(i + 1)
             D == {n \in L : ~Answers(down[n]) /\ \E lo : Smaller(n, lo)}
  <1>11. CASE root = nil
    <2>1. seq = <<>> /\ Len(seq) = 0
      BY <1>4, <1>9, <1>11
    <2>2. down[root] = nil
      BY <1>3, <1>11
    <2>3. Divides(seq, 0, k) /\ At(1) = nil
      BY <1>5, <2>1 DEF Divides
    <2> QED BY <1>3, <2>2, <2>3 DEF seq
  <1>12. CASE root \in L
    <2>1. Smaller(root, 0)
      BY <1>4, <1>12 DEF Sits
    <2>2. SUFFICES ASSUME D # {} PROVE FALSE
      <3>1. D = {} => Answers(down[root])
        BY <1>12, <2>1
      <3> HIDE DEF D
      <3> QED BY <1>3, <2>2, <3>1 DEF seq
    <2>3. PICK n \in D : \A u \in D : N[n] <= N[u]
      <3>1. \A u \in D : N[u] \in Nat
        BY <1>1, <1>2 DEF Sinking
      <3> HIDE DEF D
      <3> QED BY <2>2, <3>1, LeastOf
    <2>4. PICK lo : Smaller(n, lo)
      BY <2>3
    <2>5. n \in L /\ n # nil /\ n \in Ref /\ value[n] # k /\ value[n] \in Int /\ ~Answers(down[n])
      BY <1>2, <1>10, <2>3
    <2> DEFINE l == ch[n]["left"]
               r == ch[n]["right"]
               a == Len(f[l])
               b == Len(f[r])
               pos == lo + a + 1
    <2>6. SitsOn(seq, f, n, l, r, lo)
      BY <1>2, <2>4, <2>5, SitsBelow
    <2>7. /\ a \in Nat /\ b \in Nat /\ lo \in Nat /\ Len(f[n]) = a + 1 + b
          /\ Sits(seq, f, l, lo) /\ Sits(seq, f, r, pos)
          /\ seq[pos] = n /\ pos \in 1 .. Len(seq)
      BY <2>4, <2>6 DEF SitsOn, Sits
    <2>8. l \in L \cup {nil} /\ r \in L \cup {nil}
      BY <1>2, <2>5
    <2>9. ASSUME NEW s \in Side, ch[n][s] # nil, NEW o, Smaller(ch[n][s], o)
          PROVE  Answers(down[ch[n][s]])
      <3>1. ch[n][s] \in L /\ N[ch[n][s]] < N[n] /\ N[n] \in Nat /\ N[ch[n][s]] \in Nat
        BY <1>1, <1>2, <2>5, <2>9 DEF Sinking
      <3>2. ch[n][s] \notin D
        <4> HIDE DEF D
        <4> QED BY <2>3, <3>1
      <3> QED BY <2>9, <3>1, <3>2
    <2>10. CASE k < value[n]
      <3>1. WayFrom(k, n) = "left"
        BY <2>10 DEF WayFrom
      <3>2. \A i \in 1 .. Len(seq) : i >= pos => value[seq[i]] > k
        <4> SUFFICES ASSUME NEW i \in 1 .. Len(seq), i >= pos PROVE value[seq[i]] > k
          OBVIOUS
        <4>1. value[n] <= value[seq[i]]
          <5> HIDE DEF pos
          <5> QED BY <1>7, <2>7
        <4> QED BY <1>6, <2>5, <2>10, <4>1
      <3>3. CASE l = nil
        <4>1. down[n] = n /\ a = 0
          BY <1>3, <1>9, <2>5, <3>1, <3>3
        <4>2. pos = lo + 1
          <5> HIDE DEF a
          <5> QED BY <2>7, <4>1
        <4>3. n = At(lo + 1)
          BY <1>5, <2>7, <4>2
        <4>4. lo \in Nat /\ lo <= Len(seq)
          BY <1>4, <2>7, <4>2
        <4>5. \A j \in 1 .. Len(seq) : IF j <= lo THEN value[seq[j]] < k ELSE value[seq[j]] > k
          <5> HIDE DEF pos
          <5> QED BY <2>4, <3>2, <4>2, <4>4
        <4>6. Divides(seq, lo, k)
          BY <4>4, <4>5 DEF Divides
        <4> QED BY <2>5, <4>1, <4>3, <4>6
      <3>4. CASE l # nil
        <4>1. \A i \in 1 .. Len(seq) : i > lo + a => value[seq[i]] > k
          <5> SUFFICES ASSUME NEW i \in 1 .. Len(seq), i > lo + a PROVE value[seq[i]] > k
            OBVIOUS
          <5>1. i >= pos
            <6> HIDE DEF a
            <6> QED BY <1>4, <2>7
          <5> QED BY <3>2, <5>1
        <4>2. Smaller(l, lo)
          BY <2>4, <2>7, <4>1
        <4>3. down[n] = down[l]
          BY <1>3, <2>5, <3>1, <3>4
        <4> QED BY <2>5, <2>9, <3>4, <4>2, <4>3
      <3> QED BY <3>3, <3>4
    <2>11. CASE k > value[n]
      <3>1. WayFrom(k, n) = "right"
        BY <2>5, <2>11 DEF WayFrom
      <3>2. \A i \in 1 .. Len(seq) : i <= pos => value[seq[i]] < k
        <4> SUFFICES ASSUME NEW i \in 1 .. Len(seq), i <= pos PROVE value[seq[i]] < k
          OBVIOUS
        <4>1. value[seq[i]] <= value[n]
          <5> HIDE DEF pos
          <5> QED BY <1>7, <2>7
        <4> QED BY <1>6, <2>5, <2>11, <4>1
      <3>3. CASE r = nil
        <4>1. down[n] = Climb(n, "right") /\ b = 0
          BY <1>3, <1>9, <2>5, <3>1, <3>3
        <4>2. PICK e : Sits(seq, f, n, e) /\ At(e + Len(f[n]) + 1) = Climb(n, "right")
          BY <1>8, <2>5
        <4>3. e = lo
          <5>1. SitsOn(seq, f, n, l, r, e)
            BY <1>2, <2>5, <4>2, SitsBelow
          <5>2. seq[e + a + 1] = n /\ e + a + 1 \in 1 .. Len(seq) /\ e \in Nat
            BY <4>2, <5>1 DEF SitsOn, Sits
          <5>3. e + a + 1 = lo + a + 1
            BY <1>4, <2>7, <5>2 DEF OnceEach
          <5> HIDE DEF a
          <5> QED BY <2>7, <5>2, <5>3
        <4>4. lo + Len(f[n]) = pos
          <5> HIDE DEF a, b
          <5> QED BY <2>7, <4>1
        <4>5. down[n] = At(pos + 1)
          BY <4>1, <4>2, <4>3, <4>4
        <4>6. \A j \in 1 .. Len(seq) : IF j <= pos THEN value[seq[j]] < k ELSE value[seq[j]] > k
          <5>1. \A j \in 1 .. Len(seq) : j > pos => value[seq[j]] > k
            BY <2>4, <4>4
          <5>2. \A j \in 1 .. Len(seq) : j <= pos \/ j > pos
            <6> HIDE DEF pos
            <6> QED BY <1>4, <2>7
          <5> HIDE DEF pos
          <5> QED BY <3>2, <5>1, <5>2
        <4>7. Divides(seq, pos, k)
          <5> HIDE DEF pos
          <5> QED BY <1>4, <2>7, <4>6 DEF Divides
        <4> HIDE DEF pos
        <4> QED BY <2>5, <4>5, <4>7
      <3>4. CASE r # nil
        <4>1. pos + b = lo + Len(f[n])
          <5> HIDE DEF a, b
          <5> QED BY <2>7
        <4>2. Smaller(r, pos)
          BY <2>4, <2>7, <3>2, <4>1
        <4>3. down[n] = down[r]
          BY <1>3, <2>5, <3>1, <3>4
        <4> QED BY <2>5, <2>9, <3>4, <4>2, <4>3
      <3> QED BY <3>3, <3>4
    <2> QED BY <2>5, <2>10, <2>11
  <1> QED BY <1>2, <1>11, <1>12

\* n is where a search for k ends: it holds k, or is behind all that are less.
Located(seq, k, n) ==
    \/ \E i \in DOMAIN seq : seq[i] = n /\ value[seq[i]] = k
    \/ \E i : Divides(seq, i, k) /\ n = AtIn(seq, i + 1)

\* n begins the range from k on, as SearchStartsRange has it.
BeginsRange(seq, k, n) ==
    LET from == {i \in DOMAIN seq : value[seq[i]] >= k}
    IN  IF from = {} THEN n = nil
        ELSE \E first, i \in from :
                /\ \A j \in from : first <= j
                /\ seq[i] = n
                /\ i = first \/ \A j \in first .. i : value[seq[j]] = k

\* In an ascending sequence the one is the other.
LEMMA RangeBegins ==
    ASSUME NEW seq, Len(seq) \in Nat, DOMAIN seq = 1 .. Len(seq),
           NEW k \in Int, \A j \in DOMAIN seq : value[seq[j]] \in Int, Ascends(seq, value),
           NEW n, Located(seq, k, n)
    PROVE  BeginsRange(seq, k, n)
  <1> DEFINE from == {i \in DOMAIN seq : value[seq[i]] >= k}
             c == Len(seq)
  <1>1. CASE \E i \in DOMAIN seq : seq[i] = n /\ value[seq[i]] = k
    <2>1. PICK i \in DOMAIN seq : seq[i] = n /\ value[seq[i]] = k
      BY <1>1
    <2>2. i \in from
      BY <2>1
    <2>3. PICK first \in from : \A j \in from : first <= j
      <3> DEFINE M == [m \in from |-> m]
      <3>1. \A t \in from : M[t] \in Nat
        OBVIOUS
      <3>2. \A t \in from : M[t] = t
        OBVIOUS
      <3> HIDE DEF from, M
      <3>3. PICK t \in from : \A u \in from : M[t] <= M[u]
        BY <2>2, <3>1, LeastOf
      <3> QED BY <3>2, <3>3
    <2>4. ASSUME NEW j \in first .. i PROVE value[seq[j]] = k
      <3>1. first \in 1 .. c /\ i \in 1 .. c /\ j \in 1 .. c /\ first <= j /\ j <= i
        BY <2>1, <2>3, <2>4
      <3>2. value[seq[first]] >= k /\ value[seq[first]] \in Int /\ value[seq[j]] \in Int
        BY <2>3, <3>1
      <3>3. value[seq[first]] <= value[seq[j]]
        <4>1. first < j \/ first = j
          BY <3>1
        <4> QED BY <3>1, <3>2, <4>1 DEF Ascends
      <3>4. value[seq[j]] <= k
        <4>1. j < i \/ j = i
          BY <3>1
        <4> QED BY <2>1, <3>1, <4>1 DEF Ascends
      <3> QED BY <3>2, <3>3, <3>4
    <2> QED BY <2>1, <2>2, <2>3, <2>4 DEF BeginsRange
  <1>2. CASE \E i : Divides(seq, i, k) /\ n = AtIn(seq, i + 1)
    <2>1. PICK i \in Nat : /\ i <= c /\ n = AtIn(seq, i + 1)
                           /\ \A j \in 1 .. c :
                                 IF j <= i THEN value[seq[j]] < k ELSE value[seq[j]] > k
      BY <1>2 DEF Divides
    <2>2. \A j \in 1 .. c : j \in from <=> j > i
      BY <2>1
    <2>3. from \subseteq 1 .. c
      OBVIOUS
    <2> HIDE DEF from
    <2>4. CASE i = c
      <3>1. from = {} /\ n = nil
        BY <2>1, <2>2, <2>3, <2>4 DEF AtIn
      <3> QED BY <3>1 DEF from, BeginsRange
    <2>5. CASE i # c
      <3>1. i + 1 \in 1 .. c
        <4>1. i \in Nat /\ c \in Nat /\ i <= c /\ i # c
          BY <2>1, <2>5
        <4> HIDE DEF c
        <4> QED BY <4>1
      <3>2. i + 1 \in from /\ seq[i + 1] = n /\ \A j \in from : i + 1 <= j
        BY <2>1, <2>2, <2>3, <3>1 DEF AtIn
      <3> QED BY <3>2 DEF from, BeginsRange
    <2> QED BY <2>4, <2>5
  <1> QED BY <1>1, <1>2 DEF Located

\* find_node_equal_or_greater begins a range where it has to, in a tree that a
\* comparator has ordered.
THEOREM RangesStart ==
    ASSUME ~Positional
    PROVE  Spec => []SearchStartsRange
  <1>1. IInv /\ UnlinkedBare /\ OrderInv => SearchStartsRange
    <2> SUFFICES ASSUME IInv, UnlinkedBare, OrderInv PROVE SearchStartsRange
      OBVIOUS
    <2>1. PICK d \in [Ref -> Nat], h \in [Ref -> Nat] : InvariantBy(d, h)
      BY DEF IInv
    <2>2. PICK A \in [Ref -> SUBSET Int] : Narrowing(A)
      BY DEF OrderInv, OrderedBy
    <2> DEFINE seq == InOrder
    <2>3. /\ seq \in Seq(Linked) /\ Elements(seq) = Linked
          /\ Len(seq) \in Nat /\ DOMAIN seq = 1 .. Len(seq)
          /\ \A j \in DOMAIN seq : seq[j] \in Linked /\ value[seq[j]] \in Int
      <3>1. seq \in Seq(Linked) /\ Elements(seq) = Linked
        BY <2>1, InOrderMeetsAll
      <3>2. \A m \in Linked : value[m] \in Int
        BY <2>1, ValueIsInt DEF InvariantBy
      <3> QED BY <3>1, <3>2, LenProperties DEF Elements
    <2>4. Ascends(seq, value)
      <3>1. CASE root \in Linked
        BY <2>1, <2>2, <3>1, WalkAscends DEF InOrder
      <3>2. CASE root \notin Linked
        <4>1. Walks(Linked, child, InOrderFrom) /\ root \in Ref
          BY <2>1, InOrderWalks DEF InvariantBy, TypeOK
        <4>2. seq = <<>>
          BY <3>2, <4>1, WalkOutside DEF InOrder
        <4> HIDE DEF seq
        <4> QED BY <4>2 DEF Ascends
      <3> QED BY <3>1, <3>2
    <2>5. ASSUME NEW k \in Value PROVE BeginsRange(seq, k, FindEqualOrGreater(k))
      <3> DEFINE n == FindEqualOrGreater(k)
      <3>1. k \in Int
        BY ValueAssumption
      <3>2. Located(seq, k, n)
        <4>1. CASE \E m \in Linked : value[m] = k
          <5>1. n \in Linked /\ value[n] = k
            BY <2>1, <2>2, <3>1, <4>1, GreaterMeets
          <5> HIDE DEF n, seq
          <5> QED BY <2>3, <5>1 DEF Elements, Located
        <4>2. CASE ~\E m \in Linked : value[m] = k
          <5>1. PICK i : Divides(seq, i, k) /\ n = At(i + 1)
            BY <2>1, <2>2, <3>1, <4>2, GreaterFirst
          <5> QED BY <5>1 DEF At, Located
        <4> QED BY <4>1, <4>2
      <3> HIDE DEF n, seq
      <3> QED BY <2>3, <2>4, <3>1, <3>2, RangeBegins DEF n
    <2> QED BY <2>5 DEF SearchStartsRange, BeginsRange
  <1> QED BY <1>1, InvariantHolds, BareHolds, OrderHolds, PTL

-----------------------------------------------------------------------------
(* The count.                                                              *)

LEMMA CountIs ==
    ASSUME NEW d \in [Ref -> Nat], NEW h \in [Ref -> Nat], InvariantBy(d, h), UnlinkedBare
    PROVE  \A n \in Linked \cup {nil} : Count(n) = Len(InOrderFrom[n])
  <1> DEFINE f == InOrderFrom
             ch == child
             L == Linked
             e == [n \in Ref |-> IF n = nil THEN 0 ELSE IF n \in L THEN Len(f[n]) ELSE 1]
             count == CHOOSE g : g = [m \in Ref |->
                          IF m = nil THEN 0
                          ELSE g[child[m]["left"]] + g[child[m]["right"]] + 1]
  <1>1. PICK N : Sinking(L, ch, N)
    BY MeasureExists
  <1>2. /\ Walks(L, ch, f) /\ L \subseteq Node /\ nil \notin L
        /\ \A n \in L, s \in Side : ch[n][s] \in L \cup {nil}
        /\ ch \in [Ref -> [Side -> Ref]]
    <2>1. Walks(L, ch, f) /\ TypeOK /\ LinksOK
      BY InOrderWalks DEF InvariantBy
    <2> QED BY <2>1 DEF Linked, LinksOK, TypeOK
  <1>3. \A n \in Node \ L, s \in Side : ch[n][s] = nil
    BY DEF UnlinkedBare
  <1>4. f[nil] = <<>>
    BY <1>2, WalkOutside
  <1>5. ASSUME NEW n \in L
        PROVE  /\ Len(f[n]) = Len(f[ch[n]["left"]]) + Len(f[ch[n]["right"]]) + 1
               /\ Len(f[ch[n]["left"]]) \in Nat /\ Len(f[ch[n]["right"]]) \in Nat
    <2> DEFINE l == f[ch[n]["left"]]
               r == f[ch[n]["right"]]
    <2>1. l \in Seq(L) /\ r \in Seq(L) /\ f[n] = Join(l, n, r)
      <3> HIDE DEF f, ch, L
      <3> QED BY <1>2, WalkAt
    <2>2. IsJoin(f[n], l, n, r)
      <3> HIDE DEF l, r, L
      <3> QED BY <2>1, Joined
    <2> HIDE DEF l, r
    <2>3. Len(f[n]) = Len(l) + Len(r) + 1 /\ Len(l) \in Nat /\ Len(r) \in Nat
      BY <2>2 DEF IsJoin
    <2> QED BY <2>3 DEF l, r
  <1>6. \E g : g = [m \in Ref |-> IF m = nil THEN 0
                                  ELSE g[child[m]["left"]] + g[child[m]["right"]] + 1]
    <2>1. ASSUME NEW n \in Ref
          PROVE  e[n] = IF n = nil THEN 0 ELSE e[ch[n]["left"]] + e[ch[n]["right"]] + 1
      <3> HIDE DEF f, ch, L
      <3>1. CASE n = nil
        BY <3>1
      <3>2. CASE n \in L
        <4>1. \A m \in L \cup {nil} : e[m] = Len(f[m])
          BY <1>2, <1>4
        <4>2. n # nil /\ e[n] = Len(f[n]) /\ e[ch[n]["left"]] = Len(f[ch[n]["left"]])
              /\ e[ch[n]["right"]] = Len(f[ch[n]["right"]])
          BY <1>2, <3>2, <4>1
        <4> QED BY <1>5, <3>2, <4>2
      <3>3. CASE n \in Node \ L
        <4>1. e[n] = 1 /\ e[nil] = 0 /\ ch[n]["left"] = nil /\ ch[n]["right"] = nil /\ n # nil
          BY <1>3, <3>3
        <4> QED BY <4>1
      <3> QED BY <3>1, <3>2, <3>3
    <2>2. e = [m \in Ref |-> e[m]]
      OBVIOUS
    <2> HIDE DEF e
    <2>3. e = [m \in Ref |-> IF m = nil THEN 0 ELSE e[child[m]["left"]] + e[child[m]["right"]] + 1]
      BY <2>1, <2>2
    <2> QED BY <2>3
  <1>7. count = [m \in Ref |-> IF m = nil THEN 0
                               ELSE count[child[m]["left"]] + count[child[m]["right"]] + 1]
    BY <1>6
  <1>8. \A n : Count(n) = count[n]
    BY DEF Count
  <1> HIDE DEF count, f, ch, L
  <1> DEFINE D == {n \in L \cup {nil} : count[n] # Len(f[n])}
  <1>9. SUFFICES ASSUME D # {} PROVE FALSE
    BY <1>8 DEF L, f
  <1>10. PICK n \in D : \A u \in D : N[n] <= N[u]
    <2>1. \A u \in D : N[u] \in Nat
      BY <1>1, <1>2 DEF Sinking
    <2> HIDE DEF D
    <2> QED BY <1>9, <2>1, LeastOf
  <1>11. n \in L /\ n # nil
    <2>1. count[nil] = 0
      BY <1>7
    <2> QED BY <1>2, <1>4, <1>10, <2>1
  <1>12. ASSUME NEW s \in Side PROVE count[ch[n][s]] = Len(f[ch[n][s]])
    <2>1. ch[n][s] \in L \cup {nil} /\ N[ch[n][s]] < N[n] /\ N[n] \in Nat /\ N[ch[n][s]] \in Nat
      BY <1>1, <1>2, <1>11 DEF Sinking
    <2> QED BY <1>10, <2>1
  <1>13. count[n] = count[ch[n]["left"]] + count[ch[n]["right"]] + 1
    BY <1>2, <1>7, <1>11 DEF ch
  <1>14. count[n] # Len(f[n])
    BY <1>10
  <1> QED BY <1>5, <1>11, <1>12, <1>13, <1>14

\* The count is the number of nodes in the tree.
THEOREM CountsAreExact == Spec => []CountIsExact
  <1>1. IInv /\ UnlinkedBare => CountIsExact
    <2> SUFFICES ASSUME IInv, UnlinkedBare PROVE Count(root) = Cardinality(Linked)
      BY DEF CountIsExact
    <2>1. PICK d \in [Ref -> Nat], h \in [Ref -> Nat] : InvariantBy(d, h)
      BY DEF IInv
    <2>2. root \in Linked \cup {nil} /\ root \in Ref
      BY <2>1 DEF InvariantBy, LinksOK, TypeOK
    <2>3. InOrder \in Seq(Linked) /\ Elements(InOrder) = Linked /\ OnceEach(InOrder)
      BY <2>1, <2>2, InOrderMeetsAll DEF InOrder
    <2>4. Cardinality(Linked) = Len(InOrder)
      BY <2>3, LengthCounts
    <2> QED BY <2>1, <2>2, <2>4, CountIs DEF InOrder
  <1> QED BY <1>1, InvariantHolds, BareHolds, PTL

-----------------------------------------------------------------------------
(* mulle_rbtree_done.                                                      *)

\* Between calls every allocated node is in the tree.
NoneLoose == Detached \subseteq IF op \in {"new", "insert"} THEN {at} ELSE {}

\* The tree while the container goes on.
TreeKnown == IInv /\ UnlinkedBare /\ OrderInv

LEMMA TreeKnownHolds == ContainerSpec => []TreeKnown
  <1>1. Spec => []TreeKnown
    BY InvariantHolds, BareHolds, OrderHolds, PTL DEF TreeKnown
  <1> QED BY <1>1, ContainerDrivesTree, PTL

LEMMA StepLoose ==
    ASSUME ContainerInv, CallKnows, NoneLoose, [ContainerNext]_allVars
    PROVE  NoneLoose'
  <1>1. TypeOK /\ CallOK /\ at \in (IF op = "done" THEN {at} ELSE Ref)
    BY TreeParts DEF ContainerInv, ContainerTypeOK
  <1>2. ASSUME NEW n \in Node, NEW v \in Payload[n], Add(n, v) PROVE NoneLoose'
    <2>1. Detached' \subseteq Detached \cup {n}
      BY <1>1, <1>2 DEF Add, NewNode, Detached, TypeOK
    <2> QED BY <1>2, <2>1 DEF Add, NoneLoose
  <1>3. CASE AddRefused
    <2>1. Detached' \subseteq Detached \ {at}
      BY <1>1, <1>3 DEF AddRefused, FreeNode, Detached, TypeOK
    <2> QED BY <1>3, <2>1 DEF AddRefused, NoneLoose
  <1>4. CASE AddTaken
    <2>1. at \notin Detached /\ UNCHANGED status
      BY <1>4 DEF AddTaken, CallKnows, Detached, vars
    <2> QED BY <1>4, <2>1 DEF AddTaken, NoneLoose, Detached
  <1>5. CASE AddInserts
    BY <1>5 DEF AddInserts, InsertNode, pool, NoneLoose, Detached
  <1>6. CASE LowLevel
    <2>1. Detached' \subseteq Detached
      BY <1>1, <1>6, PoolStep DEF LowLevel, Detached, Attach, Unlink, Freed, TypeOK, pool
    <2> QED BY <1>6, <2>1 DEF LowLevel, NoneLoose
  <1>7. CASE UNCHANGED status /\ op \notin {"new", "insert"} /\ op' \notin {"new", "insert"}
    BY <1>7 DEF NoneLoose, Detached
  <1>8. CASE UNCHANGED allVars
    BY <1>8 DEF NoneLoose, Detached, allVars, vars
  <1> QED
    BY <1>2, <1>3, <1>4, <1>5, <1>6, <1>7, <1>8
    DEF ContainerNext, Call, Proceed, Closed, Search, RemoveHeldNode, Done, SearchOn, SearchHit,
        SearchMiss, RemoveReleases, MarkNodeAsDirty, RemoveUnlinks, RemoveNode, RemoveDone,
        WalkAndReturn, Walk, WalkDirty, DoneReleases, DoneCloses, Answer, allVars, vars, pool

\* The nodes from the i-th on in order.
Ahead(i) == {InOrder[j] : j \in i .. Len(InOrder)}

\* What is retained while done goes through the tree.
StillRetained(i) ==
    /\ i \in 1 .. Len(InOrder) + 1
    /\ at = At(i)
    /\ \A v \in Value : retained[v] = Cardinality({n \in Ahead(i) : value[n] = v})

DoneInv ==
    /\ ~Owned => \A v \in Value : retained[v] = 0
    /\ op = "done" /\ Owned /\ ~UseExtra => \E i : StillRetained(i)
    /\ op = "closed" /\ (Owned => ~UseExtra) => \A v \in Value : retained[v] = 0

LEMMA InOrderKnown ==
    ASSUME IInv
    PROVE  /\ InOrder \in Seq(Linked) /\ Elements(InOrder) = Linked /\ OnceEach(InOrder)
           /\ Len(InOrder) \in Nat /\ DOMAIN InOrder = 1 .. Len(InOrder)
  <1>1. PICK d \in [Ref -> Nat], h \in [Ref -> Nat] : InvariantBy(d, h)
    BY DEF IInv
  <1>2. root \in Ref
    BY <1>1 DEF InvariantBy, TypeOK
  <1>3. InOrder \in Seq(Linked) /\ Elements(InOrder) = Linked /\ OnceEach(InOrder)
    BY <1>1, <1>2, InOrderMeetsAll DEF InOrder
  <1> QED BY <1>3, LenProperties

\* The tree is not touched: its in-order stays.
LEMMA InOrderSame ==
    ASSUME UNCHANGED vars
    PROVE  InOrder' = InOrder
  BY DEF InOrder, InOrderFrom, IsLinked, vars

LEMMA DoneBegins ==
    ASSUME ContainerInv, TreeKnown, RetainedOncePerNode, NoneLoose, Done, Owned, ~UseExtra
    PROVE  StillRetained(1)'
  <1> DEFINE seq == InOrder
  <1>1. /\ seq \in Seq(Linked) /\ Elements(seq) = Linked
        /\ Len(seq) \in Nat /\ DOMAIN seq = 1 .. Len(seq)
    BY InOrderKnown DEF TreeKnown
  <1>2. PICK d \in [Ref -> Nat], h \in [Ref -> Nat] : InvariantBy(d, h)
    BY DEF TreeKnown, IInv
  <1>3. Outermost(root, "left") = At(1)
    BY <1>2, NeighboursAre DEF TreeKnown
  <1>4. InOrder' = seq /\ UNCHANGED <<status, value, retained>> /\ at' = At(1)
    BY <1>3, InOrderSame DEF Done, vars
  <1>5. At(1)' = At(1)
    BY <1>4 DEF At, AtIn
  <1>6. Ahead(1)' = Linked
    BY <1>1, <1>4 DEF Ahead, Elements
  <1>7. ASSUME NEW v \in Value PROVE retained[v] = Cardinality({n \in Linked : value[n] = v})
    <2>1. retained[v] = Cardinality(Holding(v) \ Forsaken)
      BY DEF RetainedOncePerNode, Accounted, Done
    <2>2. Forsaken = {} /\ Detached = {}
      BY DEF Forsaken, Done, NoneLoose
    <2>3. TypeOK
      BY TreeParts DEF TreeKnown
    <2>4. Holding(v) = {n \in Linked : value[n] = v}
      BY <2>2, <2>3 DEF Holding, Linked, Detached, TypeOK
    <2> QED BY <2>1, <2>2, <2>4
  <1>8. 1 \in 1 .. Len(seq) + 1
    BY <1>1
  <1> QED BY <1>4, <1>5, <1>6, <1>7, <1>8 DEF StillRetained

LEMMA DoneGoesOn ==
    ASSUME ContainerInv, TreeKnown, DoneReleases, Owned, ~UseExtra,
           NEW i, StillRetained(i)
    PROVE  StillRetained(i + 1)'
  <1> DEFINE seq == InOrder
             n == seq[i]
             k == Len(seq)
             S(v) == {m \in Ahead(i) : value[m] = v}
             T(v) == {m \in Ahead(i + 1) : value[m] = v}
  <1>1. /\ seq \in Seq(Linked) /\ Elements(seq) = Linked /\ OnceEach(seq)
        /\ Len(seq) \in Nat /\ DOMAIN seq = 1 .. Len(seq)
    BY InOrderKnown DEF TreeKnown
  <1>2. PICK d \in [Ref -> Nat], h \in [Ref -> Nat] : InvariantBy(d, h)
    BY DEF TreeKnown, IInv
  <1>3. TypeOK
    BY TreeParts DEF TreeKnown
  <1>4. i \in 1 .. k /\ at = n /\ at # nil
    BY <1>1 DEF StillRetained, At, AtIn, DoneReleases
  <1>5. n \in Linked /\ value[n] \in Value /\ n \in Node
    BY <1>1, <1>3, <1>4 DEF Elements, TypeOK, Linked
  <1>6. Neighbour(at, "right") = At(i + 1)
    BY <1>1, <1>2, <1>4, NeighboursAre DEF TreeKnown, At, AtIn
  <1>7. InOrder' = seq /\ UNCHANGED <<status, value>> /\ at' = At(i + 1)
        /\ retained' = [retained EXCEPT ![value[n]] = @ - 1]
    BY <1>4, <1>6, InOrderSame DEF DoneReleases, NextToRelease, ReleasedNode, Released, vars
  <1>8. At(i + 1)' = At(i + 1) /\ Ahead(i + 1)' = Ahead(i + 1)
    BY <1>7 DEF At, AtIn, Ahead
  <1> HIDE DEF seq, k
  <1>9. /\ Ahead(i) = Ahead(i + 1) \cup {n} /\ n \notin Ahead(i + 1)
        /\ Ahead(i) \subseteq Linked
    <2>0. \A j : Ahead(j) = {seq[l] : l \in j .. k}
      BY DEF Ahead, seq, k
    <2>1. i .. k = ((i + 1) .. k) \cup {i} /\ i \notin (i + 1) .. k
          /\ (i + 1) .. k \subseteq 1 .. k /\ i .. k \subseteq 1 .. k
      BY <1>1, <1>4 DEF k
    <2>2. Ahead(i) = Ahead(i + 1) \cup {n}
      BY <2>0, <2>1
    <2>3. \A l \in (i + 1) .. k : seq[l] # n
      BY <1>1, <1>4, <2>1 DEF OnceEach, k
    <2>4. Ahead(i) \subseteq Elements(seq)
      BY <1>1, <2>0, <2>1 DEF Elements, k
    <2> QED BY <1>1, <2>0, <2>2, <2>3, <2>4
  <1>10. \A v : IsFiniteSet(T(v)) /\ Cardinality(T(v)) \in Nat
    <2>1. IsFiniteSet(Node)
      BY PoolAssumption
    <2>2. \A v : T(v) \subseteq Node
      BY <1>9 DEF Linked
    <2> QED BY <2>1, <2>2, FS_Subset, FS_CardinalityType
  <1>11. ASSUME NEW v \in Value PROVE retained'[v] = Cardinality(T(v))
    <2>1. retained[v] = Cardinality(S(v)) /\ retained \in [Value -> Int]
      BY DEF StillRetained, ContainerInv, ContainerTypeOK
    <2>2. CASE v = value[n]
      <3>1. S(v) = T(v) \cup {n} /\ n \notin T(v)
        BY <1>9, <2>2
      <3>2. Cardinality(S(v)) = Cardinality(T(v)) + 1
        <4> HIDE DEF S, T
        <4> QED BY <1>10, <3>1, FS_AddElement
      <3>3. retained'[v] = retained[v] - 1
        BY <1>7, <2>1, <2>2
      <3> HIDE DEF S, T
      <3> QED BY <1>10, <2>1, <3>2, <3>3
    <2>3. CASE v # value[n]
      <3>1. S(v) = T(v)
        BY <1>9, <2>3
      <3>2. retained'[v] = retained[v]
        BY <1>5, <1>7, <2>1, <2>3
      <3> HIDE DEF S, T
      <3> QED BY <2>1, <3>1, <3>2
    <2> QED BY <2>2, <2>3
  <1>12. \A v \in Value : T(v)' = T(v)
    BY <1>7, <1>8
  <1>13. i + 1 \in 1 .. k + 1 /\ Len(InOrder)' = k
    BY <1>1, <1>4, <1>7 DEF k
  <1> QED BY <1>7, <1>8, <1>11, <1>12, <1>13 DEF StillRetained

LEMMA StepDone ==
    ASSUME ContainerInv, TreeKnown, RetainedOncePerNode, NoneLoose, DoneInv,
           [ContainerNext]_allVars
    PROVE  DoneInv'
  <1>1. retained \in [Value -> Int]
    BY DEF ContainerInv, ContainerTypeOK
  <1>2. ~Owned => retained' = retained
    BY DEF ContainerNext, Call, Proceed, Closed, Add, Search, RemoveHeldNode, Done, AddInserts,
           AddRefused, AddTaken, SearchOn, SearchHit, SearchMiss, RemoveReleases, RemoveUnlinks,
           RemoveDone, WalkAndReturn, DoneReleases, DoneCloses, LowLevel, Retained, Released,
           ReleasedNode, ReleasedByRefusal, allVars
  <1>3. ~Owned => \A v \in Value : retained'[v] = 0
    BY <1>2 DEF DoneInv
  <1>4. ASSUME op' = "done", Owned, ~UseExtra PROVE \E i : StillRetained(i)'
    <2>1. CASE Done
      BY <1>4, <2>1, DoneBegins
    <2>2. CASE DoneReleases
      <3>1. PICK i : StillRetained(i)
        BY <1>4, <2>2 DEF DoneInv, DoneReleases
      <3> QED BY <1>4, <2>2, <3>1, DoneGoesOn
    <2>3. CASE UNCHANGED allVars
      <3>1. PICK i : StillRetained(i)
        BY <1>4, <2>3 DEF DoneInv, allVars
      <3>2. InOrder' = InOrder /\ UNCHANGED <<value, retained, at>>
        BY <2>3, InOrderSame DEF allVars, vars
      <3>3. StillRetained(i)'
        BY <3>1, <3>2 DEF StillRetained, At, AtIn, Ahead
      <3> QED BY <3>3
    <2>4. op' = "done" => Done \/ DoneReleases \/ UNCHANGED allVars
      BY DEF ContainerNext, Call, Proceed, Closed, Add, Search, RemoveHeldNode, AddInserts,
             AddRefused, AddTaken, SearchOn, SearchHit, SearchMiss, RemoveReleases,
             RemoveUnlinks, RemoveDone, WalkAndReturn, DoneCloses, LowLevel, Answer
    <2> QED BY <1>4, <2>1, <2>2, <2>3, <2>4
  <1>5. ASSUME op' = "closed", Owned, ~UseExtra PROVE \A v \in Value : retained'[v] = 0
    <2>1. CASE DoneCloses
      <3>1. PICK i : StillRetained(i)
        BY <1>5, <2>1 DEF DoneInv, DoneCloses
      <3>2. /\ InOrder \in Seq(Linked) /\ Elements(InOrder) = Linked /\ Len(InOrder) \in Nat
            /\ DOMAIN InOrder = 1 .. Len(InOrder)
        BY InOrderKnown DEF TreeKnown
      <3>3. \A j \in 1 .. Len(InOrder) : At(j) # nil
        BY <3>2 DEF At, AtIn, Elements, Linked
      <3>4. i = Len(InOrder) + 1
        BY <2>1, <3>1, <3>2, <3>3 DEF StillRetained, DoneCloses
      <3>5. Ahead(i) = {}
        BY <3>2, <3>4 DEF Ahead
      <3>6. \A v \in Value : retained[v] = Cardinality({})
        BY <3>1, <3>5 DEF StillRetained
      <3> QED BY <2>1, <3>6, FS_EmptySet DEF DoneCloses
    <2>2. CASE op = "closed" /\ retained' = retained
      BY <1>5, <2>2 DEF DoneInv
    <2>3. op' = "closed" => DoneCloses \/ (op = "closed" /\ retained' = retained)
      BY DEF ContainerNext, Call, Proceed, Closed, Add, Search, RemoveHeldNode, Done, AddInserts,
             AddRefused, AddTaken, SearchOn, SearchHit, SearchMiss, RemoveReleases,
             RemoveUnlinks, RemoveDone, WalkAndReturn, DoneReleases, LowLevel, Answer, allVars
    <2> QED BY <1>5, <2>1, <2>2, <2>3
  <1> QED BY <1>3, <1>4, <1>5 DEF DoneInv

\* mulle_rbtree_done releases all values, in a tree of any size and shape,
\* unless they are copied into the nodes: then their owner is not found.
THEOREM DoneIsComplete ==
    ASSUME ~(Owned /\ UseExtra)
    PROVE  ContainerSpec => []DoneReleasesAll
  <1>1. ContainerInit => NoneLoose /\ DoneInv
    BY DEF ContainerInit, Init, NoneLoose, Detached, DoneInv
  <1>2. DoneInv => DoneReleasesAll
    BY DEF DoneInv, DoneReleasesAll
  <1>3. ContainerSpec => []NoneLoose
    BY <1>1, StepLoose, KnowledgeHolds, PTL DEF ContainerSpec
  <1> QED
    BY <1>1, <1>2, <1>3, StepDone, ContainerInvHolds, TreeKnownHolds, RetentionBalanced, PTL
    DEF ContainerSpec

-----------------------------------------------------------------------------
(* Traversals.                                                             *)

\* The container goes on below a traversal as it does without one.
LEMMA TraversalDrives == [EnumNext]_enumVars => [ContainerNext]_allVars
  BY DEF EnumNext, Traverse, ContainerStep, ClientCall, ContainerNext, Call, enumVars

LEMMA TraversalKnown ==
    EnumSpec => [](ContainerInv /\ TreeKnown /\ CallKnows)
  <1>1. EnumSpec => ContainerSpec
    BY TraversalDrives, PTL DEF EnumSpec, EnumInit, ContainerSpec
  <1> QED BY <1>1, KnowledgeHolds, TreeKnownHolds, PTL

\* What a removal that runs below a traversal is going to unlink is not the
\* node at which the traversal stands.
RoverInv ==
    /\ mode \in {"off", "for", "walk", "callback"} /\ toward \in Side
    /\ rover \in Linked \cup {nil}
    /\ mode = "callback" => rover # nil
    /\ op \in {"release", "unlink"} \/ (op = "remove" /\ pc = "successor") => at # rover
    /\ op = "search" /\ wanted = "remove" => rover = nil \/ value[rover] # key
    /\ op \notin {"done", "closed"}

\* A step of the traversal itself leads along the in-order.
LEMMA RoverSteps ==
    ASSUME TreeKnown
    PROVE  /\ \A s \in Side : Outermost(root, s) \in Linked \cup {nil}
           /\ \A n \in Linked, s \in Side : Neighbour(n, s) \in Linked \cup {nil}
  <1>1. PICK d \in [Ref -> Nat], h \in [Ref -> Nat] : InvariantBy(d, h)
    BY DEF TreeKnown, IInv
  <1>2. InOrder \in Seq(Linked) /\ Elements(InOrder) = Linked /\ IInv
    BY InOrderKnown DEF TreeKnown
  <1>3. \A i : At(i) \in Linked \cup {nil}
    BY <1>2 DEF At, AtIn, Elements
  <1>4. \A s \in Side : Outermost(root, s) \in Linked \cup {nil}
    BY <1>1, <1>3, NeighboursAre DEF TreeKnown
  <1>5. ASSUME NEW n \in Linked PROVE \A s \in Side : Neighbour(n, s) \in Linked \cup {nil}
    <2>1. PICK i \in DOMAIN InOrder : n = At(i)
      BY <1>2 DEF Elements, At, AtIn
    <2> QED BY <1>1, <1>3, <2>1, NeighboursAre DEF TreeKnown
  <1> QED BY <1>4, <1>5

\* What a client's call and the code it runs do to the nodes of the tree.
LEMMA RoverStays ==
    ASSUME ContainerInv, CallKnows, RoverInv, ContainerStep
    PROVE  RoverInv'
  <1>1. TypeOK /\ CallOK /\ UNCHANGED <<mode, toward, rover>>
    BY TreeParts DEF ContainerInv, ContainerTypeOK, ContainerStep
  <1>2. ASSUME NEW n \in Node, NEW v \in Payload[n], Add(n, v) PROVE RoverInv'
    <2>1. \A m \in Linked : m \in Linked' /\ value'[m] = value[m]
      BY <1>1, <1>2 DEF Add, NewNode, TypeOK, Linked
    <2> QED BY <1>1, <1>2, <2>1 DEF Add, RoverInv
  <1>3. ASSUME NEW k \in Value, Search("remove", k), k # NodeValue(rover) PROVE RoverInv'
    BY <1>1, <1>3 DEF Search, RoverInv, NodeValue, vars, Linked
  <1>4. ASSUME NEW n \in Node, RemoveHeldNode(n), n # rover PROVE RoverInv'
    BY <1>1, <1>4 DEF RemoveHeldNode, RoverInv, vars, Linked
  <1>5. CASE AddInserts
    BY <1>1, <1>5 DEF AddInserts, InsertNode, RoverInv, pool, Linked
  <1>6. CASE AddRefused
    <2>1. \A m \in Linked : m \in Linked' /\ value'[m] = value[m]
      BY <1>1, <1>6 DEF AddRefused, FreeNode, TypeOK, Linked
    <2> QED BY <1>1, <1>6, <2>1 DEF AddRefused, RoverInv
  <1>7. CASE AddTaken \/ SearchOn \/ SearchMiss \/ RemoveDone
    BY <1>1, <1>7 DEF AddTaken, SearchOn, SearchMiss, RemoveDone, Answer, RoverInv, vars, Linked
  <1>8. CASE SearchHit
    <2>1. wanted # "find" => wanted = "remove"
      BY DEF ContainerInv, ContainerTypeOK
    <2>2. UNCHANGED <<value, status, pc>> /\ Linked' = Linked
      BY <1>8 DEF SearchHit, vars, Linked
    <2> QED BY <1>1, <1>8, <2>1, <2>2 DEF SearchHit, Answer, RoverInv
  <1>9. CASE RemoveReleases
    BY <1>1, <1>9 DEF RemoveReleases, MarkNodeAsDirty, RoverInv, vars, pool, Linked
  <1>10. CASE RemoveUnlinks
    BY <1>1, <1>10 DEF RemoveUnlinks, RemoveNode, RoverInv, pool, Linked
  <1>11. CASE WalkAndReturn
    BY <1>1, <1>11 DEF WalkAndReturn, Walk, WalkDirty, Answer, RoverInv, vars, pool, Linked
  <1>12. CASE LowLevel
    <2>1. op \in {"insert", "remove"} /\ UNCHANGED <<op, wanted, key, at>> /\ Continue
      BY <1>12 DEF LowLevel
    <2>2. CASE Unlink
      <3>1. pc = "successor" /\ op = "remove" /\ at = arg /\ at # rover
        BY <1>1, <2>1, <2>2 DEF Unlink, CallOK, RedRedLabels, RoverInv
      <3>2. \A m \in Linked : m # arg => m \in Linked' /\ value'[m] = value[m]
        BY <1>1, <2>2 DEF Unlink, Freed, TypeOK, Linked
      <3>3. pc' # "successor"
        BY <2>1, <2>2, <3>1 DEF Unlink, Return
      <3> QED BY <1>1, <2>1, <3>1, <3>2, <3>3 DEF RoverInv, Linked
    <2>3. CASE ~Unlink
      <3>1. \A m \in Linked : m \in Linked' /\ value'[m] = value[m]
        BY <1>1, <2>1, <2>3, PoolStep DEF Attach, pool, TypeOK, Linked
      <3>2. pc' = "successor" => pc = "successor"
        <4>1. pc \in Labels /\ pc # "idle"
          BY <1>1, <2>1, BusyStep DEF TypeOK
        <4> QED BY <2>1, <2>3, <4>1, PoolStep DEF Labels, RedRedLabels, BlackBlackLabels
      <3> QED BY <1>1, <2>1, <3>1, <3>2 DEF RoverInv
    <2> QED BY <2>2, <2>3
  <1> QED
    BY <1>2, <1>3, <1>4, <1>5, <1>6, <1>7, <1>8, <1>9, <1>10, <1>11, <1>12
    DEF ContainerStep, ClientCall, Proceed, DoneReleases, DoneCloses, RoverInv

LEMMA StepRover ==
    ASSUME ContainerInv, TreeKnown, CallKnows, RoverInv, [EnumNext]_enumVars
    PROVE  RoverInv'
  <1>1. CASE ContainerStep
    BY <1>1, RoverStays
  <1>2. CASE UNCHANGED enumVars
    BY <1>2 DEF enumVars, allVars, vars, RoverInv, Linked
  <1>3. CASE Traverse
    <2>1. UNCHANGED <<op, wanted, key, at, pc, value, status>> /\ Linked' = Linked
      BY <1>3 DEF Traverse, allVars, vars, Linked
    <2>2. ASSUME NEW m \in {"for", "walk"}, NEW s \in Side, Begin(m, s) PROVE RoverInv'
      <3>1. rover' \in Linked \cup {nil}
        BY <2>2, RoverSteps DEF Begin, Start, Other
      <3> QED BY <2>1, <2>2, <3>1 DEF Begin, RoverInv
    <2>3. CASE ForNext \/ WalkGoesOn
      <3>1. rover \in Linked /\ op = "none" /\ toward \in Side
        BY <2>3 DEF ForNext, WalkGoesOn, RoverInv
      <3>2. rover' \in Linked \cup {nil}
        BY <2>3, <3>1, RoverSteps DEF ForNext, WalkGoesOn, Step
      <3> QED BY <2>1, <2>3, <3>1, <3>2 DEF ForNext, WalkGoesOn, RoverInv
    <2>4. CASE WalkCalls
      BY <2>1, <2>4 DEF WalkCalls, RoverInv
    <2>5. CASE End
      BY <2>1, <2>5 DEF End, RoverInv
    <2> QED BY <1>3, <2>2, <2>3, <2>4, <2>5 DEF Traverse
  <1> QED BY <1>1, <1>2, <1>3 DEF EnumNext

\* No traversal ever stands on a node that was given back, whatever its client
\* adds, or removes elsewhere, in the body of the loop or in the callback.
THEOREM RoverStaysInTree == EnumSpec => []RoverInTree
  <1>1. EnumInit => RoverInv
    BY DEF EnumInit, ContainerInit, RoverInv
  <1>2. RoverInv => RoverInTree
    BY DEF RoverInv, RoverInTree
  <1> QED BY <1>1, <1>2, StepRover, TraversalKnown, PTL DEF EnumSpec

-----------------------------------------------------------------------------
(* The order of a traversal.                                               *)

Precedes(s, m, n) == \E i, j \in DOMAIN s : s[i] = m /\ s[j] = n /\ i < j

\* Without one element the others are in order as before.
LEMMA DroppedKeepsOrder ==
    ASSUME NEW s, NEW t, NEW e, e \in Node, Dropped(t, s, e),
           NEW m, m # e, NEW n, n # e
    PROVE  Precedes(s, m, n) <=> Precedes(t, m, n)
  <1>1. PICK a, b : Run(a) /\ Run(b) /\ s = Join(a, e, b) /\ t = Cat(a, b)
    BY DEF Dropped
  <1> DEFINE j == Join(a, e, b)
             c == Cat(a, b)
             k == Len(a)
             l == Len(b)
             Up(i) == IF i <= k THEN i ELSE i + 1
             Down(i) == IF i <= k THEN i ELSE i - 1
  <1>2. /\ k \in Nat /\ l \in Nat /\ Len(j) = k + 1 + l /\ DOMAIN j = 1 .. Len(j)
        /\ \A i \in 1 .. Len(j) : j[i] = IF i <= k THEN a[i]
                                         ELSE IF i = k + 1 THEN e ELSE b[i - (k + 1)]
    <2>1. a \in Seq(Node) /\ b \in Seq(Node) /\ e \in Node
      BY <1>1 DEF Run
    <2>2. IsJoin(Join(a, e, b), a, e, b)
      BY <2>1, Joined
    <2> QED BY <2>2 DEF IsJoin
  <1>3. /\ Len(c) = k + l /\ DOMAIN c = 1 .. Len(c)
        /\ \A i \in 1 .. k : c[i] = a[i]
        /\ \A i \in 1 .. l : c[k + i] = b[i]
    <2>1. /\ Len(Cat(a, b)) = Len(a) + Len(b)
          /\ \A i \in 1 .. Len(a) : Cat(a, b)[i] = a[i]
          /\ \A i \in 1 .. Len(b) : Cat(a, b)[Len(a) + i] = b[i]
      BY <1>1, PartsOfCat
    <2>2. Run(Cat(a, b))
      BY <1>1, RunsJoin
    <2>3. DOMAIN Cat(a, b) = 1 .. Len(Cat(a, b))
      BY <2>2 DEF Run
    <2> QED BY <2>1, <2>3
  <1> HIDE DEF j, c, k, l
  <1>4. \A i \in 1 .. k + l : /\ Up(i) \in 1 .. k + 1 + l /\ j[Up(i)] = c[i]
    <2> SUFFICES ASSUME NEW i \in 1 .. k + l PROVE Up(i) \in 1 .. k + 1 + l /\ j[Up(i)] = c[i]
      OBVIOUS
    <2>1. CASE i <= k
      <3>1. i \in 1 .. k /\ i \in 1 .. k + 1 + l /\ Up(i) = i
        BY <1>2, <2>1
      <3>2. j[i] = a[i] /\ c[i] = a[i]
        BY <1>2, <1>3, <2>1, <3>1
      <3> QED BY <3>1, <3>2
    <2>2. CASE ~(i <= k)
      <3>1. i - k \in 1 .. l /\ k + (i - k) = i /\ i + 1 \in 1 .. k + 1 + l
            /\ ~(i + 1 <= k) /\ i + 1 # k + 1 /\ i + 1 - (k + 1) = i - k
        BY <1>2, <2>2
      <3> QED BY <1>2, <1>3, <2>2, <3>1
    <2> QED BY <2>1, <2>2
  <1>5. \A i \in 1 .. k + 1 + l : i # k + 1 => Down(i) \in 1 .. k + l /\ Up(Down(i)) = i
    BY <1>2
  <1>6. j[k + 1] = e
    BY <1>2
  <1>7. ASSUME Precedes(j, m, n) PROVE Precedes(c, m, n)
    <2>1. PICK i1, i2 \in 1 .. k + 1 + l : j[i1] = m /\ j[i2] = n /\ i1 < i2
      BY <1>2, <1>7 DEF Precedes
    <2>2. i1 # k + 1 /\ i2 # k + 1
      BY <1>6, <2>1
    <2>3. /\ Down(i1) \in 1 .. k + l /\ c[Down(i1)] = m
          /\ Down(i2) \in 1 .. k + l /\ c[Down(i2)] = n
      BY <1>4, <1>5, <2>1, <2>2
    <2>4. Down(i1) < Down(i2)
      BY <1>2, <2>1, <2>2
    <2> QED BY <1>3, <2>3, <2>4 DEF Precedes
  <1>8. ASSUME Precedes(c, m, n) PROVE Precedes(j, m, n)
    <2>1. PICK i1, i2 \in 1 .. k + l : c[i1] = m /\ c[i2] = n /\ i1 < i2
      BY <1>3, <1>8 DEF Precedes
    <2>2. /\ Up(i1) \in 1 .. k + 1 + l /\ j[Up(i1)] = m
          /\ Up(i2) \in 1 .. k + 1 + l /\ j[Up(i2)] = n
      BY <1>4, <2>1
    <2>3. Up(i1) < Up(i2)
      BY <1>2, <2>1
    <2> QED BY <1>2, <2>2, <2>3 DEF Precedes
  <1>9. s = j /\ t = c
    BY <1>1 DEF j, c
  <1> QED BY <1>7, <1>8, <1>9

\* No step reorders the nodes that are in the tree before and after it.
LEMMA StepKeepsOrder ==
    ASSUME NEW d \in [Ref -> Nat], NEW h \in [Ref -> Nat], InvariantBy(d, h), WayOK,
           Walked, Walked', [Next]_vars,
           NEW m \in Linked, m \in Linked', NEW n \in Linked, n \in Linked'
    PROVE  Precedes(InOrder, m, n) <=> Precedes(InOrder', m, n)
  <1> DEFINE s == InOrder
             t == InOrder'
  <1>1. TypeOK /\ m \in Node /\ n \in Node
    BY DEF InvariantBy, Linked
  <1>2. CASE Attach
    <2>1. arg \in Node /\ m # arg /\ n # arg
      BY <1>2, FreePlace
    <2>2. Dropped(s, t, arg)
      <3>1. IF x = nil THEN s = <<>> /\ t = Join(<<>>, arg, <<>>)
                       ELSE x \in Linked /\ Put(t, s, x, arg, side)
        BY <1>2, AttachPuts
      <3> HIDE DEF s, t
      <3>2. CASE x = nil
        <4>1. Run(<<>>)
          BY EmptyRun
        <4>2. Dropped(<<>>, Join(<<>>, arg, <<>>), arg)
          BY <4>1, DroppedHere
        <4> QED BY <3>1, <3>2, <4>2
      <3>3. CASE x # nil
        <4>1. x \in Node /\ Put(t, s, x, arg, side)
          BY <3>1, <3>3 DEF Linked
        <4>2. PICK a, b : /\ Run(a) /\ Run(b) /\ s = Join(a, x, b)
                          /\ IF side = "right"
                             THEN s = Cat(Join(a, x, <<>>), b) /\ t = Join(Join(a, x, <<>>), arg, b)
                             ELSE s = Cat(a, Join(<<>>, x, b)) /\ t = Join(a, arg, Join(<<>>, x, b))
          BY <2>1, <4>1, PutParts
        <4>3. Run(<<>>)
          BY EmptyRun
        <4>4. Run(Join(a, x, <<>>)) /\ Run(Join(<<>>, x, b))
          BY <4>1, <4>2, <4>3, RunsJoin
        <4> QED BY <4>2, <4>4 DEF Dropped
      <3> QED BY <3>2, <3>3
    <2> HIDE DEF s, t
    <2>3. Precedes(t, m, n) <=> Precedes(s, m, n)
      BY <2>1, <2>2, DroppedKeepsOrder
    <2> QED BY <2>3 DEF s, t
  <1>3. CASE Unlink
    <2>1. Dropped(t, s, arg)
      BY <1>3, CutDrops, ReplaceDrops
    <2>2. arg \in Linked /\ arg \in Node /\ Linked' = Linked \ {arg}
      <3>1. arg \in Linked /\ status' = [status EXCEPT ![arg] = "free"]
        BY <1>3, CutKin DEF Unlink, Freed
      <3> QED BY <1>1, <3>1 DEF TypeOK, Linked
    <2>3. m # arg /\ n # arg
      BY <2>2
    <2> HIDE DEF s, t
    <2>4. Precedes(s, m, n) <=> Precedes(t, m, n)
      BY <2>1, <2>2, <2>3, DroppedKeepsOrder
    <2> QED BY <2>4 DEF s, t
  <1>4. CASE ~Attach /\ ~Unlink
    <2>1. InOrder' = InOrder
      BY <1>4, OthersKeepInOrder, TurnsKeepInOrder DEF Relinking
    <2> QED BY <2>1
  <1> QED BY <1>2, <1>3, <1>4

\* A traversal that goes toward s comes by m before it is at n.
Passes(s, m, n) ==
    n = nil \/ IF s = "right" THEN Precedes(InOrder, m, n) ELSE Precedes(InOrder, n, m)

LEMMA BeforeIs ==
    InOrder \in Seq(Linked) => \A m, n : Before(m, n) <=> Passes(toward, m, n)
  <1> SUFFICES ASSUME InOrder \in Seq(Linked), NEW m, NEW n
               PROVE  Before(m, n) <=> Passes(toward, m, n)
    OBVIOUS
  <1>1. DOMAIN InOrder = 1 .. Len(InOrder) /\ Len(InOrder) \in Nat
    BY LenProperties
  <1>2. \A i, j \in 1 .. Len(InOrder) : i > j <=> j < i
    BY <1>1
  <1> QED BY <1>1, <1>2 DEF Before, Passes, Precedes

LEMMA BeforeIsAfter ==
    (InOrder \in Seq(Linked) => \A m, n : Before(m, n) <=> Passes(toward, m, n))'
  BY BeforeIs, PTL

LEMMA PassesAt ==
    ASSUME IInv, NEW s \in Side, NEW i \in DOMAIN InOrder, NEW k \in DOMAIN InOrder
    PROVE  Passes(s, InOrder[k], InOrder[i]) <=> IF s = "right" THEN k < i ELSE i < k
  <1>1. /\ InOrder \in Seq(Linked) /\ Elements(InOrder) = Linked /\ OnceEach(InOrder)
        /\ Len(InOrder) \in Nat /\ DOMAIN InOrder = 1 .. Len(InOrder)
    BY InOrderKnown
  <1>2. InOrder[i] # nil
    BY <1>1 DEF Elements, Linked
  <1> DEFINE seq == InOrder
  <1>3. \A j \in DOMAIN seq : /\ seq[j] = seq[i] => j = i
                              /\ seq[j] = seq[k] => j = k
    BY <1>1 DEF OnceEach
  <1> HIDE DEF seq
  <1>4. Precedes(seq, seq[k], seq[i]) <=> k < i
    <2>1. k \in DOMAIN seq /\ i \in DOMAIN seq
      BY DEF seq
    <2> QED BY <1>3, <2>1 DEF Precedes
  <1>5. Precedes(seq, seq[i], seq[k]) <=> i < k
    <2>1. k \in DOMAIN seq /\ i \in DOMAIN seq
      BY DEF seq
    <2> QED BY <1>3, <2>1 DEF Precedes
  <1> QED BY <1>2, <1>4, <1>5 DEF Passes, seq

\* A traversal begins with nothing behind it, and a step of it comes by the
\* node that it leaves and by no other.
LEMMA StepPasses ==
    ASSUME TreeKnown, NEW s \in Side, NEW m \in Linked
    PROVE  /\ ~Passes(s, m, Outermost(root, Other(s)))
           /\ \A n \in Linked : Passes(s, m, Neighbour(n, s)) <=> Passes(s, m, n) \/ m = n
  <1>1. PICK d \in [Ref -> Nat], h \in [Ref -> Nat] : InvariantBy(d, h)
    BY DEF TreeKnown, IInv
  <1>2. /\ InOrder \in Seq(Linked) /\ Elements(InOrder) = Linked /\ OnceEach(InOrder) /\ IInv
        /\ Len(InOrder) \in Nat /\ DOMAIN InOrder = 1 .. Len(InOrder)
    BY InOrderKnown DEF TreeKnown
  <1>3. /\ Outermost(root, "left") = At(1)
        /\ Outermost(root, "right") = At(Len(InOrder))
        /\ \A i \in DOMAIN InOrder : /\ Neighbour(At(i), "right") = At(i + 1)
                                     /\ Neighbour(At(i), "left") = At(i - 1)
    BY <1>1, NeighboursAre DEF TreeKnown
  <1>4. \A i : At(i) = IF i \in 1 .. Len(InOrder) THEN InOrder[i] ELSE nil
    BY <1>2 DEF At, AtIn
  <1>5. \A i, k \in DOMAIN InOrder :
           Passes(s, InOrder[k], InOrder[i]) <=> IF s = "right" THEN k < i ELSE i < k
    BY <1>2, PassesAt
  <1>6. Passes(s, m, nil)
    BY DEF Passes
  <1>7. PICK k \in DOMAIN InOrder : m = InOrder[k]
    BY <1>2 DEF Elements
  <1>8. \A i, j \in DOMAIN InOrder : InOrder[i] = InOrder[j] => i = j
    BY <1>2 DEF OnceEach
  <1> DEFINE last == Len(InOrder)
             seq == InOrder
  <1>9. 1 \in 1 .. last /\ last \in 1 .. last /\ k \in 1 .. last
    BY <1>2, <1>7
  <1>10. ~Passes(s, m, Outermost(root, Other(s)))
    <2>1. CASE s = "right"
      <3>1. Outermost(root, Other(s)) = seq[1]
        BY <1>3, <1>4, <1>9, <2>1 DEF Other
      <3>2. ~(k < 1)
        BY <1>2, <1>9
      <3> QED BY <1>2, <1>5, <1>7, <1>9, <2>1, <3>1, <3>2
    <2>2. CASE s = "left"
      <3>1. Outermost(root, Other(s)) = seq[last]
        BY <1>3, <1>4, <1>9, <2>2 DEF Other
      <3>2. ~(last < k)
        BY <1>2, <1>9
      <3> QED BY <1>2, <1>5, <1>7, <1>9, <2>2, <3>1, <3>2
    <2> QED BY <2>1, <2>2
  <1>11. ASSUME NEW n \in Linked
         PROVE  Passes(s, m, Neighbour(n, s)) <=> Passes(s, m, n) \/ m = n
    <2>1. PICK i \in DOMAIN InOrder : n = InOrder[i]
      BY <1>2 DEF Elements
    <2>2. n = At(i) /\ i \in 1 .. last /\ i \in Nat /\ k \in Nat
      BY <1>2, <1>4, <1>9, <2>1
    <2>3. m = n <=> k = i
      BY <1>7, <1>8, <2>1
    <2>4. CASE s = "right"
      <3>1. Neighbour(n, s) = At(i + 1)
        BY <1>3, <2>1, <2>2, <2>4
      <3>2. Passes(s, m, n) <=> k < i
        BY <1>5, <1>7, <2>1, <2>4
      <3>3. CASE i + 1 \in 1 .. last
        <4>1. Neighbour(n, s) = InOrder[i + 1] /\ i + 1 \in DOMAIN InOrder
          BY <1>2, <1>4, <3>1, <3>3
        <4>2. Passes(s, m, Neighbour(n, s)) <=> k < i + 1
          BY <1>5, <1>7, <2>4, <4>1
        <4> QED BY <2>2, <2>3, <3>2, <4>2
      <3>4. CASE i + 1 \notin 1 .. last
        <4>1. Neighbour(n, s) = nil
          BY <1>4, <3>1, <3>4
        <4>2. k < i \/ k = i
          BY <1>2, <1>9, <2>2, <3>4
        <4> QED BY <1>6, <2>3, <3>2, <4>1, <4>2
      <3> QED BY <3>3, <3>4
    <2>5. CASE s = "left"
      <3>1. Neighbour(n, s) = At(i - 1)
        BY <1>3, <2>1, <2>2, <2>5
      <3>2. Passes(s, m, n) <=> i < k
        BY <1>5, <1>7, <2>1, <2>5
      <3>3. CASE i - 1 \in 1 .. last
        <4>1. Neighbour(n, s) = InOrder[i - 1] /\ i - 1 \in DOMAIN InOrder
          BY <1>2, <1>4, <3>1, <3>3
        <4>2. Passes(s, m, Neighbour(n, s)) <=> i - 1 < k
          BY <1>5, <1>7, <2>5, <4>1
        <4> QED BY <2>2, <2>3, <3>2, <4>2
      <3>4. CASE i - 1 \notin 1 .. last
        <4>1. Neighbour(n, s) = nil
          BY <1>4, <3>1, <3>4
        <4>2. i < k \/ k = i
          BY <1>2, <1>9, <2>2, <3>4
        <4> QED BY <1>6, <2>3, <3>2, <4>1, <4>2
      <3> QED BY <3>3, <3>4
    <2> QED BY <2>4, <2>5
  <1> QED BY <1>10, <1>11

\* What a traversal that stands at n has behind it.
Passed(m, n) == Before(m, n) \/ (mode = "callback" /\ m = n)

PassedInv ==
    /\ handed \subseteq Linked /\ stayed \subseteq Linked
    /\ mode = "off" => handed = {}
    /\ mode # "off" => /\ \A m \in handed : Passed(m, rover)
                       /\ \A m \in stayed : Passed(m, rover) => m \in handed

\* What the client does behind and before the traversal moves nothing from one
\* side to the other.
LEMMA PassedStay ==
    ASSUME ContainerInv, TreeKnown, WayOK, Walked', RoverInv, RoverInv', PassedInv, ContainerStep
    PROVE  PassedInv'
  <1>1. PICK d \in [Ref -> Nat], h \in [Ref -> Nat] : InvariantBy(d, h)
    BY DEF TreeKnown, IInv
  <1>2. Walked /\ [Next]_vars
    BY TreeWalked, TraversalDrives, StepDrives DEF TreeKnown, EnumNext
  <1>3. /\ handed' = handed \cap Linked' /\ stayed' = stayed \cap Linked'
        /\ UNCHANGED <<mode, toward, rover>>
    BY DEF ContainerStep
  <1>4. InOrder \in Seq(Linked) /\ InOrder' \in Seq(Linked')
    BY <1>2 DEF Walked
  <1>5. ASSUME NEW m \in Linked, m \in Linked' PROVE Before(m, rover)' <=> Before(m, rover)
    <2>1. Before(m, rover) <=> Passes(toward, m, rover)
      BY <1>4, BeforeIs
    <2>2. Before(m, rover)' <=> Passes(toward, m, rover)'
      BY <1>4, BeforeIsAfter
    <2>3. CASE rover = nil
      BY <1>3, <2>1, <2>2, <2>3 DEF Passes
    <2>4. CASE rover # nil
      <3>1. rover \in Linked /\ rover \in Linked'
        BY <1>3, <2>4 DEF RoverInv
      <3>2. /\ Precedes(InOrder, m, rover) <=> Precedes(InOrder', m, rover)
            /\ Precedes(InOrder, rover, m) <=> Precedes(InOrder', rover, m)
        BY <1>1, <1>2, <1>5, <3>1, StepKeepsOrder
      <3>3. Passes(toward, m, rover)' <=> Passes(toward, m, rover)
        BY <1>3, <3>2 DEF Passes
      <3> QED BY <2>1, <2>2, <3>3
    <2> QED BY <2>3, <2>4
  <1>6. ASSUME NEW m \in Linked, m \in Linked' PROVE Passed(m, rover)' <=> Passed(m, rover)
    BY <1>3, <1>5, <1>6 DEF Passed
  <1> QED BY <1>3, <1>6 DEF PassedInv

LEMMA StepPassed ==
    ASSUME ContainerInv, TreeKnown, WayOK, Walked', RoverInv, RoverInv', PassedInv,
           [EnumNext]_enumVars
    PROVE  PassedInv'
  <1>1. CASE ContainerStep
    BY <1>1, PassedStay
  <1> SUFFICES ASSUME Traverse \/ UNCHANGED enumVars PROVE PassedInv'
    BY <1>1 DEF EnumNext
  <1>2. UNCHANGED vars
    BY DEF Traverse, allVars, enumVars
  <1>3. Linked' = Linked /\ InOrder' = InOrder
    BY <1>2, InOrderSame DEF vars, Linked
  <1>4. InOrder \in Seq(Linked) /\ InOrder' \in Seq(Linked')
    BY <1>3, InOrderKnown DEF TreeKnown
  <1>5. \A m, n : /\ Before(m, n) <=> Passes(toward, m, n)
                  /\ Before(m, n)' <=> Passes(toward', m, n)
    <2>1. ASSUME NEW m, NEW n PROVE Before(m, n)' <=> Passes(toward, m, n)'
      BY <1>4, BeforeIsAfter
    <2>2. ASSUME NEW m, NEW n PROVE Passes(toward, m, n)' <=> Passes(toward', m, n)
      BY <1>3 DEF Passes
    <2> QED BY <1>4, <2>1, <2>2, BeforeIs
  <1>6. \A s \in Side, m \in Linked :
           /\ ~Passes(s, m, Outermost(root, Other(s)))
           /\ \A n \in Linked : Passes(s, m, Neighbour(n, s)) <=> Passes(s, m, n) \/ m = n
    BY StepPasses
  <1>7. ASSUME NEW k \in {"for", "walk"}, NEW s \in Side, Begin(k, s) PROVE PassedInv'
    <2>1. \A m \in Linked : ~Passes(toward', m, rover')
      BY <1>6, <1>7 DEF Begin, Start
    <2>2. \A m \in Linked : ~Passed(m, rover)'
      BY <1>5, <1>7, <2>1 DEF Passed, Begin
    <2> QED BY <1>3, <1>7, <2>2 DEF PassedInv, Begin
  <1>8. CASE ForNext
    <2>1. rover \in Linked /\ toward \in Side /\ toward' = toward /\ mode' = "for" /\ mode = "for"
          /\ stayed' = stayed /\ handed' = handed \cup {rover}
      BY <1>8 DEF ForNext, RoverInv
    <2>2. \A m \in Linked : Passes(toward', m, rover') <=> Passes(toward, m, rover) \/ m = rover
      BY <1>6, <1>8, <2>1 DEF ForNext, Step
    <2>3. \A m \in Linked : Passed(m, rover)' <=> Passed(m, rover) \/ m = rover
      BY <1>5, <2>1, <2>2 DEF Passed
    <2> QED BY <1>3, <2>1, <2>3 DEF PassedInv
  <1>9. CASE WalkCalls
    <2>1. rover \in Linked /\ UNCHANGED <<toward, rover, stayed>> /\ mode = "walk"
          /\ mode' = "callback" /\ handed' = handed \cup {rover}
      BY <1>9 DEF WalkCalls, RoverInv
    <2>2. \A m \in Linked : Passed(m, rover)' <=> Passed(m, rover) \/ m = rover
      BY <1>5, <2>1 DEF Passed
    <2> QED BY <1>3, <2>1, <2>2 DEF PassedInv
  <1>10. CASE WalkGoesOn
    <2>1. /\ rover \in Linked /\ toward \in Side /\ mode = "callback" /\ mode' = "walk"
          /\ UNCHANGED <<toward, handed, stayed>>
      BY <1>10 DEF WalkGoesOn, RoverInv
    <2>2. \A m \in Linked : Passes(toward', m, rover') <=> Passes(toward, m, rover) \/ m = rover
      BY <1>6, <1>10, <2>1 DEF WalkGoesOn, Step
    <2>3. \A m \in Linked : Passed(m, rover)' <=> Passed(m, rover)
      BY <1>5, <2>1, <2>2 DEF Passed
    <2> QED BY <1>3, <2>1, <2>3 DEF PassedInv
  <1>11. CASE End
    BY <1>11 DEF End, PassedInv
  <1>12. CASE UNCHANGED enumVars
    <2>1. UNCHANGED <<mode, toward, rover, handed, stayed>>
      BY <1>12 DEF enumVars
    <2>2. \A m : Passed(m, rover)' <=> Passed(m, rover)
      BY <1>5, <2>1 DEF Passed
    <2> QED BY <1>3, <2>1, <2>2 DEF PassedInv
  <1> QED BY <1>7, <1>8, <1>9, <1>10, <1>11, <1>12 DEF Traverse

\* Whatever the client does in between, a traversal of a tree of any size hands
\* out in order each node that is there all along, and none twice.
THEOREM TraversalsAreComplete == EnumSpec => []NoneSkippedNoneTwice
  <1>1. EnumInit => RoverInv /\ PassedInv
    BY DEF EnumInit, ContainerInit, RoverInv, PassedInv
  <1>2. EnumSpec => []RoverInv
    BY <1>1, StepRover, TraversalKnown, PTL DEF EnumSpec
  <1>3. EnumSpec => []WayOK /\ []Walked
    <2>1. EnumSpec => ContainerSpec
      BY TraversalDrives, PTL DEF EnumSpec, EnumInit, ContainerSpec
    <2>2. EnumSpec => []IInv
      BY TraversalKnown, PTL DEF TreeKnown
    <2> QED BY <2>1, <2>2, ContainerDrivesTree, WayHolds, TreeWalked, PTL
  <1>4. PassedInv => NoneSkippedNoneTwice
    BY DEF PassedInv, Passed, NoneSkippedNoneTwice
  <1> QED BY <1>1, <1>2, <1>3, <1>4, StepPassed, TraversalKnown, PTL DEF EnumSpec

-----------------------------------------------------------------------------
(* A client of walk_dirty.  The nodes whose flag an insertion sets only    *)
(* when its fixup is over wait; every other clean node of the tree counts  *)
(* with its children.                                                      *)

Waiting == IF pc \in RedRedLabels THEN Path(parent, arg) ELSE {}

SizeBelow(n, s) == IF child[n][s] = nil THEN 0 ELSE size[child[n][s]]

Counted(n) == size[n] = 1 + SizeBelow(n, "left") + SizeBelow(n, "right")

SizeInv == \A n \in Linked \ (dirty \cup Waiting) : Counted(n)

\* What a step that runs no callback has to leave alone: the links of the
\* nodes that it leaves clean.
CleanStay ==
    \A n \in Linked' :
        \/ n \in dirty' \/ n \in Waiting'
        \/ n \in Linked /\ n \notin dirty \cup Waiting /\ child'[n] = child[n]

LEMMA CleanStayCounted ==
    ASSUME LinksOK, LinksOK', Linked \subseteq Node, Linked' \subseteq Node, SizesKept, SizeInv, CleanStay
    PROVE  SizeInv'
  <1> SUFFICES ASSUME NEW n \in Linked', n \notin dirty', n \notin Waiting' PROVE Counted(n)'
    BY DEF SizeInv
  <1>1. n \in Linked /\ n \notin dirty \cup Waiting /\ child'[n] = child[n]
    BY DEF CleanStay
  <1>2. Counted(n)
    BY <1>1 DEF SizeInv
  <1>3. \A m \in Linked' : size'[m] = size[m]
    BY DEF SizesKept, Linked
  <1>4. \A s \in Side : SizeBelow(n, s)' = SizeBelow(n, s)
    <2> SUFFICES ASSUME NEW s \in Side PROVE SizeBelow(n, s)' = SizeBelow(n, s)
      OBVIOUS
    <2>1. child'[n][s] # nil => child'[n][s] \in Linked'
      BY DEF LinksOK
    <2> QED BY <1>1, <1>3, <2>1 DEF SizeBelow
  <1> QED BY <1>2, <1>3, <1>4 DEF Counted

LEMMA LengthAt ==
    ASSUME NEW L, NEW ch, NEW f, Walks(L, ch, f), NEW n \in L
    PROVE  /\ Len(f[n]) = 1 + Len(f[ch[n]["left"]]) + Len(f[ch[n]["right"]])
           /\ Len(f[ch[n]["left"]]) \in Nat /\ Len(f[ch[n]["right"]]) \in Nat
  <1> DEFINE l == f[ch[n]["left"]]
             r == f[ch[n]["right"]]
  <1>1. l \in Seq(L) /\ r \in Seq(L) /\ f[n] = Join(l, n, r)
    BY WalkAt
  <1>2. IsJoin(f[n], l, n, r)
    <2> HIDE DEF l, r
    <2> QED BY <1>1, Joined
  <1> HIDE DEF l, r
  <1>3. Len(f[n]) = 1 + Len(l) + Len(r) /\ Len(l) \in Nat /\ Len(r) \in Nat
    BY <1>2 DEF IsJoin
  <1> QED BY <1>3 DEF l, r

\* The children of a node that is clean and does not wait are so too.
LEMMA CleanBelow ==
    ASSUME TypeOK, LinksOK, DirtyPropagates,
           NEW n \in Linked, n \notin dirty \cup Waiting, NEW s \in Side, child[n][s] # nil
    PROVE  child[n][s] \in Linked /\ child[n][s] \notin dirty \cup Waiting
  <1> DEFINE m == child[n][s]
  <1>1. m \in Linked /\ parent[m] = n /\ n # nil /\ n \in Node
    BY DEF LinksOK, Linked
  <1> HIDE DEF m
  <1>2. m \in Waiting => n \in Waiting
    <2>1. pc \in RedRedLabels => arg \in Node /\ parent \in [Ref -> Ref]
      BY DEF TypeOK, Linked
    <2>2. pc \in RedRedLabels => UpClosed(parent, Path(parent, arg))
      BY <2>1, PathUp
    <2> QED BY <1>1, <2>2 DEF Waiting, UpClosed
  <1>3. m \notin dirty
    <2>1. m \in dirty => parent[m] \in dirty \cup {nil} \/ Excepted(m)
      BY <1>1, DirtyUp
    <2>2. Excepted(m) => m \in Waiting
      <3>1. pc \in RedRedLabels => arg \in Node /\ parent \in [Ref -> Ref]
        BY DEF TypeOK, Linked
      <3>2. pc \in RedRedLabels => arg \in Path(parent, arg)
        BY <3>1, PathUp
      <3> QED BY <3>2 DEF Excepted, Waiting
    <2> QED BY <1>1, <1>2, <2>1, <2>2
  <1>4. child[n][s] = m
    BY DEF m
  <1> QED BY <1>1, <1>2, <1>3, <1>4

\* The counts of the clean nodes are right all the way down.
LEMMA CleanAreRight ==
    ASSUME NEW d \in [Ref -> Nat], NEW h \in [Ref -> Nat], InvariantBy(d, h), DirtyPropagates,
           SizeInv
    PROVE  \A n \in Linked \ (dirty \cup Waiting) : size[n] = Len(InOrderFrom[n])
  <1> DEFINE L == Linked
             ch == child
             f == InOrderFrom
             D == {n \in L : n \notin dirty \cup Waiting /\ size[n] # Len(f[n])}
  <1>1. TypeOK /\ LinksOK /\ Walks(L, ch, f)
    BY InOrderWalks DEF InvariantBy
  <1>2. PICK N : Sinking(L, ch, N)
    BY MeasureExists
  <1>3. nil \in Ref /\ nil \notin L /\ L \subseteq Node
    BY DEF Linked
  <1>4. ASSUME NEW n \in L, NEW s \in Side
        PROVE  N[ch[n][s]] < N[n] /\ N[n] \in Nat /\ N[ch[n][s]] \in Nat
    BY <1>1, <1>2, <1>3 DEF Sinking, TypeOK
  <1>5. Len(f[nil]) = 0
    <2>1. f[nil] = <<>>
      <3> HIDE DEF f, L, ch
      <3> QED BY <1>1, <1>3, WalkOutside
    <2> QED BY <2>1
  <1>6. SUFFICES ASSUME D # {} PROVE FALSE
    OBVIOUS
  <1>7. PICK n \in D : \A u \in D : N[n] <= N[u]
    <2>1. \A u \in D : N[u] \in Nat
      BY <1>4
    <2> HIDE DEF D
    <2> QED BY <1>6, <2>1, LeastOf
  <1>8. n \in Linked /\ n \notin dirty \cup Waiting /\ size[n] # Len(f[n])
    BY <1>7
  <1>9. ASSUME NEW s \in Side PROVE SizeBelow(n, s) = Len(f[ch[n][s]])
    <2>1. CASE ch[n][s] = nil
      BY <1>5, <2>1 DEF SizeBelow
    <2>2. CASE ch[n][s] # nil
      <3>1. ch[n][s] \in Linked /\ ch[n][s] \notin dirty \cup Waiting
        BY <1>1, <1>8, <2>2, CleanBelow
      <3>2. ch[n][s] \notin D
        <4>1. N[ch[n][s]] < N[n] /\ N[n] \in Nat /\ N[ch[n][s]] \in Nat
          BY <1>4, <1>8
        <4> HIDE DEF D
        <4> QED BY <1>7, <4>1
      <3> QED BY <2>2, <3>1, <3>2 DEF SizeBelow
    <2> QED BY <2>1, <2>2
  <1>10. Counted(n)
    BY <1>8 DEF SizeInv
  <1>11. Len(f[n]) = 1 + Len(f[ch[n]["left"]]) + Len(f[ch[n]["right"]])
    <2>1. n \in L /\ Walks(L, ch, f)
      BY <1>1, <1>8
    <2> HIDE DEF f, L, ch, D
    <2>2. /\ Len(f[n]) = 1 + Len(f[ch[n]["left"]]) + Len(f[ch[n]["right"]])
          /\ Len(f[ch[n]["left"]]) \in Nat /\ Len(f[ch[n]["right"]]) \in Nat
      BY <2>1, LengthAt
    <2> QED BY <2>2
  <1>12. SizeBelow(n, "left") = Len(f[ch[n]["left"]]) /\ SizeBelow(n, "right") = Len(f[ch[n]["right"]])
    BY <1>9
  <1> HIDE DEF f, ch
  <1>13. size[n] = Len(f[n])
    BY <1>10, <1>11, <1>12 DEF Counted
  <1> QED BY <1>8, <1>13

\* Who is who in a rotation at p: its child t, the child b of t that changes
\* sides, and the parent g.
TurnsApart(s, p, t, b, g) ==
    /\ Other(s) \in Side /\ Other(s) # s
    /\ p \in Linked /\ p \in Node /\ p # nil
    /\ t \in Linked /\ t \in Node /\ t # nil /\ t # p /\ parent[t] = p
    /\ b \in Ref /\ b # p /\ b # t /\ (b # nil => b \in Linked /\ parent[b] = t)
    /\ g \in Ref /\ g # p /\ g # t /\ (g # nil => g # b /\ g \in Linked)
    /\ g # nil => child[g][SlotOf(child, g, p)] = p

LEMMA TurnedApart ==
    ASSUME TypeOK, LinksOK, NEW d \in [Ref -> Nat], NEW s \in Side, NEW p, Rotatable(d, s, p)
    PROVE  TurnsApart(s, p, child[p][Other(s)], child[child[p][Other(s)]][s], parent[p])
  BY RotatableApart DEF TurnsApart

\* A rotation marks the three nodes that it relinks, and whoever was waiting
\* above them.
LEMMA RotationLeavesClean ==
    ASSUME NEW d \in [Ref -> Nat], NEW h \in [Ref -> Nat], InvariantBy(d, h), TypeOK', LinksOK',
           FlagInv', UseDirty,
           \/ RotateInner \/ RotateOuter \/ RotateSibling
           \/ \E s \in Side : RotateNephew(s) \/ RotateParent(s)
    PROVE  CleanStay
  <1>1. TypeOK /\ LinksOK /\ Linked \subseteq Node /\ nil \notin Linked
    BY DEF InvariantBy, Linked
  <1>2. /\ Linked' = Linked
        /\ pc \in RedRedLabels => pc' \in RedRedLabels /\ arg' = arg /\ arg \in Linked
    BY <1>1 DEF RotateInner, RotateOuter, RotateGrandparent, RotateSibling, RotateNephew,
                RotateParent, AtNephews, pool, Linked, RedRedLabels, TypeOK
  <1>3. PICK s \in Side, p \in Node : Rotatable(d, s, p) /\ Rotate(s, p)
    BY FixupTurns
  <1> DEFINE t == child[p][Other(s)]
             b == child[t][s]
             g == parent[p]
  <1>4. TurnedLinks(s, p)
    BY <1>1, <1>3, RotateLinks
  <1>5. /\ Other(s) \in Side /\ Other(s) # s
        /\ p \in Linked /\ p \in Node /\ p # nil
        /\ t \in Linked /\ t \in Node /\ t # nil /\ t # p /\ parent[t] = p
        /\ b \in Ref /\ b # p /\ b # t /\ (b # nil => b \in Linked /\ parent[b] = t)
        /\ g \in Ref /\ g # p /\ g # t /\ (g # nil => g # b /\ g \in Linked)
        /\ g # nil => child[g][SlotOf(child, g, p)] = p
    <2>1. TypeOK /\ LinksOK /\ Rotatable(d, s, p)
      BY <1>1, <1>3
    <2>2. TurnsApart(s, p, t, b, g)
      BY <2>1, TurnedApart
    <2> QED BY <2>2 DEF TurnsApart
  <1>6. /\ \A n \in Linked : n # p /\ n # t /\ n # g => child'[n] = child[n]
        /\ parent'[p] = t /\ parent'[t] = g
        /\ \A n \in Linked : n # p /\ n # t /\ n # b => parent'[n] = parent[n]
    BY <1>1, <1>4 DEF TurnedLinks
  <1> HIDE DEF t, b, g
  <1>7. PICK par : par = parent'
    OBVIOUS
  <1>8. par \in [Ref -> Ref] /\ dirty' = Soiled(par, {p}) /\ {p} \subseteq Ref
    BY <1>3, <1>7 DEF Rotate, TypeOK
  <1>9. PICK E : /\ dirty' = dirty \cup E /\ {p} \ {nil} \subseteq E
                 /\ \A m \in E : par[m] \in E \cup {nil}
    BY <1>8, SoiledUp
  <1>10. p \in E /\ t \in E /\ (g # nil => g \in E)
    <2>1. p \in E /\ p # nil
      BY <1>1, <1>5, <1>9
    <2>2. t \in E
      BY <1>5, <1>6, <1>7, <1>9, <2>1
    <2> QED BY <1>6, <1>7, <1>9, <2>1, <2>2
  <1>11. Waiting \subseteq dirty' \cup Waiting'
    <2> SUFFICES ASSUME pc \in RedRedLabels PROVE Path(parent, arg) \subseteq dirty' \cup Waiting'
      BY DEF Waiting
    <2>1. arg \in Linked /\ arg' = arg /\ arg \in Node
      BY <1>1, <1>2
    <2>2. Waiting' = Path(par, arg)
      BY <1>2, <1>7, <2>1 DEF Waiting
    <2>3. arg \in Path(par, arg) /\ UpClosed(par, Path(par, arg))
      BY <1>8, <2>1, PathUp
    <2> DEFINE S == (dirty' \cup Path(par, arg)) \cap Linked
    <2>4. ASSUME NEW m \in S, parent[m] # nil PROVE parent[m] \in S
      <3>1. m \in Linked /\ parent[m] \in Linked
        BY <1>1, <2>4 DEF LinksOK
      <3>2. CASE m \in {p, t} \/ m = b
        <4>1. parent[m] \in {p, t} \/ parent[m] = g
          BY <1>1, <1>5, <2>4, <3>1, <3>2 DEF g
        <4> QED BY <1>9, <1>10, <2>4, <3>1, <4>1
      <3>3. CASE m \notin {p, t} /\ m # b
        <4>1. par[m] = parent[m]
          BY <1>6, <1>7, <3>1, <3>3
        <4>2. m \in Path(par, arg) => par[m] \in Path(par, arg) \cup {nil}
          BY <2>3 DEF UpClosed
        <4>3. m \in dirty' => par[m] \in dirty' \cup Path(par, arg) \cup {nil}
          <5>1. m \in dirty' => parent'[m] \in dirty' \cup {nil} \/ m = arg
            BY <1>2, <2>1, <3>1 DEF FlagInv, DirtyPropagates, LinksOK
          <5> QED BY <1>7, <2>3, <4>2, <5>1
        <4> QED BY <2>4, <3>1, <4>1, <4>2, <4>3
      <3> QED BY <3>2, <3>3
    <2>5. S \in SUBSET Node /\ arg \in S /\ UpClosed(parent, S)
      <3>1. S \in SUBSET Node /\ arg \in S
        BY <1>1, <2>1, <2>3
      <3> QED BY <2>4, <3>1 DEF UpClosed
    <2> HIDE DEF S
    <2>6. Path(parent, arg) \subseteq S
      BY <2>1, <2>5, PathLeast
    <2> QED BY <2>2, <2>6 DEF S
  <1> SUFFICES ASSUME NEW n \in Linked', n \notin dirty', n \notin Waiting'
               PROVE  n \in Linked /\ n \notin dirty \cup Waiting /\ child'[n] = child[n]
    BY DEF CleanStay
  <1> QED BY <1>1, <1>2, <1>5, <1>6, <1>9, <1>10, <1>11

\* attach_node and the end of an insertion's fixup mark the way up from the new
\* node; until then that way waits.
LEMMA AttachLeavesClean ==
    ASSUME NEW d \in [Ref -> Nat], NEW h \in [Ref -> Nat], InvariantBy(d, h), TypeOK',
           UseDirty, Attach
    PROVE  CleanStay
  <1>1. TypeOK /\ Linked \subseteq Node /\ arg \in Node /\ (x # nil => x \in Linked) /\ x \in Ref
    BY FreePlace DEF InvariantBy, Linked, TypeOK
  <1>2. /\ Linked' = Linked \cup {arg} /\ pc \notin RedRedLabels
        /\ parent' = [parent EXCEPT ![arg] = x]
        /\ \A n \in Linked : n # x => child'[n] = child[n]
    BY <1>1 DEF Attach, Linked, TypeOK, RedRedLabels
  <1>3. PICK par : par = parent' /\ par \in [Ref -> Ref]
    BY DEF TypeOK
  <1>4. dirty' \cup Waiting' = dirty \cup Path(par, arg)
    <2>1. CASE NeedsRecolour
      <3>1. dirty' = dirty /\ arg' = arg /\ pc' \in RedRedLabels
        BY <2>1 DEF Attach, RedRedLabels
      <3> QED BY <1>3, <3>1 DEF Waiting
    <2>2. CASE ~NeedsRecolour
      <3>1. dirty' = Soiled(par, {arg}) /\ pc' \notin RedRedLabels
        BY <1>3, <2>2 DEF Attach, Return, RedRedLabels
      <3> QED BY <3>1 DEF Waiting, Soiled
    <2> QED BY <2>1, <2>2
  <1>5. arg \in Path(par, arg) /\ (x # nil => x \in Path(par, arg))
    <2>1. arg \in Path(par, arg) /\ UpClosed(par, Path(par, arg))
      BY <1>1, <1>3, PathUp
    <2>2. par[arg] = x
      BY <1>1, <1>2, <1>3 DEF TypeOK
    <2> QED BY <2>1, <2>2 DEF UpClosed
  <1>6. Waiting = {}
    BY <1>2 DEF Waiting
  <1>7. nil \notin Linked
    BY DEF Linked
  <1> QED BY <1>2, <1>4, <1>5, <1>6, <1>7 DEF CleanStay

\* A removal marks every node of the tree that it relinks.
LEMMA UnlinkLeavesClean ==
    ASSUME NEW d \in [Ref -> Nat], NEW h \in [Ref -> Nat], InvariantBy(d, h),
           UseDirty, Unlink
    PROVE  CleanStay
  <1> DEFINE r == IF y = arg THEN CutOut ELSE Replaced
             q == parent[y]
             g == parent[arg]
             z == Heir
  <1>1. TypeOK /\ LinksOK /\ arg \in Linked /\ Linked \subseteq Node /\ y \in Node
    BY CutKin DEF InvariantBy, Linked, Unlink, TypeOK
  <1>2. r.parent \in [Ref -> Ref] /\ r.soiled \subseteq Ref /\ z \in Ref /\ q \in Ref /\ g \in Ref
    <2>1. r.parent \in [Ref -> Ref]
      BY <1>1, CutOutType, ReplacedType
    <2>2. Heir \in Ref /\ parent[y] \in Ref /\ parent[arg] \in Ref
      BY <1>1 DEF Heir, TypeOK
    <2> QED BY <1>1, <2>1, <2>2 DEF CutOut, Replaced, SoiledByLoss
  <1>3. PICK par, S : par = r.parent /\ S = r.soiled
    OBVIOUS
  <1>4. /\ dirty' = Soiled(par, S) \ {arg}
        /\ Linked' = Linked \ {arg}
        /\ pc \notin RedRedLabels
    BY <1>1, <1>3 DEF Unlink, Freed, Linked, TypeOK, RedRedLabels
  <1>5. PICK E : /\ Soiled(par, S) = dirty \cup E
                 /\ S \ {nil} \subseteq E /\ \A m \in E : par[m] \in E \cup {nil}
    BY <1>2, <1>3, SoiledUp
  <1>6. ASSUME NEW n \in Linked', child'[n] # child[n]
        PROVE  n \in E
    <2>1. n \in Node /\ n # arg /\ n # nil
      BY <1>1, <1>4
    <2>2. CASE y = arg
      <3>1. child' = [CutOut.child EXCEPT ![arg] = [s \in Side |-> nil]]
        BY <2>2 DEF Unlink, Freed
      <3>2. n = q
        BY <1>1, <1>6, <2>1, <2>2, <3>1 DEF CutOut, Relinked, TypeOK
      <3>3. q \in S
        BY <1>3, <2>2 DEF CutOut
      <3> QED BY <1>5, <2>1, <3>2, <3>3
    <2>3. CASE y # arg
      <3>1. child' = [Replaced.child EXCEPT ![arg] = [s \in Side |-> nil]]
        BY <2>3 DEF Unlink, Freed
      <3>2. n \in {q, y, g}
        BY <1>1, <1>6, <2>1, <3>1 DEF Replaced, CutOut, Relinked, TypeOK
      <3>3. S = {g, y, z} \cup SoiledByLoss /\ par = Replaced.parent
        BY <1>3, <2>3 DEF Replaced
      <3>4. n = q => q \in E
        <4>1. CASE z = nil
          BY <1>5, <2>1, <3>3, <4>1 DEF SoiledByLoss
        <4>2. CASE z # nil /\ n = q
          <5>1. z \in E
            BY <1>5, <3>3, <4>2
          <5>2. /\ z # y /\ parent[z] = y /\ y # nil /\ z \in Linked /\ y \in Linked
            BY <4>2, CutKin DEF Cuttable
          <5>3. z # child[arg]["left"] /\ z # child[arg]["right"]
            BY <1>1, <2>3, <4>2, <5>2 DEF LinksOK
          <5>4. par[z] = q
            <6>1. child[arg]["right"] # nil
              BY <1>1, <2>3, CutKin DEF InvariantBy, PlaceOK, SuccessorPlace, Unlink
            <6>2. y = child[arg]["right"] => q = arg
              BY <1>1, <6>1 DEF LinksOK
            <6>3. y # child[arg]["right"]
              BY <2>1, <4>2, <6>2
            <6> QED BY <1>1, <1>2, <2>1, <3>3, <5>2, <5>3, <6>3 DEF Replaced, TypeOK
          <5> QED BY <1>5, <2>1, <4>2, <5>1, <5>4
        <4> QED BY <4>1, <4>2
      <3> QED BY <1>5, <2>1, <3>2, <3>3, <3>4
    <2> QED BY <2>2, <2>3
  <1> HIDE DEF r
  <1>7. Waiting = {}
    BY <1>4 DEF Waiting
  <1> QED BY <1>1, <1>4, <1>5, <1>6, <1>7 DEF CleanStay

\* The other steps that run no callback relink nothing, and no flag that they
\* clear is one of the tree.
LEMMA QuietLeavesClean ==
    ASSUME TypeOK, UseDirty, NodeCall \/ Continue \/ UNCHANGED vars, ~Relinking
    PROVE  CleanStay
  <1>1. Linked' = Linked /\ \A n \in Linked : child'[n] = child[n]
    BY OthersRelinkNothing DEF Next
  <1>2. CASE RedRedDone
    <2>1. dirty' = dirty \cup Path(parent, arg) /\ pc = "redred"
      BY <1>2 DEF RedRedDone, Soiled
    <2> QED BY <1>1, <2>1 DEF CleanStay, Waiting, RedRedLabels
  <1>3. CASE RecolourUncle
    BY <1>1, <1>3 DEF RecolourUncle, CleanStay, Waiting
  <1>4. ASSUME NEW n \in Node, FreeNode(n) PROVE CleanStay
    <2>1. n \notin Linked /\ dirty' = dirty \ {n} /\ pc = "idle"
      BY <1>4 DEF FreeNode, Linked
    <2> QED BY <1>1, <2>1 DEF CleanStay, Waiting, RedRedLabels
  <1>5. CASE ~(RedRedDone \/ RecolourUncle \/ \E n \in Node : FreeNode(n))
    <2>1. dirty \subseteq dirty' /\ (UNCHANGED <<pc, parent, arg>> \/ pc \notin RedRedLabels)
      <3>1. CASE UNCHANGED vars
        BY <3>1 DEF vars
      <3>2. CASE NodeCall
        BY <1>5, <3>2 DEF NodeCall, NewNode, InsertNode, InsertBeside, RemoveNode, ClearMarker,
                          MarkNodeAsDirty, EnableMarking, heap, stack, Soiled, RedRedLabels
      <3>3. CASE Continue
        BY <1>5, <3>3 DEF Continue, Relinking, Descend, RefuseDuplicate, Slide, Successor,
                          RecolourSibling, AtNephews, BlackBlackDone, heap, pool, RedRedLabels
      <3> QED BY <3>1, <3>2, <3>3
    <2>2. Waiting \subseteq Waiting'
      BY <2>1 DEF Waiting
    <2> QED BY <1>1, <2>1, <2>2 DEF CleanStay
  <1> QED BY <1>2, <1>3, <1>4, <1>5

\* walk_dirty leaves the size of its subtree in every node: in the clean ones
\* it was there, and the others are reached, children first.
LEMMA WalkCounts ==
    ASSUME NEW d \in [Ref -> Nat], NEW h \in [Ref -> Nat], InvariantBy(d, h), DirtyPropagates,
           SizeInv, WalkDirtyAndCount
    PROVE  SizeInv'
  <1> DEFINE L == Linked
             ch == child
             f == InOrderFrom
             R == DirtyReached
             e == [n \in Ref |-> Len(f[n])]
             after == CHOOSE g : g = [n \in Ref |->
                          IF ~IsLinked(n) THEN 0
                          ELSE IF n \notin R THEN size[n]
                          ELSE 1 + g[child[n]["left"]] + g[child[n]["right"]]]
  <1>1. /\ TypeOK /\ LinksOK /\ Walks(L, ch, f) /\ L \subseteq Node /\ nil \notin L /\ nil \in Ref
        /\ ch \in [Ref -> [Side -> Ref]] /\ L \subseteq Ref
    BY InOrderWalks DEF InvariantBy, Linked, TypeOK
  <1>2. PICK N : Sinking(L, ch, N)
    BY MeasureExists
  <1>3. pc = "idle" /\ UNCHANGED <<child, status, pc>> /\ Linked' = L
    BY DEF WalkDirtyAndCount, WalkDirty, pool, stack, Linked
  <1>4. \A n \in L \ R : size[n] = Len(f[n])
    <2>1. R = dirty \cap Linked
      <3>1. \A n \in dirty \cap Linked : n = root \/ parent[n] \in dirty \cap Linked
        BY <1>1, <1>3 DEF DirtyPropagates, LinksOK, RedRedLabels
      <3>2. dirty \cap Linked \subseteq R
        BY <3>1 DEF DirtyReached
      <3> QED BY <3>2 DEF DirtyReached
    <2>2. Waiting = {}
      BY <1>3 DEF Waiting, RedRedLabels
    <2> QED BY <2>1, <2>2, CleanAreRight
  <1>5. ASSUME NEW n \in L
        PROVE  /\ Len(f[n]) = 1 + Len(f[ch[n]["left"]]) + Len(f[ch[n]["right"]])
               /\ Len(f[ch[n]["left"]]) \in Nat /\ Len(f[ch[n]["right"]]) \in Nat
    <2> HIDE DEF f, ch, L
    <2> QED BY <1>1, LengthAt
  <1>6. \A n \in Ref \ L : Len(f[n]) = 0
    <2> SUFFICES ASSUME NEW n \in Ref, n \notin L PROVE Len(f[n]) = 0
      OBVIOUS
    <2>1. f[n] = <<>>
      <3> HIDE DEF f, ch, L
      <3> QED BY <1>1, WalkOutside
    <2> QED BY <2>1
  <1>7. \A n \in Ref, s \in Side : ch[n][s] \in Ref
    BY <1>1
  <1>8. \A n \in Ref : IsLinked(n) <=> n \in L
    BY LinkedSlots
  <1>9. \E g : g = [n \in Ref |-> IF ~IsLinked(n) THEN 0
                                  ELSE IF n \notin R THEN size[n]
                                  ELSE 1 + g[child[n]["left"]] + g[child[n]["right"]]]
    <2>1. ASSUME NEW n \in Ref
          PROVE  e[n] = IF ~IsLinked(n) THEN 0
                        ELSE IF n \notin R THEN size[n]
                        ELSE 1 + e[ch[n]["left"]] + e[ch[n]["right"]]
      <3>1. /\ e[n] = Len(f[n]) /\ e[ch[n]["left"]] = Len(f[ch[n]["left"]])
            /\ e[ch[n]["right"]] = Len(f[ch[n]["right"]])
        BY <1>7
      <3> HIDE DEF e, f, ch, L, R
      <3> QED BY <1>4, <1>5, <1>6, <1>8, <3>1
    <2>2. e = [n \in Ref |-> e[n]]
      OBVIOUS
    <2> HIDE DEF e
    <2>3. e = [n \in Ref |-> IF ~IsLinked(n) THEN 0
                             ELSE IF n \notin R THEN size[n]
                             ELSE 1 + e[child[n]["left"]] + e[child[n]["right"]]]
      BY <2>1, <2>2
    <2> QED BY <2>3
  <1>10. after = [n \in Ref |-> IF ~IsLinked(n) THEN 0
                                ELSE IF n \notin R THEN size[n]
                                ELSE 1 + after[child[n]["left"]] + after[child[n]["right"]]]
    BY <1>9
  <1>11. size' = [n \in Node |-> IF n \in R THEN after[n] ELSE size[n]]
    BY DEF WalkDirtyAndCount, SizeAfter
  <1> HIDE DEF after, f, ch, L, R
  <1> DEFINE D == {n \in Ref : after[n] # Len(f[n])}
  <1>12. D = {}
    <2> SUFFICES ASSUME D # {} PROVE FALSE
      OBVIOUS
    <2>1. PICK n \in D : \A u \in D : N[n] <= N[u]
      <3>1. \A u \in D : N[u] \in Nat
        BY <1>2 DEF Sinking
      <3> HIDE DEF D
      <3> QED BY <3>1, LeastOf
    <2>2. n \in L /\ n \in R
      BY <1>4, <1>6, <1>8, <1>10, <2>1
    <2>3. ASSUME NEW s \in Side PROVE after[ch[n][s]] = Len(f[ch[n][s]])
      <3>1. ch[n][s] \in Ref /\ N[ch[n][s]] < N[n] /\ N[n] \in Nat /\ N[ch[n][s]] \in Nat
        BY <1>1, <1>2, <1>7, <2>2 DEF Sinking
      <3> QED BY <2>1, <3>1
    <2>4. after[n] = 1 + after[ch[n]["left"]] + after[ch[n]["right"]]
      BY <1>1, <1>8, <1>10, <2>2 DEF ch
    <2>5. after[ch[n]["left"]] = Len(f[ch[n]["left"]]) /\ after[ch[n]["right"]] = Len(f[ch[n]["right"]])
      BY <2>3
    <2>6. after[n] = Len(f[n])
      BY <1>5, <2>2, <2>4, <2>5
    <2> QED BY <2>1, <2>6
  <1>13. \A n \in L : size'[n] = Len(f[n])
    BY <1>1, <1>4, <1>11, <1>12
  <1> SUFFICES ASSUME NEW n \in L PROVE Counted(n)'
    BY <1>3 DEF SizeInv
  <1>14. ASSUME NEW s \in Side PROVE SizeBelow(n, s)' = Len(f[ch[n][s]])
    <2>1. child' = ch /\ ch[n][s] \in L \cup {nil}
      BY <1>1, <1>3 DEF ch, L, LinksOK
    <2> QED BY <1>1, <1>6, <1>13, <2>1 DEF SizeBelow
  <1>15. SizeBelow(n, "left")' = Len(f[ch[n]["left"]]) /\ SizeBelow(n, "right")' = Len(f[ch[n]["right"]])
    BY <1>14
  <1> QED BY <1>5, <1>13, <1>15 DEF Counted

LEMMA StepSizes ==
    UseDirty /\ SizeInv /\ IInv /\ IInv' /\ FlagInv /\ FlagInv' /\ [AggNext]_aggVars => SizeInv'
  <1> SUFFICES ASSUME UseDirty, SizeInv, FlagInv, FlagInv', [AggNext]_aggVars, IInv',
                      NEW d \in [Ref -> Nat], NEW h \in [Ref -> Nat], InvariantBy(d, h)
               PROVE  SizeInv'
    BY DEF IInv
  <1>1. TypeOK /\ LinksOK /\ Linked \subseteq Node
    BY DEF InvariantBy, Linked
  <1>2. TypeOK' /\ LinksOK' /\ Linked' \subseteq Node
    BY DEF IInv, InvariantBy, Linked
  <1>3. CASE WalkDirtyAndCount
    BY <1>3, WalkCounts DEF FlagInv
  <1>4. CASE UNCHANGED aggVars
    <2>1. UNCHANGED vars /\ size' = size
      BY <1>4 DEF aggVars
    <2>2. Linked' = Linked /\ dirty' = dirty /\ Waiting' = Waiting /\ child' = child
      BY <2>1 DEF vars, Linked, Waiting
    <2> QED BY <2>1, <2>2 DEF SizeInv, Counted, SizeBelow
  <1>5. CASE (NodeCall \/ Continue) /\ SizesKept
    <2>1. CleanStay
      <3>1. CASE Attach
        BY <1>2, <3>1, AttachLeavesClean
      <3>2. CASE Unlink
        BY <3>2, UnlinkLeavesClean
      <3>3. CASE \/ RotateInner \/ RotateOuter \/ RotateSibling
                 \/ \E s \in Side : RotateNephew(s) \/ RotateParent(s)
        BY <1>2, <3>3, RotationLeavesClean
      <3>4. CASE ~Relinking
        BY <1>1, <1>5, <3>4, QuietLeavesClean
      <3> QED BY <3>1, <3>2, <3>3, <3>4 DEF Relinking
    <2> QED BY <1>1, <1>2, <1>5, <2>1, CleanStayCounted
  <1> QED BY <1>3, <1>4, <1>5 DEF AggNext

\* Whatever was inserted, removed and rotated since a walk over the dirty nodes,
\* a clean node still has the size of its subtree, in a tree of any size; the
\* dirty option is of course needed.
THEOREM CleanIsFresh == ASSUME UseDirty PROVE AggSpec => []FreshWhereClean
  <1>1. AggInit => Init /\ SizeInv
    BY DEF AggInit, Init, SizeInv, Linked
  <1>2. [AggNext]_aggVars => [Next]_vars
    BY DEF AggNext, aggVars, Next, WalkDirtyAndCount
  <1>3. AggSpec => Spec
    BY <1>1, <1>2, PTL DEF AggSpec, Spec
  <1>4. SizeInv /\ IInv /\ IInv' /\ FlagInv /\ FlagInv' /\ [AggNext]_aggVars => SizeInv'
    BY StepSizes
  <1>5. IInv /\ FlagInv /\ SizeInv => FreshWhereClean
    <2> SUFFICES ASSUME IInv, FlagInv, SizeInv, pc = "idle", NEW n \in Linked, n \notin dirty
                 PROVE  size[n] = Len(InOrderFrom[n])
      BY DEF FreshWhereClean
    <2>1. PICK d \in [Ref -> Nat], h \in [Ref -> Nat] : InvariantBy(d, h)
      BY DEF IInv
    <2>2. Waiting = {}
      BY DEF Waiting, RedRedLabels
    <2> QED BY <2>1, <2>2, CleanAreRight DEF FlagInv
  <1> QED BY <1>1, <1>3, <1>4, <1>5, FlagsHold, PTL DEF AggSpec
=============================================================================
