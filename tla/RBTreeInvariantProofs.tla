------------------------ MODULE RBTreeInvariantProofs ------------------------
(***************************************************************************)
(* The inductive invariant of RBTree holds in every reachable state, and   *)
(* with it the links, the sentinel, the colours, the assertions and the    *)
(* bound on rotations; the flags reach the root and mark what is relinked; *)
(* and the order of the comparator survives every step, so that without    *)
(* duplicates no key is in the tree twice.                                 *)
(***************************************************************************)
EXTENDS RBTreeFixupProofs

USE NilAssumption DEF Side, Ref, Color

-----------------------------------------------------------------------------
(* The inductive invariant. The steps that change the tree are the lemmas  *)
(* of RBTreeFixupProofs; the steps that only look for a place or change    *)
(* flags are treated here.                                                 *)

\* The tree stays as it is.
TreeStays ==
    /\ Linked' = Linked /\ root' = root
    /\ \A n \in Linked : child'[n] = child[n] /\ parent'[n] = parent[n] /\ color'[n] = color[n]
    /\ child'[nil] = child[nil] /\ color'[nil] = color[nil]

\* No fixup runs before or after the step.
NoFixup ==
    /\ pc \notin RedRedLabels \cup BlackBlackLabels
    /\ pc' \notin RedRedLabels \cup BlackBlackLabels
    /\ rotations' \in {0, rotations}

\* A step that leaves the tree alone outside of a fixup only has to say where
\* it goes on.
LEMMA QuietStep ==
    ASSUME TypeOK', NEW d \in [Ref -> Nat], NEW h \in [Ref -> Nat], InvariantBy(d, h),
           TreeStays, NoFixup, DetachedPristine', SearchPlace', SuccessorPlace',
           pc' = "successor" /\ y' # arg' => d[arg'] < d[y']
    PROVE  IInv'
  <1>1. /\ TypeOK /\ LinksOK /\ SentinelIntact /\ NoRedRed /\ RotationsSpent
        /\ Descending(d) /\ PlainlyBalanced(h)
    BY PlainBalance DEF InvariantBy, NoFixup
  <1>2. \A n \in Linked, r \in Side :
           /\ child[n][r] \in Linked \cup {nil}
           /\ child'[n][r] = child[n][r]
    BY <1>1 DEF LinksOK, TreeStays
  <1>3. \A n \in Linked : parent[n] # nil => parent[n] \in Linked
    BY <1>1 DEF LinksOK
  <1>4. LinksOK'
    BY <1>1, <1>2, <1>3 DEF LinksOK, TreeStays
  <1>5. SentinelIntact'
    BY <1>1 DEF SentinelIntact, TreeStays
  <1>6. NoRedRed'
    <2>1. color'[root'] = color[root]
      BY <1>1 DEF LinksOK, TreeStays
    <2>2. color[root] # "red"
      BY <1>1 DEF NoRedRed, NoFixup, RedRedLabels, BlackBlackLabels
    <2>3. ASSUME NEW n \in Linked', color'[n] = "red", parent'[n] # nil,
                 color'[parent'[n]] = "red"
          PROVE  FALSE
      <3>1. n \in Linked /\ color[n] = "red" /\ parent[n] # nil /\ color[parent[n]] = "red"
        BY <1>3, <2>3 DEF TreeStays
      <3> QED BY <1>1, <3>1 DEF NoRedRed, NoFixup, RedRedLabels, BlackBlackLabels
    <2> QED BY <2>1, <2>2, <2>3 DEF NoRedRed
  <1>7. PlaceOK'
    BY DEF PlaceOK, RedRedPlace, BlackBlackPlace, NoFixup, RedRedLabels, BlackBlackLabels
  <1>8. RotationsSpent'
    BY <1>1 DEF RotationsSpent, NoFixup, RedRedLabels, BlackBlackLabels
  <1>9. Descending(d)'
    BY <1>1, <1>2 DEF Descending, TreeStays
  <1>10. Balanced(h)'
    <2>1. h[nil] = 0
      BY <1>1 DEF PlainlyBalanced
    <2>2. ASSUME NEW n \in Linked', NEW r \in Side
          PROVE  h[n] = h[child'[n][r]] + Weight(n, r)'
      <3>1. n \in Linked /\ child'[n][r] = child[n][r]
        BY <1>2, <2>2 DEF TreeStays
      <3>2. color'[child[n][r]] = color[child[n][r]]
        BY <1>2, <3>1 DEF TreeStays
      <3>3. ~Lacks(n, r)'
        BY DEF Lacks, NoFixup
      <3>4. h[n] = h[child[n][r]] + Ink(child[n][r])
        BY <1>1, <3>1 DEF PlainlyBalanced
      <3>5. Weight(n, r)' = Ink(child[n][r])
        BY <3>1, <3>2, <3>3 DEF Weight, Ink
      <3> QED BY <3>1, <3>4, <3>5
    <2> QED BY <2>1, <2>2 DEF Balanced
  <1> QED
    BY <1>4, <1>5, <1>6, <1>7, <1>8, <1>9, <1>10 DEF IInv, InvariantBy

\* Such a step, when it touches no field of any node either.
LEMMA HeapStays ==
    ASSUME UNCHANGED <<root, parent, child, color, status>>
    PROVE  TreeStays /\ (DetachedPristine => DetachedPristine')
  BY DEF TreeStays, DetachedPristine, IsPristine, Linked, Detached

\* The steps that look for the place of a new node.
LEMMA SearchStep ==
    ASSUME TypeOK', NEW d \in [Ref -> Nat], NEW h \in [Ref -> Nat], InvariantBy(d, h),
           \/ \E n \in Node : InsertNode(n) \/ \E m \in Node, s \in Side : InsertBeside(n, m, s)
           \/ Descend \/ Slide \/ RefuseDuplicate
    PROVE  IInv'
  <1>1. TypeOK /\ LinksOK /\ SearchPlace /\ DetachedPristine /\ RotationsSpent
    BY DEF InvariantBy, PlaceOK
  <1>2. UNCHANGED <<root, parent, child, color, status>>
    BY DEF InsertNode, InsertBeside, Descend, Slide, RefuseDuplicate, heap, pool
  <1>3. TreeStays /\ DetachedPristine'
    BY <1>1, <1>2, HeapStays
  <1>4. NoFixup /\ SuccessorPlace' /\ pc' # "successor"
    BY DEF InsertNode, InsertBeside, Descend, Slide, RefuseDuplicate, Return, NoFixup,
           SuccessorPlace, RedRedLabels, BlackBlackLabels
  <1>5. SearchPlace'
    <2>1. ASSUME NEW n \in Node, InsertNode(n) PROVE SearchPlace'
      BY <2>1 DEF InsertNode, SearchPlace, heap
    <2>2. ASSUME NEW n \in Node, NEW m \in Node, NEW s \in Side, InsertBeside(n, m, s)
          PROVE  SearchPlace'
      BY <1>2, <2>2 DEF InsertBeside, SearchPlace, Linked
    <2>3. CASE Descend \/ Slide
      <3>1. /\ y # nil /\ pc \in {"descend", "before", "after"}
            /\ x' = y /\ y' = child[x'][side'] /\ side' \in Side
        BY <2>3 DEF Descend, Slide, Deeper, TypeOK
      <3>2. x # nil => x \in Linked /\ y = child[x][side] /\ side \in Side
        BY <1>1, <3>1 DEF SearchPlace, TypeOK
      <3>3. y \in Linked
        BY <1>1, <3>1, <3>2 DEF SearchPlace, LinksOK
      <3> QED BY <1>2, <3>1, <3>3 DEF SearchPlace, Linked
    <2>4. CASE RefuseDuplicate
      BY <2>4 DEF RefuseDuplicate, Return, SearchPlace
    <2> QED BY <2>1, <2>2, <2>3, <2>4
  <1> QED BY <1>3, <1>4, <1>5, QuietStep

\* m is the node to cut out for n, or an ancestor of it below n.
Chosen(d, n, m) ==
    /\ n \in Linked /\ m \in Linked
    /\ m = n => \E s \in Side : child[n][s] = nil
    /\ m # n => /\ \A s \in Side : child[n][s] # nil
               /\ \/ m = child[n]["right"]
                  \/ parent[m] # nil /\ parent[m] # n /\ child[parent[m]]["left"] = m
               /\ d[n] < d[m]

\* The steps that choose the node to cut out.
LEMMA ChoiceStep ==
    ASSUME TypeOK', NEW d \in [Ref -> Nat], NEW h \in [Ref -> Nat], InvariantBy(d, h),
           Successor \/ \E n \in Node : RemoveNode(n)
    PROVE  IInv'
  <1>1. TypeOK /\ LinksOK /\ SuccessorPlace /\ DetachedPristine /\ Descending(d)
    BY DEF InvariantBy, PlaceOK
  <1>2. UNCHANGED <<root, parent, child, color, status, rotations>>
    BY DEF Successor, RemoveNode, heap, pool
  <1>3. TreeStays /\ DetachedPristine'
    BY <1>1, <1>2, HeapStays
  <1>4. NoFixup /\ SearchPlace' /\ pc' = "successor"
    BY <1>2 DEF Successor, RemoveNode, NoFixup, SearchPlace, RedRedLabels, BlackBlackLabels
  <1>5. \A n \in Linked, s \in Side :
           child[n][s] # nil => child[n][s] \in Linked /\ parent[child[n][s]] = n
                                   /\ d[n] < d[child[n][s]] /\ child[n][s] # n
    <2>1. \A n \in Linked : d[n] \in Nat
      BY DEF Linked
    <2> QED BY <1>1, <2>1 DEF LinksOK, Descending
  <1>6. Chosen(d, arg', y')
    <2>1. ASSUME NEW n \in Node, RemoveNode(n),
                 child[n]["left"] # nil /\ child[n]["right"] # nil
          PROVE  n \in Linked /\ arg' = n /\ y' = child[n]["right"]
      BY <2>1 DEF RemoveNode, CutCandidate, Linked
    <2>2. ASSUME NEW n \in Node, RemoveNode(n),
                 child[n]["left"] = nil \/ child[n]["right"] = nil
          PROVE  n \in Linked /\ arg' = n /\ y' = n
      BY <2>2 DEF RemoveNode, CutCandidate, Linked
    <2>3. ASSUME NEW n \in Node, RemoveNode(n) PROVE Chosen(d, arg', y')
      BY <1>5, <2>1, <2>2, <2>3 DEF Chosen
    <2>4. CASE Successor
      <3>1. /\ y \in Linked /\ arg \in Linked /\ y # arg /\ y # nil /\ arg' = arg
            /\ y' = child[y]["left"] /\ y' # nil /\ d[arg] < d[y]
            /\ \A s \in Side : child[arg][s] # nil
        BY <1>1, <2>4 DEF Successor, SuccessorPlace, Descending, TypeOK
      <3>2. y' \in Linked /\ parent[y'] = y /\ d[y] < d[y']
        BY <1>5, <3>1
      <3>3. d[arg] \in Nat /\ d[y] \in Nat /\ d[y'] \in Nat
        BY <3>1, <3>2 DEF Linked
      <3>4. d[arg] < d[y']
        BY <3>1, <3>2, <3>3
      <3> QED BY <3>1, <3>2, <3>3, <3>4 DEF Chosen
    <2> QED BY <2>3, <2>4
  <1>7. SuccessorPlace' /\ (y' # arg' => d[arg'] < d[y'])
    BY <1>2, <1>6 DEF Chosen, SuccessorPlace, Linked
  <1> QED BY <1>3, <1>4, <1>7, QuietStep

\* The steps between calls that allocate a node, give it back, or change flags.
LEMMA IdleStep ==
    ASSUME TypeOK', NEW d \in [Ref -> Nat], NEW h \in [Ref -> Nat], InvariantBy(d, h),
           \/ \E n \in Node : \/ FreeNode(n) \/ ClearMarker(n) \/ MarkNodeAsDirty(n)
                              \/ \E v \in Payload[n] : NewNode(n, v)
           \/ EnableMarking \/ WalkDirty
    PROVE  IInv'
  <1>1. TypeOK /\ DetachedPristine
    BY DEF InvariantBy
  <1>2. NoFixup /\ pc' \notin {"descend", "before", "after", "successor"}
    BY DEF FreeNode, ClearMarker, MarkNodeAsDirty, NewNode, EnableMarking, WalkDirty, NoFixup, stack,
           RedRedLabels, BlackBlackLabels
  <1>3. SearchPlace' /\ SuccessorPlace'
    BY <1>2 DEF SearchPlace, SuccessorPlace
  <1>4. TreeStays /\ DetachedPristine'
    <2>1. ASSUME NEW n \in Node, NEW v, NewNode(n, v) PROVE TreeStays /\ DetachedPristine'
      <3>1. n \notin Linked /\ n # nil /\ Linked' = Linked /\ Detached' = Detached \cup {n}
        BY <1>1, <2>1 DEF NewNode, Linked, Detached, TypeOK
      <3>2. /\ \A m \in Ref : m # n => /\ parent'[m] = parent[m] /\ child'[m] = child[m]
                                       /\ color'[m] = color[m]
            /\ parent'[n] = nil /\ color'[n] = "red" /\ \A s \in Side : child'[n][s] = nil
        BY <1>1, <2>1 DEF NewNode, TypeOK
      <3>3. TreeStays
        BY <2>1, <3>1, <3>2 DEF TreeStays, Linked, NewNode
      <3>4. DetachedPristine'
        BY <1>1, <3>1, <3>2 DEF DetachedPristine, IsPristine, Detached
      <3> QED BY <3>3, <3>4
    <2>2. ASSUME NEW n \in Node, FreeNode(n) PROVE TreeStays /\ DetachedPristine'
      <3>1. /\ Linked' = Linked /\ Detached' \subseteq Detached
            /\ UNCHANGED <<root, parent, child, color>>
        BY <1>1, <2>2 DEF FreeNode, Linked, Detached, TypeOK
      <3> QED BY <1>1, <3>1 DEF TreeStays, DetachedPristine, IsPristine
    <2>3. CASE EnableMarking \/ WalkDirty \/ \E n \in Node : ClearMarker(n) \/ MarkNodeAsDirty(n)
      <3>1. UNCHANGED <<root, parent, child, color, status>>
        BY <2>3 DEF EnableMarking, WalkDirty, ClearMarker, MarkNodeAsDirty, heap, pool
      <3> QED BY <1>1, <3>1, HeapStays
    <2> QED BY <2>1, <2>2, <2>3
  <1> QED BY <1>2, <1>3, <1>4, QuietStep

LEMMA InitInvariant == Init => IInv
  <1> SUFFICES ASSUME Init PROVE IInv
    OBVIOUS
  <1>1. TypeOK
    BY InitType
  <1>2. Linked = {} /\ Detached = {}
    BY DEF Init, Linked, Detached
  <1>3. PICK d \in [Ref -> Nat] : d[nil] = 0
    <2>1. [n \in Ref |-> 0] \in [Ref -> Nat]
      OBVIOUS
    <2> QED BY <2>1
  <1>4. LinksOK /\ SentinelIntact /\ DetachedPristine /\ NoRedRed /\ pc = "idle" /\ rotations = 0
    BY <1>2 DEF Init, LinksOK, SentinelIntact, DetachedPristine, NoRedRed
  <1>5. PlaceOK /\ RotationsSpent
    BY <1>4 DEF PlaceOK, SearchPlace, RedRedPlace, SuccessorPlace, BlackBlackPlace,
                RotationsSpent, RedRedLabels, BlackBlackLabels
  <1>6. Descending(d) /\ Balanced(d)
    BY <1>2, <1>3, <1>4 DEF Descending, Balanced
  <1> QED BY <1>1, <1>4, <1>5, <1>6 DEF IInv, InvariantBy

LEMMA StepInvariant == IInv /\ [Next]_vars => IInv'
  <1> SUFFICES ASSUME NEW d \in [Ref -> Nat], NEW h \in [Ref -> Nat], InvariantBy(d, h),
                      [Next]_vars
               PROVE  IInv'
    BY DEF IInv
  <1>1. TypeOK'
    BY StepType DEF InvariantBy
  <1>2. CASE \/ \E n \in Node : InsertNode(n) \/ \E m \in Node, s \in Side : InsertBeside(n, m, s)
             \/ Descend \/ Slide \/ RefuseDuplicate
    BY <1>1, <1>2, SearchStep
  <1>3. CASE Successor \/ \E n \in Node : RemoveNode(n)
    BY <1>1, <1>3, ChoiceStep
  <1>4. CASE \/ \E n \in Node : \/ FreeNode(n) \/ ClearMarker(n) \/ MarkNodeAsDirty(n)
                                \/ \E v \in Payload[n] : NewNode(n, v)
             \/ EnableMarking \/ WalkDirty
    BY <1>1, <1>4, IdleStep
  <1>5. CASE Attach
    BY <1>1, <1>5, AttachStep
  <1>6. CASE RecolourUncle
    BY <1>1, <1>6, UncleStep
  <1>7. CASE RotateInner
    BY <1>1, <1>7, InnerStep
  <1>8. CASE RotateOuter
    BY <1>1, <1>8, OuterStep
  <1>9. CASE RedRedDone
    BY <1>1, <1>9, RedRedEnd
  <1>10. CASE Unlink
    BY <1>1, <1>10, CutStep, ReplaceStep
  <1>11. CASE RotateSibling
    BY <1>1, <1>11, SiblingStep
  <1>12. ASSUME NEW s \in Side, RecolourSibling(s) PROVE IInv'
    BY <1>1, <1>12, RecolourSiblingStep
  <1>13. ASSUME NEW s \in Side, RotateNephew(s) PROVE IInv'
    BY <1>1, <1>13, NephewStep
  <1>14. ASSUME NEW s \in Side, RotateParent(s) PROVE IInv'
    BY <1>1, <1>14, ParentStep
  <1>15. CASE BlackBlackDone
    BY <1>1, <1>15, BlackBlackEnd
  <1>16. CASE UNCHANGED vars
    <2>1. LinksOK' /\ SentinelIntact' /\ NoRedRed' /\ DetachedPristine'
      BY <1>16 DEF InvariantBy, vars, LinksOK, SentinelIntact, NoRedRed, DetachedPristine,
                   IsPristine, Linked, Detached
    <2>2. SearchPlace' /\ RedRedPlace' /\ SuccessorPlace' /\ BlackBlackPlace'
      BY <1>16 DEF InvariantBy, vars, PlaceOK, SearchPlace, RedRedPlace, SuccessorPlace,
                   BlackBlackPlace, Sibling, Far, Linked
    <2>3. RotationsSpent' /\ Descending(d)'
      BY <1>16 DEF InvariantBy, vars, RotationsSpent, RedRedAgain, BlackBlackAgain,
                   Descending, Linked
    <2>4. Balanced(h)'
      BY <1>16 DEF InvariantBy, vars, Balanced, Weight, Lacks, Linked
    <2> QED BY <1>1, <2>1, <2>2, <2>3, <2>4 DEF IInv, InvariantBy, PlaceOK
  <1> QED
    BY <1>2, <1>3, <1>4, <1>5, <1>6, <1>7, <1>8, <1>9, <1>10, <1>11, <1>12, <1>13,
       <1>14, <1>15, <1>16
    DEF Next, NodeCall, Continue

\* In every reachable state the tree is a red-black tree, but for what the
\* running fixup is about to repair, and the running call stands where its
\* next step expects it.
THEOREM InvariantHolds == Spec => []IInv
  BY InitInvariant, StepInvariant, PTL DEF Spec

-----------------------------------------------------------------------------
\* Child and parent pointers agree in every state, between the steps of an
\* insertion or a removal too, and none leads out of the tree.
THEOREM LinksAgree == Spec => []LinksOK
  <1>1. IInv => LinksOK
    BY DEF IInv, InvariantBy
  <1> QED BY <1>1, InvariantHolds, PTL

\* The sentinel stays a black leaf: what remove_node and the fixups write
\* through sibling, nephew and heir pointers never changes it.
THEOREM SentinelStays == Spec => []SentinelIntact
  <1>1. IInv => SentinelIntact
    BY DEF IInv, InvariantBy
  <1> QED BY <1>1, InvariantHolds, PTL

\* No red node has a red parent but at x while a fixup is running.
THEOREM ColoursHold == Spec => []NoRedRed
  <1>1. IInv => NoRedRed
    BY DEF IInv, InvariantBy
  <1> QED BY <1>1, InvariantHolds, PTL

\* An insertion rotates at most twice and a removal at most three times.
THEOREM RotationsBounded == Spec => []RotationBound
  <1>1. IInv => RotationBound
    BY DEF IInv, InvariantBy, TypeOK, RotationsSpent, RotationBound, RedRedLabels,
           BlackBlackLabels
  <1> QED BY <1>1, InvariantHolds, PTL

LEMMA InvariantAsserts == IInv => AssertsHold
  <1> SUFFICES ASSUME NEW d \in [Ref -> Nat], NEW h \in [Ref -> Nat], InvariantBy(d, h)
               PROVE  AssertsHold
    BY DEF IInv
  <1>1. /\ TypeOK /\ SentinelIntact /\ DetachedPristine
        /\ SearchPlace /\ RedRedPlace /\ BlackBlackPlace
    BY DEF InvariantBy, PlaceOK
  <1>2. nil \notin Linked
    BY DEF Linked
  <1>3. ASSUME pc \in {"descend", "before", "after"}, y = nil
        PROVE  /\ IF x = nil THEN root = nil ELSE x \in Linked /\ child[x][side] = nil
               /\ IsPristine(arg)
    BY <1>1, <1>3 DEF TypeOK, SearchPlace, DetachedPristine
  <1>4. ASSUME pc = "redred", RedRedAgain
        PROVE  /\ parent[parent[x]] # nil
               /\ IsInner => child[parent[x]][Other(Half)] # nil
               /\ ~IsInner => child[parent[parent[x]]][Half] # nil
    BY <1>2, <1>4, RedRedKin
  <1>5. ASSUME pc = "redred_outer"
        PROVE  parent[parent[x]] # nil /\ child[parent[parent[x]]][side] # nil
    BY <1>1, <1>5 DEF RedRedPlace
  <1>6. ASSUME pc = "blackblack", BlackBlackAgain
        PROVE  parent[x] # nil /\ Sibling(XSide) # nil
    <2>1. XSide \in Side
      BY DEF XSide, SlotOf
    <2>2. PICK p, w : Short(XSide, p, w, h)
      BY <1>6, <2>1, ShortKin
    <2> QED BY <2>2 DEF Short
  <1>7. ASSUME pc \in {"nephews", "outer"} PROVE parent[x] # nil /\ Sibling(side) # nil
    BY <1>1, <1>2, <1>7 DEF BlackBlackPlace, BlackBlackLabels
  <1>8. ASSUME pc = "outer" PROVE Far(side) # nil
    BY <1>1, <1>8 DEF BlackBlackPlace, SentinelIntact
  <1> QED BY <1>3, <1>4, <1>5, <1>6, <1>7, <1>8 DEF AssertsHold

\* The assertions of the code and the dereferences it makes unasked are safe:
\* a rotation finds its child, a red parent its parent, a node short of a
\* black its sibling, and a new node an empty place.
THEOREM AssertionsHold == Spec => []AssertsHold
  BY InvariantAsserts, InvariantHolds, PTL

-----------------------------------------------------------------------------
(* The flags: dirty up to the root, clean after a walk, marked where a     *)
(* rotation or a removal relinks.                                          *)

\* A path holds its first node, and the parent of each node that has one.
LEMMA PathUp ==
    ASSUME NEW par \in [Ref -> Ref], NEW n \in Node
    PROVE  /\ n \in Path(par, n)
           /\ UpClosed(par, Path(par, n))
  BY DEF Path, UpClosed

\* Marking leads from each node it marks on to that node's parent.
LEMMA SoiledUp ==
    ASSUME UseDirty, NEW par \in [Ref -> Ref], NEW S, S \subseteq Ref
    PROVE  \E E : /\ Soiled(par, S) = dirty \cup E
                  /\ S \ {nil} \subseteq E
                  /\ \A m \in E : par[m] \in E \cup {nil}
  <1> DEFINE E == UNION {Path(par, n) : n \in S}
  <1>1. Soiled(par, S) = dirty \cup E
    BY DEF Soiled
  <1>2. Path(par, nil) = {}
    BY DEF Path
  <1>3. ASSUME NEW n \in S, NEW m \in Path(par, n)
        PROVE  par[m] \in E \cup {nil}
    <2>1. n \in Node
      BY <1>2, <1>3
    <2> QED BY <1>3, <2>1, PathUp DEF UpClosed
  <1>4. \A n \in S \ {nil} : n \in Path(par, n)
    BY PathUp
  <1>5. \A m \in E : par[m] \in E \cup {nil}
    BY <1>3
  <1>6. S \ {nil} \subseteq E
    BY <1>4
  <1> HIDE DEF E
  <1> QED BY <1>1, <1>5, <1>6

\* Only the node that an insertion is repairing may be dirty below a clean one.
Excepted(n) == n = arg /\ pc \in RedRedLabels

FlagInv == DirtyPropagates /\ (~UseDirty => dirty = {})

LEMMA DirtyUp ==
    ASSUME LinksOK, DirtyPropagates, NEW n \in dirty \cap Linked
    PROVE  parent[n] \in dirty \cup {nil} \/ Excepted(n)
  BY DEF LinksOK, DirtyPropagates, Excepted

\* A step that marks from the nodes of S, under links that are those of the
\* tree after the step.
LEMMA MarkingStep ==
    ASSUME LinksOK', UseDirty, NEW par \in [Ref -> Ref], NEW S, S \subseteq Ref,
           \A n \in Linked' : parent'[n] = par[n],
           dirty' \subseteq Soiled(par, S), Soiled(par, S) \cap Linked' \subseteq dirty',
           \A n \in dirty \cap Linked' : par[n] \in Soiled(par, S) \cup {nil} \/ Excepted(n)'
    PROVE  DirtyPropagates'
  <1> SUFFICES ASSUME NEW n \in dirty' \cap Linked', n # root', ~Excepted(n)'
               PROVE  parent'[n] \in dirty'
    BY DEF DirtyPropagates, Excepted
  <1>1. parent'[n] \in Linked' /\ parent'[n] # nil
    BY DEF LinksOK, Linked
  <1>2. par[n] \in Soiled(par, S) \cup {nil}
    <2>1. PICK E : /\ Soiled(par, S) = dirty \cup E
                   /\ \A m \in E : par[m] \in E \cup {nil}
      BY SoiledUp
    <2> QED BY <2>1
  <1> QED BY <1>1, <1>2

\* A rotation of p marks from p, after the links have changed.
LEMMA RotationMarks ==
    ASSUME TypeOK, LinksOK, LinksOK', FlagInv, NEW s \in Side, NEW p \in Node,
           Rotate(s, p), Linked' = Linked,
           \A n \in dirty \cap Linked : Excepted(n) => Excepted(n)'
    PROVE  FlagInv'
  <1>1. CASE ~UseDirty
    BY <1>1 DEF Rotate, Soiled, FlagInv, DirtyPropagates
  <1>2. CASE UseDirty
    <2> DEFINE t == child[p][Other(s)]
               b == child[t][s]
               g == parent[p]
    <2>1. t \in Ref /\ b \in Ref /\ g \in Ref /\ parent \in [Ref -> Ref]
      BY DEF TypeOK, Other
    <2>2. /\ parent' = [Adopted(parent, b, p) EXCEPT ![t] = g, ![p] = t]
          /\ dirty' = Soiled(parent', {p})
      BY DEF Rotate, Turned
    <2> HIDE DEF t, b, g
    <2>3. PICK par : par = parent'
      OBVIOUS
    <2>4. /\ par \in [Ref -> Ref] /\ par[p] = t
          /\ t # p => par[t] = g
          /\ \A n \in Ref : n \notin {p, t, b} => par[n] = parent[n]
          /\ b \notin {p, t, nil} => par[b] = p
      BY <2>1, <2>2, <2>3 DEF Adopted
    <2>5. PICK D, E : /\ D = Soiled(par, {p}) /\ D = dirty \cup E
                      /\ p \in E /\ \A m \in E : par[m] \in E \cup {nil}
      BY <1>2, <2>4, SoiledUp
    <2>6. t \in E \cup {nil} /\ (t # nil => par[t] \in E \cup {nil})
      BY <2>4, <2>5
    <2>7. ASSUME NEW n \in dirty \cap Linked
          PROVE  par[n] \in D \cup {nil} \/ Excepted(n)'
      <3>1. n \in Ref /\ n # nil
        BY DEF Linked
      <3>2. CASE n = p \/ (n = b /\ n # t)
        BY <2>4, <2>5, <2>6, <3>1, <3>2
      <3>3. CASE n = t /\ t # p
        BY <2>5, <2>6, <3>1, <3>3
      <3>4. CASE n \notin {p, t, b}
        <4>1. par[n] = parent[n]
          BY <2>4, <3>1, <3>4
        <4>2. parent[n] \in dirty \cup {nil} \/ Excepted(n)
          BY <2>7, DirtyUp DEF FlagInv
        <4> QED BY <2>5, <2>7, <4>1, <4>2
      <3> QED BY <3>2, <3>3, <3>4
    <2>8. \A n \in Linked' : parent'[n] = par[n]
      BY <2>3
    <2>9. DirtyPropagates'
      <3>1. dirty' = D /\ {p} \subseteq Ref
        BY <2>2, <2>3, <2>5
      <3>2. \A n \in dirty \cap Linked' : par[n] \in Soiled(par, {p}) \cup {nil} \/ Excepted(n)'
        BY <2>5, <2>7
      <3>3. dirty' \subseteq Soiled(par, {p}) /\ Soiled(par, {p}) \cap Linked' \subseteq dirty'
        BY <2>5, <3>1
      <3> QED BY <1>2, <2>4, <2>8, <3>1, <3>2, <3>3, MarkingStep
    <2> QED BY <1>2, <2>9 DEF FlagInv
  <1> QED BY <1>1, <1>2

\* The steps that change neither links nor dirty flags.
LEMMA CalmStep ==
    ASSUME UNCHANGED <<root, parent, dirty, status>>, FlagInv,
           pc \in RedRedLabels => pc' \in RedRedLabels /\ arg' = arg
    PROVE  FlagInv'
  BY DEF FlagInv, DirtyPropagates, Linked

\* The marking at the end of an insertion, with or without a fixup.
LEMMA AttachMarks ==
    ASSUME NEW d \in [Ref -> Nat], NEW h \in [Ref -> Nat], InvariantBy(d, h), LinksOK',
           FlagInv, Attach \/ RedRedDone
    PROVE  FlagInv'
  <1>1. /\ TypeOK /\ LinksOK /\ arg \in Node /\ parent \in [Ref -> Ref] /\ x \in Ref
        /\ Linked \subseteq Node
    BY FreePlace DEF InvariantBy, TypeOK, RedRedDone, RedRedLabels, Linked
  <1>2. \A n \in dirty \cap Linked : parent[n] \in dirty \cup {nil} \/ Excepted(n)
    BY <1>1, DirtyUp DEF FlagInv
  <1>3. CASE ~UseDirty
    BY <1>3 DEF Attach, RedRedDone, Soiled, FlagInv, DirtyPropagates
  <1>4. CASE UseDirty
    <2>1. PICK par : par = parent'
      OBVIOUS
    <2>2. /\ par \in [Ref -> Ref] /\ \A n \in Ref : n # arg => par[n] = parent[n]
          /\ Linked' = Linked \cup {arg}
      <3>1. CASE Attach
        BY <1>1, <2>1, <3>1 DEF Attach, Linked, TypeOK
      <3>2. CASE RedRedDone
        BY <1>1, <2>1, <3>2 DEF RedRedDone, Linked, TypeOK, pool, RedRedLabels
      <3> QED BY <3>1, <3>2
    <2>3. CASE Attach /\ NeedsRecolour
      <3>1. /\ arg' = arg /\ pc' = "redred" /\ root' = root /\ arg \notin Linked
            /\ dirty' = dirty /\ pc \notin RedRedLabels
        BY <2>3, FreePlace DEF Attach, NeedsRecolour, RedRedLabels
      <3> QED
        BY <1>1, <2>1, <2>2, <3>1 DEF FlagInv, DirtyPropagates, RedRedLabels, Linked
    <2>4. CASE ~(Attach /\ NeedsRecolour)
      <3>1. dirty' = Soiled(par, {arg})
        BY <2>1, <2>4 DEF Attach, RedRedDone
      <3>2. PICK E : /\ Soiled(par, {arg}) = dirty \cup E
                     /\ arg \in E /\ \A m \in E : par[m] \in E \cup {nil}
        BY <1>1, <1>4, <2>2, SoiledUp
      <3>3. \A n \in dirty \cap Linked' : par[n] \in Soiled(par, {arg}) \cup {nil}
        BY <1>1, <1>2, <2>2, <3>2 DEF Excepted
      <3>4. \A n \in Linked' : parent'[n] = par[n]
        BY <2>1
      <3>5. {arg} \subseteq Ref /\ dirty' \subseteq Soiled(par, {arg})
            /\ Soiled(par, {arg}) \cap Linked' \subseteq dirty'
        BY <1>1, <3>1
      <3>6. DirtyPropagates'
        BY <1>4, <2>2, <3>3, <3>4, <3>5, MarkingStep
      <3> QED BY <1>4, <3>6 DEF FlagInv
    <2> QED BY <2>3, <2>4
  <1> QED BY <1>3, <1>4

\* The marking of a removal, under the links before the freed slot is reset.
LEMMA UnlinkMarks ==
    ASSUME NEW d \in [Ref -> Nat], NEW h \in [Ref -> Nat], InvariantBy(d, h), LinksOK',
           FlagInv, Unlink
    PROVE  FlagInv'
  <1> DEFINE r == IF y = arg THEN CutOut ELSE Replaced
  <1>1. TypeOK /\ LinksOK /\ arg \in Linked /\ Linked \subseteq Node /\ y \in Node
    BY CutKin DEF InvariantBy, Linked, Unlink, TypeOK
  <1>2. r.parent \in [Ref -> Ref] /\ r.soiled \subseteq Ref
    <2>1. r.parent \in [Ref -> Ref]
      BY <1>1, CutOutType, ReplacedType
    <2>2. Heir \in Ref /\ parent[y] \in Ref /\ parent[arg] \in Ref
      BY <1>1 DEF Heir, TypeOK
    <2> QED BY <1>1, <2>1, <2>2 DEF CutOut, Replaced, SoiledByLoss
  <1>3. PICK par, S : par = r.parent /\ S = r.soiled
    OBVIOUS
  <1>4. /\ parent' = [par EXCEPT ![arg] = nil]
        /\ dirty' = Soiled(par, S) \ {arg}
        /\ Linked' = Linked \ {arg}
        /\ pc \notin RedRedLabels
    BY <1>1, <1>3 DEF Unlink, Freed, Linked, TypeOK, RedRedLabels
  <1>5. CASE ~UseDirty
    BY <1>4, <1>5 DEF Soiled, FlagInv, DirtyPropagates
  <1>6. CASE UseDirty
    <2>1. PICK E : /\ Soiled(par, S) = dirty \cup E
                   /\ S \ {nil} \subseteq E /\ \A m \in E : par[m] \in E \cup {nil}
      BY <1>2, <1>3, <1>6, SoiledUp
    <2>2. ASSUME NEW n \in dirty \cap Linked'
          PROVE  par[n] \in Soiled(par, S) \cup {nil}
      <3>1. n \in Linked /\ n # nil /\ n \in Ref
        BY <1>1, <1>4
      <3>2. parent[n] \in dirty \cup {nil}
        BY <1>1, <1>4, <3>1, <2>2, DirtyUp DEF FlagInv, Excepted
      <3>3. n \in S \/ par[n] \in S \/ par[n] = parent[n]
        <4>1. CASE y = arg
          BY <1>1, <1>3, <3>1, <4>1 DEF CutOut, TypeOK
        <4>2. CASE y # arg
          BY <1>1, <1>3, <3>1, <4>2 DEF CutOut, Replaced, TypeOK
        <4> QED BY <4>1, <4>2
      <3> QED BY <2>1, <3>1, <3>2, <3>3
    <2>3. /\ \A n \in Linked' : parent'[n] = par[n]
          /\ dirty' \subseteq Soiled(par, S) /\ Soiled(par, S) \cap Linked' \subseteq dirty'
      BY <1>1, <1>2, <1>3, <1>4
    <2>4. DirtyPropagates'
      BY <1>2, <1>3, <1>6, <2>2, <2>3, MarkingStep
    <2> QED BY <1>6, <2>4 DEF FlagInv
  <1> QED BY <1>5, <1>6

\* Each rotation of a fixup raises a child that is there.
LEMMA FixupTurns ==
    ASSUME NEW d \in [Ref -> Nat], NEW h \in [Ref -> Nat], InvariantBy(d, h),
           \/ RotateInner \/ RotateOuter \/ RotateSibling
           \/ \E s \in Side : RotateNephew(s) \/ RotateParent(s)
    PROVE  \E s \in Side, p \in Node : Rotatable(d, s, p) /\ Rotate(s, p)
  <1>1. nil \notin Linked /\ Linked \subseteq Node /\ color[nil] = "black"
    BY DEF InvariantBy, SentinelIntact, Linked
  <1>2. \A s \in Side : Other(s) \in Side /\ Other(Other(s)) = s
    BY DEF Other
  <1>3. \A s \in Side, p \in Linked : child[p][Other(s)] # nil => Rotatable(d, s, p)
    BY DEF InvariantBy, Rotatable, Descending
  <1>4. CASE RotateInner
    <2>1. Rotate(Half, parent[x]) /\ pc = "redred" /\ RedRedAgain /\ IsInner
      BY <1>4 DEF RotateInner
    <2>2. parent[x] \in Linked /\ Half \in Side /\ child[parent[x]][Other(Half)] # nil
      BY <1>1, <2>1, RedRedKin
    <2> QED BY <1>1, <1>3, <2>1, <2>2
  <1>5. CASE RotateOuter
    <2>1. PICK s \in Side : InARow(s) /\ RotateGrandparent(s)
      BY <1>5, OuterInARow
    <2>2. /\ parent[parent[x]] \in Linked /\ child[parent[parent[x]]][Other(Other(s))] # nil
          /\ Rotate(Other(s), parent[parent[x]])
      BY <1>1, <1>2, <2>1 DEF InARow, RotateGrandparent
    <2> QED BY <1>1, <1>2, <1>3, <2>2
  <1>6. CASE RotateSibling
    <2>1. XSide \in Side
      BY DEF XSide, SlotOf
    <2>2. PICK p, w : Short(XSide, p, w, h)
      BY <1>6, <2>1, ShortKin DEF RotateSibling
    <2> QED BY <1>1, <1>3, <1>6, <2>1, <2>2 DEF RotateSibling, Short
  <1>7. ASSUME NEW s \in Side, RotateNephew(s) \/ RotateParent(s)
        PROVE  \E r \in Side, p \in Node : Rotatable(d, r, p) /\ Rotate(r, p)
    <2>1. \/ pc = "blackblack" /\ BlackBlackAgain /\ s = XSide
          \/ pc \in {"nephews", "outer"} /\ s = side
      BY <1>7 DEF RotateNephew, RotateParent, AtNephews
    <2>2. PICK p, w : Short(s, p, w, h)
      BY <2>1, ShortKin
    <2>3. CASE RotateNephew(s)
      <3>1. Rotate(Other(s), w) /\ child[w][s] # nil /\ w \in Linked
        BY <1>1, <2>2, <2>3 DEF RotateNephew, Near, Short
      <3> QED BY <1>1, <1>2, <1>3, <3>1
    <2>4. CASE RotateParent(s)
      BY <1>1, <1>3, <2>2, <2>4 DEF RotateParent, Short
    <2> QED BY <1>7, <2>3, <2>4
  <1> QED BY <1>4, <1>5, <1>6, <1>7

\* The rotations of both fixups.
LEMMA FixupMarks ==
    ASSUME NEW d \in [Ref -> Nat], NEW h \in [Ref -> Nat], InvariantBy(d, h), LinksOK',
           FlagInv,
           \/ RotateInner \/ RotateOuter \/ RotateSibling
           \/ \E s \in Side : RotateNephew(s) \/ RotateParent(s)
    PROVE  FlagInv'
  <1>1. TypeOK /\ LinksOK /\ RedRedPlace /\ Linked \subseteq Node
    BY DEF InvariantBy, PlaceOK, Linked
  <1>2. /\ Linked' = Linked
        /\ \A n : Excepted(n) => Excepted(n)'
    BY DEF RotateInner, RotateOuter, RotateGrandparent, RotateSibling, RotateNephew,
           RotateParent, AtNephews, pool, Linked, Excepted, RedRedLabels
  <1>3. \E s \in Side, p \in Node : Rotate(s, p)
    BY FixupTurns
  <1> QED BY <1>1, <1>2, <1>3, RotationMarks

\* A walk gets at every dirty node of the tree.
LEMMA WalkCleans ==
    ASSUME LinksOK, DirtyPropagates, WalkDirty
    PROVE  dirty' \cap Linked = {}
  <1>1. \A n \in dirty \cap Linked : n = root \/ parent[n] \in dirty \cap Linked
    BY DEF DirtyPropagates, LinksOK, WalkDirty, RedRedLabels
  <1>2. dirty \cap Linked \subseteq DirtyReached
    BY <1>1 DEF DirtyReached
  <1> QED BY <1>2 DEF WalkDirty

LEMMA StepFlags == IInv /\ IInv' /\ FlagInv /\ [Next]_vars => FlagInv'
  <1> SUFFICES ASSUME NEW d \in [Ref -> Nat], NEW h \in [Ref -> Nat], InvariantBy(d, h),
                      LinksOK', FlagInv, [Next]_vars
               PROVE  FlagInv'
    BY DEF IInv, InvariantBy
  <1>1. TypeOK /\ LinksOK
    BY DEF InvariantBy
  <1>2. CASE \/ UNCHANGED vars \/ Descend \/ RefuseDuplicate \/ Slide \/ Successor
             \/ EnableMarking \/ RecolourUncle \/ BlackBlackDone
             \/ \E n \in Node : \/ InsertNode(n) \/ RemoveNode(n) \/ ClearMarker(n)
                                \/ \E m \in Node, s \in Side : InsertBeside(n, m, s)
             \/ \E s \in Side : RecolourSibling(s)
    <2>1. /\ UNCHANGED <<root, parent, dirty, status>>
          /\ pc \in RedRedLabels => pc' \in RedRedLabels /\ arg' = arg
      BY <1>2
      DEF vars, Descend, RefuseDuplicate, Slide, Successor, EnableMarking, RecolourUncle,
          BlackBlackDone, InsertNode, RemoveNode, ClearMarker, InsertBeside,
          RecolourSibling, AtNephews, heap, pool, RedRedLabels
    <2> QED BY <2>1, CalmStep
  <1>3. ASSUME NEW n \in Node,
               FreeNode(n) \/ \E v \in Payload[n] : NewNode(n, v)
        PROVE  FlagInv'
    <2>1. /\ n \notin Linked /\ Linked' = Linked /\ root' = root
          /\ dirty \ {n} \subseteq dirty' /\ dirty' \subseteq dirty \cup {n}
          /\ \A m \in Linked : parent'[m] = parent[m]
          /\ pc \notin RedRedLabels
          /\ ~UseDirty => dirty' \subseteq dirty
      BY <1>1, <1>3 DEF FreeNode, NewNode, Linked, TypeOK, RedRedLabels
    <2> QED BY <1>1, <2>1 DEF FlagInv, DirtyPropagates, LinksOK
  <1>4. CASE WalkDirty
    <2>1. dirty' \cap Linked = {} /\ Linked' = Linked /\ UseDirty
      BY <1>1, <1>4, WalkCleans DEF FlagInv, WalkDirty, pool, Linked
    <2> QED BY <2>1 DEF FlagInv, DirtyPropagates
  <1>8. ASSUME NEW n \in Node, MarkNodeAsDirty(n) PROVE FlagInv'
    <2>1. /\ dirty' = Soiled(parent, {n}) /\ UseDirty /\ pc \notin RedRedLabels
          /\ UNCHANGED <<root, parent, status>>
      BY <1>8 DEF MarkNodeAsDirty, pool, RedRedLabels
    <2>2. parent \in [Ref -> Ref] /\ {n} \subseteq Ref
      BY <1>1 DEF TypeOK
    <2>3. PICK E : /\ Soiled(parent, {n}) = dirty \cup E
                   /\ \A m \in E : parent[m] \in E \cup {nil}
      BY <2>1, <2>2, SoiledUp
    <2>4. ASSUME NEW m \in dirty' \cap Linked', m # root'
          PROVE  parent'[m] \in dirty'
      <3>1. m \in Linked /\ m # root /\ parent'[m] = parent[m]
            /\ (m \in dirty \/ m \in E) /\ dirty' = dirty \cup E
        BY <2>1, <2>3, <2>4 DEF Linked
      <3>2. parent[m] # nil
        BY <1>1, <3>1 DEF LinksOK, Linked
      <3>3. m \in dirty => parent[m] \in dirty
        BY <2>1, <3>1 DEF FlagInv, DirtyPropagates
      <3> QED BY <2>3, <3>1, <3>2, <3>3
    <2> QED BY <2>1, <2>4 DEF FlagInv, DirtyPropagates
  <1>5. CASE Attach \/ RedRedDone
    BY <1>5, AttachMarks
  <1>6. CASE \/ RotateInner \/ RotateOuter \/ RotateSibling
             \/ \E s \in Side : RotateNephew(s) \/ RotateParent(s)
    BY <1>6, FixupMarks
  <1>7. CASE Unlink
    BY <1>7, UnlinkMarks
  <1> QED
    BY <1>2, <1>3, <1>4, <1>5, <1>6, <1>7, <1>8 DEF Next, NodeCall, Continue

LEMMA FlagsHold == Spec => [](IInv /\ FlagInv)
  <1>1. Init => FlagInv
    BY DEF Init, FlagInv, DirtyPropagates
  <1> QED BY <1>1, StepFlags, InvariantHolds, PTL DEF Spec

\* In every state a dirty node of the tree has a dirty parent, through all
\* rotations, attachments and removals, but for the node being inserted.
THEOREM DirtyReachesRoot == Spec => []DirtyPropagates
  BY FlagsHold, PTL DEF FlagInv

\* One step of CleanAfterWalk.
WalkLeavesClean == WalkDirty => dirty' \cap Linked = {}

\* walk_dirty, which turns back at clean nodes, leaves no dirty node in the tree.
THEOREM WalksClean == Spec => CleanAfterWalk
  <1>1. IInv /\ FlagInv => WalkLeavesClean
    BY WalkCleans DEF IInv, InvariantBy, FlagInv, WalkLeavesClean
  <1> QED BY <1>1, FlagsHold, PTL DEF CleanAfterWalk, WalkLeavesClean

-----------------------------------------------------------------------------
\* One step of MarksTouched.
RelinkedAreMarked ==
    marking /\ ~Attach =>
        \A n \in Linked \cap Linked' :
            parent'[n] # parent[n] \/ child'[n] # child[n] => n \in marked'

LEMMA RotationTouches ==
    ASSUME TypeOK, marking, NEW s \in Side, NEW p \in Ref, Rotate(s, p), NEW n \in Node,
           parent'[n] # parent[n] \/ child'[n] # child[n]
    PROVE  n \in marked'
  <1> DEFINE t == child[p][Other(s)]
             b == child[t][s]
             g == parent[p]
  <1>1. t \in Ref /\ b \in Ref /\ g \in Ref
    BY DEF TypeOK, Other
  <1>2. marked' = marked \cup ({p, t, b, g} \ {nil})
    BY DEF Rotate, Turned, Touched
  <1>3. parent'[n] # parent[n] => n \in {p, t, b}
    BY <1>1 DEF Rotate, Turned, Adopted, TypeOK
  <1>4. child'[n] # child[n] => n \in {p, t, g}
    <2>1. child' = Relinked([child EXCEPT ![p][Other(s)] = b, ![t][s] = p], g, p, t)
      BY DEF Rotate, Turned
    <2> HIDE DEF t, b, g
    <2> QED BY <1>1, <2>1 DEF Relinked, TypeOK
  <1> QED BY <1>2, <1>3, <1>4

LEMMA UnlinkTouches ==
    ASSUME TypeOK, marking, Unlink, NEW n \in Linked',
           parent'[n] # parent[n] \/ child'[n] # child[n]
    PROVE  n \in marked'
  <1>1. n \in Node /\ n # arg
    BY DEF Unlink, Freed, Linked, TypeOK
  <1>2. CASE y = arg
    <2>1. /\ parent' = [CutOut.parent EXCEPT ![arg] = nil]
          /\ child' = [CutOut.child EXCEPT ![arg] = [s \in Side |-> nil]]
          /\ marked' = Touched(CutOut.touched) \ {arg}
      BY <1>2 DEF Unlink, Freed
    <2>2. n \in {Heir, parent[y], y}
      BY <1>1, <2>1 DEF CutOut, Relinked, TypeOK
    <2> QED BY <1>1, <2>1, <2>2 DEF CutOut, Touched, TouchedByCut
  <1>3. CASE y # arg
    <2>1. /\ parent' = [Replaced.parent EXCEPT ![arg] = nil]
          /\ child' = [Replaced.child EXCEPT ![arg] = [s \in Side |-> nil]]
          /\ marked' = Touched(Replaced.touched) \ {arg}
      BY <1>3 DEF Unlink, Freed
    <2>2. n \in {Heir, parent[y], y, parent[arg], child[arg]["left"], child[arg]["right"]}
      BY <1>1, <2>1 DEF Replaced, CutOut, Relinked, TypeOK
    <2> QED BY <1>1, <2>1, <2>2 DEF Replaced, CutOut, Touched, TouchedByCut
  <1> QED BY <1>2, <1>3

LEMMA StepMarks == TypeOK /\ [Next]_vars => RelinkedAreMarked
  <1> SUFFICES ASSUME TypeOK, [Next]_vars, marking, ~Attach, NEW n \in Linked, n \in Linked',
                      parent'[n] # parent[n] \/ child'[n] # child[n]
               PROVE  n \in marked'
    BY DEF RelinkedAreMarked
  <1>1. n \in Node
    BY DEF Linked
  <1>2. CASE UNCHANGED <<parent, child>>
    BY <1>2
  <1>3. ASSUME NEW m \in Node, FreeNode(m) \/ \E v \in Payload[m] : NewNode(m, v)
        PROVE  n \in marked'
    BY <1>1, <1>3 DEF FreeNode, NewNode, Linked, TypeOK
  <1>4. ASSUME NEW s \in Side, NEW p \in Ref, Rotate(s, p) PROVE n \in marked'
    BY <1>1, <1>4, RotationTouches
  <1>5. CASE RotateInner \/ RotateOuter \/ RotateSibling
    <2>1. Half \in Side /\ XSide \in Side /\ side \in Side
      BY DEF Half, XSide, SlotOf, TypeOK
    <2>2. parent[x] \in Ref /\ parent[parent[x]] \in Ref /\ Other(Half) \in Side
          /\ Other(side) \in Side
      BY DEF TypeOK, Other
    <2> QED
      BY <1>4, <1>5, <2>1, <2>2 DEF RotateInner, RotateOuter, RotateGrandparent, RotateSibling
  <1>6. ASSUME NEW s \in Side, RotateNephew(s) \/ RotateParent(s) PROVE n \in marked'
    <2>1. parent[x] \in Ref /\ Sibling(s) \in Ref /\ Other(s) \in Side
      BY DEF TypeOK, Sibling, Other
    <2> QED BY <1>4, <1>6, <2>1 DEF RotateNephew, RotateParent
  <1>7. CASE Unlink
    BY <1>7, UnlinkTouches
  <1>8. \/ UNCHANGED <<parent, child>> \/ Unlink
        \/ RotateInner \/ RotateOuter \/ RotateSibling
        \/ \E s \in Side : RotateNephew(s) \/ RotateParent(s)
        \/ \E m \in Node : FreeNode(m) \/ \E v \in Payload[m] : NewNode(m, v)
    BY DEF Next, NodeCall, Continue, vars, heap, InsertNode, InsertBeside, RemoveNode,
           ClearMarker, MarkNodeAsDirty, EnableMarking, WalkDirty, Descend,
           RefuseDuplicate, Slide,
           RecolourUncle, RedRedDone, Successor, RecolourSibling, BlackBlackDone
  <1> QED BY <1>2, <1>3, <1>5, <1>6, <1>7, <1>8

\* Whenever marking is enabled, a rotation or a removal marks each node whose
\* parent or children it changes.
THEOREM RelinkingMarks == Spec => MarksTouched
  <1>1. TypeOK /\ [Next]_vars => [RelinkedAreMarked]_vars
    BY StepMarks
  <1> QED BY <1>1, TypeCorrect, PTL DEF Spec, MarksTouched, RelinkedAreMarked

-----------------------------------------------------------------------------
(* The order: a rotation, an insertion and a removal leave each value      *)
(* where the comparator would look for it.                                 *)

LEMMA ValueIsInt ==
    ASSUME TypeOK, NEW n \in Linked \cup Detached PROVE value[n] \in Int
  <1>1. n \in Node /\ status[n] # "free"
    BY DEF Linked, Detached
  <1>2. value[n] \in Value
    BY <1>1 DEF TypeOK
  <1> QED BY <1>2, ValueAssumption

LEMMA FitsAcross ==
    ASSUME NEW m \in Node, NEW n \in Node, value[m] \in Int, value[n] \in Int,
           NEW s \in Side, Fits(value[m], n, Other(s))
    PROVE  /\ Fits(value[n], m, s)
           /\ \A v \in Int : Fits(v, n, s) => Fits(v, m, s)
  BY DEF Fits, Other

\* A rotation lets t stand wherever p might, and p on one side of t only.
LEMMA TurnKeepsOrder ==
    ASSUME TypeOK, LinksOK, NEW d \in [Ref -> Nat], NEW s \in Side, NEW p, Rotatable(d, s, p),
           TurnedLinks(s, p), Linked' = Linked, value' = value,
           NEW A \in [Ref -> SUBSET Int], Narrowing(A)
    PROVE  \E B \in [Ref -> SUBSET Int] : Narrowing(B)'
  <1>1. PICK o, t, b, g, k : Around(s, p, o, t, b, g, k)
    BY RotatedAround
  <1>2. /\ p \in Linked /\ t \in Linked /\ p \in Ref /\ t \in Ref /\ p # t /\ p # nil /\ t # nil
        /\ o = Other(s) /\ o \in Side /\ o # s /\ child[p][o] = t /\ child[t][s] = b
        /\ b \in Ref /\ b # p /\ b # t /\ (b # nil => b \in Linked)
        /\ g \in Ref /\ g # p /\ g # t /\ (g # nil => g \in Linked /\ child[g][k] = p)
        /\ k \in Side /\ s = Other(o)
    BY <1>1 DEF Around, Other
  <1>3. /\ child'[p][o] = b /\ child'[t][s] = p /\ (g # nil => child'[g][k] = t)
        /\ p \in Node /\ t \in Node /\ Linked \subseteq Node
    BY <1>1 DEF Around, Linked
  <1>4. /\ \A n \in Linked : value[n] \in A[n] /\ value[n] \in Int
        /\ \A n \in Linked, r \in Side :
              child[n][r] # nil =>
                 \A v \in A[child[n][r]] : v \in A[n] /\ Fits(v, n, r)
    BY ValueIsInt DEF Narrowing
  <1>5. /\ Fits(value[p], t, s)
        /\ \A v \in Int : Fits(v, p, s) => Fits(v, t, s)
    <2>1. Fits(value[t], p, o)
      BY <1>2, <1>4
    <2> QED BY <1>2, <1>3, <1>4, <2>1, FitsAcross
  <1>6. PICK B \in [Ref -> SUBSET Int] :
           /\ B[t] = A[p] /\ B[p] = {v \in A[p] : Fits(v, t, s)}
           /\ \A n \in Ref : n # p /\ n # t => B[n] = A[n]
    <2> DEFINE B == [A EXCEPT ![t] = A[p], ![p] = {v \in A[p] : Fits(v, t, s)}]
    <2>1. /\ B \in [Ref -> SUBSET Int]
          /\ B[t] = A[p] /\ B[p] = {v \in A[p] : Fits(v, t, s)}
          /\ \A n \in Ref : n # p /\ n # t => B[n] = A[n]
      BY <1>2
    <2> QED BY <2>1
  <1>7. ASSUME NEW n \in Linked PROVE value[n] \in B[n]
    <2>1. value[t] \in A[p]
      BY <1>2, <1>4
    <2> QED BY <1>3, <1>4, <1>5, <1>6, <2>1
  <1>8. ASSUME NEW n \in Linked, NEW r \in Side, child'[n][r] # nil,
               NEW v \in B[child'[n][r]]
        PROVE  v \in B[n] /\ Fits(v, n, r)
    <2>1. CASE n = p /\ r = o
      <3>1. v \in A[b] /\ b # nil
        BY <1>2, <1>3, <1>6, <1>8, <2>1
      <3>2. v \in A[t] /\ Fits(v, t, s)
        BY <1>2, <1>4, <3>1
      <3> QED BY <1>2, <1>4, <1>6, <2>1, <3>2
    <2>2. CASE n = t /\ r = s
      BY <1>2, <1>3, <1>6, <1>8, <2>2
    <2>3. CASE n = g /\ r = k
      <3>1. v \in A[p] /\ g # nil
        BY <1>2, <1>3, <1>6, <1>8, <2>3
      <3> QED BY <1>2, <1>4, <1>6, <2>3, <3>1
    <2>4. CASE ~(n = p /\ r = o) /\ ~(n = t /\ r = s) /\ ~(n = g /\ r = k)
      <3>1. /\ child'[n][r] = child[n][r] /\ child[n][r] # p /\ child[n][r] # t
            /\ child[n][r] \in Linked
        BY <1>1, <1>8, <2>4, OtherLinks
      <3>2. v \in A[child[n][r]]
        BY <1>3, <1>6, <1>8, <3>1
      <3>3. v \in A[n] /\ Fits(v, n, r) /\ v \in Int
        BY <1>3, <1>4, <1>8, <3>1, <3>2
      <3>4. CASE n = p
        BY <1>2, <1>5, <1>6, <2>4, <3>3, <3>4
      <3>5. CASE n = t
        BY <1>2, <1>4, <1>6, <3>3, <3>5
      <3>6. CASE n # p /\ n # t
        BY <1>3, <1>6, <3>3, <3>6
      <3> QED BY <3>4, <3>5, <3>6
    <2> QED BY <2>1, <2>2, <2>3, <2>4
  <1>9. Narrowing(B)'
    BY <1>7, <1>8 DEF Narrowing, Fits
  <1> QED BY <1>9

\* A new node has the place below x to itself.
LEMMA AttachKeepsOrder ==
    ASSUME NEW d \in [Ref -> Nat], NEW h, InvariantBy(d, h), Attach,
           NEW A \in [Ref -> SUBSET Int], Narrowing(A),
           x # nil => value[arg] \in A[x] /\ Fits(value[arg], x, side)
    PROVE  \E B \in [Ref -> SUBSET Int] : Narrowing(B)'
  <1>1. /\ TypeOK /\ LinksOK /\ side \in Side /\ arg \in Ref /\ arg \in Node /\ arg \notin Linked
        /\ \A s \in Side : child[arg][s] = nil
        /\ x # nil => x \in Linked
        /\ value[arg] \in Int
    <2>1. TypeOK
      BY DEF InvariantBy
    <2> QED BY <2>1, FreePlace, ValueIsInt DEF InvariantBy, TypeOK
  <1>2. /\ Linked' = Linked \cup {arg} /\ value' = value
        /\ \A n \in Ref, r \in Side : ~(n = x /\ x # nil /\ r = side) => child'[n][r] = child[n][r]
        /\ x # nil => child'[x][side] = arg
    BY <1>1 DEF Attach, Linked, TypeOK
  <1>3. PICK B \in [Ref -> SUBSET Int] :
           /\ B[arg] = {v \in Int : x # nil => v \in A[x] /\ Fits(v, x, side)}
           /\ \A n \in Ref : n # arg => B[n] = A[n]
    <2> DEFINE B == [A EXCEPT ![arg] = {v \in Int : x # nil => v \in A[x] /\ Fits(v, x, side)}]
    <2>1. /\ B \in [Ref -> SUBSET Int]
          /\ B[arg] = {v \in Int : x # nil => v \in A[x] /\ Fits(v, x, side)}
          /\ \A n \in Ref : n # arg => B[n] = A[n]
      BY <1>1
    <2> QED BY <2>1
  <1>4. /\ Linked \subseteq Node
        /\ \A n \in Linked : value[n] \in A[n]
        /\ \A n \in Linked, r \in Side :
              child[n][r] # nil =>
                 \A v \in A[child[n][r]] : v \in A[n] /\ Fits(v, n, r)
    BY DEF Narrowing, Linked
  <1>5. ASSUME NEW n \in Linked' PROVE value[n] \in B[n]
    BY <1>1, <1>2, <1>3, <1>4
  <1>6. ASSUME NEW n \in Linked', NEW r \in Side, child'[n][r] # nil, NEW v \in B[child'[n][r]]
        PROVE  v \in B[n] /\ Fits(v, n, r)
    <2>1. n # arg /\ n \in Linked
      BY <1>1, <1>2, <1>6
    <2>2. CASE n = x /\ r = side
      BY <1>1, <1>2, <1>3, <1>4, <1>6, <2>1, <2>2
    <2>3. CASE ~(n = x /\ r = side)
      <3>1. child'[n][r] = child[n][r] /\ child[n][r] \in Linked
        BY <1>1, <1>2, <1>4, <1>6, <2>1, <2>3 DEF LinksOK
      <3> QED BY <1>1, <1>3, <1>4, <1>6, <2>1, <3>1
    <2> QED BY <2>2, <2>3
  <1>7. Narrowing(B)'
    BY <1>2, <1>5, <1>6 DEF Narrowing, Fits
  <1> QED BY <1>7

\* What is cut out narrows nothing that its one child did not narrow.
LEMMA CutKeepsOrder ==
    ASSUME NEW d \in [Ref -> Nat], NEW h \in [Ref -> Nat], InvariantBy(d, h), Unlink, y = arg,
           NEW A \in [Ref -> SUBSET Int], Narrowing(A)
    PROVE  Narrowing(A)'
  <1>1. TypeOK /\ LinksOK /\ Linked \subseteq Node
    BY DEF InvariantBy, Linked
  <1>2. PICK v, z, q, k : /\ v = y /\ z = Heir /\ q = parent[y] /\ k = SlotOf(child, q, v)
                          /\ Cuttable(v, z, q, h)
    BY CutKin
  <1>3. /\ v \in Linked /\ v # nil /\ q # v /\ z \in Linked \cup {nil}
        /\ \E r \in Side : child[v][r] = z
        /\ q \in Linked \cup {nil}
        /\ q # nil => child[q][k] = v
        /\ k \in Side
    BY <1>2, SlotSides DEF Cuttable
  <1>4. /\ Linked' = Linked \ {v}
        /\ value' = [value EXCEPT ![v] = nil]
        /\ child' = [Relinked(child, q, v, z) EXCEPT ![v] = [s \in Side |-> nil]]
    BY <1>1, <1>2, <1>3 DEF Unlink, CutOut, Freed, Linked, TypeOK
  <1>5. /\ \A n \in Linked' : value'[n] = value[n]
        /\ q # nil => child'[q][k] = z
        /\ \A n \in Linked', r \in Side : ~(n = q /\ r = k) => child'[n][r] = child[n][r]
    BY <1>1, <1>2, <1>3, <1>4 DEF Relinked, TypeOK
  <1>6. /\ \A n \in Linked : value[n] \in A[n]
        /\ \A n \in Linked, r \in Side :
              child[n][r] # nil =>
                 \A w \in A[child[n][r]] : w \in A[n] /\ Fits(w, n, r)
    BY DEF Narrowing
  <1>7. ASSUME NEW n \in Linked', NEW r \in Side, child'[n][r] # nil, NEW w \in A[child'[n][r]]
        PROVE  w \in A[n] /\ Fits(w, n, r)'
    <2>1. w \in A[n] /\ Fits(w, n, r)
      BY <1>1, <1>3, <1>4, <1>5, <1>6, <1>7
    <2> QED BY <1>5, <2>1 DEF Fits
  <1> QED BY <1>4, <1>5, <1>6, <1>7 DEF Narrowing

\* The successor takes over what arg allowed, and the way to it gives up what
\* is smaller than the successor.
LEMMA ReplaceKeepsOrder ==
    ASSUME NEW d \in [Ref -> Nat], NEW h \in [Ref -> Nat], InvariantBy(d, h), Unlink, y # arg,
           NEW A \in [Ref -> SUBSET Int], Narrowing(A), NEW W \in SUBSET Node, Spine(A, W)
    PROVE  \E B \in [Ref -> SUBSET Int] : Narrowing(B)'
  <1>1. TypeOK /\ LinksOK /\ Linked \subseteq Node
    BY DEF InvariantBy, Linked
  <1>2. PICK v, z, q, a : /\ v = y /\ z = Heir /\ q = parent[y] /\ a = arg
                          /\ Cuttable(v, z, q, h)
    BY CutKin
  <1>3. PICK g, k, L, R, u, c : Grafted(v, z, q, a, g, k, L, R, u, c)
    BY <1>2, Graft
  <1>4. /\ v \in Linked /\ v # nil /\ z # v /\ (z # nil => z \in Linked /\ parent[z] = v)
        /\ a \in Linked /\ a # v /\ a # nil
    BY <1>2, <1>3 DEF Cuttable, Grafted
  <1>5. /\ Linked' = Linked \ {a}
        /\ \A n \in Linked' : value'[n] = value[n]
    BY <1>1, <1>2, <1>4 DEF Unlink, Freed, Linked, TypeOK
  <1>6. /\ \A n \in Linked : value[n] \in A[n] /\ value[n] \in Int
        /\ \A n \in Linked, r \in Side :
              child[n][r] # nil =>
                 \A w \in A[child[n][r]] : w \in A[n] /\ Fits(w, n, r)
    BY <1>1, ValueIsInt DEF Narrowing
  <1>7. /\ W \subseteq Linked \ {a, v} /\ g \notin W /\ g # v
        /\ R \in W \cup {v} /\ L \notin W \cup {v}
        /\ \A n \in W \cup {v} : parent[n] \in W \cup {a}
        /\ \A n \in W : child[n]["left"] \in W \cup {v}
        /\ \A w \in A[v] : /\ w \in A[a] /\ Fits(w, a, "right")
                           /\ \A n \in W : Fits(w, n, "left")
    BY <1>2, <1>3 DEF Spine, Grafted
  <1>8. /\ value[v] \in A[a] /\ value[a] <= value[v]
        /\ \A n \in W : value[v] <= value[n]
    BY <1>4, <1>6, <1>7 DEF Fits
  <1>9. PICK B \in [Ref -> SUBSET Int] :
           /\ B[v] = A[a]
           /\ \A n \in W : B[n] = {w \in A[n] : value[v] <= w}
           /\ \A n \in Ref : n # v /\ n \notin W => B[n] = A[n]
    <2> DEFINE B == [n \in Ref |-> IF n = v THEN A[a]
                                   ELSE IF n \in W THEN {w \in A[n] : value[v] <= w} ELSE A[n]]
    <2>1. /\ B \in [Ref -> SUBSET Int]
          /\ B[v] = A[a]
          /\ \A n \in W : B[n] = {w \in A[n] : value[v] <= w}
          /\ \A n \in Ref : n # v /\ n \notin W => B[n] = A[n]
      BY <1>1, <1>4, <1>7
    <2> QED BY <2>1
  <1>10. ASSUME NEW n \in Linked' PROVE value[n] \in B[n]
    BY <1>1, <1>5, <1>6, <1>8, <1>9
  <1>11. ASSUME NEW n \in Linked', NEW r \in Side, child'[n][r] # nil, NEW w \in B[child'[n][r]]
         PROVE  w \in B[n] /\ Fits(w, n, r)
    <2>1. n \in Linked /\ n # a
      BY <1>5
    <2>2. CASE n = v /\ r = "left" /\ child'[n][r] = L
      <3>1. L \in Linked /\ L # nil /\ L = child[a]["left"]
        BY <1>3 DEF Grafted
      <3>2. w \in A[L]
        BY <1>1, <1>7, <1>9, <1>11, <2>2, <3>1
      <3>3. w \in A[a] /\ Fits(w, a, "left") /\ w \in Int
        BY <1>1, <1>4, <1>6, <3>1, <3>2
      <3> QED BY <1>4, <1>6, <1>8, <1>9, <2>2, <3>3 DEF Fits
    <2>3. CASE n = v /\ r = "right" /\ child'[n][r] = R /\ v # R
      <3>1. R \in W /\ R \in Linked /\ R # nil /\ R = child[a]["right"]
        BY <1>3, <1>7, <2>3 DEF Grafted
      <3>2. w \in A[R] /\ value[v] <= w
        BY <1>9, <1>11, <2>3, <3>1
      <3> QED BY <1>4, <1>6, <1>9, <2>3, <3>1, <3>2 DEF Fits
    <2>4. CASE n = u /\ r = c /\ child'[n][r] = z
      <3>1. z # nil /\ z \in Linked /\ z \notin W /\ z # v
        BY <1>4, <1>7, <1>11, <2>4
      <3>2. w \in A[z] /\ child[v]["right"] = z
        BY <1>1, <1>3, <1>9, <1>11, <2>4, <3>1 DEF Grafted
      <3>3. w \in A[v] /\ value[v] <= w /\ w \in Int
        BY <1>1, <1>4, <1>6, <3>1, <3>2 DEF Fits
      <3>4. CASE v = R /\ u = v /\ c = "right"
        BY <1>7, <1>9, <2>4, <3>3, <3>4 DEF Fits
      <3>5. CASE q # a /\ u = q /\ c = "left" /\ child[q]["left"] = v
        <4>1. q \in W
          BY <1>2, <1>7, <3>5
        <4>2. w \in A[q] /\ Fits(w, q, "left")
          BY <1>4, <1>6, <1>7, <3>3, <3>5, <4>1
        <4> QED BY <1>9, <2>4, <3>3, <3>5, <4>1, <4>2
      <3> QED BY <1>3, <3>4, <3>5 DEF Grafted
    <2>5. CASE n = g /\ r = k /\ child'[n][r] = v
      <3>1. w \in A[a] /\ g # nil /\ child[g][k] = a
        BY <1>1, <1>3, <1>9, <1>11, <2>1, <2>5 DEF Grafted
      <3> QED BY <1>1, <1>4, <1>6, <1>7, <1>9, <2>1, <2>5, <3>1
    <2>6. CASE child'[n][r] = child[n][r] /\ child[n][r] \notin {a, v, L, R} /\ n # v
      <3> DEFINE m == child[n][r]
      <3>1. m \in Linked /\ m # nil /\ parent[m] = n /\ m # v
        BY <1>1, <1>11, <2>1, <2>6 DEF LinksOK
      <3>2. w \in B[m]
        BY <1>11, <2>6
      <3>3. \A e \in A[m] : e \in A[n] /\ Fits(e, n, r)
        BY <1>6, <2>1, <3>1
      <3>4. n \in W => child[n]["left"] \in W \cup {v}
        BY <1>7
      <3>5. r = "left" => m = child[n]["left"]
        OBVIOUS
      <3> HIDE DEF m
      <3>6. CASE m \in W
        <4>1. n \in W
          BY <1>7, <2>1, <3>1, <3>6
        <4> QED BY <1>9, <3>2, <3>3, <3>6, <4>1
      <3>7. CASE m \notin W
        <4>1. w \in A[m] /\ w \in Int
          BY <1>1, <1>9, <3>1, <3>2, <3>7
        <4>2. CASE n \in W
          <5>1. r = "right"
            BY <3>1, <3>4, <3>5, <3>7, <4>2
          <5> QED BY <1>4, <1>6, <1>8, <1>9, <2>1, <3>3, <4>1, <4>2, <5>1 DEF Fits
        <4>3. CASE n \notin W
          BY <1>1, <1>9, <2>1, <2>6, <3>3, <4>1, <4>3
        <4> QED BY <4>2, <4>3
      <3> QED BY <3>6, <3>7
    <2> QED BY <1>1, <1>2, <1>3, <2>1, <2>2, <2>3, <2>4, <2>5, <2>6, GraftedLinks
  <1>12. Narrowing(B)'
    BY <1>5, <1>10, <1>11 DEF Narrowing, Fits
  <1> QED BY <1>12

-----------------------------------------------------------------------------
(* The search.                                                             *)

\* The path of a linked node stays in the tree and ends at the root.
LEMMA PathInTree ==
    ASSUME NEW d \in [Ref -> Nat], NEW h, InvariantBy(d, h), NEW m \in Linked
    PROVE  /\ m \in Path(parent, m) /\ UpClosed(parent, Path(parent, m))
           /\ Path(parent, m) \subseteq Linked
           /\ root \in Path(parent, m)
  <1>1. TypeOK /\ LinksOK /\ Linked \subseteq Node /\ m # nil
    BY DEF InvariantBy, Linked
  <1>2. m \in Path(parent, m) /\ UpClosed(parent, Path(parent, m))
    BY <1>1, PathUp DEF TypeOK
  <1>3. Path(parent, m) \subseteq Linked
    <2>1. UpClosed(parent, Linked)
      BY <1>1 DEF UpClosed, LinksOK
    <2> QED BY <1>1, <2>1 DEF Path
  <1>4. Rooted(Path(parent, m), root, parent, child, d)
    <2>1. \A n \in Linked, s \in Side : child[n][s] # nil => d[n] < d[child[n][s]]
      BY DEF InvariantBy, Descending
    <2>2. \A n \in Path(parent, m) : n # root =>
             parent[n] \in Path(parent, m) /\ \E s \in Side : child[parent[n]][s] = n
      BY <1>1, <1>2, <1>3 DEF UpClosed, LinksOK
    <2> QED BY <1>1, <1>3, <2>1, <2>2 DEF Rooted
  <1>5. root \in Path(parent, m)
    BY <1>2, <1>4, RootExists
  <1> QED BY <1>2, <1>3, <1>5

\* A path that meets n and goes on below it meets a child of n.
LEMMA PathDown ==
    ASSUME NEW d \in [Ref -> Nat], NEW h, InvariantBy(d, h), NEW m \in Linked,
           NEW n \in Path(parent, m), m # n
    PROVE  \E s \in Side : child[n][s] \in Path(parent, m)
  <1>1. /\ m \in Path(parent, m) /\ UpClosed(parent, Path(parent, m))
        /\ Path(parent, m) \subseteq Linked
    BY PathInTree
  <1>2. LinksOK /\ TypeOK /\ Linked \subseteq Node /\ nil \notin Linked
    BY DEF InvariantBy, Linked
  <1> SUFFICES ASSUME \A s \in Side : child[n][s] \notin Path(parent, m) PROVE FALSE
    OBVIOUS
  <1>3. UpClosed(parent, Path(parent, m) \ {n})
    <2> SUFFICES ASSUME NEW k \in Path(parent, m) \ {n}, parent[k] # nil PROVE parent[k] # n
      BY <1>1 DEF UpClosed
    <2>1. k # root => \E s \in Side : child[parent[k]][s] = k
      BY <1>1, <1>2 DEF LinksOK
    <2>2. k # root
      BY <1>1, <1>2 DEF LinksOK
    <2> QED BY <2>1, <2>2
  <1>4. Path(parent, m) \subseteq Path(parent, m) \ {n}
    <2>1. m \in Path(parent, m) \ {n} /\ Path(parent, m) \ {n} \in SUBSET Node /\ m # nil
      BY <1>1, <1>2
    <2>2. \A S \in SUBSET Node : m \in S /\ UpClosed(parent, S) => Path(parent, m) \subseteq S
      BY <2>1 DEF Path
    <2> QED BY <1>3, <2>1, <2>2
  <1> QED BY <1>4

\* All nodes on the path of m allow the value of m.
LEMMA PathAllows ==
    ASSUME NEW d \in [Ref -> Nat], NEW h, InvariantBy(d, h), NEW m \in Linked,
           NEW A \in [Ref -> SUBSET Int], Narrowing(A)
    PROVE  \A n \in Path(parent, m) : value[m] \in A[n]
  <1> DEFINE S == {n \in Linked : value[m] \in A[n]}
  <1>1. LinksOK /\ Linked \subseteq Node /\ m # nil
    BY DEF InvariantBy, Linked
  <1>2. m \in S
    BY DEF Narrowing
  <1>3. UpClosed(parent, S)
    <2> SUFFICES ASSUME NEW n \in S, parent[n] # nil PROVE parent[n] \in S
      BY DEF UpClosed
    <2>1. parent[n] \in Linked /\ \E s \in Side : child[parent[n]][s] = n
      BY <1>1 DEF LinksOK
    <2> QED BY <1>1, <2>1 DEF Narrowing
  <1> QED BY <1>1, <1>2, <1>3 DEF Path

\* From a node on the way to m, the comparator turns to m.
LEMMA WayDown ==
    ASSUME NEW d \in [Ref -> Nat], NEW h, InvariantBy(d, h), NEW m \in Linked,
           NEW A \in [Ref -> SUBSET Int], Narrowing(A),
           NEW n \in Path(parent, m), value[m] # value[n]
    PROVE  child[n][WayFrom(value[m], n)] \in Path(parent, m)
  <1>1. PICK s \in Side : child[n][s] \in Path(parent, m)
    BY PathDown
  <1>2. child[n][s] \in Linked /\ n \in Linked /\ TypeOK /\ nil \notin Linked
    BY <1>1, PathInTree DEF InvariantBy, Linked
  <1>3. value[m] \in A[child[n][s]]
    BY <1>1, PathAllows
  <1>4. Fits(value[m], n, s) /\ value[m] \in Int /\ value[n] \in Int
    BY <1>2, <1>3, ValueIsInt DEF Narrowing
  <1>5. WayFrom(value[m], n) = s
    BY <1>4 DEF Fits, WayFrom
  <1> QED BY <1>1, <1>5

-----------------------------------------------------------------------------
(* Every step keeps the order.                                             *)

\* The steps that change links or links' owners.
Relinking ==
    \/ Attach \/ Unlink
    \/ RotateInner \/ RotateOuter \/ RotateSibling
    \/ \E s \in Side : RotateNephew(s) \/ RotateParent(s)

LEMMA OthersRelinkNothing ==
    ASSUME TypeOK, [Next]_vars, ~Relinking
    PROVE  /\ Linked' = Linked
           /\ \A n \in Linked : child'[n] = child[n] /\ value'[n] = value[n]
  <1>1. ASSUME NEW n \in Node, NEW v \in Payload[n], NewNode(n, v)
        PROVE  /\ Linked' = Linked
               /\ \A m \in Linked : child'[m] = child[m] /\ value'[m] = value[m]
    <2>1. n \notin Linked /\ Linked' = Linked
      BY <1>1 DEF NewNode, Linked, TypeOK
    <2> QED BY <1>1, <2>1 DEF NewNode, Linked, TypeOK
  <1>2. ASSUME NEW n \in Node, FreeNode(n)
        PROVE  /\ Linked' = Linked
               /\ \A m \in Linked : child'[m] = child[m] /\ value'[m] = value[m]
    <2>1. n \notin Linked /\ Linked' = Linked
      BY <1>2 DEF FreeNode, Linked, TypeOK
    <2> QED BY <1>2, <2>1 DEF FreeNode, Linked, TypeOK
  <1>3. CASE ~\E n \in Node : FreeNode(n) \/ \E v \in Payload[n] : NewNode(n, v)
    <2>1. UNCHANGED <<child, value, status>>
      <3>1. CASE UNCHANGED vars
        BY <3>1 DEF vars
      <3>2. CASE NodeCall
        BY <1>3, <3>2 DEF NodeCall, InsertNode, InsertBeside, RemoveNode, ClearMarker,
                          MarkNodeAsDirty, EnableMarking, heap, pool
      <3>3. CASE WalkDirty
        BY <3>3 DEF WalkDirty, pool
      <3>4. CASE Continue
        BY <3>4 DEF Continue, Relinking, Descend, RefuseDuplicate, Slide, RecolourUncle,
                    RedRedDone, Successor, RecolourSibling, BlackBlackDone, heap, pool
      <3> QED BY <3>1, <3>2, <3>3, <3>4 DEF Next
    <2> QED BY <2>1 DEF Linked
  <1> QED BY <1>1, <1>2, <1>3

\* Where the relinking steps go on, and whom they add or take away.
LEMMA RelinkingGoesOn ==
    ASSUME TypeOK, Relinking
    PROVE  /\ pc' \notin {"descend", "successor", "before", "after"}
           /\ ~Attach => /\ Linked' \subseteq Linked
                         /\ \A n \in Linked' : value'[n] = value[n]
           /\ ~Attach /\ ~Unlink => UNCHANGED <<value, status>>
  <1>1. CASE Attach
    BY <1>1 DEF Attach, Return
  <1>2. CASE Unlink
    BY <1>2 DEF Unlink, Return, Freed, TypeOK, Linked
  <1>3. CASE ~Attach /\ ~Unlink
    BY <1>3 DEF Relinking, RotateInner, RotateOuter, RotateGrandparent, RotateSibling,
                RotateNephew, RotateParent, pool, Linked
  <1> QED BY <1>1, <1>2, <1>3

LEMMA RelinkingKeepsOrder ==
    ASSUME NEW d \in [Ref -> Nat], NEW h \in [Ref -> Nat], InvariantBy(d, h), Relinking,
           NEW A \in [Ref -> SUBSET Int], NEW W \in SUBSET Node, OrderedBy(A, W),
           pc \notin {"before", "after"}
    PROVE  \E B \in [Ref -> SUBSET Int], V \in SUBSET Node : OrderedBy(B, V)'
  <1>1. TypeOK /\ LinksOK /\ Narrowing(A)
    BY DEF InvariantBy, OrderedBy
  <1>2. \E B \in [Ref -> SUBSET Int] : Narrowing(B)'
    <2>1. CASE Attach
      <3>1. x # nil => value[arg] \in A[x] /\ Fits(value[arg], x, side)
        BY <2>1 DEF Attach, OrderedBy
      <3> QED BY <1>1, <2>1, <3>1, AttachKeepsOrder
    <2>2. CASE Unlink
      <3>1. y # arg => Spine(A, W)
        BY <2>2 DEF Unlink, OrderedBy
      <3> QED BY <1>1, <2>2, <3>1, CutKeepsOrder, ReplaceKeepsOrder
    <2>3. CASE ~Attach /\ ~Unlink
      <3>1. PICK s \in Side, p \in Node : Rotatable(d, s, p) /\ Rotate(s, p)
        BY <2>3, FixupTurns DEF Relinking
      <3>2. value' = value /\ Linked' = Linked
        BY <1>1, <2>3, RelinkingGoesOn DEF Linked
      <3>3. TurnedLinks(s, p)
        BY <1>1, <3>1, RotateLinks
      <3> QED BY <1>1, <3>1, <3>2, <3>3, TurnKeepsOrder
    <2> QED BY <2>1, <2>2, <2>3
  <1>3. pc' \notin {"descend", "successor"}
    BY <1>1, RelinkingGoesOn
  <1> QED BY <1>2, <1>3 DEF OrderedBy

\* The walk to the successor goes down on the left.
LEMMA SpineGrows ==
    ASSUME NEW d \in [Ref -> Nat], NEW h, InvariantBy(d, h), Successor,
           NEW A \in [Ref -> SUBSET Int], Narrowing(A), NEW W \in SUBSET Node, Spine(A, W)
    PROVE  \E V \in SUBSET Node : Spine(A, V)'
  <1>1. /\ LinksOK /\ y \in Linked /\ arg \in Linked /\ y # arg /\ pc = "successor"
        /\ UNCHANGED <<child, parent, value, status, arg>>
        /\ y' = child[y]["left"] /\ y' # nil /\ Linked \subseteq Node
    BY DEF InvariantBy, PlaceOK, SuccessorPlace, Successor, TypeOK, heap, pool, Linked
  <1>2. Linked' = Linked /\ y' \in Linked /\ parent[y'] = y
    BY <1>1 DEF Linked, LinksOK
  <1>3. d[arg] < d[y] /\ d[y] < d[y'] /\ d[arg] \in Nat /\ d[y] \in Nat /\ d[y'] \in Nat
    BY <1>1, <1>2 DEF InvariantBy, Descending
  <1>4. parent[arg] # y /\ y' # arg
    <2>1. parent[arg] = y => \E s \in Side : child[y][s] = arg
      BY <1>1 DEF LinksOK
    <2>2. \A s \in Side : child[y][s] = arg => d[y] < d[arg]
      BY <1>1 DEF InvariantBy, Descending, Linked
    <2> QED BY <1>2, <1>3, <2>1, <2>2
  <1>5. /\ W \subseteq Linked \ {arg, y} /\ parent[arg] \notin W
        /\ child[arg]["right"] \in W \cup {y}
        /\ child[arg]["left"] \notin W \cup {y}
        /\ \A k \in W \cup {y} : parent[k] \in W \cup {arg}
        /\ \A k \in W : child[k]["left"] \in W \cup {y}
        /\ \A v \in A[y] : /\ v \in A[arg] /\ Fits(v, arg, "right")
                           /\ \A k \in W : Fits(v, k, "left")
    BY DEF Spine
  <1>6. PICK V \in SUBSET Node : V = W \cup {y}
    BY <1>1
  <1>7. y' \notin W \cup {y} /\ child[arg]["left"] # y'
    BY <1>1, <1>2, <1>3, <1>5 DEF LinksOK
  <1>8. V \subseteq Linked' \ {arg', y'} /\ parent'[arg'] \notin V
    BY <1>1, <1>2, <1>4, <1>5, <1>6, <1>7
  <1>9. /\ child'[arg']["right"] \in V \cup {y'}
        /\ child'[arg']["left"] \notin V \cup {y'}
        /\ \A k \in V \cup {y'} : parent'[k] \in V \cup {arg'}
        /\ \A k \in V : child'[k]["left"] \in V \cup {y'}
    BY <1>1, <1>2, <1>5, <1>6, <1>7
  <1>10. \A v \in A[y'] : /\ v \in A[arg'] /\ Fits(v, arg, "right")
                          /\ \A k \in V : Fits(v, k, "left")
    BY <1>1, <1>5, <1>6 DEF Narrowing
  <1> QED BY <1>1, <1>8, <1>9, <1>10 DEF Spine, Fits

LEMMA QuietKeepsOrder ==
    ASSUME NEW d \in [Ref -> Nat], NEW h \in [Ref -> Nat], InvariantBy(d, h),
           [Next]_vars, ~Relinking,
           NEW A \in [Ref -> SUBSET Int], NEW W \in SUBSET Node, OrderedBy(A, W)
    PROVE  \E B \in [Ref -> SUBSET Int], V \in SUBSET Node : OrderedBy(B, V)'
  <1>1. /\ TypeOK /\ LinksOK /\ Narrowing(A) /\ Linked \subseteq Node
        /\ Linked' = Linked
        /\ \A n \in Linked : child'[n] = child[n] /\ value'[n] = value[n]
    BY OthersRelinkNothing DEF InvariantBy, OrderedBy, Linked
  <1>2. Narrowing(A)'
    BY <1>1 DEF Narrowing, Fits
  <1>3. CASE pc' \notin {"descend", "successor"}
    BY <1>2, <1>3 DEF OrderedBy
  <1>4. CASE \E n \in Node : InsertNode(n)
    BY <1>2, <1>4 DEF OrderedBy, InsertNode
  <1>5. CASE \E n \in Node : RemoveNode(n)
    <2>1. PICK n \in Node : RemoveNode(n)
      BY <1>5
    <2>2. /\ n \in Linked /\ arg' = n /\ UNCHANGED <<child, parent, value, status>>
          /\ y' = CutCandidate(n) /\ pc' = "successor"
      BY <2>1 DEF RemoveNode, heap, pool, Linked
    <2>3. ASSUME y' # n PROVE Spine(A, {})'
      <3>1. y' = child[n]["right"] /\ y' # nil /\ child[n]["left"] # nil
        BY <2>2, <2>3 DEF CutCandidate
      <3>2. y' \in Linked /\ parent[y'] = n /\ child[n]["left"] # y'
        BY <1>1, <2>2, <3>1 DEF LinksOK
      <3>3. \A v \in A[y'] : v \in A[n] /\ Fits(v, n, "right")
        BY <1>1, <2>2, <3>1 DEF Narrowing
      <3> QED BY <2>2, <3>1, <3>2, <3>3 DEF Spine, Fits
    <2> QED BY <1>2, <2>2, <2>3 DEF OrderedBy
  <1>6. CASE Descend
    <2>1. /\ y \in Linked /\ arg \in Detached /\ arg # nil
          /\ x' = y /\ side' = WayFrom(value[arg], y) /\ pc = "descend" /\ pc' = "descend"
          /\ arg' = arg /\ value' = value /\ y # nil /\ side \in Side
      <3>1. /\ y # nil /\ (IF x = nil THEN y = root ELSE x \in Linked /\ y = child[x][side])
            /\ side \in Side
        BY <1>1, <1>6 DEF Descend, InvariantBy, PlaceOK, SearchPlace, TypeOK
      <3>2. y \in Linked
        BY <1>1, <3>1 DEF LinksOK
      <3> QED BY <1>1, <1>6, <3>1, <3>2 DEF Descend, TypeOK, pool, Detached
    <2>2. value[arg] \in Int /\ value[y] \in Int
      BY <1>1, <2>1, ValueIsInt
    <2>3. Fits(value[arg], y, side')
      BY <2>1, <2>2 DEF Fits, WayFrom
    <2>4. PICK B \in [Ref -> SUBSET Int] :
             /\ B[y] = A[y] \cup {value[arg]}
             /\ \A n \in Ref : n # y => B[n] = A[n]
      <3> DEFINE B == [A EXCEPT ![y] = A[y] \cup {value[arg]}]
      <3>1. /\ B \in [Ref -> SUBSET Int]
            /\ B[y] = A[y] \cup {value[arg]}
            /\ \A n \in Ref : n # y => B[n] = A[n]
        BY <1>1, <2>1, <2>2
      <3> QED BY <3>1
    <2>5. ASSUME NEW n \in Linked, NEW s \in Side, child[n][s] # nil, NEW v \in B[child[n][s]]
          PROVE  v \in B[n] /\ Fits(v, n, s)
      <3>1. CASE child[n][s] = y /\ v = value[arg]
        <4>1. n = x /\ s = side /\ x # nil
          <5>1. parent[y] = n /\ y # root
            BY <1>1, <2>1, <3>1 DEF LinksOK
          <5>2. x # nil /\ x \in Linked /\ y = child[x][side]
            BY <2>1, <5>1 DEF InvariantBy, PlaceOK, SearchPlace
          <5>3. x = n
            BY <1>1, <2>1, <5>1, <5>2 DEF LinksOK
          <5> QED BY <1>1, <2>1, <2>5, <3>1, <5>2, <5>3 DEF LinksOK
        <4>2. v \in A[n] /\ Fits(v, n, s)
          BY <2>1, <3>1, <4>1 DEF OrderedBy
        <4> QED BY <1>1, <2>4, <4>2
      <3>2. CASE v \in A[child[n][s]]
        BY <1>1, <2>4, <2>5, <3>2 DEF Narrowing
      <3>3. child[n][s] \in Ref
        BY <1>1 DEF TypeOK
      <3> QED BY <2>4, <2>5, <3>1, <3>2, <3>3
    <2>6. \A n \in Linked : value[n] \in B[n]
      BY <1>1, <2>4 DEF Narrowing
    <2>7. Narrowing(B)'
      BY <1>1, <2>1, <2>5, <2>6 DEF Narrowing, Fits
    <2>8. value'[arg'] \in B[x'] /\ Fits(value[arg], x', side')
      BY <2>1, <2>3, <2>4
    <2> QED BY <2>1, <2>7, <2>8 DEF OrderedBy, Fits
  <1>7. CASE Successor
    <2>1. Spine(A, W)
      BY <1>7 DEF Successor, OrderedBy
    <2>2. PICK V \in SUBSET Node : Spine(A, V)'
      BY <1>1, <1>7, <2>1, SpineGrows
    <2> QED BY <1>2, <1>7, <2>2 DEF OrderedBy, Successor
  <1>8. CASE UNCHANGED vars
    <2>1. OrderedBy(A, W)'
      BY <1>8 DEF vars, OrderedBy, Narrowing, Spine, Fits, Linked
    <2> QED BY <2>1
  <1>9. CASE NodeCall /\ ~\E n \in Node : InsertNode(n) \/ RemoveNode(n)
    <2>1. pc' \notin {"descend", "successor"}
      BY <1>9 DEF NodeCall, NewNode, FreeNode, InsertBeside, ClearMarker, MarkNodeAsDirty,
                  EnableMarking, stack
    <2> QED BY <1>3, <2>1
  <1>10. CASE WalkDirty
    BY <1>3, <1>10 DEF WalkDirty, stack
  <1>11. CASE Continue /\ ~Descend /\ ~Successor
    <2>1. pc' \notin {"descend", "successor"}
      BY <1>11 DEF Continue, Relinking, RefuseDuplicate, Slide, RecolourUncle, RedRedDone,
                   RecolourSibling, AtNephews, BlackBlackDone, Return
    <2> QED BY <1>3, <2>1
  <1> QED BY <1>4, <1>5, <1>6, <1>7, <1>8, <1>9, <1>10, <1>11 DEF Next

\* The path that insert_node looks at meets every node with the value of arg.
LEMMA SearchMeetsEqual ==
    ASSUME NEW d \in [Ref -> Nat], NEW h \in [Ref -> Nat], InvariantBy(d, h), [Next]_vars,
           NEW A \in [Ref -> SUBSET Int], Narrowing(A), DuplicatesAhead
    PROVE  DuplicatesAhead'
  <1>1. TypeOK /\ LinksOK
    BY DEF InvariantBy
  <1>2. CASE pc' # "descend"
    BY <1>2 DEF DuplicatesAhead
  <1>3. CASE \E n \in Node : InsertNode(n)
    <2>1. Linked' = Linked /\ UNCHANGED <<parent, value>> /\ y' = root
      BY <1>3 DEF InsertNode, heap, pool, Linked
    <2>2. \A m \in Linked : root \in Path(parent, m)
      BY PathInTree
    <2> QED BY <2>1, <2>2 DEF DuplicatesAhead
  <1>4. CASE Descend
    <2>1. /\ Linked' = Linked /\ UNCHANGED <<parent, value, arg>> /\ pc = "descend"
          /\ ~IsTaken(value[arg], y) /\ y' = child[y][WayFrom(value[arg], y)]
      BY <1>4 DEF Descend, Deeper, heap, pool, Linked
    <2>2. ASSUME ~AllowDuplicates, NEW m \in Linked, value[m] = value[arg]
          PROVE  y' \in Path(parent, m)
      <3>1. y \in Path(parent, m) /\ value[m] # value[y]
        BY <2>1, <2>2 DEF DuplicatesAhead, IsTaken
      <3>2. child[y][WayFrom(value[m], y)] \in Path(parent, m)
        BY <3>1, WayDown
      <3> QED BY <2>1, <2>2, <3>2
    <2> QED BY <2>1, <2>2 DEF DuplicatesAhead
  <1>5. CASE UNCHANGED vars
    BY <1>5 DEF vars, DuplicatesAhead, Linked
  <1>6. CASE NodeCall /\ ~\E n \in Node : InsertNode(n)
    <2>1. pc' # "descend"
      BY <1>6 DEF NodeCall, NewNode, FreeNode, InsertBeside, RemoveNode, ClearMarker,
                  MarkNodeAsDirty, EnableMarking, stack
    <2> QED BY <1>2, <2>1
  <1>7. CASE WalkDirty
    BY <1>2, <1>7 DEF WalkDirty, stack
  <1>8. CASE Continue /\ ~Descend
    <2>1. pc' # "descend"
      <3>1. CASE Relinking
        BY <1>1, <3>1, RelinkingGoesOn
      <3>2. CASE ~Relinking
        BY <1>8, <3>2 DEF Continue, Relinking, RefuseDuplicate, Slide, RecolourUncle, RedRedDone,
                     Successor, RecolourSibling, AtNephews, BlackBlackDone, Return
      <3> QED BY <3>1, <3>2
    <2> QED BY <1>2, <2>1
  <1> QED BY <1>3, <1>4, <1>5, <1>6, <1>7, <1>8 DEF Next

\* Only attaching a node could bring a key in twice.
LEMMA StepUnique ==
    ASSUME NEW d \in [Ref -> Nat], NEW h \in [Ref -> Nat], InvariantBy(d, h), [Next]_vars,
           ~Positional, pc \notin {"before", "after"}, DuplicatesAhead, KeysUnique
    PROVE  KeysUnique'
  <1>1. TypeOK
    BY DEF InvariantBy
  <1>2. CASE Attach
    <2>1. /\ pc = "descend" /\ y = nil /\ value' = value /\ Linked' \subseteq Linked \cup {arg}
      BY <1>2 DEF Attach, Linked, TypeOK
    <2>2. ASSUME ~AllowDuplicates, NEW m \in Linked PROVE value[m] # value[arg]
      <3>1. nil \notin Path(parent, m)
        BY DEF Path
      <3> QED BY <2>1, <2>2, <3>1 DEF DuplicatesAhead
    <2> QED BY <2>1, <2>2 DEF KeysUnique
  <1>3. CASE ~Attach
    <2>1. Linked' \subseteq Linked /\ \A n \in Linked' : value'[n] = value[n]
      BY <1>1, <1>3, RelinkingGoesOn, OthersRelinkNothing
    <2> QED BY <2>1 DEF KeysUnique
  <1> QED BY <1>2, <1>3

LEMMA StepOrder == IInv /\ OrderInv /\ [Next]_vars => OrderInv'
  <1> SUFFICES ASSUME IInv, OrderInv, [Next]_vars, ~Positional PROVE OrderInv'
    BY DEF OrderInv
  <1>1. PICK d \in [Ref -> Nat], h \in [Ref -> Nat] : InvariantBy(d, h)
    BY DEF IInv
  <1>2. PICK A \in [Ref -> SUBSET Int], W \in SUBSET Node : OrderedBy(A, W)
    BY DEF OrderInv
  <1>3. TypeOK /\ Narrowing(A) /\ pc \notin {"before", "after"} /\ DuplicatesAhead /\ KeysUnique
    BY <1>1, <1>2 DEF InvariantBy, OrderedBy, OrderInv
  <1>4. \E B \in [Ref -> SUBSET Int], V \in SUBSET Node : OrderedBy(B, V)'
    BY <1>1, <1>2, <1>3, RelinkingKeepsOrder, QuietKeepsOrder
  <1>5. pc' \notin {"before", "after"}
    <2>1. CASE Relinking
      BY <1>3, <2>1, RelinkingGoesOn
    <2>2. CASE ~Relinking /\ Continue
      BY <1>3, <2>2 DEF Continue, Relinking, Descend, RefuseDuplicate, Slide, RecolourUncle,
                   RedRedDone, Successor, RecolourSibling, AtNephews, BlackBlackDone, Return
    <2>3. CASE NodeCall
      BY <2>3 DEF NodeCall, NewNode, FreeNode, InsertNode, InsertBeside, RemoveNode, ClearMarker,
                  MarkNodeAsDirty, EnableMarking, stack
    <2>4. CASE WalkDirty \/ UNCHANGED vars
      BY <1>3, <2>4 DEF WalkDirty, vars, stack
    <2> QED BY <2>1, <2>2, <2>3, <2>4 DEF Next
  <1>6. DuplicatesAhead'
    BY <1>1, <1>3, SearchMeetsEqual
  <1>7. KeysUnique'
    BY <1>1, <1>3, StepUnique
  <1> QED BY <1>4, <1>5, <1>6, <1>7 DEF OrderInv

LEMMA InitOrder == Init => OrderInv
  <1> SUFFICES ASSUME Init PROVE OrderInv
    OBVIOUS
  <1>1. Linked = {} /\ pc = "idle"
    BY DEF Init, Linked
  <1>2. PICK A \in [Ref -> SUBSET Int] : A[nil] = Int
    <2>1. [n \in Ref |-> Int] \in [Ref -> SUBSET Int]
      OBVIOUS
    <2> QED BY <2>1
  <1>3. OrderedBy(A, {})
    BY <1>1 DEF OrderedBy, Narrowing
  <1> QED BY <1>1, <1>3 DEF OrderInv, DuplicatesAhead, KeysUnique

\* In every reachable state of a tree that a comparator fills, the values that
\* may stand below a node narrow from link to link: an in-order walk is sorted,
\* and a search that turns by the comparator passes no equal value by.
THEOREM OrderHolds == Spec => []OrderInv
  BY InitOrder, StepOrder, InvariantHolds, PTL DEF Spec

\* Without allow_duplicates no key is ever in the tree twice, however often it
\* has been rotated and relinked since that key came in.
THEOREM NoKeyTwice == Spec => []KeysUnique
  <1>1. ASSUME ~Positional PROVE OrderInv => KeysUnique
    BY <1>1 DEF OrderInv
  <1>2. OrderInv => KeysUnique
    BY <1>1 DEF KeysUnique
  <1> QED BY <1>2, OrderHolds, PTL

-----------------------------------------------------------------------------
(* Paths.                                                                  *)

\* A path is the least set that goes on to the parent of each of its nodes.
LEMMA PathLeast ==
    ASSUME NEW par, NEW n \in Node, NEW S \in SUBSET Node, n \in S, UpClosed(par, S)
    PROVE  Path(par, n) \subseteq S
  BY DEF Path

LEMMA PathStep ==
    ASSUME NEW par \in [Ref -> Ref], NEW n \in Node, NEW m \in Node, par[m] = n
    PROVE  Path(par, m) = {m} \cup Path(par, n)
  <1>1. m \in Path(par, m) /\ UpClosed(par, Path(par, m)) /\ Path(par, m) \in SUBSET Node
    BY PathUp DEF Path
  <1>2. n \in Path(par, n) /\ UpClosed(par, Path(par, n)) /\ Path(par, n) \in SUBSET Node
    BY PathUp DEF Path
  <1>3. n \in Path(par, m)
    BY <1>1 DEF UpClosed
  <1>4. Path(par, n) \subseteq Path(par, m)
    BY <1>1, <1>3, PathLeast
  <1>5. UpClosed(par, {m} \cup Path(par, n))
    BY <1>2 DEF UpClosed
  <1>6. Path(par, m) \subseteq {m} \cup Path(par, n)
    BY <1>2, <1>5, PathLeast
  <1> QED BY <1>1, <1>4, <1>6

LEMMA PathOfRoot ==
    ASSUME NEW par \in [Ref -> Ref], NEW n \in Node, par[n] = nil
    PROVE  Path(par, n) = {n}
  <1>1. n \in Path(par, n)
    BY PathUp
  <1>2. UpClosed(par, {n})
    BY DEF UpClosed
  <1> QED BY <1>1, <1>2, PathLeast

\* The way up from a node leads to nodes that lie higher.
LEMMA PathRises ==
    ASSUME NEW d \in [Ref -> Nat], NEW h, InvariantBy(d, h), NEW m \in Linked
    PROVE  \A k \in Path(parent, m) : k # m => d[k] < d[m]
  <1> DEFINE S == {k \in Linked : k = m \/ d[k] < d[m]}
  <1>1. LinksOK /\ Linked \subseteq Node /\ nil \notin Linked
    BY DEF InvariantBy, Linked
  <1>2. UpClosed(parent, S)
    <2> SUFFICES ASSUME NEW k \in S, parent[k] # nil PROVE parent[k] \in S
      BY DEF UpClosed
    <2>1. PICK s \in Side : parent[k] \in Linked /\ child[parent[k]][s] = k
      BY <1>1 DEF LinksOK
    <2>2. d[parent[k]] < d[k]
      BY <1>1, <2>1 DEF InvariantBy, Descending
    <2>3. d[parent[k]] \in Nat /\ d[k] \in Nat /\ d[m] \in Nat
      BY <1>1, <2>1
    <2> QED BY <2>1, <2>2, <2>3
  <1>3. Path(parent, m) \subseteq S
    BY <1>1, <1>2, PathLeast
  <1> QED BY <1>3

-----------------------------------------------------------------------------
(* Every search comes the right way.                                       *)

LEMMA StepWay ==
    ASSUME NEW d \in [Ref -> Nat], NEW h, InvariantBy(d, h), WayOK, [Next]_vars
    PROVE  WayOK'
  <1>1. /\ TypeOK /\ LinksOK /\ Linked \subseteq Node /\ nil \notin Linked
        /\ parent \in [Ref -> Ref]
    BY DEF InvariantBy, TypeOK, Linked
  <1>2. ASSUME NEW n \in Linked, NEW s \in Side, child[n][s] # nil
        PROVE  /\ child[n][s] \in Linked /\ parent[child[n][s]] = n
               /\ Path(parent, child[n][s]) = {child[n][s]} \cup Path(parent, n)
    <2>1. child[n][s] \in Linked /\ parent[child[n][s]] = n
      BY <1>1, <1>2 DEF LinksOK
    <2> QED BY <1>1, <2>1, PathStep
  <1>3. CASE Descend
    <2>1. /\ pc = "descend" /\ y # nil /\ pc' = pc /\ arg' = arg /\ x' = y
          /\ parent' = parent /\ child' = child /\ root' = root /\ value' = value
          /\ side' = WayFrom(value[arg], y)
      BY <1>3 DEF Descend, heap, pool
    <2>2. IF x = nil THEN y = root ELSE x \in Linked /\ y = child[x][side]
      BY <2>1 DEF InvariantBy, PlaceOK, SearchPlace
    <2>3. \A k \in Path(parent, y) \ {root} : child[parent[k]][WayFrom(value[arg], parent[k])] = k
      <3>1. CASE x = nil
        <4>1. y \in Linked /\ parent[y] = nil
          BY <1>1, <2>1, <2>2, <3>1 DEF LinksOK
        <4>2. Path(parent, y) = {y}
          BY <1>1, <4>1, PathOfRoot
        <4> QED BY <2>2, <3>1, <4>2
      <3>2. CASE x # nil
        <4>1. side \in Side /\ x \in Linked /\ y = child[x][side] /\ side = WayFrom(value[arg], x)
          BY <1>1, <2>1, <2>2, <3>2 DEF TypeOK, WayOK
        <4>2. Path(parent, y) = {y} \cup Path(parent, x) /\ parent[y] = x
          BY <1>2, <2>1, <4>1
        <4>3. \A k \in Path(parent, x) \ {root} : child[parent[k]][WayFrom(value[arg], parent[k])] = k
          BY <2>1, <3>2 DEF WayOK
        <4> QED BY <4>1, <4>2, <4>3
      <3> QED BY <3>1, <3>2
    <2>4. Positional => root = nil
      BY <2>1 DEF WayOK
    <2> QED BY <2>1, <2>3, <2>4 DEF WayOK, WayFrom
  <1>4. CASE Slide
    <2>0. PICK s : s = SlideSide
      OBVIOUS
    <2>1. /\ pc \in {"before", "after"} /\ y # nil /\ pc' = pc /\ x' = y /\ beside' = beside
          /\ parent' = parent /\ child' = child /\ status' = status /\ side' = s
      BY <1>4, <2>0 DEF Slide, heap, pool
    <2>2. s \in Side /\ SlideSide' = s /\ x \in Linked /\ y = child[x][side] /\ side \in Side
      BY <1>1, <2>0, <2>1 DEF SlideSide, InvariantBy, PlaceOK, SearchPlace, TypeOK
    <2>3. /\ beside \in Linked /\ Leads(beside, x, s)
          /\ side = IF x = beside THEN Other(s) ELSE s
      BY <2>0, <2>1 DEF WayOK
    <2>4. y \in Linked /\ parent[y] = x /\ Path(parent, y) = {y} \cup Path(parent, x)
      BY <1>2, <2>1, <2>2
    <2>5. y # beside
      <3>1. d[x] < d[y] /\ d[beside] <= d[x] /\ d[x] \in Nat /\ d[y] \in Nat /\ d[beside] \in Nat
        <4>1. d[x] < d[y]
          BY <2>1, <2>2 DEF InvariantBy, Descending
        <4>2. d[x] \in Nat /\ d[y] \in Nat /\ d[beside] \in Nat
          BY <1>1, <2>2, <2>3, <2>4
        <4>3. beside # x => d[beside] < d[x]
          BY <2>2, <2>3, PathRises DEF Leads
        <4> QED BY <4>1, <4>2, <4>3
      <3> QED BY <3>1
    <2>6. Leads(beside, y, s)
      BY <2>2, <2>3, <2>4 DEF Leads
    <2>7. Leads(beside, x, SlideSide)'
      BY <2>1, <2>2, <2>6 DEF Leads
    <2>8. beside' \in Linked'
      BY <2>1, <2>3 DEF Linked
    <2>9. side' = IF x' = beside' THEN Other(SlideSide') ELSE SlideSide'
      BY <2>1, <2>2, <2>5
    <2> QED BY <2>1, <2>7, <2>8, <2>9 DEF WayOK
  <1>5. CASE Successor
    <2>1. /\ pc = "successor" /\ y # arg /\ child[y]["left"] # nil /\ y' = child[y]["left"]
          /\ pc' = pc /\ arg' = arg /\ parent' = parent /\ child' = child
      BY <1>5 DEF Successor, heap
    <2>2. y \in Linked /\ Leads(arg, y, "left")
      BY <2>1 DEF InvariantBy, PlaceOK, SuccessorPlace, WayOK
    <2>3. /\ y' \in Linked /\ parent[y'] = y
          /\ Path(parent, y') = {y'} \cup Path(parent, y)
      BY <1>2, <2>1, <2>2
    <2>4. Leads(arg, y, "left")'
      BY <2>1, <2>2, <2>3 DEF Leads
    <2> QED BY <2>1, <2>4 DEF WayOK
  <1>6. ASSUME NEW n \in Node, InsertNode(n)
        PROVE  WayOK'
    BY <1>6 DEF InsertNode, heap, WayOK
  <1>7. ASSUME NEW n \in Node, NEW m \in Node, NEW s \in Side, InsertBeside(n, m, s)
        PROVE  WayOK'
    <2>1. /\ pc' \in {"before", "after"} /\ (pc' = "before" <=> s = "left")
          /\ m \in Linked' /\ parent' = parent
          /\ x' = m /\ beside' = m /\ side' = s
      BY <1>7 DEF InsertBeside, Linked, pool, heap
    <2>2. Other(SlideSide)' = s
      BY <2>1 DEF SlideSide, Other
    <2>3. Leads(m, m, SlideSide)'
      BY <1>1, <2>1, PathUp DEF Leads
    <2> QED BY <2>1, <2>2, <2>3 DEF WayOK, Leads
  <1>8. ASSUME NEW n \in Node, RemoveNode(n)
        PROVE  WayOK'
    <2>1. /\ n \in Linked /\ pc' = "successor" /\ arg' = n /\ y' = CutCandidate(n)
          /\ parent' = parent /\ child' = child
      BY <1>8 DEF RemoveNode, heap, Linked
    <2>2. CASE y' = n
      BY <2>1, <2>2 DEF WayOK
    <2>3. CASE y' # n
      <3>1. y' = child[n]["right"] /\ child[n]["right"] # nil
        BY <2>1, <2>3 DEF CutCandidate
      <3>2. Path(parent, y') = {y'} \cup Path(parent, n) /\ parent[y'] = n /\ n \in Path(parent, n)
        BY <1>1, <1>2, <2>1, <3>1, PathUp
      <3>3. Leads(arg, y, "left")'
        BY <2>1, <3>1, <3>2 DEF Leads, Other
      <3> QED BY <2>1, <3>3 DEF WayOK
    <2> QED BY <2>2, <2>3
  <1>9. CASE UNCHANGED vars
    BY <1>9 DEF vars, WayOK, Leads, SlideSide, Linked, WayFrom
  <1>10. ASSUME pc' \notin {"descend", "before", "after", "successor"}
         PROVE  WayOK'
    BY <1>10 DEF WayOK
  <1>11. CASE NodeCall \/ WalkDirty
    <2>1. ASSUME NEW n \in Node,
                 \/ \E v \in Payload[n] : NewNode(n, v)
                 \/ FreeNode(n) \/ ClearMarker(n) \/ MarkNodeAsDirty(n)
          PROVE  pc' = "idle"
      BY <2>1 DEF NewNode, FreeNode, ClearMarker, MarkNodeAsDirty, stack
    <2>2. EnableMarking \/ WalkDirty => pc' = "idle"
      BY DEF EnableMarking, WalkDirty, stack
    <2> QED BY <1>6, <1>7, <1>8, <1>10, <1>11, <2>1, <2>2 DEF NodeCall
  <1>12. CASE Continue
    <2>1. RefuseDuplicate \/ Attach \/ RedRedDone \/ Unlink \/ BlackBlackDone =>
             pc' \in {"idle", "redred", "blackblack"}
      BY DEF RefuseDuplicate, Attach, RedRedDone, Unlink, BlackBlackDone, Return
    <2>2. RecolourUncle \/ RotateInner \/ RotateOuter \/ RotateSibling =>
             pc' \in {"redred", "redred_outer", "nephews"}
      BY DEF RecolourUncle, RotateInner, RotateOuter, RotateGrandparent, RotateSibling
    <2>3. (\E s \in Side : RecolourSibling(s) \/ RotateNephew(s) \/ RotateParent(s)) =>
             pc' \in {"blackblack", "outer"}
      BY DEF RecolourSibling, RotateNephew, RotateParent
    <2> QED BY <1>3, <1>4, <1>5, <1>10, <1>12, <2>1, <2>2, <2>3 DEF Continue
  <1> QED BY <1>9, <1>11, <1>12 DEF Next

\* Wherever an insertion or a removal stands, it has come from the root, from
\* the neighbour or from the node to remove by the right turns.
THEOREM WayHolds == Spec => []WayOK
  <1>1. Init => WayOK
    BY DEF Init, WayOK
  <1>2. IInv /\ WayOK /\ [Next]_vars => WayOK'
    <2> SUFFICES ASSUME IInv, WayOK, [Next]_vars PROVE WayOK'
      OBVIOUS
    <2>1. PICK d \in [Ref -> Nat], h \in [Ref -> Nat] : InvariantBy(d, h)
      BY DEF IInv
    <2> QED BY <2>1, StepWay
  <1> QED BY <1>1, <1>2, InvariantHolds, PTL DEF Spec

=============================================================================
