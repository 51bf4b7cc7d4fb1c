---------------------------- MODULE RBTreeProofs ----------------------------
(***************************************************************************)
(* Theorems about RBTree, for every pool, every value set and all options: *)
(* the types and the handles; then what a rotation does to a tree of any   *)
(* size: which links change, that parent and child links agree afterwards, *)
(* that they still lead to the root, and that nothing else is touched.     *)
(***************************************************************************)
EXTENDS RBTreeInvariant, TLAPS

USE NilAssumption, PayloadAssumption DEF Side, Ref, Color

\* The links keep their type when one of them is pointed elsewhere.
LEMMA RelinkedType ==
    ASSUME NEW c \in [Ref -> [Side -> Ref]], NEW g \in Ref, NEW o \in Ref, NEW n \in Ref
    PROVE  Relinked(c, g, o, n) \in [Ref -> [Side -> Ref]]
  BY DEF Relinked, SlotOf

LEMMA AdoptedType ==
    ASSUME NEW par \in [Ref -> Ref], NEW o \in Ref, NEW p \in Ref
    PROVE  Adopted(par, o, p) \in [Ref -> Ref]
  BY DEF Adopted

LEMMA SoiledType ==
    ASSUME NEW par, NEW S, dirty \subseteq Node
    PROVE  Soiled(par, S) \subseteq Node
  <1>1. ASSUME NEW n PROVE Path(par, n) \subseteq Node
    BY DEF Path
  <1>2. UNION {Path(par, n) : n \in S} \subseteq Node
    BY <1>1
  <1> QED
    BY <1>2 DEF Soiled

LEMMA TouchedType ==
    ASSUME NEW S, S \subseteq Ref, marked \subseteq Node
    PROVE  Touched(S) \subseteq Node
  BY DEF Touched

\* The heap, which is what most steps change.
HeapOK ==
    /\ root \in Ref
    /\ parent \in [Ref -> Ref]
    /\ child \in [Ref -> [Side -> Ref]]
    /\ dirty \subseteq Node /\ marked \subseteq Node
    /\ rotations \in Nat

LEMMA RotateType ==
    ASSUME HeapOK, NEW s \in Side, NEW p \in Ref, Rotate(s, p)
    PROVE  HeapOK'
  <1> DEFINE o == Other(s)
             t == child[p][o]
             b == child[t][s]
             g == parent[p]
             mid == [child EXCEPT ![p][o] = b, ![t][s] = p]
  <1>1. o \in Side /\ t \in Ref /\ b \in Ref /\ g \in Ref
    BY DEF Other, HeapOK
  <1>2. mid \in [Ref -> [Side -> Ref]]
    BY <1>1 DEF HeapOK
  <1>3. child' = Relinked(mid, g, p, t)
    BY DEF Rotate, Turned
  <1>4. child' \in [Ref -> [Side -> Ref]]
    <2> HIDE DEF mid, t, g
    <2> QED BY <1>1, <1>2, <1>3, RelinkedType
  <1>5. parent' = [Adopted(parent, b, p) EXCEPT ![t] = g, ![p] = t]
    BY DEF Rotate, Turned
  <1>6. parent' \in [Ref -> Ref]
    <2> HIDE DEF b, t, g
    <2> QED BY <1>1, <1>5, AdoptedType DEF HeapOK
  <1>7. root' \in Ref
    BY <1>1 DEF Rotate, Turned, HeapOK
  <1>8. marked' = Touched({p, t, b, g})
    BY DEF Rotate, Turned
  <1>9. marked' \subseteq Node
    <2> HIDE DEF b, t, g
    <2>1. {p, t, b, g} \subseteq Ref BY <1>1
    <2> QED BY <2>1, <1>8, TouchedType DEF HeapOK
  <1>10. dirty' \subseteq Node
    BY SoiledType DEF Rotate, HeapOK
  <1>11. rotations' \in Nat
    BY DEF Rotate, HeapOK
  <1> QED
    BY <1>4, <1>6, <1>7, <1>9, <1>10, <1>11 DEF HeapOK

\* A step that returns to the caller leaves the locals typed.
LocalsOK ==
    /\ pc \in Labels
    /\ arg \in Ref /\ x \in Ref /\ y \in Ref /\ beside \in Ref
    /\ side \in Side
    /\ rval \in {0, EEXIST}

PoolOK ==
    /\ value \in [Node -> Value \cup {nil}]
    /\ status \in [Node -> {"free", "detached", "linked"}]
    /\ \A n \in Node : status[n] = "free" <=> value[n] = nil

PhaseOK ==
    /\ pc \in {"descend", "before", "after"} => arg \in Detached
    /\ pc \in RedRedLabels => arg \in Linked
    /\ pc = "successor" => arg \in Linked /\ y \in Node

LEMMA TypeParts ==
    TypeOK <=> /\ HeapOK /\ LocalsOK /\ PoolOK /\ PhaseOK
               /\ color \in [Ref -> Color]
               /\ marking \in BOOLEAN
  BY DEF TypeOK, HeapOK, LocalsOK, PoolOK, PhaseOK

LEMMA ReturnType ==
    ASSUME Return PROVE /\ rval' \in {0, EEXIST} => LocalsOK'
                        /\ PhaseOK'
                        /\ rotations' \in Nat
  BY DEF Return, LocalsOK, PhaseOK, Labels, RedRedLabels, BlackBlackLabels

LEMMA CutOutType ==
    ASSUME TypeOK, y \in Node
    PROVE  /\ Heir \in Ref
           /\ CutOut.parent \in [Ref -> Ref]
           /\ CutOut.child \in [Ref -> [Side -> Ref]]
           /\ CutOut.root \in Ref
           /\ CutOut.color \in [Ref -> Color]
           /\ arg \in Node => CutOut.touched \subseteq Ref
  <1>1. Heir \in Ref
    BY DEF Heir, TypeOK
  <1>2. parent[y] \in Ref
    BY DEF TypeOK
  <1>3. Relinked(child, parent[y], y, Heir) \in [Ref -> [Side -> Ref]]
    BY <1>1, <1>2, RelinkedType DEF TypeOK
  <1>4. arg \in Node => TouchedByCut \subseteq Ref
    BY <1>1, <1>2 DEF TouchedByCut, TypeOK
  <1> QED
    BY <1>1, <1>2, <1>3, <1>4 DEF CutOut, TypeOK

LEMMA ReplacedType ==
    ASSUME TypeOK, y \in Node, arg \in Node
    PROVE  /\ Replaced.parent \in [Ref -> Ref]
           /\ Replaced.child \in [Ref -> [Side -> Ref]]
           /\ Replaced.root \in Ref
           /\ Replaced.color \in [Ref -> Color]
           /\ Replaced.touched \subseteq Ref
  <1> DEFINE g == parent[arg]
             q == parent[y]
             L == child[arg]["left"]
             R == child[arg]["right"]
             r == IF y = R THEN Heir ELSE R
             cut == CutOut.child
             mid == [cut EXCEPT ![y]["left"] = L, ![y]["right"] = r]
  <1>1. /\ Heir \in Ref /\ cut \in [Ref -> [Side -> Ref]]
        /\ CutOut.touched \subseteq Ref
    BY CutOutType
  <1>2. g \in Ref /\ q \in Ref /\ L \in Ref /\ R \in Ref /\ r \in Ref
    BY <1>1 DEF TypeOK
  <1>3. mid \in [Ref -> [Side -> Ref]]
    <2> HIDE DEF L, r, cut
    <2> QED BY <1>1, <1>2
  <1>4. Relinked(mid, g, arg, y) \in [Ref -> [Side -> Ref]]
    <2> HIDE DEF mid, g
    <2> QED BY <1>2, <1>3, RelinkedType
  <1>5. Replaced.child = Relinked(mid, g, arg, y)
    BY DEF Replaced
  <1>6. Replaced.parent = [parent EXCEPT ![Heir] = q, ![y] = g, ![L] = y, ![r] = y]
    BY DEF Replaced
  <1>7. Replaced.parent \in [Ref -> Ref]
    <2> HIDE DEF q, g, L, r
    <2> QED BY <1>1, <1>2, <1>6 DEF TypeOK
  <1>8. Replaced.root \in Ref /\ Replaced.color \in [Ref -> Color]
    BY DEF Replaced, TypeOK
  <1>9. Replaced.touched \subseteq Ref
    BY <1>1, <1>2 DEF Replaced
  <1> QED
    BY <1>4, <1>5, <1>7, <1>8, <1>9

-----------------------------------------------------------------------------
LEMMA InitType == Init => TypeOK
  BY OptionsAssumption
  DEF Init, TypeOK, Labels, RedRedLabels, BlackBlackLabels, EEXIST

LEMMA StepType == TypeOK /\ [Next]_vars => TypeOK'
  <1> SUFFICES ASSUME TypeOK, [Next]_vars PROVE TypeOK'
    OBVIOUS
  <1> USE DEF RedRedLabels, BlackBlackLabels
  <1>1. HeapOK /\ LocalsOK /\ PoolOK /\ PhaseOK /\ color \in [Ref -> Color]
          /\ marking \in BOOLEAN
    BY TypeParts
  <1>2. ASSUME HeapOK', LocalsOK', PoolOK', PhaseOK',
               color' \in [Ref -> Color], marking' \in BOOLEAN
        PROVE  TypeOK'
    BY <1>2 DEF TypeOK, HeapOK, LocalsOK, PoolOK, PhaseOK
  <1>3. ASSUME NEW n \in Node, NEW v \in Payload[n], NewNode(n, v) PROVE TypeOK'
    <2>1. v \in Value /\ v # nil
      BY <1>3
    <2>2. HeapOK' /\ color' \in [Ref -> Color]
      BY <1>1, <1>3 DEF NewNode, HeapOK
    <2>3. PoolOK'
      BY <1>1, <1>3, <2>1 DEF NewNode, PoolOK
    <2>4. LocalsOK' /\ PhaseOK' /\ marking' \in BOOLEAN
      BY <1>1, <1>3 DEF NewNode, LocalsOK, PhaseOK, stack
    <2> QED BY <1>2, <2>2, <2>3, <2>4
  <1>4. ASSUME NEW n \in Node, FreeNode(n) PROVE TypeOK'
    BY <1>4 DEF FreeNode, TypeOK, stack, Labels
  <1>5. ASSUME NEW n \in Node, InsertNode(n) PROVE TypeOK'
    BY <1>5 DEF InsertNode, TypeOK, heap, pool, Labels, Detached, Linked
  <1>6. ASSUME NEW n \in Node, NEW m \in Node, NEW s \in Side, InsertBeside(n, m, s)
        PROVE  TypeOK'
    BY <1>6 DEF InsertBeside, TypeOK, heap, pool, Labels, Detached, Linked
  <1>7. ASSUME NEW n \in Node, RemoveNode(n) PROVE TypeOK'
    <2>1. CutCandidate(n) \in Node
      BY DEF CutCandidate, TypeOK
    <2> QED BY <1>7, <2>1 DEF RemoveNode, TypeOK, heap, pool, Labels, Detached, Linked
  <1>8. ASSUME NEW n \in Node, ClearMarker(n) PROVE TypeOK'
    BY <1>8 DEF ClearMarker, TypeOK, pool, stack, Detached, Linked
  <1>27. ASSUME NEW n \in Node, MarkNodeAsDirty(n) PROVE TypeOK'
    <2>1. dirty' \subseteq Node
      BY <1>27, SoiledType DEF MarkNodeAsDirty, TypeOK
    <2> QED BY <1>27, <2>1 DEF MarkNodeAsDirty, TypeOK, pool, stack, Detached, Linked
  <1>9. CASE EnableMarking
    BY <1>9 DEF EnableMarking, TypeOK, heap, pool, stack, Detached, Linked
  <1>10. CASE WalkDirty
    BY <1>10 DEF WalkDirty, TypeOK, pool, stack, Detached, Linked
  <1>11. CASE Descend
    <2>1. y' \in Ref /\ side' \in Side
      BY <1>11 DEF Descend, TypeOK, Deeper, WayFrom
    <2> QED BY <1>11, <2>1 DEF Descend, TypeOK, heap, pool, Detached, Linked
  <1>12. CASE RefuseDuplicate
    <2>1. LocalsOK' /\ PhaseOK' /\ rotations' \in Nat
      BY <1>12, ReturnType DEF RefuseDuplicate
    <2>2. HeapOK' /\ PoolOK' /\ color' \in [Ref -> Color] /\ marking' \in BOOLEAN
      BY <1>1, <1>12, <2>1 DEF RefuseDuplicate, HeapOK, PoolOK, heap, pool
    <2> QED BY <1>2, <2>1, <2>2
  <1>13. CASE Slide
    <2>1. y' \in Ref /\ side' \in Side
      BY <1>13 DEF Slide, TypeOK, Deeper, SlideSide
    <2> QED BY <1>13, <2>1 DEF Slide, TypeOK, heap, pool, Detached, Linked
  <1>14. CASE Attach
    <2>1. arg \in Detached /\ arg \in Node /\ x \in Ref
      BY <1>14 DEF Attach, TypeOK, Detached
    <2>2. dirty' \subseteq Node
      BY <1>14, SoiledType DEF Attach, TypeOK
    <2>3. rotations' \in Nat
      BY <1>1, <1>14 DEF Attach, Return, HeapOK
    <2>4. HeapOK' /\ color' \in [Ref -> Color]
      BY <1>1, <1>14, <2>1, <2>2, <2>3 DEF Attach, HeapOK
    <2>5. PoolOK'
      BY <1>1, <1>14, <2>1 DEF Attach, PoolOK, Detached
    <2>6. LocalsOK' /\ PhaseOK'
      <3>1. CASE NeedsRecolour
        <4>1. arg \in Linked'
          BY <1>1, <1>14, <2>1 DEF Attach, PoolOK, Linked
        <4> QED BY <1>1, <1>14, <3>1, <2>1, <4>1 DEF Attach, LocalsOK, PhaseOK, Labels
      <3>2. CASE ~NeedsRecolour
        BY <1>14, <3>2, ReturnType DEF Attach
      <3> QED BY <3>1, <3>2
    <2>7. marking' \in BOOLEAN
      BY <1>1, <1>14 DEF Attach
    <2> QED BY <1>2, <2>4, <2>5, <2>6, <2>7
  <1>15. CASE RecolourUncle
    BY <1>15 DEF RecolourUncle, TypeOK, pool, Detached, Linked
  <1>16. CASE RotateInner
    <2>1. Half \in Side
      BY DEF Half, SlotOf
    <2>2. HeapOK'
      BY <1>1, <1>16, <2>1, RotateType DEF RotateInner, TypeOK
    <2>3. LocalsOK' /\ PhaseOK' /\ PoolOK'
      BY <1>1, <1>16, <2>1
      DEF RotateInner, TypeOK, LocalsOK, PhaseOK, PoolOK, Labels, pool, Linked
    <2> QED BY <1>1, <1>2, <1>16, <2>2, <2>3 DEF RotateInner
  <1>17. CASE RotateOuter
    <2> DEFINE s == IF pc = "redred" THEN Half ELSE side
    <2>1. s \in Side /\ Other(s) \in Side
      BY DEF Half, SlotOf, TypeOK, Other
    <2>2. RotateGrandparent(s) /\ pc \in RedRedLabels
      BY <1>17 DEF RotateOuter
    <2> HIDE DEF s
    <2>3. HeapOK'
      BY <1>1, <2>1, <2>2, RotateType DEF RotateGrandparent, TypeOK
    <2>4. LocalsOK' /\ PhaseOK' /\ PoolOK' /\ color' \in [Ref -> Color]
      BY <1>1, <2>2
      DEF RotateGrandparent, TypeOK, LocalsOK, PhaseOK, PoolOK, Labels, pool, Linked
    <2> QED BY <1>1, <1>2, <2>2, <2>3, <2>4 DEF RotateGrandparent
  <1>18. CASE RedRedDone
    <2>1. LocalsOK' /\ PhaseOK' /\ rotations' \in Nat
      BY <1>1, <1>18, ReturnType DEF RedRedDone, LocalsOK
    <2>2. dirty' \subseteq Node
      BY <1>18, SoiledType DEF RedRedDone, TypeOK
    <2>3. HeapOK' /\ PoolOK' /\ color' \in [Ref -> Color] /\ marking' \in BOOLEAN
      BY <1>1, <1>18, <2>1, <2>2 DEF RedRedDone, HeapOK, PoolOK, pool
    <2> QED BY <1>2, <2>1, <2>3
  <1>19. CASE Successor
    BY <1>19 DEF Successor, TypeOK, heap, pool, Detached, Linked
  <1>20. CASE Unlink
    <2> DEFINE r == IF y = arg THEN CutOut ELSE Replaced
    <2>1. arg \in Node /\ y \in Node
      BY <1>20 DEF Unlink, TypeOK, Linked
    <2>2. /\ r.parent \in [Ref -> Ref] /\ r.child \in [Ref -> [Side -> Ref]]
          /\ r.root \in Ref /\ r.color \in [Ref -> Color] /\ r.touched \subseteq Ref
          /\ Heir \in Ref
      BY <2>1, CutOutType, ReplacedType
    <2>3. /\ root' = r.root
          /\ parent' = [r.parent EXCEPT ![arg] = nil]
          /\ child' = [r.child EXCEPT ![arg] = [s \in Side |-> nil]]
          /\ color' = [r.color EXCEPT ![arg] = "red"]
          /\ marked' = Touched(r.touched) \ {arg}
          /\ dirty' = Soiled(r.parent, r.soiled) \ {arg}
      BY <1>20 DEF Unlink, Freed
    <2> HIDE DEF r
    <2>4. marked' \subseteq Node /\ dirty' \subseteq Node
      BY <2>2, <2>3, SoiledType, TouchedType DEF TypeOK
    <2>5. rotations' \in Nat
      BY <1>1, <1>20 DEF Unlink, Return, HeapOK
    <2>6. HeapOK' /\ color' \in [Ref -> Color]
      BY <2>1, <2>2, <2>3, <2>4, <2>5 DEF HeapOK
    <2>7. PoolOK'
      BY <1>1, <1>20, <2>1 DEF Unlink, Freed, PoolOK
    <2>8. LocalsOK' /\ PhaseOK'
      <3>1. CASE NeedsFixup
        BY <1>1, <1>20, <2>2, <3>1 DEF Unlink, LocalsOK, PhaseOK, Labels
      <3>2. CASE ~NeedsFixup
        BY <1>1, <1>20, <3>2, ReturnType DEF Unlink, LocalsOK
      <3> QED BY <3>1, <3>2
    <2> QED BY <1>1, <1>2, <1>20, <2>6, <2>7, <2>8 DEF Unlink
  <1>21. CASE RotateSibling
    <2>1. XSide \in Side
      BY DEF XSide, SlotOf
    <2>2. HeapOK'
      BY <1>1, <1>21, <2>1, RotateType DEF RotateSibling, TypeOK
    <2>3. /\ LocalsOK' /\ PhaseOK' /\ PoolOK'
          /\ color' \in [Ref -> Color] /\ marking' \in BOOLEAN
      BY <1>1, <1>21, <2>1
      DEF RotateSibling, TypeOK, LocalsOK, PhaseOK, PoolOK, Labels, pool
    <2> QED BY <1>2, <2>2, <2>3
  <1>22. ASSUME NEW s \in Side, RecolourSibling(s) PROVE TypeOK'
    BY <1>22 DEF RecolourSibling, TypeOK, Labels, pool
  <1>23. ASSUME NEW s \in Side, RotateNephew(s) PROVE TypeOK'
    <2>1. Other(s) \in Side /\ Sibling(s) \in Ref
      BY DEF Other, Sibling, TypeOK
    <2>2. HeapOK'
      BY <1>1, <1>23, <2>1, RotateType DEF RotateNephew
    <2>3. /\ LocalsOK' /\ PhaseOK' /\ PoolOK'
          /\ color' \in [Ref -> Color] /\ marking' \in BOOLEAN
      BY <1>1, <1>23
      DEF RotateNephew, TypeOK, LocalsOK, PhaseOK, PoolOK, Labels, pool
    <2> QED BY <1>2, <2>2, <2>3
  <1>24. ASSUME NEW s \in Side, RotateParent(s) PROVE TypeOK'
    <2>1. HeapOK'
      BY <1>1, <1>24, RotateType DEF RotateParent, TypeOK
    <2>2. x' \in Ref
      BY <1>24, <2>1 DEF RotateParent, LoopEnder, HeapOK
    <2>3. /\ LocalsOK' /\ PhaseOK' /\ PoolOK'
          /\ color' \in [Ref -> Color] /\ marking' \in BOOLEAN
      BY <1>1, <1>24, <2>2
      DEF RotateParent, TypeOK, LocalsOK, PhaseOK, PoolOK, Labels, pool
    <2> QED BY <1>2, <2>1, <2>3
  <1>25. CASE BlackBlackDone
    <2>1. LocalsOK' /\ PhaseOK' /\ rotations' \in Nat
      BY <1>1, <1>25, ReturnType DEF BlackBlackDone, LocalsOK
    <2>2. HeapOK' /\ PoolOK' /\ color' \in [Ref -> Color] /\ marking' \in BOOLEAN
      BY <1>1, <1>25, <2>1 DEF BlackBlackDone, HeapOK, PoolOK, pool
    <2> QED BY <1>2, <2>1, <2>2
  <1>26. CASE UNCHANGED vars
    BY <1>26 DEF vars, TypeOK, Detached, Linked
  <1> QED
    BY <1>3, <1>4, <1>5, <1>6, <1>7, <1>8, <1>9, <1>10, <1>11, <1>12, <1>13,
       <1>14, <1>15, <1>16, <1>17, <1>18, <1>19, <1>20, <1>21, <1>22, <1>23,
       <1>24, <1>25, <1>26, <1>27
    DEF Next, NodeCall, Continue

\* The variables keep their types and a running call its nodes: the node to
\* insert stays detached until it is attached, the node to remove linked until
\* it is cut out.
THEOREM TypeCorrect == Spec => []TypeOK
  BY InitType, StepType, PTL DEF Spec

-----------------------------------------------------------------------------
\* One step of StableHandles.
HandlesStay == \A n \in Linked : n # arg => n \in Linked' /\ value'[n] = value[n]

LEMMA StepHandles == TypeOK /\ [Next]_vars => HandlesStay
  <1> SUFFICES ASSUME TypeOK, [Next]_vars, NEW n \in Linked, n # arg
               PROVE  n \in Linked' /\ value'[n] = value[n]
    BY DEF HandlesStay
  <1>1. CASE UNCHANGED pool
    BY <1>1 DEF pool, Linked
  <1>2. ASSUME NEW m \in Node, NEW v \in Payload[m], NewNode(m, v)
        PROVE  n \in Linked' /\ value'[n] = value[n]
    BY <1>2 DEF NewNode, Linked, TypeOK
  <1>3. ASSUME NEW m \in Node, FreeNode(m) PROVE n \in Linked' /\ value'[n] = value[n]
    BY <1>3 DEF FreeNode, Linked, TypeOK
  <1>4. CASE Attach
    BY <1>4 DEF Attach, Linked, TypeOK
  <1>5. CASE Unlink
    BY <1>5 DEF Unlink, Freed, Linked, TypeOK
  <1>6. UNCHANGED pool \/ Attach \/ Unlink
          \/ \E m \in Node : FreeNode(m) \/ \E v \in Payload[m] : NewNode(m, v)
    BY DEF Next, NodeCall, Continue, vars, pool, InsertNode, InsertBeside, RemoveNode,
           ClearMarker, MarkNodeAsDirty, EnableMarking, WalkDirty, Descend,
           RefuseDuplicate, Slide,
           RecolourUncle, RotateInner, RotateOuter, RotateGrandparent, RedRedDone,
           Successor, RotateSibling, RecolourSibling, RotateNephew, RotateParent,
           BlackBlackDone
  <1> QED
    BY <1>1, <1>2, <1>3, <1>4, <1>5, <1>6

\* A node that is in the tree stays there with its value until a call names
\* it as the node to remove, whatever else is inserted, removed and rotated.
THEOREM HandlesAreStable == Spec => StableHandles
  <1>1. TypeOK /\ [Next]_vars => [HandlesStay]_vars
    BY StepHandles
  <1> QED
    BY <1>1, TypeCorrect, PTL DEF Spec, StableHandles, HandlesStay

-----------------------------------------------------------------------------
(* Rotations.                                                              *)

HIDE PayloadAssumption

LEMMA SlotSides ==
    ASSUME NEW c, NEW g, NEW n
    PROVE  /\ SlotOf(c, g, n) \in Side
           /\ Other(SlotOf(c, g, n)) \in Side
           /\ Other(SlotOf(c, g, n)) # SlotOf(c, g, n)
  <1>1. SlotOf(c, g, n) \in Side
    BY DEF SlotOf
  <1>2. \A r \in Side : Other(r) \in Side /\ Other(r) # r
    BY DEF Other
  <1> QED BY <1>1, <1>2

\* Where the links lead after the rotation of p towards side s.
TurnedLinks(s, p) ==
    LET o == Other(s)
        t == child[p][o]
        b == child[t][s]
        g == parent[p]
        k == SlotOf(child, g, p)
    IN  /\ child'[p][o] = b /\ child'[p][s] = child[p][s]
        /\ child'[t][s] = p /\ child'[t][o] = child[t][o]
        /\ g # nil => /\ child'[g][k] = t
                      /\ child'[g][Other(k)] = child[g][Other(k)]
        /\ \A n \in Ref : n # p /\ n # t /\ (n # g \/ n = nil) => child'[n] = child[n]
        /\ parent'[p] = t /\ parent'[t] = g
        /\ b # nil => parent'[b] = p
        /\ \A n \in Ref : n # p /\ n # t /\ (n # b \/ n = nil) => parent'[n] = parent[n]
        /\ root' = IF g = nil THEN t ELSE root

\* What a rotation may rely on.
Rotatable(d, s, p) ==
    /\ p \in Linked /\ child[p][Other(s)] # nil
    /\ \A n \in Linked, r \in Side : child[n][r] # nil => d[n] < d[child[n][r]]

LEMMA RotatableApart ==
    ASSUME TypeOK, LinksOK, NEW d \in [Ref -> Nat], NEW s \in Side, NEW p, Rotatable(d, s, p)
    PROVE  LET o == Other(s)
               t == child[p][o]
               b == child[t][s]
               g == parent[p]
           IN  /\ o \in Side /\ o # s
               /\ p \in Linked /\ p \in Node /\ p # nil
               /\ t \in Linked /\ t \in Node /\ t # nil /\ t # p /\ parent[t] = p
               /\ b \in Ref /\ b # p /\ b # t /\ (b # nil => b \in Linked /\ parent[b] = t)
               /\ g \in Ref /\ g # p /\ g # t /\ (g # nil => g # b /\ g \in Linked)
               /\ g # nil => child[g][SlotOf(child, g, p)] = p
  <1> DEFINE o == Other(s)
             t == child[p][o]
             b == child[t][s]
             g == parent[p]
  <1>1. o \in Side /\ o # s
    BY DEF Other
  <1>2. p \in Linked /\ p \in Node /\ p # nil
    BY DEF Rotatable, Linked
  <1>3. t \in Linked /\ t \in Node /\ t # nil /\ parent[t] = p /\ d[p] < d[t]
    BY <1>1, <1>2 DEF Rotatable, LinksOK, Linked
  <1>4. b \in Ref /\ (b # nil => b \in Linked /\ parent[b] = t /\ d[t] < d[b])
    BY <1>3 DEF Rotatable, LinksOK, TypeOK
  <1>5. /\ g \in Ref
        /\ g # nil => /\ g \in Linked /\ d[g] < d[p]
                      /\ child[g][SlotOf(child, g, p)] = p
    <2>1. g \in Ref
      BY <1>2 DEF TypeOK
    <2>2. g # nil => g \in Linked /\ \E r \in Side : child[g][r] = p
      BY <1>2 DEF LinksOK
    <2>3. g # nil => d[g] < d[p]
      BY <1>2, <2>2 DEF Rotatable
    <2> QED BY <2>1, <2>2, <2>3 DEF SlotOf
  <1>6. d[p] \in Nat /\ d[t] \in Nat /\ d[b] \in Nat /\ d[g] \in Nat
    BY <1>2, <1>3, <1>4, <1>5
  <1>7. t # p /\ b # t /\ b # p /\ g # p /\ g # t /\ (g # nil => g # b)
    <2> HIDE DEF t, b, g
    <2> QED BY <1>2, <1>3, <1>4, <1>5, <1>6
  <1> QED
    BY <1>1, <1>2, <1>3, <1>4, <1>5, <1>7

LEMMA RotateLinks ==
    ASSUME TypeOK, LinksOK, NEW d \in [Ref -> Nat], NEW s \in Side, NEW p, Rotatable(d, s, p),
           Rotate(s, p)
    PROVE  TurnedLinks(s, p)
  <1> DEFINE o == Other(s)
             t == child[p][o]
             b == child[t][s]
             g == parent[p]
             k == SlotOf(child, g, p)
             mid == [child EXCEPT ![p][o] = b, ![t][s] = p]
  <1>1. /\ o \in Side /\ o # s
        /\ p \in Ref /\ p # nil
        /\ t \in Ref /\ t # nil /\ t # p
        /\ b \in Ref /\ b # p /\ b # t
        /\ g \in Ref /\ g # p /\ g # t /\ (g # nil => g # b)
    BY RotatableApart
  <1>2. child \in [Ref -> [Side -> Ref]] /\ parent \in [Ref -> Ref] /\ root \in Ref
    BY DEF TypeOK
  <1>3. /\ child' = Relinked(mid, g, p, t)
        /\ parent' = [Adopted(parent, b, p) EXCEPT ![t] = g, ![p] = t]
        /\ root' = IF g = nil THEN t ELSE root
    BY DEF Rotate, Turned
  <1>4. k \in Side /\ Other(k) \in Side /\ Other(k) # k
    BY SlotSides
  <1>5. g # nil => k = SlotOf(mid, g, p) /\ mid[g] = child[g]
    BY <1>1, <1>2 DEF SlotOf
  <1>6. /\ mid[p][o] = b /\ mid[p][s] = child[p][s]
        /\ mid[t][s] = p /\ mid[t][o] = child[t][o]
        /\ \A n \in Ref : n # p /\ n # t => mid[n] = child[n]
        /\ mid \in [Ref -> [Side -> Ref]]
    <2> HIDE DEF o, t, b, g
    <2> QED BY <1>1, <1>2
  <1>7. child' = IF g = nil THEN mid ELSE [mid EXCEPT ![g][k] = t]
    BY <1>3, <1>5 DEF Relinked
  <1> HIDE DEF o, t, b, g, k, mid
  <1>8. /\ child'[p][o] = b /\ child'[p][s] = child[p][s]
        /\ child'[t][s] = p /\ child'[t][o] = child[t][o]
        /\ \A n \in Ref : n # p /\ n # t /\ (n # g \/ n = nil) => child'[n] = child[n]
    BY <1>1, <1>6, <1>7
  <1>9. g # nil => /\ child'[g][k] = t
                   /\ child'[g][Other(k)] = child[g][Other(k)]
    BY <1>1, <1>4, <1>5, <1>6, <1>7
  <1>10. /\ parent'[p] = t /\ parent'[t] = g
         /\ b # nil => parent'[b] = p
         /\ \A n \in Ref : n # p /\ n # t /\ (n # b \/ n = nil) => parent'[n] = parent[n]
    BY <1>1, <1>2, <1>3 DEF Adopted
  <1> QED
    BY <1>3, <1>8, <1>9, <1>10 DEF TurnedLinks, o, t, b, g, k

\* A rotation keeps the links consistent.
LEMMA RotateLinksOK ==
    ASSUME TypeOK, LinksOK, NEW d \in [Ref -> Nat], NEW s \in Side, NEW p, Rotatable(d, s, p),
           TurnedLinks(s, p), Linked' = Linked
    PROVE  LinksOK'
  <1> DEFINE o == Other(s)
             t == child[p][o]
             b == child[t][s]
             g == parent[p]
             k == SlotOf(child, g, p)
  <1>1. /\ o \in Side /\ o # s
        /\ p \in Linked /\ p \in Node /\ p # nil
        /\ t \in Linked /\ t \in Node /\ t # nil /\ t # p /\ parent[t] = p
        /\ b \in Ref /\ b # p /\ b # t /\ (b # nil => b \in Linked /\ parent[b] = t)
        /\ g \in Ref /\ g # p /\ g # t /\ (g # nil => g # b /\ g \in Linked)
        /\ g # nil => child[g][k] = p
        /\ t = child[p][o] /\ b = child[t][s] /\ g = parent[p]
    BY RotatableApart
  <1>2. /\ child'[p][o] = b /\ child'[p][s] = child[p][s]
        /\ child'[t][s] = p /\ child'[t][o] = child[t][o]
        /\ g # nil => child'[g][k] = t /\ child'[g][Other(k)] = child[g][Other(k)]
        /\ \A n \in Ref : n # p /\ n # t /\ (n # g \/ n = nil) => child'[n] = child[n]
        /\ parent'[p] = t /\ parent'[t] = g
        /\ b # nil => parent'[b] = p
        /\ \A n \in Ref : n # p /\ n # t /\ (n # b \/ n = nil) => parent'[n] = parent[n]
        /\ root' = IF g = nil THEN t ELSE root
    BY DEF TurnedLinks
  <1>3. k \in Side /\ Other(k) \in Side /\ Other(k) # k
    BY SlotSides
  <1>4. Linked \subseteq Node
    BY DEF Linked
  <1>5. g = nil <=> p = root
    BY <1>1, <1>4 DEF LinksOK
  <1> HIDE DEF o, t, b, g, k
  <1>6. root' # nil => root' \in Linked' /\ parent'[root'] = nil
    BY <1>1, <1>2, <1>4, <1>5 DEF LinksOK
  <1>7. ASSUME NEW n \in Linked, NEW r \in Side, child'[n][r] # nil
        PROVE  child'[n][r] \in Linked /\ parent'[child'[n][r]] = n
    <2> DEFINE m == child[n][r]
    <2>1. m \in Ref /\ (m # nil => m \in Linked /\ parent[m] = n)
      BY <1>4 DEF LinksOK, TypeOK
    <2>2. \A r2 \in Side : r2 # r /\ m # nil => child[n][r2] # m
      BY DEF LinksOK
    <2> HIDE DEF m
    <2>3. CASE n = p
      <3>1. CASE r = o
        BY <1>1, <1>2, <1>7, <2>3, <3>1
      <3>2. CASE r = s
        <4>1. child'[n][r] = m
          BY <1>2, <2>3, <3>2 DEF m
        <4>2. m # p /\ m # t /\ m # b
          BY <1>1, <1>4, <1>7, <2>1, <2>2, <2>3, <3>2, <4>1
        <4> QED BY <1>2, <1>7, <2>1, <2>3, <4>1, <4>2
      <3> QED BY <1>1, <3>1, <3>2
    <2>4. CASE n = t
      <3>1. CASE r = s
        BY <1>1, <1>2, <1>7, <2>4, <3>1
      <3>2. CASE r = o
        <4>1. child'[n][r] = m
          BY <1>2, <2>4, <3>2 DEF m
        <4>2. m # p /\ m # t /\ m # b
          BY <1>1, <1>4, <1>7, <2>1, <2>2, <2>4, <3>2, <4>1
        <4> QED BY <1>2, <1>7, <2>1, <2>4, <4>1, <4>2
      <3> QED BY <1>1, <3>1, <3>2
    <2>5. CASE n = g
      <3>1. CASE r = k
        BY <1>1, <1>2, <1>4, <1>7, <2>5, <3>1
      <3>2. CASE r = Other(k)
        <4>1. child'[n][r] = m /\ child[n][k] = p
          BY <1>1, <1>2, <1>4, <2>5, <3>2 DEF m
        <4>2. m # p /\ m # t /\ m # b
          BY <1>1, <1>3, <1>4, <1>7, <2>1, <2>2, <2>5, <3>2, <4>1
        <4> QED BY <1>2, <1>7, <2>1, <2>5, <4>1, <4>2
      <3> QED BY <1>3, <3>1, <3>2
    <2>6. CASE n # p /\ n # t /\ n # g
      <3>1. child'[n][r] = m
        BY <1>2, <1>4, <2>6 DEF m
      <3>2. m # p /\ m # t /\ m # b
        BY <1>1, <1>7, <2>1, <2>6, <3>1
      <3> QED BY <1>2, <1>7, <2>1, <3>1, <3>2
    <2> QED BY <2>3, <2>4, <2>5, <2>6
  <1>8. ASSUME NEW n \in Linked
        PROVE  child'[n]["left"] = child'[n]["right"] => child'[n]["left"] = nil
    <2>1. child[n]["left"] = child[n]["right"] => child[n]["left"] = nil
      BY DEF LinksOK
    <2>2. ASSUME NEW r \in Side, child[n][r] # nil PROVE parent[child[n][r]] = n
      BY <2>2 DEF LinksOK
    <2>3. CASE n = p
      BY <1>1, <1>2, <2>1, <2>2, <2>3
    <2>4. CASE n = t
      BY <1>1, <1>2, <2>1, <2>2, <2>4
    <2>5. CASE n = g
      BY <1>1, <1>2, <1>3, <1>4, <2>1, <2>2, <2>5
    <2>6. CASE n # p /\ n # t /\ n # g
      BY <1>1, <1>2, <1>4, <2>1, <2>6
    <2> QED BY <2>3, <2>4, <2>5, <2>6
  <1>9. ASSUME NEW n \in Linked
        PROVE  IF n = root' THEN parent'[n] = nil
               ELSE parent'[n] \in Linked /\ \E r \in Side : child'[parent'[n]][r] = n
    <2>1. IF n = root THEN parent[n] = nil
          ELSE parent[n] \in Linked /\ \E r \in Side : child[parent[n]][r] = n
      BY DEF LinksOK
    <2>2. CASE n = p
      BY <1>1, <1>2, <1>4, <1>5, <2>2
    <2>3. CASE n = t
      BY <1>1, <1>2, <1>3, <1>4, <1>5, <2>1, <2>3 DEF LinksOK
    <2>4. CASE n = b
      BY <1>1, <1>2, <1>4, <1>5, <2>1, <2>4
    <2>5. CASE n # p /\ n # t /\ n # b
      <3>1. parent'[n] = parent[n] /\ n # nil /\ n \in Ref
        BY <1>2, <1>4, <2>5
      <3>2. n # root => n # root' /\ parent[n] \in Linked
        BY <1>1, <1>2, <2>1, <2>5
      <3>3. n = root => n = root'
        BY <1>2, <1>5, <2>5
      <3>4. ASSUME NEW r \in Side, child[parent[n]][r] = n, parent[n] \in Linked
            PROVE  \E c \in Side : child'[parent[n]][c] = n
        <4>1. CASE parent[n] = p
          BY <1>1, <1>2, <2>5, <3>4, <4>1
        <4>2. CASE parent[n] = t
          BY <1>1, <1>2, <2>5, <3>4, <4>2
        <4>3. CASE parent[n] = g
          BY <1>1, <1>2, <1>3, <1>4, <2>5, <3>4, <4>3
        <4>4. CASE parent[n] # p /\ parent[n] # t /\ parent[n] # g
          BY <1>2, <1>4, <3>4, <4>4
        <4> QED BY <4>1, <4>2, <4>3, <4>4
      <3> QED BY <2>1, <3>1, <3>2, <3>3, <3>4
    <2> QED BY <2>2, <2>3, <2>4, <2>5
  <1> QED
    BY <1>6, <1>7, <1>8, <1>9 DEF LinksOK

\* The depths after a rotation: twice the old ones leave room for p below t.
LEMMA RotateDescends ==
    ASSUME TypeOK, LinksOK, NEW d \in [Ref -> Nat], NEW s \in Side, NEW p, Rotatable(d, s, p),
           TurnedLinks(s, p), Linked' = Linked
    PROVE  \E e \in [Ref -> Nat] :
              \A n \in Linked', r \in Side :
                 child'[n][r] # nil => e[n] < e[child'[n][r]]
  <1> DEFINE o == Other(s)
             t == child[p][o]
             b == child[t][s]
             g == parent[p]
             k == SlotOf(child, g, p)
             e == [n \in Ref |-> IF n = t THEN 2 * d[p]
                                 ELSE IF n = p THEN 2 * d[p] + 1 ELSE 2 * d[n]]
  <1>1. /\ o \in Side /\ o # s
        /\ p \in Linked /\ p \in Node /\ p # nil
        /\ t \in Linked /\ t \in Node /\ t # nil /\ t # p /\ parent[t] = p
        /\ b \in Ref /\ b # p /\ b # t /\ (b # nil => b \in Linked /\ parent[b] = t)
        /\ g \in Ref /\ g # p /\ g # t /\ (g # nil => g # b /\ g \in Linked)
        /\ g # nil => child[g][k] = p
        /\ t = child[p][o] /\ b = child[t][s] /\ g = parent[p]
    BY RotatableApart
  <1>2. /\ child'[p][o] = b /\ child'[p][s] = child[p][s]
        /\ child'[t][s] = p /\ child'[t][o] = child[t][o]
        /\ g # nil => child'[g][k] = t /\ child'[g][Other(k)] = child[g][Other(k)]
        /\ \A n \in Ref : n # p /\ n # t /\ (n # g \/ n = nil) => child'[n] = child[n]
    BY DEF TurnedLinks
  <1>3. k \in Side /\ Other(k) \in Side /\ Other(k) # k
    BY SlotSides
  <1>4. Linked \subseteq Node
    BY DEF Linked
  <1>5. \A n \in Linked, r \in Side : child[n][r] # nil => d[n] < d[child[n][r]]
    BY DEF Rotatable
  <1>6. e \in [Ref -> Nat]
    <2> HIDE DEF t
    <2> QED BY <1>1
  <1>7. /\ e[t] = 2 * d[p] /\ e[p] = 2 * d[p] + 1
        /\ \A n \in Ref : n # p /\ n # t => e[n] = 2 * d[n]
    <2> HIDE DEF t
    <2> QED BY <1>1
  <1> HIDE DEF o, t, b, g, k, e
  <1>8. ASSUME NEW n \in Linked, NEW r \in Side, child'[n][r] # nil
        PROVE  e[n] < e[child'[n][r]]
    <2> DEFINE m == child[n][r]
    <2>1. m \in Ref /\ (m # nil => m \in Linked /\ parent[m] = n)
      BY <1>4 DEF LinksOK, TypeOK
    <2>2. \A r2 \in Side : r2 # r /\ m # nil => child[n][r2] # m
      BY DEF LinksOK
    <2>3. m # nil => d[n] < d[m]
      BY <1>5
    <2>4. d[p] < d[t] /\ (b # nil => d[t] < d[b]) /\ (g # nil => d[g] < d[p])
      BY <1>1, <1>3, <1>5
    <2>5. /\ d[p] \in Nat /\ d[t] \in Nat /\ d[b] \in Nat /\ d[g] \in Nat
          /\ d[m] \in Nat /\ d[n] \in Nat
      BY <1>1, <1>4, <2>1
    <2> HIDE DEF m
    <2>6. CASE n = p
      <3>1. CASE r = o
        BY <1>1, <1>2, <1>7, <1>8, <2>4, <2>5, <2>6, <3>1
      <3>2. CASE r = s
        <4>1. child'[n][r] = m
          BY <1>2, <2>6, <3>2 DEF m
        <4>2. m # p /\ m # t
          BY <1>1, <1>4, <1>8, <2>1, <2>2, <2>6, <3>2, <4>1
        <4> QED BY <1>7, <1>8, <2>1, <2>3, <2>5, <2>6, <4>1, <4>2
      <3> QED BY <1>1, <3>1, <3>2
    <2>7. CASE n = t
      <3>1. CASE r = s
        BY <1>1, <1>2, <1>7, <2>5, <2>7, <3>1
      <3>2. CASE r = o
        <4>1. child'[n][r] = m
          BY <1>2, <2>7, <3>2 DEF m
        <4>2. m # p /\ m # t
          BY <1>1, <1>4, <1>8, <2>1, <2>2, <2>7, <3>2, <4>1
        <4> QED BY <1>7, <1>8, <2>1, <2>3, <2>4, <2>5, <2>7, <4>1, <4>2
      <3> QED BY <1>1, <3>1, <3>2
    <2>8. CASE n = g
      <3>1. CASE r = k
        BY <1>1, <1>2, <1>4, <1>7, <2>4, <2>5, <2>8, <3>1
      <3>2. CASE r = Other(k)
        <4>1. child'[n][r] = m /\ child[n][k] = p
          BY <1>1, <1>2, <1>4, <2>8, <3>2 DEF m
        <4>2. m # p /\ m # t
          BY <1>1, <1>3, <1>4, <1>8, <2>1, <2>2, <2>8, <3>2, <4>1
        <4> QED BY <1>1, <1>7, <1>8, <2>1, <2>3, <2>5, <2>8, <4>1, <4>2
      <3> QED BY <1>3, <3>1, <3>2
    <2>9. CASE n # p /\ n # t /\ n # g
      <3>1. child'[n][r] = m
        BY <1>2, <1>4, <2>9 DEF m
      <3>2. m # p /\ m # t
        BY <1>1, <1>8, <2>1, <2>9, <3>1
      <3> QED BY <1>4, <1>7, <1>8, <2>1, <2>3, <2>5, <2>9, <3>1, <3>2
    <2> QED BY <2>6, <2>7, <2>8, <2>9
  <1>9. \A n \in Linked', r \in Side : child'[n][r] # nil => e[n] < e[child'[n][r]]
    BY <1>8
  <1> QED
    BY <1>6, <1>9

\* What a rotation leaves alone.
LEMMA RotateFrame ==
    ASSUME TypeOK, LinksOK, SentinelIntact, DetachedPristine,
           NEW d \in [Ref -> Nat], NEW s \in Side, NEW p, Rotatable(d, s, p),
           TurnedLinks(s, p), status' = status,
           \A n \in Ref : n \notin Linked => color'[n] = color[n]
    PROVE  SentinelIntact' /\ DetachedPristine' /\ Linked' = Linked
  <1> DEFINE o == Other(s)
             t == child[p][o]
             b == child[t][s]
             g == parent[p]
             k == SlotOf(child, g, p)
  <1>1. /\ o \in Side /\ o # s
        /\ p \in Linked /\ p \in Node /\ p # nil
        /\ t \in Linked /\ t \in Node /\ t # nil /\ t # p /\ parent[t] = p
        /\ b \in Ref /\ b # p /\ b # t /\ (b # nil => b \in Linked /\ parent[b] = t)
        /\ g \in Ref /\ g # p /\ g # t /\ (g # nil => g # b /\ g \in Linked)
    BY RotatableApart
  <1>2. /\ \A n \in Ref : n # p /\ n # t /\ (n # g \/ n = nil) => child'[n] = child[n]
        /\ \A n \in Ref : n # p /\ n # t /\ (n # b \/ n = nil) => parent'[n] = parent[n]
    BY DEF TurnedLinks
  <1> HIDE DEF t, b, g
  <1>3. Linked \subseteq Node /\ Linked' = Linked /\ Detached' = Detached
        /\ Detached \subseteq Node /\ Detached \cap Linked = {}
    BY DEF Linked, Detached
  <1>4. SentinelIntact'
    BY <1>1, <1>2, <1>3 DEF SentinelIntact
  <1>5. DetachedPristine'
    <2> SUFFICES ASSUME NEW n \in Detached PROVE IsPristine(n)'
      BY <1>3 DEF DetachedPristine
    <2>1. IsPristine(n) /\ n \in Ref /\ n \notin Linked
      BY <1>3 DEF DetachedPristine
    <2>2. child'[n] = child[n] /\ parent'[n] = parent[n] /\ color'[n] = color[n]
      BY <1>1, <1>2, <2>1
    <2> QED BY <2>1, <2>2 DEF IsPristine
  <1> QED
    BY <1>3, <1>4, <1>5

\* The weight of a link while no removal is repaired.
Ink(n) == IF color[n] = "black" THEN 1 ELSE 0

PlainlyBalanced(h) ==
    /\ h[nil] = 0
    /\ \A n \in Linked, s \in Side : h[n] = h[child[n][s]] + Ink(child[n][s])

LEMMA PlainBalance ==
    ASSUME NEW h, pc \notin BlackBlackLabels
    PROVE  Balanced(h) <=> PlainlyBalanced(h)
  <1>1. \A n, s : Weight(n, s) = Ink(child[n][s])
    BY DEF Weight, Lacks, Ink
  <1> QED
    BY <1>1 DEF Balanced, PlainlyBalanced

\* The rest of the invariant, by which a fixup step is judged once its links
\* are known to be right.
Repaired(h) == SentinelIntact /\ DetachedPristine /\ NoRedRed /\ PlaceOK
                  /\ RotationsSpent /\ Balanced(h)

LEMMA InvariantAfter ==
    ASSUME TypeOK', LinksOK', NEW h \in [Ref -> Nat], Repaired(h)', pc' # "successor",
           \E e \in [Ref -> Nat] : \A n \in Linked', r \in Side :
               child'[n][r] # nil => e[n] < e[child'[n][r]]
    PROVE  IInv'
  BY DEF IInv, InvariantBy, Repaired, Descending

\* All of the above, for the fixup steps.
LEMMA Rotated ==
    ASSUME TypeOK, LinksOK, SentinelIntact, DetachedPristine,
           NEW d \in [Ref -> Nat], NEW s \in Side, NEW p, Rotatable(d, s, p),
           Rotate(s, p), status' = status,
           \A n \in Ref : n \notin Linked => color'[n] = color[n]
    PROVE  /\ TurnedLinks(s, p)
           /\ LinksOK' /\ SentinelIntact' /\ DetachedPristine' /\ Linked' = Linked
           /\ \E e \in [Ref -> Nat] : \A n \in Linked', r \in Side :
                 child'[n][r] # nil => e[n] < e[child'[n][r]]
  <1>1. TurnedLinks(s, p)
    BY RotateLinks
  <1>2. SentinelIntact' /\ DetachedPristine' /\ Linked' = Linked
    BY <1>1, RotateFrame
  <1>3. LinksOK'
    BY <1>1, <1>2, RotateLinksOK
  <1>4. \E e \in [Ref -> Nat] : \A n \in Linked', r \in Side :
           child'[n][r] # nil => e[n] < e[child'[n][r]]
    BY <1>1, <1>2, RotateDescends
  <1> QED
    BY <1>1, <1>2, <1>3, <1>4

\* The nodes and links of the rotation of p, under the names the proofs use.
Around(s, p, o, t, b, g, k) ==
    /\ o = Other(s) /\ t = child[p][o] /\ b = child[t][s] /\ g = parent[p]
    /\ k = SlotOf(child, g, p)
    /\ o \in Side /\ o # s /\ k \in Side /\ Other(k) \in Side /\ Other(k) # k
    /\ p \in Linked /\ p \in Ref /\ p # nil
    /\ t \in Linked /\ t \in Ref /\ t # nil /\ t # p /\ parent[t] = p
    /\ b \in Ref /\ b # p /\ b # t /\ (b # nil => b \in Linked /\ parent[b] = t)
    /\ g \in Ref /\ g # p /\ g # t /\ (g # nil => g # b /\ g \in Linked)
    /\ g # nil => child[g][k] = p
    /\ child'[p][o] = b /\ child'[p][s] = child[p][s]
    /\ child'[t][s] = p /\ child'[t][o] = child[t][o]
    /\ g # nil => child'[g][k] = t /\ child'[g][Other(k)] = child[g][Other(k)]
    /\ \A n \in Ref : n # p /\ n # t /\ (n # g \/ n = nil) => child'[n] = child[n]
    /\ parent'[p] = t /\ parent'[t] = g
    /\ b # nil => parent'[b] = p
    /\ \A n \in Ref : n # p /\ n # t /\ (n # b \/ n = nil) => parent'[n] = parent[n]
    /\ root' = IF g = nil THEN t ELSE root

LEMMA RotatedAround ==
    ASSUME TypeOK, LinksOK, NEW d \in [Ref -> Nat], NEW s \in Side, NEW p, Rotatable(d, s, p),
           TurnedLinks(s, p)
    PROVE  \E o, t, b, g, k : Around(s, p, o, t, b, g, k)
  <1> DEFINE o == Other(s)
             t == child[p][o]
             b == child[t][s]
             g == parent[p]
             k == SlotOf(child, g, p)
  <1>1. /\ o = Other(s) /\ t = child[p][o] /\ b = child[t][s] /\ g = parent[p]
        /\ k = SlotOf(child, g, p)
        /\ o \in Side /\ o # s
        /\ p \in Linked /\ p \in Ref /\ p # nil
        /\ t \in Linked /\ t \in Ref /\ t # nil /\ t # p /\ parent[t] = p
        /\ b \in Ref /\ b # p /\ b # t /\ (b # nil => b \in Linked /\ parent[b] = t)
        /\ g \in Ref /\ g # p /\ g # t /\ (g # nil => g # b /\ g \in Linked)
        /\ g # nil => child[g][k] = p
    BY RotatableApart
  <1>2. /\ child'[p][o] = b /\ child'[p][s] = child[p][s]
        /\ child'[t][s] = p /\ child'[t][o] = child[t][o]
        /\ g # nil => child'[g][k] = t /\ child'[g][Other(k)] = child[g][Other(k)]
        /\ \A n \in Ref : n # p /\ n # t /\ (n # g \/ n = nil) => child'[n] = child[n]
        /\ parent'[p] = t /\ parent'[t] = g
        /\ b # nil => parent'[b] = p
        /\ \A n \in Ref : n # p /\ n # t /\ (n # b \/ n = nil) => parent'[n] = parent[n]
        /\ root' = IF g = nil THEN t ELSE root
    BY DEF TurnedLinks
  <1>3. k \in Side /\ Other(k) \in Side /\ Other(k) # k
    BY SlotSides
  <1> HIDE DEF o, t, b, g, k
  <1>4. Around(s, p, o, t, b, g, k)
    BY <1>1, <1>2, <1>3 DEF Around
  <1> QED BY <1>4

\* The links that a rotation leaves lead neither to p nor to t nor to b.
LEMMA OtherLinks ==
    ASSUME TypeOK, LinksOK, NEW s \in Side, NEW p, NEW o, NEW t, NEW b, NEW g, NEW k,
           Around(s, p, o, t, b, g, k), NEW n \in Linked, NEW r \in Side
    PROVE  \/ n = p /\ r = o
           \/ n = t /\ r = s
           \/ n = g /\ r = k
           \/ /\ child'[n][r] = child[n][r]
              /\ child[n][r] # p /\ child[n][r] # t
              /\ child[n][r] # nil => child[n][r] # b /\ parent[child[n][r]] = n
              /\ child[n][r] \in Linked \cup {nil}
  <1> DEFINE m == child[n][r]
  <1>1. m # nil => m \in Linked /\ parent[m] = n
    BY DEF LinksOK
  <1>2. \A r2 \in Side : r2 # r /\ m # nil => child[n][r2] # m
    BY DEF LinksOK
  <1>3. Linked \subseteq Node
    BY DEF Linked
  <1>4. child'[n][r] = m \/ (n = p /\ r = o) \/ (n = t /\ r = s) \/ (n = g /\ r = k)
    BY <1>3 DEF Around, Other
  <1>5. SUFFICES ASSUME ~(n = p /\ r = o), ~(n = t /\ r = s), ~(n = g /\ r = k)
                 PROVE  m # p /\ m # t /\ (m # nil => m # b)
    BY <1>1, <1>4
  <1> HIDE DEF m
  <1>6. m # p
    <2>1. m = p => n = g
      BY <1>1 DEF Around
    <2>2. n = g => child[g][k] = p /\ k \in Side /\ n # nil
      BY <1>3 DEF Around
    <2> QED BY <1>2, <1>5, <2>1, <2>2 DEF Around
  <1>7. m # t
    <2>1. m = t => n = p
      BY <1>1 DEF Around
    <2>2. child[p][o] = t /\ o \in Side
      BY DEF Around
    <2> QED BY <1>2, <1>5, <2>1, <2>2 DEF Around
  <1>8. m # nil => m # b
    <2>1. m # nil /\ m = b => n = t
      BY <1>1 DEF Around
    <2>2. child[t][s] = b
      BY DEF Around
    <2> QED BY <1>2, <1>5, <2>1, <2>2
  <1> QED BY <1>6, <1>7, <1>8

\* A fixup step that changes colours only.
LEMMA Recoloured ==
    ASSUME TypeOK', NEW d \in [Ref -> Nat], NEW h, InvariantBy(d, h),
           root' = root, parent' = parent, child' = child, status' = status,
           color'[nil] = "black",
           \A n \in Ref \ {nil} : n \notin Linked => color'[n] = color[n],
           NEW j \in [Ref -> Nat], Balanced(j)',
           NoRedRed', PlaceOK', RotationsSpent', pc' # "successor"
    PROVE  IInv'
  <1>1. Linked' = Linked /\ Detached' = Detached
    BY DEF Linked, Detached
  <1>2. LinksOK'
    BY <1>1 DEF InvariantBy, LinksOK
  <1>3. SentinelIntact'
    BY DEF InvariantBy, SentinelIntact
  <1>4. DetachedPristine'
    <2> SUFFICES ASSUME NEW n \in Detached PROVE IsPristine(n)'
      BY <1>1 DEF DetachedPristine
    <2>1. IsPristine(n) /\ n \in Ref \ {nil} /\ n \notin Linked
      BY DEF InvariantBy, DetachedPristine, Detached, Linked
    <2> QED BY <2>1 DEF IsPristine
  <1>5. \A n \in Linked', r \in Side : child'[n][r] # nil => d[n] < d[child'[n][r]]
    BY <1>1 DEF InvariantBy, Descending
  <1> QED
    BY <1>2, <1>3, <1>4, <1>5, InvariantAfter DEF Repaired
=============================================================================
