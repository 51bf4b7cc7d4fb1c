------------------------- MODULE RBContainerProofs -------------------------
(***************************************************************************)
(* The container drives the tree through its calls only, so that all that  *)
(* is proved of the tree holds in it; it leaves the tree clean, and what   *)
(* it has retained is what the nodes hold.                                 *)
(***************************************************************************)
EXTENDS RBContainerRefinement, RBTreeInvariantProofs, FiniteSetTheorems

USE NilAssumption DEF Side, Ref, Color

\* What the steps of a low-level call do to the pool: an insertion links the
\* node it was given, a removal frees it, and nothing else happens.
LEMMA PoolStep ==
    ASSUME Continue
    PROVE  \/ /\ pc \notin {"descend", "before", "after", "successor"}
              /\ UNCHANGED pool
              /\ pc \in RedRedLabels => pc' \in RedRedLabels \cup {"idle"}
              /\ pc \in BlackBlackLabels => pc' \in BlackBlackLabels \cup {"idle"}
           \/ /\ pc \in {"descend", "before", "after"}
              /\ UNCHANGED pool
              /\ pc' \in {pc, "idle"}
           \/ /\ Attach
              /\ pc \in {"descend", "before", "after"}
              /\ pc' \in {"idle", "redred"}
           \/ /\ pc = "successor" /\ pc' = "successor"
              /\ UNCHANGED <<value, status, arg>>
           \/ /\ Unlink
              /\ pc = "successor" /\ pc' \in {"idle", "blackblack"}
  BY DEF Continue, Descend, RefuseDuplicate, Slide, Attach, RecolourUncle, RotateInner,
         RotateOuter, RotateGrandparent, RedRedDone, Successor, Unlink, RotateSibling,
         RecolourSibling, RotateNephew, RotateParent, AtNephews, BlackBlackDone,
         Return, pool, RedRedLabels, BlackBlackLabels

-----------------------------------------------------------------------------
(* Types, and the way from the container's steps to the tree's.            *)

ContainerInv == IInv /\ ContainerTypeOK

LEMMA TreeParts == IInv => TypeOK /\ LinksOK
  BY DEF IInv, InvariantBy

LEMMA StepDrives ==
    ASSUME ContainerInv, [ContainerNext]_allVars
    PROVE  [Next]_vars
  <1>1. CASE Call
    BY <1>1 DEF Call, Add, Search, RemoveHeldNode, Done, Next, NodeCall
  <1>2. CASE AddInserts
    BY <1>2 DEF AddInserts, ContainerInv, ContainerTypeOK, CallOK, Next, NodeCall
  <1>3. CASE AddRefused
    BY <1>3 DEF AddRefused, ContainerInv, ContainerTypeOK, CallOK, Next, NodeCall
  <1>4. CASE RemoveReleases
    <2>1. at \in Node
      BY <1>4 DEF RemoveReleases, ContainerInv, ContainerTypeOK, CallOK, Linked
    <2> QED BY <1>4, <2>1 DEF RemoveReleases, Next, NodeCall
  <1>5. CASE RemoveUnlinks
    <2>1. at \in Node
      BY <1>5 DEF RemoveUnlinks, ContainerInv, ContainerTypeOK, CallOK, Linked
    <2> QED BY <1>5, <2>1 DEF RemoveUnlinks, Next, NodeCall
  <1>6. CASE WalkAndReturn
    BY <1>6 DEF WalkAndReturn, Walk, Next
  <1>7. CASE LowLevel
    BY <1>7 DEF LowLevel, Next
  <1>8. CASE \/ AddTaken \/ SearchOn \/ SearchHit \/ SearchMiss \/ RemoveDone
             \/ DoneReleases \/ DoneCloses \/ Closed \/ UNCHANGED allVars
    BY <1>8 DEF AddTaken, SearchOn, SearchHit, SearchMiss, RemoveDone, DoneReleases,
                DoneCloses, Closed, allVars, vars
  <1> QED
    BY <1>1, <1>2, <1>3, <1>4, <1>5, <1>6, <1>7, <1>8 DEF ContainerNext, Proceed

LEMMA BusyStep == ASSUME Continue PROVE pc # "idle"
  BY DEF Continue, Descend, RefuseDuplicate, Slide, Attach, RecolourUncle, RotateInner,
         RotateOuter, RedRedDone, Successor, Unlink, RotateSibling, RecolourSibling,
         RotateNephew, RotateParent, AtNephews, BlackBlackDone

LEMMA InitContainer == ContainerInit => ContainerInv
  BY InitInvariant DEF ContainerInit, ContainerInv, ContainerTypeOK, CallOK, Init, Ops

LEMMA RetainTypes ==
    ASSUME retained \in [Value -> Int], NEW v
    PROVE  /\ Retained(v) \in [Value -> Int]
           /\ Released(v) \in [Value -> Int]
  <1>1. CASE v \in Value
    BY <1>1 DEF Retained, Released
  <1>2. CASE v \notin Value
    BY <1>2 DEF Retained, Released
  <1> QED BY <1>1, <1>2

\* The calls below leave the running call what it needs.
LEMMA LowLevelStep ==
    ASSUME ContainerInv, LowLevel
    PROVE  CallOK'
  <1>1. TypeOK /\ CallOK /\ Continue /\ UNCHANGED <<op, at, key>>
    BY TreeParts DEF ContainerInv, ContainerTypeOK, LowLevel
  <1>2. CASE op = "insert"
    <2>1. pc \in {"idle", "descend"} \cup RedRedLabels
      BY <1>1, <1>2 DEF CallOK
    <2>2. pc # "idle" /\ pc \notin {"successor"} \cup BlackBlackLabels
      BY <1>1, <2>1, BusyStep DEF RedRedLabels, BlackBlackLabels
    <2>3. value' = value /\ \A n \in Node : status[n] # "free" => status'[n] # "free"
      BY <1>1, <2>2, PoolStep DEF Attach, pool, TypeOK
    <2>4. pc' \in {"idle", "descend"} \cup RedRedLabels
      BY <1>1, <2>1, <2>2, PoolStep DEF RedRedLabels, BlackBlackLabels
    <2> QED BY <1>1, <1>2, <2>3, <2>4 DEF CallOK
  <1>3. CASE op = "remove"
    <2>1. at \in Node /\ pc \in {"idle", "successor"} \cup BlackBlackLabels
      BY <1>1, <1>3 DEF CallOK
    <2>2. pc \notin {"descend", "before", "after"} \cup RedRedLabels
      BY <2>1 DEF RedRedLabels, BlackBlackLabels
    <2>3. CASE Unlink
      <3>1. /\ pc = "successor" /\ pc' \in {"idle", "blackblack"}
            /\ at = arg /\ status' = [status EXCEPT ![arg] = "free"]
        BY <1>1, <1>3, <2>3 DEF CallOK, Unlink, Freed, Return
      <3>2. status'[at] = "free" /\ \A n \in Node : n # at => status'[n] = status[n]
        BY <1>1, <2>1, <3>1 DEF TypeOK
      <3> QED BY <1>1, <1>3, <2>1, <3>1, <3>2 DEF CallOK, BlackBlackLabels
    <2>4. CASE pc = "successor" /\ ~Unlink
      <3>1. pc' = "successor" /\ UNCHANGED <<value, status, arg>>
        BY <1>1, <2>4, PoolStep DEF RedRedLabels, BlackBlackLabels, Attach
      <3> QED BY <1>1, <1>3, <2>1, <2>4, <3>1 DEF CallOK
    <2>5. CASE pc # "successor"
      <3>1. UNCHANGED pool /\ pc' \in {"idle"} \cup BlackBlackLabels
        BY <1>1, <2>1, <2>2, <2>5, PoolStep, BusyStep DEF Unlink, Attach
      <3> QED BY <1>1, <1>3, <2>1, <2>5, <3>1 DEF CallOK, pool, BlackBlackLabels
    <2> QED BY <2>3, <2>4, <2>5
  <1> QED BY <1>2, <1>3 DEF LowLevel

LEMMA StepContainer ==
    ASSUME ContainerInv, [ContainerNext]_allVars
    PROVE  ContainerInv'
  <1>a. IInv /\ IInv'
    BY StepDrives, StepInvariant DEF ContainerInv
  <1>1. TypeOK /\ TypeOK' /\ LinksOK /\ ContainerTypeOK /\ CallOK
    BY <1>a DEF IInv, InvariantBy, ContainerInv, ContainerTypeOK
  <1> SUFFICES ContainerTypeOK'
    BY <1>a DEF ContainerInv
  <1>2. ASSUME NEW n \in Node, NEW v \in Payload[n], Add(n, v) PROVE ContainerTypeOK'
    <2>1. v \in Value /\ pc = "idle" /\ pc' = pc
      BY <1>2, PayloadAssumption DEF Add, NewNode, stack
    <2>2. status'[n] = "detached" /\ value'[n] = v
      BY <1>1, <1>2 DEF Add, NewNode, TypeOK
    <2>3. CallOK'
      BY <1>2, <2>1, <2>2 DEF Add, CallOK
    <2> QED BY <1>1, <1>2, <2>1, <2>3, RetainTypes DEF Add, ContainerTypeOK, Ops
  <1>3. ASSUME NEW what \in {"find", "remove"}, NEW k \in Value, Search(what, k)
        PROVE  ContainerTypeOK'
    <2>1. root \in Linked \cup {nil} /\ Linked' = Linked
      BY <1>1, <1>3 DEF Search, vars, Linked, LinksOK
    <2> QED
      BY <1>1, <1>3, <2>1 DEF Search, ContainerTypeOK, CallOK, Ops, vars, TypeOK
  <1>4. ASSUME NEW n \in Node, RemoveHeldNode(n) PROVE ContainerTypeOK'
    <2>1. value[n] \in Value \cup {nil} /\ n \in Linked' /\ pc' = "idle"
      BY <1>1, <1>4 DEF RemoveHeldNode, CallOK, vars, TypeOK, Linked
    <2>2. CallOK'
      BY <1>4, <2>1 DEF RemoveHeldNode, CallOK
    <2> QED BY <1>1, <1>4, <2>1, <2>2 DEF RemoveHeldNode, ContainerTypeOK, Ops
  <1>5. CASE Done
    BY <1>1, <1>5 DEF Done, ContainerTypeOK, CallOK, Ops, vars
  <1>6. CASE AddInserts
    BY <1>1, <1>6 DEF AddInserts, InsertNode, ContainerTypeOK, CallOK, Ops, pool
  <1>7. CASE AddRefused \/ AddTaken
    <2>1. ReleasedByRefusal \in [Value -> Int]
      BY <1>1, RetainTypes DEF ReleasedByRefusal, ContainerTypeOK
    <2> QED
      BY <1>1, <1>7, <2>1
      DEF AddRefused, AddTaken, FreeNode, ContainerTypeOK, CallOK, Ops, stack, vars
  <1>8. CASE SearchOn
    <2>1. /\ child[at][WayFrom(key, at)] \in Linked \cup {nil}
          /\ Linked' = Linked /\ Linked \subseteq Node
      BY <1>1, <1>8 DEF SearchOn, CallOK, LinksOK, WayFrom, vars, Linked
    <2> QED BY <1>1, <1>8, <2>1 DEF SearchOn, ContainerTypeOK, CallOK, Ops, vars
  <1>9. CASE SearchHit
    <2>1. CASE wanted = "find"
      BY <1>1, <1>9, <2>1 DEF SearchHit, Answer, ContainerTypeOK, CallOK, Ops, vars
    <2>2. CASE wanted # "find"
      <3>1. at \in Linked'
        BY <1>1, <1>9, <2>2 DEF SearchHit, CallOK, vars, Linked
      <3> QED
        BY <1>1, <1>9, <2>2, <3>1 DEF SearchHit, ContainerTypeOK, CallOK, Ops, vars
    <2> QED BY <2>1, <2>2
  <1>10. CASE SearchMiss
    BY <1>1, <1>10 DEF SearchMiss, Answer, ContainerTypeOK, CallOK, Ops, vars
  <1>11. CASE RemoveReleases
    <2>1. ReleasedNode(at) \in [Value -> Int]
      BY <1>1, RetainTypes DEF ReleasedNode, ContainerTypeOK
    <2>2. UNCHANGED <<pc, status>>
      BY <1>11 DEF RemoveReleases, MarkNodeAsDirty, vars, pool, stack
    <2> QED
      BY <1>1, <1>11, <2>1, <2>2 DEF RemoveReleases, ContainerTypeOK, CallOK, Ops, Linked
  <1>12. CASE RemoveUnlinks
    BY <1>1, <1>12 DEF RemoveUnlinks, RemoveNode, ContainerTypeOK, CallOK, Ops, Linked
  <1>13. CASE RemoveDone
    BY <1>1, <1>13 DEF RemoveDone, ContainerTypeOK, CallOK, Ops, vars
  <1>14. CASE WalkAndReturn
    <2>1. UNCHANGED pc
      BY <1>14 DEF WalkAndReturn, Walk, WalkDirty, vars, stack
    <2> QED
      BY <1>1, <1>14, <2>1 DEF WalkAndReturn, Answer, ContainerTypeOK, CallOK, Ops
  <1>15. CASE DoneReleases
    <2>1. ReleasedNode(at) \in [Value -> Int]
      BY <1>1, RetainTypes DEF ReleasedNode, ContainerTypeOK
    <2> QED
      BY <1>1, <1>15, <2>1 DEF DoneReleases, ContainerTypeOK, CallOK, Ops, vars
  <1>16. CASE DoneCloses \/ Closed \/ UNCHANGED allVars
    BY <1>1, <1>16
    DEF DoneCloses, Closed, ContainerTypeOK, CallOK, Ops, allVars, vars, Linked
  <1>17. CASE LowLevel
    BY <1>1, <1>17, LowLevelStep DEF LowLevel, ContainerInv, ContainerTypeOK
  <1> QED
    BY <1>2, <1>3, <1>4, <1>5, <1>6, <1>7, <1>8, <1>9, <1>10, <1>11, <1>12, <1>13,
       <1>14, <1>15, <1>16, <1>17
    DEF ContainerNext, Call, Proceed

LEMMA ContainerInvHolds == ContainerSpec => []ContainerInv
  BY InitContainer, StepContainer, PTL DEF ContainerSpec

\* The node at which a call works is in the state that the call needs.
THEOREM ContainerTypeCorrect == ContainerSpec => []ContainerTypeOK
  BY ContainerInvHolds, PTL DEF ContainerInv

\* The container drives the tree through its calls and nothing else: each step
\* of it is a step of the tree or leaves the tree alone.
THEOREM ContainerDrivesTree == ContainerSpec => Spec
  <1>1. ContainerInit => Init
    BY DEF ContainerInit
  <1> QED BY <1>1, StepDrives, ContainerInvHolds, PTL DEF ContainerSpec, Spec

-----------------------------------------------------------------------------
(* The tree is clean between two calls.                                    *)

\* Until add or remove touches the tree, and when it has walked.
CleanUntilChanged ==
    op \in {"none", "new", "search", "release"} => dirty \cap Linked = {}

LEMMA StepClean ==
    ASSUME ContainerInv, FlagInv, CleanUntilChanged, [ContainerNext]_allVars
    PROVE  CleanUntilChanged'
  <1>1. TypeOK /\ LinksOK
    BY TreeParts DEF ContainerInv
  <1>2. ASSUME NEW n \in Node, NEW v \in Payload[n], Add(n, v)
        PROVE  CleanUntilChanged'
    <2>1. n \notin Linked' /\ Linked' = Linked
      BY <1>1, <1>2 DEF Add, NewNode, Linked, TypeOK
    <2>2. dirty' \subseteq dirty \cup {n}
      BY <1>2 DEF Add, NewNode
    <2> QED BY <1>2, <2>1, <2>2 DEF CleanUntilChanged, Add
  <1>3. CASE WalkAndReturn
    <2>1. CASE UseDirty
      <3>1. WalkDirty
        BY <1>3, <2>1 DEF WalkAndReturn, Walk
      <3>2. dirty' \cap Linked = {} /\ Linked' = Linked
        BY <1>1, <3>1, WalkCleans DEF FlagInv, WalkDirty, pool, Linked
      <3> QED BY <3>2 DEF CleanUntilChanged
    <2>2. CASE ~UseDirty
      BY <1>3, <2>2 DEF WalkAndReturn, Walk, FlagInv, CleanUntilChanged, vars
    <2> QED BY <2>1, <2>2
  <1>4. CASE \/ op' \notin {"none", "new", "search", "release"}
             \/ /\ UNCHANGED <<dirty, status>>
                /\ op \in {"none", "new", "search", "release"}
    BY <1>4 DEF CleanUntilChanged, Linked
  <1>5. CASE UNCHANGED <<op, dirty, status>>
    BY <1>5 DEF CleanUntilChanged, Linked
  <1> QED
    BY <1>2, <1>3, <1>4, <1>5
    DEF ContainerNext, Call, Proceed, Closed, Search, RemoveHeldNode, Done, AddInserts,
        AddRefused, AddTaken, SearchOn, SearchHit, SearchMiss, RemoveReleases,
        RemoveUnlinks, RemoveDone, DoneReleases, DoneCloses, LowLevel, Answer, allVars, vars

\* With use_dirty, add and remove never leave a dirty node behind, also when
\* the value is refused or not found: what a dirty callback maintains is up to
\* date whenever the caller looks.
THEOREM CallsLeaveClean == ContainerSpec => []CleanBetweenCalls
  <1>1. ContainerInit => CleanUntilChanged
    BY DEF ContainerInit, Init, CleanUntilChanged
  <1>2. CleanUntilChanged => CleanBetweenCalls
    BY DEF CleanUntilChanged, CleanBetweenCalls
  <1> QED
    BY <1>1, <1>2, StepClean, ContainerInvHolds, ContainerDrivesTree, FlagsHold, PTL
    DEF ContainerSpec

-----------------------------------------------------------------------------
(* What is retained is what the nodes hold.                                *)

Held(v) == Holding(v) \ Forsaken

LEMMA HeldFinite == \A v : IsFiniteSet(Held(v)) /\ Cardinality(Held(v)) \in Nat
  <1>1. IsFiniteSet(Node)
    BY PoolAssumption
  <1>2. \A v : Held(v) \subseteq Node
    BY DEF Held, Holding
  <1> QED BY <1>1, <1>2, FS_Subset, FS_CardinalityType

\* What a step may do to a value.
LEMMA Kept ==
    ASSUME RetainedOncePerNode, op \notin {"done", "closed"}, retained' = retained,
           \A v \in Value : Held(v)' = Held(v)
    PROVE  RetainedOncePerNode'
  BY DEF RetainedOncePerNode, Held

LEMMA Taken ==
    ASSUME RetainedOncePerNode, op \notin {"done", "closed"},
           retained \in [Value -> Int], NEW w \in Value, retained' = Retained(w),
           NEW n, n \notin Held(w), Held(w)' = Held(w) \cup {n},
           \A v \in Value \ {w} : Held(v)' = Held(v)
    PROVE  RetainedOncePerNode'
  <1> SUFFICES ASSUME Owned, NEW v \in Value
               PROVE  Accounted(retained'[v], Cardinality(Held(v)'))
    BY DEF RetainedOncePerNode, Held
  <1>1. /\ Accounted(retained[v], Cardinality(Held(v)))
        /\ retained[v] \in Int /\ Cardinality(Held(v)) \in Nat
    BY HeldFinite DEF RetainedOncePerNode, Held
  <1>2. CASE v = w
    <2>1. Cardinality(Held(w) \cup {n}) = Cardinality(Held(w)) + 1
      BY HeldFinite, FS_AddElement
    <2> QED BY <1>1, <1>2, <2>1 DEF Retained, Accounted
  <1>3. CASE v # w
    BY <1>1, <1>3 DEF Retained
  <1> QED BY <1>2, <1>3

LEMMA GivenBack ==
    ASSUME RetainedOncePerNode, op \notin {"done", "closed"},
           retained \in [Value -> Int], NEW w \in Value, retained' = Released(w),
           NEW n \in Held(w), Held(w)' = Held(w) \ {n},
           \A v \in Value \ {w} : Held(v)' = Held(v)
    PROVE  RetainedOncePerNode'
  <1> SUFFICES ASSUME Owned, NEW v \in Value
               PROVE  Accounted(retained'[v], Cardinality(Held(v)'))
    BY DEF RetainedOncePerNode, Held
  <1>1. /\ Accounted(retained[v], Cardinality(Held(v)))
        /\ retained[v] \in Int /\ Cardinality(Held(v)) \in Nat
    BY HeldFinite DEF RetainedOncePerNode, Held
  <1>2. CASE v = w
    <2>1. Cardinality(Held(w) \ {n}) = Cardinality(Held(w)) - 1
      BY HeldFinite, FS_RemoveElement
    <2> QED BY <1>1, <1>2, <2>1 DEF Released, Accounted
  <1>3. CASE v # w
    BY <1>1, <1>3 DEF Released
  <1> QED BY <1>2, <1>3

\* A node goes, or is as good as gone, and its value is not released.
LEMMA Leaked ==
    ASSUME RetainedOncePerNode, op \notin {"done", "closed"}, UseExtra,
           retained \in [Value -> Int], retained' = retained,
           \A v \in Value : Held(v)' \subseteq Held(v)
    PROVE  RetainedOncePerNode'
  <1> SUFFICES ASSUME Owned, NEW v \in Value
               PROVE  Accounted(retained'[v], Cardinality(Held(v)'))
    BY DEF RetainedOncePerNode, Held
  <1>1. Accounted(retained[v], Cardinality(Held(v))) /\ retained[v] \in Int
    BY DEF RetainedOncePerNode, Held
  <1>2. /\ Cardinality(Held(v)') <= Cardinality(Held(v))
        /\ Cardinality(Held(v)') \in Nat /\ Cardinality(Held(v)) \in Nat
    BY HeldFinite, FS_Subset, FS_CardinalityType
  <1> QED BY <1>1, <1>2 DEF Accounted

\* A step that leaves the pool alone, and the node that is forsaken.
LEMMA SamePool ==
    ASSUME RetainedOncePerNode, op \notin {"done", "closed"}, retained' = retained,
           UNCHANGED pool, Forsaken' = Forsaken
    PROVE  RetainedOncePerNode'
  <1>1. \A v \in Value : Held(v)' = Held(v)
    BY DEF Held, Holding, pool
  <1> QED BY <1>1, Kept

LEMMA LowLevelRetention ==
    ASSUME ContainerInv, RetainedOncePerNode, LowLevel
    PROVE  RetainedOncePerNode'
  <1>1. /\ TypeOK /\ CallOK /\ CallOK' /\ Continue
        /\ UNCHANGED <<op, at, retained>> /\ op \in {"insert", "remove"}
    BY TreeParts, LowLevelStep DEF ContainerInv, ContainerTypeOK, LowLevel
  <1>2. CASE UNCHANGED pool
    BY <1>1, <1>2, SamePool DEF Forsaken, pool
  <1>3. CASE Attach
    <2>1. op = "insert"
      BY <1>1, <1>3 DEF Attach, CallOK, BlackBlackLabels
    <2>2. \A n \in Node : value'[n] = value[n] /\ (status'[n] # "free" <=> status[n] # "free")
      BY <1>1, <1>3 DEF Attach, TypeOK, Detached
    <2>3. \A v \in Value : Held(v)' = Held(v)
      BY <1>1, <2>1, <2>2 DEF Held, Holding, Forsaken
    <2> QED BY <1>1, <2>3, Kept
  <1>4. CASE Unlink
    <2>1. op = "remove" /\ at = arg /\ arg \in Linked /\ at \in Node
      BY <1>1, <1>4 DEF Unlink, CallOK, RedRedLabels, TypeOK
    <2>2. /\ status' = [status EXCEPT ![at] = "free"]
          /\ value' = [value EXCEPT ![at] = nil]
      BY <1>4, <2>1 DEF Unlink, Freed
    <2>3. Forsaken = {at} /\ Forsaken' = {}
      BY <1>1, <2>1, <2>2 DEF Forsaken, TypeOK, Linked
    <2>4. ASSUME NEW v \in Value PROVE Holding(v)' = Holding(v) \ {at}
      BY <1>1, <2>1, <2>2 DEF Holding, TypeOK
    <2>5. \A v \in Value : Held(v)' = Held(v)
      BY <2>3, <2>4 DEF Held
    <2> QED BY <1>1, <2>5, Kept
  <1> QED
    BY <1>1, <1>2, <1>3, <1>4, PoolStep DEF pool

LEMMA StepRetention ==
    ASSUME ContainerInv, RetainedOncePerNode, [ContainerNext]_allVars
    PROVE  RetainedOncePerNode'
  <1>1. TypeOK /\ CallOK /\ retained \in [Value -> Int]
    BY TreeParts DEF ContainerInv, ContainerTypeOK
  <1>2. ASSUME NEW n \in Node, NEW v \in Payload[n], Add(n, v)
        PROVE  RetainedOncePerNode'
    <2>1. v \in Value /\ op = "none" /\ op' = "new" /\ retained' = Retained(v)
      BY <1>2, PayloadAssumption DEF Add
    <2>2. Forsaken = {} /\ Forsaken' = {}
      BY <2>1 DEF Forsaken
    <2>3. /\ status[n] = "free" /\ value[n] = nil
          /\ status' = [status EXCEPT ![n] = "detached"]
          /\ value' = [value EXCEPT ![n] = v]
      BY <1>1, <1>2 DEF Add, NewNode, TypeOK
    <2>4. \A w \in Value : Holding(w)' = Holding(w) \cup (IF w = v THEN {n} ELSE {})
      BY <1>1, <2>1, <2>3 DEF Holding, TypeOK
    <2>5. /\ Held(v)' = Held(v) \cup {n} /\ n \notin Held(v)
          /\ \A w \in Value \ {v} : Held(w)' = Held(w)
      BY <2>1, <2>2, <2>3, <2>4 DEF Held, Holding
    <2> QED BY <1>1, <2>1, <2>5, Taken
  <1>3. CASE AddRefused
    <2>1. /\ op = "insert" /\ op' = "walk" /\ retained' = Released(key)
          /\ at \in Node /\ status[at] # "free" /\ value[at] = key
          /\ status' = [status EXCEPT ![at] = "free"]
          /\ value' = [value EXCEPT ![at] = nil]
      BY <1>1, <1>3 DEF AddRefused, ReleasedByRefusal, FreeNode, CallOK
    <2>2. PICK v \in Value : v = key
      BY <1>1, <2>1 DEF TypeOK
    <2>3. Forsaken = {} /\ Forsaken' = {}
      BY <2>1 DEF Forsaken
    <2>4. \A w \in Value : Holding(w)' = Holding(w) \ {at}
      BY <1>1, <2>1 DEF Holding, TypeOK
    <2>5. /\ at \in Held(v) /\ Held(v)' = Held(v) \ {at}
          /\ \A w \in Value \ {v} : Held(w)' = Held(w)
      BY <2>1, <2>2, <2>3, <2>4 DEF Held, Holding
    <2> QED BY <1>1, <2>1, <2>2, <2>5, GivenBack
  <1>4. CASE RemoveReleases
    <2>1. /\ op = "release" /\ op' = "unlink" /\ at' = at
          /\ at \in Node /\ status[at] = "linked"
          /\ UNCHANGED pool
      BY <1>1, <1>4 DEF RemoveReleases, MarkNodeAsDirty, CallOK, Linked, vars, pool
    <2>2. PICK v \in Value : v = value[at]
      BY <1>1, <2>1 DEF TypeOK
    <2>3. Forsaken = {} /\ Forsaken' = {at} /\ \A w \in Value : Holding(w)' = Holding(w)
      BY <2>1 DEF Forsaken, Holding, pool
    <2>4. /\ at \in Held(v) /\ Held(v)' = Held(v) \ {at}
          /\ \A w \in Value \ {v} : Held(w)' = Held(w)
      BY <2>1, <2>2, <2>3 DEF Held, Holding, pool
    <2>5. CASE UseExtra
      <3>1. retained' = retained
        BY <1>4, <2>5 DEF RemoveReleases, ReleasedNode
      <3>2. \A w \in Value : Held(w)' \subseteq Held(w)
        BY <2>2, <2>4
      <3> QED BY <1>1, <2>1, <2>5, <3>1, <3>2, Leaked
    <2>6. CASE ~UseExtra
      <3>1. retained' = Released(v)
        BY <1>4, <2>2, <2>6 DEF RemoveReleases, ReleasedNode
      <3> QED BY <1>1, <2>1, <2>2, <2>4, <3>1, GivenBack
    <2> QED BY <2>5, <2>6
  <1>5. CASE RemoveUnlinks
    <2>1. /\ op = "unlink" /\ op' = "remove" /\ at' = at /\ at \in Node
          /\ status[at] = "linked" /\ UNCHANGED pool /\ retained' = retained
      BY <1>1, <1>5 DEF RemoveUnlinks, RemoveNode, CallOK, Linked
    <2>2. Forsaken' = Forsaken
      BY <2>1 DEF Forsaken, pool
    <2> QED BY <2>1, <2>2, SamePool
  <1>6. CASE RemoveDone
    <2>1. /\ op = "remove" /\ op' = "walk" /\ status[at] = "free"
          /\ UNCHANGED pool /\ retained' = retained
      BY <1>1, <1>6 DEF RemoveDone, CallOK, vars, pool
    <2>2. Forsaken' = Forsaken
      BY <2>1 DEF Forsaken
    <2> QED BY <2>1, <2>2, SamePool
  <1>7. CASE \/ AddInserts \/ AddTaken \/ SearchOn \/ SearchHit \/ SearchMiss
             \/ WalkAndReturn
             \/ \E what \in {"find", "remove"}, k \in Value : Search(what, k)
             \/ \E n \in Node : RemoveHeldNode(n)
    <2>1. /\ op \notin {"unlink", "remove", "done", "closed"}
          /\ op' \notin {"unlink", "remove"}
          /\ UNCHANGED pool /\ retained' = retained
      BY <1>7 DEF AddInserts, AddTaken, SearchOn, SearchHit, SearchMiss, WalkAndReturn,
                  Search, RemoveHeldNode, InsertNode, Walk, WalkDirty, Answer, vars, pool
    <2>2. Forsaken = {} /\ Forsaken' = {}
      BY <2>1 DEF Forsaken
    <2> QED BY <2>1, <2>2, SamePool
  <1>8. CASE Done \/ DoneReleases \/ DoneCloses \/ Closed
    BY <1>8 DEF Done, DoneReleases, DoneCloses, Closed, allVars, RetainedOncePerNode
  <1>9. CASE LowLevel
    BY <1>9, LowLevelRetention
  <1>10. CASE UNCHANGED allVars
    BY <1>10 DEF allVars, vars, RetainedOncePerNode, Holding, Forsaken
  <1> QED
    BY <1>2, <1>3, <1>4, <1>5, <1>6, <1>7, <1>8, <1>9, <1>10
    DEF ContainerNext, Call, Proceed

\* With callbacks that retain and release, each value is retained once for each
\* node that holds it, through refused insertions and all steps of a removal,
\* until the container is done with; with the extra option at least once.
THEOREM RetentionBalanced == ContainerSpec => []RetainedOncePerNode
  <1>1. ASSUME ContainerInit PROVE RetainedOncePerNode
    <2>1. \A v \in Value : Holding(v) \ Forsaken = {}
      BY <1>1 DEF ContainerInit, Init, Holding
    <2> QED BY <1>1, <2>1, FS_EmptySet DEF ContainerInit, RetainedOncePerNode, Accounted
  <1>2. ContainerInit => RetainedOncePerNode
    BY <1>1
  <1> QED BY <1>2, StepRetention, ContainerInvHolds, PTL DEF ContainerSpec

-----------------------------------------------------------------------------
(* The container is a bag of values.                                       *)

\* What the running call knows: the tree's call works on the node it was
\* given, a refusal had a reason, a node that is going to be removed holds the
\* key, and a search has not left the key aside.
CallKnows ==
    /\ op = "insert" /\ pc # "idle" => arg = at
    /\ op = "insert" /\ pc \in RedRedLabels => rval = 0
    /\ op = "insert" /\ pc = "idle" =>
          IF rval = 0 THEN status[at] = "linked"
          ELSE /\ ~AllowDuplicates /\ status[at] = "detached" /\ rval = EEXIST
               /\ \E m \in Linked : value[m] = key
    /\ op \in {"release", "unlink"} \/ (op = "remove" /\ pc = "successor") => value[at] = key
    /\ op = "search" => \A m \in Linked : value[m] = key => at \in Path(parent, m)
    /\ op \in {"new", "insert", "search", "release", "unlink", "remove"} => key \in Value

LEMMA LowLevelKnows ==
    ASSUME ContainerInv, CallKnows, LowLevel
    PROVE  CallKnows'
  <1>1. TypeOK /\ CallOK /\ Continue /\ UNCHANGED <<op, at, key>> /\ pc # "idle"
    BY TreeParts, BusyStep DEF ContainerInv, ContainerTypeOK, LowLevel
  <1>2. CASE op = "insert"
    <2>1. pc \in {"descend"} \cup RedRedLabels /\ arg = at /\ key \in Value /\ value[at] = key
      BY <1>1, <1>2 DEF CallOK, CallKnows
    <2>2. CASE RefuseDuplicate
      <3>1. y \in Linked
        BY <2>2 DEF RefuseDuplicate, ContainerInv, IInv, InvariantBy, PlaceOK, SearchPlace,
                    LinksOK, TypeOK
      <3>2. /\ value[y] = key /\ ~AllowDuplicates /\ status[at] = "detached"
            /\ pc' = "idle" /\ rval' = EEXIST /\ UNCHANGED <<value, status>>
        BY <1>1, <2>1, <2>2 DEF RefuseDuplicate, IsTaken, Return, pool, TypeOK, Detached
      <3> QED BY <1>1, <1>2, <2>1, <3>1, <3>2 DEF CallKnows, Linked, EEXIST, RedRedLabels
    <2>3. CASE Attach
      <3>1. /\ pc' \in {"idle", "redred"} /\ rval' = 0 /\ status' = [status EXCEPT ![at] = "linked"]
            /\ pc' = "redred" => arg' = arg
        BY <2>1, <2>3 DEF Attach, Return
      <3> QED BY <1>1, <1>2, <2>1, <3>1 DEF CallKnows, CallOK, TypeOK
    <2>4. CASE ~RefuseDuplicate /\ ~Attach /\ pc = "descend"
      <3>1. Descend
        BY <1>1, <2>4 DEF Continue, Slide, RecolourUncle, RotateInner, RotateOuter, RedRedDone,
                         Successor, Unlink, RotateSibling, RecolourSibling, RotateNephew,
                         RotateParent, AtNephews, BlackBlackDone
      <3> QED BY <1>1, <1>2, <2>1, <3>1 DEF Descend, CallKnows, RedRedLabels
    <2>5. CASE pc \in RedRedLabels
      <3>1. /\ rval' = rval /\ UNCHANGED pool
            /\ pc' \in RedRedLabels \cup {"idle"} /\ (pc' # "idle" => arg' = arg)
        BY <1>1, <2>5
        DEF Continue, Descend, RefuseDuplicate, Slide, Attach, RecolourUncle, RotateInner,
            RotateOuter, RotateGrandparent, RedRedDone, Successor, Unlink, RotateSibling,
            RecolourSibling, RotateNephew, RotateParent, AtNephews, BlackBlackDone, Return,
            RedRedLabels
      <3>2. rval = 0 /\ status[at] = "linked"
        BY <1>1, <1>2, <2>1, <2>5 DEF CallKnows, TypeOK, Linked
      <3> QED BY <1>1, <1>2, <2>1, <3>1, <3>2 DEF CallKnows, RedRedLabels, pool
    <2> QED BY <2>1, <2>2, <2>3, <2>4, <2>5
  <1>3. CASE op = "remove"
    <2>1. pc' # "successor" \/ (pc = "successor" /\ UNCHANGED value)
      BY <1>1, PoolStep DEF TypeOK, Labels, RedRedLabels, BlackBlackLabels
    <2> QED BY <1>1, <1>3, <2>1 DEF CallKnows
  <1> QED BY <1>2, <1>3 DEF LowLevel

LEMMA StepKnows ==
    ASSUME ContainerInv, OrderInv, CallKnows, [ContainerNext]_allVars
    PROVE  CallKnows'
  <1>1. TypeOK /\ LinksOK /\ CallOK /\ ContainerTypeOK
    BY TreeParts DEF ContainerInv, ContainerTypeOK
  <1>2. PICK d \in [Ref -> Nat], h \in [Ref -> Nat] : InvariantBy(d, h)
    BY DEF ContainerInv, IInv
  <1>3. ASSUME NEW n \in Node, NEW v \in Payload[n], Add(n, v) PROVE CallKnows'
    BY <1>3, PayloadAssumption DEF Add, CallKnows
  <1>4. ASSUME NEW what \in {"find", "remove"}, NEW k \in Value, Search(what, k)
        PROVE  CallKnows'
    <2>1. \A m \in Linked : root \in Path(parent, m)
      BY <1>2, PathInTree
    <2> QED BY <1>4, <2>1 DEF Search, CallKnows, vars, Linked
  <1>5. ASSUME NEW n \in Node, RemoveHeldNode(n) PROVE CallKnows'
    <2>1. value[n] \in Value
      BY <1>1, <1>5 DEF RemoveHeldNode, TypeOK
    <2> QED BY <1>5, <2>1 DEF RemoveHeldNode, CallKnows, vars
  <1>6. CASE AddInserts
    BY <1>6 DEF AddInserts, InsertNode, CallKnows, RedRedLabels
  <1>7. CASE SearchOn
    <2>1. PICK A \in [Ref -> SUBSET Int] : Narrowing(A)
      BY KeyedAssumption DEF OrderInv, OrderedBy
    <2>2. ASSUME NEW m \in Linked, value[m] = key PROVE child[at][WayFrom(key, at)] \in Path(parent, m)
      <3>1. at \in Path(parent, m) /\ value[m] # value[at]
        BY <1>7, <2>2 DEF SearchOn, CallKnows
      <3> QED BY <1>2, <2>1, <2>2, <3>1, WayDown
    <2> QED BY <1>7, <2>2 DEF SearchOn, CallKnows, vars, Linked
  <1>8. CASE SearchHit
    BY <1>8 DEF SearchHit, Answer, CallKnows, vars
  <1>9. CASE RemoveReleases
    BY <1>9 DEF RemoveReleases, MarkNodeAsDirty, CallKnows, vars, pool
  <1>10. CASE RemoveUnlinks
    BY <1>10 DEF RemoveUnlinks, RemoveNode, CallKnows, pool
  <1>11. CASE LowLevel
    BY <1>11, LowLevelKnows
  <1>12. CASE \/ Done \/ AddRefused \/ AddTaken \/ SearchMiss \/ RemoveDone \/ WalkAndReturn
              \/ DoneReleases \/ DoneCloses \/ Closed
    BY <1>12 DEF Done, AddRefused, AddTaken, SearchMiss, RemoveDone, WalkAndReturn, Answer,
                 DoneReleases, DoneCloses, Closed, CallKnows, allVars
  <1>13. CASE UNCHANGED allVars
    BY <1>13 DEF allVars, vars, CallKnows, Linked
  <1> QED
    BY <1>3, <1>4, <1>5, <1>6, <1>7, <1>8, <1>9, <1>10, <1>11, <1>12, <1>13
    DEF ContainerNext, Call, Proceed

LEMMA InitKnows == ContainerInit => CallKnows
  BY DEF ContainerInit, CallKnows

LEMMA KnowledgeHolds == ContainerSpec => [](ContainerInv /\ OrderInv /\ CallKnows)
  <1>1. ContainerSpec => []OrderInv
    BY ContainerDrivesTree, OrderHolds, PTL
  <1> QED BY <1>1, InitKnows, StepKnows, ContainerInvHolds, PTL DEF ContainerSpec

\* What the bag sees of the running call.
Seen ==
    [op  |-> IF op = "walk" \/ TakenEffect THEN "return"
             ELSE IF op \in {"new", "insert"} THEN "add"
             ELSE IF op = "search" THEN wanted
             ELSE IF op \in {"release", "unlink", "remove"} THEN "remove"
             ELSE op,
     key |-> IF op \in {"none", "walk", "done", "closed"} \/ TakenEffect THEN nil ELSE key]

LEMMA CallIsSeen == ContainerTypeOK => CallSeen = Seen
  <1> SUFFICES ASSUME ContainerTypeOK PROVE CallSeen = Seen
    OBVIOUS
  <1>1. op \in Ops /\ wanted \in {"find", "remove"}
    BY DEF ContainerTypeOK
  <1>2. CASE op = "none"
    BY <1>2 DEF CallSeen, Seen, TakenEffect
  <1>3. CASE op = "closed"
    BY <1>3 DEF CallSeen, Seen, TakenEffect
  <1>4. CASE op = "walk" \/ TakenEffect
    BY <1>4 DEF CallSeen, Seen, TakenEffect
  <1>5. CASE op \in {"new", "insert"} /\ ~TakenEffect
    BY <1>5 DEF CallSeen, Seen
  <1>6. CASE op = "search"
    BY <1>1, <1>6 DEF CallSeen, Seen, TakenEffect
  <1>7. CASE op \in {"release", "unlink", "remove"} /\ ~TakenEffect
    BY <1>7 DEF CallSeen, Seen
  <1>8. CASE op = "done"
    BY <1>8 DEF CallSeen, Seen, TakenEffect
  <1> QED BY <1>1, <1>2, <1>3, <1>4, <1>5, <1>6, <1>7, <1>8 DEF Ops

LEMMA CallIsSeenAfter == (ContainerTypeOK => CallSeen = Seen)'
  BY CallIsSeen, PTL

\* The nodes of the tree that hold v, of which the content is the number.
Holders(v) == {n \in Linked : value[n] = v}

LEMMA HoldersFinite ==
    \A v : /\ IsFiniteSet(Holders(v)) /\ Cardinality(Holders(v)) \in Nat
           /\ Cardinality(Holders(v)) > 0 <=> Holders(v) # {}
  <1>1. \A v : Holders(v) \subseteq Node
    BY DEF Holders, Linked
  <1>2. \A v : IsFiniteSet(Holders(v)) /\ Cardinality(Holders(v)) \in Nat
    BY <1>1, PoolAssumption, FS_Subset, FS_CardinalityType
  <1> QED BY <1>2, FS_EmptySet

LEMMA ContentCounts ==
    op # "closed" => Content = [v \in Value |-> Cardinality(Holders(v))]
  BY DEF Content, Holders

\* The tree's values are the same before and after.
SameHolders == \A v \in Value : Holders(v)' = Holders(v)

LEMMA SameContent ==
    ASSUME SameHolders, op # "closed", op' # "closed" PROVE Content' = Content
  <1>1. /\ Content  = [v \in Value |-> Cardinality(Holders(v))]
        /\ Content' = [v \in Value |-> Cardinality(Holders(v)')]
    BY ContentCounts DEF Content, Holders
  <1> QED BY <1>1 DEF SameHolders

LEMMA HoldersStay ==
    ASSUME Linked' = Linked, \A n \in Linked : value'[n] = value[n]
    PROVE  SameHolders
  BY DEF SameHolders, Holders

\* A step that the bag does not see.
LEMMA Unseen ==
    ASSUME SameHolders, op # "closed", op' # "closed", CallSeen' = CallSeen,
           ResultSeen' = ResultSeen
    PROVE  UNCHANGED Bag!vars
  BY SameContent DEF Bag!vars

LEMMA RequestIsBag ==
    ASSUME ContainerInv, ContainerInv', Call
    PROVE  Bag!Next
  <1>1. TypeOK /\ ContainerTypeOK /\ ContainerTypeOK' /\ ~TakenEffect
    BY TreeParts DEF ContainerInv, Call, Add, Search, RemoveHeldNode, Done, TakenEffect
  <1>2. CallSeen = Bag!Idle /\ op = "none" /\ op' \in {"new", "search", "release", "done"}
    BY <1>1, CallIsSeen DEF Seen, Call, Add, Search, RemoveHeldNode, Done, Bag!Idle
  <1>3. ResultSeen' = ResultSeen
    BY <1>1, <1>2 DEF ResultSeen, TakenEffect, Call, Add, Search, RemoveHeldNode, Done
  <1>4. Content' = Content
    <2>1. SameHolders
      <3>1. ASSUME NEW n \in Node, NEW v \in Payload[n], Add(n, v) PROVE SameHolders
        <4>1. n \notin Linked /\ Linked' = Linked /\ \A m \in Node : m # n => value'[m] = value[m]
          BY <1>1, <3>1 DEF Add, NewNode, Linked, TypeOK
        <4> QED BY <4>1, HoldersStay DEF Linked
      <3>2. CASE UNCHANGED vars
        BY <3>2, HoldersStay DEF vars, Linked
      <3> QED BY <3>1, <3>2 DEF Call, Search, RemoveHeldNode, Done
    <2> QED BY <1>2, <2>1, SameContent
  <1>5. \/ \E o \in {"add", "find", "remove"}, k \in Value : CallSeen' = [op |-> o, key |-> k]
        \/ CallSeen' = [op |-> "done", key |-> nil]
    <2>1. CallSeen' =
              [op  |-> IF op' \in {"new", "insert"} THEN "add"
                       ELSE IF op' = "search" THEN wanted'
                       ELSE IF op' \in {"release", "unlink", "remove"} THEN "remove"
                       ELSE op',
               key |-> IF op' = "done" THEN nil ELSE key']
      <3>1. ~TakenEffect'
        BY <1>2 DEF TakenEffect
      <3> QED BY <1>1, <1>2, <3>1, CallIsSeenAfter DEF Seen
    <2>2. op' # "done" => key' \in Value
      <3>1. ASSUME NEW n \in Node, RemoveHeldNode(n) PROVE value[n] \in Value
        BY <1>1, <3>1 DEF RemoveHeldNode, TypeOK
      <3> QED BY <1>2, <3>1, PayloadAssumption DEF Call, Add, Search, RemoveHeldNode, Done
    <2>3. wanted' \in {"find", "remove"}
      BY <1>1 DEF ContainerTypeOK
    <2> QED BY <1>2, <2>1, <2>2, <2>3
  <1> QED BY <1>2, <1>3, <1>4, <1>5 DEF Bag!Next, Bag!Request

\* The steps of a low-level call: attach_node and the unlinking take effect.
LEMMA LowLevelIsBag ==
    ASSUME ContainerInv, ContainerInv', OrderInv, CallKnows, LowLevel
    PROVE  [Bag!Next]_(Bag!vars)
  <1>1. /\ TypeOK /\ CallOK /\ Continue /\ pc # "idle"
        /\ UNCHANGED <<op, wanted, at, key, result>> /\ op \in {"insert", "remove"}
        /\ CallSeen = Seen /\ CallSeen' = Seen' /\ at \in Node /\ key \in Value
    BY TreeParts, BusyStep, CallIsSeen, CallIsSeenAfter
    DEF ContainerInv, ContainerTypeOK, CallOK, CallKnows, LowLevel
  <1>2. CASE Attach
    <2>1. op = "insert" /\ arg = at /\ pc = "descend" /\ value[at] = key /\ at \notin Linked
      <3>1. pc \in {"descend", "before", "after"}
        BY <1>2 DEF Attach
      <3>2. arg \in Detached
        BY <1>1, <3>1 DEF TypeOK
      <3>3. op = "insert"
        BY <1>1, <3>1 DEF CallOK, BlackBlackLabels
      <3>4. pc = "descend" /\ arg = at /\ value[at] = key
        BY <1>1, <3>1, <3>3 DEF CallOK, CallKnows, RedRedLabels
      <3> QED BY <3>2, <3>3, <3>4 DEF Detached, Linked
    <2>2. Linked' = Linked \cup {at} /\ value' = value /\ status'[at] = "linked"
      BY <1>1, <1>2, <2>1 DEF Attach, Linked, TypeOK
    <2>3. ASSUME ~AllowDuplicates PROVE Holders(key) = {}
      <3>1. ASSUME NEW m \in Linked, value[m] = key PROVE y \in Path(parent, m)
        BY <2>1, <2>3, <3>1, KeyedAssumption DEF OrderInv, DuplicatesAhead
      <3>2. y = nil /\ \A m : nil \notin Path(parent, m)
        BY <1>2 DEF Attach, Path
      <3> QED BY <3>1, <3>2 DEF Holders
    <2>4. Content' = [Content EXCEPT ![key] = @ + 1]
      <3>1. /\ Holders(key)' = Holders(key) \cup {at} /\ at \notin Holders(key)
            /\ \A v \in Value : v # key => Holders(v)' = Holders(v)
        <4>1. Holders(key)' = Holders(key) \cup {at} /\ at \notin Holders(key)
          BY <1>1, <2>1, <2>2 DEF Holders
        <4>2. ASSUME NEW v \in Value, v # key PROVE Holders(v)' = Holders(v)
          BY <2>1, <2>2, <4>2 DEF Holders
        <4> QED BY <4>1, <4>2
      <3>2. Cardinality(Holders(key)') = Cardinality(Holders(key)) + 1
        BY <3>1, HoldersFinite, FS_AddElement
      <3>3. /\ Content = [v \in Value |-> Cardinality(Holders(v))]
            /\ Content' = [v \in Value |-> Cardinality(Holders(v)')]
        BY <1>1 DEF Content, Holders
      <3> QED BY <1>1, <3>1, <3>2, <3>3
    <2>5. Content[key] > 0 <=> Holders(key) # {}
      BY <1>1, HoldersFinite, ContentCounts
    <2>6. CallSeen = [op |-> "add", key |-> key] /\ CallSeen' = Bag!Returning /\ ResultSeen' = 0
      BY <1>1, <2>1, <2>2 DEF Seen, TakenEffect, ResultSeen, Bag!Returning, Linked
    <2>7. Bag!AddTakes
      BY <2>3, <2>4, <2>5, <2>6 DEF Bag!AddTakes, Bag!Answer, Bag!Held
    <2> QED BY <2>7 DEF Bag!Next, Bag!Proceed
  <1>3. CASE Unlink
    <2>1. op = "remove" /\ arg = at /\ pc = "successor" /\ value[at] = key /\ at \in Linked
      BY <1>1, <1>3 DEF Unlink, CallOK, CallKnows, RedRedLabels, TypeOK
    <2>2. /\ Linked' = Linked \ {at} /\ status'[at] = "free"
          /\ \A n \in Linked' : value'[n] = value[n]
      BY <1>1, <1>3, <2>1 DEF Unlink, Freed, Linked, TypeOK
    <2>3. Content' = [Content EXCEPT ![key] = @ - 1] /\ Content[key] > 0
      <3>1. /\ Holders(key)' = Holders(key) \ {at} /\ at \in Holders(key)
            /\ \A v \in Value : v # key => Holders(v)' = Holders(v)
        <4>1. Holders(key)' = Holders(key) \ {at} /\ at \in Holders(key)
          BY <1>1, <2>1, <2>2 DEF Holders
        <4>2. ASSUME NEW v \in Value, v # key PROVE Holders(v)' = Holders(v)
          BY <2>1, <2>2, <4>2 DEF Holders
        <4> QED BY <4>1, <4>2
      <3>2. Cardinality(Holders(key)') = Cardinality(Holders(key)) - 1
        BY <3>1, HoldersFinite, FS_RemoveElement
      <3>3. /\ Content = [v \in Value |-> Cardinality(Holders(v))]
            /\ Content' = [v \in Value |-> Cardinality(Holders(v)')]
        BY <1>1 DEF Content, Holders
      <3> QED BY <1>1, <3>1, <3>2, <3>3, HoldersFinite
    <2>4. CallSeen = [op |-> "remove", key |-> key] /\ CallSeen' = Bag!Returning /\ ResultSeen' = 0
      BY <1>1, <2>1, <2>2 DEF Seen, TakenEffect, ResultSeen, Bag!Returning, Linked
    <2>5. Bag!RemoveTakes
      BY <2>3, <2>4 DEF Bag!RemoveTakes, Bag!Answer, Bag!Held
    <2> QED BY <2>5 DEF Bag!Next, Bag!Proceed
  <1>4. CASE ~Attach /\ ~Unlink
    <2>1. UNCHANGED <<value, status>>
      BY <1>1, <1>4, PoolStep DEF pool
    <2>2. SameHolders
      BY <2>1, HoldersStay DEF Linked
    <2>3. TakenEffect' = TakenEffect
      BY <1>1, <2>1 DEF TakenEffect
    <2> QED BY <1>1, <2>2, <2>3, Unseen DEF Seen, ResultSeen
  <1> QED BY <1>2, <1>3, <1>4

\* The other steps of the running call.
LEMMA ProceedIsBag ==
    ASSUME ContainerInv, ContainerInv', CallKnows, Proceed, ~LowLevel
    PROVE  [Bag!Next]_(Bag!vars)
  <1>1. /\ TypeOK /\ CallOK /\ ContainerTypeOK
        /\ CallSeen = Seen /\ CallSeen' = Seen' /\ Linked \subseteq Node
    BY TreeParts, CallIsSeen, CallIsSeenAfter DEF ContainerInv, ContainerTypeOK, Linked
  <1>2. CASE AddInserts
    <2>1. status[at] = "detached" /\ UNCHANGED <<value, status>>
      BY <1>2 DEF AddInserts, InsertNode, pool
    <2> QED
      BY <1>1, <1>2, <2>1, HoldersStay, Unseen DEF AddInserts, Seen, TakenEffect, ResultSeen, Linked
  <1>3. CASE AddRefused
    <2>1. /\ op = "insert" /\ op' = "walk" /\ key \in Value /\ result' = EEXIST
          /\ ~AllowDuplicates /\ status[at] = "detached" /\ Holders(key) # {}
      BY <1>3 DEF AddRefused, CallKnows, Holders
    <2>2. at \notin Linked /\ Linked' = Linked /\ \A n \in Node : n # at => value'[n] = value[n]
      BY <1>1, <1>3, <2>1 DEF AddRefused, FreeNode, Linked, TypeOK
    <2>3. Content' = Content
      BY <1>1, <2>1, <2>2, HoldersStay, SameContent
    <2>4. Content[key] > 0
      BY <2>1, HoldersFinite, ContentCounts
    <2>5. /\ CallSeen = [op |-> "add", key |-> key] /\ CallSeen' = Bag!Returning
          /\ ResultSeen' = EEXIST
      BY <1>1, <2>1 DEF Seen, TakenEffect, ResultSeen, Bag!Returning
    <2> QED
      BY <2>1, <2>3, <2>4, <2>5
      DEF Bag!Next, Bag!Proceed, Bag!AddRefuses, Bag!Answer, Bag!Held
  <1>4. CASE AddTaken
    <2>1. /\ op = "insert" /\ op' = "walk" /\ TakenEffect /\ result' = 0
          /\ UNCHANGED <<value, status>>
      BY <1>4 DEF AddTaken, CallKnows, TakenEffect, vars
    <2> QED BY <1>1, <2>1, HoldersStay, Unseen DEF Seen, TakenEffect, ResultSeen, Linked
  <1>5. CASE SearchOn
    <2>1. op = "search" /\ UNCHANGED <<op, wanted, key, result, value, status>>
      BY <1>5 DEF SearchOn, vars
    <2> QED BY <1>1, <2>1, HoldersStay, Unseen DEF Seen, TakenEffect, ResultSeen, Linked
  <1>6. CASE SearchHit
    <2>1. op = "search" /\ key \in Value /\ at \in Linked /\ value[at] = key
          /\ UNCHANGED <<value, status>>
      BY <1>1, <1>6 DEF SearchHit, CallKnows, CallOK, vars
    <2>2. SameHolders /\ Holders(key) # {}
      BY <2>1, HoldersStay DEF Holders, Linked
    <2>3. CASE wanted = "find"
      <3>1. op' = "none" /\ result' = key
        BY <1>6, <2>1, <2>3 DEF SearchHit, Answer, NodeValue, Linked
      <3>2. Content' = Content /\ Content[key] > 0
        BY <2>1, <2>2, <3>1, SameContent, HoldersFinite, ContentCounts
      <3>3. /\ CallSeen = [op |-> "find", key |-> key] /\ CallSeen' = Bag!Idle
            /\ ResultSeen' = key
        BY <1>1, <2>1, <2>3, <3>1 DEF Seen, TakenEffect, ResultSeen, Bag!Idle
      <3> QED
        BY <3>2, <3>3 DEF Bag!Next, Bag!Proceed, Bag!Finds, Bag!Answer, Bag!Held
    <2>4. CASE wanted = "remove"
      <3>1. op' = "release" /\ UNCHANGED <<wanted, key, at, result>>
        BY <1>6, <2>4 DEF SearchHit
      <3> QED BY <1>1, <2>1, <2>2, <2>4, <3>1, Unseen DEF Seen, TakenEffect, ResultSeen
    <2> QED BY <1>1, <2>3, <2>4 DEF ContainerTypeOK
  <1>7. CASE SearchMiss
    <2>1. op = "search" /\ op' = "none" /\ key \in Value /\ at = nil
          /\ UNCHANGED <<value, status>>
          /\ result' = (IF wanted = "find" THEN nil ELSE ENOENT)
      BY <1>7 DEF SearchMiss, Answer, CallKnows, NodeValue, Absent, vars
    <2>2. Holders(key) = {}
      <3>1. \A m : nil \notin Path(parent, m)
        BY DEF Path
      <3> QED BY <2>1, <3>1 DEF CallKnows, Holders
    <2>3. Content' = Content /\ ~(Content[key] > 0)
      BY <2>1, <2>2, HoldersStay, SameContent, HoldersFinite, ContentCounts DEF Linked
    <2>4. CallSeen = [op |-> wanted, key |-> key] /\ CallSeen' = Bag!Idle /\ ResultSeen' = result'
      BY <1>1, <2>1 DEF Seen, TakenEffect, ResultSeen, Bag!Idle
    <2>5. Bag!Misses \/ Bag!RemoveMisses
      BY <1>1, <2>1, <2>3, <2>4
      DEF ContainerTypeOK, Bag!Misses, Bag!RemoveMisses, Bag!Answer, Bag!Held
    <2> QED BY <2>5 DEF Bag!Next, Bag!Proceed
  <1>8. CASE RemoveReleases \/ RemoveUnlinks
    <2>1. /\ op \in {"release", "unlink"} /\ op' \in {"unlink", "remove"} /\ at \in Linked
          /\ UNCHANGED <<value, status, at, key, result>>
      BY <1>1, <1>8 DEF RemoveReleases, RemoveUnlinks, MarkNodeAsDirty, RemoveNode, CallOK,
                        vars, pool
    <2>2. ~TakenEffect /\ ~TakenEffect'
      BY <2>1 DEF TakenEffect, Linked
    <2> QED BY <1>1, <2>1, <2>2, HoldersStay, Unseen DEF Seen, ResultSeen, Linked
  <1>9. CASE RemoveDone
    <2>1. /\ op = "remove" /\ op' = "walk" /\ TakenEffect /\ result' = 0
          /\ UNCHANGED <<value, status>>
      BY <1>1, <1>9 DEF RemoveDone, CallOK, TakenEffect, vars
    <2> QED BY <1>1, <2>1, HoldersStay, Unseen DEF Seen, TakenEffect, ResultSeen, Linked
  <1>10. CASE WalkAndReturn
    <2>1. /\ op = "walk" /\ op' = "none" /\ result' = result /\ UNCHANGED <<value, status>>
      BY <1>10 DEF WalkAndReturn, Walk, WalkDirty, Answer, vars, pool
    <2>2. Content' = Content
      BY <2>1, HoldersStay, SameContent DEF Linked
    <2>3. CallSeen = Bag!Returning /\ CallSeen' = Bag!Idle /\ ResultSeen' = ResultSeen
      BY <1>1, <2>1 DEF Seen, TakenEffect, ResultSeen, Bag!Idle, Bag!Returning
    <2> QED BY <2>2, <2>3 DEF Bag!Next, Bag!Proceed, Bag!Return
  <1>11. CASE DoneReleases
    <2>1. op = "done" /\ UNCHANGED <<op, result, value, status>>
      BY <1>11 DEF DoneReleases, vars
    <2> QED BY <1>1, <2>1, HoldersStay, Unseen DEF Seen, TakenEffect, ResultSeen, Linked
  <1>12. CASE DoneCloses
    <2>1. op = "done" /\ op' = "closed" /\ result' = result
      BY <1>12 DEF DoneCloses
    <2>2. CallSeen = [op |-> "done", key |-> nil] /\ CallSeen' = Bag!Closed
          /\ ResultSeen' = ResultSeen /\ Content' = Bag!Empty
      BY <1>1, <2>1 DEF Seen, TakenEffect, ResultSeen, Content, Bag!Closed, Bag!Empty
    <2> QED BY <2>2 DEF Bag!Next, Bag!Proceed, Bag!Close
  <1> QED
    BY <1>2, <1>3, <1>4, <1>5, <1>6, <1>7, <1>8, <1>9, <1>10, <1>11, <1>12 DEF Proceed

\* A container of any size, with any values and all options, is a bag of values
\* for its callers: add takes a value and answers 0, or, without duplicates,
\* answers EEXIST exactly if the value is there; remove takes one out, or
\* answers ENOENT exactly if there is none; find returns the value exactly if it
\* is there.  Refusals, releases, rotations and walks change none of this.
THEOREM ContainerIsBag == ContainerSpec => Bag!Spec
  <1>1. ContainerInit => Bag!Init
    <2> SUFFICES ASSUME ContainerInit PROVE Bag!Init
      OBVIOUS
    <2>1. ContainerTypeOK /\ op = "none" /\ result = 0 /\ Linked = {}
      BY InitContainer DEF ContainerInv, ContainerInit, Init, Linked
    <2>2. \A v : Holders(v) = {}
      BY <2>1 DEF Holders
    <2>3. Content = Bag!Empty
      BY <2>1, <2>2, ContentCounts, FS_EmptySet DEF Bag!Empty
    <2> QED BY <2>1, <2>3, CallIsSeen DEF Seen, TakenEffect, ResultSeen, Bag!Init, Bag!Idle
  <1>2. ASSUME ContainerInv, ContainerInv', OrderInv, CallKnows, [ContainerNext]_allVars
        PROVE  [Bag!Next]_(Bag!vars)
    <2>1. CASE Closed \/ UNCHANGED allVars
      <3>1. UNCHANGED <<op, wanted, key, at, result, value, status>>
        BY <2>1 DEF Closed, allVars, vars
      <3> QED
        BY <3>1 DEF Bag!vars, Content, CallSeen, ResultSeen, TakenEffect, Linked
    <2> QED
      BY <1>2, <2>1, RequestIsBag, LowLevelIsBag, ProceedIsBag DEF ContainerNext, Proceed
  <1> QED
    BY <1>1, <1>2, KnowledgeHolds, PTL DEF ContainerSpec, Bag!Spec
=============================================================================
