------------------------------- MODULE RBTree -------------------------------
(***************************************************************************)
(* The low-level red-black tree mulle__rbtree (src/mulle--rbtree.[ch]):    *)
(* insertion by comparator or by position, removal, the two fixup loops,   *)
(* the dirty flag and the marker flag.                                     *)
(*                                                                         *)
(* A step is one iteration of a loop of the C code, or the straight-line   *)
(* code between two loops; pc says which loop is running and arg, x, y,    *)
(* side and beside hold its local variables.  The left and right halves of *)
(* the C code, which are written out twice there, are one action here with *)
(* the side as a parameter.                                                *)
(***************************************************************************)
EXTENDS Integers, FiniteSets

CONSTANTS
    Node,            \* the slots of the node pool (mulle_storage)
    nil,             \* the sentinel _nil embedded in the tree, also C's NULL value
    Value,           \* what the comparator orders, here integers under <
    Payload,         \* Payload[n]: the values the caller may put into slot n
    AllowDuplicates, \* mulle_rbtree_option_allow_duplicates
    UseDirty,        \* mulle_rbtree_option_use_dirty
    UseMarker,       \* mulle_rbtree_option_use_marker, as configured at init
    Positional,      \* the caller places nodes before / after another one
    EnablesMarking,  \* the caller calls enable_marking at some time
    MaxDetached      \* bound: nodes allocated and not (yet) in the tree

ASSUME NilAssumption      == nil \notin Node /\ nil \notin Value
ASSUME ValueAssumption    == Value \subseteq Int
ASSUME PayloadAssumption  == Payload \in [Node -> SUBSET Value]
ASSUME OptionsAssumption  == /\ AllowDuplicates \in BOOLEAN
                             /\ UseDirty \in BOOLEAN
                             /\ UseMarker \in BOOLEAN
                             /\ Positional \in BOOLEAN
                             /\ EnablesMarking \in BOOLEAN

Ref   == Node \cup {nil}
Side  == {"left", "right"}
Color == {"black", "red"}
Other(s) == IF s = "left" THEN "right" ELSE "left"
EEXIST == 17   \* errno.h

VARIABLES
    root,       \* a_tree->_root
    parent,     \* _parent of every node, of the sentinel too
    child,      \* child[n][s]: _left and _right
    color,      \* bit 0 of _color
    dirty,      \* the nodes with the dirty bit of _color
    marked,     \* the nodes with the marker bit of _color
    value,      \* the payload (or the extra area) of an allocated node
    status,     \* free in the pool, allocated but detached, or linked in the tree
    marking     \* use_marker in _options, which enable_marking sets later

VARIABLES
    pc,         \* the loop that runs; "idle" between two calls
    arg,        \* a_node, the argument of the running call
    x, y,       \* the locals of that name
    side,       \* c / direction of an insertion, the half of a fixup
    beside,     \* successor / predecessor of a positional insertion
    rval,       \* what the last insert_node returned
    rotations   \* history: rotations of the running fixup

heap  == <<root, parent, child, color, dirty, marked>>
pool  == <<value, status>>
stack == <<pc, arg, x, y, side, beside>>
vars  == <<root, parent, child, color, dirty, marked, value, status, marking,
           pc, arg, x, y, side, beside, rval, rotations>>

Linked   == {n \in Node : status[n] = "linked"}
Detached == {n \in Node : status[n] = "detached"}

RedRedLabels     == {"redred", "redred_outer"}
BlackBlackLabels == {"blackblack", "nephews", "outer"}
Labels == {"idle", "descend", "before", "after", "successor"}
             \cup RedRedLabels \cup BlackBlackLabels

-----------------------------------------------------------------------------
(* Pure helpers.                                                           *)

\* The nodes visited by while( node != nil) node = node->_parent, as the
\* least set that holds n and the parent of each of its members.
UpClosed(par, S) == \A m \in S : par[m] # nil => par[m] \in S
Path(par, n) ==
    IF n = nil THEN {}
    ELSE LET above == {S \in SUBSET Node : n \in S /\ UpClosed(par, S)}
         IN  {m \in Node : \A S \in above : m \in S}

\* Which child pointer of g holds n.
SlotOf(c, g, n) == IF c[g]["left"] = n THEN "left" ELSE "right"

\* The child pointers after the link from g to old is made to point to new.
Relinked(c, g, old, new) ==
    IF g = nil THEN c ELSE [c EXCEPT ![g][SlotOf(c, g, old)] = new]

\* mulle_rb_node_set_left / _right leave the sentinel's parent alone.
\* Mutant: the moved subtree keeps its old parent.
AdoptedSilently(par, o, p) == par
Adopted(par, o, p) == IF o = nil THEN par ELSE [par EXCEPT ![o] = p]

\* The side of n on which the comparator puts the payload v, equal ones right.
\* Mutants: equal ones left; the comparator's arguments are exchanged.
WayFromEqualLeft(v, n) == IF v <= value[n] THEN "left" ELSE "right"
WayFromExchanged(v, n) == IF value[n] < v THEN "left" ELSE "right"
WayFrom(v, n) == IF v < value[n] THEN "left" ELSE "right"

\* if( ! c && ! allow_duplicates) return( EEXIST)
\* Mutant: duplicates are let in.
IsTakenNever(v, n) == FALSE
IsTaken(v, n) == v = value[n] /\ ~AllowDuplicates

\* _mulle__rbtree_set_node_marked, for each of the nodes touched
Touched(S) == IF marking THEN marked \cup (S \ {nil}) ELSE marked

\* if( use_dirty) _mulle__rbtree_mark_node_as_dirty( n), for each n of S
\* Mutant: the walk to the top is forgotten.
SoiledNodesOnly(par, S) ==
    IF UseDirty THEN dirty \cup (S \ {nil}) ELSE dirty
Soiled(par, S) ==
    IF UseDirty THEN dirty \cup UNION {Path(par, n) : n \in S} ELSE dirty

\* The links after p is rotated towards side s: its child t on the other side
\* takes its place, and t's subtree b on side s becomes p's.
Turned(s, p) ==
    LET t == child[p][Other(s)]
        b == child[t][s]
        g == parent[p]
    IN  [child  |-> Relinked([child EXCEPT ![p][Other(s)] = b, ![t][s] = p], g, p, t),
         parent |-> [Adopted(parent, b, p) EXCEPT ![t] = g, ![p] = t],
         root   |-> IF g = nil THEN t ELSE root,
         touched |-> {p, t, b, g}]

Rotate(s, p) ==
    LET r == Turned(s, p)
    IN  /\ child'  = r.child
        /\ parent' = r.parent
        /\ root'   = r.root
        /\ marked' = Touched(r.touched)
        /\ dirty'  = Soiled(r.parent, {p})
        /\ rotations' = rotations + 1

\* Returning from a call: the locals are gone.
Return ==
    /\ pc' = "idle"
    /\ arg' = nil /\ x' = nil /\ y' = nil /\ beside' = nil
    /\ side' = "left"
    /\ rotations' = 0

-----------------------------------------------------------------------------
Init ==
    /\ root = nil
    /\ parent = [n \in Ref |-> nil]
    /\ child  = [n \in Ref |-> [s \in Side |-> nil]]
    /\ color  = [n \in Ref |-> IF n = nil THEN "black" ELSE "red"]
    /\ dirty  = {}
    /\ marked = {}
    /\ value  = [n \in Node |-> nil]
    /\ status = [n \in Node |-> "free"]
    /\ marking = UseMarker
    /\ pc = "idle" /\ arg = nil /\ x = nil /\ y = nil /\ beside = nil
    /\ side = "left"
    /\ rval = 0
    /\ rotations = 0

-----------------------------------------------------------------------------
(* Allocation.  mulle_storage hands out any slot that is free; the fields  *)
(* of a slot are reset when it is freed, their content is then unreadable. *)

\* _mulle__rbtree_init_node
NewNode(n, v) ==
    /\ pc = "idle"
    /\ status[n] = "free"
    /\ Cardinality(Detached) < MaxDetached
    /\ status' = [status EXCEPT ![n] = "detached"]
    /\ value'  = [value EXCEPT ![n] = v]
    /\ parent' = [parent EXCEPT ![n] = nil]
    /\ child'  = [child EXCEPT ![n] = [s \in Side |-> nil]]
    /\ color'  = [color EXCEPT ![n] = "red"]
    /\ dirty'  = IF UseDirty THEN dirty \cup {n} ELSE dirty \ {n}
    /\ marked' = marked \ {n}
    /\ UNCHANGED <<root, marking, stack, rval, rotations>>

\* The caller gives back a node that insert_node refused.
FreeNode(n) ==
    /\ pc = "idle"
    /\ status[n] = "detached"
    /\ status' = [status EXCEPT ![n] = "free"]
    /\ value'  = [value EXCEPT ![n] = nil]
    /\ dirty'  = dirty \ {n}
    /\ marked' = marked \ {n}
    /\ UNCHANGED <<root, parent, child, color, marking, stack, rval, rotations>>

-----------------------------------------------------------------------------
(* Insertion: find the place, attach, repair.                              *)

\* A caller who places nodes by position has no comparator: only the first
\* node, which has no neighbour, goes through insert_node.
InsertNode(n) ==
    /\ pc = "idle"
    /\ status[n] = "detached"
    /\ Positional => root = nil
    /\ pc' = "descend"
    /\ arg' = n
    /\ x' = nil
    /\ y' = root
    /\ UNCHANGED <<heap, pool, marking, side, beside, rval, rotations>>

\* y = y->_left or y = y->_right
\* Mutant: the search does not move on.
DeeperNot(s) == y
Deeper(s) == child[y][s]

\* One iteration of the do loop of insert_node.
Descend ==
    /\ pc = "descend"
    /\ y # nil
    /\ ~IsTaken(value[arg], y)
    /\ x' = y
    /\ side' = WayFrom(value[arg], y)
    /\ y' = Deeper(side')
    /\ UNCHANGED <<heap, pool, marking, pc, arg, beside, rval, rotations>>

\* return( EEXIST)
RefuseDuplicate ==
    /\ pc = "descend"
    /\ y # nil
    /\ IsTaken(value[arg], y)
    /\ rval' = EEXIST
    /\ Return
    /\ UNCHANGED <<heap, pool, marking>>

\* insert_node_before_node (s = "left") and insert_node_after_node
InsertBeside(n, m, s) ==
    /\ pc = "idle"
    /\ Positional
    /\ status[n] = "detached"
    /\ status[m] = "linked"
    /\ pc' = IF s = "left" THEN "before" ELSE "after"
    /\ arg' = n
    /\ beside' = m
    /\ x' = m
    /\ side' = s
    /\ y' = child[m][s]
    /\ UNCHANGED <<heap, pool, marking, rval, rotations>>

\* The way the slide turns after its first step.
\* Mutant: it goes on in the direction it started.
SlideStraight == IF pc = "before" THEN "left" ELSE "right"
SlideSide == IF pc = "before" THEN "right" ELSE "left"

\* One iteration of the do loop of insert_node_before_node / _after_node.
Slide ==
    /\ pc \in {"before", "after"}
    /\ y # nil
    /\ x' = y
    /\ side' = SlideSide
    /\ y' = Deeper(side')
    /\ UNCHANGED <<heap, pool, marking, pc, arg, beside, rval, rotations>>

\* if( _mulle_rbnode_is_red( parent)) of attach_node: a fixup is needed
\* Mutant: nothing is repaired.
NeedsRecolourNever == FALSE
NeedsRecolour == x # nil /\ color[x] = "red"

\* _mulle__rbtree_attach_node.  Without a fixup it marks the path dirty and
\* returns; with one, that happens at the end of the fixup.
Attach ==
    /\ pc \in {"descend", "before", "after"}
    /\ y = nil
    /\ parent' = [parent EXCEPT ![arg] = x]
    /\ status' = [status EXCEPT ![arg] = "linked"]
    /\ rval' = 0
    /\ IF x = nil
       THEN /\ root'  = arg
            /\ color' = [color EXCEPT ![arg] = "black"]
            /\ child' = child
       ELSE /\ child' = [child EXCEPT ![x][side] = arg]
            /\ UNCHANGED <<root, color>>
    /\ IF NeedsRecolour
       THEN /\ pc' = "redred"
            /\ x' = arg
            /\ y' = nil /\ side' = "left" /\ beside' = nil
            /\ dirty' = dirty
            /\ UNCHANGED <<arg, rotations>>
       ELSE /\ Return
            /\ dirty' = Soiled(parent', {arg})
    /\ UNCHANGED <<marked, value, marking>>

\* while( x != root && is_red( x->_parent))
\* Mutant: if instead of while.
RedRedOnce == x = arg /\ x # root /\ color[parent[x]] = "red"
RedRedAgain == x # root /\ color[parent[x]] = "red"

\* The half of the loop: x's parent is this child of its grandparent.
\* Mutant: the side of x itself is asked for.
HalfOfX == SlotOf(child, parent[x], x)
Half == SlotOf(child, parent[parent[x]], parent[x])

Uncle == child[parent[parent[x]]][Other(Half)]

\* Case 1: the uncle is red
RecolourUncle ==
    /\ pc = "redred"
    /\ RedRedAgain
    /\ color[Uncle] = "red"
    /\ color' = [color EXCEPT ![parent[x]] = "black",
                              ![parent[parent[x]]] = "red",
                              ![Uncle] = "black"]
    /\ x' = parent[parent[x]]
    /\ UNCHANGED <<root, parent, child, dirty, marked, pool, marking,
                   pc, arg, y, side, beside, rval, rotations>>

\* Case 2: the uncle is black and x an inner grandchild
IsInner == x = child[parent[x]][Other(Half)]

RotateInner ==
    /\ pc = "redred"
    /\ RedRedAgain
    /\ color[Uncle] = "black"
    /\ IsInner
    /\ x' = parent[x]
    /\ Rotate(Half, parent[x])
    /\ pc' = "redred_outer"
    /\ side' = Half
    /\ UNCHANGED <<color, pool, marking, arg, y, beside, rval>>

\* Case 3 on half s, after case 2 or without it
RotateGrandparent(s) ==
    /\ color' = [color EXCEPT ![parent[x]] = "black", ![parent[parent[x]]] = "red"]
    /\ x' = parent[parent[x]]
    /\ Rotate(Other(s), parent[parent[x]])
    /\ pc' = "redred"
    /\ side' = "left"
    /\ UNCHANGED <<pool, marking, arg, y, beside, rval>>

RotateOuter ==
    \/ /\ pc = "redred"
       /\ RedRedAgain
       /\ color[Uncle] = "black"
       /\ ~IsInner
       /\ RotateGrandparent(Half)
    \/ /\ pc = "redred_outer"
       /\ RotateGrandparent(side)

\* The end of the loop, and of attach_node.
RedRedDone ==
    /\ pc = "redred"
    /\ ~RedRedAgain
    /\ color' = [color EXCEPT ![root] = "black"]
    /\ dirty' = Soiled(parent, {arg})
    /\ Return
    /\ UNCHANGED <<root, parent, child, marked, pool, marking, rval>>

-----------------------------------------------------------------------------
(* Removal: choose the node to cut out, unlink, free, repair.              *)

\* Mutants: only the left child is looked at; the search starts on the left.
CutCandidateLeftOnly(n) ==
    IF child[n]["left"] = nil THEN n ELSE child[n]["right"]
CutCandidateOnLeft(n) ==
    IF child[n]["left"] = nil \/ child[n]["right"] = nil
    THEN n ELSE child[n]["left"]

\* The first y: a node with one child at most is cut out itself, otherwise
\* the search for its successor starts in the right subtree.
CutCandidate(n) ==
    IF child[n]["left"] = nil \/ child[n]["right"] = nil
    THEN n ELSE child[n]["right"]

\* _mulle__rbtree_remove_node up to the choice of y
RemoveNode(n) ==
    /\ pc = "idle"
    /\ status[n] = "linked"
    /\ pc' = "successor"
    /\ arg' = n
    /\ y' = CutCandidate(n)
    /\ UNCHANGED <<heap, pool, marking, x, side, beside, rval, rotations>>

\* next_node finds the leftmost node of the right subtree.
Successor ==
    /\ pc = "successor"
    /\ y # arg
    /\ child[y]["left"] # nil
    /\ y' = child[y]["left"]
    /\ UNCHANGED <<heap, pool, marking, pc, arg, x, side, beside, rval, rotations>>

\* x, the child that moves up into y's place
\* Mutant: a left child is forgotten.
HeirOnRight == child[y]["right"]
Heir == IF child[y]["left"] # nil THEN child[y]["left"] ELSE child[y]["right"]

\* fixup = _mulle_rbnode_is_black( y)
\* Mutant: the colour of the node that is removed decides.
NeedsFixupOfArg == color[arg] = "black"
NeedsFixup == color[y] = "black"

\* The node that _mulle__rbtree_free_node returns to the pool.
\* Mutant: the node that was cut out, as when its payload is copied to arg.
FreedY == y
Freed == arg

\* Mutant: the child that moves up is not marked.
TouchedByCutButHeir ==
    {arg, child[arg]["left"], child[arg]["right"], y, parent[y]} \ {Heir}
TouchedByCut ==
    {arg, child[arg]["left"], child[arg]["right"], y, Heir, parent[y]}

\* Mutant: it is not.
SoiledByLossNot == {}

\* With no heir to mark, the branch that lost y is marked from y's old parent.
SoiledByLoss == IF Heir = nil THEN {parent[y]} ELSE {}

\* The tree once y is cut out and, unless it is the node to remove itself,
\* put in the place of that node.
CutOut ==
    LET q == parent[y]
    IN  [parent  |-> [parent EXCEPT ![Heir] = q],
         child   |-> Relinked(child, q, y, Heir),
         root    |-> IF q = nil THEN Heir ELSE root,
         color   |-> color,
         touched |-> TouchedByCut,
         soiled  |-> {parent[arg], Heir}]

\* y adopts the children of arg; as arg's right child it keeps its own, and
\* then the heir has y as its parent and not arg.
Replaced ==
    LET g == parent[arg]
        q == parent[y]
        L == child[arg]["left"]
        R == child[arg]["right"]
        r == IF y = R THEN Heir ELSE R
        cut == CutOut.child
    IN  [parent  |-> [parent EXCEPT ![Heir] = q, ![y] = g, ![L] = y, ![r] = y],
         child   |-> Relinked([cut EXCEPT ![y]["left"] = L, ![y]["right"] = r],
                              g, arg, y),
         root    |-> IF g = nil THEN y ELSE root,
         color   |-> [color EXCEPT ![y] = color[arg]],
         touched |-> CutOut.touched \cup {g},
         soiled  |-> {g, y, Heir} \cup SoiledByLoss]

\* The freed slot is reset.
Unlink ==
    /\ pc = "successor"
    /\ y = arg \/ child[y]["left"] = nil
    /\ LET r == IF y = arg THEN CutOut ELSE Replaced
       IN  /\ root'   = r.root
           /\ parent' = [r.parent EXCEPT ![Freed] = nil]
           /\ child'  = [r.child EXCEPT ![Freed] = [s \in Side |-> nil]]
           /\ color'  = [r.color EXCEPT ![Freed] = "red"]
           /\ marked' = Touched(r.touched) \ {Freed}
           /\ dirty'  = Soiled(r.parent, r.soiled) \ {Freed}
    /\ status' = [status EXCEPT ![Freed] = "free"]
    /\ value'  = [value EXCEPT ![Freed] = nil]
    /\ IF NeedsFixup
       THEN /\ pc' = "blackblack"
            /\ x' = Heir
            /\ arg' = nil /\ y' = nil
            /\ UNCHANGED <<side, beside, rotations>>
       ELSE Return
    /\ UNCHANGED <<marking, rval>>

\* while( x != root && is_black( x))
BlackBlackAgain == x # root /\ color[x] = "black"

\* Mutant: the wrong half.
SiblingIsSelf(s) == child[parent[x]][s]

Sibling(s) == child[parent[x]][Other(s)]

\* x is the left child of its parent: the loop's first half
XSide == SlotOf(child, parent[x], x)

\* The sibling is red: recolour, rotate the parent.
RotateSibling ==
    /\ pc = "blackblack"
    /\ BlackBlackAgain
    /\ color[Sibling(XSide)] = "red"
    /\ color' = [color EXCEPT ![Sibling(XSide)] = "black", ![parent[x]] = "red"]
    /\ Rotate(XSide, parent[x])
    /\ pc' = "nephews"
    /\ side' = XSide
    /\ UNCHANGED <<pool, marking, arg, x, y, beside, rval>>

\* The test of the nephews is reached with half s, with or without the
\* rotation above.
AtNephews(s) ==
    \/ /\ pc = "blackblack"
       /\ BlackBlackAgain
       /\ s = XSide
       /\ color[Sibling(s)] = "black"
    \/ /\ pc = "nephews"
       /\ s = side

\* Mutant of Far: the wrong nephew.
FarIsNear(s) == child[Sibling(s)][s]

Near(s) == child[Sibling(s)][s]
Far(s)  == child[Sibling(s)][Other(s)]

\* Both nephews black: the sibling turns red and x moves up.
RecolourSibling(s) ==
    /\ AtNephews(s)
    /\ color[Near(s)] = "black" /\ color[Far(s)] = "black"
    /\ color' = [color EXCEPT ![Sibling(s)] = "red"]
    /\ x' = parent[x]
    /\ pc' = "blackblack"
    /\ side' = "left"
    /\ UNCHANGED <<root, parent, child, dirty, marked, pool, marking,
                   arg, y, beside, rval, rotations>>

\* Only the near nephew is red: rotate the sibling.
RotateNephew(s) ==
    /\ AtNephews(s)
    /\ color[Near(s)] = "red" /\ color[Far(s)] = "black"
    /\ color' = [color EXCEPT ![Near(s)] = "black", ![Sibling(s)] = "red"]
    /\ Rotate(Other(s), Sibling(s))
    /\ pc' = "outer"
    /\ side' = s
    /\ UNCHANGED <<pool, marking, arg, x, y, beside, rval>>

\* x = a_tree->_root ends the loop.
\* Mutant: it is forgotten.
LoopEnderForgotten == x
LoopEnder == root'

\* The far nephew is red: the last rotation.
RotateParent(s) ==
    /\ \/ AtNephews(s) /\ color[Far(s)] = "red"
       \/ pc = "outer" /\ s = side
    /\ color' = [color EXCEPT ![Sibling(s)] = color[parent[x]],
                              ![parent[x]] = "black",
                              ![Far(s)] = "black"]
    /\ Rotate(s, parent[x])
    /\ x' = LoopEnder
    /\ pc' = "blackblack"
    /\ side' = "left"
    /\ UNCHANGED <<pool, marking, arg, y, beside, rval>>

\* The end of the loop, and of remove_node.
BlackBlackDone ==
    /\ pc = "blackblack"
    /\ ~BlackBlackAgain
    /\ color' = [color EXCEPT ![x] = "black", ![root] = "black"]
    /\ Return
    /\ UNCHANGED <<root, parent, child, dirty, marked, pool, marking, rval>>

-----------------------------------------------------------------------------
(* The flags.                                                              *)

\* Mutant: walk_dirty descends to the left only.
DirtyReachedOnLeft ==
    UNION {S \in SUBSET (dirty \cap Linked) :
              \A n \in S : \/ n = root
                           \/ parent[n] \in S /\ child[parent[n]]["left"] = n}

\* walk_dirty descends from the root, and only through dirty nodes.
DirtyReached ==
    UNION {S \in SUBSET (dirty \cap Linked) :
              \A n \in S : n = root \/ parent[n] \in S}

WalkDirty ==
    /\ pc = "idle"
    /\ UseDirty
    /\ dirty' = dirty \ DirtyReached
    /\ UNCHANGED <<root, parent, child, color, marked, pool, marking, stack,
                   rval, rotations>>

\* _mulle__rbtree_mark_node_as_dirty: the caller has changed the data it keeps
\* in a node of the tree.
MarkNodeAsDirty(n) ==
    /\ pc = "idle"
    /\ UseDirty
    /\ status[n] = "linked"
    /\ dirty' = Soiled(parent, {n})
    /\ UNCHANGED <<root, parent, child, color, marked, pool, marking, stack,
                   rval, rotations>>

EnableMarking ==
    /\ pc = "idle"
    /\ EnablesMarking
    /\ marking' = TRUE
    /\ UNCHANGED <<heap, pool, stack, rval, rotations>>

\* The caller visits and clears a marker.
ClearMarker(n) ==
    /\ pc = "idle"
    /\ n \in marked
    /\ marked' = marked \ {n}
    /\ UNCHANGED <<root, parent, child, color, dirty, pool, marking, stack,
                   rval, rotations>>

-----------------------------------------------------------------------------
\* The calls a client may make, apart from walk_dirty.
NodeCall ==
    \/ \E n \in Node : \/ \E v \in Payload[n] : NewNode(n, v)
                       \/ FreeNode(n)
                       \/ InsertNode(n)
                       \/ \E m \in Node, s \in Side : InsertBeside(n, m, s)
                       \/ RemoveNode(n)
                       \/ ClearMarker(n)
                       \/ MarkNodeAsDirty(n)
    \/ EnableMarking

\* A step of the call that runs.
Continue ==
    \/ Descend \/ RefuseDuplicate \/ Slide \/ Attach
    \/ RecolourUncle \/ RotateInner \/ RotateOuter \/ RedRedDone
    \/ Successor \/ Unlink
    \/ RotateSibling
    \/ \E s \in Side : \/ RecolourSibling(s) \/ RotateNephew(s) \/ RotateParent(s)
    \/ BlackBlackDone

Next == NodeCall \/ WalkDirty \/ Continue

Spec == Init /\ [][Next]_vars

\* A call runs to its end on the caller's thread; nobody has to make one.
FairSpec == Spec /\ WF_vars(Continue)

-----------------------------------------------------------------------------
(* Properties.                                                             *)

\* The variables have their types, an allocated slot has a value, and the
\* locals of a call refer to nodes in the state the call needs: the node to
\* insert is not in the tree yet, the node to remove and y still are.
TypeOK ==
    /\ root \in Ref
    /\ parent \in [Ref -> Ref]
    /\ child \in [Ref -> [Side -> Ref]]
    /\ color \in [Ref -> Color]
    /\ dirty \subseteq Node /\ marked \subseteq Node
    /\ value \in [Node -> Value \cup {nil}]
    /\ status \in [Node -> {"free", "detached", "linked"}]
    /\ \A n \in Node : status[n] = "free" <=> value[n] = nil
    /\ marking \in BOOLEAN
    /\ pc \in Labels
    /\ arg \in Ref /\ x \in Ref /\ y \in Ref /\ beside \in Ref
    /\ side \in Side
    /\ rval \in {0, EEXIST}
    /\ rotations \in Nat
    /\ pc \in {"descend", "before", "after"} => arg \in Detached
    /\ pc \in RedRedLabels => arg \in Linked
    /\ pc = "successor" => arg \in Linked /\ y \in Node

\* Parent and child pointers tell the same story, and no pointer of the tree
\* leads to a slot that is free or was never inserted: whatever a step
\* relinks, it relinks in both directions.
LinksOK ==
    /\ root # nil => root \in Linked /\ parent[root] = nil
    /\ \A n \in Linked, s \in Side :
          child[n][s] # nil => child[n][s] \in Linked /\ parent[child[n][s]] = n
    /\ \A n \in Linked :
          /\ child[n]["left"] = child[n]["right"] => child[n]["left"] = nil
          /\ IF n = root THEN parent[n] = nil
             ELSE parent[n] \in Linked /\ \E s \in Side : child[parent[n]][s] = n

\* The sentinel stays what the algorithms take it for, a black leaf without
\* flags, although remove_node writes its parent pointer and the fixups write
\* colours of siblings and nephews without asking whether they are nil.
SentinelIntact ==
    /\ \A s \in Side : child[nil][s] = nil
    /\ color[nil] = "black"

\* A red node has a black parent and the root is black, but at x while a
\* fixup loop stands at its head: an insertion may have left x red below a red
\* parent, and a removal may have left a red x, which it blackens when it
\* ends, with red neighbours.
NoRedRed ==
    /\ \A n \in Linked :
          color[n] = "red" /\ parent[n] # nil /\ color[parent[n]] = "red"
             => \/ n = x /\ pc \in RedRedLabels
                \/ x \in {n, parent[n]} /\ pc = "blackblack"
    /\ color[root] = "red" => root = x /\ pc \in {"redred", "blackblack"}

\* init_node's result, unattached
IsPristine(n) == /\ parent[n] = nil
                 /\ \A s \in Side : child[n][s] = nil
                 /\ color[n] = "red"

\* What the code asserts, or dereferences unasked, where each loop stands: a
\* rotation has a child to raise, a red parent has a parent, a black node
\* short of one black has a sibling that is not nil, and a node that was never
\* attached is hung where there is nothing yet.
AssertsHold ==
    /\ pc \in {"descend", "before", "after"} /\ y = nil =>
          /\ IF x = nil THEN root = nil ELSE x \in Linked /\ child[x][side] = nil
          /\ IsPristine(arg)
    /\ pc = "redred" /\ RedRedAgain =>
          /\ parent[parent[x]] # nil
          /\ IsInner => child[parent[x]][Other(Half)] # nil
          /\ ~IsInner => child[parent[parent[x]]][Half] # nil
    /\ pc = "redred_outer" =>
          parent[parent[x]] # nil /\ child[parent[parent[x]]][side] # nil
    /\ pc = "blackblack" /\ BlackBlackAgain =>
          parent[x] # nil /\ Sibling(XSide) # nil
    /\ pc \in {"nephews", "outer"} => parent[x] # nil /\ Sibling(side) # nil
    /\ pc = "outer" => Far(side) # nil

\* An insertion rotates at most twice and a removal at most three times, as
\* the table above black_black_fixup says.
RotationBound ==
    /\ pc \in RedRedLabels => rotations <= 2
    /\ pc \in BlackBlackLabels => rotations <= 3

\* A dirty node has a dirty parent, so that walk_dirty, which turns back at
\* clean nodes, finds it; the node being inserted is marked only when its
\* fixup is over.
DirtyPropagates ==
    \A n \in dirty \cap Linked :
        parent[n] \in dirty \/ n = root \/ (n = arg /\ pc \in RedRedLabels)

\* walk_dirty leaves no dirty node in the tree (_mulle__rbtree_assert_clean).
CleanAfterWalk == [][WalkDirty => dirty' \cap Linked = {}]_vars

\* A removal gives back the node it was asked to remove and no other: every
\* other node of the tree stays in it with its value, so that pointers to
\* nodes, which are the handles of the low-level API, stay good.  (A removal
\* that copies the successor's payload would free the successor's node.)
StableHandles ==
    [][\A n \in Linked : n # arg => n \in Linked' /\ value'[n] = value[n]]_vars

\* With marking enabled, every node that a rotation or a removal gives another
\* parent or another child is marked; attaching a new node marks nothing.
MarksTouched ==
    [][marking /\ ~Attach =>
          \A n \in Linked \cap Linked' :
             parent'[n] # parent[n] \/ child'[n] # child[n] => n \in marked']_vars

\* A call comes back.
Termination == [](pc # "idle" => <>(pc = "idle"))

\* Without duplicates no two nodes of the tree have equal keys: whatever was
\* rotated, removed and relinked before, the one path that insert_node looks at
\* goes by the equal key if there is one.
KeysUnique ==
    ~AllowDuplicates /\ ~Positional =>
        \A m, n \in Linked : value[m] = value[n] => m = n

\* insert_node returns -1 for a node that is already in the tree, 0 otherwise
\* (mulle--rbtree.h:833).
ReturnsAsDocumented == rval \in {-1, 0}
=============================================================================
