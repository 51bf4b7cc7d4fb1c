---------------------------- MODULE RBEnumerator ----------------------------
(***************************************************************************)
(* Traversals of the container while their client adds and removes: the    *)
(* two enumerators of mulle-rbtree.h, which have moved on when they hand   *)
(* out a value, and mulle_rbtree_walk and its kin, which stand on the node *)
(* they hand to the callback and move on after it has returned.            *)
(***************************************************************************)
EXTENDS RBContainer, RBTreeShape

VARIABLES
    mode,     \* "off", "for", "walk", "callback": inside the callback of a walk
    toward,   \* "right" for the forward traversals, "left" for the reverse ones
    rover,    \* rover->_node, or the walk's a_node
    handed,   \* history: the nodes of the tree that were handed out
    stayed    \* history: the nodes that have been there all along

enumVars  == <<allVars, mode, toward, rover, handed, stayed>>

EnumInit ==
    /\ ContainerInit
    /\ mode = "off" /\ toward = "right" /\ rover = nil
    /\ handed = {} /\ stayed = {}

-----------------------------------------------------------------------------
\* The first node of a traversal.
Start(s) == Outermost(root, Other(s))

\* The node after the one the traversal stands on.
\* Mutant: a node with a subtree ahead is left through its parent.
StepClimbing(n) == Climb(n, toward)
Step(n) == Neighbour(n, toward)

\* enumerate, reverseenumerate ("for"), walk, walk_reverse ("walk")
Begin(m, s) ==
    /\ op = "none" /\ mode = "off"
    /\ mode' = m
    /\ toward' = s
    /\ rover' = Start(s)
    /\ handed' = {}
    /\ stayed' = Linked

\* enumerator_next returns 1: the value of the node is handed out, and the
\* rover moves on before the client sees it.
ForNext ==
    /\ op = "none" /\ mode = "for"
    /\ rover # nil
    /\ handed' = handed \cup {rover}
    /\ rover' = Step(rover)
    /\ UNCHANGED <<mode, toward, stayed>>

\* The walk calls the callback with the node it stands on.
WalkCalls ==
    /\ mode = "walk"
    /\ rover # nil
    /\ handed' = handed \cup {rover}
    /\ mode' = "callback"
    /\ UNCHANGED <<toward, rover, stayed>>

\* The callback returns 1: the walk goes on from where the node is now.
WalkGoesOn ==
    /\ op = "none" /\ mode = "callback"
    /\ rover' = Step(rover)
    /\ mode' = "walk"
    /\ UNCHANGED <<toward, handed, stayed>>

\* enumerator_next returns 0 at the sentinel, the walk ends there or when the
\* callback returns 0.
End ==
    /\ op = "none"
    /\ \/ mode \in {"for", "walk"} /\ rover = nil
       \/ mode = "callback"
    /\ mode' = "off" /\ toward' = "right" /\ rover' = nil
    /\ handed' = {} /\ stayed' = {}

Traverse ==
    /\ \/ \E m \in {"for", "walk"}, s \in Side : Begin(m, s)
       \/ ForNext \/ WalkCalls \/ WalkGoesOn \/ End
    /\ UNCHANGED allVars

\* What the client may do in the body of the loop or in the callback: add
\* anything and remove anything but the node at which the traversal stands, by
\* node, or by a value other than that node's.  So in a for loop it may remove
\* what it has just been given, and in a callback what comes next.
ClientCall ==
    /\ mode # "walk"
    /\ \/ \E n \in Node : \E v \in Payload[n] : Add(n, v)
       \/ \E k \in Value : Search("remove", k) /\ k # NodeValue(rover)
       \/ \E n \in Node : RemoveHeldNode(n) /\ n # rover

ContainerStep ==
    /\ ClientCall \/ Proceed
    /\ handed' = handed \cap Linked'
    /\ stayed' = stayed \cap Linked'
    /\ UNCHANGED <<mode, toward, rover>>

EnumNext == Traverse \/ ContainerStep

EnumSpec == EnumInit /\ [][EnumNext]_enumVars

-----------------------------------------------------------------------------
(* Properties.                                                             *)

\* The traversal never stands on a node that was given back to the pool,
\* whatever else is removed from under it and however the nodes around it are
\* rotated: its next step reads the links of a node of the tree.
RoverInTree == rover \in Linked \cup {nil}

\* The traversal, which goes toward this side, comes by m before it is at n.
Before(m, n) ==
    \/ n = nil
    \/ \E i, j \in DOMAIN InOrder :
          /\ InOrder[i] = m /\ InOrder[j] = n
          /\ IF toward = "right" THEN i < j ELSE i > j

\* Each node that is there all along is handed out once, in order, and none of
\* the others twice: what has been handed out lies behind the traversal, and of
\* what lies behind it only later additions have not been handed out.
NoneSkippedNoneTwice ==
    mode # "off" =>
        LET passed(m) == Before(m, rover) \/ (mode = "callback" /\ m = rover)
        IN  /\ \A m \in handed : passed(m)
            /\ \A m \in stayed : passed(m) => m \in handed
=============================================================================
