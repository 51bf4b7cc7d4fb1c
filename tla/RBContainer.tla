---------------------------- MODULE RBContainer ----------------------------
(***************************************************************************)
(* The container mulle_rbtree (src/mulle-rbtree.[ch]): the tree of RBTree  *)
(* together with the values it retains through the value callbacks.  Its   *)
(* calls drive the tree through the low-level calls and nothing else; op   *)
(* says how far the running one has come.                                  *)
(***************************************************************************)
EXTENDS RBQueries

CONSTANTS
    Owned,      \* the callbacks retain and release (else they do nothing)
    UseExtra    \* mulle_rbtree_option_use_extra: the value is copied into the node

ASSUME PoolAssumption     == IsFiniteSet(Node) /\ MaxDetached >= 1
ASSUME CallbackAssumption == Owned \in BOOLEAN /\ UseExtra \in BOOLEAN
ASSUME KeyedAssumption    == ~Positional   \* add is given a comparator, no position

VARIABLES
    op,         \* how far the running call has come; "none" between calls
    wanted,     \* the call a search is made for: "find" or "remove"
    key,        \* the value it was given
    at,         \* the node it creates, searches at, removes or releases
    result,     \* what the last call returned
    retained    \* for each value, the retains without a release yet

allVars == <<vars, op, wanted, key, at, result, retained>>

ENOENT == 2   \* errno.h

Ops == {"none", "new", "insert", "search", "release", "unlink", "remove",
        "walk", "done", "closed"}

-----------------------------------------------------------------------------
\* (*a_tree->callback.retain)( value)
Retained(v) == IF Owned THEN [retained EXCEPT ![v] = @ + 1] ELSE retained

\* (*a_tree->callback.release)( value) of the value that add retained
Released(v) == IF Owned THEN [retained EXCEPT ![v] = @ - 1] ELSE retained

\* The release of get_node_value( node).  With the extra option that is an
\* address inside the node, which nobody has retained.
\* Mutant: the release is left out.
ReleasedNodeNot(n) == retained
ReleasedNode(n) == IF UseExtra THEN retained ELSE Released(value[n])

Answer(r) ==
    /\ op' = "none"
    /\ wanted' = "find" /\ key' = nil /\ at' = nil
    /\ result' = r

ContainerInit ==
    /\ Init
    /\ op = "none" /\ wanted = "find" /\ key = nil /\ at = nil
    /\ result = 0
    /\ retained = [v \in Value |-> 0]

-----------------------------------------------------------------------------
(* mulle_rbtree_add                                                        *)

\* The value is retained and put into a new node before it is known whether
\* the tree will take it.
Add(n, v) ==
    /\ op = "none"
    /\ retained' = Retained(v)
    /\ NewNode(n, v)
    /\ op' = "new"
    /\ key' = v
    /\ at' = n
    /\ UNCHANGED <<wanted, result>>

AddInserts ==
    /\ op = "new"
    /\ InsertNode(at)
    /\ op' = "insert"
    /\ UNCHANGED <<wanted, key, at, result, retained>>

\* What a refused value leaves behind.
\* Mutant: only the node is given back.
ReleasedByRefusalNot == retained
ReleasedByRefusal == Released(key)

\* if( rval): the value is released and the node freed
AddRefused ==
    /\ op = "insert" /\ pc = "idle"
    /\ rval # 0
    /\ retained' = ReleasedByRefusal
    /\ FreeNode(at)
    /\ op' = "walk"
    /\ result' = rval
    /\ UNCHANGED <<wanted, key, at>>

AddTaken ==
    /\ op = "insert" /\ pc = "idle"
    /\ rval = 0
    /\ op' = "walk"
    /\ result' = rval
    /\ UNCHANGED <<vars, wanted, key, at, retained>>

-----------------------------------------------------------------------------
(* mulle_rbtree_find, mulle_rbtree_remove, mulle_rbtree_remove_node        *)

\* find_node starts at the root.
Search(what, k) ==
    /\ op = "none"
    /\ op' = "search"
    /\ wanted' = what
    /\ key' = k
    /\ at' = root
    /\ UNCHANGED <<vars, result, retained>>

\* One iteration of the loop of find_node.
SearchOn ==
    /\ op = "search"
    /\ at # nil /\ value[at] # key
    /\ at' = child[at][WayFrom(key, at)]
    /\ UNCHANGED <<vars, op, wanted, key, result, retained>>

\* find returns the node's value, remove goes on to remove_node.
SearchHit ==
    /\ op = "search"
    /\ at # nil /\ value[at] = key
    /\ IF wanted = "find"
       THEN Answer(NodeValue(at))
       ELSE op' = "release" /\ UNCHANGED <<wanted, key, at, result>>
    /\ UNCHANGED <<vars, retained>>

\* What remove returns for a key that is not there.
\* Mutant: success, as before the release that introduced ENOENT.
AbsentSilently == 0
Absent == ENOENT

\* The sentinel's value is NULL.
SearchMiss ==
    /\ op = "search"
    /\ at = nil
    /\ Answer(IF wanted = "find" THEN NodeValue(at) ELSE Absent)
    /\ UNCHANGED <<vars, retained>>

\* remove_node of a node the caller holds
RemoveHeldNode(n) ==
    /\ op = "none"
    /\ status[n] = "linked"
    /\ op' = "release"
    /\ wanted' = "remove"
    /\ key' = value[n]
    /\ at' = n
    /\ UNCHANGED <<vars, result, retained>>

\* The value is released while its node is still in the tree; the way up from
\* the node is marked before that way is lost.
RemoveReleases ==
    /\ op = "release"
    /\ retained' = ReleasedNode(at)
    /\ IF UseDirty THEN MarkNodeAsDirty(at) ELSE UNCHANGED vars
    /\ op' = "unlink"
    /\ UNCHANGED <<wanted, key, at, result>>

RemoveUnlinks ==
    /\ op = "unlink"
    /\ RemoveNode(at)
    /\ op' = "remove"
    /\ UNCHANGED <<wanted, key, at, result, retained>>

RemoveDone ==
    /\ op = "remove" /\ pc = "idle"
    /\ op' = "walk"
    /\ result' = 0
    /\ UNCHANGED <<vars, wanted, key, at, retained>>

-----------------------------------------------------------------------------
\* if( use_dirty) walk_dirty, at the end of remove_node and of add, also when
\* the value was refused
\* Mutant: add and remove leave the tree as it is.
WalkNot == UNCHANGED vars
Walk == IF UseDirty THEN WalkDirty ELSE UNCHANGED vars

WalkAndReturn ==
    /\ op = "walk"
    /\ Walk
    /\ Answer(result)
    /\ UNCHANGED retained

-----------------------------------------------------------------------------
(* mulle_rbtree_done                                                       *)

\* if( releases( callback)), from the leftmost node on
Done ==
    /\ op = "none"
    /\ op' = "done"
    /\ at' = IF Owned THEN Outermost(root, "left") ELSE nil
    /\ UNCHANGED <<vars, wanted, key, result, retained>>

\* Mutant: the next node is looked for below only.
NextToReleaseBelow == Outermost(child[at]["right"], "left")
NextToRelease == Neighbour(at, "right")

DoneReleases ==
    /\ op = "done"
    /\ at # nil
    /\ retained' = ReleasedNode(at)
    /\ at' = NextToRelease
    /\ UNCHANGED <<vars, op, wanted, key, result>>

\* mulle_storage_done: the nodes are gone, the tree may not be used again.
DoneCloses ==
    /\ op = "done"
    /\ at = nil
    /\ op' = "closed"
    /\ UNCHANGED <<vars, wanted, key, at, result, retained>>

-----------------------------------------------------------------------------
Call ==
    \/ \E n \in Node : \E v \in Payload[n] : Add(n, v)
    \/ \E what \in {"find", "remove"}, k \in Value : Search(what, k)
    \/ \E n \in Node : RemoveHeldNode(n)
    \/ Done

\* A low-level call that runs is on the stack of a container call.
LowLevel ==
    /\ op \in {"insert", "remove"}
    /\ Continue
    /\ UNCHANGED <<op, wanted, key, at, result, retained>>

Proceed ==
    \/ AddInserts \/ AddRefused \/ AddTaken
    \/ SearchOn \/ SearchHit \/ SearchMiss
    \/ RemoveReleases \/ RemoveUnlinks \/ RemoveDone
    \/ WalkAndReturn
    \/ DoneReleases \/ DoneCloses
    \/ LowLevel

Closed == op = "closed" /\ UNCHANGED allVars

ContainerNext == Call \/ Proceed \/ Closed

ContainerSpec == ContainerInit /\ [][ContainerNext]_allVars

\* A call that has begun goes on, on its caller's thread.
FairContainerSpec == ContainerSpec /\ WF_allVars(Proceed)

-----------------------------------------------------------------------------
(* Properties.                                                             *)

\* The running call works at a node in the state it needs: add's new node has
\* the value until it is given back, a search goes from node to node of the
\* tree, the node to remove is in the tree until it is unlinked and is then
\* the one in the pool.
CallOK ==
    /\ op \notin {"insert", "remove"} => pc = "idle"
    /\ op \in {"new", "insert"} => /\ at \in Node
                                  /\ status[at] # "free"
                                  /\ value[at] = key
    /\ op = "insert" => pc \in {"idle", "descend"} \cup RedRedLabels
    /\ op = "search" => at \in Linked \cup {nil}
    /\ op \in {"release", "unlink"} => at \in Linked
    /\ op = "remove" => /\ pc \in {"idle", "successor"} \cup BlackBlackLabels
                       /\ at \in Node
                       /\ IF pc = "successor" THEN at = arg
                          ELSE status[at] = "free"

\* Types, and the node of the running call.
ContainerTypeOK ==
    /\ op \in Ops
    /\ wanted \in {"find", "remove"}
    /\ key \in Value \cup {nil}
    /\ op # "done" => at \in Ref
    /\ retained \in [Value -> Int]
    /\ CallOK

\* The node whose value is released already although it is still in the tree.
Forsaken ==
    IF op = "unlink" \/ (op = "remove" /\ status[at] = "linked") THEN {at} ELSE {}

Holding(v) == {n \in Node : status[n] # "free" /\ value[n] = v}

\* Of a value that nodes hold: one retain for each of them.  With the extra
\* option nothing ever releases what add has retained, unless it refuses.
Accounted(retains, holders) ==
    IF UseExtra THEN retains >= holders ELSE retains = holders

\* A value is retained once for each node that holds it, in the tree or on its
\* way there, and otherwise not at all: a refused one is given back, a removed
\* one is released once, and it is released no earlier than the last search or
\* walk that hands it to a callback.  With the extra option a value that is
\* held has no retain too few; there may be retains that no node is left for.
RetainedOncePerNode ==
    Owned /\ op \notin {"done", "closed"} =>
        \A v \in Value : Accounted(retained[v], Cardinality(Holding(v) \ Forsaken))

\* After mulle_rbtree_done all values have been released, by any tree
\* (asset/dox/api/toc/index.md:211).
DoneReleasesAll ==
    op = "closed" => \A v \in Value : retained[v] = 0

\* add and remove leave no dirty node in the tree, also when a value is refused.
CleanBetweenCalls == op = "none" => dirty \cap Linked = {}
=============================================================================
