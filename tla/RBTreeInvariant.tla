-------------------------- MODULE RBTreeInvariant --------------------------
(***************************************************************************)
(* The inductive invariant of RBTree.  Two facts about trees cannot be     *)
(* stated of single nodes: that parent links end at the root, and that all *)
(* paths down have the same number of black nodes.  They are stated by     *)
(* witnesses, a function d that grows downwards and a function h that      *)
(* counts black nodes; the invariant says that such functions exist.  The  *)
(* order is stated likewise, by the values A[n] that may stand below n.    *)
(***************************************************************************)
EXTENDS RBTree

\* A slot the pool handed out stays as init_node left it until attach_node.
DetachedPristine == \A n \in Detached : IsPristine(n)

\* d grows along child links, and from the node to remove to its successor.
Descending(d) ==
    /\ \A n \in Linked, s \in Side : child[n][s] # nil => d[n] < d[child[n][s]]
    /\ pc = "successor" /\ y # arg => d[arg] < d[y]

\* x lacks one black below p on side s while a removal is repaired.
Lacks(p, s) == pc \in BlackBlackLabels /\ p = parent[x]
                  /\ child[p][s] = x /\ child[p][Other(s)] # x

\* What the child of p on side s adds to the black height of p.
Weight(p, s) == (IF color[child[p][s]] = "black" THEN 1 ELSE 0)
                  + (IF Lacks(p, s) THEN 1 ELSE 0)

\* h is the black height: the same along both links of every node.
Balanced(h) ==
    /\ h[nil] = 0
    /\ \A n \in Linked, s \in Side : h[n] = h[child[n][s]] + Weight(n, s)

\* Where x and y stand while an insertion looks for its place.
SearchPlace ==
    pc \in {"descend", "before", "after"} =>
        IF x = nil THEN pc = "descend" /\ y = root
                   ELSE x \in Linked /\ y = child[x][side]

\* Where x stands while an insertion is repaired; after an inner rotation the
\* three nodes in a row and the uncle are what case 3 expects.
RedRedPlace ==
    /\ pc \in RedRedLabels => x \in Linked /\ color[x] = "red"
    /\ pc = "redred_outer" =>
          LET p == parent[x]
              g == parent[p]
          IN  /\ p # nil /\ g # nil
              /\ color[p] = "red"
              /\ child[p][side] = x /\ child[g][side] = p
              /\ color[child[g][Other(side)]] = "black"

\* The node to cut out has one child at most on its left when it is reached.
SuccessorPlace ==
    pc = "successor" =>
        /\ y \in Linked
        /\ IF y = arg
           THEN \E s \in Side : child[arg][s] = nil
           ELSE /\ \A s \in Side : child[arg][s] # nil
                /\ \/ y = child[arg]["right"]
                   \/ /\ parent[y] # nil /\ parent[y] # arg
                      /\ child[parent[y]]["left"] = y

\* Where x stands while a removal is repaired: at the root or on one side, and
\* one side only, of its parent, even when x is the sentinel.
BlackBlackPlace ==
    /\ pc \in BlackBlackLabels =>
          /\ x \in Linked \cup {nil}
          /\ x # root =>
                /\ parent[x] \in Linked
                /\ \E s \in Side : child[parent[x]][s] = x /\ child[parent[x]][Other(s)] # x
    /\ pc \in {"nephews", "outer"} =>
          /\ x # root /\ color[x] = "black"
          /\ child[parent[x]][side] = x
          /\ Sibling(side) # nil /\ color[Sibling(side)] = "black"
    /\ pc = "outer" => color[Far(side)] = "red"

PlaceOK == SearchPlace /\ RedRedPlace /\ SuccessorPlace /\ BlackBlackPlace

\* What the running fixup has rotated: nothing while its loop goes on, for the
\* loops end after the case that rotates.
RotationsSpent ==
    /\ pc \notin RedRedLabels \cup BlackBlackLabels => rotations = 0
    /\ pc = "redred" => rotations <= 2 /\ (RedRedAgain => rotations = 0)
    /\ pc = "redred_outer" => rotations = 1
    /\ pc = "blackblack" => rotations <= 3 /\ (BlackBlackAgain => rotations = 0)
    /\ pc = "nephews" => rotations = 1 /\ color[parent[x]] = "red"
    /\ pc = "outer" => rotations <= 2

\* From n the way to m goes to one side first and from there on to the other, s.
Leads(n, m, s) ==
    /\ n \in Path(parent, m)
    /\ \A k \in Path(parent, m) \ Path(parent, n) :
          child[parent[k]][IF parent[k] = n THEN Other(s) ELSE s] = k

\* The way that a search has come from the root: by the comparator, or from
\* the neighbour or the node to remove to the next node in order.
WayOK ==
    /\ pc = "descend" =>
          /\ Positional => root = nil
          /\ x # nil =>
                /\ side = WayFrom(value[arg], x)
                /\ \A k \in Path(parent, x) \ {root} :
                      child[parent[k]][WayFrom(value[arg], parent[k])] = k
    /\ pc \in {"before", "after"} =>
          /\ beside \in Linked
          /\ Leads(beside, x, SlideSide)
          /\ side = IF x = beside THEN Other(SlideSide) ELSE SlideSide
    /\ pc = "successor" /\ y # arg => Leads(arg, y, "left")

InvariantBy(d, h) ==
    /\ TypeOK
    /\ LinksOK
    /\ SentinelIntact
    /\ DetachedPristine
    /\ NoRedRed
    /\ PlaceOK
    /\ RotationsSpent
    /\ Descending(d)
    /\ Balanced(h)

IInv == \E d \in [Ref -> Nat], h \in [Ref -> Nat] : InvariantBy(d, h)

-----------------------------------------------------------------------------
(* The order, where a comparator and not the caller decides it.            *)

\* The comparator lets v stand on side s of n.
Fits(v, n, s) == IF s = "left" THEN v <= value[n] ELSE v >= value[n]

\* A[n] holds the values that may stand at n or below; it narrows downwards.
Narrowing(A) ==
    /\ \A n \in Linked : value[n] \in A[n]
    /\ \A n \in Linked, s \in Side :
          child[n][s] # nil =>
              \A v \in A[child[n][s]] : v \in A[n] /\ Fits(v, n, s)

\* W is the way from the right child of arg to y, always to the left: y may
\* take the place of arg, and nothing on the way is smaller.
Spine(A, W) ==
    /\ W \subseteq Linked \ {arg, y} /\ parent[arg] \notin W
    /\ child[arg]["right"] \in W \cup {y}
    /\ child[arg]["left"] \notin W \cup {y}
    /\ \A k \in W \cup {y} : parent[k] \in W \cup {arg}
    /\ \A k \in W : child[k]["left"] \in W \cup {y}
    /\ \A v \in A[y] : /\ v \in A[arg] /\ Fits(v, arg, "right")
                       /\ \A k \in W : Fits(v, k, "left")

OrderedBy(A, W) ==
    /\ Narrowing(A)
    /\ pc = "descend" /\ x # nil => value[arg] \in A[x] /\ Fits(value[arg], x, side)
    /\ pc = "successor" /\ y # arg => Spine(A, W)

\* Where equal keys may be, the search for arg's place has not left them aside.
DuplicatesAhead ==
    pc = "descend" /\ ~AllowDuplicates =>
        \A m \in Linked : value[m] = value[arg] => y \in Path(parent, m)

OrderInv ==
    ~Positional =>
        /\ pc \notin {"before", "after"}
        /\ \E A \in [Ref -> SUBSET Int], W \in SUBSET Node : OrderedBy(A, W)
        /\ DuplicatesAhead
        /\ KeysUnique
=============================================================================
