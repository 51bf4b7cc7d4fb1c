# Verification of mulle-rbtree

TLA+ models of the red-black tree in `src/src`, the TLC runs that check them on
small trees, and theorems that TLAPS proves for trees of any size.

## The system

mulle-rbtree is a C library in two layers. It has no threads of its own and
asks its callers to lock ("Not thread-safe", `asset/dox/api/toc/index.md`), so
what is hard about it is not concurrency. It is a heap of nodes linked in three
directions that every call takes through states in which several of the
invariants are broken at once, and the long histories of calls in which a link
or a flag that one call left wrong is noticed by another.

| component | source | state | operations |
|---|---|---|---|
| low-level tree `mulle__rbtree` | `mulle--rbtree.[ch]` | root, an embedded sentinel `_nil`, per node parent / left / right, colour | insert by comparator, insert before / after a node, remove, the two fixups and the rotations under them |
| dirty flag | same | a bit in `_color` of each node | set on a path to the root by each change, consumed by `walk_dirty` children first |
| marker flag | same | a bit in `_color`, an option | set on each node that a rotation or removal relinks; enabled at any time; cleared by the caller |
| queries | `mulle--rbtree.h` | none | find, find equal or greater, next / previous, leftmost / rightmost, walk, count |
| container `mulle_rbtree` | `mulle-rbtree.[ch]` | the tree, comparator, value callbacks, dirty callback | add (retain, insert, or release and free), remove (find, release, remove), done (release all) |
| enumerators | `mulle-rbtree.h` | tree and next node | next, which hands out a value after it has advanced |
| configuration, layout | `mulle--rbtree.c`, `mulle-rbtree.c` | element size, bucket size, options | init_with_config |
| node pool, value callbacks | mulle-storage, mulle-container (not in this repository) | free slots | malloc, free; retain, release |

How they interact: the container calls the low-level tree, which calls back the
comparator during a search and the dirty callback during a walk; the caller of
the low-level tree allocates a node from the pool, hands it to an insertion,
gets it back if that is refused, and loses it to a removal. The nodes are the
caller's handles: a removal must not invalidate any but the one it removes.

What makes each correct:

* the tree: the links form one tree that agrees in both directions; it is in
  order; no red node has a red child; all paths have as many black nodes; the
  calls end and what they dereference is there, although the shared sentinel is
  written to;
* the dirty flag: it reaches up to the root, and covers every node whose
  subtree has changed since the last walk;
* the marker: no relinked node is left out;
* the calls as a caller sees them: a sequence of nodes that each call changes
  in one place;
* queries: next and previous follow the order; a search finds a node with its
  key if there is one; a range search ends at the first node at or above its
  key, or at any one of several that have it;
* container: every value in it is retained once, every other not at all
  (with the extra option, see Findings, at least once);
* enumerators and walks: each value once, in order, whatever their client adds
  and removes meanwhile, except the node the traversal stands on;
* configuration: no size or capacity wraps, a value that fits is copied whole.

`PROJECT.json` lists the hazards behind these, each at its line.

## The modules

| module | what it is | builds on |
|---|---|---|
| `RBTree` | the low-level tree, step by step | |
| `RBTreeInvariant` | its inductive invariant | `RBTree` |
| `RBTreeShape` | the whole-tree view, by recursive functions | `RBTreeInvariant` |
| `OrderedNodes` | what the low-level calls promise: a sequence of nodes | |
| `RBTreeRefinement` | `RBTree` implements `OrderedNodes` | `RBTreeShape`, `OrderedNodes` |
| `RBQueries` | find, equal or greater, next / previous, outermost, count | `RBTree` |
| `RBQueriesShape` | what they answer, against the in-order | `RBQueries`, `RBTreeShape` |
| `RBAggregate` | a client of `walk_dirty` that keeps subtree sizes | `RBTreeShape` |
| `RBContainer` | `mulle_rbtree`: add, find, remove, done | `RBQueries` |
| `ValueBag` | what it promises: a bag of values | |
| `RBContainerRefinement` | `RBContainer` implements `ValueBag` | `RBContainer`, `ValueBag` |
| `RBEnumerator` | enumerators and walks while their client adds and removes | `RBContainer`, `RBTreeShape` |
| `RBConfig` | the initializers, the sizes they derive, the copy of a value | |
| `MC...` | instances for TLC | |
| `...Proofs` | theorems and their proofs, see below | |

**RBTree** is the low-level tree. A step is one iteration of one of the C
loops, or the straight-line code between two loops, so that the invariants are
stated of the states in the middle of calls as well. `pc` says which loop runs
and `arg`, `x`, `y`, `side`, `beside` are its locals:

| `pc` | C code | actions |
|---|---|---|
| `idle` | between calls | `NewNode`, `FreeNode`, `InsertNode`, `InsertBeside`, `RemoveNode`, `MarkNodeAsDirty`, `WalkDirty`, `EnableMarking`, `ClearMarker` |
| `descend` | the loop of `insert_node` | `Descend`, `RefuseDuplicate`, `Attach` |
| `before`, `after` | the loops of `insert_node_before_node` / `_after_node` | `Slide`, `Attach` |
| `redred` | the head of `red_red_fixup` | `RecolourUncle`, `RotateInner`, `RotateOuter`, `RedRedDone` |
| `redred_outer` | its case 3 after case 2 | `RotateOuter` |
| `successor` | `next_node` inside `remove_node` | `Successor`, `Unlink` |
| `blackblack` | the head of `black_black_fixup` | `RotateSibling`, `RecolourSibling`, `RotateNephew`, `RotateParent`, `BlackBlackDone` |
| `nephews`, `outer` | its later cases, after a rotation | `RecolourSibling`, `RotateNephew`, `RotateParent` |

The left and right halves that the C code writes out twice are one action with
a side as parameter (both halves were compared line by line). `nil` is the sentinel:
its parent pointer, children and colour are state like those of any node,
because `remove_node` and the fixups do write them. `dirty` and `marked` are
the sets of nodes that have the bit. `status` says whether a slot is free in
the pool, allocated and detached, or in the tree; a freed slot is reset, its
content being unreadable. Payloads are integers under `<`; the options are
constants, apart from the marker, which can be enabled later. `rotations`
counts the rotations of the running fixup and is history only.

The helpers that each stand for one idea of the code (`IsInner`, `Heir`,
`CutCandidate`, `Freed`, ...) are preceded by the plausible bug that the
properties were tried against.

**RBTreeInvariant** states the inductive invariant `IInv`, by the functions whose
existence makes it local: a depth `d` that grows along child links, and a black
height `h` that is the same along both links of every node. Its other parts say
where `x`, `y` and `side` stand at each `pc` (`PlaceOK`) and how many rotations
the running fixup can have made (`RotationsSpent`). `OrderInv` states the order
in the same manner, for trees that a comparator fills: `A[n]` is the room of
node `n`, the set of values that may stand at `n` or below, and rooms narrow
along child links as the comparator says. While a removal looks for the
successor, `W` is the way from the argument's right child down to `y`
(`Spine`); while an insertion descends, a node with the same key, if there is
one, lies below (`DuplicatesAhead`).

**RBTreeShape** defines the whole-tree view by recursion (the in-order sequence
that `walk` visits, heights) and the properties that need it. Its
`InductiveInvariant` and `InductiveOrder` are `IInv` and `OrderInv` with the
witnesses computed, so that TLC can check them.

**OrderedNodes** is the abstract specification of the low-level tree: a
sequence of nodes, calls that are requested, take effect in one step or are
refused, may settle, and return. No tree, no colours. **RBTreeRefinement** maps
`RBTree` to it: the in-order is the sequence, `Attach` and `Unlink` take effect,
every fixup step stutters.

**RBQueries** has the loops that only read, as recursive functions of the links;
what the code writes out for both directions is one operator with a side. The
payload and the extra variant of a query differ in the address that is compared
and are one operator too. **RBQueriesShape** says what they answer. A caller
asks them between two calls, `remove_node` takes `next_node` in the middle of
one; that the answers are right is stated of every step. `SearchStartsRange` is
what `mulle--rbtree.h:584` asks of a range query: from the node it gets, a
caller who steps back over equal keys and then goes on misses none.

**RBAggregate** composes the tree with a client of `walk_dirty`, a subtree size
kept in each node as `mulle--rbtree.h:588` recommends for order-statistic trees.
It is what the dirty flag is for, so it says when the flag is right.

**RBContainer** composes the tree with the values that `mulle_rbtree` retains
through its callbacks. `op` says how far the running call has come, `at` is the
node it works at, and every step in between is one of `RBTree`'s own actions or
leaves the tree alone:

| call | actions |
|---|---|
| `_mulle_rbtree_add` | `Add` (retain, `new_node`), `AddInserts`, then `AddTaken` or `AddRefused` (release, `free_node`), `WalkAndReturn` |
| `_mulle_rbtree_find` | `Search`, `SearchOn`, `SearchHit` / `SearchMiss` |
| `_mulle_rbtree_remove` | the same search, then as `remove_node`; or `ENOENT` |
| `_mulle_rbtree_remove_node` | `RemoveHeldNode`, `RemoveReleases` (release, `mark_node_as_dirty`), `RemoveUnlinks`, `RemoveDone`, `WalkAndReturn` |
| `_mulle_rbtree_done` | `Done`, `DoneReleases`, `DoneCloses` |

`retained` counts, for each value, the retains that no release has answered
yet. With the extra option (`UseExtra`) a node's value is the address of its
copy, which nobody has retained; `RetainedOncePerNode` then says only that no
retain is missing. **ValueBag** is the abstract specification:
how many times each value is in, and what a call answers.

**RBEnumerator** puts a traversal on top. An enumerator has moved on before its
client sees the value; a walk stands on the node it hands to the callback and
moves on afterwards. Between two steps, or inside the callback, the client makes
any calls of the container, interleaved with their low-level steps, except a
removal of the node on which the traversal stands.

**RBConfig** computes sizes: the element size from `node_extra`, the clamp of
the capacity to an unsigned short, the options that the initializers pass on,
and how many bytes of a value `init_node` keeps.

### Modules of proofs

| module | on | proves |
|---|---|---|
| `RBTreeProofs` | `RBTreeInvariant` | types, that handles stay good, and what a rotation does to links, depths, colours and black heights |
| `RBTreeFixupProofs` | `RBTreeProofs` | that each step that changes the tree keeps the invariant: the fixups, `attach_node`, `remove_node`'s relinking with and without a successor |
| `RBTreeInvariantProofs` | `RBTreeFixupProofs` | the invariant and what follows from it; the flags; the order; where searches and slides come from |
| `RBTreeShapeProofs` | `RBTreeShape`, `RBTreeInvariantProofs` | the whole-tree view: one tree, sorted, balanced, low; that calls end |
| `RBTreeRefinementProofs` | `RBTreeRefinement`, `RBTreeShapeProofs` | that the tree implements `OrderedNodes` |
| `RBContainerProofs` | `RBContainerRefinement`, `RBTreeInvariantProofs` | the container, and that it implements `ValueBag` |
| `RBTraversalProofs` | the two above, `RBQueriesShape`, `RBEnumerator`, `RBAggregate` | the queries, `done`, the traversals, the client of `walk_dirty` |
| `RBConfigProofs` | `RBConfig` | the configuration |

## The runs

| run | instance | what it shows |
|---|---|---|
| `keys` | 8 keys in any order of insertion and removal; 9 slots grown in 4 orders, then drained in any | links, colours, order, black heights, rotations and the inductive invariant, at every step inside the calls; each step brings its call closer to its end; handles stay good |
| `duplicates` | 6 slots, up to 4 of them with equal keys, fair | refines `OrderedNodes`, duplicates in order of insertion; every call ends; all queries answer as the in-order says, after every step of a call too |
| `unique` | 5 slots, 4 values, 2 detached nodes, dirty option | refines `OrderedNodes`, which refuses exactly the keys held; no key twice; the invariant of the order |
| `positional` | 6 interchangeable slots, marking enabled and cleared at any time | refines `OrderedNodes`: before / after means adjacent; relinked nodes are marked |
| `aggregate` | 5 keys in any order or 7 in 4 orders, walks and `mark_node_as_dirty` at any time | flags reach the root; a walk cleans the tree; subtree sizes of clean nodes are right |
| `set` | container of 5 slots, 4 values, no duplicates, dirty option, fair | refines `ValueBag`; a retain for each node that holds a value; `done` releases all; calls leave no dirty node |
| `bag` | container of 5 slots, 2 values, duplicates, fair | refines `ValueBag` and balances its retains with equal values too, of which a removal takes one |
| `enumerate` | container of 4 slots, equal values possible, both directions of enumerators and walks | a traversal stays in the tree, skips and repeats nothing while its client adds and removes |
| `config` | extras of 0 to 40 bytes, capacities around 2^16 | the bucket serves the request; nodes do not overlap; a value that fits is kept whole |
| `eexist`, `extra`, `documented_extra` | as small as possible | violated: see Findings |

Bounds. `Node` is the pool, `MaxDetached` bounds the nodes a caller holds
outside the tree, `Payload` what it may put in which slot. In `keys` each key
lives in one slot: slots are interchangeable as nothing but the links tells
them apart, so this is every tree and every history up to renaming. Eight nodes
give every case of both fixups on both sides, with the removal fixup climbing
two levels and an insertion fixup climbing once. An insertion that recolours,
climbs and then rotates below a grandparent that is not the root takes nine:
the second family of keys is there for it (`FreeOrGrowThenDrain`), grown in one
of four orders, chosen so that the second-level rotation is each of the four
(outer, inner) x (left, right) cases, and drained in any. `aggregate` has the
same two families. The container runs need few slots, as what they add to the
tree is the order of retains, releases, walks and answers; five slots still
rotate in both fixups. `PinnedButLast` gives every set of values and one slot
for a value that is there already; `TwoOfEach` has up to three equal values.
`positional` uses slot symmetry, sound as any slot may hold the one value. In
`config` `Word` is 8 bytes and `USHRT_MAX` that of the platform, unscaled.

`EnablesMarking` is false in the runs that are not about marks: marks multiply
the states and no other variable depends on them. Each property of each passing
run has been tried against a bug in the code, named next to the definition that
the bug changes; TLC finds every one.

Fairness. `WF_vars(Continue)` in `FairSpec` and `WF_allVars(Proceed)` in
`FairContainerSpec` say that a call that has begun goes on: the library runs on
its caller's thread and blocks on nothing. No fairness is assumed of callers: no
call need ever be made. All runs check deadlock; a caller can always do
something between calls, and a closed container stutters (`Closed`).

## Findings

* `insert_node` answers a duplicate with `EEXIST` (`mulle--rbtree.c:1007`). Its
  header comment (`mulle--rbtree.h:833`) and the API documentation
  (`index.md:151`) say -1. Run `eexist` shows it in a few steps.
* With `mulle_rbtree_option_use_extra` and owning callbacks,
  `_mulle_rbtree_add` retains the value it is given, but removal and `done`
  release `_mulle__rbtree_get_node_value`, the address of the copy inside the
  node (`mulle-rbtree.c:114`, `:174`). The value is never released, against
  `mulle-rbtree.h:51` and `index.md:211`. Run `extra`.
* The extra area begins at the payload pointer and is `node_extra` bytes long
  (`mulle--rbtree.c:124`). `index.md:395` and `extra-test.c:50` subtract the
  size of a pointer, so the last bytes of the structure are not kept. Run
  `documented_extra`.

Noticed while modelling, and no property of its own: `index.md:424-427` warns that removing
the value an enumerator has just handed out corrupts the enumeration. In the
code the rover has already advanced, so that this is safe (`enumerate` does
it); what is not safe is to remove the node on which the rover stands, which
with equal values a removal by value may pick. A callback of a walk must not
remove the node it was given. Also, with the extra option `init_node` copies
the extra area as the pool sees it, which may be longer than `node_extra`
because of alignment, so it may read beyond a value of that size.

## What is proved

Every safety property that the passing runs check, for every pool, value set
and combination of options, from the assumptions next to the constants: the
sentinel is no slot and no value, values are integers, the options are Boolean;
for the container also that the pool is finite (`PoolAssumption`),
`CallbackAssumption`, and that a comparator decides the place of a value
(`KeyedAssumption`); for the configuration that an unsigned short holds at
least 65535 (`LimitAssumption`) and that sizes are numbers. Four theorems state
a condition of their own, because the property is false without it:

* `SearchesFind` and `RangesStart` want `~Positional`, a tree that a comparator
  has ordered;
* `DoneIsComplete` excludes `Owned /\ UseExtra`, the finding of run `extra`;
* `CleanIsFresh` wants `UseDirty`, without which no flag is set.

A fifth has its condition inside the property: `RetainedOncePerNode`, and so
`RetentionBalanced`, speaks of callbacks that retain and release (`Owned`), until
`done` begins. It says exactly once per node without the extra option and at
least once with it, where exactly once is false (run `extra`). As that leak makes
`retained` grow for ever, the second half is proved but in no run.

The tree:

* `TypeCorrect`: `Spec => []TypeOK`. `TypeOK` is inductive as it stands because
  it also says what the locals of a running call refer to; `StepType` has one
  step per action, on lemmas about the link updates (`RelinkedType`,
  `AdoptedType`, `RotateType`, `CutOutType`, `ReplacedType`).
* `HandlesAreStable`: `Spec => StableHandles`. No step takes a node out of the
  tree, or changes its value, except the one the running call was asked to
  remove.
* `InvariantHolds`: `Spec => []IInv`, and from it `LinksAgree` (`[]LinksOK`),
  `SentinelStays` (`[]SentinelIntact`), `ColoursHold` (`[]NoRedRed`),
  `AssertionsHold` (`[]AssertsHold`), `RotationsBounded` (`[]RotationBound`).
* `DirtyReachesRoot`: `[]DirtyPropagates`, and `WalksClean`: `CleanAfterWalk`.
  The path that is marked dirty is closed under parents in the links it is
  taken in (`SoiledUp`), so a node keeps a dirty parent as long as its new
  parent is on that path or its old parent stays (`MarkingStep`). The proof
  needs `LinksOK` after the step, hence `IInv`.
* `RelinkingMarks`: `MarksTouched`, which needs no more than the types.
* `OrderHolds`: `Spec => []OrderInv`, and `NoKeyTwice`: `Spec => []KeysUnique`.
* `WayHolds`: `Spec => []WayOK`: a search has come from the root the way the
  comparator says, a slide from the neighbour that the caller named, and the
  search for the successor from the node to remove.

The tree seen as a whole:

* `OneTreeHolds` (`[]OneTree`), `SortedHolds` (`[]Sorted`), `BlackHeightsAgree`
  (`[]BlackBalanced`), `HeightIsLogarithmic` (`[]HeightBound`); `WitnessesFit`
  and `OrderWitnessesFit`: the computed witnesses fit `IInv` and `OrderInv`.
* `CallsEnd`: `Spec => CallsAdvance`. A call runs in at most two stages, a
  search and a fixup, and every step ends a stage or decreases `StepsLeft`,
  which is at most the height of the tree and three.
* `TreeIsSequence`: `Spec => ImplementsOrderedNodes`, the refinement of the
  sequence that `unique` and `positional` check.

What reads the tree:

* `NeighboursAgree` (`[]NeighboursFollowOrder`), `SearchesFind`
  (`[]SearchFindsWhatIsThere`), `RangesStart` (`[]SearchStartsRange`),
  `CountsAreExact` (`[]CountIsExact`).
* `RoverStaysInTree` (`[]RoverInTree`), `TraversalsAreComplete`
  (`[]NoneSkippedNoneTwice`), `CleanIsFresh` (`[]FreshWhereClean`).

The container:

* `ContainerTypeCorrect`: `[]ContainerTypeOK`, by `ContainerInv`, which is
  `ContainerTypeOK` and the tree's `IInv`.
* `ContainerDrivesTree`: `ContainerSpec => Spec`. Every theorem about the tree
  holds in every container.
* `CallsLeaveClean`: `[]CleanBetweenCalls`. The inductive form says in
  which stages of a call the tree is clean already (`CleanUntilChanged`); the
  walk at the end cleans all of it by the lemma behind `WalksClean`.
* `RetentionBalanced`: `[]RetainedOncePerNode`, by what each step does to the
  set of nodes that hold a value: none (`Kept`), one more (`Taken`), one less
  and released (`GivenBack`), or, with the extra option, one less and not
  released (`Leaked`).
* `ContainerIsBag`: `ContainerSpec => Bag!Spec`, the safety half of the
  refinement that the runs `set` and `bag` check.
* `DoneIsComplete`: `[]DoneReleasesAll`.

The configuration: `BucketsServe`, `NodesStayApart`, `ValuesSurvive`, the three
properties of run `config`, by the cases of the size computations.

Why the strengthening. None of the five that follow from `InvariantHolds` is
inductive. That the sibling of a
node short of one black is not the sentinel follows only from equal black
heights, and that a rotation does not tie a loop only from the links being
acyclic. Neither is a statement about one node, and a step changes the
recursive definitions that TLC evaluates all the way up to the root. So `IInv`
says that there are functions `d` and `h` with the local properties a depth and a black height
have. A step is proved to keep `IInv` by giving the new functions: a rotation
makes `d` fit again at the two nodes it turns and keeps or exchanges their `h`;
`RecolourUncle` and `RecolourSibling` change `h` at one node; a removal that
moves the successor gives it `d` and `h` of the node it replaces. While a
removal is repaired, `Weight` counts the black that `x` lacks on its side of its
parent, also where `x` is the sentinel, whose parent pointer is what tells the
fixup where it is.

How a step is proved. The links after the step are written down once
(`RotateLinks`, `Graft`, `GraftedLinks`), as a list of the links that changed;
`LinksOK'`, the new depth, the new black height and `NoRedRed'` then go through
that list, and `InvariantAfter` puts them together. The situation before a
fixup step is a lemma per loop (`RedRedKin`, `ShortKin`): which nodes exist,
are different, and have which colour. `ShortKin` needs that a node other than
the root has the root above it, hence that there is a root (`RootExists`, by
well-founded choice of the least `d`).

The order. `KeysUnique` is not inductive either: a search compares the keys of
one path, and that a duplicate elsewhere is impossible is the whole history of
the tree. The rooms `A` carry it. A rotation gives the upper node's room to the
node that comes up, and cuts down the room of the one that goes down
(`TurnKeepsOrder`); `attach_node` gives a new node what its parent leaves it on
that side (`AttachKeepsOrder`); what a cut moves up keeps its room
(`CutKeepsOrder`); a successor takes over the room of the node it replaces, and
the nodes of `W` give up what is smaller than it (`ReplaceKeepsOrder`). Colours
play no part. That the search of an insertion meets an equal key
(`SearchMeetsEqual`) follows because a value outside a child's room cannot be
on the path through that child (`PathAllows`, `WayDown`). The links these
lemmas start from, in particular that every rotation turns two nodes of the
tree (`FixupTurns`), are taken from `IInv`.

The tree as a whole. A recursive function is known to be what its definition
says only if such a function exists. `RecursionExists` and `RecursionUnique`
give it to any definition that looks only where a measure is less. The depth
`d` grows downwards without a bound, so the measure (`MeasureExists`) is made of
the black height, which falls along the links, and a `Rank` among the nodes of
one black height; it needs the colours, also inside a fixup, where one pair of
red nodes may stand. Induction over the tree is then always the same step: of
the nodes for which a claim fails take one of least measure (`LeastOf`); its
children fulfil the claim. So `WalkMeetsAllOnce` says that the in-order has all
nodes of the tree once, and `SortedHolds` that the rooms `A`, which narrow from
link to link, order it. `HeightIsLogarithmic` follows from `h`: a subtree holds
at least 2^`h` - 1 nodes and is at most twice `h` high.

The end of calls. A search goes down, so the height below it bounds it
(`HeightFalls`); a fixup that recolours goes up, so the level it stands at bounds
it, and level and height together are no more than the tree (`HeightsFit`). Where a
fixup rotates, heights and levels change; but then its loop is over after two
more steps at most, which is what `RotationsSpent` in `IInv` says
(`RedRedAdvances`, `BlackBlackAdvances`).

The sequence. What a step does to the in-order is said with a few opaque
relations on sequences: `Dropped` (all but one element), `Put` (one element
beside another), `Split` and `Adjoins` (where an element stands). Each holds of
the whole walk if it holds of one part of it (`DroppedInPart`, `PutInPart`), so
it need be proved only for the subtree in which links changed, and is carried
up to the root by the same induction. A rotation leaves the walk of the upper
node as it was (`TurnKeepsInOrder`), `attach_node` puts its node beside `x`
(`AttachPuts`), and a removal drops its node alone, though the successor moves
from the bottom of the spine to the top of the subtree (`CutDrops`,
`ReplaceDrops`). That this is the place which `OrderedNodes` allows follows
from `WayOK`: what an insertion has left behind on its way down is smaller or
equal on one side and greater on the other (`InsertSplits`), and a slide ends at
the very neighbour of the node named (`BesideAdjoins`). `DuplicatesAhead` is
what makes `EEXIST` the answer exactly for a value that is there.

The queries. The loops of `next_node` and the searches are recursive functions
over the links of all slots; that each ends (`LoopEnds`) needs that slots
outside the tree have no children (`UnlinkedBare`), and the depth for those
that climb. `Framed` says where in the in-order the walk of a subtree stands
and that climbing from its top leads to the nodes on either side of it; from it
follows that the neighbours are the elements next to each other
(`NeighboursAre`), and the searches are inductions along the path they take.
None of this needs the tree to be at rest, so the results hold after every step of
a call. Where a search of the order ends (`Located`) determines how a range
begins (`RangeBegins`): what stands between two equal keys is equal to both.
`DoneInv` counts what is still retained as the values from `at` to the end of
the in-order, so that `next_node` misses none.

The traversals. `RoverInv` says that nothing which a running removal is about
to unlink is the node at which the traversal stands. No step reorders two nodes
that are in the tree before and after it (`StepKeepsOrder`, from `Dropped`);
so what a client does moves nothing from behind the traversal to before it
(`PassedStay`), and a step of the traversal passes the node it leaves and no
other (`StepPasses`). `PassedInv` is `NoneSkippedNoneTwice` with the bounds of
its two histories.

The client of `walk_dirty`. `SizeInv` is local: the size of a clean node is one
more than those of its children. The nodes on the way up from a node that an
insertion has attached are not marked before the fixup is over; until then they
are `Waiting` and excepted. Each step marks, or lets wait, every node that it
relinks or that loses something below it (`CleanStay`, one lemma per kind of
step); and as flags reach up to the root, no clean node has a dirty one below,
so that the local equation makes the size of a clean node right all the way
down (`CleanAreRight`).

The refinement of the bag. `add` takes effect when `attach_node` links its node and
`remove` when its node is unlinked; everything else is a request, an answer or
a stutter (`RequestIsBag`, `LowLevelIsBag`, `ProceedIsBag`). What the running
call knows about the bag is `CallKnows`: that a refused insertion has seen an
equal value, that a search has not passed its key by, that the node to remove
holds the key. It is here that the order is needed: without `OrderInv`, `ENOENT` could be answered for
a value on another path. What the bag counts are the `Holders` of a value, by the
library's theorems on finite sets.

`InductiveInvariant` in run `keys` and `InductiveOrder` in run `unique` check the
two invariants with the witnesses computed, so the proofs are not about
invariants that no state satisfies; `WitnessesFit` and `OrderWitnessesFit` say
that the computed witnesses fit in every tree.

## What is only model-checked

* Liveness: `Termination`, that every call returns; the fairness of
  `ImplementsFairly`, that a request takes effect or is refused and answered;
  and that of `ImplementsValueBag`. The prover has no rule for `WF_` and
  `ENABLED`, so these hold for the instances of the runs `duplicates`, `set`
  and `bag`. What they rest on is proved: the safety part of the two
  refinements, and the measure of `CallsAdvance`, which no step of a low-level
  call can decrease for ever. What is missing is that a step is always possible.
* The three runs that are expected to find a violation show what the code does
  in one small instance each.

## What could follow

1. That a running call always has a next step, as a state predicate with the
   guards written out.
2. The bound of the height inside calls: `HeightBound` is for the time between
   two calls.
3. A measure for the calls of the container, on top of `CallsAdvance`.

## Not modelled

The pool's own buckets and failure of its allocator (external; the code
does not test for it), comparators that are not a total order
(the documentation forbids them), concurrent callers (they must lock), the debug
fill of `_mulle__rbtree_done`, and the components listed as `not_modelled` in `PROJECT.json`.
