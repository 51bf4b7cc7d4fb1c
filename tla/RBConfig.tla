------------------------------ MODULE RBConfig ------------------------------
(***************************************************************************)
(* Configuration and node layout: how the three initializers turn a        *)
(* configuration into a pool of nodes, and what becomes of a value that is *)
(* copied into a node (mulle_rbtree_option_use_extra).                     *)
(*                                                                         *)
(* Sizes and addresses are numbers of bytes; node i of a bucket starts at  *)
(* i * element.                                                            *)
(***************************************************************************)
EXTENDS Integers

CONSTANTS
    Word,        \* sizeof( void *), a multiple of sizeof( int)
    USHRT_MAX,   \* limits.h
    NodeExtras,  \* the node_extra a caller asks for
    Capacities,  \* the capacity it asks for, or whatever an unset one holds
    ValueSizes   \* the sizes of the values it adds

ASSUME WordAssumption == Word \in Nat \ {0}
ASSUME LimitAssumption == USHRT_MAX \in Nat /\ USHRT_MAX >= 65535   \* as in any C
ASSUME SizeAssumption == /\ NodeExtras \subseteq Nat
                         /\ Capacities \subseteq Nat
                         /\ ValueSizes \subseteq Nat \ {0}

VARIABLES
    stage,      \* "start", "config" (the internal one is there), "ready", "node"
    request,    \* the caller's configuration
    rbconfig,   \* the internal configuration
    element,    \* the pool's element size
    bucket,     \* the pool's bucket size, an unsigned short
    spare,      \* the capacity from which the pool derives its allowances
    added,      \* the size of the value that was added
    kept        \* how many bytes of it the node holds

confVars == <<stage, request, rbconfig, element, bucket, spare, added, kept>>

Larger(a, b) == IF a < b THEN b ELSE a

MULLE__RBTREE_DEFAULT_CAPACITY == 32

\* struct mulle_rbnode: three links, the colour, which is padded, the payload
PayloadOffset == 4 * Word
NodeSize      == PayloadOffset + Word

Config == [node_extra : NodeExtras, use_extra : BOOLEAN, capacity : Capacities]
NoConfig == [node_extra |-> 0, use_extra |-> FALSE, capacity |-> 0]

ConfInit ==
    /\ stage = "start"
    /\ request = NoConfig /\ rbconfig = NoConfig
    /\ element = 0 /\ bucket = 0 /\ spare = 0
    /\ added = 0 /\ kept = 0

-----------------------------------------------------------------------------
\* _mulle_rbtree_init_with_config copies the leading fields of the public
\* configuration; the low-level initializer is given its own.
InitWithConfig(c) ==
    /\ stage = "start"
    /\ stage' = "config"
    /\ request' = c
    /\ rbconfig' = c
    /\ UNCHANGED <<element, bucket, spare, added, kept>>

\* _mulle__rbtree_init_with_options has no capacity to pass on, and
\* _mulle_rbtree_init nothing but a zeroed configuration.
InitWithOptions(c) == c.capacity = 0 /\ InitWithConfig(c)
PlainInit == InitWithConfig(NoConfig)

\* if( extra < sizeof( struct mulle_rbnode))
\* Mutant: node_extra bytes at the payload, and no more.
TotalNotRaised(c) == PayloadOffset + c.node_extra
Total(c) == Larger(PayloadOffset + c.node_extra, NodeSize)

\* if( capacity > USHRT_MAX)
\* Mutant: the request goes to the pool as it is.
ClampedNot(n) == n
Clamped(n) == IF n > USHRT_MAX THEN USHRT_MAX ELSE n

Capacity(c) ==
    Clamped(IF c.capacity = 0 THEN MULLE__RBTREE_DEFAULT_CAPACITY ELSE c.capacity)

\* _mulle_storage_init, in mulle-container: elements are aligned, if they are,
\* to a pointer, the bucket size is an unsigned short and 4 at least.
Aligned(n) == ((n + Word - 1) \div Word) * Word
StorageInit(size, capacity) ==
    /\ element' \in {size, Aligned(size)}
    /\ bucket' = Larger(4, capacity % (USHRT_MAX + 1))
    /\ spare' = capacity

\* _mulle__rbtree_init_with_config
LowLevelInit ==
    /\ stage = "config"
    /\ stage' = "ready"
    /\ StorageInit(Total(rbconfig), Capacity(rbconfig))
    /\ UNCHANGED <<request, rbconfig, added, kept>>

\* _mulle__rbtree_get_extra_size
\* Mutant: the area is taken to begin behind the payload.
ExtraSizeBehind == element - NodeSize
ExtraSize == element - PayloadOffset

\* init_node copies the whole area, or keeps a pointer to the value.
InitNode(size) ==
    /\ stage \in {"ready", "node"}
    /\ stage' = "node"
    /\ added' = size
    /\ kept' = IF rbconfig.use_extra
               THEN IF size < ExtraSize THEN size ELSE ExtraSize
               ELSE size
    /\ UNCHANGED <<request, rbconfig, element, bucket, spare>>

ConfNext ==
    \/ \E c \in Config : InitWithConfig(c) \/ InitWithOptions(c)
    \/ PlainInit
    \/ LowLevelInit
    \/ \E size \in ValueSizes : InitNode(size)

ConfSpec == ConfInit /\ [][ConfNext]_confVars

-----------------------------------------------------------------------------
\* Node i of a bucket, its extra area, and the way back that
\* _mulle__rbtree_get_node_from_extra goes.
NodeAt(i)  == i * element
ExtraOf(a) == a + PayloadOffset
NodeFromExtra(e) == e + Word - NodeSize

-----------------------------------------------------------------------------
(* Properties.                                                             *)

\* The bucket is what was asked for, as far as an unsigned short goes, never
\* a small remainder of a large request, and the pool's allowances follow from
\* that same number (mulle--rbtree.c:133-138).
BucketServesRequest ==
    stage \in {"ready", "node"} =>
        /\ bucket \in 1..USHRT_MAX
        /\ bucket >= request.capacity \/ bucket = USHRT_MAX
        /\ request.capacity = 0 => bucket = MULLE__RBTREE_DEFAULT_CAPACITY
        /\ bucket = spare \/ (spare < bucket /\ bucket = 4)

\* Neither the payload nor the extra area of a node reaches into the next
\* node, and the address of the extra area, which is all that a comparison or
\* a callback sees of a node, leads back to the node.
NodesApart ==
    stage \in {"ready", "node"} =>
        \A i \in 0..2 :
            /\ ExtraOf(NodeAt(i)) + Word <= NodeAt(i + 1)
            /\ ExtraOf(NodeAt(i)) + request.node_extra <= NodeAt(i + 1)
            /\ request.use_extra => ExtraOf(NodeAt(i)) + kept <= NodeAt(i + 1)
            /\ NodeFromExtra(ExtraOf(NodeAt(i))) = NodeAt(i)

\* A value that node_extra has room for is kept from its first to its last
\* byte, and so is one no larger than a pointer, whatever node_extra is.
ValueSurvivesCopy ==
    stage = "node" /\ added <= Larger(request.node_extra, Word) => kept = added

\* "Set node_extra to size of your data structure minus sizeof(void *)"
\* (asset/dox/api/toc/index.md:395): the structure then fits.
DocumentedExtraHoldsValue ==
    stage = "node" /\ request.use_extra /\ request.node_extra = added - Word =>
        kept = added
=============================================================================
