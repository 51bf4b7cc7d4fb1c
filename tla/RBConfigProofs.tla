--------------------------- MODULE RBConfigProofs ---------------------------
(***************************************************************************)
(* For every configuration, every size of a pointer and every width of the *)
(* bucket size: the bucket serves the request, nodes do not overlap, and a *)
(* value that the extra area has room for is kept whole.                   *)
(***************************************************************************)
EXTENDS RBConfig, TLAPS

USE WordAssumption, LimitAssumption, SizeAssumption

\* A configuration as the program may hold it, whatever the caller asked for.
AnyConfig == [node_extra : Nat, use_extra : BOOLEAN, capacity : Nat]

LEMMA ConfigIsAny == Config \subseteq AnyConfig /\ NoConfig \in AnyConfig
  <1>1. ASSUME NEW c \in Config PROVE c \in AnyConfig
    <2>1. c.node_extra \in NodeExtras /\ c.use_extra \in BOOLEAN /\ c.capacity \in Capacities
      BY DEF Config
    <2>2. c = [node_extra |-> c.node_extra, use_extra |-> c.use_extra, capacity |-> c.capacity]
      BY DEF Config
    <2>3. c.node_extra \in Nat /\ c.capacity \in Nat
      <3> DEFINE e == c.node_extra
                 n == c.capacity
      <3>1. e \in NodeExtras /\ n \in Capacities
        BY <2>1
      <3> HIDE DEF e, n
      <3>2. e \in Nat /\ n \in Nat
        BY <3>1
      <3> QED BY <3>2 DEF e, n
    <2> DEFINE e == c.node_extra
               u == c.use_extra
               n == c.capacity
    <2>4. [node_extra |-> e, use_extra |-> u, capacity |-> n] \in AnyConfig
      <3>1. e \in Nat /\ u \in BOOLEAN /\ n \in Nat
        BY <2>1, <2>3
      <3> HIDE DEF e, u, n
      <3> QED BY <3>1 DEF AnyConfig
    <2> QED BY <2>2, <2>4
  <1>2. NoConfig \in AnyConfig
    BY DEF NoConfig, AnyConfig
  <1> QED BY <1>1, <1>2

LEMMA LargerBounds ==
    ASSUME NEW a \in Nat, NEW b \in Nat
    PROVE  Larger(a, b) \in Nat /\ a <= Larger(a, b) /\ b <= Larger(a, b)
  BY DEF Larger

\* Alignment makes a size no smaller.
LEMMA AlignedNoSmaller ==
    ASSUME NEW n \in Nat PROVE Aligned(n) \in Nat /\ n <= Aligned(n)
  <1> DEFINE m == n + Word - 1
             q == m \div Word
  <1>1. m \in Nat /\ Word \in Nat /\ Word > 0
    OBVIOUS
  <1>2. q \in Nat /\ q * Word <= m /\ m < (q + 1) * Word
    <2> HIDE DEF m
    <2> QED BY <1>1, Z3
  <1>3. (q + 1) * Word = q * Word + Word /\ q * Word \in Nat
    <2> HIDE DEF q
    <2> QED BY <1>1, <1>2
  <1> DEFINE a == q * Word
  <1>4. a \in Nat /\ m < a + Word
    <2> HIDE DEF q, m
    <2> QED BY <1>2, <1>3
  <1>5. Aligned(n) = a
    BY DEF Aligned
  <1> HIDE DEF a
  <1>6. n <= a
    BY <1>1, <1>4
  <1> QED BY <1>4, <1>5, <1>6

\* A node has room for its struct and for the extra area asked for.
LEMMA TotalHasRoom ==
    ASSUME NEW c \in AnyConfig
    PROVE  /\ Total(c) \in Nat
           /\ PayloadOffset \in Nat
           /\ PayloadOffset + c.node_extra <= Total(c)
           /\ PayloadOffset + Word <= Total(c)
  <1>1. c.node_extra \in Nat
    BY DEF AnyConfig
  <1>2. PayloadOffset \in Nat /\ NodeSize = PayloadOffset + Word
    BY DEF PayloadOffset, NodeSize
  <1> DEFINE e == PayloadOffset + c.node_extra
  <1>3. e \in Nat /\ NodeSize \in Nat
    BY <1>1, <1>2
  <1> HIDE DEF e
  <1>4. Larger(e, NodeSize) \in Nat /\ e <= Larger(e, NodeSize) /\ NodeSize <= Larger(e, NodeSize)
    BY <1>3, LargerBounds
  <1> QED BY <1>2, <1>4 DEF Total, e

\* The clamped capacity fits an unsigned short.
LEMMA CapacityFits ==
    ASSUME NEW c \in AnyConfig
    PROVE  /\ Capacity(c) \in 1 .. USHRT_MAX
           /\ Capacity(c) >= c.capacity \/ Capacity(c) = USHRT_MAX
           /\ c.capacity = 0 => Capacity(c) = MULLE__RBTREE_DEFAULT_CAPACITY
           /\ Capacity(c) % (USHRT_MAX + 1) = Capacity(c)
  <1>1. c.capacity \in Nat
    BY DEF AnyConfig
  <1>2. /\ Capacity(c) \in 1 .. USHRT_MAX
        /\ Capacity(c) >= c.capacity \/ Capacity(c) = USHRT_MAX
        /\ c.capacity = 0 => Capacity(c) = MULLE__RBTREE_DEFAULT_CAPACITY
    BY <1>1 DEF Capacity, Clamped, MULLE__RBTREE_DEFAULT_CAPACITY
  <1> DEFINE n == Capacity(c)
             w == USHRT_MAX + 1
  <1>3. n \in Nat /\ w \in Nat /\ n < w
    BY <1>2
  <1> HIDE DEF n, w
  <1>4. n % w = n
    BY <1>3, Z3
  <1> QED BY <1>2, <1>4 DEF n, w

-----------------------------------------------------------------------------
ConfTypeOK ==
    /\ stage \in {"start", "config", "ready", "node"}
    /\ request \in AnyConfig
    /\ element \in Nat /\ bucket \in Nat /\ spare \in Nat
    /\ added \in Nat /\ kept \in Nat

\* The initializers pass on what the caller asked for; the pool is what the
\* low-level initializer made of it; a node holds what its area has room for.
ConfInv ==
    /\ ConfTypeOK
    /\ rbconfig = request
    /\ stage \in {"ready", "node"} =>
          /\ Total(request) <= element
          /\ spare = Capacity(request)
          /\ bucket = Larger(4, spare)
    /\ IF stage = "node"
       THEN kept = IF request.use_extra
                   THEN IF added < ExtraSize THEN added ELSE ExtraSize
                   ELSE added
       ELSE kept = 0

LEMMA ConfInitInv == ConfInit => ConfInv
  BY ConfigIsAny DEF ConfInit, ConfInv, ConfTypeOK

LEMMA ConfStepInv == ConfInv /\ [ConfNext]_confVars => ConfInv'
  <1> SUFFICES ASSUME ConfInv, [ConfNext]_confVars PROVE ConfInv'
    OBVIOUS
  <1>1. ASSUME NEW c \in AnyConfig, InitWithConfig(c) PROVE ConfInv'
    BY <1>1 DEF InitWithConfig, ConfInv, ConfTypeOK
  <1>2. CASE LowLevelInit
    <2> DEFINE c == request
    <2>1. c \in AnyConfig /\ rbconfig = c
      BY DEF ConfInv, ConfTypeOK
    <2>2. Total(c) \in Nat
      BY <2>1, TotalHasRoom
    <2>3. Aligned(Total(c)) \in Nat /\ Total(c) <= Aligned(Total(c))
      BY <2>2, AlignedNoSmaller
    <2>4. element' \in Nat /\ Total(c) <= element'
      BY <1>2, <2>1, <2>2, <2>3 DEF LowLevelInit, StorageInit
    <2>5. /\ spare' = Capacity(c) /\ spare' \in Nat
          /\ bucket' = Larger(4, spare') /\ bucket' \in Nat
      <3>1. Capacity(c) \in Nat /\ Capacity(c) % (USHRT_MAX + 1) = Capacity(c)
        BY <2>1, CapacityFits
      <3>2. Larger(4, Capacity(c)) \in Nat
        BY <3>1 DEF Larger
      <3> QED BY <1>2, <2>1, <3>1, <3>2 DEF LowLevelInit, StorageInit
    <2>6. stage' = "ready" /\ stage = "config" /\ UNCHANGED <<request, rbconfig, added, kept>>
      BY <1>2 DEF LowLevelInit
    <2> QED BY <2>1, <2>4, <2>5, <2>6 DEF ConfInv, ConfTypeOK
  <1>3. ASSUME NEW size \in ValueSizes, InitNode(size) PROVE ConfInv'
    <2>1. request \in AnyConfig /\ element \in Nat /\ rbconfig = request /\ size \in Nat
      BY DEF ConfInv, ConfTypeOK
    <2>2. Total(request) <= element
      BY <1>3 DEF InitNode, ConfInv
    <2>3. ExtraSize \in Nat /\ ExtraSize' = ExtraSize
      BY <1>3, <2>1, <2>2, TotalHasRoom DEF ExtraSize, InitNode
    <2>4. kept' \in Nat
      BY <1>3, <2>1, <2>3 DEF InitNode
    <2> QED BY <1>3, <2>1, <2>3, <2>4 DEF InitNode, ConfInv, ConfTypeOK
  <1>4. CASE UNCHANGED confVars
    <2>1. ExtraSize' = ExtraSize
      BY <1>4 DEF ExtraSize, confVars
    <2> QED BY <1>4, <2>1 DEF confVars, ConfInv, ConfTypeOK
  <1>5. ASSUME NEW c \in Config, InitWithConfig(c) \/ InitWithOptions(c) PROVE ConfInv'
    BY <1>1, <1>5, ConfigIsAny DEF InitWithOptions
  <1>6. CASE PlainInit
    BY <1>1, <1>6, ConfigIsAny DEF PlainInit
  <1> QED BY <1>2, <1>3, <1>4, <1>5, <1>6 DEF ConfNext

LEMMA ConfInvHolds == ConfSpec => []ConfInv
  <1> QED BY ConfInitInv, ConfStepInv, PTL DEF ConfSpec

-----------------------------------------------------------------------------
\* The bucket that _mulle__rbtree_init_with_config asks the pool for serves
\* any request as far as an unsigned short goes, for any width of it.
THEOREM BucketsServe == ConfSpec => []BucketServesRequest
  <1>1. ConfInv => BucketServesRequest
    <2> SUFFICES ASSUME ConfInv, stage \in {"ready", "node"} PROVE BucketServesRequest
      BY DEF BucketServesRequest
    <2>1. request \in AnyConfig /\ spare = Capacity(request) /\ bucket = Larger(4, spare)
      BY DEF ConfInv, ConfTypeOK
    <2>2. /\ spare \in 1 .. USHRT_MAX
          /\ spare >= request.capacity \/ spare = USHRT_MAX
          /\ request.capacity = 0 => spare = MULLE__RBTREE_DEFAULT_CAPACITY
      BY <2>1, CapacityFits
    <2>3. request.capacity \in Nat
      BY <2>1 DEF AnyConfig
    <2> QED BY <2>1, <2>2, <2>3
            DEF BucketServesRequest, Larger, MULLE__RBTREE_DEFAULT_CAPACITY
  <1> QED BY <1>1, ConfInvHolds, PTL

\* Whatever extra area is asked for, nodes do not overlap, and the address of
\* the extra area leads back to the node (_mulle__rbtree_get_node_from_extra).
THEOREM NodesStayApart == ConfSpec => []NodesApart
  <1>1. ConfInv => NodesApart
    <2> SUFFICES ASSUME ConfInv, stage \in {"ready", "node"} PROVE NodesApart
      BY DEF NodesApart
    <2>1. request \in AnyConfig /\ Total(request) <= element /\ element \in Nat /\ kept \in Nat
      BY DEF ConfInv, ConfTypeOK
    <2>2. /\ PayloadOffset + request.node_extra <= element
          /\ PayloadOffset + Word <= element
          /\ PayloadOffset \in Nat /\ request.node_extra \in Nat
      <3>1. request.node_extra \in Nat
        BY <2>1 DEF AnyConfig
      <3> QED BY <2>1, <3>1, TotalHasRoom
    <2>3. request.use_extra => PayloadOffset + kept <= element
      BY <2>1, <2>2 DEF ConfInv, ConfTypeOK, ExtraSize
    <2>4. NodeSize = PayloadOffset + Word
      BY DEF NodeSize
    <2>5. ASSUME NEW i \in 0 .. 2
          PROVE  /\ ExtraOf(NodeAt(i)) + Word <= NodeAt(i + 1)
                 /\ ExtraOf(NodeAt(i)) + request.node_extra <= NodeAt(i + 1)
                 /\ request.use_extra => ExtraOf(NodeAt(i)) + kept <= NodeAt(i + 1)
                 /\ NodeFromExtra(ExtraOf(NodeAt(i))) = NodeAt(i)
      <3> DEFINE a == NodeAt(i)
      <3>1. a \in Nat /\ NodeAt(i + 1) = a + element
        BY <2>1 DEF NodeAt
      <3> HIDE DEF a
      <3>2. ExtraOf(a) + Word <= a + element /\ ExtraOf(a) + request.node_extra <= a + element
        BY <2>1, <2>2, <3>1 DEF ExtraOf
      <3>3. request.use_extra => ExtraOf(a) + kept <= a + element
        BY <2>1, <2>2, <2>3, <3>1 DEF ExtraOf
      <3>4. NodeFromExtra(ExtraOf(a)) = a
        BY <2>2, <2>4, <3>1 DEF ExtraOf, NodeFromExtra
      <3> QED BY <3>1, <3>2, <3>3, <3>4 DEF a
    <2> QED BY <2>5 DEF NodesApart
  <1> QED BY <1>1, ConfInvHolds, PTL

\* A value of at most node_extra bytes, or of a pointer's size, is kept whole
\* by init_node, whatever the alignment.
THEOREM ValuesSurvive == ConfSpec => []ValueSurvivesCopy
  <1>1. ConfInv => ValueSurvivesCopy
    <2> SUFFICES ASSUME ConfInv, stage = "node", added <= Larger(request.node_extra, Word)
                 PROVE  kept = added
      BY DEF ValueSurvivesCopy
    <2>1. /\ request \in AnyConfig /\ Total(request) <= element
          /\ element \in Nat /\ added \in Nat
      BY DEF ConfInv, ConfTypeOK
    <2>2. request.node_extra \in Nat
      BY <2>1 DEF AnyConfig
    <2>3. /\ PayloadOffset + request.node_extra <= element
          /\ PayloadOffset + Word <= element /\ PayloadOffset \in Nat
      BY <2>1, <2>2, TotalHasRoom
    <2>4. added <= ExtraSize /\ ExtraSize \in Nat
      BY <2>1, <2>2, <2>3 DEF ExtraSize, Larger
    <2> QED BY <2>1, <2>4 DEF ConfInv
  <1> QED BY <1>1, ConfInvHolds, PTL
=============================================================================
