-------------------------- MODULE RBTreeShapeProofs --------------------------
(***************************************************************************)
(* The tree seen as a whole. The recursive functions of RBTreeShape are    *)
(* shown to exist and to follow their equations, in a tree of any size and *)
(* at every step of every call; what they say of the tree follows: one     *)
(* tree, in order, of equal black heights, and logarithmically low.        *)
(***************************************************************************)
EXTENDS RBTreeShape, RBTreeInvariantProofs, SequenceTheorems, FiniteSetTheorems

USE NilAssumption DEF Side, Ref, Color

-----------------------------------------------------------------------------
(* Recursion.  A function is defined by G, which maps functions to         *)
(* functions: a recursive function is one that G leaves as it is.          *)

\* A measure is least somewhere in every set that has a member.
LEMMA LeastOf ==
    ASSUME NEW T, T # {}, NEW M, \A t \in T : M[t] \in Nat
    PROVE  \E t \in T : \A u \in T : M[t] <= M[u]
  <1> DEFINE S == {M[t] : t \in T}
  <1>1. S \in SUBSET Nat /\ S # {}
    OBVIOUS
  <1>2. PICK m \in S : \A k \in S : m <= k
    <2>1. IsWellFoundedOn(OpToRel(<, Nat), Nat)
      BY NatLessThanWellFounded
    <2>2. PICK m \in S : \A k \in S : ~(<<k, m>> \in OpToRel(<, Nat))
      BY <1>1, <2>1, WFMin
    <2>3. \A k \in S : ~(k < m)
      BY <1>1, <2>2 DEF OpToRel
    <2> HIDE DEF S
    <2> QED BY <1>1, <2>3
  <1>3. PICK t \in T : M[t] = m
    BY <1>2
  <1> QED BY <1>2, <1>3

\* What G makes of a function at n depends on where N is less than at n only.
Descends(G, S, V, N) ==
    /\ G \in [[S -> V] -> [S -> V]]
    /\ \A f, g \in [S -> V], n \in S :
          (\A m \in S : N[m] < N[n] => f[m] = g[m]) => G[f][n] = G[g][n]

\* f is what G wants where N is less than k.
Follows(f, G, S, N, k) == \A n \in S : N[n] < k => f[n] = G[f][n]

LEMMA FollowsAgree ==
    ASSUME NEW S, NEW V, NEW N \in [S -> Nat], NEW G, Descends(G, S, V, N),
           NEW j \in Nat, NEW k \in Nat, j <= k, NEW f \in [S -> V], NEW g \in [S -> V],
           Follows(f, G, S, N, j), Follows(g, G, S, N, k)
    PROVE  \A n \in S : N[n] < j => f[n] = g[n]
  <1> DEFINE D == {n \in S : N[n] < j /\ f[n] # g[n]}
  <1>1. SUFFICES ASSUME D # {} PROVE FALSE
    OBVIOUS
  <1>2. PICK n \in D : \A u \in D : N[n] <= N[u]
    <2>1. \A u \in D : N[u] \in Nat
      OBVIOUS
    <2> QED BY <1>1, <2>1, LeastOf
  <1>3. n \in S /\ N[n] < j /\ N[n] < k /\ f[n] # g[n]
    BY <1>2
  <1>4. \A m \in S : N[m] < N[n] => f[m] = g[m]
    <2> SUFFICES ASSUME NEW m \in S, N[m] < N[n], f[m] # g[m] PROVE FALSE
      OBVIOUS
    <2>1. N[m] \in Nat /\ N[n] \in Nat /\ N[m] < j
      BY <1>3
    <2>2. m \in D
      BY <2>1
    <2> QED BY <1>2, <2>1, <2>2
  <1>5. G[f][n] = G[g][n]
    BY <1>3, <1>4 DEF Descends
  <1> QED BY <1>3, <1>5 DEF Follows

LEMMA FollowsOn ==
    ASSUME NEW S, NEW V, NEW N \in [S -> Nat], NEW G, Descends(G, S, V, N),
           NEW k \in Nat, NEW f \in [S -> V], Follows(f, G, S, N, k)
    PROVE  G[f] \in [S -> V] /\ Follows(G[f], G, S, N, k + 1)
  <1>1. G[f] \in [S -> V]
    BY DEF Descends
  <1>2. ASSUME NEW n \in S, N[n] < k + 1
        PROVE  G[f][n] = G[G[f]][n]
    <2>1. \A m \in S : N[m] < N[n] => f[m] = G[f][m]
      BY <1>2 DEF Follows
    <2> QED BY <1>1, <2>1 DEF Descends
  <1> QED BY <1>1, <1>2 DEF Follows

\* So there is a function that G leaves as it is,
LEMMA RecursionExists ==
    ASSUME NEW S, NEW V, V # {}, NEW N \in [S -> Nat], NEW G, Descends(G, S, V, N)
    PROVE  \E f \in [S -> V] : f = G[f]
  <1> DEFINE T == {k \in Nat : \A f \in [S -> V] : ~Follows(f, G, S, N, k)}
             id == [k \in Nat |-> k]
             part(k) == CHOOSE f \in [S -> V] : Follows(f, G, S, N, k)
             e == [n \in S |-> part(N[n] + 1)[n]]
  <1>1. \A k \in Nat : \E f \in [S -> V] : Follows(f, G, S, N, k)
    <2>1. SUFFICES ASSUME T # {} PROVE FALSE
      OBVIOUS
    <2>2. PICK k \in T : \A u \in T : id[k] <= id[u]
      <3>1. \A u \in T : id[u] \in Nat
        OBVIOUS
      <3> HIDE DEF T, id
      <3> QED BY <2>1, <3>1, LeastOf
    <2>3. k \in Nat /\ \A f \in [S -> V] : ~Follows(f, G, S, N, k)
      BY <2>2
    <2>4. CASE k = 0
      <3>1. PICK v \in V : TRUE
        OBVIOUS
      <3>2. [n \in S |-> v] \in [S -> V] /\ Follows([n \in S |-> v], G, S, N, 0)
        BY <3>1 DEF Follows
      <3> QED BY <2>3, <2>4, <3>2
    <2>5. CASE k # 0
      <3>1. k - 1 \in Nat /\ k - 1 \notin T /\ (k - 1) + 1 = k
        BY <2>2, <2>3, <2>5
      <3>2. PICK f \in [S -> V] : Follows(f, G, S, N, k - 1)
        BY <3>1
      <3>3. G[f] \in [S -> V] /\ Follows(G[f], G, S, N, (k - 1) + 1)
        BY <3>1, <3>2, FollowsOn
      <3> QED BY <2>3, <3>1, <3>3
    <2> QED BY <2>4, <2>5
  <1>2. \A k \in Nat : part(k) \in [S -> V] /\ Follows(part(k), G, S, N, k)
    BY <1>1
  <1> HIDE DEF part
  <1>3. e \in [S -> V]
    BY <1>2
  <1>4. ASSUME NEW n \in S, NEW k \in Nat, N[n] < k
        PROVE  part(k)[n] = e[n]
    <2>1. N[n] + 1 \in Nat /\ N[n] + 1 <= k /\ N[n] < N[n] + 1
      BY <1>4
    <2>2. /\ part(N[n] + 1) \in [S -> V] /\ Follows(part(N[n] + 1), G, S, N, N[n] + 1)
          /\ part(k) \in [S -> V] /\ Follows(part(k), G, S, N, k)
      BY <1>2, <2>1
    <2>3. \A m \in S : N[m] < N[n] + 1 => part(N[n] + 1)[m] = part(k)[m]
      BY <2>1, <2>2, FollowsAgree
    <2> QED BY <2>1, <2>3
  <1>5. ASSUME NEW n \in S
        PROVE  e[n] = G[e][n]
    <2> DEFINE p == part(N[n] + 1)
    <2>1. N[n] + 1 \in Nat /\ N[n] < N[n] + 1
      OBVIOUS
    <2>2. p \in [S -> V] /\ p[n] = G[p][n] /\ p[n] = e[n]
      BY <1>2, <1>4, <2>1 DEF Follows
    <2>3. \A m \in S : N[m] < N[n] => p[m] = e[m]
      <3> SUFFICES ASSUME NEW m \in S, N[m] < N[n] PROVE p[m] = e[m]
        OBVIOUS
      <3>1. N[m] < N[n] + 1
        OBVIOUS
      <3> QED BY <1>4, <2>1, <3>1
    <2> HIDE DEF p, e
    <2>4. G[p][n] = G[e][n]
      BY <1>3, <2>2, <2>3 DEF Descends
    <2> QED BY <2>2, <2>4
  <1> HIDE DEF e
  <1>6. G[e] \in [S -> V]
    BY <1>3 DEF Descends
  <1>7. e = G[e]
    BY <1>3, <1>5, <1>6
  <1> QED BY <1>3, <1>7

\* and only one.
LEMMA RecursionUnique ==
    ASSUME NEW S, NEW V, NEW N \in [S -> Nat], NEW G, Descends(G, S, V, N),
           NEW f \in [S -> V], NEW g \in [S -> V], f = G[f], g = G[g]
    PROVE  f = g
  <1>1. ASSUME NEW n \in S PROVE f[n] = g[n]
    <2>1. N[n] + 1 \in Nat /\ N[n] < N[n] + 1 /\ N[n] + 1 <= N[n] + 1
      OBVIOUS
    <2>2. Follows(f, G, S, N, N[n] + 1) /\ Follows(g, G, S, N, N[n] + 1)
      BY DEF Follows
    <2> QED BY <2>1, <2>2, FollowsAgree
  <1> QED BY <1>1

-----------------------------------------------------------------------------
(* Down from a node the way is not endless: what counts black nodes at     *)
(* least four times a level also falls from black to red, and where two    *)
(* red nodes follow, the one at x tells them apart.                        *)

Rank(n) == IF color[n] = "black" THEN 3
           ELSE IF n = x THEN 1
           ELSE IF x \in Linked /\ parent[n] = x THEN 0
           ELSE 2

\* N is less at each child, the sentinel included, than at its parent.
Sinking(L, ch, N) ==
    /\ N \in [Ref -> Nat]
    /\ \A n \in L, s \in Side : N[ch[n][s]] < N[n]

LEMMA RankFalls ==
    ASSUME NEW d \in [Ref -> Nat], NEW h \in [Ref -> Nat], InvariantBy(d, h),
           NEW n \in Linked, NEW s \in Side, child[n][s] # nil
    PROVE  4 * h[child[n][s]] + Rank(child[n][s]) < 4 * h[n] + Rank(n)
  <1> DEFINE m == child[n][s]
  <1>1. TypeOK /\ LinksOK /\ NoRedRed /\ Linked \subseteq Node /\ nil \notin Linked
    BY DEF InvariantBy, Linked
  <1>2. m \in Linked /\ parent[m] = n /\ m # nil /\ n # nil /\ n \in Ref
    BY <1>1 DEF LinksOK
  <1>3. h[n] = h[m] + Weight(n, s) /\ Weight(n, s) \in {0, 1, 2} /\ h[n] \in Nat /\ h[m] \in Nat
    BY <1>1, <1>2 DEF InvariantBy, Balanced, Weight
  <1>4. Rank(n) \in 0..3 /\ Rank(m) \in 0..3
    BY DEF Rank
  <1>5. color[m] \in Color /\ color[n] \in Color
    BY <1>1, <1>2 DEF TypeOK
  <1>6. CASE color[m] = "black"
    <2>1. Weight(n, s) \in {1, 2} /\ Rank(m) = 3
      BY <1>6 DEF Weight, Rank
    <2> QED BY <1>3, <1>4, <2>1
  <1>7. CASE color[m] = "red" /\ color[n] = "black"
    <2>1. Rank(n) = 3 /\ Rank(m) \in 0..2
      BY <1>7 DEF Rank
    <2> QED BY <1>3, <2>1
  <1>8. CASE color[m] = "red" /\ color[n] = "red"
    <2>1. x \in {m, n}
      BY <1>1, <1>2, <1>8 DEF NoRedRed
    <2>2. m # n /\ parent[n] # m
      <3>1. d[n] < d[m]
        BY <1>2 DEF InvariantBy, Descending
      <3>2. ASSUME parent[n] = m PROVE d[m] < d[n]
        <4>1. n # root /\ \E r \in Side : child[m][r] = n
          BY <1>1, <1>2, <3>2 DEF LinksOK
        <4> QED BY <1>2, <4>1 DEF InvariantBy, Descending
      <3>3. d[n] \in Nat /\ d[m] \in Nat
        BY <1>2 DEF TypeOK, Linked
      <3> QED BY <3>1, <3>2, <3>3
    <2>3. Rank(m) < Rank(n)
      BY <1>2, <1>8, <2>1, <2>2 DEF Rank
    <2> QED BY <1>3, <1>4, <2>3
  <1> QED BY <1>5, <1>6, <1>7, <1>8

LEMMA MeasureExists ==
    ASSUME NEW d \in [Ref -> Nat], NEW h \in [Ref -> Nat], InvariantBy(d, h)
    PROVE  \E N : Sinking(Linked, child, N)
  <1> DEFINE N == [n \in Ref |-> IF n \in Linked THEN 4 * h[n] + Rank(n) + 1 ELSE 0]
  <1>1. TypeOK /\ LinksOK /\ Linked \subseteq Node /\ nil \notin Linked
    BY DEF InvariantBy, Linked
  <1>2. \A n \in Ref : Rank(n) \in Nat /\ h[n] \in Nat
    BY DEF Rank
  <1>3. N \in [Ref -> Nat]
    BY <1>2
  <1>4. ASSUME NEW n \in Linked, NEW s \in Side PROVE N[child[n][s]] < N[n]
    <2>1. n \in Ref /\ child[n][s] \in Ref /\ child[n][s] \in Linked \cup {nil}
      BY <1>1 DEF LinksOK, TypeOK
    <2>2. CASE child[n][s] = nil
      BY <1>1, <1>2, <2>1, <2>2
    <2>3. CASE child[n][s] # nil
      <3>1. 4 * h[child[n][s]] + Rank(child[n][s]) < 4 * h[n] + Rank(n)
        BY <2>3, RankFalls
      <3> QED BY <1>1, <1>2, <2>1, <2>3, <3>1
    <2> QED BY <2>2, <2>3
  <1> HIDE DEF N
  <1> QED BY <1>3, <1>4 DEF Sinking

-----------------------------------------------------------------------------
(* The in-order.                                                           *)

\* f walks, below each node of L, the left part, the node and the right part.
Walks(L, ch, f) ==
    /\ L \subseteq Node /\ ch \in [Ref -> [Side -> Ref]]
    /\ f \in [Ref -> Seq(L)]
    /\ f = [n \in Ref |-> IF n \notin L THEN <<>>
                          ELSE f[ch[n]["left"]] \o <<n>> \o f[ch[n]["right"]]]

\* How the in-order is defined, as a map on functions.
WalkMap(L, ch) ==
    [f \in [Ref -> Seq(L)] |->
        [n \in Ref |-> IF n \notin L THEN <<>>
                       ELSE f[ch[n]["left"]] \o <<n>> \o f[ch[n]["right"]]]]

LEMMA WalkMapDescends ==
    ASSUME NEW L, L \subseteq Node, NEW ch \in [Ref -> [Side -> Ref]],
           NEW N, Sinking(L, ch, N)
    PROVE  Descends(WalkMap(L, ch), Ref, Seq(L), N)
  <1> DEFINE V == Seq(L)
  <1>1. \A n \in L : n \in Ref /\ ch[n]["left"] \in Ref /\ ch[n]["right"] \in Ref
    OBVIOUS
  <1>2. ASSUME NEW f \in [Ref -> V], NEW n \in L
        PROVE  f[ch[n]["left"]] \o <<n>> \o f[ch[n]["right"]] \in V
    <2>1. f[ch[n]["left"]] \in V /\ f[ch[n]["right"]] \in V /\ <<n>> \in V
      BY <1>1
    <2>2. f[ch[n]["left"]] \o <<n>> \in V
      BY <2>1, ConcatProperties
    <2> QED BY <2>1, <2>2, ConcatProperties
  <1>3. <<>> \in V
    BY EmptySeq
  <1>4. WalkMap(L, ch) \in [[Ref -> V] -> [Ref -> V]]
    BY <1>2, <1>3 DEF WalkMap
  <1>5. ASSUME NEW f \in [Ref -> V], NEW g \in [Ref -> V], NEW n \in Ref,
               \A m \in Ref : N[m] < N[n] => f[m] = g[m]
        PROVE  WalkMap(L, ch)[f][n] = WalkMap(L, ch)[g][n]
    <2>1. n \in L => f[ch[n]["left"]] = g[ch[n]["left"]] /\ f[ch[n]["right"]] = g[ch[n]["right"]]
      BY <1>1, <1>5 DEF Sinking
    <2>2. ASSUME NEW e \in [Ref -> V]
          PROVE  WalkMap(L, ch)[e][n] = IF n \notin L THEN <<>>
                                        ELSE e[ch[n]["left"]] \o <<n>> \o e[ch[n]["right"]]
      BY DEF WalkMap
    <2> HIDE DEF V
    <2> QED BY <2>1, <2>2
  <1> HIDE DEF V
  <1>6. \A f, g \in [Ref -> V], n \in Ref :
           (\A m \in Ref : N[m] < N[n] => f[m] = g[m])
              => WalkMap(L, ch)[f][n] = WalkMap(L, ch)[g][n]
    BY <1>5
  <1>7. Descends(WalkMap(L, ch), Ref, V, N)
    BY <1>4, <1>6 DEF Descends
  <1> QED BY <1>7 DEF V

LEMMA WalkSound ==
    ASSUME NEW L, L \subseteq Node, NEW ch \in [Ref -> [Side -> Ref]],
           NEW N, Sinking(L, ch, N), NEW f,
           f = [n \in Ref |-> IF n \notin L THEN <<>>
                             ELSE f[ch[n]["left"]] \o <<n>> \o f[ch[n]["right"]]]
    PROVE  f \in [Ref -> Seq(L)]
  <1> DEFINE D == {n \in Ref : f[n] \notin Seq(L)}
  <1>1. SUFFICES ASSUME D # {} PROVE FALSE
    OBVIOUS
  <1>2. PICK n \in D : \A u \in D : N[n] <= N[u]
    <2>1. \A u \in D : N[u] \in Nat
      BY DEF Sinking
    <2> QED BY <1>1, <2>1, LeastOf
  <1>3. n \in Ref /\ f[n] \notin Seq(L) /\ n \in L
    BY <1>2, EmptySeq
  <1>4. \A s \in Side : ch[n][s] \in Ref /\ N[ch[n][s]] \in Nat /\ N[n] \in Nat /\ N[ch[n][s]] < N[n]
    BY <1>3 DEF Sinking
  <1>5. \A s \in Side : ch[n][s] \notin D
    <2> SUFFICES ASSUME NEW s \in Side, ch[n][s] \in D PROVE FALSE
      OBVIOUS
    <2>1. N[n] <= N[ch[n][s]]
      BY <1>2
    <2> QED BY <1>4, <2>1
  <1>6. f[ch[n]["left"]] \in Seq(L) /\ f[ch[n]["right"]] \in Seq(L) /\ <<n>> \in Seq(L)
    <2>1. \A s \in Side : f[ch[n][s]] \in Seq(L)
      BY <1>4, <1>5
    <2>2. <<n>> \in Seq(L)
      BY <1>3
    <2> QED BY <2>1, <2>2
  <1>7. f[ch[n]["left"]] \o <<n>> \in Seq(L)
    BY <1>6, ConcatProperties
  <1>8. f[ch[n]["left"]] \o <<n>> \o f[ch[n]["right"]] \in Seq(L)
    BY <1>6, <1>7, ConcatProperties
  <1> QED BY <1>3, <1>8

LEMMA LinkedSlots == \A n \in Ref : IsLinked(n) <=> n \in Linked
  BY DEF IsLinked, Linked

LEMMA InOrderWalks ==
    ASSUME NEW d \in [Ref -> Nat], NEW h \in [Ref -> Nat], InvariantBy(d, h)
    PROVE  Walks(Linked, child, InOrderFrom)
  <1>1. PICK N : Sinking(Linked, child, N)
    BY MeasureExists
  <1>2. Linked \subseteq Node /\ child \in [Ref -> [Side -> Ref]]
    BY DEF InvariantBy, TypeOK, Linked
  <1>3. PICK f \in [Ref -> Seq(Linked)] : f = WalkMap(Linked, child)[f]
    <2>1. Seq(Linked) # {} /\ N \in [Ref -> Nat]
      BY <1>1, EmptySeq DEF Sinking
    <2>2. Descends(WalkMap(Linked, child), Ref, Seq(Linked), N)
      BY <1>1, <1>2, WalkMapDescends
    <2> DEFINE S == Ref
               V == Seq(Linked)
               G == WalkMap(Linked, child)
    <2>3. V # {} /\ N \in [S -> Nat] /\ Descends(G, S, V, N)
      BY <2>1, <2>2
    <2> HIDE DEF S, V, G
    <2>4. \E f \in [S -> V] : f = G[f]
      BY <2>3, RecursionExists
    <2> QED BY <2>4 DEF S, V, G
  <1>4. f = [n \in Ref |-> IF n \notin Linked THEN <<>>
                          ELSE f[child[n]["left"]] \o <<n>> \o f[child[n]["right"]]]
    BY <1>3 DEF WalkMap
  <1>5. InOrderFrom = [n \in Ref |-> IF n \notin Linked THEN <<>>
             ELSE InOrderFrom[child[n]["left"]] \o <<n>> \o InOrderFrom[child[n]["right"]]]
    <2>1. f = [n \in Ref |-> IF ~IsLinked(n) THEN <<>>
                            ELSE f[child[n]["left"]] \o <<n>> \o f[child[n]["right"]]]
      BY <1>4, LinkedSlots
    <2>2. InOrderFrom = [n \in Ref |-> IF ~IsLinked(n) THEN <<>>
               ELSE InOrderFrom[child[n]["left"]] \o <<n>> \o InOrderFrom[child[n]["right"]]]
      BY <2>1 DEF InOrderFrom
    <2> QED BY <2>2, LinkedSlots
  <1>6. InOrderFrom \in [Ref -> Seq(Linked)]
    BY <1>1, <1>2, <1>5, WalkSound
  <1> QED BY <1>2, <1>5, <1>6 DEF Walks

-----------------------------------------------------------------------------
(* One tree.  L is a set of nodes, linked by par and ch, and f its walk.   *)

Elements(s) == {s[i] : i \in DOMAIN s}
OnceEach(s) == \A i, j \in DOMAIN s : s[i] = s[j] => i = j

Treelike(L, rt, par, ch, d) ==
    /\ L \subseteq Node
    /\ ch \in [Ref -> [Side -> Ref]]
    /\ d \in [Ref -> Nat]
    /\ rt \in L => par[rt] = nil
    /\ \A n \in L : n # rt => par[n] \in L /\ \E s \in Side : ch[par[n]][s] = n
    /\ \A n \in L, s \in Side :
          ch[n][s] # nil => ch[n][s] \in L /\ par[ch[n][s]] = n /\ d[n] < d[ch[n][s]]
    /\ \A n \in L : ch[n]["left"] = ch[n]["right"] => ch[n]["left"] = nil

LEMMA TreeIsTreelike ==
    ASSUME NEW d \in [Ref -> Nat], NEW h, InvariantBy(d, h)
    PROVE  Treelike(Linked, root, parent, child, d)
  <1>1. TypeOK /\ LinksOK /\ Linked \subseteq Node /\ nil \notin Linked
    BY DEF InvariantBy, Linked
  <1>2. \A n \in Linked, s \in Side : child[n][s] # nil => d[n] < d[child[n][s]]
    BY DEF InvariantBy, Descending
  <1>3. child \in [Ref -> [Side -> Ref]]
    BY <1>1 DEF TypeOK
  <1>4. \A n \in Linked : n # root =>
           parent[n] \in Linked /\ \E s \in Side : child[parent[n]][s] = n
    BY <1>1 DEF LinksOK
  <1>5. \A n \in Linked, s \in Side :
           child[n][s] # nil => child[n][s] \in Linked /\ parent[child[n][s]] = n
    BY <1>1 DEF LinksOK
  <1>6. /\ root \in Linked => parent[root] = nil
        /\ \A n \in Linked : child[n]["left"] = child[n]["right"] => child[n]["left"] = nil
    BY <1>1 DEF LinksOK
  <1> QED BY <1>1, <1>2, <1>3, <1>4, <1>5, <1>6 DEF Treelike

\* A sequence that is put together of two and one element between them.
Join(a, e, b) == a \o <<e>> \o b

IsJoin(j, a, e, b) ==
    /\ Len(a) \in Nat /\ Len(b) \in Nat /\ Len(j) = Len(a) + 1 + Len(b)
    /\ DOMAIN a = 1 .. Len(a) /\ DOMAIN b = 1 .. Len(b) /\ DOMAIN j = 1 .. Len(j)
    /\ \A i \in 1 .. Len(a) : j[i] = a[i]
    /\ j[Len(a) + 1] = e
    /\ \A i \in 1 .. Len(b) : j[Len(a) + 1 + i] = b[i]
    /\ \A i \in 1 .. Len(j) : j[i] = IF i <= Len(a) THEN a[i]
                                    ELSE IF i = Len(a) + 1 THEN e
                                    ELSE b[i - (Len(a) + 1)]

LEMMA Joined ==
    ASSUME NEW S, NEW a \in Seq(S), NEW b \in Seq(S), NEW e \in S
    PROVE  Join(a, e, b) \in Seq(S) /\ IsJoin(Join(a, e, b), a, e, b)
  <1> DEFINE j == Join(a, e, b)
  <1> DEFINE c == a \o <<e>>
  <1>1. <<e>> \in Seq(S) /\ Len(<<e>>) = 1 /\ <<e>>[1] = e
    OBVIOUS
  <1>2. /\ c \in Seq(S) /\ Len(c) = Len(a) + 1
        /\ \A i \in 1 .. Len(a) + 1 : c[i] = IF i <= Len(a) THEN a[i] ELSE e
    BY <1>1, ConcatProperties
  <1>3. /\ j \in Seq(S) /\ Len(j) = Len(c) + Len(b)
        /\ \A i \in 1 .. Len(c) + Len(b) :
              j[i] = IF i <= Len(c) THEN c[i] ELSE b[i - Len(c)]
    BY <1>2, ConcatProperties DEF Join
  <1>4. Len(a) \in Nat /\ Len(b) \in Nat
    BY LenProperties
  <1>8. DOMAIN a = 1 .. Len(a) /\ DOMAIN b = 1 .. Len(b) /\ DOMAIN j = 1 .. Len(j)
    BY <1>3, LenProperties
  <1> HIDE DEF c, j
  <1>5. \A i \in 1 .. Len(a) + 1 + Len(b) :
           j[i] = IF i <= Len(a) THEN a[i]
                  ELSE IF i = Len(a) + 1 THEN e ELSE b[i - (Len(a) + 1)]
    BY <1>2, <1>3, <1>4
  <1>6. ASSUME NEW i \in 1 .. Len(b) PROVE j[Len(a) + 1 + i] = b[i]
    <2>1. /\ Len(a) + 1 + i \in 1 .. Len(a) + 1 + Len(b) /\ (Len(a) + 1 + i) - (Len(a) + 1) = i
          /\ ~(Len(a) + 1 + i <= Len(a)) /\ Len(a) + 1 + i # Len(a) + 1
      BY <1>4
    <2> QED BY <1>5, <2>1
  <1>7. j[Len(a) + 1] = e /\ \A i \in 1 .. Len(a) : j[i] = a[i]
    BY <1>2, <1>3, <1>4
  <1>9. Len(j) = Len(a) + 1 + Len(b) /\ j \in Seq(S)
    BY <1>2, <1>3, <1>4
  <1>10. IsJoin(j, a, e, b)
    BY <1>4, <1>5, <1>6, <1>7, <1>8, <1>9 DEF IsJoin
  <1> QED BY <1>9, <1>10 DEF j

LEMMA JoinedElements ==
    ASSUME NEW S, NEW a \in Seq(S), NEW b \in Seq(S), NEW e \in S
    PROVE  /\ Elements(Join(a, e, b)) = Elements(a) \cup {e} \cup Elements(b)
           /\ OnceEach(a) /\ OnceEach(b) /\ e \notin Elements(a) \cup Elements(b)
                 /\ Elements(a) \cap Elements(b) = {} => OnceEach(Join(a, e, b))
  <1> DEFINE j == Join(a, e, b)
  <1>0. IsJoin(j, a, e, b)
    BY Joined
  <1> HIDE DEF j
  <1>1. /\ Len(a) \in Nat /\ Len(b) \in Nat /\ Len(j) = Len(a) + 1 + Len(b)
        /\ DOMAIN a = 1 .. Len(a) /\ DOMAIN b = 1 .. Len(b) /\ DOMAIN j = 1 .. Len(j)
    BY <1>0 DEF IsJoin
  <1>2. /\ \A i \in 1 .. Len(a) : j[i] = a[i]
        /\ j[Len(a) + 1] = e
        /\ \A i \in 1 .. Len(b) : j[Len(a) + 1 + i] = b[i]
        /\ \A i \in 1 .. Len(j) :
              j[i] = IF i <= Len(a) THEN a[i]
                     ELSE IF i = Len(a) + 1 THEN e
                     ELSE b[i - (Len(a) + 1)]
    BY <1>0 DEF IsJoin
  <1>3. Elements(a) \subseteq Elements(j)
    BY <1>1, <1>2 DEF Elements
  <1>4. Elements(b) \subseteq Elements(j)
    <2> SUFFICES ASSUME NEW i \in 1 .. Len(b) PROVE b[i] \in Elements(j)
      BY <1>1 DEF Elements
    <2>1. Len(a) + 1 + i \in 1 .. Len(j) /\ j[Len(a) + 1 + i] = b[i]
      BY <1>1, <1>2
    <2> QED BY <1>1, <2>1 DEF Elements
  <1>5. e \in Elements(j)
    <2>1. Len(a) + 1 \in 1 .. Len(j)
      BY <1>1
    <2> QED BY <1>1, <1>2, <2>1 DEF Elements
  <1>6. ASSUME NEW i \in 1 .. Len(j)
        PROVE  \/ i \in 1 .. Len(a) /\ j[i] = a[i] /\ j[i] \in Elements(a)
               \/ i = Len(a) + 1 /\ j[i] = e
               \/ /\ i - (Len(a) + 1) \in 1 .. Len(b) /\ j[i] = b[i - (Len(a) + 1)]
                  /\ j[i] \in Elements(b)
    <2>1. CASE i <= Len(a)
      <3>1. i \in 1 .. Len(a)
        BY <1>1, <2>1
      <3> QED BY <1>1, <1>2, <3>1 DEF Elements
    <2>2. CASE i = Len(a) + 1
      BY <1>2, <2>2
    <2>3. CASE i > Len(a) + 1
      <3>1. i - (Len(a) + 1) \in 1 .. Len(b) /\ ~(i <= Len(a)) /\ i # Len(a) + 1
        BY <1>1, <2>3
      <3>2. j[i] = b[i - (Len(a) + 1)]
        BY <1>2, <3>1
      <3> QED BY <1>1, <3>1, <3>2 DEF Elements
    <2> QED BY <1>1, <2>1, <2>2, <2>3
  <1>7. Elements(j) \subseteq Elements(a) \cup {e} \cup Elements(b)
    BY <1>1, <1>6 DEF Elements
  <1>8. ASSUME OnceEach(a), OnceEach(b), e \notin Elements(a) \cup Elements(b),
               Elements(a) \cap Elements(b) = {},
               NEW i \in 1 .. Len(j), NEW k \in 1 .. Len(j), j[i] = j[k]
        PROVE  i = k
    <2>1. CASE i \in 1 .. Len(a) /\ j[i] = a[i] /\ j[i] \in Elements(a)
      <3>1. k \in 1 .. Len(a) /\ j[k] = a[k]
        BY <1>6, <1>8, <2>1
      <3> QED BY <1>1, <1>8, <2>1, <3>1 DEF OnceEach
    <2>2. CASE i = Len(a) + 1 /\ j[i] = e
      BY <1>6, <1>8, <2>2
    <2>3. CASE /\ i - (Len(a) + 1) \in 1 .. Len(b) /\ j[i] = b[i - (Len(a) + 1)]
               /\ j[i] \in Elements(b)
      <3>1. k - (Len(a) + 1) \in 1 .. Len(b) /\ j[k] = b[k - (Len(a) + 1)]
        BY <1>6, <1>8, <2>3
      <3>2. i - (Len(a) + 1) = k - (Len(a) + 1)
        BY <1>1, <1>8, <2>3, <3>1 DEF OnceEach
      <3> QED BY <1>1, <3>2
    <2> QED BY <1>6, <2>1, <2>2, <2>3
  <1>9. OnceEach(a) /\ OnceEach(b) /\ e \notin Elements(a) \cup Elements(b)
           /\ Elements(a) \cap Elements(b) = {} => OnceEach(j)
    BY <1>1, <1>8 DEF OnceEach
  <1> QED BY <1>3, <1>4, <1>5, <1>7, <1>9 DEF j

\* What the equation of a walk says at a node, and where there is none.
LEMMA WalkAt ==
    ASSUME NEW L, NEW ch, NEW f, Walks(L, ch, f), NEW n \in L
    PROVE  /\ f[ch[n]["left"]] \in Seq(L) /\ f[ch[n]["right"]] \in Seq(L) /\ f[n] \in Seq(L)
           /\ f[n] = Join(f[ch[n]["left"]], n, f[ch[n]["right"]])
  <1>1. n \in Ref /\ ch[n]["left"] \in Ref /\ ch[n]["right"] \in Ref
    BY DEF Walks
  <1>2. f[n] = Join(f[ch[n]["left"]], n, f[ch[n]["right"]])
    BY <1>1 DEF Walks, Join
  <1>3. f[ch[n]["left"]] \in Seq(L) /\ f[ch[n]["right"]] \in Seq(L) /\ f[n] \in Seq(L)
    BY <1>1 DEF Walks
  <1> QED BY <1>2, <1>3

LEMMA WalkElements ==
    ASSUME NEW L, NEW ch, NEW f, Walks(L, ch, f), NEW n \in L
    PROVE  Elements(f[n]) = Elements(f[ch[n]["left"]]) \cup {n}
                             \cup Elements(f[ch[n]["right"]])
  <1>1. /\ f[ch[n]["left"]] \in Seq(L) /\ f[ch[n]["right"]] \in Seq(L)
        /\ f[n] = Join(f[ch[n]["left"]], n, f[ch[n]["right"]])
    BY WalkAt
  <1> QED BY <1>1, JoinedElements

LEMMA WalkOnce ==
    ASSUME NEW L, NEW ch, NEW f, Walks(L, ch, f), NEW n \in L,
           OnceEach(f[ch[n]["left"]]), OnceEach(f[ch[n]["right"]]),
           n \notin Elements(f[ch[n]["left"]]) \cup Elements(f[ch[n]["right"]]),
           Elements(f[ch[n]["left"]]) \cap Elements(f[ch[n]["right"]]) = {}
    PROVE  OnceEach(f[n])
  <1>1. /\ f[ch[n]["left"]] \in Seq(L) /\ f[ch[n]["right"]] \in Seq(L)
        /\ f[n] = Join(f[ch[n]["left"]], n, f[ch[n]["right"]])
    BY WalkAt
  <1> QED BY <1>1, JoinedElements

LEMMA WalkOutside ==
    ASSUME NEW L, NEW ch, NEW f, Walks(L, ch, f), NEW n \in Ref, n \notin L
    PROVE  f[n] = <<>> /\ Elements(f[n]) = {} /\ OnceEach(f[n])
  <1>1. f[n] = <<>>
    BY DEF Walks
  <1> QED BY <1>1 DEF Elements, OnceEach

\* A walk below n stays below n: it goes from each node to its children, and
\* every node but n has its parent there.
LEMMA WalkBelow ==
    ASSUME NEW L, NEW rt, NEW par, NEW ch, NEW d, Treelike(L, rt, par, ch, d),
           NEW N, Sinking(L, ch, N), NEW f, Walks(L, ch, f)
    PROVE  \A n \in L : \A m \in Elements(f[n]) :
              /\ m \in L /\ d[n] <= d[m]
              /\ m # n => par[m] \in Elements(f[n])
              /\ \A s \in Side : ch[m][s] # nil => ch[m][s] \in Elements(f[n])
  <1> DEFINE Good(n) == \A m \in Elements(f[n]) :
                           /\ m \in L /\ d[n] <= d[m]
                           /\ m # n => par[m] \in Elements(f[n])
                           /\ \A s \in Side : ch[m][s] # nil => ch[m][s] \in Elements(f[n])
             D == {n \in L : ~Good(n)}
  <1>1. SUFFICES ASSUME D # {} PROVE FALSE
    OBVIOUS
  <1>2. L \subseteq Node /\ nil \notin L /\ ch \in [Ref -> [Side -> Ref]] /\ d \in [Ref -> Nat]
    BY DEF Treelike
  <1>3. PICK n \in D : \A u \in D : N[n] <= N[u]
    <2>1. \A u \in D : N[u] \in Nat
      BY <1>2 DEF Sinking
    <2> HIDE DEF D
    <2> QED BY <1>1, <2>1, LeastOf
  <1>4. n \in L /\ ~Good(n) /\ n \in Ref
    BY <1>2, <1>3
  <1>5. ASSUME NEW s \in Side, ch[n][s] # nil
        PROVE  /\ ch[n][s] \in L /\ par[ch[n][s]] = n /\ d[n] < d[ch[n][s]]
               /\ Good(ch[n][s])
    <2>1. ch[n][s] \in L /\ par[ch[n][s]] = n /\ d[n] < d[ch[n][s]]
      BY <1>4, <1>5 DEF Treelike
    <2>2. N[ch[n][s]] < N[n] /\ N[n] \in Nat /\ N[ch[n][s]] \in Nat
      BY <1>2, <1>4, <2>1 DEF Sinking
    <2>3. ch[n][s] \notin D
      BY <1>3, <2>2
    <2> HIDE DEF Good
    <2> QED BY <2>1, <2>3
  <1>6. /\ Elements(f[n]) = Elements(f[ch[n]["left"]]) \cup {n} \cup Elements(f[ch[n]["right"]])
        /\ \A s \in Side : ch[n][s] = nil => Elements(f[ch[n][s]]) = {}
        /\ \A k \in L : k \in Elements(f[k])
    <2>1. Elements(f[nil]) = {}
      BY <1>2, WalkOutside
    <2>2. \A k \in L : Elements(f[k]) = Elements(f[ch[k]["left"]]) \cup {k}
                                         \cup Elements(f[ch[k]["right"]])
      BY <1>2, WalkElements
    <2> QED BY <1>4, <2>1, <2>2
  <1>7. ASSUME NEW m \in Elements(f[n])
        PROVE  /\ m \in L /\ d[n] <= d[m]
               /\ m # n => par[m] \in Elements(f[n])
               /\ \A s \in Side : ch[m][s] # nil => ch[m][s] \in Elements(f[n])
    <2>1. CASE m = n
      <3>1. \A s \in Side : ch[n][s] # nil => ch[n][s] \in Elements(f[n])
        BY <1>5, <1>6
      <3> QED BY <1>2, <1>4, <2>1, <3>1
    <2>2. ASSUME NEW s \in Side, m \in Elements(f[ch[n][s]])
          PROVE  /\ m \in L /\ d[n] <= d[m]
                 /\ m # n => par[m] \in Elements(f[n])
                 /\ \A r \in Side : ch[m][r] # nil => ch[m][r] \in Elements(f[n])
      <3>1. ch[n][s] # nil
        BY <1>6, <2>2
      <3>2. ch[n][s] \in L /\ par[ch[n][s]] = n /\ d[n] < d[ch[n][s]] /\ Good(ch[n][s])
        BY <1>5, <3>1
      <3>3. Elements(f[ch[n][s]]) \subseteq Elements(f[n]) /\ n \in Elements(f[n])
        BY <1>6
      <3>4. m \in L /\ d[ch[n][s]] <= d[m]
        BY <2>2, <3>2
      <3>5. d[n] <= d[m]
        BY <1>2, <1>4, <3>2, <3>4
      <3> QED BY <2>2, <3>2, <3>3, <3>4, <3>5
    <2> QED BY <1>6, <2>1, <2>2
  <1> QED BY <1>4, <1>7

\* The two walks below a node have no node in common, and not that node.
LEMMA WalksApart ==
    ASSUME NEW L, NEW rt, NEW par, NEW ch, NEW d, Treelike(L, rt, par, ch, d),
           NEW N, Sinking(L, ch, N), NEW f, Walks(L, ch, f), NEW n \in L
    PROVE  /\ n \notin Elements(f[ch[n]["left"]]) \cup Elements(f[ch[n]["right"]])
           /\ Elements(f[ch[n]["left"]]) \cap Elements(f[ch[n]["right"]]) = {}
  <1> DEFINE l == ch[n]["left"]
             r == ch[n]["right"]
  <1>1. L \subseteq Node /\ nil \notin L /\ ch \in [Ref -> [Side -> Ref]] /\ d \in [Ref -> Nat] /\ n \in Ref
    BY DEF Treelike
  <1>2. /\ \A s \in Side : ch[n][s] = nil => Elements(f[ch[n][s]]) = {}
        /\ \A s \in Side : ch[n][s] # nil =>
              ch[n][s] \in L /\ par[ch[n][s]] = n /\ d[n] < d[ch[n][s]]
    <2>1. Elements(f[nil]) = {}
      BY <1>1, WalkOutside
    <2> QED BY <2>1 DEF Treelike
  <1>3. \A s \in Side : n \notin Elements(f[ch[n][s]])
    <2> SUFFICES ASSUME NEW s \in Side, n \in Elements(f[ch[n][s]]) PROVE FALSE
      OBVIOUS
    <2>1. ch[n][s] \in L /\ d[n] < d[ch[n][s]]
      BY <1>2
    <2>2. d[ch[n][s]] <= d[n]
      BY <2>1, WalkBelow
    <2> QED BY <1>1, <2>1, <2>2
  <1>4. ASSUME Elements(f[l]) \cap Elements(f[r]) # {} PROVE FALSE
    <2> DEFINE B == Elements(f[l]) \cap Elements(f[r])
    <2>1. l \in L /\ r \in L /\ par[l] = n /\ par[r] = n /\ l # r
      BY <1>1, <1>2, <1>4 DEF Treelike
    <2>2. PICK m \in B : \A u \in B : d[m] <= d[u]
      <3>1. \A u \in B : d[u] \in Nat
        BY <1>1, <2>1, WalkBelow
      <3>2. B # {}
        BY <1>4
      <3> HIDE DEF B
      <3> QED BY <3>1, <3>2, LeastOf
    <2>3. m \in L /\ m # l /\ m # r
      BY <1>3, <2>1, <2>2, WalkBelow
    <2>4. par[m] \in B
      BY <2>1, <2>2, <2>3, WalkBelow
    <2>5. m # rt
      <3>1. m = rt => par[m] = nil
        BY <2>3 DEF Treelike
      <3>2. par[m] \in L
        BY <2>1, <2>4, WalkBelow
      <3> QED BY <1>1, <3>1, <3>2
    <2>6. d[par[m]] < d[m] /\ d[m] \in Nat /\ d[par[m]] \in Nat
      <3>1. par[m] \in L /\ \E s \in Side : ch[par[m]][s] = m
        BY <2>3, <2>5 DEF Treelike
      <3> QED BY <1>1, <2>3, <3>1 DEF Treelike
    <2>7. d[m] <= d[par[m]]
      BY <2>2, <2>4
    <2> QED BY <2>6, <2>7
  <1> QED BY <1>3, <1>4

\* So the walk from the root meets every node, and meets it once.
LEMMA WalkMeetsAllOnce ==
    ASSUME NEW L, NEW rt, NEW par, NEW ch, NEW d, Treelike(L, rt, par, ch, d),
           NEW N, Sinking(L, ch, N), NEW f, Walks(L, ch, f), rt \in Ref,
           rt # nil => rt \in L
    PROVE  Elements(f[rt]) = L /\ \A n \in Ref : OnceEach(f[n])
  <1>1. L \subseteq Node /\ nil \notin L /\ ch \in [Ref -> [Side -> Ref]] /\ d \in [Ref -> Nat]
    BY DEF Treelike
  <1>2. \A n \in Ref : OnceEach(f[n])
    <2> DEFINE D == {n \in Ref : ~OnceEach(f[n])}
    <2>1. SUFFICES ASSUME D # {} PROVE FALSE
      OBVIOUS
    <2>2. PICK n \in D : \A u \in D : N[n] <= N[u]
      <3>1. \A u \in D : N[u] \in Nat
        BY DEF Sinking
      <3> HIDE DEF D
      <3> QED BY <2>1, <3>1, LeastOf
    <2>3. n \in L /\ n \in Ref /\ ~OnceEach(f[n])
      BY <1>1, <2>2, WalkOutside
    <2>4. \A s \in Side : OnceEach(f[ch[n][s]])
      <3> SUFFICES ASSUME NEW s \in Side, ~OnceEach(f[ch[n][s]]) PROVE FALSE
        OBVIOUS
      <3>1. ch[n][s] \in D
        BY <1>1, <2>3
      <3>2. N[n] <= N[ch[n][s]] /\ N[ch[n][s]] < N[n] /\ N[n] \in Nat /\ N[ch[n][s]] \in Nat
        BY <1>1, <2>2, <2>3, <3>1 DEF Sinking
      <3> QED BY <3>2
    <2>5. /\ n \notin Elements(f[ch[n]["left"]]) \cup Elements(f[ch[n]["right"]])
          /\ Elements(f[ch[n]["left"]]) \cap Elements(f[ch[n]["right"]]) = {}
      BY <2>3, WalksApart
    <2>6. OnceEach(f[n])
      BY <1>1, <2>3, <2>4, <2>5, WalkOnce
    <2> QED BY <2>3, <2>6
  <1>3. L # {} => rt \in L
    <2>1. Rooted(L, rt, par, ch, d)
      BY <1>1 DEF Rooted, Treelike
    <2> QED BY <1>1, <2>1, RootExists
  <1>4. CASE rt \notin L
    <2>1. L = {}
      BY <1>3, <1>4
    <2> QED BY <1>1, <1>2, <2>1, WalkOutside
  <1>5. CASE rt \in L
    <2> DEFINE E == L \ Elements(f[rt])
    <2>1. Elements(f[rt]) \subseteq L
      BY <1>5, WalkBelow
    <2>2. SUFFICES ASSUME E # {} PROVE FALSE
      BY <1>2, <2>1
    <2>3. PICK m \in E : \A u \in E : d[m] <= d[u]
      <3>1. \A u \in E : d[u] \in Nat
        BY <1>1
      <3> HIDE DEF E
      <3> QED BY <2>2, <3>1, LeastOf
    <2>4. m # rt /\ m \in L
      <3>1. rt \in Elements(f[rt])
        BY <1>1, <1>5, WalkElements
      <3> QED BY <2>3, <3>1
    <2>5. PICK s \in Side : par[m] \in L /\ ch[par[m]][s] = m
      BY <2>4 DEF Treelike
    <2>6. d[par[m]] < d[m] /\ d[m] \in Nat /\ d[par[m]] \in Nat /\ m # nil
      BY <1>1, <2>4, <2>5 DEF Treelike
    <2>7. par[m] \in Elements(f[rt])
      BY <2>3, <2>5, <2>6
    <2>8. m \in Elements(f[rt])
      BY <1>5, <2>5, <2>6, <2>7, WalkBelow
    <2> QED BY <2>3, <2>8
  <1> QED BY <1>2, <1>4, <1>5

LEMMA InOrderMeetsAll ==
    ASSUME NEW d \in [Ref -> Nat], NEW h \in [Ref -> Nat], InvariantBy(d, h)
    PROVE  /\ InOrder \in Seq(Linked) /\ Elements(InOrder) = Linked
           /\ \A n \in Ref : OnceEach(InOrderFrom[n])
  <1>1. PICK N : Sinking(Linked, child, N)
    BY MeasureExists
  <1>2. Treelike(Linked, root, parent, child, d) /\ Walks(Linked, child, InOrderFrom)
    BY TreeIsTreelike, InOrderWalks
  <1>3. root \in Ref /\ (root # nil => root \in Linked)
    BY DEF InvariantBy, TypeOK, LinksOK
  <1>4. Elements(InOrder) = Linked /\ \A n \in Ref : OnceEach(InOrderFrom[n])
    BY <1>1, <1>2, <1>3, WalkMeetsAllOnce DEF InOrder
  <1> QED BY <1>2, <1>3, <1>4 DEF Walks, InOrder

\* Every linked node is on the in-order once, in the middle of calls too.
THEOREM OneTreeHolds == Spec => []OneTree
  <1>1. IInv => OneTree
    <2> SUFFICES ASSUME IInv PROVE OneTree
      OBVIOUS
    <2>1. PICK d \in [Ref -> Nat], h \in [Ref -> Nat] : InvariantBy(d, h)
      BY DEF IInv
    <2>2. root \in Ref
      BY <2>1 DEF InvariantBy, TypeOK
    <2>3. Elements(InOrder) = Linked /\ OnceEach(InOrder)
      BY <2>1, <2>2, InOrderMeetsAll DEF InOrder
    <2> QED BY <2>3 DEF OneTree, Elements, OnceEach
  <1> QED BY <1>1, InvariantHolds, PTL

-----------------------------------------------------------------------------
(* The order of the walk.                                                  *)

Ascends(s, v) == \A i, j \in DOMAIN s : i < j => v[s[i]] <= v[s[j]]

LEMMA JoinAscends ==
    ASSUME NEW S, NEW a \in Seq(S), NEW b \in Seq(S), NEW e \in S, NEW v, \A n \in S : v[n] \in Int,
           Ascends(a, v), Ascends(b, v),
           \A m \in Elements(a) : v[m] <= v[e], \A m \in Elements(b) : v[m] >= v[e]
    PROVE  Ascends(Join(a, e, b), v)
  <1> DEFINE j == Join(a, e, b)
             k == Len(a) + 1
  <1>1. IsJoin(j, a, e, b)
    BY Joined
  <1>2. /\ \A i \in DOMAIN a : a[i] \in S /\ a[i] \in Elements(a)
        /\ \A i \in DOMAIN b : b[i] \in S /\ b[i] \in Elements(b)
    BY ElementOfSeq DEF Elements
  <1> HIDE DEF j
  <1>3. ASSUME NEW i \in DOMAIN j
        PROVE  \/ i < k /\ i \in DOMAIN a /\ j[i] = a[i]
               \/ i = k /\ j[i] = e
               \/ i > k /\ i - k \in DOMAIN b /\ j[i] = b[i - k]
    <2>1. i \in 1 .. Len(j) /\ k \in Nat
      BY <1>1 DEF IsJoin
    <2>2. CASE i < k
      BY <1>1, <2>1, <2>2 DEF IsJoin
    <2>3. CASE i = k
      BY <1>1, <2>1, <2>3 DEF IsJoin
    <2>4. CASE i > k
      <3>1. ~(i <= Len(a)) /\ i # Len(a) + 1 /\ i - k \in 1 .. Len(b)
        BY <1>1, <2>1, <2>4 DEF IsJoin
      <3> QED BY <1>1, <2>1, <2>4, <3>1 DEF IsJoin
    <2> QED BY <2>1, <2>2, <2>3, <2>4
  <1>4. ASSUME NEW i \in DOMAIN j, NEW l \in DOMAIN j, i < l
        PROVE  v[j[i]] <= v[j[l]]
    <2>1. i \in Nat /\ l \in Nat /\ k \in Nat /\ v[e] \in Int
      BY <1>1 DEF IsJoin
    <2> HIDE DEF k
    <2>2. CASE l < k
      <3>1. i < k
        BY <1>4, <2>1, <2>2
      <3> QED BY <1>3, <1>4, <2>1, <2>2, <3>1 DEF Ascends
    <2>3. CASE l = k
      <3>1. i < k
        BY <1>4, <2>1, <2>3
      <3> QED BY <1>2, <1>3, <2>1, <2>3, <3>1
    <2>4. CASE l > k
      <3>1. l - k \in DOMAIN b /\ j[l] = b[l - k] /\ v[j[l]] \in Int /\ v[e] <= v[j[l]]
        BY <1>2, <1>3, <2>1, <2>4
      <3>2. CASE i > k
        <4>1. i - k \in DOMAIN b /\ j[i] = b[i - k] /\ i - k < l - k
          BY <1>3, <1>4, <2>1, <3>2
        <4> QED BY <3>1, <4>1 DEF Ascends
      <3>3. CASE i = k
        BY <1>3, <2>1, <3>1, <3>3
      <3>4. CASE i < k
        <4>1. v[j[i]] \in Int /\ v[j[i]] <= v[e]
          BY <1>2, <1>3, <2>1, <3>4
        <4> QED BY <2>1, <3>1, <4>1
      <3> QED BY <2>1, <3>2, <3>3, <3>4
    <2> QED BY <2>1, <2>2, <2>3, <2>4
  <1> QED BY <1>4 DEF Ascends, j

\* The values below a node stand where it allows, and in ascending order.
LEMMA WalkAscends ==
    ASSUME NEW d \in [Ref -> Nat], NEW h \in [Ref -> Nat], InvariantBy(d, h),
           NEW A \in [Ref -> SUBSET Int], Narrowing(A)
    PROVE  \A n \in Linked :
              /\ Ascends(InOrderFrom[n], value)
              /\ \A m \in Elements(InOrderFrom[n]) : m \in Linked /\ value[m] \in A[n]
              /\ \A s \in Side : \A m \in Elements(InOrderFrom[child[n][s]]) : Fits(value[m], n, s)
  <1> DEFINE f == InOrderFrom
             Good(n) == /\ Ascends(f[n], value)
                        /\ \A m \in Elements(f[n]) : m \in Linked /\ value[m] \in A[n]
                        /\ \A s \in Side : \A m \in Elements(f[child[n][s]]) : Fits(value[m], n, s)
             D == {n \in Linked : ~Good(n)}
  <1>1. PICK N : Sinking(Linked, child, N)
    BY MeasureExists
  <1>2. /\ TypeOK /\ LinksOK /\ Linked \subseteq Node /\ nil \notin Linked
        /\ Walks(Linked, child, f)
        /\ \A n \in Linked : value[n] \in Int
    BY InOrderWalks, ValueIsInt DEF InvariantBy, Linked
  <1> HIDE DEF f
  <1>3. SUFFICES ASSUME D # {} PROVE FALSE
    BY DEF f
  <1>4. PICK n \in D : \A u \in D : N[n] <= N[u]
    <2>1. \A u \in D : N[u] \in Nat
      BY <1>1, <1>2 DEF Sinking
    <2> HIDE DEF D
    <2> QED BY <1>3, <2>1, LeastOf
  <1>5. n \in Linked /\ n \in Ref /\ ~Good(n)
    BY <1>2, <1>4
  <1>6. ASSUME NEW s \in Side
        PROVE  /\ Ascends(f[child[n][s]], value)
               /\ \A m \in Elements(f[child[n][s]]) :
                     m \in Linked /\ value[m] \in A[n] /\ Fits(value[m], n, s)
    <2>1. CASE child[n][s] = nil
      <3>1. f[nil] = <<>> /\ Elements(f[nil]) = {}
        BY <1>2, WalkOutside
      <3>2. Ascends(<<>>, value)
        BY DEF Ascends
      <3> QED BY <2>1, <3>1, <3>2
    <2>2. CASE child[n][s] # nil
      <3>1. child[n][s] \in Linked /\ child[n][s] \in Ref
        BY <1>2, <1>5, <2>2 DEF LinksOK
      <3>2. child[n][s] \notin D
        <4>1. N[child[n][s]] < N[n] /\ N[n] \in Nat /\ N[child[n][s]] \in Nat
          BY <1>1, <1>5, <3>1 DEF Sinking
        <4> QED BY <1>4, <4>1
      <3>3. Good(child[n][s])
        BY <3>1, <3>2
      <3>4. \A v \in A[child[n][s]] : v \in A[n] /\ Fits(v, n, s)
        BY <1>5, <2>2 DEF Narrowing
      <3> QED BY <3>3, <3>4
    <2> QED BY <2>1, <2>2
  <1>7. /\ f[child[n]["left"]] \in Seq(Linked) /\ f[child[n]["right"]] \in Seq(Linked)
        /\ f[n] = Join(f[child[n]["left"]], n, f[child[n]["right"]])
        /\ Elements(f[n]) = Elements(f[child[n]["left"]]) \cup {n}
                             \cup Elements(f[child[n]["right"]])
    <2> DEFINE L == Linked
               ch == child
    <2>1. Walks(L, ch, f) /\ n \in L
      BY <1>2, <1>5
    <2> HIDE DEF L, ch
    <2>2. /\ f[ch[n]["left"]] \in Seq(L) /\ f[ch[n]["right"]] \in Seq(L)
          /\ f[n] = Join(f[ch[n]["left"]], n, f[ch[n]["right"]])
      BY <2>1, WalkAt
    <2>3. Elements(f[n]) = Elements(f[ch[n]["left"]]) \cup {n} \cup Elements(f[ch[n]["right"]])
      BY <2>1, WalkElements
    <2> QED BY <2>2, <2>3 DEF L, ch
  <1>8. /\ \A m \in Elements(f[child[n]["left"]]) : value[m] <= value[n]
        /\ \A m \in Elements(f[child[n]["right"]]) : value[m] >= value[n]
    BY <1>6 DEF Fits
  <1>9. Ascends(f[n], value)
    <2> DEFINE a == f[child[n]["left"]]
               b == f[child[n]["right"]]
    <2>1. Ascends(a, value) /\ Ascends(b, value) /\ a \in Seq(Linked) /\ b \in Seq(Linked)
      BY <1>6, <1>7
    <2>2. /\ \A m \in Elements(a) : value[m] <= value[n]
          /\ \A m \in Elements(b) : value[m] >= value[n]
      BY <1>8
    <2>3. f[n] = Join(a, n, b)
      BY <1>7
    <2> HIDE DEF a, b
    <2>4. Ascends(Join(a, n, b), value)
      BY <1>2, <1>5, <2>1, <2>2, JoinAscends
    <2> QED BY <2>3, <2>4
  <1>10. \A m \in Elements(f[n]) : m \in Linked /\ value[m] \in A[n]
    BY <1>5, <1>6, <1>7 DEF Narrowing
  <1> QED BY <1>5, <1>6, <1>9, <1>10

\* Where the comparator decides, the in-order ascends at every step, strictly
\* without duplicates: no rotation, cut or replacement disturbs it.
THEOREM SortedHolds == Spec => []Sorted
  <1>1. IInv /\ OrderInv => Sorted
    <2> SUFFICES ASSUME IInv, OrderInv, ~Positional PROVE Sorted
      BY DEF Sorted
    <2>1. PICK d \in [Ref -> Nat], h \in [Ref -> Nat] : InvariantBy(d, h)
      BY DEF IInv
    <2>2. PICK A \in [Ref -> SUBSET Int] : Narrowing(A)
      BY DEF OrderInv, OrderedBy
    <2>3. Ascends(InOrder, value)
      <3>1. root \in Ref /\ (root # nil => root \in Linked) /\ nil \notin Linked
        BY <2>1 DEF InvariantBy, TypeOK, LinksOK, Linked
      <3>2. CASE root \in Linked
        BY <2>1, <2>2, <3>2, WalkAscends DEF InOrder
      <3>3. CASE root \notin Linked
        <4>1. Walks(Linked, child, InOrderFrom)
          BY <2>1, InOrderWalks
        <4>2. InOrder = <<>>
          BY <3>1, <3>3, <4>1, WalkOutside DEF InOrder
        <4> QED BY <4>2 DEF Ascends
      <3> QED BY <3>2, <3>3
    <2>4. Elements(InOrder) = Linked /\ OnceEach(InOrder) /\ InOrder \in Seq(Linked)
      <3>1. root \in Ref
        BY <2>1 DEF InvariantBy, TypeOK
      <3> QED BY <2>1, <3>1, InOrderMeetsAll DEF InOrder
    <2> DEFINE seq == InOrder
    <2>5. ASSUME NEW i \in 1 .. Len(seq) - 1
          PROVE  /\ value[seq[i]] <= value[seq[i + 1]]
                 /\ ~AllowDuplicates => value[seq[i]] # value[seq[i + 1]]
                 /\ value[seq[i]] \in Int /\ value[seq[i + 1]] \in Int
      <3>1. Len(seq) \in Nat /\ DOMAIN seq = 1 .. Len(seq)
        BY <2>4, LenProperties
      <3>2. i \in DOMAIN seq /\ i + 1 \in DOMAIN seq /\ i < i + 1 /\ i # i + 1
        BY <3>1
      <3>3. seq[i] \in Linked /\ seq[i + 1] \in Linked /\ seq[i] # seq[i + 1]
        BY <2>4, <3>2 DEF Elements, OnceEach
      <3>4. value[seq[i]] \in Int /\ value[seq[i + 1]] \in Int
        BY <2>1, <3>3, ValueIsInt DEF InvariantBy
      <3>5. value[seq[i]] <= value[seq[i + 1]]
        BY <2>3, <3>2 DEF Ascends
      <3>6. ~AllowDuplicates => value[seq[i]] # value[seq[i + 1]]
        BY <3>3 DEF OrderInv, KeysUnique
      <3> QED BY <3>4, <3>5, <3>6
    <2> HIDE DEF seq
    <2>6. \A i \in 1 .. Len(seq) - 1 :
             IF AllowDuplicates THEN value[seq[i]] <= value[seq[i + 1]]
                                ELSE value[seq[i]] < value[seq[i + 1]]
      BY <2>5
    <2> QED BY <2>6 DEF Sorted, seq
  <1> QED BY <1>1, InvariantHolds, OrderHolds, PTL

-----------------------------------------------------------------------------
(* Heights.                                                                *)

\* The black height that the left links lead to is the one of the invariant.
LEMMA BlackHeightIs ==
    ASSUME NEW d \in [Ref -> Nat], NEW h \in [Ref -> Nat], InvariantBy(d, h)
    PROVE  BlackHeightFrom = [n \in Ref |-> IF n \in Linked THEN h[n] ELSE 0]
  <1> DEFINE e == [n \in Ref |-> IF n \in Linked THEN h[n] ELSE 0]
             b == BlackHeightFrom
  <1>1. PICK N : Sinking(Linked, child, N)
    BY MeasureExists
  <1>2. /\ TypeOK /\ LinksOK /\ Balanced(h) /\ Linked \subseteq Node /\ nil \notin Linked
        /\ \A n \in Linked : n \in Ref /\ child[n]["left"] \in Linked \cup {nil}
    BY DEF InvariantBy, Linked, LinksOK
  <1>3. \A n \in Linked : e[n] = e[child[n]["left"]] + Weight(n, "left")
    <2> SUFFICES ASSUME NEW n \in Linked PROVE e[n] = e[child[n]["left"]] + Weight(n, "left")
      OBVIOUS
    <2>1. h[n] = h[child[n]["left"]] + Weight(n, "left") /\ h[nil] = 0
      BY <1>2 DEF Balanced
    <2>2. e[n] = h[n] /\ e[child[n]["left"]] = h[child[n]["left"]]
      BY <1>2, <2>1
    <2> QED BY <2>1, <2>2
  <1>4. e = [n \in Ref |-> IF ~IsLinked(n) THEN 0
                          ELSE e[child[n]["left"]] + Weight(n, "left")]
    <2>1. \A n \in Ref : ~IsLinked(n) => e[n] = 0
      BY LinkedSlots
    <2>2. \A n \in Ref : IsLinked(n) => e[n] = e[child[n]["left"]] + Weight(n, "left")
      BY <1>3, LinkedSlots
    <2>3. e = [n \in Ref |-> e[n]]
      OBVIOUS
    <2> HIDE DEF e
    <2> QED BY <2>1, <2>2, <2>3
  <1>5. b = [n \in Ref |-> IF ~IsLinked(n) THEN 0
                          ELSE b[child[n]["left"]] + Weight(n, "left")]
    <2> HIDE DEF e
    <2> QED BY <1>4 DEF BlackHeightFrom
  <1> DEFINE D == {n \in Ref : b[n] # e[n]}
  <1>6. SUFFICES ASSUME D # {} PROVE FALSE
    <2>1. b = [n \in Ref |-> b[n]]
      BY <1>5
    <2>2. e = [n \in Ref |-> e[n]]
      OBVIOUS
    <2>3. D = {} => \A n \in Ref : b[n] = e[n]
      OBVIOUS
    <2> HIDE DEF b, e, D
    <2>4. D = {} => b = e
      BY <2>1, <2>2, <2>3
    <2> QED BY <2>4 DEF b, e
  <1>7. PICK n \in D : \A u \in D : N[n] <= N[u]
    <2>1. \A u \in D : N[u] \in Nat
      BY <1>1 DEF Sinking
    <2> HIDE DEF D
    <2> QED BY <1>6, <2>1, LeastOf
  <1> HIDE DEF b, e
  <1>8. n \in Linked
    BY <1>4, <1>5, <1>7, LinkedSlots
  <1>9. child[n]["left"] \in Ref /\ b[child[n]["left"]] = e[child[n]["left"]]
    <2>1. child[n]["left"] \in Ref /\ N[child[n]["left"]] < N[n] /\ N[n] \in Nat /\ N[child[n]["left"]] \in Nat
      BY <1>1, <1>2, <1>8 DEF Sinking
    <2> QED BY <1>7, <2>1
  <1>10. b[n] = b[child[n]["left"]] + Weight(n, "left")
    BY <1>2, <1>5, <1>8, LinkedSlots
  <1> QED BY <1>3, <1>7, <1>8, <1>9, <1>10

LEMMA BlackHeightBalances ==
    ASSUME NEW d \in [Ref -> Nat], NEW h \in [Ref -> Nat], InvariantBy(d, h)
    PROVE  BlackHeightFrom \in [Ref -> Nat] /\ Balanced(BlackHeightFrom)
  <1> DEFINE e == [n \in Ref |-> IF n \in Linked THEN h[n] ELSE 0]
  <1>1. /\ Balanced(h) /\ LinksOK /\ Linked \subseteq Node /\ nil \notin Linked
    BY DEF InvariantBy, Linked
  <1>2. e \in [Ref -> Nat] /\ e[nil] = 0
    BY <1>1
  <1>3. ASSUME NEW n \in Linked, NEW s \in Side PROVE e[n] = e[child[n][s]] + Weight(n, s)
    <2>1. h[n] = h[child[n][s]] + Weight(n, s) /\ h[nil] = 0
      BY <1>1 DEF Balanced
    <2>2. e[n] = h[n] /\ e[child[n][s]] = h[child[n][s]]
      BY <1>1, <2>1 DEF LinksOK
    <2> QED BY <2>1, <2>2
  <1> HIDE DEF e
  <1>4. Balanced(e)
    BY <1>2, <1>3 DEF Balanced
  <1>5. BlackHeightFrom = e
    BY BlackHeightIs DEF e
  <1> QED BY <1>2, <1>4, <1>5

\* Every path down from a node has as many black nodes as any other, at every
\* step, when the black that x lacks is counted.
THEOREM BlackHeightsAgree == Spec => []BlackBalanced
  <1>1. IInv => BlackBalanced
    BY BlackHeightBalances DEF IInv, BlackBalanced
  <1> QED BY <1>1, InvariantHolds, PTL

-----------------------------------------------------------------------------
(* Levels.                                                                 *)

\* N is less at the parent, be it nil, than at the node.
Climbing(N) == N \in [Ref -> Nat] /\ \A n \in Linked : N[parent[n]] < N[n]

LEMMA ClimbExists ==
    ASSUME NEW d \in [Ref -> Nat], NEW h, InvariantBy(d, h)
    PROVE  \E N : Climbing(N)
  <1> DEFINE N == [n \in Ref |-> IF n \in Linked THEN d[n] + 1 ELSE 0]
  <1>1. TypeOK /\ LinksOK /\ Linked \subseteq Node /\ nil \notin Linked
    BY DEF InvariantBy, Linked
  <1>2. N \in [Ref -> Nat]
    OBVIOUS
  <1>3. ASSUME NEW n \in Linked PROVE N[parent[n]] < N[n]
    <2>1. CASE parent[n] \notin Linked
      <3>1. n \in Ref /\ parent[n] \in Ref /\ d[n] \in Nat
        BY <1>1 DEF TypeOK
      <3> QED BY <2>1, <3>1
    <2>2. CASE parent[n] \in Linked
      <3>1. PICK s \in Side : child[parent[n]][s] = n
        BY <1>1, <2>2 DEF LinksOK
      <3>2. d[parent[n]] < d[n]
        BY <1>1, <2>2, <3>1 DEF InvariantBy, Descending
      <3>3. n \in Ref /\ parent[n] \in Ref /\ d[n] \in Nat /\ d[parent[n]] \in Nat
        BY <1>1, <2>2
      <3> QED BY <2>2, <3>2, <3>3
    <2> QED BY <2>1, <2>2
  <1> HIDE DEF N
  <1> QED BY <1>2, <1>3 DEF Climbing

LEMMA LevelIs ==
    ASSUME NEW d \in [Ref -> Nat], NEW h, InvariantBy(d, h)
    PROVE  /\ LevelFrom \in [Ref -> Nat] /\ LevelFrom[nil] = 0
           /\ \A n \in Linked : LevelFrom[n] = 1 + LevelFrom[parent[n]]
  <1> DEFINE G == [f \in [Ref -> Nat] |->
                     [n \in Ref |-> IF n \notin Linked THEN 0 ELSE 1 + f[parent[n]]]]
  <1>1. PICK N : Climbing(N)
    BY ClimbExists
  <1>2. parent \in [Ref -> Ref] /\ Linked \subseteq Node
    BY DEF InvariantBy, TypeOK, Linked
  <1>3. G \in [[Ref -> Nat] -> [Ref -> Nat]]
    BY <1>2
  <1>4. ASSUME NEW f \in [Ref -> Nat], NEW g \in [Ref -> Nat], NEW n \in Ref,
               \A m \in Ref : N[m] < N[n] => f[m] = g[m]
        PROVE  G[f][n] = G[g][n]
    <2>1. n \in Linked => f[parent[n]] = g[parent[n]]
      BY <1>1, <1>2, <1>4 DEF Climbing
    <2> QED BY <2>1
  <1>5. N \in [Ref -> Nat]
    BY <1>1 DEF Climbing
  <1>6. \A f \in [Ref -> Nat] :
           G[f] = [n \in Ref |-> IF n \notin Linked THEN 0 ELSE 1 + f[parent[n]]]
    OBVIOUS
  <1> HIDE DEF G
  <1>7. Descends(G, Ref, Nat, N)
    BY <1>3, <1>4 DEF Descends
  <1>8. PICK f \in [Ref -> Nat] : f = G[f]
    <2> DEFINE S == Ref
               V == Nat
    <2>1. V # {} /\ N \in [S -> Nat]
      BY <1>5
    <2>2. Descends(G, S, V, N)
      BY <1>7
    <2> HIDE DEF S, V
    <2>3. \E f \in [S -> V] : f = G[f]
      BY <2>1, <2>2, RecursionExists
    <2> QED BY <2>3 DEF S, V
  <1>9. f = [n \in Ref |-> IF n \notin Linked THEN 0 ELSE 1 + f[parent[n]]]
    BY <1>6, <1>8
  <1>10. LevelFrom = [n \in Ref |-> IF n \notin Linked THEN 0 ELSE 1 + LevelFrom[parent[n]]]
    <2>1. f = [n \in Ref |-> IF ~IsLinked(n) THEN 0 ELSE 1 + f[parent[n]]]
      BY <1>9, LinkedSlots
    <2>2. LevelFrom = [n \in Ref |-> IF ~IsLinked(n) THEN 0 ELSE 1 + LevelFrom[parent[n]]]
      BY <2>1 DEF LevelFrom
    <2> QED BY <2>2, LinkedSlots
  <1> DEFINE l == LevelFrom
             D == {n \in Ref : l[n] \notin Nat}
  <1>11. SUFFICES ASSUME D # {} PROVE FALSE
    <2>1. /\ l = [n \in Ref |-> l[n]] /\ l[nil] = 0
          /\ \A n \in Linked : l[n] = 1 + l[parent[n]]
      BY <1>2, <1>10
    <2>2. D = {} => \A n \in Ref : l[n] \in Nat
      OBVIOUS
    <2> HIDE DEF l, D
    <2>3. D = {} => l \in [Ref -> Nat]
      BY <2>1, <2>2
    <2> QED BY <2>1, <2>3 DEF l
  <1>12. PICK n \in D : \A u \in D : N[n] <= N[u]
    <2>1. \A u \in D : N[u] \in Nat
      BY <1>5
    <2> HIDE DEF D
    <2> QED BY <1>11, <2>1, LeastOf
  <1> HIDE DEF l
  <1>13. n \in Linked /\ l[n] = 1 + l[parent[n]]
    BY <1>10, <1>12 DEF l
  <1>14. l[parent[n]] \in Nat
    <2>1. parent[n] \in Ref /\ N[parent[n]] < N[n] /\ N[parent[n]] \in Nat /\ N[n] \in Nat
      BY <1>1, <1>2, <1>13 DEF Climbing
    <2> QED BY <1>12, <2>1
  <1> QED BY <1>12, <1>13, <1>14

\* What rises along every link rises along the way up.
LEMMA LevelRises ==
    ASSUME TypeOK, LinksOK, NEW l \in [Ref -> Nat],
           \A n \in Linked : l[n] = 1 + l[parent[n]], NEW m \in Linked
    PROVE  \A k \in Path(parent, m) : k # m => l[k] < l[m]
  <1> DEFINE S == {k \in Linked : k = m \/ l[k] < l[m]}
  <1>1. Linked \subseteq Node /\ nil \notin Linked
    BY DEF Linked
  <1>2. UpClosed(parent, S)
    <2> SUFFICES ASSUME NEW k \in S, parent[k] # nil PROVE parent[k] \in S
      BY DEF UpClosed
    <2>1. parent[k] \in Linked /\ l[k] = 1 + l[parent[k]]
      BY <1>1 DEF LinksOK
    <2>2. l[parent[k]] \in Nat /\ l[k] \in Nat /\ l[m] \in Nat
      BY <1>1, <2>1
    <2> QED BY <2>1, <2>2
  <1>3. Path(parent, m) \subseteq S
    BY <1>1, <1>2, PathLeast
  <1> QED BY <1>3

LEMMA WitnessesComputed ==
    ASSUME NEW d \in [Ref -> Nat], NEW h \in [Ref -> Nat], InvariantBy(d, h), WayOK
    PROVE  InvariantBy(LevelFrom, BlackHeightFrom)
  <1> DEFINE l == LevelFrom
  <1>1. TypeOK /\ LinksOK /\ Linked \subseteq Node /\ nil \notin Linked
    BY DEF InvariantBy, Linked
  <1>2. l \in [Ref -> Nat] /\ \A n \in Linked : l[n] = 1 + l[parent[n]]
    BY LevelIs
  <1> HIDE DEF l
  <1>3. ASSUME NEW n \in Linked, NEW s \in Side, child[n][s] # nil
        PROVE  l[n] < l[child[n][s]]
    <2>1. child[n][s] \in Linked /\ parent[child[n][s]] = n
      BY <1>1, <1>3 DEF LinksOK
    <2> QED BY <1>1, <1>2, <2>1
  <1>4. ASSUME pc = "successor", y # arg PROVE l[arg] < l[y]
    <2>1. y \in Linked /\ arg \in Path(parent, y)
      BY <1>4 DEF InvariantBy, PlaceOK, SuccessorPlace, WayOK, Leads
    <2> QED BY <1>1, <1>2, <1>4, <2>1, LevelRises
  <1>5. Descending(l)
    BY <1>3, <1>4 DEF Descending
  <1>6. Balanced(BlackHeightFrom)
    BY BlackHeightBalances
  <1> QED BY <1>5, <1>6 DEF InvariantBy, l

\* The witnesses that the invariant asks for can be computed from the tree.
THEOREM WitnessesFit == Spec => []InductiveInvariant
  <1>1. IInv /\ WayOK => InductiveInvariant
    BY WitnessesComputed DEF IInv, InductiveInvariant
  <1> QED BY <1>1, InvariantHolds, WayHolds, PTL

-----------------------------------------------------------------------------
(* The height.                                                             *)

LEMMA TwoToIs ==
    /\ TwoTo \in [Nat -> Nat] /\ TwoTo[0] = 1
    /\ \A k \in Nat : TwoTo[k + 1] = 2 * TwoTo[k]
  <1> DEFINE G == [f \in [Nat -> Nat] |->
                     [k \in Nat |-> IF k = 0 THEN 1 ELSE 2 * f[k - 1]]]
             N == [k \in Nat |-> k]
  <1>1. G \in [[Nat -> Nat] -> [Nat -> Nat]]
    OBVIOUS
  <1>2. ASSUME NEW f \in [Nat -> Nat], NEW g \in [Nat -> Nat], NEW k \in Nat,
               \A j \in Nat : N[j] < N[k] => f[j] = g[j]
        PROVE  G[f][k] = G[g][k]
    <2>1. CASE k = 0
      BY <2>1
    <2>2. CASE k # 0
      <3>1. k - 1 \in Nat /\ N[k - 1] < N[k]
        BY <2>2
      <3>2. f[k - 1] = g[k - 1]
        BY <1>2, <3>1
      <3> QED BY <2>2, <3>2
    <2> QED BY <2>1, <2>2
  <1>3. N \in [Nat -> Nat]
    OBVIOUS
  <1>4. \A f \in [Nat -> Nat] :
           G[f] = [k \in Nat |-> IF k = 0 THEN 1 ELSE 2 * f[k - 1]]
    OBVIOUS
  <1> HIDE DEF G, N
  <1>5. Descends(G, Nat, Nat, N)
    BY <1>1, <1>2 DEF Descends
  <1>6. PICK f \in [Nat -> Nat] : f = G[f]
    <2> DEFINE V == Nat
               S == Nat
    <2>1. V # {} /\ N \in [S -> Nat] /\ Descends(G, S, V, N)
      BY <1>3, <1>5
    <2> HIDE DEF V, S
    <2>2. \E f \in [S -> V] : f = G[f]
      BY <2>1, RecursionExists
    <2> QED BY <2>2 DEF V, S
  <1>7. f = [k \in Nat |-> IF k = 0 THEN 1 ELSE 2 * f[k - 1]]
    BY <1>4, <1>6
  <1> DEFINE t == TwoTo
  <1>8. t = [k \in Nat |-> IF k = 0 THEN 1 ELSE 2 * t[k - 1]]
    BY <1>7 DEF TwoTo
  <1> HIDE DEF t
  <1>9. t[0] = 1 /\ \A k \in Nat : t[k + 1] = 2 * t[k]
    <2>1. \A k \in Nat : k + 1 \in Nat /\ k + 1 # 0 /\ (k + 1) - 1 = k
      OBVIOUS
    <2> QED BY <1>8, <2>1
  <1>10. \A k \in Nat : t[k] \in Nat
    <2> DEFINE D == {k \in Nat : t[k] \notin Nat}
    <2>1. SUFFICES ASSUME D # {} PROVE FALSE
      OBVIOUS
    <2>2. PICK k \in D : \A u \in D : N[k] <= N[u]
      <3>1. \A u \in D : N[u] \in Nat
        BY <1>3
      <3> HIDE DEF D
      <3> QED BY <2>1, <3>1, LeastOf
    <2>3. k # 0 /\ k \in Nat
      BY <1>9, <2>2
    <2>4. k - 1 \in Nat /\ (k - 1) + 1 = k
      BY <2>3
    <2>5. k - 1 \notin D
      BY <2>2, <2>3, <2>4 DEF N
    <2>6. t[k - 1] \in Nat /\ t[k] = 2 * t[k - 1]
      BY <1>9, <2>4, <2>5
    <2> QED BY <2>2, <2>6
  <1>11. t \in [Nat -> Nat]
    BY <1>8, <1>10
  <1> QED BY <1>9, <1>11 DEF t

LEMMA TwoToGrows ==
    ASSUME NEW k \in Nat
    PROVE  /\ TwoTo[k] >= 1 /\ TwoTo[2 * k] = TwoTo[k] * TwoTo[k]
           /\ \A j \in Nat : j <= k => TwoTo[j] <= TwoTo[k]
  <1> DEFINE t == TwoTo
             Good(k_1) == /\ t[k_1] >= 1 /\ t[2 * k_1] = t[k_1] * t[k_1]
                          /\ \A j \in Nat : j <= k_1 => t[j] <= t[k_1]
             D == {k_1 \in Nat : ~Good(k_1)}
             N == [k_1 \in Nat |-> k_1]
  <1>1. t \in [Nat -> Nat] /\ t[0] = 1 /\ \A i \in Nat : t[i + 1] = 2 * t[i]
    BY TwoToIs
  <1> HIDE DEF t
  <1>2. SUFFICES ASSUME D # {} PROVE FALSE
    BY DEF t
  <1>3. PICK m \in D : \A u \in D : N[m] <= N[u]
    <2>1. \A u \in D : N[u] \in Nat
      OBVIOUS
    <2> HIDE DEF D
    <2> QED BY <1>2, <2>1, LeastOf
  <1>4. m \in Nat /\ ~Good(m) /\ \A u \in Nat : u < m => Good(u)
    BY <1>3
  <1>5. CASE m = 0
    <2>1. t[m] = 1 /\ 2 * m = 0 /\ \A j \in Nat : j <= m => j = m
      BY <1>1, <1>5
    <2>2. t[2 * m] = 1
      BY <1>1, <2>1
    <2>3. Good(m)
      BY <2>1, <2>2
    <2> QED BY <1>4, <2>3
  <1>6. CASE m # 0
    <2> DEFINE i == m - 1
               a == t[i]
    <2>1. i \in Nat /\ i < m /\ i + 1 = m /\ 2 * m = (2 * i + 1) + 1 /\ 2 * i \in Nat
          /\ 2 * i + 1 \in Nat
      BY <1>4, <1>6
    <2>2. Good(i)
      BY <1>4, <2>1
    <2>3. a \in Nat /\ a >= 1 /\ t[m] = 2 * a
      BY <1>1, <2>1, <2>2
    <2>4. t[2 * m] = 2 * (2 * t[2 * i]) /\ t[2 * i] = a * a /\ t[2 * i] \in Nat
      BY <1>1, <2>1, <2>2
    <2> HIDE DEF a
    <2>5. t[2 * m] = t[m] * t[m]
      BY <2>3, <2>4
    <2>6. ASSUME NEW j \in Nat, j <= m PROVE t[j] <= t[m]
      <3>1. CASE j = m
        <4>1. t[m] \in Nat
          BY <2>3
        <4> QED BY <3>1, <4>1
      <3>2. CASE j # m
        <4>1. j <= i /\ t[j] \in Nat
          BY <1>1, <1>4, <2>1, <2>6, <3>2
        <4>2. t[j] <= a
          BY <2>2, <4>1 DEF a
        <4> QED BY <2>3, <4>1, <4>2
      <3> QED BY <3>1, <3>2
    <2>7. t[m] >= 1
      BY <2>3
    <2> QED BY <1>4, <2>5, <2>6, <2>7
  <1> QED BY <1>5, <1>6

LEMMA HeightIs ==
    ASSUME NEW d \in [Ref -> Nat], NEW h \in [Ref -> Nat], InvariantBy(d, h)
    PROVE  HeightFrom = [n \in Ref |->
              IF n \notin Linked THEN 0
              ELSE 1 + IF HeightFrom[child[n]["left"]] > HeightFrom[child[n]["right"]]
                       THEN HeightFrom[child[n]["left"]]
                       ELSE HeightFrom[child[n]["right"]]]
  <1> DEFINE F(f) == [n \in Ref |->
                        IF n \notin Linked THEN 0
                        ELSE 1 + IF f[child[n]["left"]] > f[child[n]["right"]]
                                 THEN f[child[n]["left"]] ELSE f[child[n]["right"]]]
             G == [f \in [Ref -> Nat] |-> F(f)]
  <1>1. PICK N : Sinking(Linked, child, N)
    BY MeasureExists
  <1>2. child \in [Ref -> [Side -> Ref]] /\ Linked \subseteq Node
    BY DEF InvariantBy, TypeOK, Linked
  <1>3. \A n \in Linked : n \in Ref /\ child[n]["left"] \in Ref /\ child[n]["right"] \in Ref
    BY <1>2
  <1>4. G \in [[Ref -> Nat] -> [Ref -> Nat]]
    <2> SUFFICES ASSUME NEW f \in [Ref -> Nat] PROVE F(f) \in [Ref -> Nat]
      OBVIOUS
    <2> SUFFICES ASSUME NEW n \in Linked
                 PROVE  1 + (IF f[child[n]["left"]] > f[child[n]["right"]]
                            THEN f[child[n]["left"]] ELSE f[child[n]["right"]]) \in Nat
      OBVIOUS
    <2>1. f[child[n]["left"]] \in Nat /\ f[child[n]["right"]] \in Nat
      BY <1>3
    <2> QED BY <2>1
  <1>5. ASSUME NEW f \in [Ref -> Nat], NEW g \in [Ref -> Nat], NEW n \in Ref,
               \A m \in Ref : N[m] < N[n] => f[m] = g[m]
        PROVE  G[f][n] = G[g][n]
    <2>1. n \in Linked => /\ f[child[n]["left"]] = g[child[n]["left"]]
                          /\ f[child[n]["right"]] = g[child[n]["right"]]
      BY <1>1, <1>3, <1>5 DEF Sinking
    <2> QED BY <2>1
  <1>6. N \in [Ref -> Nat] /\ \A f \in [Ref -> Nat] : G[f] = F(f)
    BY <1>1 DEF Sinking
  <1> HIDE DEF G
  <1>7. Descends(G, Ref, Nat, N)
    BY <1>4, <1>5 DEF Descends
  <1>8. PICK f \in [Ref -> Nat] : f = G[f]
    <2> DEFINE V == Nat
               S == Ref
    <2>1. V # {} /\ N \in [S -> Nat] /\ Descends(G, S, V, N)
      BY <1>6, <1>7
    <2> HIDE DEF V, S
    <2>2. \E f \in [S -> V] : f = G[f]
      BY <2>1, RecursionExists
    <2> QED BY <2>2 DEF V, S
  <1>9. f = F(f)
    BY <1>6, <1>8
  <1>10. \A e : F(e) = [n \in Ref |->
                          IF ~IsLinked(n) THEN 0
                          ELSE LET l == e[child[n]["left"]]
                                   r == e[child[n]["right"]]
                               IN  1 + IF l > r THEN l ELSE r]
    BY LinkedSlots
  <1> HIDE DEF F
  <1>11. HeightFrom = F(HeightFrom)
    BY <1>9, <1>10 DEF HeightFrom
  <1> QED BY <1>11 DEF F

\* A black node is at most as high as two levels for each black one, a red node
\* one less, and a black height of k needs 2 ^ k - 1 nodes.
LEMMA HeightsBounded ==
    ASSUME NEW d \in [Ref -> Nat], NEW h \in [Ref -> Nat], InvariantBy(d, h), pc = "idle",
           NEW n \in Ref, n = nil \/ n \in Linked
    PROVE  /\ HeightFrom[n] \in Nat
           /\ HeightFrom[n] <= 2 * h[n] - IF color[n] = "red" THEN 1 ELSE 0
           /\ TwoTo[h[n]] <= Len(InOrderFrom[n]) + 1
  <1> DEFINE g == HeightFrom
             f == InOrderFrom
             Good(k) == /\ k \in Linked => h[k] >= 1
                        /\ g[k] \in Nat
                        /\ g[k] <= 2 * h[k] - IF color[k] = "red" THEN 1 ELSE 0
                        /\ Len(f[k]) \in Nat
                        /\ TwoTo[h[k]] <= Len(f[k]) + 1
             D == {k \in Linked \cup {nil} : ~Good(k)}
  <1>1. PICK N : Sinking(Linked, child, N)
    BY MeasureExists
  <1>2. /\ TypeOK /\ LinksOK /\ SentinelIntact /\ NoRedRed /\ Balanced(h)
        /\ Linked \subseteq Node /\ nil \notin Linked
    BY DEF InvariantBy, Linked
  <1>3. Walks(Linked, child, f)
    BY InOrderWalks
  <1>4. \A k \in Ref : g[k] = IF k \notin Linked THEN 0
                             ELSE 1 + IF g[child[k]["left"]] > g[child[k]["right"]]
                                      THEN g[child[k]["left"]] ELSE g[child[k]["right"]]
    <2>1. g = [k \in Ref |-> IF k \notin Linked THEN 0
                            ELSE 1 + IF g[child[k]["left"]] > g[child[k]["right"]]
                                     THEN g[child[k]["left"]] ELSE g[child[k]["right"]]]
      BY HeightIs
    <2> HIDE DEF g
    <2> QED BY <2>1
  <1> HIDE DEF f, g
  <1>5. SUFFICES ASSUME D # {} PROVE FALSE
    BY DEF f, g
  <1>6. PICK m \in D : \A u \in D : N[m] <= N[u]
    <2>1. \A u \in D : N[u] \in Nat
      BY <1>1, <1>2 DEF Sinking
    <2> HIDE DEF D
    <2> QED BY <1>5, <2>1, LeastOf
  <1>7. TwoTo \in [Nat -> Nat] /\ TwoTo[0] = 1 /\ \A k \in Nat : TwoTo[k + 1] = 2 * TwoTo[k]
    BY TwoToIs
  <1>8. Good(nil)
    <2>1. f[nil] = <<>> /\ g[nil] = 0 /\ h[nil] = 0 /\ color[nil] = "black"
      BY <1>2, <1>3, <1>4, WalkOutside DEF Balanced, SentinelIntact
    <2>2. Len(f[nil]) = 0
      BY <2>1, EmptySeq
    <2> QED BY <1>2, <1>7, <2>1, <2>2
  <1>9. m \in Linked /\ m \in Ref /\ ~Good(m)
    BY <1>2, <1>6, <1>8
  <1>10. ASSUME NEW s \in Side
         PROVE  /\ child[m][s] \in Ref /\ color[child[m][s]] \in Color
                /\ Good(child[m][s]) /\ h[child[m][s]] \in Nat
                /\ h[m] = h[child[m][s]] + IF color[child[m][s]] = "black" THEN 1 ELSE 0
                /\ color[m] = "red" => color[child[m][s]] = "black"
                /\ color[child[m][s]] = "red" => child[m][s] \in Linked
    <2> DEFINE c == child[m][s]
    <2>1. c \in Ref /\ color[c] \in Color /\ (c # nil => c \in Linked /\ parent[c] = m) /\ m # nil
      <3>1. c \in Ref
        BY <1>2, <1>9 DEF TypeOK
      <3>2. c # nil => c \in Linked /\ parent[c] = m
        BY <1>2, <1>9 DEF LinksOK
      <3> HIDE DEF c
      <3>3. color[c] \in Color
        BY <1>2, <3>1 DEF TypeOK
      <3>4. m # nil
        BY <1>2, <1>9
      <3> QED BY <3>1, <3>2, <3>3, <3>4
    <2>2. Good(c)
      <3>1. N[c] < N[m] /\ N[c] \in Nat /\ N[m] \in Nat
        BY <1>1, <1>2, <1>9, <2>1 DEF Sinking
      <3> HIDE DEF D, c
      <3>2. c \notin D
        BY <1>6, <3>1
      <3> HIDE DEF Good
      <3> QED BY <2>1, <3>2 DEF D
    <2>3. Weight(m, s) = IF color[c] = "black" THEN 1 ELSE 0
      BY DEF Weight, Lacks, BlackBlackLabels
    <2>4. h[m] = h[c] + Weight(m, s)
      BY <1>2, <1>9 DEF Balanced
    <2>5. color[m] = "red" /\ color[c] = "red" => FALSE
      BY <1>2, <2>1 DEF NoRedRed, RedRedLabels, SentinelIntact
    <2>6. color[c] = "red" => c \in Linked
      BY <1>2, <2>1 DEF SentinelIntact
    <2> QED BY <2>1, <2>2, <2>3, <2>4, <2>5, <2>6 DEF Color
  <1>11. h[m] \in Nat /\ color[m] \in Color
    BY <1>2, <1>9 DEF TypeOK
  <1>12. h[m] >= 1
    BY <1>10, <1>11
  <1>13. g[m] \in Nat /\ g[m] <= 2 * h[m] - IF color[m] = "red" THEN 1 ELSE 0
    <2>1. g[m] = 1 + IF g[child[m]["left"]] > g[child[m]["right"]]
                     THEN g[child[m]["left"]] ELSE g[child[m]["right"]]
      BY <1>4, <1>9
    <2>2. \A s \in Side : /\ g[child[m][s]] \in Nat
                          /\ g[child[m][s]] + 1 <= 2 * h[m] - IF color[m] = "red" THEN 1 ELSE 0
      <3> SUFFICES ASSUME NEW s \in Side
                   PROVE  /\ g[child[m][s]] \in Nat
                          /\ g[child[m][s]] + 1 <= 2 * h[m] - IF color[m] = "red" THEN 1 ELSE 0
        OBVIOUS
      <3> DEFINE c == child[m][s]
      <3>1. /\ g[c] \in Nat /\ h[c] \in Nat
            /\ g[c] <= 2 * h[c] - IF color[c] = "red" THEN 1 ELSE 0
            /\ h[m] = h[c] + IF color[c] = "black" THEN 1 ELSE 0
            /\ color[m] = "red" => color[c] = "black"
            /\ color[c] \in Color
        BY <1>10
      <3> HIDE DEF c
      <3>2. CASE color[c] = "black"
        <4>1. g[c] <= 2 * h[c] /\ h[m] = h[c] + 1
          BY <3>1, <3>2
        <4>2. g[c] + 1 <= 2 * h[m] - 1
          BY <3>1, <4>1
        <4>3. g[c] + 1 <= 2 * h[m] - IF color[m] = "red" THEN 1 ELSE 0
          BY <3>1, <4>2, <1>11
        <4> QED BY <3>1, <4>3 DEF c
      <3>3. CASE color[c] = "red"
        <4>1. g[c] <= 2 * h[c] - 1 /\ h[m] = h[c] /\ color[m] # "red"
          BY <3>1, <3>3
        <4> QED BY <3>1, <4>1, <1>11 DEF c
      <3> QED BY <3>1, <3>2, <3>3
    <2>3. /\ g[child[m]["left"]] \in Nat /\ g[child[m]["right"]] \in Nat
          /\ g[child[m]["left"]] + 1 <= 2 * h[m] - IF color[m] = "red" THEN 1 ELSE 0
          /\ g[child[m]["right"]] + 1 <= 2 * h[m] - IF color[m] = "red" THEN 1 ELSE 0
      BY <2>2
    <2> QED BY <2>1, <2>3
  <1>14. Len(f[m]) \in Nat /\ TwoTo[h[m]] <= Len(f[m]) + 1
    <2> DEFINE k == h[m] - 1
    <2>1. k \in Nat /\ k + 1 = h[m] /\ TwoTo[h[m]] = 2 * TwoTo[k] /\ TwoTo[k] \in Nat
      <3>1. k \in Nat /\ k + 1 = h[m]
        BY <1>11, <1>12
      <3> HIDE DEF k
      <3>2. TwoTo[k + 1] = 2 * TwoTo[k] /\ TwoTo[k] \in Nat
        BY <1>7, <3>1
      <3> QED BY <3>1, <3>2
    <2> HIDE DEF k
    <2>2. \A s \in Side : Len(f[child[m][s]]) \in Nat /\ TwoTo[k] <= Len(f[child[m][s]]) + 1
      <3> SUFFICES ASSUME NEW s \in Side
                   PROVE  Len(f[child[m][s]]) \in Nat /\ TwoTo[k] <= Len(f[child[m][s]]) + 1
        OBVIOUS
      <3> DEFINE c == child[m][s]
      <3>1. /\ Len(f[c]) \in Nat /\ h[c] \in Nat /\ TwoTo[h[c]] <= Len(f[c]) + 1
            /\ h[m] = h[c] + IF color[c] = "black" THEN 1 ELSE 0
        BY <1>10
      <3> HIDE DEF c
      <3>2. k <= h[c]
        BY <2>1, <3>1
      <3>3. TwoTo[k] <= TwoTo[h[c]] /\ TwoTo[h[c]] \in Nat
        BY <1>7, <2>1, <3>1, <3>2, TwoToGrows
      <3> QED BY <2>1, <3>1, <3>3 DEF c
    <2>3. Len(f[m]) = Len(f[child[m]["left"]]) + 1 + Len(f[child[m]["right"]])
      <3> DEFINE L == Linked
                 ch == child
      <3>1. Walks(L, ch, f) /\ m \in L
        BY <1>3, <1>9
      <3> HIDE DEF L, ch
      <3>2. /\ f[ch[m]["left"]] \in Seq(L) /\ f[ch[m]["right"]] \in Seq(L)
            /\ f[m] = Join(f[ch[m]["left"]], m, f[ch[m]["right"]])
        BY <3>1, WalkAt
      <3> DEFINE a == f[ch[m]["left"]]
                 b == f[ch[m]["right"]]
      <3>3. IsJoin(f[m], a, m, b)
        <4>1. a \in Seq(L) /\ b \in Seq(L) /\ m \in L /\ f[m] = Join(a, m, b)
          BY <3>1, <3>2
        <4> HIDE DEF a, b
        <4>2. IsJoin(Join(a, m, b), a, m, b)
          BY <4>1, Joined
        <4> QED BY <4>1, <4>2
      <3> QED BY <3>3 DEF IsJoin, L, ch
    <2> DEFINE a == Len(f[child[m]["left"]])
               b == Len(f[child[m]["right"]])
    <2>4. a \in Nat /\ TwoTo[k] <= a + 1 /\ b \in Nat /\ TwoTo[k] <= b + 1
      BY <2>2
    <2>5. Len(f[m]) = a + 1 + b
      BY <2>3
    <2> HIDE DEF a, b
    <2> QED BY <2>1, <2>4, <2>5
  <1> QED BY <1>9, <1>12, <1>13, <1>14

\* A tree has as many nodes as its in-order is long.
LEMMA LengthCounts ==
    ASSUME NEW L, NEW s \in Seq(L), Elements(s) = L, OnceEach(s)
    PROVE  Cardinality(L) = Len(s)
  <1>1. Len(s) \in Nat /\ DOMAIN s = 1 .. Len(s) /\ s \in [1 .. Len(s) -> L]
    BY LenProperties
  <1>2. s \in Bijection(1 .. Len(s), L)
    BY <1>1 DEF Bijection, Injection, Surjection, IsInjective, Elements, OnceEach
  <1> QED BY <1>1, <1>2, FS_CountingElements DEF ExistsBijection

\* Between calls a tree of n nodes is at most 2 * log2( n + 1) high, whatever
\* insertions and removals have made it.
THEOREM HeightIsLogarithmic == Spec => []HeightBound
  <1>1. IInv => HeightBound
    <2> SUFFICES ASSUME IInv, pc = "idle"
                 PROVE  TwoTo[HeightFrom[root]]
                           <= (Cardinality(Linked) + 1) * (Cardinality(Linked) + 1)
      BY DEF HeightBound
    <2>1. PICK d \in [Ref -> Nat], h \in [Ref -> Nat] : InvariantBy(d, h)
      BY DEF IInv
    <2>2. root \in Ref /\ (root = nil \/ root \in Linked)
      BY <2>1 DEF InvariantBy, TypeOK, LinksOK
    <2> DEFINE g == HeightFrom[root]
               k == h[root]
               c == Cardinality(Linked)
               t == TwoTo
    <2>3. g \in Nat /\ k \in Nat /\ g <= 2 * k /\ t[k] <= Len(InOrder) + 1
      <3>1. /\ g \in Nat /\ g <= 2 * k - IF color[root] = "red" THEN 1 ELSE 0
            /\ t[k] <= Len(InOrder) + 1
        BY <2>1, <2>2, HeightsBounded DEF InOrder
      <3> QED BY <2>2, <3>1
    <2>4. c = Len(InOrder) /\ c \in Nat
      <3>1. InOrder \in Seq(Linked) /\ Elements(InOrder) = Linked /\ OnceEach(InOrder)
        BY <2>1, <2>2, InOrderMeetsAll DEF InOrder
      <3> DEFINE L == Linked
      <3>2. InOrder \in Seq(L) /\ Elements(InOrder) = L /\ OnceEach(InOrder)
        BY <3>1
      <3> HIDE DEF L
      <3>3. Cardinality(L) = Len(InOrder) /\ Len(InOrder) \in Nat
        BY <3>2, LengthCounts, LenProperties
      <3> QED BY <3>3 DEF L
    <2>5. t[g] <= t[2 * k] /\ t[2 * k] = t[k] * t[k] /\ t \in [Nat -> Nat]
      <3>1. 2 * k \in Nat
        BY <2>3
      <3> QED BY <2>3, <3>1, TwoToIs, TwoToGrows
    <2> HIDE DEF g, k, c, t
    <2>6. t[k] \in Nat /\ t[k] <= c + 1
      BY <2>3, <2>4, <2>5
    <2>7. t[k] * t[k] <= (c + 1) * (c + 1)
      <3> DEFINE a == t[k]
      <3>1. a \in Nat /\ a <= c + 1
        BY <2>6
      <3> HIDE DEF a
      <3> DEFINE b == c + 1
      <3>2. b \in Nat /\ a <= b
        BY <2>4, <3>1
      <3> HIDE DEF b
      <3>3. a * a <= a * b
        BY <3>1, <3>2
      <3>4. a * b <= b * b
        BY <3>1, <3>2
      <3>5. a * a \in Nat /\ a * b \in Nat /\ b * b \in Nat
        BY <3>1, <3>2
      <3>6. a * a <= b * b
        BY <3>3, <3>4, <3>5
      <3> QED BY <3>6 DEF a, b
    <2>8. t[g] \in Nat /\ t[2 * k] \in Nat /\ (c + 1) * (c + 1) \in Nat
      <3>1. t[g] \in Nat /\ t[2 * k] \in Nat
        <4>1. g \in Nat /\ 2 * k \in Nat
          BY <2>3
        <4>2. t \in [Nat -> Nat]
          BY <2>5
        <4> QED BY <4>1, <4>2
      <3>2. (c + 1) * (c + 1) \in Nat
        BY <2>4
      <3> QED BY <3>1, <3>2
    <2>9. t[g] <= (c + 1) * (c + 1)
      BY <2>5, <2>7, <2>8
    <2> QED BY <2>9 DEF g, c, t
  <1> QED BY <1>1, InvariantHolds, PTL

-----------------------------------------------------------------------------
(* The way from one node down to another.                                  *)

LEMMA PathWithin ==
    ASSUME NEW par \in [Ref -> Ref], NEW m \in Node, NEW n \in Path(par, m)
    PROVE  Path(par, n) \subseteq Path(par, m) /\ n \in Node
  <1>1. UpClosed(par, Path(par, m)) /\ Path(par, m) \in SUBSET Node
    BY PathUp DEF Path
  <1> QED BY <1>1, PathLeast

\* Of two nodes on a way up one is above the other.
LEMMA PathLine ==
    ASSUME NEW par \in [Ref -> Ref], NEW m \in Node,
           NEW n \in Path(par, m), NEW k \in Path(par, m)
    PROVE  k \in Path(par, n) \/ n \in Path(par, k)
  <1> DEFINE S == {j \in Path(par, m) : j \in Path(par, n) \/ n \in Path(par, j)}
  <1>1. m \in Path(par, m) /\ UpClosed(par, Path(par, m)) /\ Path(par, m) \in SUBSET Node
    BY PathUp DEF Path
  <1>2. n \in Path(par, n) /\ UpClosed(par, Path(par, n))
    BY <1>1, PathUp
  <1>3. UpClosed(par, S)
    <2> SUFFICES ASSUME NEW j \in S, par[j] # nil PROVE par[j] \in S
      BY DEF UpClosed
    <2>1. par[j] \in Path(par, m) /\ par[j] \in Node /\ j \in Node
      BY <1>1 DEF UpClosed
    <2>2. CASE j \in Path(par, n)
      <3>1. par[j] \in Path(par, n)
        BY <1>2, <2>2 DEF UpClosed
      <3> QED BY <2>1, <3>1
    <2>3. CASE n \in Path(par, j) /\ j # n
      <3>1. Path(par, j) = {j} \cup Path(par, par[j])
        BY <2>1, PathStep
      <3> QED BY <2>1, <2>3, <3>1
    <2> QED BY <1>2, <2>2, <2>3
  <1>4. Path(par, m) \subseteq S
    <2>1. m \in S /\ S \in SUBSET Node
      BY <1>1
    <2> HIDE DEF S
    <2> QED BY <1>3, <2>1, PathLeast
  <1> QED BY <1>4

\* What Leads says of the nodes between n and m.
LEMMA LedBelow ==
    ASSUME NEW d \in [Ref -> Nat], NEW h, InvariantBy(d, h),
           NEW m \in Linked, NEW n, NEW s \in Side, Leads(n, m, s)
    PROVE  LET W == Path(parent, m) \ Path(parent, n)
           IN  /\ n \in Linked /\ W \subseteq Linked
               /\ n \notin W /\ parent[n] \notin W
               /\ \A k \in W : /\ parent[k] \in W \cup {n}
                               /\ child[parent[k]][IF parent[k] = n THEN Other(s) ELSE s] = k
               /\ \A k \in W : k # m => child[k][s] \in W
               /\ m # n => m \in W /\ child[n][Other(s)] \in W
               /\ child[n][s] \notin W
  <1> DEFINE W == Path(parent, m) \ Path(parent, n)
  <1>1. /\ TypeOK /\ LinksOK /\ Linked \subseteq Node /\ nil \notin Linked
        /\ parent \in [Ref -> Ref]
    BY DEF InvariantBy, TypeOK, Linked
  <1>2. /\ n \in Path(parent, m) /\ Path(parent, m) \subseteq Linked
        /\ m \in Path(parent, m) /\ UpClosed(parent, Path(parent, m))
        /\ \A k \in W : child[parent[k]][IF parent[k] = n THEN Other(s) ELSE s] = k
    BY PathInTree DEF Leads
  <1>3. /\ n \in Linked /\ n \in Path(parent, n) /\ UpClosed(parent, Path(parent, n))
        /\ Path(parent, n) \subseteq Path(parent, m) /\ Path(parent, n) \subseteq Linked
    <2>1. n \in Linked /\ m \in Node
      BY <1>1, <1>2
    <2> QED BY <1>1, <1>2, <2>1, PathInTree, PathWithin
  <1>4. n \notin W /\ parent[n] \notin W /\ W \subseteq Linked
    <2>1. parent[n] = nil => parent[n] \notin W
      BY <1>1, <1>2
    <2>2. parent[n] # nil => parent[n] \in Path(parent, n)
      BY <1>3 DEF UpClosed
    <2> QED BY <1>2, <1>3, <2>1, <2>2
  <1>5. ASSUME NEW k \in W
        PROVE  n \in Path(parent, k) /\ k # n /\ parent[k] \in W \cup {n}
    <2>1. n \in Path(parent, k) /\ k # n /\ k \in Node
      <3>1. m \in Node /\ k \in Path(parent, m) /\ k \notin Path(parent, n)
        BY <1>1
      <3> QED BY <1>1, <1>2, <1>3, <3>1, PathLine
    <2>2. parent[k] # nil
      <3>1. parent[k] = nil => Path(parent, k) = {k}
        BY <1>1, <2>1, PathOfRoot
      <3> QED BY <2>1, <3>1
    <2>3. parent[k] \in Path(parent, m) /\ parent[k] \in Linked
      BY <1>2, <2>2 DEF UpClosed
    <2>4. n \in Path(parent, parent[k])
      <3>1. Path(parent, k) = {k} \cup Path(parent, parent[k])
        BY <1>1, <2>1, <2>3, PathStep
      <3> QED BY <2>1, <3>1
    <2>5. parent[k] \in Path(parent, n) => parent[k] = n
      <3> SUFFICES ASSUME parent[k] \in Path(parent, n), parent[k] # n PROVE FALSE
        OBVIOUS
      <3>1. d[parent[k]] < d[n] /\ d[n] < d[parent[k]]
        BY <1>3, <2>3, <2>4, PathRises
      <3>2. d[parent[k]] \in Nat /\ d[n] \in Nat
        BY <1>1, <1>3, <2>3
      <3> QED BY <3>1, <3>2
    <2> QED BY <2>1, <2>3, <2>5
  <1>6. ASSUME NEW k \in W, k # m
        PROVE  child[k][s] \in W
    <2>1. PICK r \in Side : child[k][r] \in Path(parent, m)
      BY <1>2, <1>6, PathDown
    <2>2. child[k][r] \in Linked /\ parent[child[k][r]] = k /\ k \in Linked
      BY <1>1, <1>2, <2>1 DEF LinksOK
    <2>3. child[k][r] \notin Path(parent, n)
      <3>1. child[k][r] \in Path(parent, n) => k \in Path(parent, n)
        BY <1>1, <1>3, <2>2 DEF UpClosed
      <3> QED BY <3>1
    <2>4. child[k][r] \in W
      BY <2>1, <2>3
    <2>5. child[k][s] = child[k][r]
      BY <1>2, <1>5, <2>2, <2>4
    <2> QED BY <2>4, <2>5
  <1>7. ASSUME m # n
        PROVE  m \in W /\ child[n][Other(s)] \in W
    <2>1. PICK r \in Side : child[n][r] \in Path(parent, m)
      BY <1>2, <1>7, PathDown
    <2>2. child[n][r] \in Linked /\ parent[child[n][r]] = n
      BY <1>1, <1>2, <1>3, <2>1 DEF LinksOK
    <2>3. child[n][r] \notin Path(parent, n)
      <3> SUFFICES ASSUME child[n][r] \in Path(parent, n) PROVE FALSE
        OBVIOUS
      <3>1. d[n] < d[child[n][r]] /\ d[n] \in Nat /\ d[child[n][r]] \in Nat
        BY <1>1, <1>3, <2>2 DEF InvariantBy, Descending
      <3>2. child[n][r] # n
        BY <3>1
      <3>3. d[child[n][r]] < d[n]
        BY <1>3, <3>2, PathRises
      <3> QED BY <3>1, <3>3
    <2>4. child[n][r] \in W
      BY <2>1, <2>3
    <2>5. child[n][Other(s)] = child[n][r]
      BY <1>2, <2>2, <2>4
    <2>6. m \notin Path(parent, n)
      <3> SUFFICES ASSUME m \in Path(parent, n) PROVE FALSE
        OBVIOUS
      <3>1. d[m] < d[n] /\ d[n] < d[m] /\ d[m] \in Nat /\ d[n] \in Nat
        BY <1>1, <1>2, <1>3, <1>7, PathRises
      <3> QED BY <3>1
    <2> QED BY <1>2, <2>4, <2>5, <2>6
  <1>8. child[n][s] \notin W
    <2> SUFFICES ASSUME child[n][s] \in W PROVE FALSE
      OBVIOUS
    <2>1. child[n][s] # nil
      BY <1>1, <1>4
    <2>2. parent[child[n][s]] = n
      BY <1>1, <1>3, <2>1 DEF LinksOK
    <2>3. child[n][Other(s)] = child[n][s]
      BY <1>2, <2>2
    <2> QED BY <1>1, <1>3, <2>1, <2>3 DEF LinksOK, Other
  <1> QED BY <1>2, <1>3, <1>4, <1>5, <1>6, <1>7, <1>8

-----------------------------------------------------------------------------
(* The witnesses of the order, computed.                                   *)

\* The values below n, as a map on functions.
LEMMA RoomIs ==
    ASSUME NEW d \in [Ref -> Nat], NEW h, InvariantBy(d, h)
    PROVE  RoomFrom = [n \in Ref |->
              IF n \notin Linked THEN {value[m] : m \in Linked \cup Detached}
              ELSE {v \in RoomFrom[parent[n]] :
                       parent[n] = nil \/ Fits(v, parent[n], SlotOf(child, parent[n], n))}]
  <1> DEFINE base == {value[m] : m \in Linked \cup Detached}
             V == SUBSET base
             At(S, n) == {v \in S : parent[n] = nil
                                       \/ Fits(v, parent[n], SlotOf(child, parent[n], n))}
             F(f) == [n \in Ref |-> IF n \notin Linked THEN base ELSE At(f[parent[n]], n)]
             G == [f \in [Ref -> V] |-> F(f)]
  <1>1. PICK N : Climbing(N)
    BY ClimbExists
  <1>2. parent \in [Ref -> Ref] /\ Linked \subseteq Node
    BY DEF InvariantBy, TypeOK, Linked
  <1>3. \A S \in V, n \in Ref : At(S, n) \in V
    OBVIOUS
  <1> HIDE DEF At
  <1>4. G \in [[Ref -> V] -> [Ref -> V]]
    <2>1. base \in V
      OBVIOUS
    <2> HIDE DEF V, base
    <2>2. \A f \in [Ref -> V], n \in Linked : n \in Ref /\ f[parent[n]] \in V
      BY <1>2
    <2> QED BY <1>3, <2>1, <2>2
  <1> HIDE DEF V, base
  <1>5. ASSUME NEW f \in [Ref -> V], NEW g \in [Ref -> V], NEW n \in Ref,
               \A m \in Ref : N[m] < N[n] => f[m] = g[m]
        PROVE  G[f][n] = G[g][n]
    <2>1. n \in Linked => f[parent[n]] = g[parent[n]]
      BY <1>1, <1>2, <1>5 DEF Climbing
    <2> QED BY <2>1
  <1>6. N \in [Ref -> Nat] /\ \A f \in [Ref -> V] : G[f] = F(f)
    BY <1>1 DEF Climbing
  <1> HIDE DEF G
  <1>7. Descends(G, Ref, V, N) /\ V # {}
    BY <1>4, <1>5 DEF Descends, V
  <1>8. PICK f \in [Ref -> V] : f = G[f]
    <2> DEFINE S == Ref
    <2>1. V # {} /\ N \in [S -> Nat] /\ Descends(G, S, V, N)
      BY <1>6, <1>7
    <2> HIDE DEF S
    <2>2. \E f \in [S -> V] : f = G[f]
      BY <2>1, RecursionExists
    <2> QED BY <2>2 DEF S
  <1>9. f = F(f)
    BY <1>6, <1>8
  <1>10. \A e : F(e) = [n \in Ref |->
                          IF ~IsLinked(n) THEN {value[m] : m \in Linked \cup Detached}
                          ELSE {v \in e[parent[n]] :
                                   parent[n] = nil
                                      \/ Fits(v, parent[n], SlotOf(child, parent[n], n))}]
    BY LinkedSlots DEF At, base
  <1> HIDE DEF F
  <1>11. RoomFrom = F(RoomFrom)
    BY <1>9, <1>10 DEF RoomFrom
  <1> QED BY <1>11 DEF F, At, base

LEMMA WayUpIs ==
    ASSUME NEW d \in [Ref -> Nat], NEW h, InvariantBy(d, h)
    PROVE  WayUpFrom = [n \in Ref |-> IF n = arg \/ n \notin Linked THEN {}
                                     ELSE {n} \cup WayUpFrom[parent[n]]]
  <1> DEFINE V == SUBSET Node
             F(f) == [n \in Ref |-> IF n = arg \/ n \notin Linked THEN {}
                                   ELSE {n} \cup f[parent[n]]]
             G == [f \in [Ref -> V] |-> F(f)]
  <1>1. PICK N : Climbing(N)
    BY ClimbExists
  <1>2. parent \in [Ref -> Ref] /\ Linked \subseteq Node
    BY DEF InvariantBy, TypeOK, Linked
  <1>3. \A S \in V, n \in Node : {n} \cup S \in V
    OBVIOUS
  <1>4. G \in [[Ref -> V] -> [Ref -> V]]
    <2>1. {} \in V
      OBVIOUS
    <2> HIDE DEF V
    <2>2. \A f \in [Ref -> V], n \in Linked : n \in Node /\ f[parent[n]] \in V
      BY <1>2
    <2> QED BY <1>3, <2>1, <2>2
  <1> HIDE DEF V
  <1>5. ASSUME NEW f \in [Ref -> V], NEW g \in [Ref -> V], NEW n \in Ref,
               \A m \in Ref : N[m] < N[n] => f[m] = g[m]
        PROVE  G[f][n] = G[g][n]
    <2>1. n \in Linked => f[parent[n]] = g[parent[n]]
      BY <1>1, <1>2, <1>5 DEF Climbing
    <2> QED BY <2>1
  <1>6. N \in [Ref -> Nat] /\ \A f \in [Ref -> V] : G[f] = F(f)
    BY <1>1 DEF Climbing
  <1> HIDE DEF G
  <1>7. Descends(G, Ref, V, N) /\ V # {}
    BY <1>4, <1>5 DEF Descends, V
  <1>8. PICK f \in [Ref -> V] : f = G[f]
    <2> DEFINE S == Ref
    <2>1. V # {} /\ N \in [S -> Nat] /\ Descends(G, S, V, N)
      BY <1>6, <1>7
    <2> HIDE DEF S
    <2>2. \E f \in [S -> V] : f = G[f]
      BY <2>1, RecursionExists
    <2> QED BY <2>2 DEF S
  <1>9. f = F(f)
    BY <1>6, <1>8
  <1>10. \A e : F(e) = [n \in Ref |-> IF n = arg \/ ~IsLinked(n) THEN {}
                                     ELSE {n} \cup e[parent[n]]]
    BY LinkedSlots
  <1> HIDE DEF F
  <1>11. WayUpFrom = F(WayUpFrom)
    BY <1>9, <1>10 DEF WayUpFrom
  <1> QED BY <1>11 DEF F

\* The room below a node narrows, and leaves room for each value that some
\* function A of the invariant leaves room for.
LEMMA RoomNarrows ==
    ASSUME NEW d \in [Ref -> Nat], NEW h, InvariantBy(d, h),
           NEW A \in [Ref -> SUBSET Int], Narrowing(A)
    PROVE  /\ Narrowing(RoomFrom)
           /\ \A n \in Linked, m \in Linked \cup Detached :
                 value[m] \in A[n] => value[m] \in RoomFrom[n]
  <1> DEFINE R == RoomFrom
  <1>1. /\ TypeOK /\ LinksOK /\ Linked \subseteq Node /\ nil \notin Linked
    BY DEF InvariantBy, Linked
  <1>2. /\ \A n \in Ref : n \notin Linked => R[n] = {value[m] : m \in Linked \cup Detached}
        /\ \A n \in Linked :
              R[n] = {v \in R[parent[n]] :
                         parent[n] = nil \/ Fits(v, parent[n], SlotOf(child, parent[n], n))}
    <2>1. R = [n \in Ref |->
                 IF n \notin Linked THEN {value[m] : m \in Linked \cup Detached}
                 ELSE {v \in R[parent[n]] :
                       parent[n] = nil \/ Fits(v, parent[n], SlotOf(child, parent[n], n))}]
      BY RoomIs
    <2> HIDE DEF R
    <2> QED BY <1>1, <2>1
  <1> HIDE DEF R
  <1>3. ASSUME NEW n \in Linked, NEW s \in Side, child[n][s] # nil
        PROVE  /\ child[n][s] \in Linked /\ parent[child[n][s]] = n
               /\ SlotOf(child, n, child[n][s]) = s
    <2>1. child[n][s] \in Linked /\ parent[child[n][s]] = n
      BY <1>1, <1>3 DEF LinksOK
    <2>2. child[n]["left"] # child[n]["right"]
      BY <1>1, <1>3 DEF LinksOK
    <2> QED BY <2>1, <2>2 DEF SlotOf
  <1>4. ASSUME NEW m \in Linked \cup Detached
        PROVE  \A n \in Linked : value[m] \in A[n] => value[m] \in R[n]
    <2> DEFINE D == {n \in Linked : value[m] \in A[n] /\ value[m] \notin R[n]}
    <2>1. SUFFICES ASSUME D # {} PROVE FALSE
      OBVIOUS
    <2>2. PICK N : Climbing(N)
      BY ClimbExists
    <2>3. PICK n \in D : \A u \in D : N[n] <= N[u]
      <3>1. \A u \in D : N[u] \in Nat
        BY <1>1, <2>2 DEF Climbing
      <3> HIDE DEF D
      <3> QED BY <2>1, <3>1, LeastOf
    <2>4. CASE parent[n] = nil
      <3>1. value[m] \in R[nil] /\ R[n] = R[nil]
        BY <1>1, <1>2, <2>3, <2>4
      <3> QED BY <2>3, <3>1
    <2>5. CASE parent[n] # nil
      <3>1. PICK s \in Side : parent[n] \in Linked /\ child[parent[n]][s] = n
        BY <1>1, <2>3, <2>5 DEF LinksOK
      <3>2. value[m] \in A[parent[n]] /\ Fits(value[m], parent[n], s)
        BY <1>1, <2>3, <3>1 DEF Narrowing
      <3>3. SlotOf(child, parent[n], n) = s
        BY <1>1, <1>3, <2>3, <3>1
      <3>4. N[parent[n]] < N[n] /\ N[n] \in Nat /\ N[parent[n]] \in Nat
        BY <1>1, <2>2, <2>3, <3>1 DEF Climbing
      <3>5. parent[n] \notin D
        BY <2>3, <3>4
      <3>6. value[m] \in R[parent[n]]
        BY <3>1, <3>2, <3>5
      <3>7. value[m] \in R[n]
        BY <1>2, <2>3, <3>2, <3>3, <3>6
      <3> QED BY <2>3, <3>7
    <2> QED BY <2>4, <2>5
  <1>5. \A n \in Linked : value[n] \in R[n]
    BY <1>4 DEF Narrowing
  <1>6. ASSUME NEW n \in Linked, NEW s \in Side, child[n][s] # nil, NEW v \in R[child[n][s]]
        PROVE  v \in R[n] /\ Fits(v, n, s)
    BY <1>1, <1>2, <1>3, <1>6
  <1>7. Narrowing(R)
    BY <1>5, <1>6 DEF Narrowing
  <1> QED BY <1>4, <1>7 DEF R

LEMMA WayUpLeads ==
    ASSUME NEW d \in [Ref -> Nat], NEW h, InvariantBy(d, h), WayOK, pc = "successor", y # arg
    PROVE  LET W == WayUpFrom[parent[y]]
           IN  /\ W = Path(parent, y) \ (Path(parent, arg) \cup {y})
               /\ y \in Linked /\ arg \in Linked
  <1> DEFINE w == WayUpFrom
  <1>1. /\ TypeOK /\ LinksOK /\ Linked \subseteq Node /\ nil \notin Linked
        /\ parent \in [Ref -> Ref]
    BY DEF InvariantBy, TypeOK, Linked
  <1>2. /\ y \in Linked /\ arg \in Path(parent, y) /\ Leads(arg, y, "left")
    BY DEF InvariantBy, PlaceOK, SuccessorPlace, WayOK, Leads
  <1>3. \A n \in Linked : w[n] = IF n = arg THEN {} ELSE {n} \cup w[parent[n]]
    <2>1. w = [n \in Ref |-> IF n = arg \/ n \notin Linked THEN {} ELSE {n} \cup w[parent[n]]]
      BY WayUpIs
    <2> HIDE DEF w
    <2> QED BY <1>1, <2>1
  <1> HIDE DEF w
  <1>4. arg \in Linked /\ Path(parent, y) \subseteq Linked
    BY <1>2, PathInTree
  <1> DEFINE D == {n \in Linked : arg \in Path(parent, n)
                                     /\ w[n] # Path(parent, n) \ Path(parent, arg)}
  <1>5. ASSUME NEW n \in Linked, n # arg, arg \in Path(parent, n)
        PROVE  /\ parent[n] \in Linked /\ arg \in Path(parent, parent[n])
               /\ Path(parent, n) = {n} \cup Path(parent, parent[n])
               /\ n \notin Path(parent, arg) /\ n \notin Path(parent, parent[n])
               /\ w[n] = {n} \cup w[parent[n]]
    <2>1. parent[n] # nil
      <3>1. parent[n] = nil => Path(parent, n) = {n}
        BY <1>1, PathOfRoot
      <3> QED BY <1>5, <3>1
    <2>2. parent[n] \in Linked
      BY <1>1, <2>1 DEF LinksOK
    <2>3. Path(parent, n) = {n} \cup Path(parent, parent[n])
      BY <1>1, <2>2, PathStep
    <2>4. d[arg] < d[n] /\ d[parent[n]] < d[n] /\ d[arg] \in Nat /\ d[n] \in Nat
          /\ d[parent[n]] \in Nat
      <3>1. d[arg] < d[n]
        BY <1>5, PathRises
      <3>2. parent[n] \in Path(parent, n)
        BY <1>1, <2>2, <2>3, PathUp
      <3>3. n # parent[n]
        <4>1. PICK s \in Side : child[parent[n]][s] = n
          BY <1>1, <2>2 DEF LinksOK
        <4>2. d[parent[n]] < d[n] /\ d[n] \in Nat
          BY <1>1, <2>2, <4>1 DEF InvariantBy, Descending
        <4> QED BY <4>2
      <3>4. d[parent[n]] < d[n]
        BY <3>2, <3>3, PathRises
      <3> QED BY <1>1, <1>4, <2>2, <3>1, <3>4
    <2>5. n \notin Path(parent, arg)
      <3>1. n \in Path(parent, arg) => d[n] < d[arg]
        BY <1>4, <1>5, PathRises
      <3> QED BY <2>4, <3>1
    <2>6. n \notin Path(parent, parent[n])
      <3>1. n \in Path(parent, parent[n]) => n = parent[n] \/ d[n] < d[parent[n]]
        BY <2>2, PathRises
      <3> QED BY <2>4, <3>1
    <2> QED BY <1>3, <1>5, <2>2, <2>3, <2>5, <2>6
  <1>6. \A n \in Linked : arg \in Path(parent, n) => w[n] = Path(parent, n) \ Path(parent, arg)
    <2>1. SUFFICES ASSUME D # {} PROVE FALSE
      OBVIOUS
    <2>2. PICK N : Climbing(N)
      BY ClimbExists
    <2>3. PICK n \in D : \A u \in D : N[n] <= N[u]
      <3>1. \A u \in D : N[u] \in Nat
        BY <1>1, <2>2 DEF Climbing
      <3> HIDE DEF D
      <3> QED BY <2>1, <3>1, LeastOf
    <2>4. n \in Linked /\ arg \in Path(parent, n) /\ w[n] # Path(parent, n) \ Path(parent, arg)
      BY <2>3
    <2>5. n # arg
      BY <1>3, <2>4
    <2>6. /\ parent[n] \in Linked /\ arg \in Path(parent, parent[n])
          /\ Path(parent, n) = {n} \cup Path(parent, parent[n])
          /\ n \notin Path(parent, arg)
          /\ w[n] = {n} \cup w[parent[n]]
      BY <1>5, <2>4, <2>5
    <2>7. N[parent[n]] < N[n] /\ N[n] \in Nat /\ N[parent[n]] \in Nat
      BY <1>1, <2>2, <2>4, <2>6 DEF Climbing
    <2>8. w[parent[n]] = Path(parent, parent[n]) \ Path(parent, arg)
      BY <2>3, <2>6, <2>7
    <2> QED BY <2>4, <2>6, <2>8
  <1>7. w[parent[y]] = Path(parent, parent[y]) \ Path(parent, arg)
    BY <1>2, <1>5, <1>6
  <1>8. Path(parent, y) = {y} \cup Path(parent, parent[y]) /\ y \notin Path(parent, parent[y])
    BY <1>2, <1>5
  <1> QED BY <1>2, <1>4, <1>7, <1>8 DEF w

LEMMA OrderComputed ==
    ASSUME NEW d \in [Ref -> Nat], NEW h, InvariantBy(d, h), WayOK, OrderInv, ~Positional
    PROVE  OrderedBy(RoomFrom, WayUpFrom[parent[y]])
  <1>1. PICK A \in [Ref -> SUBSET Int], V \in SUBSET Node : OrderedBy(A, V)
    BY DEF OrderInv
  <1> DEFINE R == RoomFrom
  <1>2. /\ Narrowing(R)
        /\ \A n \in Linked, m \in Linked \cup Detached : value[m] \in A[n] => value[m] \in R[n]
    BY <1>1, RoomNarrows DEF OrderedBy
  <1> HIDE DEF R
  <1>3. /\ TypeOK /\ LinksOK /\ Linked \subseteq Node /\ nil \notin Linked
    BY DEF InvariantBy, Linked
  <1>4. ASSUME pc = "descend", x # nil
        PROVE  value[arg] \in R[x] /\ Fits(value[arg], x, side)
    <2>1. value[arg] \in A[x] /\ Fits(value[arg], x, side)
      BY <1>1, <1>4 DEF OrderedBy
    <2>2. x \in Linked /\ arg \in Detached
      BY <1>3, <1>4 DEF InvariantBy, PlaceOK, SearchPlace, TypeOK
    <2> QED BY <1>2, <2>1, <2>2
  <1>5. ASSUME pc = "successor", y # arg
        PROVE  Spine(R, WayUpFrom[parent[y]])
    <2> DEFINE W == WayUpFrom[parent[y]]
               P == Path(parent, y) \ Path(parent, arg)
    <2>1. W = P \ {y} /\ y \in Linked /\ arg \in Linked
      BY <1>5, WayUpLeads
    <2>2. /\ P \subseteq Linked /\ arg \notin P /\ parent[arg] \notin P
          /\ \A k \in P : /\ parent[k] \in P \cup {arg}
                          /\ child[parent[k]][IF parent[k] = arg THEN "right" ELSE "left"] = k
          /\ \A k \in P : k # y => child[k]["left"] \in P
          /\ y \in P /\ child[arg]["right"] \in P /\ child[arg]["left"] \notin P
      <3> DEFINE n == arg
                 m == y
                 s == "left"
      <3>1. m \in Linked /\ s \in Side /\ Leads(n, m, s)
        BY <1>5, <2>1 DEF WayOK
      <3> HIDE DEF n, m, s
      <3> DEFINE Q == Path(parent, m) \ Path(parent, n)
      <3>2. /\ Q \subseteq Linked /\ n \notin Q /\ parent[n] \notin Q
            /\ \A k \in Q : /\ parent[k] \in Q \cup {n}
                            /\ child[parent[k]][IF parent[k] = n THEN Other(s) ELSE s] = k
            /\ \A k \in Q : k # m => child[k][s] \in Q
            /\ m # n => m \in Q /\ child[n][Other(s)] \in Q
            /\ child[n][s] \notin Q
        BY <3>1, LedBelow
      <3>3. Other(s) = "right" /\ P = Q
        BY DEF Other, n, m, s
      <3> HIDE DEF P, Q
      <3> QED BY <1>5, <3>2, <3>3 DEF n, m, s
    <2> HIDE DEF W, P
    <2>3. P = W \cup {y} /\ y \notin W
      BY <2>1, <2>2
    <2>4. \A k \in P : parent[k] # y
      <3> SUFFICES ASSUME NEW k \in P, parent[k] = y PROVE FALSE
        OBVIOUS
      <3>1. k \in Path(parent, y) /\ k # nil /\ k \in Node
        BY <1>3, <2>2 DEF P
      <3>2. \E s \in Side : child[y][s] = k
        BY <1>3, <2>1, <2>2, <3>1 DEF LinksOK
      <3>3. d[y] < d[k] /\ d[y] \in Nat /\ d[k] \in Nat
        BY <1>3, <2>1, <3>1, <3>2 DEF InvariantBy, Descending
      <3>4. k = y \/ d[k] < d[y]
        BY <2>1, <3>1, PathRises
      <3> QED BY <3>3, <3>4
    <2>5. ASSUME NEW v \in R[y]
          PROVE  /\ v \in R[arg] /\ Fits(v, arg, "right")
                 /\ \A k \in W : Fits(v, k, "left")
      <3> DEFINE S == {k \in Linked : v \in R[k]}
      <3>1. UpClosed(parent, S)
        <4> SUFFICES ASSUME NEW k \in S, parent[k] # nil PROVE parent[k] \in S
          BY DEF UpClosed
        <4>1. PICK s \in Side : parent[k] \in Linked /\ child[parent[k]][s] = k
          BY <1>3 DEF LinksOK
        <4> QED BY <1>2, <1>3, <4>1 DEF Narrowing
      <3>2. Path(parent, y) \subseteq S
        <4>1. y \in Node /\ S \in SUBSET Node /\ y \in S
          BY <1>3, <2>1
        <4> HIDE DEF S
        <4> QED BY <3>1, <4>1, PathLeast
      <3>3. arg \in Path(parent, y)
        BY <1>5 DEF WayOK, Leads
      <3>4. child[arg]["right"] \in P /\ child[arg]["right"] # nil
        BY <1>3, <2>2
      <3>5. v \in R[child[arg]["right"]]
        BY <3>2, <3>4 DEF P
      <3>6. Fits(v, arg, "right")
        BY <1>2, <2>1, <3>4, <3>5 DEF Narrowing
      <3>7. ASSUME NEW k \in W PROVE Fits(v, k, "left")
        <4>1. k \in Linked /\ child[k]["left"] \in P /\ child[k]["left"] # nil
          BY <1>3, <2>2, <2>3
        <4>2. v \in R[child[k]["left"]]
          BY <3>2, <4>1 DEF P
        <4> QED BY <1>2, <4>1, <4>2 DEF Narrowing
      <3> QED BY <3>2, <3>3, <3>6, <3>7
    <2>6. /\ W \subseteq Linked \ {arg, y} /\ parent[arg] \notin W
          /\ child[arg]["right"] \in W \cup {y}
          /\ child[arg]["left"] \notin W \cup {y}
          /\ \A k \in W \cup {y} : parent[k] \in W \cup {arg}
          /\ \A k \in W : child[k]["left"] \in W \cup {y}
      BY <2>2, <2>3, <2>4
    <2>7. Spine(R, W)
      BY <2>5, <2>6 DEF Spine
    <2> QED BY <2>7 DEF W
  <1>6. OrderedBy(R, WayUpFrom[parent[y]])
    BY <1>2, <1>4, <1>5 DEF OrderedBy
  <1> QED BY <1>6 DEF R

\* The order's witnesses can be computed from the tree as well.
THEOREM OrderWitnessesFit == Spec => []InductiveOrder
  <1>1. IInv /\ OrderInv /\ WayOK => InductiveOrder
    BY OrderComputed DEF IInv, OrderInv, InductiveOrder
  <1> QED BY <1>1, InvariantHolds, OrderHolds, WayHolds, PTL

-----------------------------------------------------------------------------
(* Progress.                                                               *)

\* A subtree is lower than the tree it hangs in.
LEMMA HeightFalls ==
    ASSUME NEW d \in [Ref -> Nat], NEW h \in [Ref -> Nat], InvariantBy(d, h)
    PROVE  /\ \A n \in Ref : HeightFrom[n] \in Nat
           /\ \A n \in Linked, s \in Side : HeightFrom[child[n][s]] < HeightFrom[n]
  <1> DEFINE g == HeightFrom
             D == {n \in Ref : g[n] \notin Nat}
  <1>1. PICK N : Sinking(Linked, child, N)
    BY MeasureExists
  <1>2. child \in [Ref -> [Side -> Ref]] /\ Linked \subseteq Node
    BY DEF InvariantBy, TypeOK, Linked
  <1>3. \A n \in Ref : g[n] = IF n \notin Linked THEN 0
                              ELSE 1 + IF g[child[n]["left"]] > g[child[n]["right"]]
                                       THEN g[child[n]["left"]] ELSE g[child[n]["right"]]
    BY HeightIs
  <1> HIDE DEF g
  <1>4. \A n \in Ref : g[n] \in Nat
    <2> SUFFICES ASSUME D # {} PROVE FALSE
      OBVIOUS
    <2>1. PICK n \in D : \A u \in D : N[n] <= N[u]
      <3>1. \A u \in D : N[u] \in Nat
        BY <1>1 DEF Sinking
      <3> HIDE DEF D
      <3> QED BY <3>1, LeastOf
    <2>2. n \in Linked
      BY <1>3, <2>1
    <2>3. ASSUME NEW s \in Side PROVE g[child[n][s]] \in Nat
      <3>1. child[n][s] \in Ref /\ N[child[n][s]] < N[n]
        BY <1>1, <1>2, <2>2 DEF Sinking
      <3>2. N[child[n][s]] \in Nat /\ N[n] \in Nat
        BY <1>1, <2>1, <3>1 DEF Sinking
      <3> QED BY <2>1, <3>1, <3>2
    <2> QED BY <1>3, <2>1, <2>2, <2>3
  <1>5. ASSUME NEW n \in Linked, NEW s \in Side PROVE g[child[n][s]] < g[n]
    <2>1. n \in Ref /\ g[child[n]["left"]] \in Nat /\ g[child[n]["right"]] \in Nat
      BY <1>2, <1>4
    <2> QED BY <1>3, <2>1
  <1> QED BY <1>4, <1>5 DEF g

\* What is above a node and what is below it make no more than the tree.
LEMMA HeightsFit ==
    ASSUME NEW d \in [Ref -> Nat], NEW h \in [Ref -> Nat], InvariantBy(d, h),
           NEW n \in Linked
    PROVE  /\ LevelFrom[n] \in Nat /\ LevelFrom[n] = 1 + LevelFrom[parent[n]]
           /\ LevelFrom[parent[n]] \in Nat
           /\ LevelFrom[n] + HeightFrom[n] <= HeightFrom[root] + 1
           /\ HeightFrom[n] >= 1 /\ HeightFrom[n] \in Nat /\ HeightFrom[root] \in Nat
  <1> DEFINE g == HeightFrom
             l == LevelFrom
             D == {m \in Linked : ~(l[m] + g[m] <= g[root] + 1)}
  <1>1. /\ Linked \subseteq Node /\ root \in Ref /\ LinksOK
        /\ parent \in [Ref -> Ref] /\ child \in [Ref -> [Side -> Ref]]
    BY DEF InvariantBy, TypeOK, Linked
  <1>2. /\ l \in [Ref -> Nat] /\ l[nil] = 0
        /\ \A m \in Linked : l[m] = 1 + l[parent[m]]
    BY LevelIs
  <1>3. /\ \A m \in Ref : g[m] \in Nat
        /\ \A m \in Linked, s \in Side : g[child[m][s]] < g[m]
    BY HeightFalls
  <1> HIDE DEF g, l
  <1>4. \A m \in Linked : l[m] + g[m] <= g[root] + 1
    <2> SUFFICES ASSUME D # {} PROVE FALSE
      OBVIOUS
    <2>1. PICK m \in D : \A u \in D : l[m] <= l[u]
      <3>1. \A u \in D : l[u] \in Nat
        BY <1>1, <1>2
      <3> HIDE DEF D
      <3> QED BY <3>1, LeastOf
    <2>2. m \in Linked /\ m \in Ref /\ parent[m] \in Ref
      BY <1>1, <2>1
    <2>3. m # root
      <3>1. m = root => l[m] = 1
        BY <1>1, <1>2, <2>2 DEF LinksOK
      <3> QED BY <1>1, <1>3, <2>1, <3>1
    <2>4. parent[m] \in Linked /\ \E s \in Side : child[parent[m]][s] = m
      BY <1>1, <2>2, <2>3 DEF LinksOK
    <2>5. /\ l[m] = 1 + l[parent[m]] /\ g[m] < g[parent[m]]
          /\ l[m] \in Nat /\ l[parent[m]] \in Nat /\ g[m] \in Nat /\ g[parent[m]] \in Nat
          /\ g[root] \in Nat
      BY <1>1, <1>2, <1>3, <2>2, <2>4
    <2>6. parent[m] \notin D
      BY <2>1, <2>5
    <2>7. l[parent[m]] + g[parent[m]] <= g[root] + 1
      BY <2>4, <2>6
    <2> QED BY <2>1, <2>5, <2>7
  <1>5. n \in Ref /\ parent[n] \in Ref /\ child[n]["left"] \in Ref
    BY <1>1
  <1>6. g[n] >= 1
    <2>1. g[child[n]["left"]] \in Nat /\ g[n] \in Nat /\ g[child[n]["left"]] < g[n]
      BY <1>3, <1>5
    <2> QED BY <2>1
  <1> QED BY <1>1, <1>2, <1>3, <1>4, <1>5, <1>6 DEF g, l

LEMMA HeightsStay ==
    ASSUME UNCHANGED <<child, parent, status>>
    PROVE  HeightFrom' = HeightFrom /\ LevelFrom' = LevelFrom
  <1>1. HeightFrom' = HeightFrom
    BY DEF HeightFrom, IsLinked
  <1>2. LevelFrom' = LevelFrom
    BY DEF LevelFrom, IsLinked
  <1> QED BY <1>1, <1>2

\* The measure, case by case.
StepsKnown ==
    /\ Stage = IF pc = "idle" THEN 0
               ELSE IF pc \in RedRedLabels \cup BlackBlackLabels THEN 1 ELSE 2
    /\ pc \in {"descend", "before", "after", "successor"} => StepsLeft = HeightFrom[y]
    /\ pc = "redred" => StepsLeft = IF RedRedAgain THEN 2 + LevelFrom[x] ELSE 0
    /\ pc = "blackblack" =>
          StepsLeft = IF BlackBlackAgain THEN 3 + LevelFrom[parent[x]] ELSE 0
    /\ pc = "nephews" => StepsLeft = 2
    /\ pc \in {"redred_outer", "outer"} => StepsLeft = 1

LEMMA StepsAre == StepsKnown
  BY DEF StepsKnown, StepsLeft, Stage, RedRedLabels, BlackBlackLabels

LEMMA StepsAfter == StepsKnown'
  BY StepsAre, PTL

\* The bound of the measure.
LEMMA StepsBounded ==
    ASSUME NEW d \in [Ref -> Nat], NEW h \in [Ref -> Nat], InvariantBy(d, h), pc # "idle"
    PROVE  StepsLeft \in 0 .. HeightFrom[root] + 3
  <1>1. TypeOK /\ LinksOK /\ PlaceOK /\ root \in Ref
    BY DEF InvariantBy, TypeOK
  <1>2. HeightFrom[root] \in Nat /\ HeightFrom[nil] = 0
    BY <1>1, HeightFalls, HeightIs DEF Linked
  <1>3. CASE pc \in {"descend", "before", "after", "successor"}
    <2>1. y \in Linked \cup {nil}
      BY <1>1, <1>3 DEF PlaceOK, SearchPlace, SuccessorPlace, LinksOK, TypeOK
    <2>2. StepsLeft = HeightFrom[y]
      BY <1>3, StepsAre DEF StepsKnown
    <2>3. CASE y = nil
      BY <1>2, <2>2, <2>3
    <2>4. CASE y \in Linked
      <3> DEFINE a == HeightFrom[y]
                 b == LevelFrom[y]
                 c == HeightFrom[root]
      <3>1. a \in Nat /\ b \in Nat /\ c \in Nat /\ a + b <= c + 1
        BY <2>4, HeightsFit
      <3> HIDE DEF a, b, c
      <3>2. a \in 0 .. c + 3
        BY <3>1
      <3> QED BY <2>2, <3>2 DEF a, c
    <2> QED BY <2>1, <2>3, <2>4
  <1>4. CASE pc = "redred"
    <2>1. CASE RedRedAgain
      <3>1. x \in Linked
        BY <1>1, <1>4 DEF PlaceOK, RedRedPlace, RedRedLabels
      <3>2. StepsLeft = 2 + LevelFrom[x]
        BY <1>4, <2>1, StepsAre DEF StepsKnown
      <3> DEFINE b == LevelFrom[x]
                 c == HeightFrom[root]
      <3>3. b \in Nat /\ c \in Nat /\ b <= c
        <4> DEFINE a == HeightFrom[x]
        <4>1. a \in Nat /\ b \in Nat /\ c \in Nat /\ a >= 1 /\ b + a <= c + 1
          BY <3>1, HeightsFit
        <4> HIDE DEF a, b, c
        <4> QED BY <4>1
      <3> HIDE DEF b, c
      <3>4. 2 + b \in 0 .. c + 3
        BY <3>3
      <3> QED BY <3>2, <3>4 DEF b, c
    <2>2. CASE ~RedRedAgain
      <3>1. StepsLeft = 0
        BY <1>4, <2>2, StepsAre DEF StepsKnown
      <3> QED BY <1>2, <3>1
    <2> QED BY <2>1, <2>2
  <1>5. CASE pc = "blackblack"
    <2>1. CASE BlackBlackAgain
      <3>1. parent[x] \in Linked
        BY <1>1, <1>5, <2>1
           DEF PlaceOK, BlackBlackPlace, BlackBlackLabels, BlackBlackAgain
      <3>2. StepsLeft = 3 + LevelFrom[parent[x]]
        BY <1>5, <2>1, StepsAre DEF StepsKnown
      <3> DEFINE b == LevelFrom[parent[x]]
                 c == HeightFrom[root]
      <3>3. b \in Nat /\ c \in Nat /\ b <= c
        <4> DEFINE a == HeightFrom[parent[x]]
        <4>1. a \in Nat /\ b \in Nat /\ c \in Nat /\ a >= 1 /\ b + a <= c + 1
          BY <3>1, HeightsFit
        <4> HIDE DEF a, b, c
        <4> QED BY <4>1
      <3> HIDE DEF b, c
      <3>4. 3 + b \in 0 .. c + 3
        BY <3>3
      <3> QED BY <3>2, <3>4 DEF b, c
    <2>2. CASE ~BlackBlackAgain
      <3>1. StepsLeft = 0
        BY <1>5, <2>2, StepsAre DEF StepsKnown
      <3> QED BY <1>2, <3>1
    <2> QED BY <2>1, <2>2
  <1>6. CASE pc \in {"nephews", "redred_outer", "outer"}
    <2>1. StepsLeft \in {1, 2}
      BY <1>6, StepsAre DEF StepsKnown
    <2> QED BY <1>2, <2>1
  <1> QED
    BY <1>1, <1>3, <1>4, <1>5, <1>6 DEF TypeOK, Labels, RedRedLabels, BlackBlackLabels

Nearer == \/ Stage' < Stage
          \/ Stage' = Stage /\ StepsLeft' < StepsLeft

\* The loops that look for a place go down, and end in a fixup or at once.
LEMMA SearchAdvances ==
    ASSUME IInv, IInv',
           Descend \/ Slide \/ Successor \/ Attach \/ RefuseDuplicate \/ Unlink
    PROVE  Nearer
  <1>1. PICK d \in [Ref -> Nat], h \in [Ref -> Nat] : InvariantBy(d, h)
    BY DEF IInv
  <1>2. TypeOK /\ LinksOK /\ PlaceOK
    BY <1>1 DEF InvariantBy
  <1>3. CASE Descend \/ Slide \/ Successor
    <2>1. pc' = pc /\ pc \in {"descend", "before", "after", "successor"}
      BY <1>3 DEF Descend, Slide, Successor
    <2>2. y \in Linked /\ \E s \in Side : y' = child[y][s]
      <3>1. SlideSide \in Side /\ \A v, n : WayFrom(v, n) \in Side
        BY DEF SlideSide, WayFrom
      <3>2. y' \in {child[y][s] : s \in Side}
        BY <1>3, <3>1 DEF Descend, Slide, Successor, Deeper
      <3>3. y \in Linked
        BY <1>2, <1>3
           DEF Descend, Slide, Successor, PlaceOK, SearchPlace, SuccessorPlace, LinksOK, TypeOK
      <3> QED BY <3>2, <3>3
    <2>3. HeightFrom' = HeightFrom
      BY <1>3, HeightsStay DEF Descend, Slide, Successor, heap, pool
    <2>4. HeightFrom[y'] < HeightFrom[y]
      BY <1>1, <2>2, HeightFalls
    <2>5. StepsLeft' = HeightFrom'[y'] /\ StepsLeft = HeightFrom[y] /\ Stage' = Stage
      BY <2>1, StepsAre, StepsAfter DEF StepsKnown
    <2> QED BY <2>3, <2>4, <2>5 DEF Nearer
  <1>4. CASE Attach \/ RefuseDuplicate \/ Unlink
    <2>1. Stage = 2 /\ Stage' \in {0, 1}
      BY <1>4, StepsAre, StepsAfter
         DEF StepsKnown, Attach, RefuseDuplicate, Unlink, Return, RedRedLabels, BlackBlackLabels
    <2> QED BY <2>1 DEF Nearer
  <1> QED BY <1>3, <1>4

\* The fixup of an insertion goes up two levels, or has rotated for the last time.
LEMMA RedRedAdvances ==
    ASSUME IInv, IInv', RecolourUncle \/ RotateInner \/ RotateOuter \/ RedRedDone
    PROVE  Nearer
  <1>1. PICK d \in [Ref -> Nat], h \in [Ref -> Nat] : InvariantBy(d, h)
    BY DEF IInv
  <1>2. TypeOK /\ LinksOK /\ PlaceOK /\ AssertsHold
    BY <1>1, InvariantAsserts DEF InvariantBy
  <1>3. RotationsSpent'
    BY DEF IInv, InvariantBy
  <1>4. pc \in RedRedLabels => x \in Linked
    BY <1>2 DEF PlaceOK, RedRedPlace
  <1>5. CASE RedRedDone
    <2>1. Stage = 1 /\ Stage' = 0
      BY <1>5, StepsAre, StepsAfter
         DEF StepsKnown, RedRedDone, Return, RedRedLabels, BlackBlackLabels
    <2> QED BY <2>1 DEF Nearer
  <1>6. CASE RotateInner
    <2>1. /\ Stage = 1 /\ Stage' = 1 /\ StepsLeft = 2 + LevelFrom[x] /\ StepsLeft' = 1
          /\ x \in Linked
      BY <1>4, <1>6, StepsAre, StepsAfter
         DEF StepsKnown, RotateInner, RedRedLabels, BlackBlackLabels
    <2>2. LevelFrom[x] \in Nat
      BY <1>1, <2>1, HeightsFit
    <2> QED BY <2>1, <2>2 DEF Nearer
  <1>7. CASE RotateOuter
    <2>1. pc' = "redred" /\ rotations' = rotations + 1 /\ rotations \in Nat
      BY <1>2, <1>7 DEF RotateOuter, RotateGrandparent, Rotate, TypeOK
    <2>2. ~RedRedAgain'
      BY <1>3, <2>1 DEF RotationsSpent
    <2>3. Stage = 1 /\ Stage' = 1 /\ StepsLeft' = 0
      BY <1>7, <2>1, <2>2, StepsAre, StepsAfter
         DEF StepsKnown, RotateOuter, RedRedLabels, BlackBlackLabels
    <2>4. CASE pc = "redred" /\ RedRedAgain
      <3>1. StepsLeft = 2 + LevelFrom[x] /\ x \in Linked
        BY <1>4, <2>4, StepsAre DEF StepsKnown, RedRedLabels
      <3>2. LevelFrom[x] \in Nat
        BY <1>1, <3>1, HeightsFit
      <3> QED BY <2>3, <3>1, <3>2 DEF Nearer
    <2>5. CASE pc = "redred_outer"
      <3>1. StepsLeft = 1
        BY <2>5, StepsAre DEF StepsKnown
      <3> QED BY <2>3, <3>1 DEF Nearer
    <2> QED BY <1>7, <2>4, <2>5 DEF RotateOuter
  <1>8. CASE RecolourUncle
    <2>1. /\ pc = "redred" /\ pc' = "redred" /\ RedRedAgain /\ x' = parent[parent[x]]
          /\ x \in Linked /\ UNCHANGED <<child, parent, status>>
      BY <1>4, <1>8 DEF RecolourUncle, RedRedLabels, pool
    <2>2. parent[x] \in Linked /\ parent[parent[x]] \in Linked
      <3>1. parent[parent[x]] # nil
        BY <1>2, <2>1 DEF AssertsHold
      <3>2. parent[x] \in Linked
        BY <1>2, <2>1 DEF LinksOK, RedRedAgain
      <3> QED BY <1>2, <3>1, <3>2 DEF LinksOK
    <2> DEFINE l == LevelFrom
    <2>3. /\ l[x] = 1 + l[parent[x]] /\ l[parent[x]] = 1 + l[x']
          /\ l[x] \in Nat /\ l[parent[x]] \in Nat /\ l[x'] \in Nat
      <3>1. l[x] = 1 + l[parent[x]] /\ l[x] \in Nat /\ l[parent[x]] \in Nat
        BY <1>1, <2>1, HeightsFit
      <3>2. l[parent[x]] = 1 + l[parent[parent[x]]] /\ l[parent[parent[x]]] \in Nat
        BY <1>1, <2>2, HeightsFit
      <3> QED BY <2>1, <3>1, <3>2
    <2>4. LevelFrom' = l
      BY <2>1, HeightsStay
    <2>5. /\ Stage' = Stage /\ StepsLeft = 2 + l[x]
          /\ StepsLeft' \in {0, 2 + LevelFrom'[x']}
      BY <2>1, StepsAre, StepsAfter DEF StepsKnown
    <2> HIDE DEF l
    <2> QED BY <2>3, <2>4, <2>5 DEF Nearer
  <1> QED BY <1>5, <1>6, <1>7, <1>8

\* The fixup of a removal goes up one level, or rotates; a rotation before the
\* nephews are looked at does not send it up again.
LEMMA BlackBlackAdvances ==
    ASSUME IInv, IInv',
           \/ RotateSibling \/ BlackBlackDone
           \/ \E s \in Side : RecolourSibling(s) \/ RotateNephew(s) \/ RotateParent(s)
    PROVE  Nearer
  <1>1. PICK d \in [Ref -> Nat], h \in [Ref -> Nat] : InvariantBy(d, h)
    BY DEF IInv
  <1>2. TypeOK /\ LinksOK /\ PlaceOK /\ RotationsSpent
    BY <1>1 DEF InvariantBy
  <1>3. RotationsSpent'
    BY DEF IInv, InvariantBy
  <1>4. pc = "blackblack" /\ BlackBlackAgain =>
           /\ parent[x] \in Linked /\ StepsLeft = 3 + LevelFrom[parent[x]]
           /\ LevelFrom[parent[x]] \in Nat
    <2> SUFFICES ASSUME pc = "blackblack", BlackBlackAgain
                 PROVE  /\ parent[x] \in Linked /\ StepsLeft = 3 + LevelFrom[parent[x]]
                        /\ LevelFrom[parent[x]] \in Nat
      OBVIOUS
    <2>1. parent[x] \in Linked
      BY <1>2 DEF PlaceOK, BlackBlackPlace, BlackBlackLabels, BlackBlackAgain
    <2>2. LevelFrom[parent[x]] \in Nat
      BY <1>1, <2>1, HeightsFit
    <2> QED BY <2>1, <2>2, StepsAre DEF StepsKnown
  <1>5. CASE BlackBlackDone
    <2>1. Stage = 1 /\ Stage' = 0
      BY <1>5, StepsAre, StepsAfter
         DEF StepsKnown, BlackBlackDone, Return, RedRedLabels, BlackBlackLabels
    <2> QED BY <2>1 DEF Nearer
  <1>6. CASE RotateSibling
    <2>1. /\ Stage = 1 /\ Stage' = 1 /\ pc = "blackblack" /\ BlackBlackAgain
          /\ StepsLeft' = 2
      BY <1>6, StepsAre, StepsAfter
         DEF StepsKnown, RotateSibling, RedRedLabels, BlackBlackLabels
    <2> QED BY <1>4, <2>1 DEF Nearer
  <1>7. ASSUME NEW s \in Side, RotateNephew(s) PROVE Nearer
    <2>1. /\ Stage = 1 /\ Stage' = 1 /\ StepsLeft' = 1
          /\ pc = "nephews" \/ (pc = "blackblack" /\ BlackBlackAgain)
      BY <1>7, StepsAre, StepsAfter
         DEF StepsKnown, RotateNephew, AtNephews, RedRedLabels, BlackBlackLabels
    <2>2. pc = "nephews" => StepsLeft = 2
      BY StepsAre DEF StepsKnown
    <2> QED BY <1>4, <2>1, <2>2 DEF Nearer
  <1>8. ASSUME NEW s \in Side, RotateParent(s) PROVE Nearer
    <2>1. /\ pc' = "blackblack" /\ x' = root'
          /\ pc \in {"nephews", "outer"} \/ (pc = "blackblack" /\ BlackBlackAgain)
      BY <1>8 DEF RotateParent, LoopEnder, AtNephews
    <2>2. Stage = 1 /\ Stage' = 1 /\ StepsLeft' = 0
      BY <2>1, StepsAre, StepsAfter
         DEF StepsKnown, BlackBlackAgain, RedRedLabels, BlackBlackLabels
    <2>3. pc \in {"nephews", "outer"} => StepsLeft \in {1, 2}
      BY StepsAre DEF StepsKnown
    <2> QED BY <1>4, <2>1, <2>2, <2>3 DEF Nearer
  <1>9. ASSUME NEW s \in Side, RecolourSibling(s) PROVE Nearer
    <2>1. /\ pc' = "blackblack" /\ x' = parent[x] /\ rotations' = rotations
          /\ UNCHANGED <<child, parent, status>>
          /\ pc = "nephews" \/ (pc = "blackblack" /\ BlackBlackAgain)
      BY <1>9 DEF RecolourSibling, AtNephews, pool
    <2>2. Stage = 1 /\ Stage' = 1
      BY <2>1, StepsAre, StepsAfter DEF StepsKnown, RedRedLabels, BlackBlackLabels
    <2>3. CASE pc = "nephews"
      <3>1. rotations' = 1
        BY <1>2, <2>1, <2>3 DEF RotationsSpent
      <3>2. ~BlackBlackAgain'
        BY <1>3, <2>1, <3>1 DEF RotationsSpent
      <3>3. StepsLeft' = 0 /\ StepsLeft = 2
        BY <2>1, <2>3, <3>2, StepsAre, StepsAfter DEF StepsKnown
      <3> QED BY <2>2, <3>3 DEF Nearer
    <2>4. CASE pc = "blackblack" /\ BlackBlackAgain
      <3> DEFINE l == LevelFrom
      <3>1. l[parent[x]] = 1 + l[parent[parent[x]]] /\ l[parent[parent[x]]] \in Nat
        BY <1>1, <1>4, <2>4, HeightsFit
      <3>2. LevelFrom' = l
        BY <2>1, HeightsStay
      <3>3. StepsLeft = 3 + l[parent[x]] /\ StepsLeft' \in {0, 3 + LevelFrom'[parent'[x']]}
        BY <1>4, <2>1, <2>4, StepsAfter DEF StepsKnown
      <3>4. LevelFrom'[parent'[x']] = l[parent[parent[x]]]
        BY <2>1, <3>2
      <3> HIDE DEF l
      <3> QED BY <2>2, <3>1, <3>3, <3>4 DEF Nearer
    <2> QED BY <2>1, <2>3, <2>4
  <1> QED BY <1>5, <1>6, <1>7, <1>8, <1>9

Advances ==
    pc # "idle" =>
        /\ StepsLeft \in 0 .. HeightFrom[root] + 3
        /\ \/ Stage' < Stage
           \/ Stage' = Stage /\ StepsLeft' < StepsLeft

LEMMA StepAdvances == IInv /\ IInv' /\ [Next]_vars => [Advances]_vars
  <1> SUFFICES ASSUME IInv, IInv', Next, pc # "idle" PROVE Advances
    BY DEF Advances
  <1>1. StepsLeft \in 0 .. HeightFrom[root] + 3
    BY StepsBounded DEF IInv
  <1>2. Continue
    BY DEF Next, NodeCall, NewNode, FreeNode, InsertNode, InsertBeside, RemoveNode, ClearMarker,
           MarkNodeAsDirty, EnableMarking, WalkDirty
  <1>3. Nearer
    BY <1>2, SearchAdvances, RedRedAdvances, BlackBlackAdvances DEF Continue
  <1> QED BY <1>1, <1>3 DEF Advances, Nearer

\* No call runs for ever, for any number of nodes: each step of its loops is
\* one of at most as many as the tree is high, and three.
THEOREM CallsEnd == Spec => CallsAdvance
  BY StepAdvances, InvariantHolds, PTL DEF Spec, CallsAdvance, Advances

=============================================================================
