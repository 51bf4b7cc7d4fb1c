----------------------- MODULE RBTreeRefinementProofs -----------------------
(***************************************************************************)
(* The tree implements the sequence of OrderedNodes. A rotation leaves the *)
(* in-order as it is; attach_node puts its node between those that the     *)
(* search has left on either side; remove_node takes out its node alone,   *)
(* even where another one takes its place. What a caller sees of a call is *)
(* then a step of the sequence, and of a fixup nothing.                    *)
(***************************************************************************)
EXTENDS RBTreeRefinement, RBTreeShapeProofs

USE NilAssumption DEF Side, Ref, Color

-----------------------------------------------------------------------------
(* Sequences of nodes, put together and taken apart.                       *)

Run(a) == a \in Seq(Node)
Cat(a, b) == a \o b

\* t is s without e, which stands somewhere in s.
Dropped(t, s, e) ==
    \E a, b : Run(a) /\ Run(b) /\ s = Join(a, e, b) /\ t = Cat(a, b)

\* t is s with e beside x on side r.
Put(t, s, x0, e, r) ==
    \E a, b : /\ Run(a) /\ Run(b) /\ s = Join(a, x0, b)
              /\ t = IF r = "right" THEN Join(a, x0, Join(<<>>, e, b))
                                    ELSE Join(Join(a, e, <<>>), x0, b)

LEMMA EmptyRun ==
    /\ Run(<<>>)
    /\ \A a : Run(a) => Cat(<<>>, a) = a /\ Cat(a, <<>>) = a
  BY ConcatEmptySeq DEF Run, Cat

LEMMA RunsJoin ==
    ASSUME NEW a, Run(a), NEW b, Run(b), NEW e, e \in Node
    PROVE  Run(Cat(a, b)) /\ Run(Join(a, e, b))
  BY DEF Run, Cat, Join

LEMMA CatAssociates ==
    ASSUME NEW a, Run(a), NEW b, Run(b), NEW c, Run(c)
    PROVE  Cat(Cat(a, b), c) = Cat(a, Cat(b, c))
  BY ConcatAssociative DEF Run, Cat

LEMMA JoinIs ==
    ASSUME NEW a, Run(a), NEW b, Run(b), NEW e, e \in Node
    PROVE  Join(a, e, b) = Cat(a, Join(<<>>, e, b)) /\ Join(a, e, b) = Cat(Join(a, e, <<>>), b)
  BY ConcatAssociative, ConcatEmptySeq DEF Run, Cat, Join

LEMMA JoinCats ==
    ASSUME NEW a, Run(a), NEW b, Run(b), NEW c, Run(c), NEW e, e \in Node
    PROVE  /\ Cat(a, Join(b, e, c)) = Join(Cat(a, b), e, c)
           /\ Cat(Join(a, e, b), c) = Join(a, e, Cat(b, c))
  <1> DEFINE o == <<e>>
  <1>1. Run(o)
    BY DEF Run
  <1>2. \A q, r : Join(q, e, r) = Cat(Cat(q, o), r)
    BY DEF Join, Cat
  <1> HIDE DEF o
  <1>3. Run(Cat(a, o)) /\ Run(Cat(b, o)) /\ Run(Cat(Cat(a, o), b))
    BY <1>1 DEF Run, Cat
  <1>4. Cat(a, Cat(Cat(b, o), c)) = Cat(Cat(a, Cat(b, o)), c)
    BY <1>3, CatAssociates
  <1>5. Cat(a, Cat(b, o)) = Cat(Cat(a, b), o)
    BY <1>1, CatAssociates
  <1>6. Cat(Cat(Cat(a, o), b), c) = Cat(Cat(a, o), Cat(b, c))
    BY <1>3, CatAssociates
  <1> QED BY <1>2, <1>4, <1>5, <1>6

LEMMA JoinTurns ==
    ASSUME NEW a, Run(a), NEW b, Run(b), NEW c, Run(c), NEW p, p \in Node, NEW t, t \in Node
    PROVE  Join(a, p, Join(b, t, c)) = Join(Join(a, p, b), t, c)
  <1>1. Run(Join(a, p, <<>>)) /\ Run(Join(a, p, b)) /\ Run(Join(b, t, c))
    BY RunsJoin, EmptyRun
  <1>2. Join(a, p, Join(b, t, c)) = Cat(Join(a, p, <<>>), Join(b, t, c))
    BY <1>1, JoinIs
  <1>3. Join(Join(a, p, b), t, c) = Join(Cat(Join(a, p, <<>>), b), t, c)
    BY JoinIs
  <1> QED BY <1>1, <1>2, <1>3, JoinCats

\* What is dropped from, or put into, a part is dropped from the whole.
LEMMA DroppedInPart ==
    ASSUME NEW s, NEW t, NEW e, e \in Node, Dropped(t, s, e), NEW q, Run(q), NEW m, m \in Node
    PROVE  /\ Dropped(Join(t, m, q), Join(s, m, q), e)
           /\ Dropped(Join(q, m, t), Join(q, m, s), e)
  <1>1. PICK a, b : Run(a) /\ Run(b) /\ s = Join(a, e, b) /\ t = Cat(a, b)
    BY DEF Dropped
  <1>2. Run(Join(b, m, q)) /\ Run(Join(q, m, a)) /\ Run(s) /\ Run(t)
    BY <1>1, RunsJoin
  <1>3. Join(Join(a, e, b), m, q) = Join(a, e, Join(b, m, q))
    BY <1>1, JoinTurns
  <1>4. Join(Cat(a, b), m, q) = Cat(a, Join(b, m, q))
    BY <1>1, JoinCats
  <1>5. Join(q, m, Join(a, e, b)) = Join(Join(q, m, a), e, b)
    BY <1>1, JoinTurns
  <1>6. Join(q, m, Cat(a, b)) = Cat(Join(q, m, a), b)
    BY <1>1, JoinCats
  <1> QED BY <1>1, <1>2, <1>3, <1>4, <1>5, <1>6 DEF Dropped

LEMMA PutInPart ==
    ASSUME NEW s, NEW t, NEW x0, x0 \in Node, NEW e, e \in Node, NEW r, Put(t, s, x0, e, r),
           NEW q, Run(q), NEW m, m \in Node
    PROVE  /\ Put(Join(t, m, q), Join(s, m, q), x0, e, r)
           /\ Put(Join(q, m, t), Join(q, m, s), x0, e, r)
  <1>1. PICK a, b : /\ Run(a) /\ Run(b) /\ s = Join(a, x0, b)
                    /\ t = IF r = "right" THEN Join(a, x0, Join(<<>>, e, b))
                                          ELSE Join(Join(a, e, <<>>), x0, b)
    BY DEF Put
  <1>2. /\ Run(Join(b, m, q)) /\ Run(Join(q, m, a)) /\ Run(Join(<<>>, e, b))
        /\ Run(Join(a, e, <<>>)) /\ Run(<<>>)
    BY <1>1, RunsJoin, EmptyRun
  <1>3. Join(Join(a, x0, b), m, q) = Join(a, x0, Join(b, m, q))
    BY <1>1, JoinTurns
  <1>4. Join(q, m, Join(a, x0, b)) = Join(Join(q, m, a), x0, b)
    BY <1>1, JoinTurns
  <1>5. CASE r = "right"
    <2>1. /\ Join(Join(a, x0, Join(<<>>, e, b)), m, q) = Join(a, x0, Join(Join(<<>>, e, b), m, q))
          /\ Join(Join(<<>>, e, b), m, q) = Join(<<>>, e, Join(b, m, q))
      BY <1>1, <1>2, JoinTurns
    <2>2. Join(q, m, Join(a, x0, Join(<<>>, e, b))) = Join(Join(q, m, a), x0, Join(<<>>, e, b))
      BY <1>1, <1>2, JoinTurns
    <2> QED BY <1>1, <1>2, <1>3, <1>4, <1>5, <2>1, <2>2 DEF Put
  <1>6. CASE r # "right"
    <2>1. Join(Join(Join(a, e, <<>>), x0, b), m, q) = Join(Join(a, e, <<>>), x0, Join(b, m, q))
      BY <1>1, <1>2, JoinTurns
    <2>2. /\ Join(q, m, Join(Join(a, e, <<>>), x0, b)) = Join(Join(q, m, Join(a, e, <<>>)), x0, b)
          /\ Join(q, m, Join(a, e, <<>>)) = Join(Join(q, m, a), e, <<>>)
      BY <1>1, <1>2, JoinTurns
    <2> QED BY <1>1, <1>2, <1>3, <1>4, <1>6, <2>1, <2>2 DEF Put
  <1> QED BY <1>5, <1>6

LEMMA DroppedHere ==
    ASSUME NEW a, Run(a), NEW e
    PROVE  Dropped(a, Join(<<>>, e, a), e) /\ Dropped(a, Join(a, e, <<>>), e)
  BY EmptyRun DEF Dropped

LEMMA PutHere ==
    ASSUME NEW a, Run(a), NEW b, Run(b), NEW x0, NEW e, e \in Node
    PROVE  /\ Put(Join(a, x0, Join(<<>>, e, b)), Join(a, x0, b), x0, e, "right")
           /\ Put(Join(Join(a, e, <<>>), x0, b), Join(a, x0, b), x0, e, "left")
  BY DEF Put

-----------------------------------------------------------------------------
(* The in-order before and after a step.                                   *)

LEMMA WalkUnique ==
    ASSUME NEW L, NEW ch, NEW N, Sinking(L, ch, N), NEW f, Walks(L, ch, f),
           NEW g, Walks(L, ch, g)
    PROVE  f = g
  <1> DEFINE G == WalkMap(L, ch)
             V == Seq(L)
  <1>1. N \in [Ref -> Nat] /\ f \in [Ref -> V] /\ g \in [Ref -> V]
    BY DEF Sinking, Walks
  <1>2. Descends(G, Ref, V, N)
    <2>1. L \subseteq Node /\ ch \in [Ref -> [Side -> Ref]]
      BY DEF Walks
    <2> QED BY <2>1, WalkMapDescends
  <1>3. f = G[f]
    <2>1. f \in [Ref -> Seq(L)]
      BY <1>1
    <2>2. G[f] = [n \in Ref |-> IF n \notin L THEN <<>>
                               ELSE f[ch[n]["left"]] \o <<n>> \o f[ch[n]["right"]]]
      BY <2>1 DEF WalkMap
    <2>3. f = [n \in Ref |-> IF n \notin L THEN <<>>
                               ELSE f[ch[n]["left"]] \o <<n>> \o f[ch[n]["right"]]]
      BY DEF Walks
    <2> QED BY <2>2, <2>3
  <1>4. g = G[g]
    <2>1. g \in [Ref -> Seq(L)]
      BY <1>1
    <2>2. G[g] = [n \in Ref |-> IF n \notin L THEN <<>>
                               ELSE g[ch[n]["left"]] \o <<n>> \o g[ch[n]["right"]]]
      BY <2>1 DEF WalkMap
    <2>3. g = [n \in Ref |-> IF n \notin L THEN <<>>
                               ELSE g[ch[n]["left"]] \o <<n>> \o g[ch[n]["right"]]]
      BY DEF Walks
    <2> QED BY <2>2, <2>3
  <1> HIDE DEF G, V
  <1> QED BY <1>1, <1>2, <1>3, <1>4, RecursionUnique

\* The subtrees below a node are apart from it and from each other.
Apart(L, ch, f) ==
    \A n \in L :
       /\ n \notin Elements(f[ch[n]["left"]]) \cup Elements(f[ch[n]["right"]])
       /\ Elements(f[ch[n]["left"]]) \cap Elements(f[ch[n]["right"]]) = {}

\* The in-order of the links, and what makes it the only one.
Walked ==
    /\ TypeOK /\ LinksOK /\ Linked \subseteq Node /\ nil \notin Linked
    /\ Walks(Linked, child, InOrderFrom)
    /\ \E N : Sinking(Linked, child, N)
    /\ Apart(Linked, child, InOrderFrom)
    /\ InOrder = InOrderFrom[root] /\ InOrder \in Seq(Linked)
    /\ Elements(InOrder) = Linked /\ OnceEach(InOrder)

LEMMA TreeWalked == IInv => Walked
  <1> SUFFICES ASSUME IInv PROVE Walked
    OBVIOUS
  <1>1. PICK d \in [Ref -> Nat], h \in [Ref -> Nat] : InvariantBy(d, h)
    BY DEF IInv
  <1>2. PICK N : Sinking(Linked, child, N)
    BY <1>1, MeasureExists
  <1>3. Walks(Linked, child, InOrderFrom)
    BY <1>1, InOrderWalks
  <1>4. Treelike(Linked, root, parent, child, d)
    BY <1>1, TreeIsTreelike
  <1>5. Apart(Linked, child, InOrderFrom)
    <2> DEFINE L == Linked
               ch == child
               f == InOrderFrom
               rt == root
               par == parent
    <2>1. Treelike(L, rt, par, ch, d) /\ Sinking(L, ch, N) /\ Walks(L, ch, f)
      BY <1>2, <1>3, <1>4
    <2> HIDE DEF L, ch, f, rt, par
    <2>2. Apart(L, ch, f)
      BY <2>1, WalksApart DEF Apart
    <2> QED BY <2>2 DEF L, ch, f
  <1>6. root \in Ref
    BY <1>1 DEF InvariantBy, TypeOK
  <1>7. InOrder \in Seq(Linked) /\ Elements(InOrder) = Linked /\ OnceEach(InOrder)
    BY <1>1, <1>6, InOrderMeetsAll DEF InOrder
  <1> QED BY <1>1, <1>2, <1>3, <1>5, <1>7 DEF InvariantBy, Walked, Linked, InOrder

LEMMA TreeWalkedAfter == (IInv => Walked)'
  BY TreeWalked, PTL

\* A walk of the new links is the new in-order.
LEMMA WalkIs ==
    ASSUME Walked', NEW g, Walks(Linked', child', g)
    PROVE  InOrderFrom' = g
  <1> DEFINE L == Linked'
             ch == child'
             f == InOrderFrom'
  <1>1. PICK N : Sinking(L, ch, N)
    BY DEF Walked
  <1>2. Walks(L, ch, f) /\ Walks(L, ch, g)
    BY DEF Walked
  <1> HIDE DEF L, ch, f
  <1>3. f = g
    BY <1>1, <1>2, WalkUnique
  <1> QED BY <1>3 DEF f

LEMMA RunsOfWalk ==
    ASSUME NEW L, NEW ch, NEW f, Walks(L, ch, f)
    PROVE  /\ L \subseteq Node
           /\ \A n \in Ref : Run(f[n])
           /\ \A n \in L : f[n] = Join(f[ch[n]["left"]], n, f[ch[n]["right"]])
           /\ \A n \in Ref : n \notin L => f[n] = <<>>
  <1>1. L \subseteq Node /\ f \in [Ref -> Seq(L)] /\ Seq(L) \subseteq Seq(Node)
    BY DEF Walks
  <1>2. \A n \in L : f[n] = Join(f[ch[n]["left"]], n, f[ch[n]["right"]])
    BY WalkAt
  <1>3. \A n \in Ref : n \notin L => f[n] = <<>>
    BY WalkOutside
  <1> QED BY <1>1, <1>2, <1>3 DEF Run

\* The converse: what is put together like this is a walk.
LEMMA WalkBuilt ==
    ASSUME NEW L, L \subseteq Node, NEW ch, ch \in [Ref -> [Side -> Ref]],
           NEW f, f \in [Ref -> Seq(L)],
           \A n \in L : f[n] = Join(f[ch[n]["left"]], n, f[ch[n]["right"]]),
           \A n \in Ref : n \notin L => f[n] = <<>>
    PROVE  Walks(L, ch, f)
  <1>1. f = [n \in Ref |-> f[n]]
    OBVIOUS
  <1>2. \A n \in Ref : f[n] = IF n \notin L THEN <<>>
                              ELSE f[ch[n]["left"]] \o <<n>> \o f[ch[n]["right"]]
    BY DEF Join
  <1>3. f = [n \in Ref |-> IF n \notin L THEN <<>>
                          ELSE f[ch[n]["left"]] \o <<n>> \o f[ch[n]["right"]]]
    BY <1>1, <1>2
  <1> QED BY <1>3 DEF Walks

-----------------------------------------------------------------------------
(* Rotations.                                                              *)

\* The parts of the tree around p and t, its child on side o, before and after
\* p is turned towards the other side s; b moves from t to p.
TurnAt(L, ch, cn, p, t, a, b, c, s, o) ==
    /\ L \subseteq Node /\ cn \in [Ref -> [Side -> Ref]]
    /\ p \in L /\ t \in L /\ p # t
    /\ s \in Side /\ o \in Side /\ s # o
    /\ ch[p][o] = t /\ ch[p][s] = a /\ ch[t][s] = b /\ ch[t][o] = c
    /\ cn[p][o] = b /\ cn[p][s] = a /\ cn[t][s] = p /\ cn[t][o] = c
    /\ \A m \in {a, b, c} : m \in Ref /\ m # p /\ m # t
    /\ \A n \in L, r \in Side :
          n # p /\ n # t =>
             \/ ch[n][r] = p /\ cn[n][r] = t
             \/ cn[n][r] = ch[n][r] /\ ch[n][r] # p /\ ch[n][r] # t

LEMMA TurnedWalk ==
    ASSUME NEW L, NEW ch, NEW f, Walks(L, ch, f), NEW cn,
           NEW p, NEW t, NEW a, NEW b, NEW c, NEW s, NEW o,
           TurnAt(L, ch, cn, p, t, a, b, c, s, o)
    PROVE  \E g : /\ Walks(L, cn, g) /\ g[t] = f[p]
                  /\ \A n \in Ref : n # p /\ n # t => g[n] = f[n]
  <1> DEFINE fp == IF s = "left" THEN Join(f[a], p, f[b]) ELSE Join(f[b], p, f[a])
             g == [n \in Ref |-> IF n = t THEN f[p] ELSE IF n = p THEN fp ELSE f[n]]
  <1>1. /\ L \subseteq Node /\ ch \in [Ref -> [Side -> Ref]] /\ f \in [Ref -> Seq(L)]
        /\ p \in Ref /\ t \in Ref /\ p \in Node /\ t \in Node
        /\ a \in Ref /\ b \in Ref /\ c \in Ref
    BY DEF Walks, TurnAt
  <1>2. /\ f[a] \in Seq(L) /\ f[b] \in Seq(L) /\ f[c] \in Seq(L)
        /\ Run(f[a]) /\ Run(f[b]) /\ Run(f[c])
    BY <1>1, RunsOfWalk
  <1>3. fp \in Seq(L)
    BY <1>2, Joined DEF TurnAt
  <1>4. (s = "left" /\ o = "right") \/ (s = "right" /\ o = "left")
    <2>1. s \in Side /\ o \in Side /\ s # o
      BY DEF TurnAt
    <2> QED BY <2>1
  <1>5. f[p] = IF s = "left" THEN Join(f[a], p, f[t]) ELSE Join(f[t], p, f[a])
    BY <1>4, RunsOfWalk DEF TurnAt
  <1>6. f[t] = IF s = "left" THEN Join(f[b], t, f[c]) ELSE Join(f[c], t, f[b])
    BY <1>4, RunsOfWalk DEF TurnAt
  <1>7. f[p] = IF s = "left" THEN Join(fp, t, f[c]) ELSE Join(f[c], t, fp)
    <2>1. /\ Join(f[a], p, Join(f[b], t, f[c])) = Join(Join(f[a], p, f[b]), t, f[c])
          /\ Join(f[c], t, Join(f[b], p, f[a])) = Join(Join(f[c], t, f[b]), p, f[a])
      BY <1>1, <1>2, JoinTurns
    <2> QED BY <1>5, <1>6, <2>1
  <1>8. g[t] = f[p] /\ g[p] = fp /\ \A n \in Ref : n # p /\ n # t => g[n] = f[n]
    BY <1>1 DEF TurnAt
  <1>9. g \in [Ref -> Seq(L)]
    BY <1>1, <1>3
  <1> HIDE DEF g, fp
  <1>10. g[a] = f[a] /\ g[b] = f[b] /\ g[c] = f[c]
    BY <1>8 DEF TurnAt
  <1>11. ASSUME NEW n \in L PROVE g[n] = Join(g[cn[n]["left"]], n, g[cn[n]["right"]])
    <2>1. CASE n = p
      BY <1>4, <1>8, <1>10, <2>1 DEF fp, TurnAt
    <2>2. CASE n = t
      BY <1>4, <1>7, <1>8, <1>10, <2>2 DEF TurnAt
    <2>3. CASE n # p /\ n # t
      <3>1. n \in Ref /\ f[n] = Join(f[ch[n]["left"]], n, f[ch[n]["right"]])
        BY <1>1, RunsOfWalk
      <3>2. \A r \in Side : g[cn[n][r]] = f[ch[n][r]]
        <4>1. \A r \in Side : ch[n][r] \in Ref
          BY <1>1, <3>1
        <4> QED BY <1>8, <2>3, <4>1 DEF TurnAt
      <3> QED BY <1>8, <2>3, <3>1, <3>2
    <2> QED BY <2>1, <2>2, <2>3
  <1>12. \A n \in Ref : n \notin L => g[n] = <<>>
    <2>1. \A n \in Ref : n \notin L => f[n] = <<>> /\ n # p /\ n # t
      BY RunsOfWalk DEF TurnAt
    <2> QED BY <1>8, <2>1
  <1>13. cn \in [Ref -> [Side -> Ref]]
    BY DEF TurnAt
  <1>14. Walks(L, cn, g)
    BY <1>1, <1>9, <1>11, <1>12, <1>13, WalkBuilt
  <1> QED BY <1>8, <1>14

\* No rotation changes the order of the nodes.
LEMMA TurnKeepsInOrder ==
    ASSUME Walked, Walked', NEW d \in [Ref -> Nat], NEW s \in Side, NEW p,
           Rotatable(d, s, p), TurnedLinks(s, p), Linked' = Linked
    PROVE  InOrder' = InOrder
  <1> DEFINE L == Linked
             ch == child
             cn == child'
             f == InOrderFrom
  <1>1. TypeOK /\ LinksOK /\ L \subseteq Node /\ nil \notin L
    BY DEF Walked
  <1>2. PICK o, t, b, q, k : Around(s, p, o, t, b, q, k)
    BY <1>1, RotatedAround
  <1>3. cn \in [Ref -> [Side -> Ref]] /\ ch \in [Ref -> [Side -> Ref]]
    BY DEF Walked, TypeOK
  <1>4. ASSUME NEW n \in L, NEW r \in Side
        PROVE  \/ n = p /\ r = o
               \/ n = t /\ r = s
               \/ ch[n][r] = p /\ cn[n][r] = t
               \/ cn[n][r] = ch[n][r] /\ ch[n][r] # p /\ ch[n][r] # t
    <2>1. n # nil
      BY <1>1
    <2>2. \/ n = p /\ r = o
          \/ n = t /\ r = s
          \/ n = q /\ r = k
          \/ child'[n][r] = child[n][r] /\ child[n][r] # p /\ child[n][r] # t
      BY <1>1, <1>2, OtherLinks
    <2> QED BY <1>2, <2>1, <2>2 DEF Around
  <1>5. TurnAt(L, ch, cn, p, t, ch[p][s], b, ch[t][o], s, o)
    <2>1. /\ p \in L /\ t \in L /\ p # t /\ s # o /\ o \in Side
          /\ ch[p][o] = t /\ ch[t][s] = b /\ cn[p][o] = b /\ cn[p][s] = ch[p][s]
          /\ cn[t][s] = p /\ cn[t][o] = ch[t][o] /\ b \in Ref /\ b # p /\ b # t
      BY <1>2 DEF Around
    <2>2. ch[p][s] # p /\ ch[p][s] # t /\ ch[t][o] # p /\ ch[t][o] # t
      <3>1. ch[p][s] # p /\ ch[p][s] # t
        BY <1>4, <2>1
      <3>2. ch[t][o] # p /\ ch[t][o] # t
        BY <1>4, <2>1
      <3> QED BY <3>1, <3>2
    <2>3. ch[p][s] \in Ref /\ ch[t][o] \in Ref
      BY <1>1, <1>3, <2>1
    <2> HIDE DEF L, ch, cn
    <2> QED BY <1>1, <1>3, <1>4, <2>1, <2>2, <2>3 DEF TurnAt
  <1>6. PICK g : /\ Walks(L, cn, g) /\ g[t] = f[p]
                 /\ \A n \in Ref : n # p /\ n # t => g[n] = f[n]
    <2>1. Walks(L, ch, f)
      BY DEF Walked
    <2> HIDE DEF L, ch, cn, f
    <2> QED BY <1>5, <2>1, TurnedWalk
  <1>7. InOrderFrom' = g
    BY <1>6, WalkIs
  <1>8. g[root'] = f[root]
    <2>1. root' = (IF q = nil THEN t ELSE root) /\ q = parent[p] /\ p \in L /\ parent[t] = p
          /\ t \in L /\ t # p /\ t # nil /\ p # nil
      BY <1>2 DEF Around
    <2>2. CASE q = nil
      <3>1. p = root
        BY <1>1, <2>1, <2>2 DEF LinksOK
      <3> QED BY <1>6, <2>1, <2>2, <3>1
    <2>3. CASE q # nil
      <3>1. root # p /\ root # t /\ root \in Ref
        BY <1>1, <2>1, <2>3 DEF LinksOK, TypeOK
      <3> QED BY <1>6, <2>1, <2>3, <3>1
    <2> QED BY <2>2, <2>3
  <1>9. InOrder' = InOrderFrom'[root'] /\ InOrder = f[root]
    BY DEF Walked
  <1> QED BY <1>7, <1>8, <1>9

-----------------------------------------------------------------------------
(* attach_node.                                                            *)

\* e, which has no children, becomes the child of m on side s.
AttachAt(L, ch, cn, m, s, e) ==
    /\ cn \in [Ref -> [Side -> Ref]] /\ m \in L /\ s \in Side /\ e \in Node /\ e \notin L
    /\ \A n \in L, r \in Side : ch[n][r] \in L \cup {nil}
    /\ ch[m][s] = nil /\ cn[m][s] = e
    /\ \A r \in Side : cn[e][r] = nil
    /\ \A n \in L, r \in Side : ~(n = m /\ r = s) => cn[n][r] = ch[n][r]

LEMMA AttachedWalk ==
    ASSUME NEW L, NEW ch, NEW f, Walks(L, ch, f), Apart(L, ch, f), NEW N, Sinking(L, ch, N),
           NEW cn, NEW m, NEW s, NEW e, AttachAt(L, ch, cn, m, s, e),
           NEW g, Walks(L \cup {e}, cn, g)
    PROVE  \A n \in L : IF m \in Elements(f[n]) THEN Put(g[n], f[n], m, e, s) ELSE g[n] = f[n]
  <1> DEFINE Good(n) == IF m \in Elements(f[n]) THEN Put(g[n], f[n], m, e, s) ELSE g[n] = f[n]
             D == {n \in L : ~Good(n)}
             l(n) == ch[n]["left"]
             r(n) == ch[n]["right"]
  <1>1. /\ L \subseteq Node /\ nil \notin L /\ m \in L /\ m \in Node /\ e \in Node /\ e \notin L
        /\ s \in {"left", "right"} /\ m # e
    BY DEF Walks, AttachAt
  <1>2. \A n \in L : l(n) \in L \cup {nil} /\ r(n) \in L \cup {nil}
    BY DEF AttachAt
  <1>3. f[nil] = <<>> /\ g[nil] = <<>> /\ Elements(f[nil]) = {}
    <2>1. nil \in Ref /\ nil \notin L /\ nil \notin L \cup {e}
      BY <1>1
    <2> QED BY <2>1, WalkOutside
  <1>4. \A n \in L \cup {nil} : Run(f[n])
    BY <1>1, RunsOfWalk
  <1>5. \A n \in L : /\ f[n] = Join(f[l(n)], n, f[r(n)])
                     /\ g[n] = Join(g[cn[n]["left"]], n, g[cn[n]["right"]])
    BY RunsOfWalk
  <1>6. g[e] = Join(<<>>, e, <<>>)
    <2>1. g[e] = Join(g[cn[e]["left"]], e, g[cn[e]["right"]])
      BY RunsOfWalk
    <2> QED BY <1>3, <2>1 DEF AttachAt
  <1>7. \A n \in L : Elements(f[n]) = Elements(f[l(n)]) \cup {n} \cup Elements(f[r(n)])
    BY WalkElements
  <1>8. \A n \in L : /\ n \notin Elements(f[l(n)]) \cup Elements(f[r(n)])
                     /\ Elements(f[l(n)]) \cap Elements(f[r(n)]) = {}
    BY DEF Apart
  <1> SUFFICES ASSUME D # {} PROVE FALSE
    OBVIOUS
  <1>9. PICK n \in D : \A k \in D : N[n] <= N[k]
    <2>1. \A k \in D : N[k] \in Nat
      BY <1>1 DEF Sinking
    <2> HIDE DEF D
    <2> QED BY <2>1, LeastOf
  <1>10. n \in L /\ ~Good(n)
    BY <1>9
  <1>11. \A k \in {l(n), r(n)} : k # nil => Good(k)
    <2>1. \A k \in {l(n), r(n)} : N[k] < N[n] /\ N[k] \in Nat /\ N[n] \in Nat
      BY <1>1, <1>2, <1>10 DEF Sinking
    <2>2. \A k \in {l(n), r(n)} : k \notin D
      BY <1>9, <2>1
    <2> QED BY <1>2, <1>10, <2>2
  <1>12. Good(l(n)) /\ Good(r(n))
    BY <1>3, <1>11
  <1>13. Run(f[l(n)]) /\ Run(f[r(n)]) /\ n \in Node
    BY <1>1, <1>2, <1>4, <1>10
  <1> HIDE DEF D
  <1>14. CASE n = m
    <2>1. m \notin Elements(f[l(n)]) /\ m \notin Elements(f[r(n)]) /\ m \in Elements(f[n])
      BY <1>7, <1>8, <1>10, <1>14
    <2>2. g[l(n)] = f[l(n)] /\ g[r(n)] = f[r(n)]
      BY <1>12, <2>1
    <2>3. CASE s = "right"
      <3>1. ch[n]["right"] = nil /\ cn[n]["right"] = e /\ cn[n]["left"] = l(n)
        BY <1>1, <1>10, <1>14, <2>3 DEF AttachAt
      <3>2. f[n] = Join(f[l(n)], n, <<>>) /\ g[n] = Join(f[l(n)], n, Join(<<>>, e, <<>>))
        BY <1>3, <1>5, <1>6, <1>10, <2>2, <3>1
      <3>3. Put(g[n], f[n], n, e, "right")
        BY <1>1, <1>13, <3>2, PutHere, EmptyRun
      <3> QED BY <1>10, <1>14, <2>1, <2>3, <3>3
    <2>4. CASE s = "left"
      <3>1. ch[n]["left"] = nil /\ cn[n]["left"] = e /\ cn[n]["right"] = r(n)
        BY <1>1, <1>10, <1>14, <2>4 DEF AttachAt
      <3>2. f[n] = Join(<<>>, n, f[r(n)]) /\ g[n] = Join(Join(<<>>, e, <<>>), n, f[r(n)])
        BY <1>3, <1>5, <1>6, <1>10, <2>2, <3>1
      <3>3. Put(g[n], f[n], n, e, "left")
        BY <1>1, <1>13, <3>2, PutHere, EmptyRun
      <3> QED BY <1>10, <1>14, <2>1, <2>4, <3>3
    <2> QED BY <1>1, <2>3, <2>4
  <1>15. CASE n # m
    <2>1. cn[n]["left"] = l(n) /\ cn[n]["right"] = r(n)
      BY <1>10, <1>15 DEF AttachAt
    <2>2. f[n] = Join(f[l(n)], n, f[r(n)]) /\ g[n] = Join(g[l(n)], n, g[r(n)])
      BY <1>5, <1>10, <2>1
    <2>3. CASE m \in Elements(f[l(n)])
      <3>1. m \notin Elements(f[r(n)]) /\ m \in Elements(f[n])
        BY <1>7, <1>8, <1>10, <2>3
      <3>2. g[r(n)] = f[r(n)] /\ Put(g[l(n)], f[l(n)], m, e, s)
        BY <1>12, <2>3, <3>1
      <3>3. Put(Join(g[l(n)], n, f[r(n)]), Join(f[l(n)], n, f[r(n)]), m, e, s)
        BY <1>1, <1>13, <3>2, PutInPart
      <3> QED BY <1>10, <2>2, <3>1, <3>2, <3>3
    <2>4. CASE m \in Elements(f[r(n)])
      <3>1. m \notin Elements(f[l(n)]) /\ m \in Elements(f[n])
        BY <1>7, <1>8, <1>10, <2>4
      <3>2. g[l(n)] = f[l(n)] /\ Put(g[r(n)], f[r(n)], m, e, s)
        BY <1>12, <2>4, <3>1
      <3>3. Put(Join(f[l(n)], n, g[r(n)]), Join(f[l(n)], n, f[r(n)]), m, e, s)
        BY <1>1, <1>13, <3>2, PutInPart
      <3> QED BY <1>10, <2>2, <3>1, <3>2, <3>3
    <2>5. CASE m \notin Elements(f[l(n)]) /\ m \notin Elements(f[r(n)])
      <3>1. m \notin Elements(f[n]) /\ g[l(n)] = f[l(n)] /\ g[r(n)] = f[r(n)]
        BY <1>7, <1>10, <1>12, <1>15, <2>5
      <3> QED BY <1>10, <2>2, <3>1
    <2> QED BY <2>3, <2>4, <2>5
  <1> QED BY <1>14, <1>15

LEMMA AttachPuts ==
    ASSUME NEW d \in [Ref -> Nat], NEW h, InvariantBy(d, h), Walked, Walked', Attach
    PROVE  IF x = nil THEN InOrder = <<>> /\ InOrder' = Join(<<>>, arg, <<>>)
                      ELSE x \in Linked /\ Put(InOrder', InOrder, x, arg, side)
  <1> DEFINE L == Linked
             ch == child
             cn == child'
             f == InOrderFrom
             g == InOrderFrom'
  <1>1. /\ arg \in Node /\ arg \notin L
        /\ \A r \in Side : child[arg][r] = nil
        /\ x = nil => root = nil
        /\ x # nil => x \in Linked /\ child[x][side] = nil
    BY FreePlace
  <1>2. TypeOK /\ LinksOK /\ L \subseteq Node /\ nil \notin L
    BY DEF Walked
  <1>3. Linked' = L \cup {arg}
    BY <1>1, <1>2 DEF Attach, Linked, TypeOK
  <1>4. Walks(L, ch, f) /\ Apart(L, ch, f) /\ Walks(L \cup {arg}, cn, g)
    BY <1>3 DEF Walked
  <1>5. PICK N : Sinking(L, ch, N)
    BY DEF Walked
  <1>6. InOrder = f[root] /\ InOrder' = g[root'] /\ Elements(f[root]) = L
    BY DEF Walked
  <1>7. CASE x = nil
    <2>1. root = nil /\ root' = arg /\ cn = ch
      BY <1>1, <1>7 DEF Attach
    <2>2. f[nil] = <<>> /\ g[nil] = <<>>
      <3>1. nil \in Ref /\ nil \notin L /\ nil \notin L \cup {arg}
        BY <1>1, <1>2
      <3> HIDE DEF L, ch, cn, f, g
      <3> QED BY <1>4, <3>1, WalkOutside
    <2>3. g[arg] = Join(g[cn[arg]["left"]], arg, g[cn[arg]["right"]])
      <3> HIDE DEF L, ch, cn, f, g
      <3> QED BY <1>4, RunsOfWalk
    <2>4. cn[arg]["left"] = nil /\ cn[arg]["right"] = nil
      BY <1>1, <2>1
    <2> QED BY <1>6, <1>7, <2>1, <2>2, <2>3, <2>4
  <1>8. CASE x # nil
    <2>1. root' = root /\ child' = [child EXCEPT ![x][side] = arg]
      BY <1>8 DEF Attach
    <2>2. AttachAt(L, ch, cn, x, side, arg)
      <3>1. x \in L /\ x \in Ref /\ side \in Side /\ ch[x][side] = nil /\ x # arg
        BY <1>1, <1>2, <1>8 DEF TypeOK
      <3>2. \A n \in L, r \in Side : ch[n][r] \in L \cup {nil}
        BY <1>2 DEF LinksOK
      <3>3. ch \in [Ref -> [Side -> Ref]] /\ cn \in [Ref -> [Side -> Ref]]
        BY DEF Walked, TypeOK
      <3>4. cn = [ch EXCEPT ![x][side] = arg]
        BY <2>1
      <3> HIDE DEF L, ch, cn
      <3>5. cn[x][side] = arg /\ \A n \in Ref, r \in Side : ~(n = x /\ r = side) => cn[n][r] = ch[n][r]
        BY <3>1, <3>3, <3>4
      <3>6. \A r \in Side : cn[arg][r] = nil
        BY <1>1, <3>1, <3>5 DEF ch
      <3>7. \A n \in L : n \in Ref
        BY <1>2
      <3> QED BY <1>1, <3>1, <3>2, <3>3, <3>5, <3>6, <3>7 DEF AttachAt
    <2>3. x \in L /\ x \in Elements(f[root]) /\ root \in L
      <3>1. x \in L /\ x \in Elements(f[root])
        BY <1>1, <1>6, <1>8
      <3>2. Elements(f[nil]) = {}
        <4>1. nil \in Ref /\ nil \notin L
          BY <1>2
        <4> HIDE DEF L, ch, f
        <4> QED BY <1>4, <4>1, WalkOutside
      <3> QED BY <1>2, <3>1, <3>2 DEF LinksOK
    <2>4. Put(g[root], f[root], x, arg, side)
      <3> HIDE DEF L, ch, cn, f, g
      <3> QED BY <1>4, <1>5, <2>2, <2>3, AttachedWalk
    <2> QED BY <1>6, <1>8, <2>1, <2>3, <2>4
  <1> QED BY <1>7, <1>8

-----------------------------------------------------------------------------
(* remove_node.                                                            *)

\* Outside of W the links are as before, but those to e, which is gone, now
\* lead to w.
CutAt(L, ch, cn, W, e, w) ==
    /\ W \subseteq L /\ e \in L /\ e \notin W
    /\ \A n \in L, r \in Side :
          n \notin W /\ n # e =>
             /\ ch[n][r] \in L \cup {nil} /\ ch[n][r] \notin W
             /\ cn[n][r] = IF ch[n][r] = e THEN w ELSE ch[n][r]

LEMMA SameBelow ==
    ASSUME NEW L, NEW ch, NEW f, Walks(L, ch, f), NEW N, Sinking(L, ch, N),
           NEW cn, NEW W, NEW e, NEW w, CutAt(L, ch, cn, W, e, w),
           NEW g, Walks(L \ {e}, cn, g)
    PROVE  \A n \in L : n \notin W /\ e \notin Elements(f[n]) => g[n] = f[n]
  <1> DEFINE D == {n \in L : ~(n \notin W /\ e \notin Elements(f[n]) => g[n] = f[n])}
             l(n) == ch[n]["left"]
             r(n) == ch[n]["right"]
  <1>1. L \subseteq Node /\ nil \notin L /\ e \in L
    BY DEF Walks, CutAt
  <1>2. f[nil] = <<>> /\ g[nil] = <<>>
    <2>1. nil \in Ref /\ nil \notin L /\ nil \notin L \ {e}
      BY <1>1
    <2> QED BY <2>1, WalkOutside
  <1>3. \A n \in L : /\ f[n] = Join(f[l(n)], n, f[r(n)])
                     /\ n # e => g[n] = Join(g[cn[n]["left"]], n, g[cn[n]["right"]])
    <2>1. \A n \in L : f[n] = Join(f[l(n)], n, f[r(n)])
      BY RunsOfWalk
    <2>2. \A n \in L \ {e} : g[n] = Join(g[cn[n]["left"]], n, g[cn[n]["right"]])
      BY RunsOfWalk
    <2> QED BY <2>1, <2>2
  <1>4. \A n \in L : Elements(f[n]) = Elements(f[l(n)]) \cup {n} \cup Elements(f[r(n)])
    BY WalkElements
  <1> SUFFICES ASSUME D # {} PROVE FALSE
    OBVIOUS
  <1>5. PICK n \in D : \A k \in D : N[n] <= N[k]
    <2>1. \A k \in D : N[k] \in Nat
      BY <1>1 DEF Sinking
    <2> HIDE DEF D
    <2> QED BY <2>1, LeastOf
  <1>6. n \in L /\ n \notin W /\ e \notin Elements(f[n]) /\ g[n] # f[n]
    BY <1>5
  <1>7. n # e /\ \A k \in {l(n), r(n)} : e \notin Elements(f[k]) /\ k # e
    <2>1. e \in Elements(f[e])
      BY <1>1, <1>4
    <2>2. n # e /\ \A k \in {l(n), r(n)} : e \notin Elements(f[k])
      BY <1>4, <1>6
    <2> QED BY <2>1, <2>2
  <1>8. /\ cn[n]["left"] = l(n) /\ cn[n]["right"] = r(n)
        /\ \A k \in {l(n), r(n)} : k \in L \cup {nil} /\ k \notin W
    BY <1>6, <1>7 DEF CutAt
  <1>9. \A k \in {l(n), r(n)} : g[k] = f[k]
    <2>1. \A k \in {l(n), r(n)} : N[k] < N[n] /\ N[k] \in Nat /\ N[n] \in Nat
      BY <1>1, <1>6, <1>8 DEF Sinking
    <2>2. \A k \in {l(n), r(n)} : k \notin D
      BY <1>5, <2>1
    <2> QED BY <1>2, <1>7, <1>8, <2>2
  <1> QED BY <1>3, <1>6, <1>7, <1>8, <1>9

LEMMA DroppedAbove ==
    ASSUME NEW L, NEW ch, NEW f, Walks(L, ch, f), Apart(L, ch, f), NEW N, Sinking(L, ch, N),
           NEW cn, NEW W, NEW e, NEW w, CutAt(L, ch, cn, W, e, w),
           NEW g, Walks(L \ {e}, cn, g), Dropped(g[w], f[e], e)
    PROVE  \A n \in L : n \notin W /\ n # e /\ e \in Elements(f[n]) => Dropped(g[n], f[n], e)
  <1> DEFINE D == {n \in L : ~(n \notin W /\ n # e /\ e \in Elements(f[n])
                               => Dropped(g[n], f[n], e))}
             l(n) == ch[n]["left"]
             r(n) == ch[n]["right"]
  <1>1. L \subseteq Node /\ nil \notin L /\ e \in L /\ e \in Node
    BY DEF Walks, CutAt
  <1>2. f[nil] = <<>> /\ g[nil] = <<>> /\ Elements(f[nil]) = {}
    <2>1. nil \in Ref /\ nil \notin L /\ nil \notin L \ {e}
      BY <1>1
    <2> QED BY <2>1, WalkOutside
  <1>3. \A n \in L : /\ f[n] = Join(f[l(n)], n, f[r(n)])
                     /\ n # e => g[n] = Join(g[cn[n]["left"]], n, g[cn[n]["right"]])
    <2>1. \A n \in L : f[n] = Join(f[l(n)], n, f[r(n)])
      BY RunsOfWalk
    <2>2. \A n \in L \ {e} : g[n] = Join(g[cn[n]["left"]], n, g[cn[n]["right"]])
      BY RunsOfWalk
    <2> QED BY <2>1, <2>2
  <1>4. /\ \A n \in L : Elements(f[n]) = Elements(f[l(n)]) \cup {n} \cup Elements(f[r(n)])
        /\ \A n \in L : Elements(f[l(n)]) \cap Elements(f[r(n)]) = {}
    BY WalkElements DEF Apart
  <1>5. \A n \in L \cup {nil} : n \notin W /\ e \notin Elements(f[n]) => g[n] = f[n]
    BY <1>2, SameBelow
  <1>6. \A n \in L \cup {nil} : Run(f[n])
    BY <1>1, RunsOfWalk
  <1> SUFFICES ASSUME D # {} PROVE FALSE
    OBVIOUS
  <1>7. PICK n \in D : \A k \in D : N[n] <= N[k]
    <2>1. \A k \in D : N[k] \in Nat
      BY <1>1 DEF Sinking
    <2> HIDE DEF D
    <2> QED BY <2>1, LeastOf
  <1>8. n \in L /\ n \notin W /\ n # e /\ e \in Elements(f[n]) /\ ~Dropped(g[n], f[n], e)
        /\ n \in Node
    BY <1>1, <1>7
  <1>9. \A s \in Side : /\ ch[n][s] \in L \cup {nil} /\ ch[n][s] \notin W
                        /\ cn[n][s] = IF ch[n][s] = e THEN w ELSE ch[n][s]
    BY <1>8 DEF CutAt
  <1>10. ASSUME NEW s \in Side
         PROVE  IF e \in Elements(f[ch[n][s]])
                THEN Dropped(g[cn[n][s]], f[ch[n][s]], e)
                ELSE g[cn[n][s]] = f[ch[n][s]]
    <2> DEFINE k == ch[n][s]
    <2>1. k \in L \cup {nil} /\ k \notin W /\ cn[n][s] = IF k = e THEN w ELSE k
      BY <1>9
    <2>2. N[k] < N[n] /\ N[n] \in Nat /\ N[k] \in Nat
      <3>1. n \in Ref /\ k \in Ref
        BY <1>1, <1>8, <2>1
      <3> QED BY <1>8, <3>1 DEF Sinking
    <2>3. k \notin D
      BY <1>7, <2>2
    <2>4. e \in Elements(f[e])
      BY <1>1, <1>4
    <2>5. CASE k = e
      BY <2>1, <2>4, <2>5
    <2>6. CASE k # e
      <3>1. CASE e \in Elements(f[k])
        BY <1>2, <2>1, <2>3, <2>6, <3>1
      <3>2. CASE e \notin Elements(f[k])
        BY <1>5, <2>1, <2>6, <3>2
      <3> QED BY <3>1, <3>2
    <2> QED BY <2>5, <2>6
  <1>11. /\ Run(f[l(n)]) /\ Run(f[r(n)])
         /\ f[n] = Join(f[l(n)], n, f[r(n)])
         /\ g[n] = Join(g[cn[n]["left"]], n, g[cn[n]["right"]])
    BY <1>3, <1>6, <1>8, <1>9
  <1>12. CASE e \in Elements(f[l(n)])
    <2>1. e \notin Elements(f[r(n)])
      BY <1>4, <1>8, <1>12
    <2>2. Dropped(g[cn[n]["left"]], f[l(n)], e) /\ g[cn[n]["right"]] = f[r(n)]
      BY <1>10, <1>12, <2>1
    <2>3. Dropped(Join(g[cn[n]["left"]], n, f[r(n)]), Join(f[l(n)], n, f[r(n)]), e)
      BY <1>1, <1>8, <1>11, <2>2, DroppedInPart
    <2> QED BY <1>8, <1>11, <2>2, <2>3
  <1>13. CASE e \in Elements(f[r(n)])
    <2>1. e \notin Elements(f[l(n)])
      BY <1>4, <1>8, <1>13
    <2>2. Dropped(g[cn[n]["right"]], f[r(n)], e) /\ g[cn[n]["left"]] = f[l(n)]
      BY <1>10, <1>13, <2>1
    <2>3. Dropped(Join(f[l(n)], n, g[cn[n]["right"]]), Join(f[l(n)], n, f[r(n)]), e)
      BY <1>1, <1>8, <1>11, <2>2, DroppedInPart
    <2> QED BY <1>8, <1>11, <2>2, <2>3
  <1> QED BY <1>4, <1>8, <1>12, <1>13

LEMMA NilOutside ==
    ASSUME NEW L, NEW ch, NEW f, Walks(L, ch, f), nil \in Ref, nil \notin L
    PROVE  f[nil] = <<>> /\ Elements(f[nil]) = {}
  <1>1. f[nil] = <<>>
    BY DEF Walks
  <1> QED BY <1>1 DEF Elements

\* The node to remove has one child at most: that child takes its place.
LEMMA CutDrops ==
    ASSUME NEW d \in [Ref -> Nat], NEW h \in [Ref -> Nat], InvariantBy(d, h),
           Walked, Walked', Unlink, y = arg
    PROVE  Dropped(InOrder', InOrder, arg)
  <1> DEFINE L == Linked
             ch == child
             cn == child'
             f == InOrderFrom
             g == InOrderFrom'
             v == arg
             z == Heir
             q == parent[v]
             k == SlotOf(ch, q, v)
             W == {}
  <1>1. TypeOK /\ LinksOK /\ L \subseteq Node /\ nil \notin L
    BY DEF Walked
  <1>2. /\ v \in L /\ q # v /\ z \in L \cup {nil} /\ z # v
        /\ \A r \in Side : ch[v][r] \in {z, nil}
        /\ \E r \in Side : ch[v][r] = z
        /\ q \in L \cup {nil} /\ (q = nil <=> v = root)
        /\ q # nil => ch[q][k] = v
    BY CutKin DEF Cuttable
  <1>3. /\ child' = [Relinked(child, q, y, z) EXCEPT ![v] = [s \in Side |-> nil]]
        /\ root' = IF q = nil THEN z ELSE root
    BY DEF Unlink, CutOut, Freed
  <1>4. Linked' = L \ {v}
    BY <1>1, <1>2 DEF Unlink, Freed, Linked, TypeOK
  <1>5. ch \in [Ref -> [Side -> Ref]] /\ k \in Side /\ Other(k) \in Side /\ Other(k) # k
    BY <1>1, SlotSides DEF TypeOK
  <1>6. CutAt(L, ch, cn, W, v, z) /\ \A n \in L : n \notin W
    <2> SUFFICES ASSUME NEW n \in L, NEW r \in Side, n # v
                 PROVE  /\ ch[n][r] \in L \cup {nil}
                        /\ cn[n][r] = IF ch[n][r] = v THEN z ELSE ch[n][r]
      BY <1>2 DEF CutAt
    <2>1. ch[n][r] \in L \cup {nil} /\ n \in Ref /\ n # nil
          /\ (ch[n][r] # nil => parent[ch[n][r]] = n)
      BY <1>1 DEF LinksOK
    <2>2. cn[n][r] = Relinked(ch, q, v, z)[n][r]
      BY <1>2, <1>3, <1>5, <2>1 DEF Relinked
    <2>3. CASE n = q
      <3>1. Relinked(ch, q, v, z)[n][r] = IF r = k THEN z ELSE ch[n][r]
        BY <1>5, <2>1, <2>3 DEF Relinked
      <3>2. r # k => ch[n][r] # v
        <4> SUFFICES ASSUME r # k, ch[n][r] = v PROVE FALSE
          OBVIOUS
        <4>1. ch[n][k] = v /\ v # nil
          BY <1>1, <1>2, <2>1, <2>3
        <4>2. ch[n]["left"] = v /\ ch[n]["right"] = v
          <5> HIDE DEF k, v, ch
          <5> QED BY <1>5, <4>1
        <4> QED BY <1>1, <4>1, <4>2 DEF LinksOK
      <3> QED BY <1>2, <2>1, <2>2, <2>3, <3>1, <3>2
    <2>4. CASE n # q
      <3>1. Relinked(ch, q, v, z)[n][r] = ch[n][r]
        BY <1>2, <1>5, <2>1, <2>4 DEF Relinked
      <3>2. ch[n][r] # v
        BY <1>1, <1>2, <2>1, <2>4
      <3> QED BY <2>1, <2>2, <3>1, <3>2
    <2> QED BY <2>3, <2>4
  <1>7. Walks(L, ch, f) /\ Apart(L, ch, f) /\ Walks(L \ {v}, cn, g)
    BY <1>4 DEF Walked
  <1>8. PICK N : Sinking(L, ch, N)
    BY DEF Walked
  <1>9. InOrder = f[root] /\ InOrder' = g[root'] /\ Elements(f[root]) = L
    BY DEF Walked
  <1>10. root # nil => root \in L
    BY <1>1 DEF LinksOK
  <1>11. v \in Node /\ nil \in Ref /\ nil \notin L \ {v}
    BY <1>1, <1>2
  <1> HIDE DEF L, ch, cn, f, g, v, z, q, k, W
  <1>12. f[nil] = <<>> /\ g[nil] = <<>> /\ Elements(f[nil]) = {}
    <2>1. f[nil] = <<>> /\ Elements(f[nil]) = {}
      <3>1. nil \in Ref /\ nil \notin L /\ Walks(L, ch, f)
        BY <1>1, <1>7, <1>11
      <3> QED BY <3>1, NilOutside
    <2>2. g[nil] = <<>>
      <3>1. nil \in Ref /\ nil \notin L \ {v} /\ Walks(L \ {v}, cn, g)
        BY <1>7, <1>11
      <3> QED BY <3>1, NilOutside
    <2> QED BY <2>1, <2>2
  <1>13. f[v] = Join(f[ch[v]["left"]], v, f[ch[v]["right"]])
    BY <1>2, <1>7, RunsOfWalk
  <1>14. g[z] = f[z]
    <2>1. v \notin Elements(f[z])
      BY <1>2, <1>7 DEF Apart
    <2>2. z \in L => g[z] = f[z]
      BY <1>6, <1>7, <1>8, <2>1, SameBelow
    <2> QED BY <1>2, <1>12, <2>2
  <1>15. Dropped(g[z], f[v], v)
    <2>1. Run(f[z])
      BY <1>1, <1>2, <1>7, <1>11, RunsOfWalk
    <2>2. \/ ch[v]["left"] = z /\ ch[v]["right"] = nil
          \/ ch[v]["left"] = nil /\ ch[v]["right"] = z
      <3>1. ch[v]["left"] = ch[v]["right"] => ch[v]["left"] = nil
        BY <1>1, <1>2 DEF LinksOK, L, ch
      <3> QED BY <1>2, <3>1
    <2> QED BY <1>12, <1>13, <1>14, <2>1, <2>2, DroppedHere
  <1>16. CASE q = nil
    BY <1>2, <1>3, <1>9, <1>15, <1>16 DEF v
  <1>17. CASE q # nil
    <2>1. root' = root /\ root # v /\ root \in L /\ v \in Elements(f[root])
      BY <1>2, <1>3, <1>9, <1>10, <1>12, <1>17
    <2>2. Dropped(g[root], f[root], v)
      BY <1>6, <1>7, <1>8, <1>15, <2>1, DroppedAbove
    <2> QED BY <1>9, <2>1, <2>2 DEF v
  <1> QED BY <1>16, <1>17

\* W leads from the right child of a to the left, and ends at v.
SpineAt(L, ch, W, a, v) ==
    /\ W \subseteq L /\ v \in W /\ a \in L /\ a \notin W
    /\ ch[a]["right"] \in W
    /\ \A k \in W : k # v => ch[k]["left"] \in W
    /\ \A k \in W : k = ch[a]["right"] \/ \E n \in W : n # v /\ ch[n]["left"] = k
    /\ \A n \in L, r \in Side :
          ch[n][r] \in W => \/ n = a /\ r = "right"
                            \/ n \in W /\ n # v /\ r = "left"

\* v, which has the right child z at most, takes the place and the children of a.
GraftAt(L, ch, cn, W, a, v, z) ==
    /\ ch[v]["left"] = nil /\ ch[v]["right"] = z
    /\ \A n \in L, r \in Side : ch[n][r] \in L \cup {nil}
    /\ cn[v]["left"] = ch[a]["left"]
    /\ cn[v]["right"] = IF ch[a]["right"] = v THEN z ELSE ch[a]["right"]
    /\ \A n \in W : n # v => /\ cn[n]["right"] = ch[n]["right"]
                             /\ cn[n]["left"] = IF ch[n]["left"] = v THEN z ELSE ch[n]["left"]

Deepening(L, ch, d) ==
    /\ d \in [Ref -> Nat]
    /\ \A n \in L, s \in Side : ch[n][s] # nil => d[n] < d[ch[n][s]]

\* What is above the spine is not below it.
LEMMA SpineBelow ==
    ASSUME NEW L, NEW ch, NEW f, Walks(L, ch, f), Apart(L, ch, f), NEW d, Deepening(L, ch, d),
           NEW W, NEW a, NEW v, SpineAt(L, ch, W, a, v)
    PROVE  \A k \in W : a \notin Elements(f[k])
  <1> DEFINE D == {k \in W : a \in Elements(f[k])}
  <1>1. W \subseteq L /\ a \in L /\ L \subseteq Node /\ nil \notin L
    BY DEF Walks, SpineAt
  <1>2. \A n \in L : Elements(f[n]) = Elements(f[ch[n]["left"]]) \cup {n}
                                        \cup Elements(f[ch[n]["right"]])
    BY WalkElements
  <1>3. a \notin Elements(f[ch[a]["right"]])
    BY <1>1 DEF Apart
  <1> SUFFICES ASSUME D # {} PROVE FALSE
    OBVIOUS
  <1>4. PICK k \in D : \A m \in D : d[k] <= d[m]
    <2>1. \A m \in D : d[m] \in Nat
      BY <1>1 DEF Deepening
    <2> HIDE DEF D
    <2> QED BY <2>1, LeastOf
  <1>5. PICK n \in W : n # v /\ ch[n]["left"] = k
    BY <1>3, <1>4 DEF SpineAt
  <1>6. a \in Elements(f[n])
    BY <1>1, <1>2, <1>4, <1>5
  <1>7. d[n] < d[k] /\ d[n] \in Nat /\ d[k] \in Nat
    BY <1>1, <1>4, <1>5 DEF Deepening
  <1>8. d[k] <= d[n]
    BY <1>4, <1>6
  <1> QED BY <1>7, <1>8

LEMMA GraftedWalk ==
    ASSUME NEW L, NEW ch, NEW f, Walks(L, ch, f), Apart(L, ch, f), NEW N, Sinking(L, ch, N),
           NEW d, Deepening(L, ch, d), NEW W, NEW a, NEW v, SpineAt(L, ch, W, a, v),
           NEW cn, CutAt(L, ch, cn, W, a, v), NEW z, GraftAt(L, ch, cn, W, a, v, z),
           NEW g, Walks(L \ {a}, cn, g)
    PROVE  Dropped(g[v], f[a], a)
  <1> DEFINE l(n) == ch[n]["left"]
             r(n) == ch[n]["right"]
             D == {n \in W : n # v /\ f[n] # Join(<<>>, v, g[n])}
  <1>1. /\ W \subseteq L /\ a \in L /\ L \subseteq Node /\ nil \notin L /\ v \in W /\ a \notin W
        /\ v \in L /\ r(a) \in W
    BY DEF Walks, SpineAt
  <1>2. f[nil] = <<>> /\ g[nil] = <<>> /\ Elements(f[nil]) = {}
    <2>1. nil \in Ref /\ nil \notin L /\ nil \notin L \ {a}
      BY <1>1
    <2> QED BY <2>1, WalkOutside
  <1>3. \A n \in L : /\ f[n] = Join(f[l(n)], n, f[r(n)])
                     /\ n # a => g[n] = Join(g[cn[n]["left"]], n, g[cn[n]["right"]])
    <2>1. \A n \in L : f[n] = Join(f[l(n)], n, f[r(n)])
      BY RunsOfWalk
    <2>2. \A n \in L \ {a} : g[n] = Join(g[cn[n]["left"]], n, g[cn[n]["right"]])
      BY RunsOfWalk
    <2> QED BY <2>1, <2>2
  <1>4. \A n \in L : Elements(f[n]) = Elements(f[l(n)]) \cup {n} \cup Elements(f[r(n)])
    BY WalkElements
  <1>5. \A k \in W : a \notin Elements(f[k])
    BY SpineBelow
  <1>6. \A n \in L \cup {nil} : Run(f[n])
    BY <1>1, RunsOfWalk
  <1>7. \A n \in L \cup {nil} : n \notin W /\ a \notin Elements(f[n]) => g[n] = f[n]
    BY <1>2, SameBelow
  <1>8. \A n \in L : l(n) \in L \cup {nil} /\ r(n) \in L \cup {nil}
    BY DEF GraftAt
  \* The subtrees on the right of the spine stay as they are.
  <1>9. \A n \in W : g[r(n)] = f[r(n)] /\ Run(f[r(n)])
    <2> SUFFICES ASSUME NEW n \in W PROVE g[r(n)] = f[r(n)] /\ Run(f[r(n)])
      OBVIOUS
    <2>1. r(n) \notin W
      BY <1>1 DEF SpineAt
    <2>2. a \notin Elements(f[r(n)])
      BY <1>1, <1>4, <1>5
    <2> QED BY <1>1, <1>6, <1>7, <1>8, <2>1, <2>2
  <1>10. f[v] = Join(<<>>, v, g[z]) /\ g[z] = f[z] /\ Run(g[z])
    <2>1. l(v) = nil /\ r(v) = z
      BY DEF GraftAt
    <2> QED BY <1>1, <1>2, <1>3, <1>9, <2>1
  \* v is the first of what is below each node of the spine.
  <1>11. D = {}
    <2> SUFFICES ASSUME D # {} PROVE FALSE
      OBVIOUS
    <2>1. PICK n \in D : \A k \in D : N[n] <= N[k]
      <3>1. \A k \in D : N[k] \in Nat
        BY <1>1 DEF Sinking
      <3> HIDE DEF D
      <3> QED BY <3>1, LeastOf
    <2>2. n \in W /\ n # v /\ n \in L /\ n # a /\ n \in Node /\ l(n) \in W /\ l(n) \in L
      BY <1>1, <2>1 DEF SpineAt
    <2>3. cn[n]["right"] = r(n) /\ cn[n]["left"] = IF l(n) = v THEN z ELSE l(n)
      BY <2>2 DEF GraftAt
    <2>4. f[l(n)] = Join(<<>>, v, g[cn[n]["left"]])
      <3>1. CASE l(n) = v
        BY <1>10, <2>3, <3>1
      <3>2. CASE l(n) # v
        <4>1. N[l(n)] < N[n] /\ N[l(n)] \in Nat /\ N[n] \in Nat
          BY <1>1, <2>2 DEF Sinking
        <4>2. l(n) \notin D
          BY <2>1, <4>1
        <4> QED BY <2>2, <2>3, <3>2, <4>2
      <3> QED BY <3>1, <3>2
    <2>5. Run(g[cn[n]["left"]])
      <3>1. CASE l(n) = v
        BY <1>10, <2>3, <3>1
      <3>2. CASE l(n) # v
        <4>1. l(n) \in Ref
          BY <1>1, <2>2
        <4> QED BY <2>3, <3>2, <4>1, RunsOfWalk
      <3> QED BY <3>1, <3>2
    <2>6. f[n] = Join(f[l(n)], n, f[r(n)]) /\ g[n] = Join(g[cn[n]["left"]], n, f[r(n)])
      BY <1>3, <1>9, <2>2, <2>3
    <2>7. Join(Join(<<>>, v, g[cn[n]["left"]]), n, f[r(n)])
             = Join(<<>>, v, Join(g[cn[n]["left"]], n, f[r(n)]))
      <3>1. v \in Node /\ Run(f[r(n)])
        BY <1>1, <1>9, <2>2
      <3> HIDE DEF D, r
      <3> QED BY <2>2, <2>5, <3>1, EmptyRun, JoinTurns
    <2> QED BY <2>1, <2>4, <2>6, <2>7
  <1> DEFINE H == g[cn[v]["right"]]
  <1>12. f[r(a)] = Join(<<>>, v, H) /\ Run(H)
    <2>1. CASE r(a) = v
      <3>1. cn[v]["right"] = z
        BY <2>1 DEF GraftAt
      <3> QED BY <1>10, <2>1, <3>1
    <2>2. CASE r(a) # v
      <3>1. cn[v]["right"] = r(a) /\ r(a) \in Ref
        BY <1>1, <2>2 DEF GraftAt
      <3>2. Run(g[r(a)])
        BY <3>1, RunsOfWalk
      <3> QED BY <1>1, <1>11, <2>2, <3>1, <3>2
    <2> QED BY <2>1, <2>2
  <1>13. g[l(a)] = f[l(a)] /\ Run(f[l(a)])
    <2>1. l(a) \notin W
      BY <1>1 DEF SpineAt
    <2>2. a \notin Elements(f[l(a)])
      BY <1>1 DEF Apart
    <2> QED BY <1>1, <1>6, <1>7, <1>8, <2>1, <2>2
  <1>14. g[v] = Join(f[l(a)], v, H)
    <2>1. cn[v]["left"] = l(a)
      BY DEF GraftAt
    <2> QED BY <1>1, <1>3, <1>13, <2>1
  <1>15. f[a] = Join(f[l(a)], a, Join(<<>>, v, H))
    BY <1>1, <1>3, <1>12
  <1>16. v \in Node
    BY <1>1
  <1> DEFINE A == f[l(a)]
             B == Join(<<>>, v, H)
  <1>17. Run(A) /\ Run(B) /\ Cat(A, B) = Join(A, v, H) /\ f[a] = Join(A, a, B)
    <2>1. Run(A) /\ Run(H) /\ v \in Node
      BY <1>12, <1>13, <1>16
    <2>2. f[a] = Join(A, a, B)
      BY <1>15
    <2> HIDE DEF A, H
    <2> QED BY <2>1, <2>2, EmptyRun, RunsJoin, JoinIs
  <1> QED BY <1>14, <1>17 DEF Dropped

\* The successor takes the place of the node to remove.
LEMMA ReplaceDrops ==
    ASSUME NEW d \in [Ref -> Nat], NEW h \in [Ref -> Nat], InvariantBy(d, h), WayOK,
           Walked, Walked', Unlink, y # arg
    PROVE  Dropped(InOrder', InOrder, arg)
  <1> DEFINE LL == Linked
             ch == child
             cn == child'
             f == InOrderFrom
             gg == InOrderFrom'
             W == Path(parent, y) \ Path(parent, arg)
  <1>1. TypeOK /\ LinksOK /\ LL \subseteq Node /\ nil \notin LL /\ pc = "successor"
    BY DEF Walked, Unlink
  <1>2. PICK v, z, q, a : /\ v = y /\ z = Heir /\ q = parent[y] /\ a = arg
                          /\ Cuttable(v, z, q, h)
    BY CutKin
  <1>3. PICK g, k, L, R, u, c : Grafted(v, z, q, a, g, k, L, R, u, c)
    BY <1>2, Graft
  <1>4. /\ v \in LL /\ v # nil /\ z # v /\ a \in LL /\ a # v /\ a # nil /\ q = parent[v]
        /\ ch[v]["left"] = nil /\ ch[v]["right"] = z
        /\ L = ch[a]["left"] /\ R = ch[a]["right"]
    BY <1>2, <1>3 DEF Cuttable, Grafted
  <1>5. LL' = LL \ {a}
    BY <1>1, <1>2, <1>4 DEF Unlink, Freed, Linked, TypeOK
  <1>6. /\ W \subseteq LL /\ a \notin W /\ parent[a] \notin W
        /\ \A n \in W : /\ parent[n] \in W \cup {a}
                        /\ ch[parent[n]][IF parent[n] = a THEN "right" ELSE "left"] = n
        /\ \A n \in W : n # v => ch[n]["left"] \in W
        /\ v \in W /\ ch[a]["right"] \in W /\ ch[a]["left"] \notin W
    <2>1. y \in Linked /\ Leads(arg, y, "left")
      BY <1>1, <1>2, <1>4 DEF WayOK
    <2>2. Other("left") = "right"
      BY DEF Other
    <2>3. /\ W \subseteq Linked /\ arg \notin W /\ parent[arg] \notin W
          /\ \A n \in W : /\ parent[n] \in W \cup {arg}
                          /\ child[parent[n]][IF parent[n] = arg THEN Other("left") ELSE "left"] = n
          /\ \A n \in W : n # y => child[n]["left"] \in W
          /\ y # arg => y \in W /\ child[arg][Other("left")] \in W
          /\ child[arg]["left"] \notin W
      <3>1. "left" \in Side
        OBVIOUS
      <3> QED BY <2>1, <3>1, LedBelow
    <2> HIDE DEF W
    <2> QED BY <1>2, <1>4, <2>2, <2>3
  <1> HIDE DEF W
  <1>7. \A n \in LL, r \in Side : /\ ch[n][r] \in LL \cup {nil}
                                  /\ ch[n][r] # nil => parent[ch[n][r]] = n
    BY <1>1 DEF LinksOK
  <1>8. \A n \in LL : ch[n]["left"] = ch[n]["right"] => ch[n]["left"] = nil
    BY <1>1 DEF LinksOK
  <1>9. SpineAt(LL, ch, W, a, v)
    <2>1. ASSUME NEW n \in W PROVE n = ch[a]["right"] \/ \E m \in W : m # v /\ ch[m]["left"] = n
      BY <1>1, <1>4, <1>6
    <2>2. ASSUME NEW n \in LL, NEW r \in Side, ch[n][r] \in W
          PROVE  (n = a /\ r = "right") \/ (n \in W /\ n # v /\ r = "left")
      <3>1. ch[n][r] # nil /\ parent[ch[n][r]] = n
        BY <1>1, <1>6, <1>7, <2>2
      <3>2. n \in W \cup {a} /\ ch[n][IF n = a THEN "right" ELSE "left"] = ch[n][r]
        BY <1>6, <2>2, <3>1
      <3>3. r = IF n = a THEN "right" ELSE "left"
        BY <1>8, <3>1, <3>2
      <3> QED BY <1>4, <1>6, <3>1, <3>2, <3>3
    <2> HIDE DEF LL, ch
    <2> QED BY <1>4, <1>6, <2>1, <2>2 DEF SpineAt
  <1>10. /\ u \in W /\ c \in Side /\ cn[u][c] = z /\ g = parent[a]
         /\ \/ v = R /\ u = v /\ c = "right"
            \/ v # R /\ u # v /\ c = "left" /\ ch[u]["left"] = v /\ cn[v]["right"] = R
         /\ cn[v]["left"] = L /\ (g # nil => cn[g][k] = v /\ ch[g][k] = a)
    <2>1. /\ c \in Side /\ cn[u][c] = z /\ g = parent[a] /\ u # a
          /\ \/ v = R /\ u = v /\ c = "right"
             \/ v # R /\ q # a /\ u = q /\ u # v /\ c = "left" /\ ch[q]["left"] = v /\ cn[v]["right"] = R
          /\ cn[v]["left"] = L /\ (g # nil => cn[g][k] = v /\ ch[g][k] = a)
      BY <1>3 DEF Grafted
    <2> QED BY <1>4, <1>6, <2>1
  <1>11. ASSUME NEW n \in LL, n # a, n # v, NEW r \in Side
         PROVE  \/ n = u /\ r = c
                \/ n = g /\ r = k /\ cn[n][r] = v /\ ch[n][r] = a
                \/ cn[n][r] = ch[n][r] /\ ch[n][r] # a /\ ch[n][r] # v
    <2>1. PICK m : m = n
      OBVIOUS
    <2>2. \/ m = v
          \/ m = u /\ r = c
          \/ m = g /\ r = k /\ child'[m][r] = v
          \/ child'[m][r] = child[m][r] /\ child[m][r] \notin {a, v, L, R}
      BY <1>1, <1>2, <1>3, <1>11, <2>1, GraftedLinks
    <2> QED BY <1>1, <1>10, <1>11, <2>1, <2>2
  <1>12. GraftAt(LL, ch, cn, W, a, v, z)
    <2>1. ASSUME NEW n \in W, n # v
          PROVE  /\ cn[n]["right"] = ch[n]["right"]
                 /\ cn[n]["left"] = IF ch[n]["left"] = v THEN z ELSE ch[n]["left"]
      <3>1. n \in LL /\ n # a /\ n # g
        BY <1>6, <1>10, <2>1
      <3>2. cn[n]["right"] = ch[n]["right"]
        BY <1>10, <1>11, <2>1, <3>1
      <3>3. n = u => cn[n]["left"] = z /\ ch[n]["left"] = v
        BY <1>10, <2>1
      <3>4. n # u => cn[n]["left"] = ch[n]["left"] /\ ch[n]["left"] # v
        BY <1>11, <2>1, <3>1
      <3> QED BY <3>2, <3>3, <3>4
    <2>2. cn[v]["right"] = IF ch[a]["right"] = v THEN z ELSE ch[a]["right"]
      BY <1>4, <1>10
    <2> HIDE DEF LL, ch, cn
    <2> QED BY <1>4, <1>7, <1>10, <2>1, <2>2 DEF GraftAt
  <1>13. CutAt(LL, ch, cn, W, a, v)
    <2>1. ASSUME NEW n \in LL, NEW r \in Side, n \notin W, n # a
          PROVE  /\ ch[n][r] \in LL \cup {nil} /\ ch[n][r] \notin W
                 /\ cn[n][r] = IF ch[n][r] = a THEN v ELSE ch[n][r]
      <3>1. ch[n][r] \notin W
        BY <1>9, <2>1 DEF SpineAt
      <3>2. n # u /\ n # v
        BY <1>6, <1>10, <2>1
      <3> QED BY <1>7, <1>11, <2>1, <3>1, <3>2
    <2> HIDE DEF LL, ch, cn
    <2> QED BY <1>4, <1>6, <2>1 DEF CutAt
  <1>14. Walks(LL, ch, f) /\ Apart(LL, ch, f) /\ Walks(LL \ {a}, cn, gg)
    BY <1>5 DEF Walked
  <1>15. PICK N : Sinking(LL, ch, N)
    BY DEF Walked
  <1>16. InOrder = f[root] /\ InOrder' = gg[root'] /\ Elements(f[root]) = LL
    BY DEF Walked
  <1>17. Deepening(LL, ch, d)
    BY DEF InvariantBy, Descending, Deepening
  <1>18. root' = (IF g = nil THEN v ELSE root) /\ (g = nil <=> a = root)
    BY <1>3 DEF Grafted
  <1>19. root # nil => root \in LL /\ parent[root] = nil
    BY <1>1 DEF LinksOK
  <1>20. Elements(f[nil]) = {}
    <2>1. nil \in Ref /\ nil \notin LL
      BY <1>1
    <2> HIDE DEF LL, ch, f
    <2> QED BY <1>14, <2>1, WalkOutside
  <1> HIDE DEF LL, ch, cn, f, gg
  <1>21. Dropped(gg[v], f[a], a)
    BY <1>9, <1>12, <1>13, <1>14, <1>15, <1>17, GraftedWalk
  <1>22. CASE g = nil
    BY <1>2, <1>16, <1>18, <1>21, <1>22
  <1>23. CASE g # nil
    <2>1. root' = root /\ root # a /\ root \in LL /\ a \in Elements(f[root])
      BY <1>4, <1>16, <1>18, <1>19, <1>20, <1>23
    <2>2. root \notin W
      BY <1>1, <1>4, <1>6, <1>19, <2>1
    <2>3. Dropped(gg[root], f[root], a)
      BY <1>13, <1>14, <1>15, <1>21, <2>1, <2>2, DroppedAbove
    <2> QED BY <1>2, <1>16, <2>1, <2>3
  <1> QED BY <1>22, <1>23

-----------------------------------------------------------------------------
(* The order as the abstract calls write it.                               *)

LEMMA PartsOfCat ==
    ASSUME NEW a, Run(a), NEW b, Run(b)
    PROVE  /\ Len(a) \in Nat /\ Len(b) \in Nat /\ Len(Cat(a, b)) = Len(a) + Len(b)
           /\ SubSeq(Cat(a, b), 1, Len(a)) = a
           /\ SubSeq(Cat(a, b), Len(a) + 1, Len(Cat(a, b))) = b
           /\ \A i \in 1 .. Len(a) : Cat(a, b)[i] = a[i]
           /\ \A i \in 1 .. Len(b) : Cat(a, b)[Len(a) + i] = b[i]
  <1>1. /\ Len(a) \in Nat /\ Len(b) \in Nat /\ Len(Cat(a, b)) = Len(a) + Len(b)
        /\ \A i \in 1 .. Len(a) : Cat(a, b)[i] = a[i]
        /\ \A i \in 1 .. Len(b) : Cat(a, b)[Len(a) + i] = b[i]
    BY DEF Run, Cat
  <1>2. SubSeq(Cat(a, b), 1, Len(a)) = a
    BY DEF Run, Cat
  <1>3. SubSeq(Cat(a, b), Len(a) + 1, Len(Cat(a, b))) = b
    BY <1>1 DEF Run, Cat
  <1> QED BY <1>1, <1>2, <1>3

LEMMA SameRun ==
    ASSUME NEW a, Run(a), NEW b, Run(b), Len(a) = Len(b), \A i \in 1 .. Len(a) : a[i] = b[i]
    PROVE  a = b
  <1>1. a \in Seq(Node) /\ b \in Seq(Node)
    BY DEF Run
  <1> QED BY <1>1

LEMMA JoinUnique ==
    ASSUME NEW a, Run(a), NEW b, Run(b), NEW c, Run(c), NEW e, Run(e), NEW m, m \in Node,
           Join(a, m, b) = Join(c, m, e), OnceEach(Join(a, m, b))
    PROVE  a = c /\ b = e
  <1> DEFINE s == Join(a, m, b)
  <1>1. IsJoin(s, a, m, b) /\ IsJoin(s, c, m, e)
    BY Joined DEF Run
  <1>2. OnceEach(s) /\ a \in Seq(Node) /\ b \in Seq(Node) /\ c \in Seq(Node) /\ e \in Seq(Node)
    BY DEF Run
  <1> HIDE DEF s
  <1>3. Len(a) = Len(c)
    <2> DEFINE k == Len(a)
               l == Len(c)
    <2>1. /\ DOMAIN s = 1 .. Len(s) /\ s[k + 1] = m /\ s[l + 1] = m
          /\ k \in Nat /\ l \in Nat /\ Len(b) \in Nat /\ Len(e) \in Nat
          /\ Len(s) = k + 1 + Len(b) /\ Len(s) = l + 1 + Len(e)
      BY <1>1 DEF IsJoin
    <2> HIDE DEF k, l
    <2>2. k + 1 \in 1 .. Len(s) /\ l + 1 \in 1 .. Len(s)
      BY <2>1
    <2>3. k + 1 = l + 1
      BY <1>2, <2>1, <2>2 DEF OnceEach
    <2>4. k = l
      BY <2>1, <2>3
    <2> QED BY <2>4 DEF k, l
  <1>4. Len(b) = Len(e)
    <2> DEFINE k == Len(b)
               l == Len(e)
               j == Len(a)
    <2>1. /\ k \in Nat /\ l \in Nat /\ j \in Nat
          /\ Len(s) = j + 1 + k /\ Len(s) = j + 1 + l
      BY <1>1, <1>3 DEF IsJoin
    <2> HIDE DEF k, l, j
    <2>2. k = l
      BY <2>1
    <2> QED BY <2>2 DEF k, l
  <1>5. \A i \in 1 .. Len(a) : a[i] = c[i]
    BY <1>1, <1>2, <1>3 DEF IsJoin
  <1>6. \A i \in 1 .. Len(b) : b[i] = e[i]
    BY <1>1, <1>2, <1>3, <1>4 DEF IsJoin
  <1>7. a = c
    BY <1>3, <1>5, SameRun
  <1>8. b = e
    BY <1>4, <1>6, SameRun
  <1> QED BY <1>7, <1>8

\* A node that is put between a and b.
LEMMA InsertedIs ==
    ASSUME NEW a, Run(a), NEW b, Run(b), NEW n, n \in Node,
           InOrder = Cat(a, b), InOrder' = Join(a, n, b)
    PROVE  Len(a) \in 0 .. Len(InOrder) /\ InOrder' = Ordered!WithAfter(Len(a), n)
  <1>1. /\ Len(a) \in Nat /\ Len(b) \in Nat /\ Len(InOrder) = Len(a) + Len(b)
        /\ SubSeq(InOrder, 1, Len(a)) = a
        /\ SubSeq(InOrder, Len(a) + 1, Len(InOrder)) = b
    <2> DEFINE c == Cat(a, b)
    <2>1. /\ Len(a) \in Nat /\ Len(b) \in Nat /\ Len(c) = Len(a) + Len(b)
          /\ SubSeq(c, 1, Len(a)) = a
          /\ SubSeq(c, Len(a) + 1, Len(c)) = b
      BY PartsOfCat
    <2>2. InOrder = c
      OBVIOUS
    <2> QED BY <2>1, <2>2
  <1> DEFINE k == Len(a)
             l == Len(InOrder)
  <1>2. k \in 0 .. l
    BY <1>1
  <1>3. InOrder' = Ordered!WithAfter(k, n)
    BY <1>1 DEF Ordered!WithAfter, Join
  <1> QED BY <1>2, <1>3

LEMMA DroppedIs ==
    ASSUME NEW n, n \in Node, Dropped(InOrder', InOrder, n)
    PROVE  \E i \in DOMAIN InOrder : InOrder[i] = n /\ InOrder' = Ordered!Without(i)
  <1>1. PICK a, b : Run(a) /\ Run(b) /\ InOrder = Join(a, n, b) /\ InOrder' = Cat(a, b)
    BY DEF Dropped
  <1> DEFINE o == <<n>>
             c == Cat(a, o)
             e == Cat(o, b)
             i == Len(a) + 1
  <1>2. Run(o) /\ Run(c) /\ Run(e) /\ InOrder = Cat(c, b) /\ Len(o) = 1 /\ o[1] = n
    BY <1>1 DEF Run, Cat, Join
  <1>3. InOrder = Cat(a, e)
    BY <1>1, <1>2, CatAssociates
  <1> HIDE DEF o
  <1>4. Len(c) = i /\ Len(a) \in Nat /\ c[i] = n
    <2>1. /\ Len(Cat(a, o)) = Len(a) + Len(o) /\ Len(a) \in Nat
          /\ \A j \in 1 .. Len(o) : Cat(a, o)[Len(a) + j] = o[j]
      <3>1. Run(a) /\ Run(o)
        BY <1>1, <1>2
      <3> HIDE DEF c
      <3> QED BY <3>1, PartsOfCat
    <2>2. 1 \in 1 .. Len(o)
      BY <1>2
    <2> QED BY <1>2, <2>1, <2>2
  <1> HIDE DEF c, e
  <1> DEFINE u == Cat(a, e)
             v == Cat(c, b)
  <1>10. /\ SubSeq(u, 1, Len(a)) = a
         /\ SubSeq(v, Len(c) + 1, Len(v)) = b
         /\ \A j \in 1 .. Len(c) : v[j] = c[j]
         /\ Len(v) = Len(c) + Len(b) /\ Len(b) \in Nat
    <2>1. Run(a) /\ Run(b) /\ Run(c) /\ Run(e)
      BY <1>1, <1>2
    <2> QED BY <2>1, PartsOfCat
  <1>11. InOrder = u /\ InOrder = v
    BY <1>2, <1>3
  <1> HIDE DEF u, v
  <1>5. /\ SubSeq(InOrder, 1, Len(a)) = a
        /\ SubSeq(InOrder, i + 1, Len(InOrder)) = b
        /\ InOrder[i] = n
        /\ Len(InOrder) = i + Len(b) /\ Len(b) \in Nat
    <2>1. i \in 1 .. Len(c)
      BY <1>4
    <2> QED BY <1>4, <1>10, <1>11, <2>1
  <1>6. i \in DOMAIN InOrder
    <2>1. InOrder \in Seq(Node) /\ i \in 1 .. Len(InOrder)
      BY <1>1, <1>4, <1>5, RunsJoin DEF Run
    <2> QED BY <2>1
  <1>7. InOrder' = Ordered!Without(i)
    <2>1. i - 1 = Len(a)
      BY <1>4
    <2> QED BY <1>1, <1>5, <2>1 DEF Ordered!Without, Cat
  <1> QED BY <1>5, <1>6, <1>7

-----------------------------------------------------------------------------
(* The steps that leave the order alone.                                   *)

LEMMA OthersKeepRoot ==
    ASSUME [Next]_vars, ~Relinking
    PROVE  root' = root
  <1>1. CASE UNCHANGED vars
    BY <1>1 DEF vars
  <1>2. CASE NodeCall
    BY <1>2 DEF NodeCall, NewNode, FreeNode, InsertNode, InsertBeside, RemoveNode, ClearMarker,
                MarkNodeAsDirty, EnableMarking, heap
  <1>3. CASE WalkDirty
    BY <1>3 DEF WalkDirty
  <1>4. CASE Continue
    BY <1>4 DEF Continue, Relinking, Descend, RefuseDuplicate, Slide, RecolourUncle,
                RedRedDone, Successor, RecolourSibling, BlackBlackDone, heap
  <1> QED BY <1>1, <1>2, <1>3, <1>4 DEF Next

LEMMA OthersKeepInOrder ==
    ASSUME Walked, Walked', [Next]_vars, ~Relinking
    PROVE  InOrder' = InOrder
  <1> DEFINE L == Linked
             ch == child
             cn == child'
             f == InOrderFrom
  <1>1. Linked' = L /\ \A n \in L : cn[n] = ch[n]
    BY OthersRelinkNothing DEF Walked
  <1>2. L \subseteq Node /\ cn \in [Ref -> [Side -> Ref]] /\ Walks(L, ch, f)
    BY DEF Walked, TypeOK
  <1>3. Walks(L, cn, f)
    <2> HIDE DEF L, ch, cn, f
    <2>1. /\ \A n \in L : f[n] = Join(f[ch[n]["left"]], n, f[ch[n]["right"]])
          /\ \A n \in Ref : n \notin L => f[n] = <<>>
      BY <1>2, RunsOfWalk
    <2>3. f \in [Ref -> Seq(L)]
      BY <1>2 DEF Walks
    <2>2. \A n \in L : f[n] = Join(f[cn[n]["left"]], n, f[cn[n]["right"]])
      BY <1>1, <2>1
    <2> QED BY <1>2, <2>1, <2>2, <2>3, WalkBuilt
  <1>4. InOrderFrom' = f
    BY <1>1, <1>3, WalkIs
  <1>5. InOrder' = InOrderFrom'[root'] /\ InOrder = f[root]
    BY DEF Walked
  <1> QED BY <1>4, <1>5, OthersKeepRoot

LEMMA TurnsKeepInOrder ==
    ASSUME NEW d \in [Ref -> Nat], NEW h \in [Ref -> Nat], InvariantBy(d, h), Walked, Walked',
           \/ RotateInner \/ RotateOuter \/ RotateSibling
           \/ \E s \in Side : RotateNephew(s) \/ RotateParent(s)
    PROVE  InOrder' = InOrder
  <1>1. PICK s \in Side, p \in Node : Rotatable(d, s, p) /\ Rotate(s, p)
    BY FixupTurns
  <1>2. Linked' = Linked
    BY DEF RotateInner, RotateOuter, RotateGrandparent, RotateSibling, RotateNephew,
           RotateParent, AtNephews, pool, Linked
  <1>3. TurnedLinks(s, p)
    BY <1>1, RotateLinks DEF Walked
  <1> QED BY <1>1, <1>2, <1>3, TurnKeepsInOrder

-----------------------------------------------------------------------------
(* The place that the comparator finds.                                    *)

\* Before x0 stand nodes of lo, behind it nodes of hi.
Split(s, x0, lo, hi) ==
    \E a, b : /\ Run(a) /\ Run(b) /\ s = Join(a, x0, b)
              /\ Elements(a) \subseteq lo /\ Elements(b) \subseteq hi

LEMMA ElementsOfJoin ==
    ASSUME NEW a, Run(a), NEW b, Run(b), NEW e, e \in Node
    PROVE  Elements(Join(a, e, b)) = Elements(a) \cup {e} \cup Elements(b)
  BY JoinedElements DEF Run

LEMMA SplitInPart ==
    ASSUME NEW s, NEW x0, x0 \in Node, NEW lo, NEW hi, Split(s, x0, lo, hi),
           NEW q, Run(q), NEW m, m \in Node
    PROVE  /\ m \in hi /\ Elements(q) \subseteq hi => Split(Join(s, m, q), x0, lo, hi)
           /\ m \in lo /\ Elements(q) \subseteq lo => Split(Join(q, m, s), x0, lo, hi)
  <1>1. PICK a, b : /\ Run(a) /\ Run(b) /\ s = Join(a, x0, b)
                    /\ Elements(a) \subseteq lo /\ Elements(b) \subseteq hi
    BY DEF Split
  <1>2. Run(Join(b, m, q)) /\ Run(Join(q, m, a))
    BY <1>1, RunsJoin
  <1>3. Join(s, m, q) = Join(a, x0, Join(b, m, q)) /\ Join(q, m, s) = Join(Join(q, m, a), x0, b)
    BY <1>1, JoinTurns
  <1>4. /\ Elements(Join(b, m, q)) = Elements(b) \cup {m} \cup Elements(q)
        /\ Elements(Join(q, m, a)) = Elements(q) \cup {m} \cup Elements(a)
    BY <1>1, ElementsOfJoin
  <1>5. CASE m \in hi /\ Elements(q) \subseteq hi
    <2>1. Elements(Join(b, m, q)) \subseteq hi
      BY <1>1, <1>4, <1>5
    <2>2. Split(Join(s, m, q), x0, lo, hi)
      BY <1>1, <1>2, <1>3, <2>1 DEF Split
    <2>3. m \in lo /\ Elements(q) \subseteq lo => Split(Join(q, m, s), x0, lo, hi)
      BY <1>1, <1>2, <1>3, <1>4 DEF Split
    <2> QED BY <2>2, <2>3
  <1>6. CASE ~(m \in hi /\ Elements(q) \subseteq hi)
    <2>1. m \in lo /\ Elements(q) \subseteq lo => Split(Join(q, m, s), x0, lo, hi)
      BY <1>1, <1>2, <1>3, <1>4 DEF Split
    <2> QED BY <1>6, <2>1
  <1> QED BY <1>5, <1>6

\* The comparator has sent arg right of the nodes that are less or equal, and
\* left of the others.
LEMMA InsertSplits ==
    ASSUME NEW d \in [Ref -> Nat], NEW h \in [Ref -> Nat], InvariantBy(d, h), WayOK, Walked,
           NEW A \in [Ref -> SUBSET Int], Narrowing(A),
           pc = "descend", x # nil, y = nil
    PROVE  LET v == value[arg]
           IN  /\ Split(InOrder, x, {n \in Linked : value[n] <= v}, {n \in Linked : v < value[n]})
               /\ v \in Int /\ value[x] \in Int
               /\ side = IF v < value[x] THEN "left" ELSE "right"
  <1> DEFINE L == Linked
             ch == child
             f == InOrderFrom
             v == value[arg]
             P == Path(parent, x)
             lo == {n \in L : value[n] <= v}
             hi == {n \in L : v < value[n]}
             Good(n) == Split(f[n], x, lo, hi)
             D == {n \in P : ~Good(n)}
  <1>1. /\ TypeOK /\ LinksOK /\ L \subseteq Node /\ nil \notin L /\ Walks(L, ch, f)
        /\ InOrder = f[root]
    BY DEF Walked
  <1>2. x \in L /\ side = WayFrom(v, x) /\ ch[x][side] = nil
    BY <1>1 DEF WayOK, InvariantBy, PlaceOK, SearchPlace
  <1>3. /\ \A n \in L : value[n] \in Int
        /\ v \in Int
    <2>1. arg \in Detached
      BY <1>1 DEF TypeOK
    <2> QED BY <1>1, <2>1, ValueIsInt, ValueAssumption DEF Linked, Detached, TypeOK
  <1>4. P \subseteq L /\ x \in P /\ root \in P
    BY <1>2, PathInTree
  <1>5. ASSUME NEW n \in P, n # x
        PROVE  LET w == WayFrom(v, n) IN w \in Side /\ ch[n][w] \in P
    <2>1. PICK s \in Side : ch[n][s] \in P
      BY <1>2, <1>5, PathDown
    <2>2. ch[n][s] \in L /\ ch[n][s] # nil /\ parent[ch[n][s]] = n /\ n # nil
      BY <1>1, <1>4, <1>5, <2>1 DEF LinksOK
    <2>3. ch[n][s] # root
      BY <1>1, <2>2 DEF LinksOK
    <2>4. ch[n][WayFrom(v, n)] = ch[n][s]
      <3>1. \A k \in P \ {root} : child[parent[k]][WayFrom(v, parent[k])] = k
        BY <1>2 DEF WayOK
      <3> QED BY <2>1, <2>2, <2>3, <3>1
    <2>5. WayFrom(v, n) \in Side
      BY DEF WayFrom
    <2> QED BY <2>1, <2>4, <2>5
  <1>6. /\ \A n \in L : f[n] = Join(f[ch[n]["left"]], n, f[ch[n]["right"]])
        /\ \A n \in Ref : Run(f[n])
        /\ f[nil] = <<>>
    <2>1. nil \in Ref
      OBVIOUS
    <2> HIDE DEF L, ch, f
    <2> QED BY <1>1, <2>1, RunsOfWalk
  <1>7. \A n \in L : /\ \A m \in Elements(f[ch[n]["left"]]) : m \in L /\ value[m] <= value[n]
                     /\ \A m \in Elements(f[ch[n]["right"]]) : m \in L /\ value[m] >= value[n]
    <2>1. \A n \in L : /\ \A m \in Elements(f[n]) : m \in L
                       /\ \A s \in Side : \A m \in Elements(f[ch[n][s]]) : Fits(value[m], n, s)
      BY WalkAscends
    <2>2. \A n \in L, s \in Side : ch[n][s] \in L \cup {nil}
      BY <1>1 DEF LinksOK
    <2>3. Elements(f[nil]) = {}
      BY <1>6 DEF Elements
    <2>4. \A n \in L, s \in Side : \A m \in Elements(f[ch[n][s]]) : m \in L /\ Fits(value[m], n, s)
      BY <2>1, <2>2, <2>3
    <2> QED BY <2>4 DEF Fits
  <1>8. PICK N : Sinking(L, ch, N)
    BY DEF Walked
  <1>9. ASSUME NEW n \in L, NEW s \in Side, ch[n][s] # nil
        PROVE  N[ch[n][s]] < N[n] /\ N[n] \in Nat /\ N[ch[n][s]] \in Nat
    BY <1>1, <1>8, <1>9 DEF Sinking, LinksOK
  <1>10. D = {}
    <2> SUFFICES ASSUME D # {} PROVE FALSE
      OBVIOUS
    <2>1. PICK n \in D : \A k \in D : N[n] <= N[k]
      <3>1. \A k \in D : N[k] \in Nat
        BY <1>1, <1>4, <1>8 DEF Sinking
      <3> HIDE DEF D
      <3> QED BY <3>1, LeastOf
    <2>2. n \in P /\ n \in L /\ n \in Node /\ ~Good(n)
      BY <1>1, <1>4, <2>1
    <2> DEFINE a == f[ch[n]["left"]]
               b == f[ch[n]["right"]]
    <2>3. Run(a) /\ Run(b) /\ f[n] = Join(a, n, b)
      <3>1. ch[n]["left"] \in Ref /\ ch[n]["right"] \in Ref
        BY <1>1, <2>2 DEF LinksOK
      <3> QED BY <1>6, <2>2, <3>1
    <2>4. /\ value[n] <= v => Elements(a) \subseteq lo /\ n \in lo
          /\ v < value[n] => Elements(b) \subseteq hi /\ n \in hi
      <3>1. value[n] <= v => \A m \in Elements(a) : value[m] <= v /\ m \in L
        BY <1>3, <1>7, <2>2
      <3>2. v < value[n] => \A m \in Elements(b) : v < value[m] /\ m \in L
        BY <1>3, <1>7, <2>2
      <3> QED BY <2>2, <3>1, <3>2
    <2>5. WayFrom(v, n) = IF v < value[n] THEN "left" ELSE "right"
      BY DEF WayFrom
    <2>6. value[n] <= v <=> ~(v < value[n])
      BY <1>3, <2>2
    <2>7. CASE n = x
      <3>1. CASE v < value[n]
        <4>1. a = <<>>
          BY <1>2, <1>6, <2>5, <2>7, <3>1
        <4>2. Elements(a) \subseteq lo
          BY <4>1 DEF Elements
        <4> HIDE DEF a, b, lo, hi
        <4> QED BY <2>2, <2>3, <2>4, <2>7, <3>1, <4>2 DEF Split
      <3>2. CASE value[n] <= v
        <4>1. b = <<>>
          BY <1>2, <1>6, <2>5, <2>6, <2>7, <3>2
        <4>2. Elements(b) \subseteq hi
          BY <4>1 DEF Elements
        <4> HIDE DEF a, b, lo, hi
        <4> QED BY <2>2, <2>3, <2>4, <2>7, <3>2, <4>2 DEF Split
      <3> QED BY <2>6, <3>1, <3>2
    <2>8. CASE n # x
      <3>1. WayFrom(v, n) \in Side /\ ch[n][WayFrom(v, n)] \in P
        BY <1>5, <2>2, <2>8
      <3>2. Good(ch[n][WayFrom(v, n)])
        <4>1. ch[n][WayFrom(v, n)] # nil
          BY <1>1, <1>4, <3>1
        <4>2. /\ N[ch[n][WayFrom(v, n)]] < N[n] /\ N[n] \in Nat
              /\ N[ch[n][WayFrom(v, n)]] \in Nat
          BY <1>9, <2>2, <3>1, <4>1
        <4> DEFINE c == ch[n][WayFrom(v, n)]
        <4>3. c \notin D
          <5>1. N[c] < N[n] /\ N[n] \in Nat /\ N[c] \in Nat
            BY <4>2
          <5> HIDE DEF c, D
          <5>2. c \in D => N[n] <= N[c]
            BY <2>1
          <5> QED BY <5>1, <5>2
        <4> QED BY <3>1, <4>3
      <3>3. x \in Node
        BY <1>1, <1>2
      <3>4. CASE v < value[n]
        <4>1. Split(a, x, lo, hi)
          BY <2>5, <3>2, <3>4
        <4> HIDE DEF a, b, lo, hi
        <4> QED BY <2>2, <2>3, <2>4, <3>3, <3>4, <4>1, SplitInPart
      <3>5. CASE value[n] <= v
        <4>1. Split(b, x, lo, hi)
          BY <2>5, <2>6, <3>2, <3>5
        <4> HIDE DEF a, b, lo, hi
        <4> QED BY <2>2, <2>3, <2>4, <3>3, <3>5, <4>1, SplitInPart
      <3> QED BY <2>6, <3>4, <3>5
    <2> QED BY <2>7, <2>8
  <1>11. Split(InOrder, x, lo, hi)
    BY <1>1, <1>4, <1>10
  <1> QED BY <1>2, <1>3, <1>11 DEF WayFrom

-----------------------------------------------------------------------------
(* The place beside a neighbour.                                           *)

\* e stands directly beside m on side r.
Adjoins(t, m, e, r) == \E s : Put(t, s, m, e, r)

\* e stands at the end r.
Facing(t, e, r) ==
    \E b : Run(b) /\ t = IF r = "left" THEN Join(<<>>, e, b) ELSE Join(b, e, <<>>)

LEMMA FacingInPart ==
    ASSUME NEW t, NEW e, e \in Node, NEW r, Facing(t, e, r), NEW q, Run(q), NEW m, m \in Node
    PROVE  Facing(IF r = "left" THEN Join(t, m, q) ELSE Join(q, m, t), e, r)
  <1>1. PICK b : Run(b) /\ t = IF r = "left" THEN Join(<<>>, e, b) ELSE Join(b, e, <<>>)
    BY DEF Facing
  <1>2. Run(Join(b, m, q)) /\ Run(Join(q, m, b)) /\ Run(<<>>)
    BY <1>1, RunsJoin, EmptyRun
  <1>3. /\ Join(Join(<<>>, e, b), m, q) = Join(<<>>, e, Join(b, m, q))
        /\ Join(q, m, Join(b, e, <<>>)) = Join(Join(q, m, b), e, <<>>)
    BY <1>1, <1>2, JoinTurns
  <1> QED BY <1>1, <1>2, <1>3 DEF Facing

LEMMA FacingAdjoins ==
    ASSUME NEW t, NEW e, e \in Node, NEW r, NEW q, Run(q), NEW m, m \in Node
    PROVE  /\ Facing(t, e, "left") => Adjoins(Join(q, m, t), m, e, "right")
           /\ Facing(t, e, "right") => Adjoins(Join(t, m, q), m, e, "left")
  <1>1. ASSUME Facing(t, e, "left") PROVE Adjoins(Join(q, m, t), m, e, "right")
    <2>1. PICK b : Run(b) /\ t = Join(<<>>, e, b)
      BY <1>1 DEF Facing
    <2>2. Put(Join(q, m, Join(<<>>, e, b)), Join(q, m, b), m, e, "right")
      BY <2>1, PutHere
    <2>3. Put(Join(q, m, t), Join(q, m, b), m, e, "right")
      BY <2>1, <2>2
    <2> QED BY <2>3 DEF Adjoins
  <1>2. ASSUME Facing(t, e, "right") PROVE Adjoins(Join(t, m, q), m, e, "left")
    <2>1. PICK b : Run(b) /\ t = Join(b, e, <<>>)
      BY <1>2 DEF Facing
    <2>2. Put(Join(Join(b, e, <<>>), m, q), Join(b, m, q), m, e, "left")
      BY <2>1, PutHere
    <2>3. Put(Join(t, m, q), Join(b, m, q), m, e, "left")
      BY <2>1, <2>2
    <2> QED BY <2>3 DEF Adjoins
  <1> QED BY <1>1, <1>2

LEMMA AdjoinsInPart ==
    ASSUME NEW t, NEW x0, x0 \in Node, NEW e, e \in Node, NEW r, Adjoins(t, x0, e, r),
           NEW q, Run(q), NEW m, m \in Node
    PROVE  Adjoins(Join(t, m, q), x0, e, r) /\ Adjoins(Join(q, m, t), x0, e, r)
  <1>1. PICK s : Put(t, s, x0, e, r)
    BY DEF Adjoins
  <1>2. /\ Put(Join(t, m, q), Join(s, m, q), x0, e, r)
        /\ Put(Join(q, m, t), Join(q, m, s), x0, e, r)
    BY <1>1, PutInPart
  <1> QED BY <1>2 DEF Adjoins

\* From m the links lead to side o first, and over the nodes of W to side s
\* until they end at e.
LedAt(L, ch, W, m, e, s, o) ==
    /\ W \subseteq L /\ m \in L /\ e \in W /\ s \in Side /\ o \in Side /\ s # o
    /\ ch[m][o] \in W /\ ch[e][s] = nil
    /\ \A k \in W : k # e => ch[k][s] \in W
    /\ \A n \in L, r \in Side : ch[n][r] \in L \cup {nil}

LEMMA LedAdjoins ==
    ASSUME NEW L, NEW ch, NEW f, Walks(L, ch, f), NEW N, Sinking(L, ch, N),
           NEW W, NEW m, NEW e, NEW s, NEW o, LedAt(L, ch, W, m, e, s, o)
    PROVE  \A n \in L : m \in Elements(f[n]) => Adjoins(f[n], m, e, o)
  <1> DEFINE l(n) == ch[n]["left"]
             r(n) == ch[n]["right"]
  <1>1. /\ L \subseteq Node /\ nil \notin L /\ m \in L /\ e \in L /\ e \in W /\ W \subseteq L
        /\ m \in Node /\ e \in Node
        /\ \/ s = "left" /\ o = "right"
           \/ s = "right" /\ o = "left"
    BY DEF Walks, LedAt
  <1>2. \A n \in L : l(n) \in L \cup {nil} /\ r(n) \in L \cup {nil}
    BY DEF LedAt
  <1>3. f[nil] = <<>> /\ Elements(f[nil]) = {}
    <2>1. nil \in Ref /\ nil \notin L
      BY <1>1
    <2> QED BY <2>1, WalkOutside
  <1>4. \A n \in L \cup {nil} : Run(f[n])
    BY <1>1, RunsOfWalk
  <1>5. \A n \in L : f[n] = Join(f[l(n)], n, f[r(n)])
    BY RunsOfWalk
  <1>6. \A n \in L : Elements(f[n]) = Elements(f[l(n)]) \cup {n} \cup Elements(f[r(n)])
    BY WalkElements
  <1>7. ASSUME NEW n \in L, NEW p \in Side, ch[n][p] # nil
        PROVE  N[ch[n][p]] < N[n] /\ N[n] \in Nat /\ N[ch[n][p]] \in Nat
    BY <1>1, <1>2, <1>7 DEF Sinking
  <1>8. \A n \in L : N[n] \in Nat
    BY <1>1 DEF Sinking
  <1>9. \A k \in W : Facing(f[k], e, s)
    <2> DEFINE D == {k \in W : ~Facing(f[k], e, s)}
    <2> SUFFICES ASSUME D # {} PROVE FALSE
      OBVIOUS
    <2>1. PICK n \in D : \A k \in D : N[n] <= N[k]
      <3>1. \A k \in D : N[k] \in Nat
        BY <1>1, <1>8
      <3> HIDE DEF D
      <3> QED BY <3>1, LeastOf
    <2>2. n \in W /\ n \in L /\ n \in Node /\ ~Facing(f[n], e, s)
      BY <1>1, <2>1
    <2>3. Run(f[l(n)]) /\ Run(f[r(n)]) /\ f[n] = Join(f[l(n)], n, f[r(n)])
      BY <1>2, <1>4, <1>5, <2>2
    <2>4. CASE n = e
      <3>1. CASE s = "left"
        BY <1>3, <2>2, <2>3, <2>4, <3>1 DEF LedAt, Facing
      <3>2. CASE s = "right"
        BY <1>3, <2>2, <2>3, <2>4, <3>2 DEF LedAt, Facing
      <3> QED BY <1>1, <3>1, <3>2
    <2>5. CASE n # e
      <3> DEFINE c == ch[n][s]
      <3>1. c \in W /\ c # nil /\ s \in Side
        BY <1>1, <2>2, <2>5 DEF LedAt
      <3>2. N[c] < N[n] /\ N[n] \in Nat /\ N[c] \in Nat
        BY <1>7, <2>2, <3>1
      <3>3. Facing(f[c], e, s)
        <4> HIDE DEF c
        <4>1. c \in D => N[n] <= N[c]
          BY <2>1
        <4> QED BY <3>1, <3>2, <4>1
      <3> DEFINE a == f[l(n)]
                 b == f[r(n)]
      <3>4. Run(a) /\ Run(b) /\ f[n] = Join(a, n, b)
        BY <2>3
      <3>5. CASE s = "left"
        <4>1. Facing(a, e, "left")
          BY <3>3, <3>5
        <4> HIDE DEF a, b
        <4>2. Facing(IF "left" = "left" THEN Join(a, n, b) ELSE Join(b, n, a), e, "left")
          BY <1>1, <2>2, <3>4, <4>1, FacingInPart
        <4> QED BY <2>2, <3>4, <3>5, <4>2
      <3>6. CASE s = "right"
        <4>1. Facing(b, e, "right")
          BY <3>3, <3>6
        <4> HIDE DEF a, b
        <4>2. Facing(IF "right" = "left" THEN Join(b, n, a) ELSE Join(a, n, b), e, "right")
          BY <1>1, <2>2, <3>4, <4>1, FacingInPart
        <4> QED BY <2>2, <3>4, <3>6, <4>2
      <3> QED BY <1>1, <3>5, <3>6
    <2> QED BY <2>4, <2>5
  <1>10. Adjoins(f[m], m, e, o)
    <2> DEFINE a == f[l(m)]
               b == f[r(m)]
    <2>1. Run(a) /\ Run(b) /\ f[m] = Join(a, m, b)
      BY <1>1, <1>2, <1>4, <1>5
    <2>2. Facing(f[ch[m][o]], e, s)
      BY <1>9 DEF LedAt
    <2>3. CASE s = "left" /\ o = "right"
      <3>1. Facing(b, e, "left")
        BY <2>2, <2>3
      <3> HIDE DEF a, b
      <3> QED BY <1>1, <2>1, <2>3, <3>1, FacingAdjoins
    <2>4. CASE s = "right" /\ o = "left"
      <3>1. Facing(a, e, "right")
        BY <2>2, <2>4
      <3> HIDE DEF a, b
      <3> QED BY <1>1, <2>1, <2>4, <3>1, FacingAdjoins
    <2> QED BY <1>1, <2>3, <2>4
  <1> DEFINE Good(n) == m \in Elements(f[n]) => Adjoins(f[n], m, e, o)
             D == {n \in L : ~Good(n)}
  <1> SUFFICES ASSUME D # {} PROVE FALSE
    OBVIOUS
  <1>11. PICK n \in D : \A k \in D : N[n] <= N[k]
    <2>1. \A k \in D : N[k] \in Nat
      BY <1>8
    <2> HIDE DEF D
    <2> QED BY <2>1, LeastOf
  <1>12. n \in L /\ n \in Node /\ m \in Elements(f[n]) /\ ~Adjoins(f[n], m, e, o) /\ n # m
    BY <1>1, <1>10, <1>11
  <1>13. \A k \in {l(n), r(n)} : Good(k)
    <2>1. \A k \in {l(n), r(n)} : k # nil => k \in L /\ N[k] < N[n] /\ N[k] \in Nat /\ N[n] \in Nat
      BY <1>2, <1>7, <1>12
    <2>2. \A k \in {l(n), r(n)} : k # nil => k \notin D
      BY <1>11, <2>1
    <2> QED BY <1>3, <2>1, <2>2
  <1> DEFINE a == f[l(n)]
             b == f[r(n)]
  <1>14. Run(a) /\ Run(b) /\ f[n] = Join(a, n, b)
    BY <1>2, <1>4, <1>5, <1>12
  <1>15. Adjoins(a, m, e, o) \/ Adjoins(b, m, e, o)
    BY <1>6, <1>12, <1>13
  <1> HIDE DEF a, b, D
  <1> QED BY <1>1, <1>12, <1>14, <1>15, AdjoinsInPart

LEMMA BesideAdjoins ==
    ASSUME NEW d \in [Ref -> Nat], NEW h \in [Ref -> Nat], InvariantBy(d, h), WayOK, Walked,
           pc \in {"before", "after"}, x # beside, y = nil
    PROVE  Adjoins(InOrder, beside, x, Other(SlideSide))
  <1> DEFINE L == Linked
             ch == child
             f == InOrderFrom
             s == SlideSide
             o == Other(SlideSide)
             W == Path(parent, x) \ Path(parent, beside)
  <1>1. /\ TypeOK /\ LinksOK /\ L \subseteq Node /\ nil \notin L /\ Walks(L, ch, f)
        /\ InOrder = f[root] /\ Elements(f[root]) = L
    BY DEF Walked
  <1>2. s \in Side /\ o \in Side /\ s # o
    BY DEF SlideSide, Other
  <1>3. /\ beside \in L /\ Leads(beside, x, s) /\ side = s
        /\ x \in L /\ ch[x][s] = nil
    BY <1>1 DEF WayOK, InvariantBy, PlaceOK, SearchPlace
  <1>4. /\ W \subseteq L /\ x \in W /\ ch[beside][o] \in W
        /\ \A k \in W : k # x => ch[k][s] \in W
    <2>1. x \in Linked /\ s \in Side /\ Leads(beside, x, s)
      BY <1>2, <1>3
    <2> HIDE DEF s
    <2> QED BY <2>1, LedBelow DEF s
  <1>5. \A n \in L, r \in Side : ch[n][r] \in L \cup {nil}
    BY <1>1 DEF LinksOK
  <1>6. PICK N : Sinking(L, ch, N)
    BY DEF Walked
  <1>7. root \in L
    <2>1. Elements(f[nil]) = {}
      <3>1. nil \in Ref /\ nil \notin L
        BY <1>1
      <3> HIDE DEF L, ch, f
      <3> QED BY <1>1, <3>1, WalkOutside
    <2> QED BY <1>1, <1>3, <2>1 DEF LinksOK
  <1>8. LedAt(L, ch, W, beside, x, s, o)
    <2> HIDE DEF L, ch, W, s, o
    <2> QED BY <1>2, <1>3, <1>4, <1>5 DEF LedAt
  <1>9. \A n \in L : beside \in Elements(f[n]) => Adjoins(f[n], beside, x, o)
    <2> HIDE DEF L, ch, f, W, s, o
    <2> QED BY <1>1, <1>6, <1>8, LedAdjoins
  <1> QED BY <1>1, <1>3, <1>7, <1>9

-----------------------------------------------------------------------------
(* An insertion takes effect where the abstract call says.                 *)

LEMMA PutParts ==
    ASSUME NEW t, NEW s, NEW x0, x0 \in Node, NEW e, e \in Node, NEW r, Put(t, s, x0, e, r)
    PROVE  \E a, b : /\ Run(a) /\ Run(b) /\ s = Join(a, x0, b)
                     /\ IF r = "right"
                        THEN s = Cat(Join(a, x0, <<>>), b) /\ t = Join(Join(a, x0, <<>>), e, b)
                        ELSE s = Cat(a, Join(<<>>, x0, b)) /\ t = Join(a, e, Join(<<>>, x0, b))
  <1>1. PICK a, b : /\ Run(a) /\ Run(b) /\ s = Join(a, x0, b)
                    /\ t = IF r = "right" THEN Join(a, x0, Join(<<>>, e, b))
                                          ELSE Join(Join(a, e, <<>>), x0, b)
    BY DEF Put
  <1>2. s = Cat(a, Join(<<>>, x0, b)) /\ s = Cat(Join(a, x0, <<>>), b)
    BY <1>1, JoinIs
  <1>3. /\ Join(a, x0, Join(<<>>, e, b)) = Join(Join(a, x0, <<>>), e, b)
        /\ Join(Join(a, e, <<>>), x0, b) = Join(a, e, Join(<<>>, x0, b))
    BY <1>1, EmptyRun, JoinTurns
  <1> QED BY <1>1, <1>2, <1>3

LEMMA StagesSeen ==
    /\ pc = "idle"      => StageSeen = [op |-> "none", node |-> arg, at |-> beside]
    /\ pc = "descend"   => StageSeen = [op |-> "insert", node |-> arg, at |-> beside]
    /\ pc = "before"    => StageSeen = [op |-> "before", node |-> arg, at |-> beside]
    /\ pc = "after"     => StageSeen = [op |-> "after", node |-> arg, at |-> beside]
    /\ pc = "successor" => StageSeen = [op |-> "remove", node |-> arg, at |-> beside]
    /\ pc \notin {"idle", "descend", "before", "after", "successor"} =>
          StageSeen = [op |-> "settling", node |-> nil, at |-> beside]
  BY DEF StageSeen

\* Where arg goes: between the nodes of c and those of e.
Goes(c, e) ==
    /\ Run(c) /\ Run(e) /\ InOrder = Cat(c, e)
    /\ pc = "descend" => /\ \A n \in Elements(c) : n \in Linked /\ value[n] <= value[arg]
                         /\ \A n \in Elements(e) : n \in Linked /\ ~(value[n] <= value[arg])
    /\ pc = "before" => \E b : Run(b) /\ e = Join(<<>>, beside, b)
    /\ pc = "after"  => \E b : Run(b) /\ c = Join(b, beside, <<>>)

LEMMA InsertGoes ==
    ASSUME NEW d \in [Ref -> Nat], NEW h \in [Ref -> Nat], InvariantBy(d, h), WayOK, OrderInv,
           Walked, Walked', Attach, pc = "descend"
    PROVE  \E c, e : Goes(c, e) /\ InOrder' = Join(c, arg, e)
  <1> DEFINE v == value[arg]
             lo == {n \in Linked : value[n] <= v}
             hi == {n \in Linked : v < value[n]}
  <1>1. CASE x = nil
    <2>1. InOrder = <<>> /\ InOrder' = Join(<<>>, arg, <<>>)
      BY <1>1, AttachPuts
    <2>2. Run(<<>>) /\ Cat(<<>>, <<>>) = <<>> /\ Elements(<<>>) = {}
      BY EmptyRun DEF Elements
    <2> QED BY <2>1, <2>2 DEF Goes
  <1>2. CASE x # nil
    <2>1. x \in Linked /\ x \in Node /\ arg \in Node /\ Put(InOrder', InOrder, x, arg, side)
      <3>1. x \in Linked /\ Put(InOrder', InOrder, x, arg, side)
        BY <1>2, AttachPuts
      <3>2. arg \in Detached
        BY DEF InvariantBy, TypeOK
      <3> QED BY <3>1, <3>2 DEF Walked, Detached
    <2>2. PICK A \in [Ref -> SUBSET Int] : Narrowing(A)
      <3>1. root # nil
        <4>1. nil \in Ref /\ nil \notin Linked /\ Elements(InOrderFrom[nil]) = {}
          <5> DEFINE L == Linked
                     ch == child
                     f == InOrderFrom
          <5>1. nil \in Ref /\ nil \notin L /\ Walks(L, ch, f)
            BY DEF Walked
          <5> HIDE DEF L, ch, f
          <5>2. Elements(f[nil]) = {}
            BY <5>1, WalkOutside
          <5> QED BY <5>1, <5>2 DEF L, f
        <4> QED BY <2>1, <4>1 DEF Walked
      <3>2. ~Positional
        BY <3>1 DEF WayOK
      <3> QED BY <3>2 DEF OrderInv, OrderedBy
    <2>3. /\ Split(InOrder, x, lo, hi) /\ v \in Int /\ value[x] \in Int
          /\ side = IF v < value[x] THEN "left" ELSE "right"
      BY <1>2, <2>2, InsertSplits DEF Attach
    <2>4. PICK a, b : /\ Run(a) /\ Run(b) /\ InOrder = Join(a, x, b)
                      /\ IF side = "right"
                         THEN /\ InOrder = Cat(Join(a, x, <<>>), b)
                              /\ InOrder' = Join(Join(a, x, <<>>), arg, b)
                         ELSE /\ InOrder = Cat(a, Join(<<>>, x, b))
                              /\ InOrder' = Join(a, arg, Join(<<>>, x, b))
      BY <2>1, PutParts
    <2>5. Elements(a) \subseteq lo /\ Elements(b) \subseteq hi
      <3>1. PICK p, q : /\ Run(p) /\ Run(q) /\ InOrder = Join(p, x, q)
                        /\ Elements(p) \subseteq lo /\ Elements(q) \subseteq hi
        BY <2>3 DEF Split
      <3>2. OnceEach(Join(a, x, b)) /\ Join(a, x, b) = Join(p, x, q)
        BY <2>4, <3>1 DEF Walked
      <3>3. a = p /\ b = q
        BY <2>1, <2>4, <3>1, <3>2, JoinUnique
      <3> QED BY <3>1, <3>3
    <2>6. /\ Run(Join(a, x, <<>>)) /\ Elements(Join(a, x, <<>>)) = Elements(a) \cup {x}
          /\ Run(Join(<<>>, x, b)) /\ Elements(Join(<<>>, x, b)) = Elements(b) \cup {x}
      <3>1. Run(<<>>) /\ Elements(<<>>) = {}
        BY EmptyRun DEF Elements
      <3>2. Run(Join(a, x, <<>>)) /\ Run(Join(<<>>, x, b))
        BY <2>1, <2>4, <3>1, RunsJoin
      <3>3. /\ Elements(Join(a, x, <<>>)) = Elements(a) \cup {x} \cup Elements(<<>>)
            /\ Elements(Join(<<>>, x, b)) = Elements(<<>>) \cup {x} \cup Elements(b)
        BY <2>1, <2>4, <3>1, ElementsOfJoin
      <3> QED BY <3>1, <3>2, <3>3
    <2>7. /\ \A n \in lo : n \in Linked /\ value[n] <= v
          /\ \A n \in hi : n \in Linked /\ ~(value[n] <= v)
      <3>1. \A n \in Linked : value[n] \in Int
        BY ValueIsInt DEF Walked
      <3> QED BY <2>3, <3>1
    <2>8. CASE v < value[x]
      <3>1. side = "left" /\ ~(value[x] <= v)
        BY <2>3, <2>8
      <3>2. Goes(a, Join(<<>>, x, b))
        <4>1. /\ \A n \in Elements(a) : n \in Linked /\ value[n] <= v
              /\ \A n \in Elements(Join(<<>>, x, b)) : n \in Linked /\ ~(value[n] <= v)
          <5> HIDE DEF lo, hi, v
          <5> QED BY <2>1, <2>5, <2>6, <2>7, <3>1
        <4>2. InOrder = Cat(a, Join(<<>>, x, b))
          BY <2>4, <3>1
        <4> QED BY <2>4, <2>6, <4>1, <4>2 DEF Goes
      <3> QED BY <2>4, <3>1, <3>2
    <2>9. CASE ~(v < value[x])
      <3>1. side = "right" /\ value[x] <= v
        BY <2>3, <2>9
      <3>2. Goes(Join(a, x, <<>>), b)
        <4>1. /\ \A n \in Elements(Join(a, x, <<>>)) : n \in Linked /\ value[n] <= v
              /\ \A n \in Elements(b) : n \in Linked /\ ~(value[n] <= v)
          <5> HIDE DEF lo, hi, v
          <5> QED BY <2>1, <2>5, <2>6, <2>7, <3>1
        <4>2. InOrder = Cat(Join(a, x, <<>>), b)
          BY <2>4, <3>1
        <4> QED BY <2>4, <2>6, <4>1, <4>2 DEF Goes
      <3> QED BY <2>4, <3>1, <3>2
    <2> QED BY <2>8, <2>9
  <1> QED BY <1>1, <1>2

LEMMA BesideGoes ==
    ASSUME NEW d \in [Ref -> Nat], NEW h \in [Ref -> Nat], InvariantBy(d, h), WayOK,
           Walked, Walked', Attach, pc \in {"before", "after"}
    PROVE  \E c, e : Goes(c, e) /\ InOrder' = Join(c, arg, e)
  <1>1. /\ x \in Linked /\ x \in Node /\ arg \in Node /\ beside \in Node
        /\ Put(InOrder', InOrder, x, arg, side)
    <2>1. x # nil
      BY DEF InvariantBy, PlaceOK, SearchPlace
    <2>2. x \in Linked /\ Put(InOrder', InOrder, x, arg, side)
      BY <2>1, AttachPuts
    <2>3. arg \in Detached /\ beside \in Linked
      BY DEF InvariantBy, TypeOK, WayOK
    <2> QED BY <2>2, <2>3 DEF Walked, Detached
  <1>2. PICK a, b : /\ Run(a) /\ Run(b) /\ InOrder = Join(a, x, b)
                    /\ IF side = "right"
                       THEN /\ InOrder = Cat(Join(a, x, <<>>), b)
                            /\ InOrder' = Join(Join(a, x, <<>>), arg, b)
                       ELSE /\ InOrder = Cat(a, Join(<<>>, x, b))
                            /\ InOrder' = Join(a, arg, Join(<<>>, x, b))
    BY <1>1, PutParts
  <1>3. /\ Run(Join(a, x, <<>>)) /\ Run(Join(<<>>, x, b))
    BY <1>1, <1>2, RunsJoin, EmptyRun
  <1>4. side = IF x = beside THEN Other(SlideSide) ELSE SlideSide
    BY DEF WayOK
  <1>5. CASE x = beside
    <2>1. CASE pc = "before"
      <3>1. side = "left"
        BY <1>4, <1>5, <2>1 DEF SlideSide, Other
      <3> QED BY <1>2, <1>3, <1>5, <2>1, <3>1 DEF Goes
    <2>2. CASE pc = "after"
      <3>1. side = "right"
        BY <1>4, <1>5, <2>2 DEF SlideSide, Other
      <3> QED BY <1>2, <1>3, <1>5, <2>2, <3>1 DEF Goes
    <2> QED BY <2>1, <2>2
  <1>6. CASE x # beside
    <2>1. Adjoins(InOrder, beside, x, Other(SlideSide))
      BY <1>6, BesideAdjoins DEF Attach
    <2>2. PICK s : Put(InOrder, s, beside, x, Other(SlideSide))
      BY <2>1 DEF Adjoins
    <2>3. PICK p, q : /\ Run(p) /\ Run(q)
                      /\ IF Other(SlideSide) = "right"
                         THEN InOrder = Join(Join(p, beside, <<>>), x, q)
                         ELSE InOrder = Join(p, x, Join(<<>>, beside, q))
      BY <1>1, <2>2, PutParts
    <2>4. Run(Join(p, beside, <<>>)) /\ Run(Join(<<>>, beside, q)) /\ OnceEach(InOrder)
      BY <1>1, <2>3, RunsJoin, EmptyRun DEF Walked
    <2>5. CASE pc = "before"
      <3>1. side = "right" /\ Other(SlideSide) = "left"
        BY <1>4, <1>6, <2>5 DEF SlideSide, Other
      <3>2. b = Join(<<>>, beside, q)
        <4> DEFINE w == Join(<<>>, beside, q)
        <4>1. Join(a, x, b) = Join(p, x, w) /\ OnceEach(Join(a, x, b)) /\ Run(w)
          BY <1>2, <2>3, <2>4, <3>1
        <4> HIDE DEF w
        <4>2. b = w
          BY <1>1, <1>2, <2>3, <4>1, JoinUnique
        <4> QED BY <4>2 DEF w
      <3> QED BY <1>2, <1>3, <2>3, <2>5, <3>1, <3>2 DEF Goes
    <2>6. CASE pc = "after"
      <3>1. side = "left" /\ Other(SlideSide) = "right"
        BY <1>4, <1>6, <2>6 DEF SlideSide, Other
      <3>2. a = Join(p, beside, <<>>)
        <4> DEFINE w == Join(p, beside, <<>>)
        <4>1. Join(a, x, b) = Join(w, x, q) /\ OnceEach(Join(a, x, b)) /\ Run(w)
          BY <1>2, <2>3, <2>4, <3>1
        <4> HIDE DEF w
        <4>2. a = w
          BY <1>1, <1>2, <2>3, <4>1, JoinUnique
        <4> QED BY <4>2 DEF w
      <3> QED BY <1>2, <1>3, <2>3, <2>6, <3>1, <3>2 DEF Goes
    <2> QED BY <2>5, <2>6
  <1> QED BY <1>5, <1>6

LEMMA PlaceIs ==
    ASSUME NEW c, NEW e, Goes(c, e), pc \in {"descend", "before", "after"}, beside \in Ref,
           pc # "descend" => beside \in Node
    PROVE  Ordered!Place(Len(c))
  <1> DEFINE i == Len(c)
             s == InOrder
  <1>1. Run(c) /\ Run(e) /\ s = Cat(c, e)
    BY DEF Goes
  <1>2. /\ i \in Nat /\ Len(e) \in Nat /\ Len(s) = i + Len(e)
        /\ \A j \in 1 .. i : s[j] = c[j]
        /\ \A j \in 1 .. Len(e) : s[i + j] = e[j]
    <2> HIDE DEF s
    <2>1. /\ Len(c) \in Nat /\ Len(e) \in Nat /\ Len(Cat(c, e)) = Len(c) + Len(e)
          /\ \A j \in 1 .. Len(c) : Cat(c, e)[j] = c[j]
          /\ \A j \in 1 .. Len(e) : Cat(c, e)[Len(c) + j] = e[j]
      <3>1. Run(c) /\ Run(e)
        BY <1>1
      <3> HIDE DEF i
      <3> QED BY <3>1, PartsOfCat
    <2> QED BY <1>1, <2>1
  <1>3. DOMAIN s = 1 .. Len(s) /\ DOMAIN c = 1 .. Len(c) /\ DOMAIN e = 1 .. Len(e)
    <2>1. Run(s)
      <3> HIDE DEF s
      <3> QED BY <1>1 DEF Run, Cat
    <2> HIDE DEF s
    <2> QED BY <1>1, <2>1 DEF Run
  <1>4. CASE pc = "descend"
    <2> DEFINE v == value[arg]
    <2>1. ASSUME NEW j \in DOMAIN s PROVE j <= i <=> value[s[j]] <= v
      <3>1. CASE j <= i
        <4>1. j \in DOMAIN c /\ s[j] = c[j]
          <5> HIDE DEF s, i
          <5> QED BY <1>2, <1>3, <2>1, <3>1 DEF i
        <4>2. s[j] \in Elements(c)
          BY <4>1 DEF Elements
        <4> QED BY <1>4, <3>1, <4>2 DEF Goes
      <3>2. CASE ~(j <= i)
        <4>1. j - i \in DOMAIN e /\ s[j] = e[j - i]
          <5> HIDE DEF s
          <5>1. j \in 1 .. i + Len(e) /\ i \in Nat /\ Len(e) \in Nat /\ ~(j <= i)
            BY <1>2, <1>3, <2>1, <3>2
          <5> HIDE DEF i
          <5>2. j - i \in 1 .. Len(e) /\ i + (j - i) = j
            BY <5>1
          <5>3. s[i + (j - i)] = e[j - i]
            BY <1>2, <5>2 DEF i
          <5> QED BY <1>3, <5>2, <5>3
        <4>2. s[j] \in Elements(e)
          BY <4>1 DEF Elements
        <4> QED BY <1>4, <3>2, <4>2 DEF Goes
      <3> QED BY <3>1, <3>2
    <2>2. StageSeen.op = "insert" /\ StageSeen.node = arg
      BY <1>4, StagesSeen
    <2> HIDE DEF i, s, v
    <2>3. \A j \in DOMAIN InOrder : j <= i <=> value[InOrder[j]] <= value[StageSeen.node]
      BY <2>1, <2>2 DEF s, v
    <2>4. Ordered!Place(i)
      BY <2>2, <2>3 DEF Ordered!Place
    <2> QED BY <2>4 DEF i
  <1>5. CASE pc = "before"
    <2>1. PICK b : Run(b) /\ e = Join(<<>>, beside, b)
      BY <1>5 DEF Goes
    <2>2. IsJoin(e, <<>>, beside, b)
      BY <1>5, <2>1, EmptyRun, Joined DEF Run
    <2>3. Len(e) = 1 + Len(b) /\ Len(b) \in Nat /\ e[1] = beside
      <3>1. Len(<<>>) = 0
        OBVIOUS
      <3> QED BY <2>2, <3>1 DEF IsJoin
    <2>4. i + 1 \in DOMAIN InOrder /\ InOrder[i + 1] = beside
      <3>1. 1 \in 1 .. Len(e) /\ i + 1 \in 1 .. i + Len(e)
        BY <1>2, <2>3
      <3> HIDE DEF i, s
      <3>2. s[i + 1] = beside /\ i + 1 \in DOMAIN s
        BY <1>2, <1>3, <2>3, <3>1 DEF i
      <3> QED BY <3>2 DEF s
    <2>5. StageSeen.op = "before" /\ StageSeen.at = beside
      BY <1>5, StagesSeen
    <2> HIDE DEF i, s
    <2>6. Ordered!Place(i)
      BY <2>4, <2>5 DEF Ordered!Place
    <2> QED BY <2>6 DEF i
  <1>6. CASE pc = "after"
    <2>1. PICK b : Run(b) /\ c = Join(b, beside, <<>>)
      BY <1>6 DEF Goes
    <2>2. IsJoin(c, b, beside, <<>>)
      BY <1>6, <2>1, EmptyRun, Joined DEF Run
    <2>3. i = Len(b) + 1 /\ Len(b) \in Nat /\ c[Len(b) + 1] = beside
      <3>1. Len(<<>>) = 0
        OBVIOUS
      <3> QED BY <2>2, <3>1 DEF IsJoin
    <2>4. i \in DOMAIN InOrder /\ InOrder[i] = beside
      <3>1. i \in 1 .. i /\ i \in 1 .. Len(s)
        <4>1. Len(s) = i + Len(e) /\ Len(e) \in Nat /\ i = Len(b) + 1 /\ Len(b) \in Nat
          BY <1>2, <2>3
        <4> HIDE DEF i, s
        <4> QED BY <4>1
      <3> HIDE DEF s
      <3>2. s[i] = beside /\ i \in DOMAIN s
        BY <1>2, <1>3, <2>3, <3>1
      <3> QED BY <3>2 DEF s
    <2>5. StageSeen.op = "after" /\ StageSeen.at = beside
      BY <1>6, StagesSeen
    <2> HIDE DEF i, s
    <2>6. Ordered!Place(i)
      BY <2>4, <2>5 DEF Ordered!Place
    <2> QED BY <2>6 DEF i
  <1> QED BY <1>4, <1>5, <1>6

-----------------------------------------------------------------------------
(* Step by step.                                                           *)

\* The locals of a call that has come back are gone.
LocalsGone ==
    /\ pc = "idle" => arg = nil
    /\ pc \notin {"before", "after"} => beside = nil

LEMMA StepLocals == LocalsGone /\ [Next]_vars => LocalsGone'
  <1> SUFFICES ASSUME LocalsGone, [Next]_vars PROVE LocalsGone'
    OBVIOUS
  <1>1. CASE UNCHANGED vars
    BY <1>1 DEF vars, LocalsGone
  <1>2. CASE NodeCall
    BY <1>2 DEF LocalsGone, NodeCall, NewNode, FreeNode, InsertNode, InsertBeside, RemoveNode,
                ClearMarker, MarkNodeAsDirty, EnableMarking, stack
  <1>3. CASE WalkDirty
    BY <1>3 DEF WalkDirty, LocalsGone, stack
  <1>4. CASE Descend \/ RefuseDuplicate \/ Slide \/ Attach \/ Successor \/ Unlink
    BY <1>4 DEF LocalsGone, Descend, RefuseDuplicate, Slide, Attach, Successor, Unlink, Return
  <1>5. CASE \/ RecolourUncle \/ RotateInner \/ RotateOuter \/ RedRedDone
             \/ RotateSibling \/ BlackBlackDone
    BY <1>5 DEF LocalsGone, RecolourUncle, RotateInner, RotateOuter, RotateGrandparent,
                RedRedDone, RotateSibling, BlackBlackDone, Return
  <1>6. ASSUME NEW s \in Side, RecolourSibling(s) \/ RotateNephew(s) \/ RotateParent(s)
        PROVE  LocalsGone'
    BY <1>6 DEF LocalsGone, RecolourSibling, RotateNephew, RotateParent, AtNephews
  <1> QED BY <1>1, <1>2, <1>3, <1>4, <1>5, <1>6 DEF Next, Continue

LEMMA MembersAre ==
    ASSUME Walked
    PROVE  Ordered!Members = Linked /\ (root = nil => InOrder = <<>> /\ Linked = {})
  <1>1. Ordered!Members = Linked
    BY DEF Walked, Ordered!Members, Elements
  <1> DEFINE L == Linked
             ch == child
             f == InOrderFrom
  <1>2. nil \in Ref /\ nil \notin L /\ Walks(L, ch, f)
    BY DEF Walked
  <1>3. f[nil] = <<>> /\ Elements(f[nil]) = {}
    <2> HIDE DEF L, ch, f
    <2> QED BY <1>2, WalkOutside
  <1> QED BY <1>1, <1>3 DEF Walked

\* The step of attach_node is the abstract insertion.
LEMMA AttachInserts ==
    ASSUME NEW d \in [Ref -> Nat], NEW h \in [Ref -> Nat], InvariantBy(d, h), WayOK, OrderInv,
           LocalsGone, Walked, Walked', Attach
    PROVE  Ordered!TakeEffect
  <1>1. /\ pc \in {"descend", "before", "after"} /\ y = nil
        /\ status' = [status EXCEPT ![arg] = "linked"] /\ rval' = 0 /\ value' = value
    BY DEF Attach
  <1>2. /\ arg \in Node /\ arg \in Detached /\ beside \in Ref
        /\ pc # "descend" => beside \in Linked /\ beside \in Node
    BY <1>1 DEF InvariantBy, TypeOK, Detached, WayOK, Linked
  <1>3. StageSeen.op \in {"insert", "before", "after"} /\ StageSeen.node = arg
        /\ (StageSeen.op = "insert" => pc = "descend")
    BY <1>1, StagesSeen
  <1>4. ~Ordered!Refused
    <2> SUFFICES ASSUME pc = "descend", ~AllowDuplicates, NEW m \in Linked, value[m] = value[arg]
                 PROVE  FALSE
      BY <1>3, MembersAre DEF Ordered!Refused, Ordered!Present
    <2>1. CASE Positional
      BY <2>1, MembersAre DEF WayOK
    <2>2. CASE ~Positional
      <3>1. nil \in Path(parent, m)
        BY <1>1, <2>2 DEF OrderInv, DuplicatesAhead
      <3> QED BY <3>1 DEF Path
    <2> QED BY <2>1, <2>2
  <1>5. PICK c, e : Goes(c, e) /\ InOrder' = Join(c, arg, e)
    BY <1>1, InsertGoes, BesideGoes
  <1>6. Len(c) \in 0 .. Len(InOrder) /\ InOrder' = Ordered!WithAfter(Len(c), arg)
    <2>1. Run(c) /\ Run(e) /\ InOrder = Cat(c, e)
      BY <1>5 DEF Goes
    <2> QED BY <1>2, <1>5, <2>1, InsertedIs
  <1>7. Ordered!Place(Len(c))
    BY <1>1, <1>2, <1>5, PlaceIs
  <1>8. Detached' = Detached \ {arg}
    BY <1>1, <1>2 DEF InvariantBy, TypeOK, Detached
  <1>9. Ordered!Insert
    BY <1>1, <1>3, <1>4, <1>6, <1>7, <1>8 DEF Ordered!Insert
  <1>10. StageSeen' \in {Ordered!Idle, Ordered!Settling}
    <2>1. (pc' = "redred" /\ beside' = nil) \/ (pc' = "idle" /\ arg' = nil /\ beside' = nil)
      BY DEF Attach, Return
    <2> QED BY <2>1 DEF StageSeen, Ordered!Idle, Ordered!Settling
  <1> QED BY <1>9, <1>10 DEF Ordered!TakeEffect

\* The unlinking of remove_node is the abstract removal.
LEMMA UnlinkRemoves ==
    ASSUME NEW d \in [Ref -> Nat], NEW h \in [Ref -> Nat], InvariantBy(d, h), WayOK,
           LocalsGone, Walked, Walked', Unlink
    PROVE  Ordered!TakeEffect
  <1>1. /\ pc = "successor" /\ status' = [status EXCEPT ![arg] = "free"] /\ rval' = rval
        /\ value' = [value EXCEPT ![arg] = nil]
    BY DEF Unlink, Freed
  <1>2. arg \in Linked /\ arg \in Node /\ beside = nil
    BY <1>1 DEF InvariantBy, TypeOK, Linked, LocalsGone
  <1>3. StageSeen.op = "remove" /\ StageSeen.node = arg
    BY <1>1, StagesSeen
  <1>4. Dropped(InOrder', InOrder, arg)
    BY CutDrops, ReplaceDrops
  <1>5. \E i \in DOMAIN InOrder : InOrder[i] = arg /\ InOrder' = Ordered!Without(i)
    BY <1>2, <1>4, DroppedIs
  <1>6. Detached' = Detached
    BY <1>1, <1>2 DEF InvariantBy, TypeOK, Detached, Linked
  <1>7. Ordered!Remove
    BY <1>1, <1>3, <1>5, <1>6 DEF Ordered!Remove
  <1>8. StageSeen' \in {Ordered!Idle, Ordered!Settling}
    <2>1. \/ pc' = "blackblack" /\ beside' = nil
          \/ pc' = "idle" /\ arg' = nil /\ beside' = nil
      BY <1>2 DEF Unlink, Return
    <2> QED BY <2>1 DEF StageSeen, Ordered!Idle, Ordered!Settling
  <1> QED BY <1>7, <1>8 DEF Ordered!TakeEffect

\* The calls that only begin or end something, or hand out nodes.
LEMMA NodeCallsRequest ==
    ASSUME TypeOK, LocalsGone, Walked, NodeCall, InOrder' = InOrder
    PROVE  [Ordered!Next]_(Ordered!vars)
  <1>1. pc = "idle" => StageSeen = Ordered!Idle /\ arg = nil /\ beside = nil
    BY StagesSeen DEF LocalsGone, Ordered!Idle
  <1>2. ASSUME NEW n \in Node, NEW v \in Payload[n], NewNode(n, v)
        PROVE  Ordered!Allocate(n, v)
    <2>1. /\ pc = "idle" /\ status[n] = "free" /\ status' = [status EXCEPT ![n] = "detached"]
          /\ value' = [value EXCEPT ![n] = v] /\ rval' = rval /\ UNCHANGED <<pc, arg, beside>>
      BY <1>2 DEF NewNode, stack
    <2>2. n \notin Detached \cup Ordered!Members
      BY <2>1, MembersAre DEF Detached, Linked
    <2>3. Detached' = Detached \cup {n}
      BY <2>1 DEF Detached, TypeOK
    <2>4. StageSeen' = StageSeen
      BY <2>1 DEF StageSeen
    <2> QED BY <1>1, <2>1, <2>2, <2>3, <2>4 DEF Ordered!Allocate
  <1>3. ASSUME NEW n \in Node, FreeNode(n)
        PROVE  Ordered!Release(n)
    <2>1. /\ pc = "idle" /\ status[n] = "detached" /\ status' = [status EXCEPT ![n] = "free"]
          /\ value' = [value EXCEPT ![n] = nil] /\ rval' = rval /\ UNCHANGED <<pc, arg, beside>>
      BY <1>3 DEF FreeNode, stack
    <2>2. n \in Detached /\ Detached' = Detached \ {n}
      BY <2>1 DEF Detached, TypeOK
    <2>3. StageSeen' = StageSeen
      BY <2>1 DEF StageSeen
    <2> QED BY <1>1, <2>1, <2>2, <2>3 DEF Ordered!Release
  <1>4. ASSUME NEW n \in Node, InsertNode(n)
        PROVE  Ordered!RequestInsert(n)
    <2>1. /\ pc = "idle" /\ status[n] = "detached" /\ (Positional => root = nil)
          /\ pc' = "descend" /\ arg' = n /\ beside' = beside /\ UNCHANGED <<value, status, rval>>
      BY <1>4 DEF InsertNode, pool
    <2>2. n \in Detached /\ Detached' = Detached /\ (Positional => InOrder = <<>>)
      BY <2>1, MembersAre DEF Detached
    <2>3. StageSeen' = [op |-> "insert", node |-> n, at |-> nil]
      BY <1>1, <2>1 DEF StageSeen
    <2> QED BY <1>1, <2>1, <2>2, <2>3 DEF Ordered!RequestInsert, Ordered!Request
  <1>5. ASSUME NEW n \in Node, NEW m \in Node, NEW s \in Side, InsertBeside(n, m, s)
        PROVE  \E op \in {"before", "after"} : Ordered!RequestBeside(n, m, op)
    <2> DEFINE op == IF s = "left" THEN "before" ELSE "after"
    <2>1. /\ pc = "idle" /\ Positional /\ status[n] = "detached" /\ status[m] = "linked"
          /\ pc' = op /\ arg' = n /\ beside' = m /\ UNCHANGED <<value, status, rval>>
      BY <1>5 DEF InsertBeside, pool
    <2>2. n \in Detached /\ Detached' = Detached /\ m \in Ordered!Members
      BY <2>1, MembersAre DEF Detached, Linked
    <2>3. op \in {"before", "after"} /\ StageSeen' = [op |-> op, node |-> n, at |-> m]
      BY <2>1 DEF StageSeen
    <2> HIDE DEF op
    <2>4. Ordered!RequestBeside(n, m, op)
      BY <1>1, <2>1, <2>2, <2>3 DEF Ordered!RequestBeside, Ordered!Request
    <2> QED BY <2>3, <2>4
  <1>6. ASSUME NEW n \in Node, RemoveNode(n)
        PROVE  Ordered!RequestRemove(n)
    <2>1. /\ pc = "idle" /\ status[n] = "linked"
          /\ pc' = "successor" /\ arg' = n /\ beside' = beside /\ UNCHANGED <<value, status, rval>>
      BY <1>6 DEF RemoveNode, pool
    <2>2. n \in Ordered!Members /\ Detached' = Detached
      BY <2>1, MembersAre DEF Detached, Linked
    <2>3. StageSeen' = [op |-> "remove", node |-> n, at |-> nil]
      BY <1>1, <2>1 DEF StageSeen
    <2> QED BY <1>1, <2>1, <2>2, <2>3 DEF Ordered!RequestRemove, Ordered!Request
  <1>7. ASSUME NEW n \in Node, ClearMarker(n) \/ MarkNodeAsDirty(n) \/ EnableMarking
        PROVE  UNCHANGED Ordered!vars
    <2>1. UNCHANGED <<value, status, rval, pc, arg, beside>>
      BY <1>7 DEF ClearMarker, MarkNodeAsDirty, EnableMarking, pool, stack
    <2> QED BY <2>1 DEF Ordered!vars, StageSeen, Detached
  <1>8. CASE EnableMarking
    <2>1. UNCHANGED <<value, status, rval, pc, arg, beside>>
      BY <1>8 DEF EnableMarking, pool, stack
    <2>2. UNCHANGED Ordered!vars
      BY <2>1 DEF Ordered!vars, StageSeen, Detached
    <2> QED BY <2>2
  <1>9. CASE \E n \in Node : ClearMarker(n) \/ MarkNodeAsDirty(n)
    BY <1>7, <1>9
  <1>10. CASE \E n \in Node : \/ \E v \in Payload[n] : NewNode(n, v)
                              \/ FreeNode(n) \/ InsertNode(n) \/ RemoveNode(n)
                              \/ \E m \in Node, s \in Side : InsertBeside(n, m, s)
    <2>1. Ordered!Next
      BY <1>2, <1>3, <1>4, <1>5, <1>6, <1>10 DEF Ordered!Next
    <2> QED BY <2>1
  <1> QED BY <1>8, <1>9, <1>10 DEF NodeCall

\* An insertion that meets an equal key is refused.
LEMMA RefusalAnswers ==
    ASSUME NEW d, NEW h, InvariantBy(d, h), Walked, RefuseDuplicate, InOrder' = InOrder
    PROVE  Ordered!Refuse
  <1>1. /\ pc = "descend" /\ y # nil /\ value[arg] = value[y] /\ ~AllowDuplicates
        /\ rval' = EEXIST /\ pc' = "idle" /\ arg' = nil /\ beside' = nil
        /\ UNCHANGED <<value, status>>
    BY DEF RefuseDuplicate, IsTaken, Return, pool
  <1>2. y \in Linked
    <2>1. side \in Side /\ LinksOK
      BY DEF Walked, TypeOK
    <2>2. IF x = nil THEN y = root ELSE x \in Linked /\ y = child[x][side]
      BY <1>1 DEF InvariantBy, PlaceOK, SearchPlace
    <2> QED BY <1>1, <2>1, <2>2 DEF LinksOK
  <1>3. StageSeen.op = "insert" /\ StageSeen.node = arg
    BY <1>1, StagesSeen
  <1>4. Ordered!Refused
    BY <1>1, <1>2, <1>3, MembersAre DEF Ordered!Refused, Ordered!Present
  <1>5. StageSeen' = Ordered!Idle
    BY <1>1 DEF StageSeen, Ordered!Idle
  <1> QED BY <1>1, <1>4, <1>5 DEF Ordered!Refuse, Detached

\* The rest of a fixup settles the colours, which nobody sees.
LEMMA FixupSettles ==
    ASSUME LocalsGone, InOrder' = InOrder,
           \/ RecolourUncle \/ RotateInner \/ RotateOuter \/ RedRedDone
           \/ RotateSibling \/ BlackBlackDone
           \/ \E s \in Side : RecolourSibling(s) \/ RotateNephew(s) \/ RotateParent(s)
    PROVE  Ordered!Settle \/ UNCHANGED Ordered!vars
  <1>1. pc \in RedRedLabels \cup BlackBlackLabels /\ UNCHANGED <<value, status, rval>>
    BY DEF RecolourUncle, RotateInner, RotateOuter, RotateGrandparent, RedRedDone, RotateSibling,
           BlackBlackDone, RecolourSibling, RotateNephew, RotateParent, AtNephews, pool,
           RedRedLabels, BlackBlackLabels
  <1>2. StageSeen = Ordered!Settling /\ beside = nil
    BY <1>1, StagesSeen DEF LocalsGone, Ordered!Settling, RedRedLabels, BlackBlackLabels
  <1>3. CASE RedRedDone \/ BlackBlackDone
    <2>1. pc' = "idle" /\ arg' = nil /\ beside' = nil
      BY <1>3 DEF RedRedDone, BlackBlackDone, Return
    <2>2. StageSeen' = Ordered!Idle
      BY <2>1 DEF StageSeen, Ordered!Idle
    <2>3. Ordered!Settle
      BY <1>1, <1>2, <2>2 DEF Ordered!Settle, Detached
    <2> QED BY <2>3
  <1>4. CASE ~(RedRedDone \/ BlackBlackDone)
    <2>1. pc' \in RedRedLabels \cup BlackBlackLabels /\ beside' = beside
      BY <1>4 DEF RecolourUncle, RotateInner, RotateOuter, RotateGrandparent, RotateSibling,
                  RecolourSibling, RotateNephew, RotateParent, AtNephews, pool,
                  RedRedLabels, BlackBlackLabels
    <2>2. StageSeen' = Ordered!Settling
      BY <1>2, <2>1 DEF StageSeen, Ordered!Settling, RedRedLabels, BlackBlackLabels
    <2>3. UNCHANGED Ordered!vars
      BY <1>1, <1>2, <2>2 DEF Ordered!vars, Detached
    <2> QED BY <2>3
  <1> QED BY <1>3, <1>4

LEMMA StepRefines ==
    ASSUME NEW d \in [Ref -> Nat], NEW h \in [Ref -> Nat], InvariantBy(d, h), WayOK, OrderInv,
           LocalsGone, Walked, Walked', [Next]_vars
    PROVE  [Ordered!Next]_(Ordered!vars)
  <1>1. TypeOK
    BY DEF InvariantBy
  <1>2. ~Attach /\ ~Unlink => InOrder' = InOrder
    BY OthersKeepInOrder, TurnsKeepInOrder DEF Relinking
  <1>3. CASE Attach \/ Unlink
    <2>1. Ordered!TakeEffect
      BY <1>3, AttachInserts, UnlinkRemoves
    <2> QED BY <2>1 DEF Ordered!Next, Ordered!Answer
  <1> SUFFICES ASSUME ~Attach, ~Unlink PROVE [Ordered!Next]_(Ordered!vars)
    BY <1>3
  <1>4. InOrder' = InOrder
    BY <1>2
  <1>5. CASE NodeCall
    BY <1>1, <1>4, <1>5, NodeCallsRequest
  <1>6. CASE RefuseDuplicate
    <2>1. Ordered!Refuse
      BY <1>4, <1>6, RefusalAnswers
    <2> QED BY <2>1 DEF Ordered!Next, Ordered!Answer
  <1>7. CASE UNCHANGED vars \/ WalkDirty \/ Descend \/ Slide \/ Successor
    <2>1. UNCHANGED <<value, status, rval, pc, arg, beside>>
      BY <1>7 DEF vars, WalkDirty, Descend, Slide, Successor, pool, stack
    <2>2. UNCHANGED Ordered!vars
      BY <1>4, <2>1 DEF Ordered!vars, StageSeen, Detached
    <2> QED BY <2>2
  <1>8. CASE \/ RecolourUncle \/ RotateInner \/ RotateOuter \/ RedRedDone
             \/ RotateSibling \/ BlackBlackDone
             \/ \E s \in Side : RecolourSibling(s) \/ RotateNephew(s) \/ RotateParent(s)
    <2>1. Ordered!Settle \/ UNCHANGED Ordered!vars
      BY <1>4, <1>8, FixupSettles
    <2> QED BY <2>1 DEF Ordered!Next, Ordered!Answer
  <1> QED BY <1>5, <1>6, <1>7, <1>8 DEF Next, Continue

LEMMA InitRefines == Init => Ordered!Init /\ LocalsGone
  <1> SUFFICES ASSUME Init PROVE Ordered!Init /\ LocalsGone
    OBVIOUS
  <1>1. IInv
    BY InitInvariant
  <1>2. InOrder = <<>>
    <2>1. root = nil
      BY DEF Init
    <2> QED BY <1>1, <2>1, TreeWalked, MembersAre
  <1>3. Detached = {} /\ value = [n \in Node |-> nil] /\ rval = 0
    BY DEF Init, Detached
  <1>4. StageSeen = Ordered!Idle /\ LocalsGone
    BY DEF Init, StageSeen, Ordered!Idle, LocalsGone
  <1> QED BY <1>2, <1>3, <1>4 DEF Ordered!Init

\* The tree implements the sequence: every call puts its node where the order
\* or the caller says, takes out exactly the node it was given, refuses exactly
\* the keys that are there, and no step of a fixup is seen.
THEOREM TreeIsSequence == Spec => ImplementsOrderedNodes
  <1>1. Init => Ordered!Init /\ LocalsGone
    BY InitRefines
  <1>2. IInv /\ IInv' /\ WayOK /\ OrderInv /\ LocalsGone /\ [Next]_vars
           => [Ordered!Next]_(Ordered!vars)
    BY TreeWalked, TreeWalkedAfter, StepRefines DEF IInv
  <1> QED BY <1>1, <1>2, StepLocals, InvariantHolds, WayHolds, OrderHolds, PTL
       DEF Spec, ImplementsOrderedNodes, Ordered!Spec

=============================================================================
