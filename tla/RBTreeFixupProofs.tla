-------------------------- MODULE RBTreeFixupProofs --------------------------
(***************************************************************************)
(* Every step that changes the tree keeps the inductive invariant: the     *)
(* search and attach_node of an insertion, the cases of red_red_fixup, the *)
(* search for the successor, the cases of black_black_fixup, and the cut,  *)
(* whether of the node to remove itself or of its successor, which then    *)
(* takes its place.                                                        *)
(***************************************************************************)
EXTENDS RBTreeProofs, WellFoundedInduction

USE NilAssumption DEF Side, Ref, Color

-----------------------------------------------------------------------------
(* Insertion: the search, attach_node and the cases of red_red_fixup.      *)

\* The family above a red node with a red parent: the grandparent is there,
\* because the root is black, and black.
LEMMA RedRedKin ==
    ASSUME NEW d \in [Ref -> Nat], NEW h, InvariantBy(d, h), pc = "redred", RedRedAgain
    PROVE  LET p == parent[x]
               g == parent[p]
           IN  /\ x \in Linked /\ color[x] = "red"
               /\ p \in Linked /\ color[p] = "red" /\ p # nil
               /\ g \in Linked /\ color[g] = "black" /\ g # nil
               /\ p # root /\ p # x
               /\ Half \in Side /\ Other(Half) \in Side /\ Other(Half) # Half
               /\ Half = SlotOf(child, g, p) /\ child[g][Half] = p
               /\ IsInner <=> x = child[p][Other(Half)]
               /\ ~IsInner => child[p][Half] = x
               /\ Uncle = child[g][Other(Half)] /\ Uncle # p
  <1> DEFINE p == parent[x]
             g == parent[p]
  <1>1. TypeOK /\ LinksOK /\ NoRedRed /\ RedRedPlace
    BY DEF InvariantBy, PlaceOK
  <1>2. x \in Linked /\ color[x] = "red" /\ x # root /\ color[p] = "red"
    BY <1>1 DEF RedRedPlace, RedRedLabels, RedRedAgain
  <1>3. p \in Linked /\ p # nil /\ \E s \in Side : child[p][s] = x
    BY <1>1, <1>2 DEF LinksOK, Linked
  <1>4. p # x
    <2>1. d[p] < d[x] /\ d[p] \in Nat
      BY <1>2, <1>3 DEF InvariantBy, Descending, Linked
    <2> QED BY <2>1
  <1>5. p # root
    BY <1>1, <1>2, <1>4 DEF NoRedRed
  <1>6. g \in Linked /\ g # nil /\ \E s \in Side : child[g][s] = p
    BY <1>1, <1>3, <1>5 DEF LinksOK, Linked
  <1>7. color[g] = "black"
    BY <1>1, <1>2, <1>3, <1>4, <1>6 DEF NoRedRed, TypeOK, Linked, RedRedLabels
  <1>8. Half \in Side /\ Other(Half) \in Side /\ Other(Half) # Half
    BY SlotSides DEF Half
  <1>9. Half = SlotOf(child, g, p) /\ child[g][Half] = p
    BY <1>6 DEF Half, SlotOf
  <1>10. Uncle = child[g][Other(Half)] /\ Uncle # p
    BY <1>1, <1>3, <1>6, <1>8, <1>9 DEF Uncle, LinksOK
  <1>11. /\ IsInner <=> x = child[p][Other(Half)]
         /\ ~IsInner => child[p][Half] = x
    BY <1>3, <1>8 DEF IsInner
  <1> QED
    BY <1>2, <1>3, <1>4, <1>5, <1>6, <1>7, <1>8, <1>9, <1>10, <1>11

\* Case 2: x is straightened out under its grandparent.
LEMMA InnerStep ==
    ASSUME TypeOK', NEW d \in [Ref -> Nat], NEW h \in [Ref -> Nat], InvariantBy(d, h),
           RotateInner
    PROVE  IInv'
  <1> DEFINE p == parent[x]
             s == Half
  <1>1. /\ TypeOK /\ LinksOK /\ SentinelIntact /\ DetachedPristine /\ NoRedRed
        /\ RedRedPlace /\ RotationsSpent /\ Descending(d) /\ Balanced(h)
    BY DEF InvariantBy, PlaceOK
  <1>2. /\ pc = "redred" /\ RedRedAgain /\ color[Uncle] = "black" /\ IsInner
        /\ Rotate(s, p)
        /\ x' = p /\ pc' = "redred_outer" /\ side' = s
        /\ color' = color /\ status' = status
    BY DEF RotateInner, pool
  <1>3. /\ x \in Linked /\ color[x] = "red"
        /\ p \in Linked /\ color[p] = "red" /\ p # nil
        /\ parent[p] \in Linked /\ color[parent[p]] = "black" /\ parent[p] # nil
        /\ p # root /\ p # x
        /\ s \in Side /\ Other(s) \in Side /\ Other(s) # s
        /\ s = SlotOf(child, parent[p], p)
        /\ x = child[p][Other(s)]
        /\ Uncle = child[parent[p]][Other(s)] /\ Uncle # p
    BY <1>2, RedRedKin
  <1>4. Linked \subseteq Node
    BY DEF Linked
  <1>5. Rotatable(d, s, p)
    BY <1>1, <1>3, <1>4 DEF Rotatable, Descending
  <1> HIDE DEF p, s
  <1>6. /\ TurnedLinks(s, p)
        /\ LinksOK' /\ SentinelIntact' /\ DetachedPristine' /\ Linked' = Linked
        /\ \E e \in [Ref -> Nat] : \A n \in Linked', r \in Side :
              child'[n][r] # nil => e[n] < e[child'[n][r]]
    BY <1>1, <1>2, <1>3, <1>5, Rotated
  <1>7. PICK o, t, b, g, k : Around(s, p, o, t, b, g, k)
    BY <1>1, <1>3, <1>5, <1>6, RotatedAround
  <1>8. t = x /\ k = s /\ g = parent[p] /\ o = Other(s)
    BY <1>3, <1>7 DEF Around
  <1>9. \A n \in Linked, r \in Side : h[n] = h[child[n][r]] + Ink(child[n][r])
    BY <1>1, <1>2, PlainBalance DEF PlainlyBalanced, BlackBlackLabels
  <1>10. Ink(x) = 0 /\ Ink(p) = 0
    BY <1>3 DEF Ink
  <1>11. h[p] = h[x] /\ h[x] = h[b] + Ink(b) /\ h[g] = h[p] + Ink(p) /\ h[p] \in Nat
    <2>1. /\ x = child[p][o] /\ b = child[x][s] /\ o \in Side /\ k \in Side
          /\ g \in Linked /\ child[g][k] = p
      BY <1>3, <1>7, <1>8 DEF Around
    <2>2. h[p] = h[x] + Ink(x) /\ h[x] = h[b] + Ink(b) /\ h[g] = h[p] + Ink(p)
      BY <1>3, <1>9, <2>1
    <2>3. h[p] \in Nat /\ h[x] \in Nat
      BY <1>3, <1>4
    <2> QED BY <1>10, <2>2, <2>3
  <1>12. Balanced(h)'
    <2>0. child'[p][o] = b /\ child'[t][s] = p /\ child'[g][k] = x
      BY <1>3, <1>7, <1>8 DEF Around
    <2>1. ASSUME NEW n \in Linked, NEW r \in Side
          PROVE  h[n] = h[child'[n][r]] + Ink(child'[n][r])
      <3>1. CASE n = p /\ r = o
        BY <1>11, <2>0, <3>1
      <3>2. CASE n = t /\ r = s
        BY <1>8, <1>10, <1>11, <2>0, <3>2
      <3>3. CASE n = g /\ r = k
        BY <1>10, <1>11, <2>0, <3>3
      <3>4. CASE child'[n][r] = child[n][r]
        BY <1>9, <3>4
      <3> QED BY <1>1, <1>3, <1>7, <3>1, <3>2, <3>3, <3>4, OtherLinks
    <2>2. \A n : Ink(n)' = Ink(n)
      BY <1>2 DEF Ink
    <2>3. (pc \notin BlackBlackLabels)'
      BY <1>2 DEF BlackBlackLabels
    <2>4. \A n, r : Weight(n, r)' = Ink(child'[n][r])
      BY <1>2, <2>3 DEF Weight, Lacks, Ink
    <2> QED BY <1>1, <1>6, <2>1, <2>4 DEF Balanced
  <1>13. NoRedRed'
    <2>1. color[b] = "black"
      <3>1. b \in Ref /\ (b # nil => b \in Linked /\ parent[b] = x /\ b # x)
        BY <1>7, <1>8 DEF Around
      <3>2. b # nil => color[b] # "red"
        BY <1>1, <1>2, <1>3, <1>4, <3>1 DEF NoRedRed
      <3> QED BY <1>1, <3>1, <3>2 DEF SentinelIntact, TypeOK
    <2>2. ASSUME NEW n \in Linked, color[n] = "red", parent'[n] # nil,
                 color[parent'[n]] = "red"
          PROVE  n = p
      <3>1. CASE n = t
        BY <1>3, <1>7, <1>8, <2>2, <3>1 DEF Around
      <3>2. CASE n = b
        BY <2>1, <2>2, <3>2
      <3>3. CASE n # p /\ n # t /\ n # b
        BY <1>1, <1>2, <1>4, <1>7, <1>8, <2>2, <3>3 DEF Around, NoRedRed
      <3> QED BY <3>1, <3>2, <3>3
    <2>3. color[root'] # "red"
      BY <1>1, <1>2, <1>3, <1>7, <1>8 DEF Around, NoRedRed, RedRedAgain
    <2> QED BY <1>2, <1>6, <2>2, <2>3 DEF NoRedRed, RedRedLabels
  <1>14. PlaceOK'
    <2>1. RedRedPlace'
      <3>1. parent'[p] = x /\ parent'[x] = g /\ child'[x][s] = p /\ child'[g][s] = x
        BY <1>3, <1>7, <1>8 DEF Around
      <3>2. child'[g][Other(s)] = Uncle
        BY <1>3, <1>7, <1>8 DEF Around
      <3> QED BY <1>2, <1>3, <1>4, <1>6, <1>8, <3>1, <3>2 DEF RedRedPlace
    <2> QED BY <1>2, <2>1 DEF PlaceOK, SearchPlace, SuccessorPlace, BlackBlackPlace,
                              BlackBlackLabels
  <1>15. RotationsSpent'
    BY <1>1, <1>2 DEF RotationsSpent, Rotate, RedRedLabels
  <1> QED
    BY <1>2, <1>6, <1>12, <1>13, <1>14, <1>15, InvariantAfter DEF Repaired

\* x, its parent and its grandparent g stand in a row on side s: what case 3
\* finds, with case 2 before it or without.
InARow(s) ==
    LET p == parent[x]
        g == parent[p]
    IN  /\ pc \in RedRedLabels
        /\ x \in Linked /\ color[x] = "red" /\ x # root
        /\ p \in Linked /\ color[p] = "red" /\ child[p][s] = x
        /\ g \in Linked /\ color[g] = "black" /\ child[g][s] = p
        /\ color[child[g][Other(s)]] = "black"
        /\ rotations <= 1

LEMMA OuterInARow ==
    ASSUME NEW d \in [Ref -> Nat], NEW h, InvariantBy(d, h), RotateOuter
    PROVE  \E s \in Side : InARow(s) /\ RotateGrandparent(s)
  <1>1. CASE pc = "redred"
    <2>1. RedRedAgain /\ color[Uncle] = "black" /\ ~IsInner /\ RotateGrandparent(Half)
      BY <1>1 DEF RotateOuter
    <2>2. rotations = 0
      BY <1>1, <2>1 DEF InvariantBy, RotationsSpent
    <2>3. InARow(Half)
      BY <1>1, <2>1, <2>2, RedRedKin DEF InARow, RedRedLabels, RedRedAgain
    <2>4. Half \in Side
      BY <1>1, <2>1, RedRedKin
    <2> QED BY <2>1, <2>3, <2>4
  <1>2. CASE pc = "redred_outer"
    <2> DEFINE p == parent[x]
               g == parent[p]
    <2>1. TypeOK /\ LinksOK /\ NoRedRed /\ RedRedPlace /\ rotations = 1
      BY <1>2 DEF InvariantBy, PlaceOK, RotationsSpent
    <2>2. /\ x \in Linked /\ color[x] = "red"
          /\ p # nil /\ g # nil /\ color[p] = "red"
          /\ child[p][side] = x /\ child[g][side] = p
          /\ color[child[g][Other(side)]] = "black"
          /\ side \in Side
      BY <1>2, <2>1 DEF RedRedPlace, RedRedLabels, TypeOK
    <2>3. p \in Linked /\ x # root
      BY <2>1, <2>2 DEF LinksOK
    <2>4. g \in Linked
      BY <2>1, <2>2, <2>3 DEF LinksOK
    <2>5. p # x
      <3>1. d[p] < d[x] /\ d[p] \in Nat
        BY <2>2, <2>3 DEF InvariantBy, Descending, Linked
      <3> QED BY <3>1
    <2>6. color[g] = "black"
      BY <1>2, <2>1, <2>2, <2>3, <2>4, <2>5 DEF NoRedRed, TypeOK, Linked
    <2> QED
      BY <1>2, <2>1, <2>2, <2>3, <2>4, <2>6 DEF RotateOuter, InARow, RedRedLabels
  <1> QED BY <1>1, <1>2 DEF RotateOuter

\* Case 3: the grandparent goes down, red, on the other side.
LEMMA OuterStep ==
    ASSUME TypeOK', NEW d \in [Ref -> Nat], NEW h \in [Ref -> Nat], InvariantBy(d, h),
           RotateOuter
    PROVE  IInv'
  <1>1. /\ TypeOK /\ LinksOK /\ SentinelIntact /\ DetachedPristine /\ NoRedRed
        /\ Descending(d) /\ Balanced(h)
    BY DEF InvariantBy
  <1>2. PICK c \in Side : InARow(c) /\ RotateGrandparent(c)
    BY OuterInARow
  <1> DEFINE q == parent[x]
             p == parent[q]
             s == Other(c)
             u == child[p][s]
  <1>3. /\ pc \in RedRedLabels /\ rotations <= 1
        /\ x \in Linked /\ color[x] = "red" /\ x # root
        /\ q \in Linked /\ color[q] = "red" /\ child[q][c] = x
        /\ p \in Linked /\ color[p] = "black" /\ child[p][c] = q
        /\ color[u] = "black"
        /\ q = parent[x] /\ p = parent[q] /\ u = child[p][s]
    BY <1>2 DEF InARow
  <1>4. /\ color' = [color EXCEPT ![q] = "black", ![p] = "red"]
        /\ x' = p /\ pc' = "redred"
        /\ Rotate(s, p)
        /\ status' = status
    BY <1>2 DEF RotateGrandparent, pool
  <1>5. Linked \subseteq Node /\ Linked \subseteq Ref /\ color \in [Ref -> Color]
    BY <1>1 DEF Linked, TypeOK
  <1>6. s \in Side /\ Other(s) = c /\ s # c
    BY DEF Other
  <1>7. Rotatable(d, s, p)
    BY <1>1, <1>3, <1>5, <1>6 DEF Rotatable, Descending
  <1> HIDE DEF q, p, s, u
  <1>8. /\ TurnedLinks(s, p)
        /\ LinksOK' /\ SentinelIntact' /\ DetachedPristine' /\ Linked' = Linked
        /\ \E e \in [Ref -> Nat] : \A n \in Linked', r \in Side :
              child'[n][r] # nil => e[n] < e[child'[n][r]]
    <2>1. \A n \in Ref : n \notin Linked => color'[n] = color[n]
      BY <1>3, <1>4, <1>5
    <2> QED BY <1>1, <1>3, <1>4, <1>5, <1>6, <1>7, <2>1, Rotated
  <1>9. PICK o, t, b, g, k : Around(s, p, o, t, b, g, k)
    BY <1>1, <1>6, <1>7, <1>8, RotatedAround
  <1>10. t = q /\ g = parent[p] /\ o = c /\ child[q][s] = b /\ b # x /\ child'[p][s] = u
    <2>1. t = q /\ g = parent[p] /\ o = c /\ child[q][s] = b /\ child'[p][s] = u
      BY <1>3, <1>6, <1>9 DEF Around
    <2>2. child[q][s] # child[q][c]
      BY <1>1, <1>3, <1>5, <1>6 DEF LinksOK
    <2> QED BY <1>3, <2>1, <2>2
  <1>11. p # q /\ p # x /\ q # x
    BY <1>3, <1>9, <1>10 DEF Around
  <1>12. /\ color'[q] = "black" /\ color'[p] = "red"
         /\ \A n \in Ref : n # q /\ n # p => color'[n] = color[n]
    BY <1>3, <1>4, <1>5, <1>11
  <1>13. color[b] = "black" /\ b # p /\ b # q
    <2>1. b \in Ref /\ b # p /\ b # q /\ (b # nil => b \in Linked /\ parent[b] = q)
      BY <1>9, <1>10 DEF Around
    <2>2. b # nil => color[b] # "red"
      BY <1>1, <1>3, <1>5, <1>10, <1>11, <2>1 DEF NoRedRed, RedRedLabels
    <2> QED BY <1>1, <1>5, <2>1, <2>2 DEF SentinelIntact
  <1>14. u # p /\ u # q
    <2>1. u # nil => parent[u] = p /\ u # child[p][c]
      BY <1>1, <1>3, <1>6 DEF LinksOK
    <2>2. parent[p] # p /\ p # nil /\ q # nil
      BY <1>9, <1>10 DEF Around
    <2> QED BY <1>3, <2>1, <2>2
  <1>15. \A n \in Linked, r \in Side : h[n] = h[child[n][r]] + Ink(child[n][r])
    BY <1>1, <1>3, PlainBalance DEF PlainlyBalanced, BlackBlackLabels, RedRedLabels
  <1>16. Balanced(h)'
    <2> DEFINE Inked(n) == IF color'[n] = "black" THEN 1 ELSE 0
    <2>1. /\ Ink(q) = 0 /\ Ink(b) = 1 /\ Ink(u) = 1 /\ Ink(p) = 1
          /\ Inked(p) = 0 /\ Inked(q) = 1 /\ Inked(b) = 1 /\ Inked(u) = 1
          /\ \A n \in Ref : n # q /\ n # p => Inked(n) = Ink(n)
      <3>1. b \in Ref /\ u \in Ref
        <4>1. b \in Ref
          BY <1>9 DEF Around
        <4>2. u \in Ref
          BY <1>1, <1>3, <1>5, <1>6 DEF TypeOK
        <4> QED BY <4>1, <4>2
      <3> QED BY <1>3, <1>12, <1>13, <1>14, <3>1 DEF Ink
    <2>2. h[p] = h[q] /\ h[p] = h[u] + 1 /\ h[q] = h[b] + 1
      <3>1. h[p] = h[q] + Ink(q) /\ h[p] = h[u] + Ink(u) /\ h[q] = h[b] + Ink(b)
        BY <1>3, <1>6, <1>10, <1>15
      <3> QED BY <1>3, <1>5, <2>1, <3>1
    <2>3. ASSUME NEW n \in Linked, NEW r \in Side
          PROVE  h[n] = h[child'[n][r]] + Inked(child'[n][r])
      <3> HIDE DEF Inked
      <3>1. CASE n = p /\ r = o
        BY <1>9, <2>1, <2>2, <3>1 DEF Around
      <3>2. CASE n = t /\ r = s
        <4>1. child'[n][r] = p /\ n = q
          BY <1>9, <1>10, <3>2 DEF Around
        <4>2. h[p] \in Nat
          BY <1>3, <1>5
        <4>3. Inked(p) = 0 /\ h[q] = h[p]
          BY <2>1, <2>2
        <4> QED BY <4>1, <4>2, <4>3
      <3>3. CASE n = g /\ r = k
        <4>0. g \in Linked /\ k \in Side /\ g # nil /\ t = q
          <5>1. g \in Linked /\ t = q
            BY <1>10, <3>3
          <5>2. k \in Side
            BY <1>9 DEF Around
          <5> QED BY <1>5, <5>1, <5>2
        <4>1. h[g] = h[p] + Ink(p)
          <5>1. child[g][k] = p
            BY <1>9, <4>0 DEF Around
          <5> QED BY <1>15, <4>0, <5>1
        <4>2. child'[n][r] = q
          BY <1>9, <3>3, <4>0 DEF Around
        <4> QED BY <2>1, <2>2, <3>3, <4>1, <4>2
      <3>4. CASE /\ child'[n][r] = child[n][r]
                 /\ child[n][r] # p /\ child[n][r] # t
        <4>1. child[n][r] \in Ref
          BY <1>1, <1>5 DEF TypeOK
        <4> QED BY <1>10, <1>15, <2>1, <3>4, <4>1
      <3> QED BY <1>1, <1>6, <1>9, <3>1, <3>2, <3>3, <3>4, OtherLinks
    <2>4. \A n, r : Weight(n, r)' = Inked(child'[n][r])
      BY <1>4 DEF Weight, Lacks, BlackBlackLabels
    <2> QED BY <1>1, <1>8, <2>3, <2>4 DEF Balanced
  <1>17. NoRedRed'
    <2>1. ASSUME NEW n \in Linked, color'[n] = "red", parent'[n] # nil,
                 color'[parent'[n]] = "red"
          PROVE  FALSE
      <3>1. CASE n = p
        BY <1>9, <1>10, <1>12, <2>1, <3>1 DEF Around
      <3>2. CASE n = b
        BY <1>9, <1>12, <1>13, <2>1, <3>2 DEF Around
      <3>3. CASE n # p /\ n # q /\ n # b
        <4>1. parent'[n] = parent[n] /\ color[n] = "red" /\ n # nil
          BY <1>5, <1>9, <1>10, <1>12, <2>1, <3>3 DEF Around
        <4>2. CASE parent[n] = p
          <5>1. n = child[p][c] \/ n = child[p][s]
            BY <1>1, <1>3, <1>5, <1>6, <4>1, <4>2 DEF LinksOK
          <5> QED BY <1>3, <3>3, <4>1, <5>1
        <4>3. CASE parent[n] # p
          <5>1. color[parent[n]] = "red" /\ parent[n] # q
            BY <1>1, <1>5, <1>12, <2>1, <4>1, <4>3 DEF TypeOK
          <5>2. n = x
            BY <1>1, <1>3, <2>1, <4>1, <5>1 DEF NoRedRed, RedRedLabels
          <5> QED BY <1>3, <5>1, <5>2
        <4> QED BY <4>2, <4>3
      <3> QED BY <1>12, <2>1, <3>1, <3>2, <3>3
    <2>2. color'[root'] # "red"
      <3>1. CASE g = nil
        BY <1>9, <1>10, <1>12, <3>1 DEF Around
      <3>2. CASE g # nil
        <4>1. root' = root /\ root # p /\ root # q
          BY <1>1, <1>3, <1>5, <1>9, <1>10, <3>2 DEF Around, LinksOK
        <4>2. color[root] # "red"
          BY <1>1, <1>3 DEF NoRedRed
        <4> QED BY <1>1, <1>12, <4>1, <4>2 DEF TypeOK
      <3> QED BY <3>1, <3>2
    <2> QED BY <1>8, <2>1, <2>2 DEF NoRedRed
  <1>18. PlaceOK'
    BY <1>3, <1>4, <1>8, <1>12 DEF PlaceOK, SearchPlace, RedRedPlace, SuccessorPlace,
                                   BlackBlackPlace, BlackBlackLabels
  <1>19. RotationsSpent'
    <2>1. ~RedRedAgain'
      BY <1>4, <1>9, <1>10, <1>12 DEF Around, RedRedAgain
    <2>2. rotations' = rotations + 1 /\ rotations' \in Nat
      BY <1>4 DEF Rotate, TypeOK
    <2>3. rotations' <= 2
      BY <1>1, <1>3, <2>2 DEF TypeOK
    <2> QED BY <1>4, <2>1, <2>3 DEF RotationsSpent, RedRedLabels, BlackBlackLabels
  <1> QED
    BY <1>4, <1>8, <1>16, <1>17, <1>18, <1>19, InvariantAfter DEF Repaired

\* Case 1: the grandparent turns red and gains one black on every path down.
LEMMA UncleStep ==
    ASSUME TypeOK', NEW d \in [Ref -> Nat], NEW h \in [Ref -> Nat], InvariantBy(d, h),
           RecolourUncle
    PROVE  IInv'
  <1> DEFINE p == parent[x]
             g == parent[p]
             s == Half
             u == child[g][Other(s)]
  <1>1. TypeOK /\ LinksOK /\ SentinelIntact /\ NoRedRed /\ RotationsSpent /\ Balanced(h)
    BY DEF InvariantBy
  <1>2. pc = "redred" /\ RedRedAgain
    BY DEF RecolourUncle
  <1>3. /\ x \in Linked /\ color[x] = "red"
        /\ p \in Linked /\ color[p] = "red"
        /\ g \in Linked /\ color[g] = "black"
        /\ s \in Side /\ Other(s) \in Side /\ Other(s) # s
        /\ child[g][s] = p
        /\ p = parent[x] /\ g = parent[p] /\ u = child[g][Other(s)] /\ u # p
    BY <1>2, RedRedKin
  <1>4. /\ color[u] = "red"
        /\ color' = [color EXCEPT ![p] = "black", ![g] = "red", ![u] = "black"]
        /\ x' = g /\ pc' = "redred" /\ rotations' = rotations
        /\ root' = root /\ parent' = parent /\ child' = child /\ status' = status
    BY <1>2, RedRedKin DEF RecolourUncle, pool
  <1>5. Linked \subseteq Node /\ Linked \subseteq Ref /\ color \in [Ref -> Color]
    BY <1>1 DEF Linked, TypeOK
  <1> HIDE DEF p, g, s, u
  <1>6. PICK j \in [Ref -> Nat] : j[g] = h[g] + 1 /\ \A n \in Ref : n # g => j[n] = h[n]
    <2>1. [h EXCEPT ![g] = @ + 1] \in [Ref -> Nat]
      BY <1>3, <1>5
    <2> QED BY <1>3, <1>5, <2>1
  <1>7. u \in Linked /\ parent[u] = g
    BY <1>1, <1>3, <1>4 DEF LinksOK, SentinelIntact
  <1>8. /\ color'[p] = "black" /\ color'[g] = "red" /\ color'[u] = "black"
        /\ \A n \in Ref : n # p /\ n # g /\ n # u => color'[n] = color[n]
    BY <1>3, <1>4, <1>5, <1>7
  <1>9. Linked' = Linked
    BY <1>4 DEF Linked
  <1>10. Balanced(j)'
    <2>1. \A n \in Linked, r \in Side : h[n] = h[child[n][r]] + Ink(child[n][r])
      BY <1>1, <1>2, PlainBalance DEF PlainlyBalanced, BlackBlackLabels
    <2> DEFINE Inked(n) == IF color'[n] = "black" THEN 1 ELSE 0
    <2>2. /\ Ink(p) = 0 /\ Ink(u) = 0 /\ Ink(g) = 1
          /\ Inked(p) = 1 /\ Inked(u) = 1 /\ Inked(g) = 0
      BY <1>3, <1>4, <1>8 DEF Ink
    <2>3. \A n \in Ref : n # p /\ n # g /\ n # u => Inked(n) = Ink(n)
      BY <1>8 DEF Ink
    <2>4. ASSUME NEW n \in Linked, NEW r \in Side
          PROVE  j[n] = j[child[n][r]] + Inked(child[n][r])
      <3> DEFINE m == child[n][r]
      <3>1. /\ m \in Ref /\ (m # nil => m \in Linked /\ parent[m] = n)
            /\ h[n] = h[m] + Ink(m) /\ n \in Ref
        BY <1>1, <1>5, <2>1 DEF LinksOK, TypeOK
      <3>2. n = g => m = p \/ m = u
        BY <1>3
      <3>3. m # nil /\ parent[m] = n
              => (m = p => n = g) /\ (m = u => n = g) /\ (m = g => n # g)
        <4>1. parent[g] # g
          <5>1. parent[g] # nil => d[parent[g]] < d[g] /\ d[g] \in Nat
            BY <1>1, <1>3, <1>5 DEF InvariantBy, Descending, LinksOK
          <5> QED BY <1>3, <1>5, <5>1
        <4> QED BY <1>3, <1>7, <4>1
      <3> HIDE DEF m, Inked
      <3>4. CASE m = p
        <4>1. n = g /\ p # g /\ p \in Ref
          BY <1>3, <1>5, <3>1, <3>3, <3>4
        <4>2. h[g] = h[p] /\ h[p] \in Nat
          BY <2>2, <3>1, <3>4, <4>1
        <4> QED BY <1>6, <2>2, <3>4, <4>1, <4>2 DEF m
      <3>5. CASE m = u
        <4>1. n = g /\ u # g /\ u \in Ref
          BY <1>3, <1>4, <1>5, <1>7, <3>1, <3>3, <3>5
        <4>2. h[g] = h[u] /\ h[u] \in Nat
          BY <2>2, <3>1, <3>5, <4>1
        <4> QED BY <1>6, <2>2, <3>5, <4>1, <4>2 DEF m
      <3>6. CASE m = g
        <4>1. n # g /\ g \in Ref
          BY <1>3, <1>5, <3>1, <3>3, <3>6
        <4>2. h[n] = h[g] + 1 /\ h[g] \in Nat
          BY <2>2, <3>1, <3>6, <4>1
        <4> QED BY <1>6, <2>2, <3>1, <3>6, <4>1, <4>2 DEF m
      <3>7. CASE m # p /\ m # u /\ m # g
        BY <1>6, <2>3, <3>1, <3>2, <3>7 DEF m
      <3> QED BY <3>4, <3>5, <3>6, <3>7
    <2>5. \A n, r : Weight(n, r)' = Inked(child[n][r])
      BY <1>4 DEF Weight, Lacks, BlackBlackLabels
    <2>6. j[nil] = 0
      BY <1>1, <1>3, <1>5, <1>6 DEF Balanced
    <2> QED BY <1>4, <1>9, <2>4, <2>5, <2>6 DEF Balanced
  <1>11. NoRedRed'
    <2>1. ASSUME NEW n \in Linked, color'[n] = "red", parent[n] # nil,
                 color'[parent[n]] = "red"
          PROVE  n = g
      <3>1. n # p /\ n # u
        BY <1>8, <2>1
      <3>2. ASSUME n # g PROVE FALSE
        <4>1. color[n] = "red" /\ n # nil /\ n \in Ref
          BY <1>5, <1>8, <2>1, <3>1, <3>2
        <4>2. parent[n] # g
          <5>1. parent[n] = g => n = child[g][s] \/ n = child[g][Other(s)]
            BY <1>1, <1>3, <1>5, <4>1 DEF LinksOK
          <5> QED BY <1>3, <3>1, <5>1
        <4>3. color[parent[n]] = "red" /\ parent[n] # p
          BY <1>1, <1>8, <2>1, <4>1, <4>2 DEF TypeOK
        <4>4. n = x
          BY <1>1, <1>2, <2>1, <4>1, <4>3 DEF NoRedRed
        <4> QED BY <1>3, <4>3, <4>4
      <3> QED BY <3>2
    <2>2. color'[root] = "red" => root = g
      BY <1>1, <1>2, <1>8 DEF NoRedRed, RedRedAgain, TypeOK
    <2> QED BY <1>4, <1>9, <2>1, <2>2 DEF NoRedRed, RedRedLabels
  <1>12. PlaceOK'
    BY <1>3, <1>4, <1>8, <1>9 DEF PlaceOK, SearchPlace, RedRedPlace, SuccessorPlace,
                                  BlackBlackPlace, BlackBlackLabels
  <1>13. RotationsSpent'
    BY <1>1, <1>2, <1>4 DEF RotationsSpent, RedRedLabels, BlackBlackLabels
  <1>14. /\ color'[nil] = "black"
         /\ \A n \in Ref \ {nil} : n \notin Linked => color'[n] = color[n]
    BY <1>1, <1>3, <1>5, <1>7, <1>8 DEF SentinelIntact
  <1> QED
    BY <1>4, <1>6, <1>10, <1>11, <1>12, <1>13, <1>14, Recoloured

\* The root has no parent that would count its black.
LEMMA RootIsNoChild ==
    ASSUME LinksOK, NEW n \in Linked, NEW r \in Side, child[n][r] # nil
    PROVE  child[n][r] # root
  BY DEF LinksOK, Linked

\* The loop ends where no parent is red; the root is blackened.
LEMMA RedRedEnd ==
    ASSUME TypeOK', NEW d \in [Ref -> Nat], NEW h \in [Ref -> Nat], InvariantBy(d, h),
           RedRedDone
    PROVE  IInv'
  <1>1. /\ TypeOK /\ LinksOK /\ SentinelIntact /\ NoRedRed /\ RedRedPlace /\ Balanced(h)
    BY DEF InvariantBy, PlaceOK
  <1>2. /\ pc = "redred" /\ ~RedRedAgain
        /\ color' = [color EXCEPT ![root] = "black"]
        /\ pc' = "idle" /\ rotations' = 0
        /\ root' = root /\ parent' = parent /\ child' = child /\ status' = status
    BY DEF RedRedDone, Return, pool
  <1>3. Linked' = Linked /\ Linked \subseteq Node /\ Linked \subseteq Ref
    BY <1>2 DEF Linked
  <1>4. color'[root] = "black" /\ \A n \in Ref : n # root => color'[n] = color[n]
    BY <1>1, <1>2 DEF TypeOK
  <1>5. Balanced(h)'
    <2>1. \A n \in Linked, r \in Side : h[n] = h[child[n][r]] + Ink(child[n][r])
      BY <1>1, <1>2, PlainBalance DEF PlainlyBalanced, BlackBlackLabels
    <2>2. ASSUME NEW n \in Linked, NEW r \in Side
          PROVE  (color'[child[n][r]] = "black") <=> (color[child[n][r]] = "black")
      <3>1. child[n][r] \in Ref /\ (child[n][r] # nil => child[n][r] # root)
        BY <1>1, <1>3, RootIsNoChild DEF TypeOK
      <3> QED BY <1>1, <1>4, <3>1 DEF SentinelIntact
    <2>3. \A n, r : Weight(n, r)' = IF color'[child[n][r]] = "black" THEN 1 ELSE 0
      BY <1>2 DEF Weight, Lacks, BlackBlackLabels
    <2> QED BY <1>1, <1>2, <1>3, <2>1, <2>2, <2>3 DEF Balanced, Ink
  <1>6. NoRedRed'
    <2>1. ASSUME NEW n \in Linked, color'[n] = "red", parent[n] # nil,
                 color'[parent[n]] = "red"
          PROVE  FALSE
      <3>1. n # root /\ color[n] = "red"
        BY <1>3, <1>4, <2>1
      <3>2. color[parent[n]] = "red"
        BY <1>1, <1>3, <1>4, <2>1 DEF TypeOK
      <3> QED BY <1>1, <1>2, <2>1, <3>1, <3>2 DEF NoRedRed, RedRedAgain
    <2> QED BY <1>2, <1>3, <1>4, <2>1 DEF NoRedRed
  <1>7. PlaceOK' /\ RotationsSpent'
    BY <1>2 DEF PlaceOK, SearchPlace, RedRedPlace, SuccessorPlace, BlackBlackPlace,
                RotationsSpent, RedRedLabels, BlackBlackLabels
  <1>8. /\ color'[nil] = "black"
        /\ \A n \in Ref \ {nil} : n \notin Linked => color'[n] = color[n]
    BY <1>1, <1>4 DEF LinksOK, SentinelIntact
  <1> QED
    BY <1>2, <1>5, <1>6, <1>7, <1>8, Recoloured

\* Where attach_node hangs the new node: nowhere, or at a link that is nil.
LEMMA FreePlace ==
    ASSUME NEW d \in [Ref -> Nat], NEW h, InvariantBy(d, h), Attach
    PROVE  /\ arg \in Detached /\ arg \in Node /\ arg \notin Linked
           /\ parent[arg] = nil /\ color[arg] = "red"
           /\ \A s \in Side : child[arg][s] = nil
           /\ x = nil => root = nil
           /\ x # nil => x \in Linked /\ child[x][side] = nil
  <1>1. pc \in {"descend", "before", "after"} /\ y = nil
    BY DEF Attach
  <1>2. arg \in Detached
    BY <1>1 DEF InvariantBy, TypeOK
  <1>3. SearchPlace /\ IsPristine(arg)
    BY <1>2 DEF InvariantBy, PlaceOK, DetachedPristine
  <1> QED
    BY <1>1, <1>2, <1>3 DEF SearchPlace, IsPristine, Detached, Linked

LEMMA AttachStep ==
    ASSUME TypeOK', NEW d \in [Ref -> Nat], NEW h \in [Ref -> Nat], InvariantBy(d, h),
           Attach
    PROVE  IInv'
  <1> DEFINE p == x
             n0 == arg
  <1>1. /\ TypeOK /\ LinksOK /\ SentinelIntact /\ DetachedPristine /\ NoRedRed
        /\ RotationsSpent /\ Descending(d) /\ Balanced(h)
        /\ pc \in {"descend", "before", "after"}
    BY DEF InvariantBy, Attach
  <1>2. /\ n0 \in Detached /\ n0 \in Node /\ n0 \notin Linked
        /\ parent[n0] = nil /\ color[n0] = "red"
        /\ \A s \in Side : child[n0][s] = nil
        /\ p = nil => root = nil
        /\ p # nil => p \in Linked /\ child[p][side] = nil
        /\ p \in Ref /\ side \in Side
    BY <1>1, FreePlace DEF TypeOK
  <1>3. /\ parent' = [parent EXCEPT ![n0] = p]
        /\ status' = [status EXCEPT ![n0] = "linked"]
        /\ p = nil => /\ root' = n0 /\ child' = child
                      /\ color' = [color EXCEPT ![n0] = "black"]
        /\ p # nil => /\ root' = root /\ color' = color
                      /\ child' = [child EXCEPT ![p][side] = n0]
        /\ IF p # nil /\ color[p] = "red" THEN pc' = "redred" /\ x' = n0 ELSE pc' = "idle"
    BY DEF Attach, NeedsRecolour, Return
  <1>4. rotations' = 0
    <2>1. rotations = 0
      BY <1>1 DEF RotationsSpent, RedRedLabels, BlackBlackLabels
    <2> QED BY <2>1 DEF Attach, Return
  <1> HIDE DEF p, n0
  <1>5. Linked' = Linked \cup {n0} /\ Linked \subseteq Node /\ Linked \subseteq Ref
        /\ Detached' = Detached \ {n0}
    BY <1>1, <1>2, <1>3 DEF Linked, Detached, TypeOK
  <1>6. /\ parent'[n0] = p /\ \A n \in Ref : n # n0 => parent'[n] = parent[n]
        /\ p # nil => /\ child'[p][side] = n0
                      /\ child'[p][Other(side)] = child[p][Other(side)]
        /\ \A n \in Ref : n # p \/ n = nil => child'[n] = child[n]
        /\ Other(side) \in Side /\ Other(side) # side
        /\ \A r \in Side : r = side \/ r = Other(side)
    <2>1. Other(side) \in Side /\ Other(side) # side /\ \A r \in Side : r = side \/ r = Other(side)
      BY <1>2 DEF Other
    <2>2. child \in [Ref -> [Side -> Ref]] /\ parent \in [Ref -> Ref]
      BY <1>1 DEF TypeOK
    <2> QED BY <1>2, <1>3, <2>1, <2>2
  <1>7. \A n \in Linked, r \in Side :
           child[n][r] # nil => child[n][r] \in Linked /\ parent[child[n][r]] = n
    BY <1>1 DEF LinksOK
  <1>8. p # n0 /\ n0 # nil
    BY <1>2
  <1>9. ASSUME NEW n \in Linked', NEW r \in Side
        PROVE  \/ n = n0 /\ child'[n][r] = nil
               \/ n = p /\ p # nil /\ r = side /\ child'[n][r] = n0
               \/ /\ n \in Linked /\ child'[n][r] = child[n][r]
                  /\ n # n0 /\ child[n][r] # n0
    BY <1>2, <1>5, <1>6, <1>7, <1>8
  <1>10. LinksOK'
    <2>1. root' # nil => root' \in Linked' /\ parent'[root'] = nil
      BY <1>1, <1>2, <1>3, <1>5, <1>6, <1>8 DEF LinksOK
    <2>2. ASSUME NEW n \in Linked', NEW r \in Side, child'[n][r] # nil
          PROVE  child'[n][r] \in Linked' /\ parent'[child'[n][r]] = n
      BY <1>5, <1>6, <1>7, <1>9, <2>2
    <2>3. ASSUME NEW n \in Linked'
          PROVE  child'[n]["left"] = child'[n]["right"] => child'[n]["left"] = nil
      <3>1. n \in Linked /\ child[n]["left"] = child[n]["right"] => child[n]["left"] = nil
        BY <1>1 DEF LinksOK
      <3>2. n \in Linked => child[n]["left"] # n0 /\ child[n]["right"] # n0
        BY <1>2, <1>7
      <3> QED BY <1>2, <1>5, <1>6, <1>8, <3>1, <3>2
    <2>4. ASSUME NEW n \in Linked'
          PROVE  IF n = root' THEN parent'[n] = nil
                 ELSE parent'[n] \in Linked' /\ \E r \in Side : child'[parent'[n]][r] = n
      <3>1. CASE n = n0
        BY <1>1, <1>2, <1>3, <1>5, <1>6, <1>8, <3>1 DEF LinksOK
      <3>2. CASE n # n0
        <4>1. n \in Linked /\ n # nil /\ parent'[n] = parent[n]
          BY <1>5, <1>6, <3>2
        <4>2. IF n = root THEN parent[n] = nil
              ELSE parent[n] \in Linked /\ \E r \in Side : child[parent[n]][r] = n
          BY <1>1, <4>1 DEF LinksOK
        <4>3. n = root <=> n = root'
          BY <1>2, <1>3, <3>2, <4>1
        <4>4. ASSUME parent[n] \in Linked, NEW r \in Side, child[parent[n]][r] = n
              PROVE  child'[parent[n]][r] = n
          BY <1>2, <1>5, <1>6, <4>1, <4>4
        <4> QED BY <1>5, <4>1, <4>2, <4>3, <4>4
      <3> QED BY <3>1, <3>2
    <2> QED BY <2>1, <2>2, <2>3, <2>4 DEF LinksOK
  <1>11. SentinelIntact' /\ DetachedPristine'
    <2>1. SentinelIntact'
      BY <1>1, <1>2, <1>3, <1>6, <1>8 DEF SentinelIntact, TypeOK
    <2>2. ASSUME NEW n \in Detached' PROVE IsPristine(n)'
      <3>1. n \in Detached /\ n \in Ref /\ n # n0 /\ n # p
        BY <1>2, <1>5, <2>2 DEF Detached, Linked
      <3>2. IsPristine(n)
        BY <1>1, <3>1 DEF DetachedPristine
      <3>3. child'[n] = child[n] /\ parent'[n] = parent[n] /\ color'[n] = color[n]
        BY <1>1, <1>3, <1>6, <3>1 DEF TypeOK
      <3> QED BY <3>2, <3>3 DEF IsPristine
    <2> QED BY <2>1, <2>2 DEF DetachedPristine
  <1>12. PICK f \in [Ref -> Nat] : /\ f[n0] = d[p] + 1
                                   /\ \A n \in Ref : n # n0 => f[n] = d[n]
    <2>1. [d EXCEPT ![n0] = d[p] + 1] \in [Ref -> Nat]
      BY <1>2
    <2> QED BY <1>2, <2>1
  <1>13. \A n \in Linked', r \in Side : child'[n][r] # nil => f[n] < f[child'[n][r]]
    <2> SUFFICES ASSUME NEW n \in Linked', NEW r \in Side, child'[n][r] # nil
                 PROVE  f[n] < f[child'[n][r]]
      OBVIOUS
    <2>1. CASE n = p /\ p # nil /\ child'[n][r] = n0
      <3>1. f[p] = d[p] /\ d[p] \in Nat
        BY <1>2, <1>8, <1>12
      <3> QED BY <1>12, <2>1, <3>1
    <2>2. CASE n \in Linked /\ child'[n][r] = child[n][r] /\ n # n0 /\ child[n][r] # n0
      <3>1. child[n][r] \in Linked /\ d[n] < d[child[n][r]]
        BY <1>1, <1>7, <2>2 DEF Descending
      <3> QED BY <1>5, <1>12, <2>2, <3>1
    <2> QED BY <1>9, <2>1, <2>2
  <1>14. PICK i \in [Ref -> Nat] : i[n0] = 1 /\ \A n \in Ref : n # n0 => i[n] = h[n]
    <2>1. [h EXCEPT ![n0] = 1] \in [Ref -> Nat]
      BY <1>2
    <2> QED BY <1>2, <2>1
  <1>15. Balanced(i)'
    <2> DEFINE Inked(n) == IF color'[n] = "black" THEN 1 ELSE 0
    <2>1. \A n \in Linked, r \in Side : h[n] = h[child[n][r]] + Ink(child[n][r])
      BY <1>1, PlainBalance DEF PlainlyBalanced, BlackBlackLabels
    <2>2. /\ Inked(nil) = 1 /\ Ink(nil) = 1
          /\ p # nil => Inked(n0) = 0
          /\ \A n \in Ref : n # n0 => Inked(n) = Ink(n)
      BY <1>1, <1>2, <1>3, <1>8 DEF Ink, SentinelIntact, TypeOK
    <2>3. i[nil] = 0 /\ h[nil] = 0
      BY <1>1, <1>8, <1>14 DEF Balanced
    <2>4. ASSUME NEW n \in Linked', NEW r \in Side
          PROVE  i[n] = i[child'[n][r]] + Inked(child'[n][r])
      <3> HIDE DEF Inked
      <3>1. CASE n = n0 /\ child'[n][r] = nil
        BY <1>14, <2>2, <2>3, <3>1
      <3>2. CASE n = p /\ p # nil /\ child'[n][r] = n0
        <4>1. h[p] = h[nil] + Ink(nil)
          BY <1>2, <2>1, <3>2
        <4>2. i[p] = 1
          BY <1>2, <1>8, <1>14, <2>2, <2>3, <4>1
        <4> QED BY <1>14, <2>2, <3>2, <4>2
      <3>3. CASE n \in Linked /\ child'[n][r] = child[n][r] /\ n # n0 /\ child[n][r] # n0
        <4>1. child[n][r] \in Ref /\ n \in Ref
          BY <1>1, <1>2, <1>5, <3>3 DEF TypeOK
        <4> QED BY <1>14, <2>1, <2>2, <3>3, <4>1
      <3> QED BY <1>9, <3>1, <3>2, <3>3
    <2>5. \A n, r : Weight(n, r)' = Inked(child'[n][r])
      BY <1>3 DEF Weight, Lacks, BlackBlackLabels
    <2> QED BY <2>3, <2>4, <2>5 DEF Balanced
  <1>16. NoRedRed'
    <2>1. ASSUME NEW n \in Linked', color'[n] = "red", parent'[n] # nil,
                 color'[parent'[n]] = "red"
          PROVE  n = x' /\ pc' = "redred"
      <3>1. CASE n = n0
        BY <1>1, <1>2, <1>3, <1>6, <1>8, <2>1, <3>1 DEF TypeOK
      <3>2. CASE n # n0
        <4>1. n \in Linked /\ parent'[n] = parent[n] /\ n # nil
          BY <1>5, <1>6, <3>2
        <4>2. parent[n] # n0
          BY <1>1, <1>2, <2>1, <4>1 DEF LinksOK
        <4>3. color[n] = "red" /\ color[parent[n]] = "red"
          BY <1>1, <1>3, <1>5, <2>1, <3>2, <4>1, <4>2 DEF TypeOK
        <4> QED BY <1>1, <2>1, <4>1, <4>3 DEF NoRedRed, RedRedLabels
      <3> QED BY <3>1, <3>2
    <2>2. color'[root'] # "red"
      BY <1>1, <1>2, <1>3 DEF NoRedRed, TypeOK
    <2> QED BY <2>1, <2>2 DEF NoRedRed, RedRedLabels
  <1>17. PlaceOK'
    <2>1. pc' = "redred" => n0 \in Linked' /\ color'[n0] = "red" /\ x' = n0
      BY <1>2, <1>3, <1>5
    <2> QED BY <1>3, <2>1 DEF PlaceOK, SearchPlace, RedRedPlace, SuccessorPlace,
                              BlackBlackPlace, RedRedLabels, BlackBlackLabels
  <1>18. RotationsSpent' /\ pc' # "successor"
    BY <1>3, <1>4 DEF RotationsSpent, RedRedLabels, BlackBlackLabels
  <1> QED
    BY <1>10, <1>11, <1>13, <1>15, <1>16, <1>17, <1>18, InvariantAfter DEF Repaired

-----------------------------------------------------------------------------
(* Removal: the search for the successor and the cases of                  *)
(* black_black_fixup.                                                      *)

\* Every node of L but rt hangs below another one, and d grows downwards.
Rooted(L, rt, par, ch, d) ==
    /\ \A n \in L : n # rt => par[n] \in L /\ \E s \in Side : ch[par[n]][s] = n
    /\ \A n \in L, s \in Side : ch[n][s] # nil => d[n] < d[ch[n][s]]
    /\ L \subseteq Node

\* Parent links cannot go up for ever, so a tree with nodes has a root.
LEMMA RootExists ==
    ASSUME NEW L, NEW rt, NEW par, NEW ch, NEW d \in [Ref -> Nat],
           Rooted(L, rt, par, ch, d), L # {}
    PROVE  rt \in L
  <1> DEFINE S == {d[n] : n \in L}
  <1>1. S \in SUBSET Nat /\ S # {}
    BY DEF Rooted
  <1>2. PICK m \in S : \A k \in S : m <= k
    <2>1. IsWellFoundedOn(OpToRel(<, Nat), Nat)
      BY NatLessThanWellFounded
    <2>2. PICK m \in S : \A k \in S : ~(<<k, m>> \in OpToRel(<, Nat))
      BY <1>1, <2>1, WFMin
    <2>3. \A k \in S : ~(k < m)
      BY <1>1, <2>2 DEF OpToRel
    <2> HIDE DEF S
    <2> QED BY <1>1, <2>3
  <1>3. PICK n \in L : d[n] = m
    BY <1>2
  <1>4. ASSUME n # rt PROVE FALSE
    <2>1. par[n] \in L /\ d[par[n]] < d[n]
      BY <1>3, <1>4 DEF Rooted
    <2>2. m <= d[par[n]] /\ d[par[n]] \in Nat /\ d[n] \in Nat
      BY <1>2, <2>1 DEF Rooted
    <2> QED BY <1>3, <2>1, <2>2
  <1> QED BY <1>3, <1>4

LEMMA RootIsThere ==
    ASSUME NEW d \in [Ref -> Nat], NEW h, InvariantBy(d, h), Linked # {}
    PROVE  root \in Linked
  <1>1. Rooted(Linked, root, parent, child, d)
    BY DEF Rooted, InvariantBy, LinksOK, Descending, Linked
  <1> QED BY <1>1, RootExists

\* x lacks one black on side s of p, and its sibling w makes up for it.
Short(s, p, w, h) ==
    /\ p = parent[x] /\ w = Sibling(s) /\ w = child[p][Other(s)]
    /\ s \in Side /\ Other(s) \in Side /\ Other(s) # s /\ Other(Other(s)) = s
    /\ x \in Linked \cup {nil} /\ x # root /\ color[x] = "black"
    /\ p \in Linked /\ p # nil /\ child[p][s] = x /\ x # p
    /\ w \in Linked /\ w # nil /\ w # x /\ w # p /\ parent[w] = p
    /\ h[p] = h[x] + 2 /\ h[p] = h[w] + Ink(w)
    /\ \A n \in Linked, r \in Side :
          ~(n = p /\ r = s) => h[n] = h[child[n][r]] + Ink(child[n][r])
    /\ \A n \in Linked : color[n] = "red" /\ parent[n] # nil => color[parent[n]] = "black"
    /\ color[root] = "black"
    /\ x # nil => parent[x] = p /\ x \in Linked

LEMMA ShortKin ==
    ASSUME NEW d \in [Ref -> Nat], NEW h \in [Ref -> Nat], InvariantBy(d, h), NEW s \in Side,
           \/ pc = "blackblack" /\ BlackBlackAgain /\ s = XSide
           \/ pc \in {"nephews", "outer"} /\ s = side
    PROVE  \E p, w : Short(s, p, w, h)
  <1> DEFINE p == parent[x]
             w == child[p][Other(s)]
  <1>1. /\ TypeOK /\ LinksOK /\ SentinelIntact /\ NoRedRed /\ BlackBlackPlace
        /\ Descending(d) /\ Balanced(h)
    BY DEF InvariantBy, PlaceOK
  <1>2. pc \in BlackBlackLabels /\ x # root /\ color[x] = "black"
    BY <1>1 DEF BlackBlackPlace, BlackBlackLabels, BlackBlackAgain
  <1>3. Other(s) \in Side /\ Other(s) # s /\ Other(Other(s)) = s
    BY DEF Other
  <1>4. /\ x \in Linked \cup {nil}
        /\ p \in Linked
        /\ \E r \in Side : child[p][r] = x /\ child[p][Other(r)] # x
    BY <1>1, <1>2 DEF BlackBlackPlace
  <1>5. child[p][s] = x /\ w # x
    <2>1. CASE s = XSide
      BY <1>4, <2>1 DEF XSide, SlotOf, Other
    <2>2. CASE pc \in {"nephews", "outer"} /\ s = side
      BY <1>1, <1>4, <2>2 DEF BlackBlackPlace, Other
    <2> QED BY <2>1, <2>2
  <1>6. Linked \subseteq Node
    BY DEF Linked
  <1>7. w \in Ref /\ (w # nil => w \in Linked /\ parent[w] = p)
    BY <1>1, <1>3, <1>4, <1>6 DEF LinksOK, TypeOK
  <1>8. w = Sibling(s)
    BY DEF Sibling
  <1> HIDE DEF p, w
  <1>9. Weight(p, s) = 2 /\ Weight(p, Other(s)) = Ink(w)
    BY <1>2, <1>3, <1>5 DEF Weight, Lacks, Ink, p, w
  <1>10. \A n \in Linked, r \in Side :
            ~(n = p /\ r = s) => Weight(n, r) = Ink(child[n][r])
    <2>1. \A r \in Side : r # s => child[p][r] # x
      BY <1>5 DEF Other, w
    <2> QED BY <2>1 DEF Weight, Lacks, Ink, p
  <1>11. h[p] = h[x] + 2 /\ h[p] = h[w] + Ink(w)
    BY <1>1, <1>3, <1>4, <1>5, <1>9 DEF Balanced, w
  <1>12. w # nil
    <2>1. h[nil] = 0 /\ Ink(nil) = 1 /\ h[x] \in Nat
      BY <1>1, <1>4, <1>6 DEF Balanced, SentinelIntact, Ink
    <2> QED BY <1>11, <2>1
  <1>13. x # p /\ w # p
    <2>1. d[p] < d[w] /\ (x # nil => d[p] < d[x]) /\ d[p] \in Nat
      BY <1>1, <1>3, <1>4, <1>5, <1>6, <1>12 DEF Descending, w
    <2> QED BY <1>4, <1>6, <2>1
  <1>14. /\ \A n \in Linked : color[n] = "red" /\ parent[n] # nil => color[parent[n]] = "black"
         /\ color[root] = "black"
    BY <1>1, <1>2, <1>6 DEF NoRedRed, TypeOK, BlackBlackLabels, RedRedLabels
  <1>15. \A n \in Linked, r \in Side :
           ~(n = p /\ r = s) => h[n] = h[child[n][r]] + Ink(child[n][r])
    BY <1>1, <1>10 DEF Balanced
  <1>16. p = parent[x] /\ w = child[p][Other(s)] /\ p # nil
    BY <1>4, <1>6 DEF p, w
  <1>17. Short(s, p, w, h)
    BY <1>2, <1>3, <1>4, <1>5, <1>7, <1>8, <1>11, <1>12, <1>13, <1>14, <1>15, <1>16 DEF Short
  <1> QED BY <1>17

\* A removal's rotation at p finds the links it needs, and keeps them good.
LEMMA RotatedShort ==
    ASSUME NEW d \in [Ref -> Nat], NEW h, InvariantBy(d, h), NEW s \in Side,
           NEW p \in Linked, child[p][Other(s)] # nil,
           Rotate(s, p), status' = status,
           \A n \in Ref : n \notin Linked => color'[n] = color[n]
    PROVE  /\ LinksOK' /\ SentinelIntact' /\ DetachedPristine' /\ Linked' = Linked
           /\ \E e \in [Ref -> Nat] : \A n \in Linked', r \in Side :
                 child'[n][r] # nil => e[n] < e[child'[n][r]]
           /\ \E o, t, b, g, k : Around(s, p, o, t, b, g, k)
  <1>1. TypeOK /\ LinksOK /\ SentinelIntact /\ DetachedPristine
    BY DEF InvariantBy
  <1>2. Rotatable(d, s, p)
    BY DEF InvariantBy, Rotatable, Descending, Linked
  <1> QED
    BY <1>1, <1>2, Rotated, RotatedAround

\* The sibling is red: the rotation gives x a black one.
LEMMA SiblingStep ==
    ASSUME TypeOK', NEW d \in [Ref -> Nat], NEW h \in [Ref -> Nat], InvariantBy(d, h),
           RotateSibling
    PROVE  IInv'
  <1>1. /\ TypeOK /\ LinksOK /\ SentinelIntact /\ RotationsSpent /\ Balanced(h)
        /\ pc = "blackblack" /\ BlackBlackAgain
    BY DEF InvariantBy, RotateSibling
  <1>2. PICK s \in Side : s = XSide
    BY SlotSides DEF XSide
  <1>3. PICK p, w : Short(s, p, w, h)
    BY <1>1, <1>2, ShortKin
  <1>4. /\ color[w] = "red"
        /\ color' = [color EXCEPT ![w] = "black", ![p] = "red"]
        /\ Rotate(s, p)
        /\ pc' = "nephews" /\ side' = s /\ x' = x
        /\ status' = status
    BY <1>2, <1>3 DEF RotateSibling, pool, Short
  <1>5. Linked \subseteq Node /\ Linked \subseteq Ref /\ color \in [Ref -> Color]
    BY <1>1 DEF Linked, TypeOK
  <1>6. /\ p = parent[x] /\ w = child[p][Other(s)]
        /\ s \in Side /\ Other(s) \in Side /\ Other(s) # s
        /\ x \in Linked \cup {nil} /\ x # root /\ color[x] = "black"
        /\ p \in Linked /\ p # nil /\ child[p][s] = x /\ x # p
        /\ w \in Linked /\ w # nil /\ w # x /\ w # p /\ parent[w] = p
    BY <1>3 DEF Short
  <1>7. /\ h[p] = h[x] + 2 /\ h[p] = h[w] + Ink(w)
        /\ \A n \in Linked, r \in Side :
              ~(n = p /\ r = s) => h[n] = h[child[n][r]] + Ink(child[n][r])
    BY <1>3 DEF Short
  <1>8. /\ \A n \in Linked : color[n] = "red" /\ parent[n] # nil => color[parent[n]] = "black"
        /\ color[root] = "black"
    BY <1>3 DEF Short
  <1>9. color[p] = "black"
    BY <1>4, <1>6, <1>8
  <1>10. /\ color'[w] = "black" /\ color'[p] = "red"
         /\ \A n \in Ref : n # w /\ n # p => color'[n] = color[n]
    BY <1>4, <1>5, <1>6
  <1>11. /\ LinksOK' /\ SentinelIntact' /\ DetachedPristine' /\ Linked' = Linked
         /\ \E e \in [Ref -> Nat] : \A n \in Linked', r \in Side :
               child'[n][r] # nil => e[n] < e[child'[n][r]]
         /\ \E o, t, b, g, k : Around(s, p, o, t, b, g, k)
    <2>1. \A n \in Ref : n \notin Linked => color'[n] = color[n]
      BY <1>6, <1>10
    <2>2. child[p][Other(s)] # nil
      BY <1>6
    <2> QED BY <1>4, <1>6, <2>1, <2>2, RotatedShort
  <1>12. PICK o, t, b, g, k : Around(s, p, o, t, b, g, k)
    BY <1>11
  <1>13. o = Other(s) /\ t = w /\ b = child[w][s] /\ g = parent[p]
    BY <1>6, <1>12 DEF Around
  <1>14. /\ h[w] = h[p] /\ h[w] = h[b] + 1 /\ h[b] = h[x] + 1 /\ b # nil
         /\ color[b] = "black" /\ b # p /\ b # w /\ b \in Linked
    <2>1. Ink(w) = 0 /\ h[w] \in Nat /\ h[x] \in Nat /\ h[nil] = 0
      BY <1>1, <1>4, <1>5, <1>6 DEF Ink, Balanced
    <2>2. h[w] = h[p]
      BY <1>7, <2>1
    <2>3. b \in Ref /\ b # p /\ b # w /\ (b # nil => b \in Linked /\ parent[b] = w)
      BY <1>12, <1>13 DEF Around
    <2>4. color[b] = "black"
      BY <1>1, <1>4, <1>5, <1>6, <1>8, <2>3 DEF SentinelIntact
    <2>5. h[w] = h[b] + Ink(b) /\ Ink(b) = 1 /\ h[b] \in Nat
      BY <1>6, <1>7, <1>13, <2>3, <2>4 DEF Ink
    <2>6. h[b] = h[x] + 1
      BY <1>7, <2>1, <2>2, <2>5
    <2> QED BY <2>1, <2>2, <2>3, <2>4, <2>5, <2>6
  <1>15. parent'[x] = p /\ child'[p][s] = x /\ child'[p][Other(s)] = b /\ b # x
    <2>1. b # x
      BY <1>1, <1>6, <1>12, <1>13, <1>14 DEF Around
    <2>2. x \in Ref /\ (x # b \/ x = nil)
      BY <1>5, <1>6, <2>1
    <2> QED BY <1>6, <1>12, <1>13, <2>1, <2>2 DEF Around
  <1>16. Balanced(h)'
    <2> DEFINE Inked(n) == IF color'[n] = "black" THEN 1 ELSE 0
    <2>1. /\ Ink(w) = 0 /\ Ink(p) = 1
          /\ Inked(w) = 1 /\ Inked(p) = 0 /\ Inked(b) = 1 /\ Inked(x) = 1
      BY <1>4, <1>5, <1>6, <1>9, <1>10, <1>14 DEF Ink
    <2>2. \A n \in Ref : n # w /\ n # p => Inked(n) = Ink(n)
      BY <1>10 DEF Ink
    <2>3. ASSUME NEW n \in Linked, NEW r \in Side
          PROVE  h[n] = h[child'[n][r]] + Inked(child'[n][r])
                           + (IF n = p /\ r = s THEN 1 ELSE 0)
      <3> HIDE DEF Inked
      <3>1. h[n] \in Nat /\ h[p] \in Nat /\ h[b] \in Nat /\ h[x] \in Nat
        BY <1>5, <1>6, <1>14
      <3>2. CASE n = p /\ r = s
        BY <1>7, <1>15, <2>1, <3>1, <3>2
      <3>3. CASE n = p /\ r = o
        <4>1. child'[n][r] = b /\ r # s
          BY <1>6, <1>13, <1>15, <3>3
        <4>2. h[p] = h[b] + 1 /\ Inked(b) = 1
          BY <1>14, <2>1
        <4> QED BY <3>1, <3>3, <4>1, <4>2
      <3>4. CASE n = w /\ r = s
        <4>1. child'[n][r] = p
          BY <1>12, <1>13, <3>4 DEF Around
        <4>2. n # p /\ h[n] = h[p] /\ Inked(p) = 0
          BY <1>6, <1>14, <2>1, <3>4
        <4> QED BY <3>1, <4>1, <4>2
      <3>5. CASE n = g /\ r = k
        <4>1. child'[n][r] = w /\ child[n][r] = p /\ n # p
          BY <1>5, <1>12, <1>13, <3>5 DEF Around
        <4>2. h[n] = h[p] + Ink(p)
          BY <1>7, <4>1
        <4>3. Ink(p) = 1 /\ Inked(w) = 1 /\ h[w] = h[p]
          BY <1>14, <2>1
        <4>4. h[n] = h[w] + Inked(w)
          BY <4>2, <4>3
        <4> QED BY <3>1, <4>1, <4>4
      <3>6. CASE /\ child'[n][r] = child[n][r] /\ ~(n = p /\ r = s)
                 /\ child[n][r] # p /\ child[n][r] # t
        <4>1. child[n][r] \in Ref
          BY <1>1, <1>5 DEF TypeOK
        <4>2. Inked(child[n][r]) = Ink(child[n][r])
          BY <1>13, <2>2, <3>6, <4>1
        <4>3. h[n] = h[child[n][r]] + Ink(child[n][r])
          BY <1>7, <3>6
        <4>4. Ink(child[n][r]) \in {0, 1} /\ h[child[n][r]] \in Nat
          BY <4>1 DEF Ink
        <4>5. h[n] = h[child[n][r]] + Ink(child[n][r]) + 0
          BY <4>3, <4>4
        <4>6. (IF n = p /\ r = s THEN 1 ELSE 0) = 0
          BY <3>6
        <4>7. h[n] = h[child[n][r]] + Inked(child[n][r]) + 0
          BY <4>2, <4>5
        <4> QED BY <3>6, <4>6, <4>7
      <3>7. \/ n = p /\ r = s
            \/ n = p /\ r = o
            \/ n = w /\ r = s
            \/ n = g /\ r = k
            \/ /\ child'[n][r] = child[n][r] /\ ~(n = p /\ r = s)
               /\ child[n][r] # p /\ child[n][r] # t
        <4>1. s \in Side
          BY <1>6
        <4> HIDE DEF Inked
        <4> QED BY <1>1, <1>12, <1>13, <4>1, OtherLinks
      <3> QED BY <3>2, <3>3, <3>4, <3>5, <3>6, <3>7
    <2>4. ASSUME NEW n \in Linked, NEW r \in Side
          PROVE  Weight(n, r)' = Inked(child'[n][r]) + (IF n = p /\ r = s THEN 1 ELSE 0)
      BY <1>4, <1>5, <1>6, <1>15 DEF BlackBlackLabels, Weight, Lacks, Other
    <2>5. ASSUME NEW n \in Linked, NEW r \in Side
          PROVE  h[n] = h[child'[n][r]] + Weight(n, r)'
      <3>1. child'[n][r] \in Ref
        BY <1>5 DEF TypeOK
      <3>2. Inked(child'[n][r]) \in {0, 1} /\ h[child'[n][r]] \in Nat
        BY <3>1
      <3> HIDE DEF Inked
      <3> QED BY <2>3, <2>4, <3>2
    <2> QED BY <1>1, <1>11, <2>5 DEF Balanced
  <1>17. NoRedRed'
    <2>1. ASSUME NEW n \in Linked, color'[n] = "red", parent'[n] # nil,
                 color'[parent'[n]] = "red"
          PROVE  FALSE
      <3>1. n # w /\ n # b
        BY <1>5, <1>10, <1>14, <2>1
      <3>2. n # p
        BY <1>10, <1>12, <1>13, <2>1 DEF Around
      <3>3. parent'[n] = parent[n] /\ color[n] = "red" /\ n # nil /\ n \in Ref
        BY <1>5, <1>10, <1>12, <1>13, <2>1, <3>1, <3>2 DEF Around
      <3>4. parent[n] # p
        <4>1. parent[n] = p => n = child[p][s] \/ n = child[p][Other(s)]
          BY <1>1, <1>6, <3>3 DEF LinksOK
        <4> QED BY <1>6, <3>1, <3>3, <4>1
      <3>5. color[parent[n]] = "red"
        BY <1>1, <1>10, <2>1, <3>3, <3>4 DEF TypeOK
      <3> QED BY <1>8, <2>1, <3>3, <3>5
    <2>2. color'[root'] # "red"
      <3>1. CASE g = nil
        BY <1>10, <1>12, <1>13, <3>1 DEF Around
      <3>2. CASE g # nil
        <4>1. root' = root /\ root # p
          BY <1>1, <1>5, <1>6, <1>12, <1>13, <3>2 DEF Around, LinksOK
        <4> QED BY <1>1, <1>8, <1>10, <4>1 DEF TypeOK
      <3> QED BY <3>1, <3>2
    <2> QED BY <1>11, <2>1, <2>2 DEF NoRedRed
  <1>18. PlaceOK'
    <2>1. x # root'
      BY <1>6, <1>12, <1>13 DEF Around
    <2>2. color'[x] = "black" /\ color'[b] = "black"
      BY <1>5, <1>6, <1>10, <1>14
    <2>3. Sibling(s)' = b
      BY <1>4, <1>15 DEF Sibling
    <2>4. BlackBlackPlace'
      BY <1>4, <1>6, <1>11, <1>14, <1>15, <2>1, <2>2, <2>3
      DEF BlackBlackPlace, Sibling
    <2> QED BY <1>4, <2>4 DEF PlaceOK, SearchPlace, RedRedPlace, SuccessorPlace,
                              RedRedLabels
  <1>19. RotationsSpent'
    <2>1. rotations' = 1
      BY <1>1, <1>4 DEF RotationsSpent, Rotate
    <2> QED BY <1>4, <1>10, <1>15, <2>1 DEF RotationsSpent, RedRedLabels, BlackBlackLabels
  <1> QED
    BY <1>4, <1>11, <1>16, <1>17, <1>18, <1>19, InvariantAfter DEF Repaired

\* The nephews are looked at below a black sibling.
LEMMA NephewKin ==
    ASSUME NEW d \in [Ref -> Nat], NEW h \in [Ref -> Nat], InvariantBy(d, h), NEW s \in Side,
           AtNephews(s) \/ (pc = "outer" /\ s = side)
    PROVE  \E p, w : /\ Short(s, p, w, h) /\ color[w] = "black"
                     /\ rotations <= 2 /\ rotations \in Nat
                     /\ AtNephews(s) => rotations <= 1 /\ (rotations = 0 \/ color[p] = "red")
                     /\ pc = "outer" => color[Far(s)] = "red"
  <1>1. TypeOK /\ RotationsSpent /\ BlackBlackPlace
    BY DEF InvariantBy, PlaceOK
  <1>2. \/ pc = "blackblack" /\ BlackBlackAgain /\ s = XSide /\ color[Sibling(s)] = "black"
        \/ pc \in {"nephews", "outer"} /\ s = side
    BY DEF AtNephews
  <1>3. PICK p, w : Short(s, p, w, h)
    BY <1>2, ShortKin
  <1>4. p = parent[x] /\ w = Sibling(s)
    BY <1>3 DEF Short
  <1>5. color[w] = "black"
    BY <1>1, <1>2, <1>4 DEF BlackBlackPlace
  <1>6. pc = "outer" => color[Far(s)] = "red"
    BY <1>1, <1>2 DEF BlackBlackPlace
  <1>7. /\ rotations <= 2 /\ rotations \in Nat
        /\ AtNephews(s) => rotations <= 1 /\ (rotations = 0 \/ color[p] = "red")
    BY <1>1, <1>2, <1>4 DEF RotationsSpent, TypeOK, AtNephews
  <1> QED
    BY <1>3, <1>5, <1>6, <1>7

\* Both nephews are black: the lack of a black moves up to the parent.
LEMMA RecolourSiblingStep ==
    ASSUME TypeOK', NEW d \in [Ref -> Nat], NEW h \in [Ref -> Nat], InvariantBy(d, h),
           NEW s \in Side, RecolourSibling(s)
    PROVE  IInv'
  <1>1. /\ TypeOK /\ LinksOK /\ SentinelIntact /\ Balanced(h)
    BY DEF InvariantBy
  <1>2. PICK p, w : /\ Short(s, p, w, h) /\ color[w] = "black"
                    /\ rotations <= 1 /\ rotations \in Nat
                    /\ rotations = 0 \/ color[p] = "red"
    BY NephewKin DEF RecolourSibling
  <1>3. /\ p = parent[x] /\ w = child[p][Other(s)] /\ w = Sibling(s)
        /\ Other(s) \in Side /\ Other(s) # s
        /\ x \in Linked \cup {nil} /\ x # root /\ color[x] = "black"
        /\ p \in Linked /\ p # nil /\ child[p][s] = x /\ x # p
        /\ w \in Linked /\ w # nil /\ w # x /\ w # p /\ parent[w] = p
    BY <1>2 DEF Short
  <1>4. /\ h[p] = h[x] + 2 /\ h[p] = h[w] + Ink(w)
        /\ \A n \in Linked, r \in Side :
              ~(n = p /\ r = s) => h[n] = h[child[n][r]] + Ink(child[n][r])
    BY <1>2 DEF Short
  <1>5. /\ \A n \in Linked : color[n] = "red" /\ parent[n] # nil => color[parent[n]] = "black"
        /\ color[root] = "black"
    BY <1>2 DEF Short
  <1>6. /\ color[child[w][s]] = "black" /\ color[child[w][Other(s)]] = "black"
        /\ color' = [color EXCEPT ![w] = "red"]
        /\ x' = p /\ pc' = "blackblack" /\ rotations' = rotations
        /\ root' = root /\ parent' = parent /\ child' = child /\ status' = status
    BY <1>3 DEF RecolourSibling, Near, Far, pool
  <1>7. Linked' = Linked /\ Linked \subseteq Node /\ Linked \subseteq Ref
        /\ color \in [Ref -> Color]
    BY <1>1, <1>6 DEF Linked, TypeOK
  <1>8. color'[w] = "red" /\ \A n \in Ref : n # w => color'[n] = color[n]
    BY <1>3, <1>6, <1>7
  <1>9. h[p] \in Nat /\ h[w] \in Nat /\ h[x] \in Nat
    BY <1>3, <1>7
  <1>10. PICK j \in [Ref -> Nat] : j[p] = h[p] - 1 /\ \A n \in Ref : n # p => j[n] = h[n]
    <2>1. h[p] - 1 \in Nat
      BY <1>4, <1>9
    <2>2. [h EXCEPT ![p] = h[p] - 1] \in [Ref -> Nat]
      BY <2>1
    <2> QED BY <1>3, <1>7, <2>2
  <1>11. Balanced(j)'
    <2> DEFINE Inked(n) == IF color'[n] = "black" THEN 1 ELSE 0
    <2>1. /\ Ink(w) = 1 /\ Inked(w) = 0 /\ Inked(x) = 1
          /\ \A n \in Ref : n # w => Inked(n) = Ink(n)
      BY <1>2, <1>3, <1>7, <1>8 DEF Ink
    <2>2. ASSUME NEW n \in Linked, NEW r \in Side
          PROVE  j[n] = j[child[n][r]] + Inked(child[n][r])
                           + (IF child[n][r] = p THEN 1 ELSE 0)
      <3> DEFINE m == child[n][r]
      <3>1. m \in Ref /\ n \in Ref /\ (m # nil => parent[m] = n)
        BY <1>1, <1>7 DEF LinksOK, TypeOK
      <3>2. h[m] \in Nat /\ h[n] \in Nat /\ Ink(m) \in {0, 1}
        BY <3>1 DEF Ink
      <3> HIDE DEF Inked
      <3>3. CASE n = p /\ r = s
        <4>1. m = x /\ j[x] = h[x]
          BY <1>3, <1>7, <1>10, <3>3
        <4>2. j[p] = h[x] + 1
          BY <1>4, <1>9, <1>10
        <4> QED BY <1>3, <1>9, <2>1, <3>3, <4>1, <4>2
      <3>4. CASE n = p /\ r = Other(s)
        <4>1. m = w /\ j[w] = h[w]
          BY <1>3, <1>7, <1>10, <3>4
        <4>2. j[p] = h[w]
          BY <1>4, <1>9, <1>10, <2>1
        <4> QED BY <1>3, <1>9, <2>1, <3>4, <4>1, <4>2
      <3>5. CASE m = p /\ n # p
        <4>1. h[n] = h[p] + Ink(p)
          BY <1>4, <3>5
        <4>2. j[n] = h[n] /\ j[p] = h[p] - 1 /\ Inked(p) = Ink(p)
          BY <1>3, <1>7, <1>10, <2>1, <3>1, <3>5
        <4> QED BY <1>9, <3>2, <3>5, <4>1, <4>2
      <3>6. CASE n # p /\ m # p
        <4>1. m # w
          BY <1>3, <3>1, <3>6
        <4>2. h[n] = h[m] + Ink(m)
          BY <1>4, <3>6
        <4>3. j[n] = h[n] /\ j[m] = h[m] /\ Inked(m) = Ink(m)
          BY <1>10, <2>1, <3>1, <3>6, <4>1
        <4> QED BY <3>2, <3>6, <4>2, <4>3
      <3>7. n = p => m # p
        BY <1>3 DEF Other
      <3>8. r = s \/ r = Other(s)
        BY DEF Other
      <3> QED BY <3>3, <3>4, <3>5, <3>6, <3>7, <3>8
    <2>3. ASSUME NEW n \in Linked, NEW r \in Side
          PROVE  Weight(n, r)' = Inked(child[n][r]) + (IF child[n][r] = p THEN 1 ELSE 0)
      <3>1. child[n][r] = p => parent[p] = n /\ child[n][Other(r)] # p
        BY <1>1, <1>3 DEF LinksOK, Other
      <3> QED BY <1>6, <3>1 DEF Weight, Lacks, BlackBlackLabels
    <2>4. ASSUME NEW n \in Linked, NEW r \in Side
          PROVE  j[n] = j[child[n][r]] + Weight(n, r)'
      <3>1. child[n][r] \in Ref
        BY <1>1, <1>7 DEF TypeOK
      <3>2. Inked(child[n][r]) \in {0, 1} /\ j[child[n][r]] \in Nat
        BY <3>1
      <3> HIDE DEF Inked
      <3> QED BY <2>2, <2>3, <3>2
    <2>5. j[nil] = 0
      BY <1>1, <1>3, <1>10 DEF Balanced
    <2> QED BY <1>6, <1>7, <2>4, <2>5 DEF Balanced
  <1>12. NoRedRed'
    <2>1. ASSUME NEW n \in Linked, color'[n] = "red", parent[n] # nil,
                 color'[parent[n]] = "red"
          PROVE  p \in {n, parent[n]}
      <3>1. n = w => parent[n] = p
        BY <1>3
      <3>2. ASSUME n # w PROVE FALSE
        <4>1. color[n] = "red" /\ n \in Ref /\ n # nil
          BY <1>7, <1>8, <2>1, <3>2
        <4>2. parent[n] # w
          <5>1. parent[n] = w => n = child[w][s] \/ n = child[w][Other(s)]
            BY <1>1, <1>3, <4>1 DEF LinksOK
          <5> QED BY <1>6, <4>1, <5>1
        <4> QED BY <1>1, <1>5, <1>8, <2>1, <4>1, <4>2 DEF TypeOK
      <3> QED BY <3>1, <3>2
    <2>2. color'[root] # "red"
      <3>1. root # w
        BY <1>1, <1>3 DEF LinksOK
      <3> QED BY <1>1, <1>5, <1>8, <3>1 DEF TypeOK
    <2> QED BY <1>6, <1>7, <2>1, <2>2 DEF NoRedRed
  <1>13. PlaceOK'
    <2>1. p # root => /\ parent[p] \in Linked
                      /\ \E r \in Side : child[parent[p]][r] = p /\ child[parent[p]][Other(r)] # p
      <3>1. p # root => parent[p] \in Linked /\ \E r \in Side : child[parent[p]][r] = p
        BY <1>1, <1>3 DEF LinksOK
      <3>2. \A n \in Linked, r \in Side : child[n][r] = p => child[n][Other(r)] # p
        BY <1>1, <1>3 DEF LinksOK, Other
      <3> QED BY <3>1, <3>2
    <2>2. BlackBlackPlace'
      BY <1>3, <1>6, <1>7, <2>1 DEF BlackBlackPlace
    <2> QED BY <1>6, <2>2 DEF PlaceOK, SearchPlace, RedRedPlace, SuccessorPlace,
                              RedRedLabels
  <1>14. RotationsSpent'
    <2>1. color'[p] = color[p]
      BY <1>3, <1>7, <1>8
    <2>2. BlackBlackAgain' => rotations = 0
      BY <1>2, <1>6, <2>1 DEF BlackBlackAgain
    <2>3. rotations' <= 3
      BY <1>2, <1>6
    <2> QED BY <1>6, <2>2, <2>3 DEF RotationsSpent, RedRedLabels, BlackBlackLabels
  <1>15. /\ color'[nil] = "black"
         /\ \A n \in Ref \ {nil} : n \notin Linked => color'[n] = color[n]
    BY <1>1, <1>3, <1>8 DEF SentinelIntact
  <1> QED
    BY <1>6, <1>11, <1>12, <1>13, <1>14, <1>15, Recoloured

\* Only the near nephew is red: it becomes the sibling, with a red far nephew.
LEMMA NephewStep ==
    ASSUME TypeOK', NEW d \in [Ref -> Nat], NEW h \in [Ref -> Nat], InvariantBy(d, h),
           NEW s \in Side, RotateNephew(s)
    PROVE  IInv'
  <1>1. /\ TypeOK /\ LinksOK /\ SentinelIntact /\ Balanced(h)
    BY DEF InvariantBy
  <1>2. PICK p, w : /\ Short(s, p, w, h) /\ color[w] = "black"
                    /\ rotations <= 1 /\ rotations \in Nat
    BY NephewKin DEF RotateNephew
  <1>3. /\ p = parent[x] /\ w = child[p][Other(s)] /\ w = Sibling(s)
        /\ Other(s) \in Side /\ Other(s) # s /\ Other(Other(s)) = s
        /\ x \in Linked \cup {nil} /\ x # root /\ color[x] = "black"
        /\ p \in Linked /\ p # nil /\ child[p][s] = x /\ x # p
        /\ w \in Linked /\ w # nil /\ w # x /\ w # p /\ parent[w] = p
        /\ x # nil => parent[x] = p
    BY <1>2 DEF Short
  <1>4. /\ h[p] = h[x] + 2 /\ h[p] = h[w] + Ink(w)
        /\ \A n \in Linked, r \in Side :
              ~(n = p /\ r = s) => h[n] = h[child[n][r]] + Ink(child[n][r])
    BY <1>2 DEF Short
  <1>5. /\ \A n \in Linked : color[n] = "red" /\ parent[n] # nil => color[parent[n]] = "black"
        /\ color[root] = "black"
    BY <1>2 DEF Short
  <1>6. PICK a : a = child[w][s]
    OBVIOUS
  <1>7. /\ color[a] = "red" /\ color[child[w][Other(s)]] = "black"
        /\ color' = [color EXCEPT ![a] = "black", ![w] = "red"]
        /\ Rotate(Other(s), w)
        /\ pc' = "outer" /\ side' = s /\ x' = x
        /\ status' = status
    BY <1>3, <1>6 DEF RotateNephew, Near, Far, pool
  <1>8. Linked \subseteq Node /\ Linked \subseteq Ref /\ color \in [Ref -> Color]
    BY <1>1 DEF Linked, TypeOK
  <1>9. a # nil /\ a \in Linked /\ parent[a] = w
    BY <1>1, <1>3, <1>6, <1>7 DEF SentinelIntact, LinksOK
  <1>10. a # w
    BY <1>2, <1>7
  <1>11. /\ color'[a] = "black" /\ color'[w] = "red"
         /\ \A n \in Ref : n # a /\ n # w => color'[n] = color[n]
    BY <1>3, <1>7, <1>8, <1>9, <1>10
  <1>12. /\ LinksOK' /\ SentinelIntact' /\ DetachedPristine' /\ Linked' = Linked
         /\ \E e \in [Ref -> Nat] : \A n \in Linked', r \in Side :
               child'[n][r] # nil => e[n] < e[child'[n][r]]
         /\ \E o, t, b, g, k : Around(Other(s), w, o, t, b, g, k)
    <2>1. \A n \in Ref : n \notin Linked => color'[n] = color[n]
      BY <1>3, <1>9, <1>11
    <2>2. child[w][Other(Other(s))] # nil
      BY <1>3, <1>6, <1>9
    <2> QED BY <1>3, <1>7, <2>1, <2>2, RotatedShort
  <1>13. PICK o, t, b, g, k : Around(Other(s), w, o, t, b, g, k)
    BY <1>12
  <1>14. o = s /\ t = a /\ g = p /\ b = child[a][Other(s)] /\ k = Other(s)
    <2>1. o = s /\ t = a /\ g = p /\ b = child[a][Other(s)]
      BY <1>3, <1>6, <1>13 DEF Around
    <2>2. k \in Side /\ child[p][k] = w
      BY <1>3, <1>13, <2>1 DEF Around
    <2> QED BY <1>3, <2>1, <2>2
  <1>15. /\ b \in Ref /\ b # w /\ b # a /\ (b # nil => b \in Linked /\ parent[b] = a)
         /\ a # p /\ (b # p)
         /\ child'[w][s] = b /\ child'[w][Other(s)] = child[w][Other(s)]
         /\ child'[a][Other(s)] = w /\ child'[a][s] = child[a][s]
         /\ child'[p][Other(s)] = a /\ child'[p][s] = x
         /\ parent'[w] = a /\ parent'[a] = p
         /\ \A n \in Ref : n # w /\ n # a /\ (n # b \/ n = nil) => parent'[n] = parent[n]
         /\ root' = root
    <2>1. p # nil /\ p # w /\ b # w /\ b # a /\ a # p /\ b # p
      BY <1>3, <1>13, <1>14 DEF Around
    <2>2. /\ b \in Ref /\ (b # nil => b \in Linked /\ parent[b] = a)
          /\ parent'[w] = a /\ parent'[a] = p /\ root' = root
          /\ \A n \in Ref : n # w /\ n # a /\ (n # b \/ n = nil) => parent'[n] = parent[n]
      BY <1>13, <1>14, <2>1 DEF Around
    <2>3. /\ child'[w][s] = b /\ child'[w][Other(s)] = child[w][Other(s)]
          /\ child'[a][Other(s)] = w /\ child'[a][s] = child[a][s]
      BY <1>13, <1>14 DEF Around
    <2>4. child'[p][Other(s)] = a /\ child'[p][s] = x
      BY <1>3, <1>13, <1>14, <2>1 DEF Around
    <2> QED BY <2>1, <2>2, <2>3, <2>4
  <1>16. color[b] = "black"
    BY <1>1, <1>5, <1>7, <1>8, <1>9, <1>15 DEF SentinelIntact
  <1>17. x # a /\ (x # nil => x # b) /\ parent'[x] = p
    <2>1. x # a /\ (x # nil => x # b)
      BY <1>3, <1>7, <1>9, <1>15
    <2>2. x \in Ref
      BY <1>3, <1>8
    <2> QED BY <1>3, <1>15, <2>1, <2>2
  <1>18. h[w] = h[a] /\ h[a] = h[b] + 1 /\ h[p] = h[w] + 1
    <2>1. h[w] = h[a] + Ink(a) /\ h[a] = h[b] + Ink(b)
      BY <1>3, <1>4, <1>6, <1>9, <1>14, <1>15
    <2>2. Ink(a) = 0 /\ Ink(b) = 1 /\ Ink(w) = 1 /\ h[a] \in Nat
      BY <1>2, <1>7, <1>8, <1>9, <1>16 DEF Ink
    <2> QED BY <1>4, <2>1, <2>2
  <1>19. Balanced(h)'
    <2> DEFINE Inked(n) == IF color'[n] = "black" THEN 1 ELSE 0
    <2>1. /\ Inked(w) = 0 /\ Inked(a) = 1 /\ Inked(b) = 1 /\ Inked(x) = 1
          /\ \A n \in Ref : n # w /\ n # a => Inked(n) = Ink(n)
      BY <1>3, <1>8, <1>11, <1>15, <1>16, <1>17 DEF Ink
    <2>2. ASSUME NEW n \in Linked, NEW r \in Side
          PROVE  h[n] = h[child'[n][r]] + Inked(child'[n][r])
                           + (IF n = p /\ r = s THEN 1 ELSE 0)
      <3> HIDE DEF Inked
      <3>1. /\ h[n] \in Nat /\ h[p] \in Nat /\ h[b] \in Nat /\ h[x] \in Nat
            /\ h[w] \in Nat /\ h[a] \in Nat
        BY <1>3, <1>8, <1>9, <1>15
      <3>2. CASE n = p /\ r = s
        <4>1. child'[n][r] = x /\ Inked(x) = 1 /\ h[p] = h[x] + 2
          BY <1>4, <1>15, <2>1, <3>2
        <4> QED BY <3>1, <3>2, <4>1
      <3>3. CASE n = w /\ r = s
        <4>1. child'[n][r] = b /\ n # p /\ Inked(b) = 1 /\ h[w] = h[b] + 1
          BY <1>3, <1>15, <1>18, <2>1, <3>3
        <4> QED BY <3>1, <3>3, <4>1
      <3>4. CASE n = a /\ r = Other(s)
        <4>1. child'[n][r] = w /\ n # p /\ Inked(w) = 0 /\ h[w] = h[a]
          BY <1>15, <1>18, <2>1, <3>4
        <4> QED BY <3>1, <3>4, <4>1
      <3>5. CASE n = p /\ r = Other(s)
        <4>1. child'[n][r] = a /\ r # s /\ Inked(a) = 1 /\ h[p] = h[a] + 1
          BY <1>3, <1>15, <1>18, <2>1, <3>5
        <4> QED BY <3>1, <3>5, <4>1
      <3>6. CASE /\ child'[n][r] = child[n][r] /\ ~(n = p /\ r = s)
                 /\ child[n][r] # w /\ child[n][r] # a
        <4>1. child[n][r] \in Ref
          BY <1>1, <1>8 DEF TypeOK
        <4>2. Inked(child[n][r]) = Ink(child[n][r])
          BY <2>1, <3>6, <4>1
        <4>3. h[n] = h[child[n][r]] + Ink(child[n][r])
          BY <1>4, <3>6
        <4>4. Ink(child[n][r]) \in {0, 1} /\ h[child[n][r]] \in Nat
          BY <4>1 DEF Ink
        <4> QED BY <3>6, <4>2, <4>3, <4>4
      <3>7. \/ n = w /\ r = s
            \/ n = a /\ r = Other(s)
            \/ n = p /\ r = Other(s)
            \/ /\ child'[n][r] = child[n][r]
               /\ child[n][r] # w /\ child[n][r] # a
        BY <1>1, <1>3, <1>13, <1>14, OtherLinks
      <3> QED BY <3>2, <3>3, <3>4, <3>5, <3>6, <3>7
    <2>3. ASSUME NEW n \in Linked, NEW r \in Side
          PROVE  Weight(n, r)' = Inked(child'[n][r]) + (IF n = p /\ r = s THEN 1 ELSE 0)
      BY <1>3, <1>7, <1>8, <1>15, <1>17 DEF BlackBlackLabels, Weight, Lacks, Other
    <2>4. ASSUME NEW n \in Linked, NEW r \in Side
          PROVE  h[n] = h[child'[n][r]] + Weight(n, r)'
      <3>1. child'[n][r] \in Ref
        BY <1>8 DEF TypeOK
      <3>2. Inked(child'[n][r]) \in {0, 1} /\ h[child'[n][r]] \in Nat
        BY <3>1
      <3> HIDE DEF Inked
      <3> QED BY <2>2, <2>3, <3>2
    <2> QED BY <1>1, <1>12, <2>4 DEF Balanced
  <1>20. NoRedRed'
    <2>1. ASSUME NEW n \in Linked, color'[n] = "red", parent'[n] # nil,
                 color'[parent'[n]] = "red"
          PROVE  FALSE
      <3>1. n # a /\ n # w
        BY <1>11, <1>15, <2>1
      <3>2. n # nil /\ n \in Ref /\ color[n] = "red" /\ n # b
        BY <1>8, <1>11, <1>16, <2>1, <3>1
      <3>3. parent'[n] = parent[n]
        BY <1>15, <3>1, <3>2
      <3>4. parent[n] # w
        <4>1. parent[n] = w => n = child[w][s] \/ n = child[w][Other(s)]
          BY <1>1, <1>3, <1>8, <3>2 DEF LinksOK
        <4> QED BY <1>6, <1>7, <3>1, <3>2, <4>1
      <3>5. parent[n] # a
        BY <1>11, <2>1, <3>3
      <3>6. color[parent[n]] = "red"
        BY <1>1, <1>11, <2>1, <3>2, <3>3, <3>4, <3>5 DEF TypeOK
      <3> QED BY <1>5, <2>1, <3>2, <3>3, <3>6
    <2>2. color'[root'] # "red"
      BY <1>1, <1>3, <1>5, <1>8, <1>11, <1>15 DEF LinksOK, TypeOK
    <2> QED BY <1>12, <2>1, <2>2 DEF NoRedRed
  <1>21. PlaceOK'
    <2>1. x # root' /\ color'[x] = "black"
      BY <1>3, <1>8, <1>11, <1>15, <1>17
    <2>2. Sibling(s)' = a /\ Far(s)' = w
      BY <1>7, <1>15, <1>17 DEF Sibling, Far
    <2>3. BlackBlackPlace'
      BY <1>3, <1>7, <1>9, <1>11, <1>12, <1>15, <1>17, <2>1, <2>2
      DEF BlackBlackPlace, Sibling, Far
    <2> QED BY <1>7, <2>3 DEF PlaceOK, SearchPlace, RedRedPlace, SuccessorPlace,
                              RedRedLabels
  <1>22. RotationsSpent'
    <2>1. rotations' = rotations + 1
      BY <1>7 DEF Rotate
    <2>2. rotations' <= 2
      BY <1>2, <2>1
    <2> QED BY <1>7, <2>2 DEF RotationsSpent, RedRedLabels, BlackBlackLabels
  <1> QED
    BY <1>7, <1>12, <1>19, <1>20, <1>21, <1>22, InvariantAfter DEF Repaired

\* The far nephew is red: the rotation of the parent makes up for the black.
LEMMA ParentStep ==
    ASSUME TypeOK', NEW d \in [Ref -> Nat], NEW h \in [Ref -> Nat], InvariantBy(d, h),
           NEW s \in Side, RotateParent(s)
    PROVE  IInv'
  <1>1. /\ TypeOK /\ LinksOK /\ SentinelIntact /\ Balanced(h)
    BY DEF InvariantBy
  <1>2. PICK p, w : /\ Short(s, p, w, h) /\ color[w] = "black"
                    /\ rotations <= 2 /\ rotations \in Nat
                    /\ color[Far(s)] = "red"
    BY NephewKin DEF RotateParent
  <1>3. /\ p = parent[x] /\ w = child[p][Other(s)] /\ w = Sibling(s)
        /\ Other(s) \in Side /\ Other(s) # s
        /\ x \in Linked \cup {nil} /\ x # root /\ color[x] = "black"
        /\ p \in Linked /\ p # nil /\ child[p][s] = x /\ x # p
        /\ w \in Linked /\ w # nil /\ w # x /\ w # p /\ parent[w] = p
        /\ x # nil => parent[x] = p
    BY <1>2 DEF Short
  <1>4. /\ h[p] = h[x] + 2 /\ h[p] = h[w] + Ink(w)
        /\ \A n \in Linked, r \in Side :
              ~(n = p /\ r = s) => h[n] = h[child[n][r]] + Ink(child[n][r])
    BY <1>2 DEF Short
  <1>5. /\ \A n \in Linked : color[n] = "red" /\ parent[n] # nil => color[parent[n]] = "black"
        /\ color[root] = "black"
    BY <1>2 DEF Short
  <1>6. PICK f : f = child[w][Other(s)]
    OBVIOUS
  <1>7. /\ color[f] = "red"
        /\ color' = [color EXCEPT ![w] = color[p], ![p] = "black", ![f] = "black"]
        /\ Rotate(s, p)
        /\ pc' = "blackblack" /\ x' = root'
        /\ status' = status
    BY <1>2, <1>3, <1>6 DEF RotateParent, Far, LoopEnder, pool
  <1>8. Linked \subseteq Node /\ Linked \subseteq Ref /\ color \in [Ref -> Color]
    BY <1>1 DEF Linked, TypeOK
  <1>9. f # nil /\ f \in Linked /\ parent[f] = w /\ f # w /\ f # p /\ f # x
    <2>1. f # nil /\ f \in Linked /\ parent[f] = w
      BY <1>1, <1>3, <1>6, <1>7 DEF SentinelIntact, LinksOK
    <2>2. f # w /\ f # x
      BY <1>2, <1>3, <1>7
    <2>3. d[p] < d[w] /\ d[w] < d[f] /\ d[p] \in Nat /\ d[w] \in Nat
      BY <1>3, <1>6, <1>8, <2>1 DEF InvariantBy, Descending
    <2> QED BY <2>1, <2>2, <2>3
  <1>10. /\ color'[w] = color[p] /\ color'[p] = "black" /\ color'[f] = "black"
         /\ \A n \in Ref : n # w /\ n # p /\ n # f => color'[n] = color[n]
    BY <1>3, <1>7, <1>8, <1>9
  <1>11. /\ LinksOK' /\ SentinelIntact' /\ DetachedPristine' /\ Linked' = Linked
         /\ \E e \in [Ref -> Nat] : \A n \in Linked', r \in Side :
               child'[n][r] # nil => e[n] < e[child'[n][r]]
         /\ \E o, t, b, g, k : Around(s, p, o, t, b, g, k)
    <2>1. \A n \in Ref : n \notin Linked => color'[n] = color[n]
      BY <1>3, <1>9, <1>10
    <2>2. child[p][Other(s)] # nil
      BY <1>3
    <2> QED BY <1>3, <1>7, <2>1, <2>2, RotatedShort
  <1>12. PICK o, t, b, g, k : Around(s, p, o, t, b, g, k)
    BY <1>11
  <1>13. o = Other(s) /\ t = w /\ g = parent[p] /\ b = child[w][s]
    BY <1>3, <1>12 DEF Around
  <1>14. /\ b \in Ref /\ b # w /\ b # p /\ (b # nil => b \in Linked /\ parent[b] = w)
         /\ g \in Ref /\ g # p /\ g # w /\ (g # nil => g \in Linked)
         /\ child'[p][s] = x /\ child'[p][Other(s)] = b
         /\ child'[w][s] = p /\ child'[w][Other(s)] = f
         /\ g # nil => child'[g][k] = w /\ child[g][k] = p /\ k \in Side
         /\ parent'[p] = w /\ parent'[w] = g
         /\ b # nil => parent'[b] = p
         /\ \A n \in Ref : n # p /\ n # w /\ (n # b \/ n = nil) => parent'[n] = parent[n]
         /\ root' = IF g = nil THEN w ELSE root
    BY <1>3, <1>6, <1>12, <1>13 DEF Around
  <1>15. b # f
    BY <1>1, <1>3, <1>6, <1>9, <1>13 DEF LinksOK
  <1>16. /\ h[p] = h[w] + 1 /\ h[w] = h[b] + Ink(b) /\ h[w] = h[f]
         /\ h[p] \in Nat /\ h[w] \in Nat /\ h[x] \in Nat /\ h[b] \in Nat
    <2>1. h[w] = h[b] + Ink(b) /\ h[w] = h[f] + Ink(f)
      BY <1>3, <1>4, <1>6, <1>13
    <2>2. Ink(w) = 1 /\ Ink(f) = 0
      BY <1>2, <1>7 DEF Ink
    <2>3. h[p] \in Nat /\ h[w] \in Nat /\ h[x] \in Nat /\ h[b] \in Nat /\ h[f] \in Nat
      BY <1>3, <1>8, <1>9, <1>14
    <2> QED BY <1>4, <2>1, <2>2, <2>3
  <1>17. PICK j \in [Ref -> Nat] : /\ j[p] = h[w] /\ j[w] = h[p]
                                   /\ \A n \in Ref : n # p /\ n # w => j[n] = h[n]
    <2>1. [h EXCEPT ![p] = h[w], ![w] = h[p]] \in [Ref -> Nat]
      BY <1>16
    <2> QED BY <1>3, <1>8, <2>1
  <1>18. Balanced(j)'
    <2> DEFINE Inked(n) == IF color'[n] = "black" THEN 1 ELSE 0
    <2>1. /\ Inked(w) = Ink(p) /\ Inked(p) = 1 /\ Inked(f) = 1 /\ Inked(b) = Ink(b)
          /\ Inked(x) = 1
          /\ \A n \in Ref : n # w /\ n # p /\ n # f => Inked(n) = Ink(n)
      BY <1>3, <1>8, <1>9, <1>10, <1>14, <1>15 DEF Ink
    <2>2. ASSUME NEW n \in Linked, NEW r \in Side
          PROVE  j[n] = j[child'[n][r]] + Inked(child'[n][r])
      <3> HIDE DEF Inked
      <3>1. CASE n = p /\ r = s
        <4>1. child'[n][r] = x /\ j[x] = h[x] /\ Inked(x) = 1
          BY <1>3, <1>8, <1>14, <1>17, <2>1, <3>1
        <4>2. j[p] = h[x] + 1
          BY <1>4, <1>16, <1>17
        <4> QED BY <3>1, <4>1, <4>2
      <3>2. CASE n = p /\ r = Other(s)
        <4>1. child'[n][r] = b /\ j[b] = h[b] /\ Inked(b) = Ink(b)
          BY <1>14, <1>17, <2>1, <3>2
        <4> QED BY <1>16, <1>17, <3>2, <4>1
      <3>3. CASE n = w /\ r = s
        <4>1. child'[n][r] = p /\ j[w] = j[p] + 1 /\ Inked(p) = 1
          BY <1>14, <1>16, <1>17, <2>1, <3>3
        <4> QED BY <3>3, <4>1
      <3>4. CASE n = w /\ r = Other(s)
        <4>1. child'[n][r] = f /\ j[f] = h[f] /\ Inked(f) = 1
          BY <1>8, <1>9, <1>14, <1>17, <2>1, <3>4
        <4>2. j[w] = h[f] + 1
          BY <1>16, <1>17
        <4> QED BY <3>4, <4>1, <4>2
      <3>5. CASE n = g /\ r = k
        <4>1. child'[n][r] = w /\ child[n][r] = p /\ n # p /\ n # w /\ n \in Ref
          BY <1>8, <1>14, <3>5
        <4>2. h[n] = h[p] + Ink(p)
          BY <1>4, <4>1
        <4>3. j[n] = h[n] /\ j[w] = h[p] /\ Inked(w) = Ink(p)
          BY <1>17, <2>1, <4>1
        <4> QED BY <4>1, <4>2, <4>3
      <3>6. CASE /\ child'[n][r] = child[n][r]
                 /\ child[n][r] # p /\ child[n][r] # w
                 /\ n # p /\ n # w
        <4>1. child[n][r] \in Ref /\ n \in Ref
          BY <1>1, <1>8 DEF TypeOK
        <4>2. child[n][r] # f
          BY <1>1, <1>9, <3>6 DEF LinksOK
        <4>3. Inked(child[n][r]) = Ink(child[n][r])
          BY <2>1, <3>6, <4>1, <4>2
        <4>4. h[n] = h[child[n][r]] + Ink(child[n][r])
          BY <1>4, <3>6
        <4>5. j[n] = h[n] /\ j[child[n][r]] = h[child[n][r]]
          BY <1>17, <3>6, <4>1
        <4> QED BY <3>6, <4>3, <4>4, <4>5
      <3>7. r = s \/ r = Other(s)
        BY DEF Other
      <3>8. \/ n = p /\ r = Other(s)
            \/ n = w /\ r = s
            \/ n = g /\ r = k
            \/ /\ child'[n][r] = child[n][r]
               /\ child[n][r] # p /\ child[n][r] # w
        BY <1>1, <1>12, <1>13, OtherLinks
      <3> QED BY <3>1, <3>2, <3>3, <3>4, <3>5, <3>6, <3>7, <3>8
    <2>3. parent'[x'] = nil
      <3>1. root # nil
        BY <1>3, <1>8, RootIsThere
      <3>2. root' # nil
        BY <1>3, <1>14, <3>1
      <3> QED BY <1>7, <1>11, <3>2 DEF LinksOK
    <2>4. ASSUME NEW n \in Linked, NEW r \in Side
          PROVE  Weight(n, r)' = Inked(child'[n][r])
      BY <1>8, <2>3 DEF Weight, Lacks
    <2>5. j[nil] = 0
      BY <1>1, <1>3, <1>17 DEF Balanced
    <2> QED BY <1>11, <2>2, <2>4, <2>5 DEF Balanced
  <1>19. NoRedRed'
    <2>1. ASSUME NEW n \in Linked, color'[n] = "red", parent'[n] # nil,
                 color'[parent'[n]] = "red"
          PROVE  FALSE
      <3>1. CASE n = w
        <4>1. g # nil /\ color[p] = "red" /\ color[g] = "black"
          BY <1>3, <1>5, <1>10, <1>13, <1>14, <2>1, <3>1
        <4>2. color'[g] = "black"
          BY <1>10, <1>14, <4>1
        <4> QED BY <1>14, <2>1, <3>1, <4>2
      <3>2. CASE n = b
        BY <1>8, <1>10, <1>14, <2>1, <3>2
      <3>3. CASE n # w /\ n # b
        <4>1. n # p /\ n # f /\ n \in Ref /\ color[n] = "red" /\ n # nil
          BY <1>8, <1>10, <2>1, <3>3
        <4>2. parent'[n] = parent[n] /\ parent[n] # p /\ parent[n] # f
          BY <1>10, <1>14, <2>1, <3>3, <4>1
        <4>3. parent[n] # w
          <5>1. parent[n] = w => n = child[w][s] \/ n = child[w][Other(s)]
            BY <1>1, <1>3, <1>8, <4>1 DEF LinksOK
          <5> QED BY <1>6, <1>13, <3>3, <4>1, <5>1
        <4>4. color[parent[n]] = "red"
          BY <1>1, <1>10, <2>1, <4>1, <4>2, <4>3 DEF TypeOK
        <4> QED BY <1>5, <2>1, <4>1, <4>2, <4>4
      <3> QED BY <3>1, <3>2, <3>3
    <2>2. color'[root'] # "red"
      <3>1. CASE g = nil
        <4>1. p = root
          <5>1. p # root => parent[p] \in Linked
            BY <1>1, <1>3 DEF LinksOK
          <5> QED BY <1>8, <1>13, <3>1, <5>1
        <4> QED BY <1>5, <1>10, <1>14, <3>1, <4>1
      <3>2. CASE g # nil
        <4>1. root' = root /\ root # p /\ root # w
          BY <1>1, <1>3, <1>8, <1>13, <1>14, <3>2 DEF LinksOK
        <4> QED BY <1>1, <1>5, <1>10, <4>1 DEF TypeOK
      <3> QED BY <3>1, <3>2
    <2> QED BY <1>11, <2>1, <2>2 DEF NoRedRed
  <1>20. PlaceOK'
    <2>1. root' \in Linked' \cup {nil}
      BY <1>11 DEF LinksOK
    <2>2. BlackBlackPlace'
      BY <1>7, <2>1 DEF BlackBlackPlace
    <2> QED BY <1>7, <2>2 DEF PlaceOK, SearchPlace, RedRedPlace, SuccessorPlace,
                              RedRedLabels
  <1>21. RotationsSpent'
    <2>1. rotations' = rotations + 1
      BY <1>7 DEF Rotate
    <2>2. rotations' <= 3
      BY <1>2, <2>1
    <2>3. ~BlackBlackAgain'
      BY <1>7 DEF BlackBlackAgain
    <2> QED BY <1>7, <2>2, <2>3 DEF RotationsSpent, RedRedLabels, BlackBlackLabels
  <1> QED
    BY <1>7, <1>11, <1>18, <1>19, <1>20, <1>21, InvariantAfter DEF Repaired

\* The loop ends at the root or at a red node, which takes the missing black.
LEMMA BlackBlackEnd ==
    ASSUME TypeOK', NEW d \in [Ref -> Nat], NEW h \in [Ref -> Nat], InvariantBy(d, h),
           BlackBlackDone
    PROVE  IInv'
  <1>1. /\ TypeOK /\ LinksOK /\ SentinelIntact /\ NoRedRed /\ BlackBlackPlace
        /\ Descending(d) /\ Balanced(h)
    BY DEF InvariantBy, PlaceOK
  <1>2. /\ pc = "blackblack" /\ ~BlackBlackAgain
        /\ color' = [color EXCEPT ![x] = "black", ![root] = "black"]
        /\ pc' = "idle" /\ rotations' = 0
        /\ root' = root /\ parent' = parent /\ child' = child /\ status' = status
    BY DEF BlackBlackDone, Return, pool
  <1>3. Linked' = Linked /\ Linked \subseteq Node /\ Linked \subseteq Ref
        /\ color \in [Ref -> Color]
    BY <1>1, <1>2 DEF Linked, TypeOK
  <1>4. x \in Ref /\ root \in Ref /\ x \in Linked \cup {nil}
    BY <1>1, <1>2 DEF TypeOK, BlackBlackPlace, BlackBlackLabels
  <1>5. /\ color'[x] = "black" /\ color'[root] = "black"
        /\ \A n \in Ref : n # x /\ n # root => color'[n] = color[n]
    BY <1>2, <1>3, <1>4
  <1>6. root = nil => Linked = {}
    BY <1>3, RootIsThere
  <1>7. x = root \/ (x \in Linked /\ x # nil /\ color[x] = "red")
    BY <1>1, <1>2, <1>3, <1>4 DEF BlackBlackAgain, SentinelIntact
  <1>8. Balanced(h)'
    <2>1. ASSUME NEW n \in Linked, NEW r \in Side
          PROVE  Weight(n, r) = IF color'[child[n][r]] = "black" THEN 1 ELSE 0
      <3>1. child[n][r] \in Ref /\ (child[n][r] # nil => child[n][r] # root /\ parent[child[n][r]] = n)
        BY <1>1, <1>3 DEF TypeOK, LinksOK
      <3>2. CASE x = root
        <4>1. parent[x] = nil \/ n \notin Linked
          BY <1>1, <1>6, <3>2 DEF LinksOK
        <4>2. ~Lacks(n, r)
          BY <1>3, <4>1 DEF Lacks
        <4>3. color'[child[n][r]] = color[child[n][r]]
          BY <1>1, <1>3, <1>4, <1>5, <3>1, <3>2 DEF SentinelIntact
        <4> QED BY <4>2, <4>3 DEF Weight
      <3>3. CASE x # root
        <4>1. x \in Linked /\ x # nil /\ color[x] = "red"
          BY <1>7, <3>3
        <4>2. CASE child[n][r] = x
          <5>1. child[n][Other(r)] # x
            BY <1>1, <4>1, <4>2 DEF LinksOK, Other
          <5>2. Lacks(n, r)
            BY <1>2, <3>1, <4>1, <4>2, <5>1 DEF Lacks, BlackBlackLabels
          <5> QED BY <1>5, <4>1, <4>2, <5>2 DEF Weight
        <4>3. CASE child[n][r] # x
          <5>1. ~Lacks(n, r)
            BY <4>3 DEF Lacks
          <5>2. color'[child[n][r]] = color[child[n][r]]
            <6>1. CASE child[n][r] = nil
              BY <1>1, <1>5, <4>1, <6>1 DEF SentinelIntact
            <6> QED BY <1>5, <3>1, <4>3, <6>1
          <5> QED BY <5>1, <5>2 DEF Weight
        <4> QED BY <4>2, <4>3
      <3> QED BY <3>2, <3>3
    <2>2. \A n, r : Weight(n, r)' = IF color'[child'[n][r]] = "black" THEN 1 ELSE 0
      BY <1>2 DEF Weight, Lacks, BlackBlackLabels
    <2>3. ASSUME NEW n \in Linked', NEW r \in Side
          PROVE  h[n] = h[child'[n][r]] + Weight(n, r)'
      <3>1. n \in Linked /\ child'[n][r] = child[n][r]
        BY <1>2, <1>3
      <3>2. h[n] = h[child[n][r]] + Weight(n, r)
        BY <1>1, <3>1 DEF Balanced
      <3>3. Weight(n, r)' = Weight(n, r)
        BY <2>1, <2>2, <3>1
      <3> QED BY <3>1, <3>2, <3>3
    <2>4. h[nil] = 0
      BY <1>1 DEF Balanced
    <2> QED BY <2>3, <2>4 DEF Balanced
  <1>9. NoRedRed'
    <2>1. ASSUME NEW n \in Linked, color'[n] = "red", parent[n] # nil,
                 color'[parent[n]] = "red"
          PROVE  FALSE
      <3>1. n # root /\ n # x /\ parent[n] # x /\ color[n] = "red"
        BY <1>3, <1>5, <2>1
      <3>2. color[parent[n]] = "red"
        BY <1>1, <1>3, <1>5, <2>1, <3>1 DEF TypeOK
      <3>3. n = x \/ x \in {n, parent[n]}
        BY <1>1, <1>2, <2>1, <3>1, <3>2 DEF NoRedRed
      <3> QED BY <3>1, <3>3
    <2>2. color'[root'] # "red"
      BY <1>2, <1>5
    <2>3. \A n \in Linked' : parent'[n] = parent[n] /\ n \in Linked
      BY <1>2, <1>3
    <2> QED BY <2>1, <2>2, <2>3 DEF NoRedRed
  <1>10. PlaceOK' /\ RotationsSpent'
    BY <1>2 DEF PlaceOK, SearchPlace, RedRedPlace, SuccessorPlace, BlackBlackPlace,
                RotationsSpent, RedRedLabels, BlackBlackLabels
  <1>11. /\ color'[nil] = "black"
         /\ \A n \in Ref \ {nil} : n \notin Linked => color'[n] = color[n]
    BY <1>1, <1>4, <1>5 DEF LinksOK, SentinelIntact
  <1> QED
    BY <1>2, <1>8, <1>9, <1>10, <1>11, Recoloured

-----------------------------------------------------------------------------
(* The cut: the node to remove itself, or its successor, which then takes  *)
(* the place of the node to remove.                                        *)

\* v, the node to cut out, has z as its one child at most; q is its parent.
Cuttable(v, z, q, h) ==
    /\ v \in Linked /\ v # nil /\ q = parent[v] /\ q # v
    /\ z \in Linked \cup {nil} /\ z # v
    /\ \A r \in Side : child[v][r] \in {z, nil}
    /\ \E r \in Side : child[v][r] = z
    /\ z # nil => parent[z] = v
    /\ q \in Linked \cup {nil} /\ (q = nil <=> v = root)
    /\ q # nil => child[q][SlotOf(child, q, v)] = v
    /\ h[v] = h[z] + Ink(z)
    /\ \A n \in Linked, r \in Side : h[n] = h[child[n][r]] + Ink(child[n][r])
    /\ \A n \in Linked : color[n] = "red" /\ parent[n] # nil => color[parent[n]] = "black"
    /\ color[root] = "black"

LEMMA CutKin ==
    ASSUME NEW d \in [Ref -> Nat], NEW h \in [Ref -> Nat], InvariantBy(d, h), Unlink
    PROVE  /\ arg \in Linked /\ Cuttable(y, Heir, parent[y], h)
           /\ rotations = 0
  <1>1. /\ TypeOK /\ LinksOK /\ SentinelIntact /\ NoRedRed /\ SuccessorPlace
        /\ RotationsSpent /\ Descending(d) /\ Balanced(h)
        /\ pc = "successor"
    BY DEF InvariantBy, PlaceOK, Unlink
  <1>2. arg \in Linked /\ y \in Linked /\ Linked \subseteq Node
    BY <1>1 DEF TypeOK, SuccessorPlace, Linked
  <1>3. \E s \in Side : child[y][s] = nil
    BY <1>1 DEF SuccessorPlace, Unlink
  <1>4. /\ \A r \in Side : child[y][r] \in {Heir, nil}
        /\ \E r \in Side : child[y][r] = Heir
    BY <1>3 DEF Heir
  <1>5. /\ Heir \in Linked \cup {nil} /\ (Heir # nil => parent[Heir] = y /\ d[y] < d[Heir])
    BY <1>1, <1>2, <1>4 DEF LinksOK, Descending
  <1>6. parent[y] # nil => parent[y] \in Linked /\ \E s \in Side : child[parent[y]][s] = y
    BY <1>1, <1>2 DEF LinksOK
  <1>7. y = root => parent[y] = nil
    BY <1>1, <1>2 DEF LinksOK
  <1>8. y # root => parent[y] # nil
    BY <1>1, <1>2 DEF LinksOK
  <1>9. parent[y] # nil => child[parent[y]][SlotOf(child, parent[y], y)] = y
    BY <1>6 DEF SlotOf
  <1>10. Heir # y /\ parent[y] # y
    <2>1. parent[y] # nil => d[parent[y]] < d[y]
      BY <1>1, <1>2, <1>6 DEF Descending
    <2>2. d[y] \in Nat
      BY <1>2
    <2> QED BY <1>2, <1>5, <2>1, <2>2
  <1>11. \A n \in Linked, r \in Side : h[n] = h[child[n][r]] + Ink(child[n][r])
    BY <1>1, PlainBalance DEF PlainlyBalanced, BlackBlackLabels
  <1>12. h[y] = h[Heir] + Ink(Heir)
    BY <1>2, <1>4, <1>11
  <1>13. /\ \A n \in Linked : color[n] = "red" /\ parent[n] # nil => color[parent[n]] = "black"
         /\ color[root] = "black"
    BY <1>1, <1>2 DEF NoRedRed, TypeOK, RedRedLabels
  <1>14. rotations = 0
    BY <1>1 DEF RotationsSpent, RedRedLabels, BlackBlackLabels
  <1> QED
    BY <1>2, <1>4, <1>5, <1>6, <1>7, <1>8, <1>9, <1>10, <1>11, <1>12, <1>13, <1>14
    DEF Cuttable

\* The node to remove has one child at most: the child moves up.
LEMMA CutStep ==
    ASSUME TypeOK', NEW d \in [Ref -> Nat], NEW h \in [Ref -> Nat], InvariantBy(d, h),
           Unlink, y = arg
    PROVE  IInv'
  <1>1. /\ TypeOK /\ LinksOK /\ SentinelIntact /\ DetachedPristine /\ Descending(d)
        /\ h[nil] = 0
    BY DEF InvariantBy, Balanced
  <1>2. PICK v, z, q, k : /\ v = y /\ z = Heir /\ q = parent[y] /\ k = SlotOf(child, q, v)
                          /\ Cuttable(v, z, q, h)
    BY CutKin
  <1>3. /\ v \in Linked /\ v # nil /\ q = parent[v] /\ q # v
        /\ z \in Linked \cup {nil} /\ z # v
        /\ \A r \in Side : child[v][r] \in {z, nil}
        /\ z # nil => parent[z] = v
        /\ q \in Linked \cup {nil} /\ (q = nil <=> v = root)
        /\ q # nil => child[q][k] = v
        /\ h[v] = h[z] + Ink(z)
        /\ \A n \in Linked, r \in Side : h[n] = h[child[n][r]] + Ink(child[n][r])
        /\ \A n \in Linked : color[n] = "red" /\ parent[n] # nil => color[parent[n]] = "black"
        /\ color[root] = "black"
    BY <1>2 DEF Cuttable
  <1>4. k \in Side /\ Other(k) \in Side /\ Other(k) # k /\ \A r \in Side : r = k \/ r = Other(k)
    <2>1. k \in Side /\ Other(k) \in Side /\ Other(k) # k
      BY <1>2, SlotSides
    <2> QED BY <2>1
  <1>5. Linked \subseteq Node /\ Linked \subseteq Ref /\ Detached \cap Linked = {}
        /\ Detached \subseteq Node
        /\ child \in [Ref -> [Side -> Ref]] /\ parent \in [Ref -> Ref]
        /\ color \in [Ref -> Color] /\ root \in Ref
        /\ status \in [Node -> {"free", "detached", "linked"}]
    BY <1>1 DEF Linked, Detached, TypeOK
  <1>6. /\ parent' = [[parent EXCEPT ![z] = q] EXCEPT ![v] = nil]
        /\ child' = [Relinked(child, q, v, z) EXCEPT ![v] = [s \in Side |-> nil]]
        /\ color' = [color EXCEPT ![v] = "red"]
        /\ root' = IF q = nil THEN z ELSE root
        /\ status' = [status EXCEPT ![v] = "free"]
        /\ IF color[v] = "black" THEN pc' = "blackblack" /\ x' = z ELSE pc' = "idle"
    BY <1>2 DEF Unlink, CutOut, Freed, NeedsFixup, Return
  <1>7. rotations' = 0
    BY CutKin DEF Unlink, Return
  <1>8. /\ parent'[z] = q
        /\ \A n \in Ref : n # z /\ n # v => parent'[n] = parent[n]
        /\ \A n \in Ref : n # v => color'[n] = color[n]
    BY <1>3, <1>5, <1>6
  <1>9. /\ q # nil => child'[q][k] = z /\ child'[q][Other(k)] = child[q][Other(k)]
        /\ \A n \in Ref : n # v /\ (n # q \/ n = nil) => child'[n] = child[n]
    <2>1. CASE q = nil
      BY <1>3, <1>5, <1>6, <2>1 DEF Relinked
    <2>2. CASE q # nil
      <3>1. Relinked(child, q, v, z) = [child EXCEPT ![q][k] = z]
        BY <1>2, <2>2 DEF Relinked
      <3>2. child' = [[child EXCEPT ![q][k] = z] EXCEPT ![v] = [s \in Side |-> nil]]
        BY <1>6, <3>1
      <3> QED BY <1>3, <1>4, <1>5, <2>2, <3>2
    <2> QED BY <2>1, <2>2
  <1>10. Linked' = Linked \ {v} /\ Detached' = Detached
    BY <1>3, <1>5, <1>6 DEF Linked, Detached
  <1>11. \A n \in Linked, r \in Side :
            /\ child[n][r] # nil => child[n][r] \in Linked /\ parent[child[n][r]] = n
                                       /\ child[n][Other(r)] # child[n][r]
            /\ child[n][r] \in Ref
    BY <1>1, <1>5 DEF LinksOK, Other
  <1>12. ASSUME NEW n \in Linked', NEW r \in Side
         PROVE  \/ n = q /\ q # nil /\ r = k /\ child'[n][r] = z
                \/ /\ child'[n][r] = child[n][r] /\ ~(n = q /\ r = k)
                   /\ child[n][r] # v /\ (child[n][r] # nil => child[n][r] # z)
    <2>1. n \in Linked /\ n # v /\ n \in Ref /\ n # nil
      BY <1>5, <1>10
    <2>2. CASE n = q /\ r = k
      BY <1>9, <2>1, <2>2
    <2>3. CASE ~(n = q /\ r = k)
      <3>1. child'[n][r] = child[n][r]
        BY <1>4, <1>9, <2>1, <2>3
      <3>2. child[n][r] # v
        BY <1>3, <1>4, <1>11, <2>1, <2>3
      <3>3. child[n][r] # nil => child[n][r] # z
        BY <1>3, <1>11, <2>1
      <3> QED BY <2>3, <3>1, <3>2, <3>3
    <2> QED BY <2>2, <2>3
  <1>13. LinksOK'
    <2>1. root' # nil => root' \in Linked' /\ parent'[root'] = nil
      <3>1. root # nil => root \in Linked /\ parent[root] = nil
        BY <1>1 DEF LinksOK
      <3>2. CASE q = nil
        BY <1>3, <1>6, <1>8, <1>10, <3>2
      <3>3. CASE q # nil
        <4>1. root # v /\ (root # nil => root # z)
          BY <1>3, <3>1, <3>3
        <4> QED BY <1>5, <1>6, <1>8, <1>10, <3>1, <3>3, <4>1
      <3> QED BY <3>2, <3>3
    <2>2. ASSUME NEW n \in Linked', NEW r \in Side, child'[n][r] # nil
          PROVE  child'[n][r] \in Linked' /\ parent'[child'[n][r]] = n
      <3>1. CASE n = q /\ r = k /\ child'[n][r] = z
        BY <1>3, <1>8, <1>10, <2>2, <3>1
      <3>2. CASE /\ child'[n][r] = child[n][r]
                 /\ child[n][r] # v /\ (child[n][r] # nil => child[n][r] # z)
        BY <1>8, <1>10, <1>11, <2>2, <3>2
      <3> QED BY <1>12, <3>1, <3>2
    <2>3. ASSUME NEW n \in Linked'
          PROVE  child'[n]["left"] = child'[n]["right"] => child'[n]["left"] = nil
      <3>1. n \in Linked
        BY <1>10
      <3>2. child[n]["left"] = child[n]["right"] => child[n]["left"] = nil
        BY <1>1, <3>1 DEF LinksOK
      <3> QED BY <1>12, <3>2
    <2>4. ASSUME NEW n \in Linked'
          PROVE  IF n = root' THEN parent'[n] = nil
                 ELSE parent'[n] \in Linked' /\ \E r \in Side : child'[parent'[n]][r] = n
      <3>1. n \in Linked /\ n # v /\ n # nil /\ n \in Ref
        BY <1>5, <1>10
      <3>2. CASE n = z
        <4>1. CASE q = nil
          BY <1>6, <1>8, <3>2, <4>1
        <4>2. CASE q # nil
          <5>1. z # root
            BY <1>1, <1>3, <3>1, <3>2 DEF LinksOK
          <5>2. q \in Linked' /\ child'[q][k] = z /\ root' = root
            BY <1>3, <1>6, <1>9, <1>10, <4>2
          <5> QED BY <1>4, <1>8, <3>2, <5>1, <5>2
        <4> QED BY <4>1, <4>2
      <3>3. CASE n # z
        <4>1. parent'[n] = parent[n]
          BY <1>8, <3>1, <3>3
        <4>2. IF n = root THEN parent[n] = nil
              ELSE parent[n] \in Linked /\ \E r \in Side : child[parent[n]][r] = n
          BY <1>1, <3>1 DEF LinksOK
        <4>3. n = root <=> n = root'
          BY <1>3, <1>6, <3>1, <3>3
        <4>4. ASSUME parent[n] \in Linked, NEW r \in Side, child[parent[n]][r] = n
              PROVE  parent[n] # v /\ child'[parent[n]][r] = n
          <5>1. parent[n] # v
            BY <1>3, <3>1, <3>3, <4>4
          <5>2. ~(parent[n] = q /\ r = k)
            BY <1>3, <1>5, <3>1, <4>4
          <5> QED BY <1>10, <1>12, <4>4, <5>1, <5>2
        <4> QED BY <1>10, <4>1, <4>2, <4>3, <4>4
      <3> QED BY <3>2, <3>3
    <2> QED BY <2>1, <2>2, <2>3, <2>4 DEF LinksOK
  <1>14. \A n \in Linked', r \in Side : child'[n][r] # nil => d[n] < d[child'[n][r]]
    <2> SUFFICES ASSUME NEW n \in Linked', NEW r \in Side, child'[n][r] # nil
                 PROVE  d[n] < d[child'[n][r]]
      OBVIOUS
    <2>1. \A m \in Linked, c \in Side : child[m][c] # nil => d[m] < d[child[m][c]]
      BY <1>1 DEF Descending
    <2>2. CASE n = q /\ q # nil /\ r = k /\ child'[n][r] = z
      <3>1. d[q] < d[v]
        BY <1>3, <1>4, <2>1, <2>2
      <3>2. z # nil => d[v] < d[z]
        <4>1. z # nil => \E c \in Side : child[v][c] = z
          BY <1>2 DEF Cuttable
        <4> QED BY <1>3, <2>1, <4>1
      <3>3. d[q] \in Nat /\ d[v] \in Nat /\ d[z] \in Nat
        BY <1>3, <1>5
      <3> QED BY <2>2, <3>1, <3>2, <3>3
    <2>3. CASE child'[n][r] = child[n][r]
      BY <1>10, <2>1, <2>3
    <2> QED BY <1>12, <2>2, <2>3
  <1>15. SentinelIntact' /\ DetachedPristine'
    <2>1. SentinelIntact'
      BY <1>1, <1>3, <1>8, <1>9 DEF SentinelIntact
    <2>2. ASSUME NEW n \in Detached' PROVE IsPristine(n)'
      <3>1. n \in Detached /\ n \in Ref /\ n # nil /\ n # v /\ n # z /\ n # q
        BY <1>3, <1>5, <1>10
      <3>2. IsPristine(n)
        BY <1>1, <3>1 DEF DetachedPristine
      <3>3. child'[n] = child[n] /\ parent'[n] = parent[n] /\ color'[n] = color[n]
        BY <1>8, <1>9, <3>1
      <3> QED BY <3>2, <3>3 DEF IsPristine
    <2> QED BY <2>1, <2>2 DEF DetachedPristine
  <1>16. q # nil => h[q] = h[v] + Ink(v)
    BY <1>3, <1>4
  <1>17. q # nil /\ color[v] = "black" => child'[q][Other(k)] # z
    <2> SUFFICES ASSUME q # nil, color[v] = "black", child'[q][Other(k)] = z PROVE FALSE
      OBVIOUS
    <2>1. child[q][Other(k)] = z
      BY <1>9
    <2>2. z = nil
      BY <1>3, <1>4, <1>11, <2>1
    <2>3. h[q] = h[nil] + Ink(nil) /\ h[v] = h[nil] + Ink(nil) /\ h[q] = h[v] + Ink(v)
      BY <1>3, <1>4, <1>16, <2>1, <2>2
    <2>4. Ink(nil) = 1 /\ Ink(v) = 1
      BY <1>1 DEF Ink, SentinelIntact
    <2> QED BY <1>1, <2>3, <2>4
  <1>18. Balanced(h)'
    <2> DEFINE Inked(n) == IF color'[n] = "black" THEN 1 ELSE 0
               Due(n, r) == IF n = q /\ r = k /\ color[v] = "black" THEN 1 ELSE 0
    <2>1. \A n \in Ref : n # v => Inked(n) = Ink(n)
      BY <1>8 DEF Ink
    <2>2. Ink(v) = IF color[v] = "black" THEN 1 ELSE 0
      BY DEF Ink
    <2>3. ASSUME NEW n \in Linked', NEW r \in Side
          PROVE  h[n] = h[child'[n][r]] + Inked(child'[n][r]) + Due(n, r)
      <3>1. CASE n = q /\ q # nil /\ r = k /\ child'[n][r] = z
        <4>1. Inked(z) = Ink(z) /\ Ink(z) \in {0, 1}
          BY <1>3, <1>5, <2>1 DEF Ink
        <4>2. h[q] = h[z] + Ink(z) + Due(q, k)
          BY <1>3, <1>16, <2>2, <3>1
        <4> HIDE DEF Inked, Due
        <4> QED BY <3>1, <4>1, <4>2
      <3>2. CASE /\ child'[n][r] = child[n][r] /\ ~(n = q /\ r = k)
                 /\ child[n][r] # v
        <4>1. n \in Linked /\ child[n][r] \in Ref
          BY <1>10, <1>11
        <4>2. Inked(child[n][r]) = Ink(child[n][r]) /\ Ink(child[n][r]) \in {0, 1}
          BY <2>1, <3>2, <4>1 DEF Ink
        <4>3. h[n] = h[child[n][r]] + Ink(child[n][r]) /\ h[child[n][r]] \in Nat
          BY <1>3, <4>1
        <4>4. Due(n, r) = 0
          BY <3>2
        <4> HIDE DEF Inked, Due
        <4> QED BY <3>2, <4>2, <4>3, <4>4
      <3> QED BY <1>12, <3>1, <3>2
    <2>4. ASSUME NEW n \in Linked', NEW r \in Side
          PROVE  Weight(n, r)' = Inked(child'[n][r]) + Due(n, r)
      <3>0. n # nil
        BY <1>5, <1>10
      <3>1. CASE color[v] = "black"
        <4>1. Lacks(n, r)' <=> n = q /\ r = k
          <5>1. Lacks(n, r)' <=> n = q /\ child'[n][r] = z /\ child'[n][Other(r)] # z
            BY <1>6, <1>8, <3>1 DEF Lacks, BlackBlackLabels
          <5>2. n = q => child'[n][k] = z /\ child'[n][Other(k)] # z
            BY <1>9, <1>17, <3>0, <3>1
          <5> QED BY <1>4, <5>1, <5>2
        <4> QED BY <3>1, <4>1 DEF Weight
      <3>2. CASE color[v] # "black"
        <4>1. ~Lacks(n, r)'
          BY <1>6, <3>2 DEF Lacks, BlackBlackLabels
        <4> QED BY <3>2, <4>1 DEF Weight
      <3> QED BY <3>1, <3>2
    <2>5. ASSUME NEW n \in Linked', NEW r \in Side
          PROVE  h[n] = h[child'[n][r]] + Weight(n, r)'
      <3>1. n \in Linked /\ child'[n][r] \in Ref
        BY <1>3, <1>5, <1>10, <1>11, <1>12
      <3>2. Inked(child'[n][r]) \in {0, 1} /\ Due(n, r) \in {0, 1} /\ h[child'[n][r]] \in Nat
        BY <3>1
      <3> HIDE DEF Inked, Due
      <3> QED BY <2>3, <2>4, <3>2
    <2> QED BY <1>1, <2>5 DEF Balanced
  <1>19. NoRedRed'
    <2>1. ASSUME NEW n \in Linked', color'[n] = "red", parent'[n] # nil,
                 color'[parent'[n]] = "red"
          PROVE  n = x' /\ pc' = "blackblack"
      <3>1. n \in Linked /\ n # v /\ n # nil /\ color[n] = "red"
        BY <1>5, <1>8, <1>10, <2>1
      <3>2. n = z
        <4> SUFFICES ASSUME n # z PROVE FALSE
          OBVIOUS
        <4>1. parent'[n] = parent[n]
          BY <1>5, <1>8, <3>1
        <4>2. parent[n] # v
          <5>1. parent[n] \in Linked'
            BY <1>13, <2>1, <4>1 DEF LinksOK
          <5> QED BY <1>10, <5>1
        <4>3. color[parent[n]] = "red"
          BY <1>5, <1>8, <2>1, <3>1, <4>1, <4>2
        <4> QED BY <1>3, <2>1, <3>1, <4>1, <4>3
      <3>3. color[v] = "black"
        BY <1>3, <3>1, <3>2
      <3> QED BY <1>6, <3>2, <3>3
    <2>2. color'[root'] = "red" => root' = x' /\ pc' = "blackblack"
      BY <1>3, <1>5, <1>6, <1>8
    <2> QED BY <2>1, <2>2 DEF NoRedRed
  <1>20. PlaceOK'
    <2>1. color[v] = "black" => BlackBlackPlace'
      <3> SUFFICES ASSUME color[v] = "black" PROVE BlackBlackPlace'
        OBVIOUS
      <3>1. z \in Linked' \cup {nil}
        BY <1>3, <1>10
      <3>2. z # root' => q \in Linked' /\ child'[q][k] = z /\ child'[q][Other(k)] # z
        BY <1>3, <1>6, <1>9, <1>10, <1>17
      <3> QED BY <1>4, <1>6, <1>8, <3>1, <3>2 DEF BlackBlackPlace
    <2> QED BY <1>6, <2>1 DEF PlaceOK, SearchPlace, RedRedPlace, SuccessorPlace,
                              BlackBlackPlace, RedRedLabels, BlackBlackLabels
  <1>21. RotationsSpent' /\ pc' # "successor"
    BY <1>6, <1>7 DEF RotationsSpent, RedRedLabels, BlackBlackLabels
  <1> QED
    BY <1>13, <1>14, <1>15, <1>18, <1>19, <1>20, <1>21, InvariantAfter DEF Repaired

\* The links once v has the place of a, with children L and R; its own child z
\* hangs on side c of u, which is v itself when v was R.
Grafted(v, z, q, a, g, k, L, R, u, c) ==
    /\ a \in Linked /\ a # nil /\ a # v /\ g = parent[a] /\ k \in Side
    /\ Other(k) \in Side /\ Other(k) # k
    /\ g \in Linked \cup {nil} /\ (g = nil <=> a = root) /\ g # a /\ g # v
    /\ g # nil => child[g][k] = a
    /\ L = child[a]["left"] /\ R = child[a]["right"]
    /\ L \in Linked /\ R \in Linked /\ L # R /\ L # nil /\ R # nil
    /\ L # a /\ R # a /\ L # v /\ z # a /\ z # L /\ z # R
    /\ parent[L] = a /\ parent[R] = a
    /\ child[v]["left"] = nil /\ child[v]["right"] = z
    /\ u \in Linked /\ u # a /\ u # z /\ c \in Side
    /\ \/ v = R /\ u = v /\ c = "right" /\ q = a
       \/ /\ v # R /\ q # a /\ u = q /\ u # v /\ c = "left" /\ child[q]["left"] = v
          /\ child'[v]["right"] = R
    /\ child'[v]["left"] = L /\ child'[u][c] = z
    /\ g # nil => child'[g][k] = v
    /\ \A n \in Ref, r \in Side :
          \/ n = a \/ (n = v /\ n # nil) \/ (n = u /\ r = c) \/ (n = g /\ n # nil /\ r = k)
          \/ child'[n][r] = child[n][r]
    /\ parent'[v] = g /\ parent'[L] = v /\ parent'[z] = u
    /\ v # R => parent'[R] = v
    /\ \A n \in Ref : n # a /\ n # v /\ n # L /\ n # R /\ n # z => parent'[n] = parent[n]
    /\ root' = IF g = nil THEN v ELSE root

LEMMA Graft ==
    ASSUME NEW d \in [Ref -> Nat], NEW h \in [Ref -> Nat], InvariantBy(d, h),
           Unlink, y # arg, NEW v, NEW z, NEW q, NEW a,
           v = y, z = Heir, q = parent[y], a = arg, Cuttable(v, z, q, h)
    PROVE  /\ \E g, k, L, R, u, c : Grafted(v, z, q, a, g, k, L, R, u, c)
           /\ d[a] < d[v]
  <1> DEFINE g == parent[a]
             k == SlotOf(child, g, a)
             L == child[a]["left"]
             R == child[a]["right"]
             u == IF v = R THEN v ELSE q
             c == IF v = R THEN "right" ELSE "left"
             r0 == IF v = R THEN z ELSE R
             cut == Relinked(child, q, v, z)
             mid == [cut EXCEPT ![v]["left"] = L, ![v]["right"] = r0]
  <1>1. /\ TypeOK /\ LinksOK /\ SuccessorPlace /\ Descending(d) /\ pc = "successor"
    BY DEF InvariantBy, PlaceOK, Unlink
  <1>2. /\ v \in Linked /\ v # nil /\ q = parent[v] /\ q # v
        /\ z \in Linked \cup {nil} /\ z # v
        /\ \A r \in Side : child[v][r] \in {z, nil}
        /\ \E r \in Side : child[v][r] = z
        /\ z # nil => parent[z] = v
        /\ q \in Linked \cup {nil}
    BY DEF Cuttable
  <1>3. /\ child \in [Ref -> [Side -> Ref]] /\ parent \in [Ref -> Ref]
        /\ Linked \subseteq Node /\ Linked \subseteq Ref
    BY <1>1 DEF TypeOK, Linked
  <1>4. a \in Linked /\ a # nil /\ a # v
    BY <1>1, <1>3 DEF TypeOK
  <1>5. /\ \A s \in Side : child[a][s] # nil
        /\ v = R \/ (q # nil /\ q # a /\ child[q]["left"] = v)
        /\ d[a] < d[v]
        /\ child[v]["left"] = nil
    BY <1>1, <1>4 DEF SuccessorPlace, Descending, Unlink
  <1>6. child[v]["right"] = z
    BY <1>5 DEF Heir
  <1>7. /\ L \in Linked /\ R \in Linked /\ L # R /\ L # nil /\ R # nil
        /\ parent[L] = a /\ parent[R] = a
    BY <1>1, <1>4, <1>5 DEF LinksOK
  <1>8. g \in Linked \cup {nil} /\ (g = nil <=> a = root)
        /\ (g # nil => \E s \in Side : child[g][s] = a)
    BY <1>1, <1>3, <1>4 DEF LinksOK
  <1>9. g # nil => child[g][k] = a
    BY <1>8 DEF SlotOf
  <1>10. k \in Side /\ Other(k) \in Side /\ Other(k) # k
    BY SlotSides
  <1>11. v = R => q = a
    BY <1>2, <1>7
  <1>12. v # L
    BY <1>1, <1>2, <1>4, <1>5, <1>7
  <1>13. /\ d[a] \in Nat /\ d[v] \in Nat /\ d[L] \in Nat /\ d[R] \in Nat
         /\ d[a] < d[L] /\ d[a] < d[R]
         /\ z # nil => d[v] < d[z] /\ d[z] \in Nat
         /\ g # nil => d[g] < d[a] /\ d[g] \in Nat
    BY <1>1, <1>2, <1>3, <1>4, <1>7, <1>8, <1>9, <1>10 DEF Descending
  <1> HIDE DEF g, k, L, R
  <1>14. g # a /\ g # v /\ L # a /\ R # a /\ z # a
    BY <1>2, <1>4, <1>5, <1>8, <1>13
  <1>15. z # L /\ z # R
    BY <1>2, <1>4, <1>7
  <1>16. /\ parent' = [[parent EXCEPT ![z] = q, ![v] = g, ![L] = v, ![r0] = v] EXCEPT ![a] = nil]
         /\ child' = [Relinked(mid, g, a, v) EXCEPT ![a] = [s \in Side |-> nil]]
         /\ root' = IF g = nil THEN v ELSE root
    BY DEF Unlink, Replaced, CutOut, Freed, g, L, R
  <1>17. u \in Linked /\ u # a /\ u # z /\ c \in Side /\ u # nil
    <2>1. v # R => q \in Linked /\ q # nil /\ q # a /\ d[q] < d[v] /\ d[q] \in Nat
      BY <1>1, <1>2, <1>3, <1>5 DEF Descending
    <2>2. v # R => q # z
      BY <1>3, <1>13, <2>1
    <2> QED BY <1>2, <1>4, <2>1, <2>2
  <1>18. parent'[v] = g /\ parent'[L] = v /\ parent'[z] = u /\ (v # R => parent'[R] = v)
    <2>1. z \in Ref /\ L \in Ref /\ R \in Ref /\ v \in Ref /\ a \in Ref
      BY <1>2, <1>3, <1>4, <1>7
    <2> QED BY <1>2, <1>3, <1>4, <1>7, <1>12, <1>14, <1>15, <1>16, <2>1
  <1>19. \A n \in Ref : n # a /\ n # v /\ n # L /\ n # R /\ n # z => parent'[n] = parent[n]
    BY <1>3, <1>16
  <1>20. /\ cut \in [Ref -> [Side -> Ref]]
         /\ v # R => cut[q]["left"] = z
         /\ \A n \in Ref, r \in Side :
               cut[n][r] = child[n][r] \/ (v # R /\ n = q /\ r = "left") \/ (v = R /\ n = a)
    <2>1. q # nil => cut = [child EXCEPT ![q][SlotOf(child, q, v)] = z]
      BY DEF Relinked
    <2>2. v # R => SlotOf(child, q, v) = "left" /\ q # nil
      BY <1>5 DEF SlotOf
    <2>3. v = R => q = a
      BY <1>11
    <2>4. SlotOf(child, q, v) \in Side /\ z \in Ref
      BY <1>2, <1>3, SlotSides
    <2>5. q \in Ref
      BY <1>2, <1>3
    <2>6. q # nil
      BY <1>3, <1>4, <1>5, <1>11
    <2> HIDE DEF cut
    <2> QED BY <1>3, <2>1, <2>2, <2>3, <2>4, <2>5, <2>6
  <1>21. /\ mid \in [Ref -> [Side -> Ref]]
         /\ mid[v]["left"] = L /\ mid[v]["right"] = r0
         /\ \A n \in Ref : n # v => mid[n] = cut[n]
    <2>1. v \in Ref /\ L \in Ref /\ R \in Ref /\ z \in Ref
      BY <1>2, <1>3, <1>7
    <2> HIDE DEF cut
    <2> QED BY <1>20, <2>1
  <1> HIDE DEF cut, mid
  <1>22. g # nil => SlotOf(mid, g, a) = k
    <2> SUFFICES ASSUME g # nil PROVE SlotOf(mid, g, a) = k
      OBVIOUS
    <2>1. mid[g] = cut[g] /\ g \in Ref
      BY <1>3, <1>8, <1>14, <1>21
    <2>2. \A r \in Side : (cut[g][r] = a) <=> (child[g][r] = a)
      <3>1. v # R /\ g = q => cut[g]["left"] = z /\ child[g]["left"] = v
        BY <1>5, <1>20
      <3> QED BY <1>4, <1>14, <1>20, <2>1, <3>1
    <2> QED BY <2>1, <2>2 DEF SlotOf, k
  <1>23. /\ g # nil => child'[g][k] = v
         /\ \A n \in Ref, r \in Side :
               n # a /\ ~(n = g /\ n # nil /\ r = k) => child'[n][r] = mid[n][r]
    <2>1. CASE g = nil
      BY <1>4, <1>3, <1>16, <1>21, <2>1 DEF Relinked
    <2>2. CASE g # nil
      <3>1. child' = [[mid EXCEPT ![g][k] = v] EXCEPT ![a] = [s \in Side |-> nil]]
        BY <1>16, <1>22, <2>2 DEF Relinked
      <3>2. v \in Ref /\ g \in Ref /\ a \in Ref
        BY <1>2, <1>3, <1>4, <1>8
      <3> QED BY <1>10, <1>14, <1>21, <2>2, <3>1, <3>2
    <2> QED BY <2>1, <2>2
  <1>24. child'[v]["left"] = L /\ child'[v]["right"] = r0
    BY <1>2, <1>3, <1>4, <1>14, <1>21, <1>23
  <1>25. child'[u][c] = z
    <2>1. CASE v = R
      BY <1>24, <2>1
    <2>2. CASE v # R
      <3>1. q \in Ref /\ q # a /\ q # v /\ q # nil /\ child[q]["left"] = v
        BY <1>2, <1>3, <1>5, <2>2
      <3>2. mid[q]["left"] = z
        BY <1>20, <1>21, <2>2, <3>1
      <3>3. ~(q = g /\ k = "left")
        BY <1>4, <1>9, <3>1
      <3> QED BY <1>23, <2>2, <3>1, <3>2, <3>3
    <2> QED BY <2>1, <2>2
  <1>26. \A n \in Ref, r \in Side :
            \/ n = a \/ (n = v /\ n # nil) \/ (n = u /\ r = c) \/ (n = g /\ n # nil /\ r = k)
            \/ child'[n][r] = child[n][r]
    BY <1>2, <1>20, <1>21, <1>23
  <1>27. \/ v = R /\ u = v /\ c = "right" /\ q = a
         \/ /\ v # R /\ q # a /\ u = q /\ u # v /\ c = "left" /\ child[q]["left"] = v
            /\ child'[v]["right"] = R
    BY <1>2, <1>5, <1>11, <1>24
  <1>28. g = parent[a] /\ L = child[a]["left"] /\ R = child[a]["right"]
    BY DEF g, L, R
  <1> HIDE DEF u, c
  <1>29. Grafted(v, z, q, a, g, k, L, R, u, c)
    BY <1>4, <1>5, <1>6, <1>7, <1>8, <1>9, <1>10, <1>12, <1>14, <1>15, <1>16, <1>17,
       <1>18, <1>19, <1>23, <1>24, <1>25, <1>26, <1>27, <1>28 DEF Grafted
  <1> QED BY <1>5, <1>29

\* Where the links lead after the successor has taken the place of a.
LEMMA GraftedLinks ==
    ASSUME TypeOK, LinksOK, NEW h, NEW v, NEW z, NEW q, NEW a, NEW g, NEW k, NEW L, NEW R,
           NEW u, NEW c, Cuttable(v, z, q, h), Grafted(v, z, q, a, g, k, L, R, u, c),
           NEW n \in Linked, n # a, NEW r \in Side
    PROVE  \/ n = v /\ r = "left" /\ child'[n][r] = L /\ ~(n = u /\ r = c)
           \/ n = v /\ r = "right" /\ child'[n][r] = R /\ v # R /\ ~(n = u /\ r = c)
           \/ n = u /\ r = c /\ child'[n][r] = z
           \/ n = g /\ r = k /\ child'[n][r] = v /\ n # v /\ ~(n = u /\ r = c)
           \/ /\ child'[n][r] = child[n][r]
              /\ child[n][r] \notin {a, v, L, R} /\ (child[n][r] # nil => child[n][r] # z)
              /\ n # v /\ ~(n = u /\ r = c) /\ ~(n = g /\ r = k)
  <1>1. n \in Ref /\ n # nil
    BY DEF Linked
  <1>2. \A s \in Side : child[n][s] # nil => /\ parent[child[n][s]] = n
                                             /\ child[n][Other(s)] # child[n][s]
    BY DEF LinksOK, Other
  <1>3. CASE n = v
    BY <1>3 DEF Grafted
  <1>4. CASE n = u /\ r = c
    BY <1>4 DEF Grafted
  <1>5. CASE n = g /\ r = k /\ ~(n = u /\ r = c)
    BY <1>1, <1>5 DEF Grafted
  <1>6. CASE n # v /\ ~(n = u /\ r = c) /\ ~(n = g /\ r = k)
    <2> DEFINE m == child[n][r]
    <2>1. child'[n][r] = m
      BY <1>1, <1>6 DEF Grafted
    <2>2. m # nil => parent[m] = n
      BY <1>2
    <2>3. m # a
      <3>1. m = a => n = g /\ a # nil /\ child[g][k] = a /\ k \in Side
        BY <1>1, <2>2 DEF Grafted
      <3>2. m = a => r # k
        BY <1>6, <3>1
      <3>3. m = a => child[g][Other(k)] # a
        BY <1>2, <3>1
      <3>4. r = k \/ r = Other(k)
        BY DEF Grafted, Other
      <3> QED BY <3>1, <3>2, <3>3, <3>4
    <2>4. m # v
      <3>1. m = v => n = q /\ v # nil
        BY <2>2 DEF Cuttable
      <3>2. CASE v = R
        BY <3>1, <3>2 DEF Grafted
      <3>3. CASE v # R
        <4>1. u = q /\ c = "left" /\ child[q]["left"] = v
          BY <3>3 DEF Grafted
        <4>2. m = v => r = "right" /\ child[n]["left"] = v
          BY <1>6, <3>1, <4>1
        <4> QED BY <1>2, <3>1, <4>2 DEF Other
      <3> QED BY <3>2, <3>3
    <2>5. m # L /\ m # R
      BY <2>2 DEF Grafted
    <2>6. m # nil => m # z
      BY <1>6, <2>2 DEF Cuttable
    <2> QED BY <1>6, <2>1, <2>3, <2>4, <2>5, <2>6
  <1> QED BY <1>3, <1>4, <1>5, <1>6

LEMMA ReplaceStep ==
    ASSUME TypeOK', NEW d \in [Ref -> Nat], NEW h \in [Ref -> Nat], InvariantBy(d, h),
           Unlink, y # arg
    PROVE  IInv'
  <1>1. /\ TypeOK /\ LinksOK /\ SentinelIntact /\ DetachedPristine /\ Descending(d)
        /\ h[nil] = 0
    BY DEF InvariantBy, Balanced
  <1>2. PICK v, z, q, a : /\ v = y /\ z = Heir /\ q = parent[y] /\ a = arg
                          /\ Cuttable(v, z, q, h)
    BY CutKin
  <1>3. PICK g, k, L, R, u, c : Grafted(v, z, q, a, g, k, L, R, u, c)
    BY <1>2, Graft
  <1>4. d[a] < d[v]
    BY <1>2, Graft
  <1>5. /\ v \in Linked /\ v # nil /\ q = parent[v] /\ q # v
        /\ z \in Linked \cup {nil} /\ z # v
        /\ z # nil => parent[z] = v
        /\ h[v] = h[z] + Ink(z)
        /\ \A n \in Linked, r \in Side : h[n] = h[child[n][r]] + Ink(child[n][r])
        /\ \A n \in Linked : color[n] = "red" /\ parent[n] # nil => color[parent[n]] = "black"
        /\ color[root] = "black"
    BY <1>2 DEF Cuttable
  <1>6. Linked \subseteq Node /\ Linked \subseteq Ref /\ Detached \cap Linked = {}
        /\ Detached \subseteq Node
        /\ child \in [Ref -> [Side -> Ref]] /\ parent \in [Ref -> Ref]
        /\ color \in [Ref -> Color] /\ root \in Ref
        /\ status \in [Node -> {"free", "detached", "linked"}]
    BY <1>1 DEF Linked, Detached, TypeOK
  <1>7. /\ a \in Linked /\ a # nil /\ a # v /\ g = parent[a] /\ k \in Side
        /\ Other(k) \in Side /\ Other(k) # k
        /\ g \in Linked \cup {nil} /\ (g = nil <=> a = root) /\ g # a /\ g # v
        /\ g # nil => child[g][k] = a
        /\ L = child[a]["left"] /\ R = child[a]["right"]
        /\ L \in Linked /\ R \in Linked /\ L # R /\ L # nil /\ R # nil
        /\ L # a /\ R # a /\ L # v /\ z # a /\ z # L /\ z # R
        /\ parent[L] = a /\ parent[R] = a
        /\ child[v]["left"] = nil /\ child[v]["right"] = z
        /\ u \in Linked /\ u # a /\ u # z /\ c \in Side
    BY <1>3 DEF Grafted
  <1>8. \/ v = R /\ u = v /\ c = "right" /\ q = a
        \/ /\ v # R /\ q # a /\ u = q /\ u # v /\ c = "left" /\ child[q]["left"] = v
           /\ child'[v]["right"] = R
    BY <1>3 DEF Grafted
  <1>9. /\ child'[v]["left"] = L /\ child'[u][c] = z
        /\ g # nil => child'[g][k] = v
        /\ \A n \in Ref, r \in Side :
              \/ n = a \/ (n = v /\ n # nil) \/ (n = u /\ r = c) \/ (n = g /\ n # nil /\ r = k)
              \/ child'[n][r] = child[n][r]
        /\ parent'[v] = g /\ parent'[L] = v /\ parent'[z] = u
        /\ v # R => parent'[R] = v
        /\ \A n \in Ref : n # a /\ n # v /\ n # L /\ n # R /\ n # z => parent'[n] = parent[n]
        /\ root' = IF g = nil THEN v ELSE root
    BY <1>3 DEF Grafted
  <1>10. /\ color' = [[color EXCEPT ![v] = color[a]] EXCEPT ![a] = "red"]
         /\ status' = [status EXCEPT ![a] = "free"]
         /\ IF color[v] = "black" THEN pc' = "blackblack" /\ x' = z ELSE pc' = "idle"
    BY <1>2 DEF Unlink, Replaced, CutOut, Freed, NeedsFixup, Return
  <1>11. rotations' = 0
    BY CutKin DEF Unlink, Return
  <1>12. color'[v] = color[a] /\ \A n \in Ref : n # a /\ n # v => color'[n] = color[n]
    BY <1>5, <1>6, <1>7, <1>10
  <1>13. Linked' = Linked \ {a} /\ Detached' = Detached
    BY <1>6, <1>7, <1>10 DEF Linked, Detached
  <1>14. ASSUME NEW n \in Linked', NEW r \in Side
         PROVE  \/ n = v /\ r = "left" /\ child'[n][r] = L /\ ~(n = u /\ r = c)
                \/ n = v /\ r = "right" /\ child'[n][r] = R /\ v # R /\ ~(n = u /\ r = c)
                \/ n = u /\ r = c /\ child'[n][r] = z
                \/ n = g /\ r = k /\ child'[n][r] = v /\ n # v /\ ~(n = u /\ r = c)
                \/ /\ child'[n][r] = child[n][r]
                   /\ child[n][r] \notin {a, v, L, R} /\ (child[n][r] # nil => child[n][r] # z)
                   /\ n # v /\ ~(n = u /\ r = c) /\ ~(n = g /\ r = k)
    <2>1. n \in Linked /\ n # a
      BY <1>13
    <2> QED BY <1>1, <1>2, <1>3, <2>1, GraftedLinks
  <1>15. \A n \in Linked, r \in Side :
            /\ child[n][r] # nil => /\ child[n][r] \in Linked /\ parent[child[n][r]] = n
                                    /\ child[n][Other(r)] # child[n][r]
            /\ child[n][r] \in Ref
    BY <1>1, <1>6 DEF LinksOK, Other
  <1>16. root # nil => root \in Linked /\ parent[root] = nil
    BY <1>1 DEF LinksOK
  <1>17. LinksOK'
    <2>1. root' # nil => root' \in Linked' /\ parent'[root'] = nil
      <3>1. CASE g = nil
        BY <1>5, <1>7, <1>9, <1>13, <3>1
      <3>2. CASE g # nil
        <4>1. root # nil => root \notin {a, v, L, R, z}
          <5>1. q # nil
            BY <1>6, <1>7, <1>8
          <5> QED BY <1>5, <1>6, <1>7, <1>16, <3>2, <5>1
        <4> QED BY <1>6, <1>9, <1>13, <1>16, <3>2, <4>1
      <3> QED BY <3>1, <3>2
    <2>2. ASSUME NEW n \in Linked', NEW r \in Side, child'[n][r] # nil
          PROVE  child'[n][r] \in Linked' /\ parent'[child'[n][r]] = n
      <3>1. CASE n = v /\ r = "left" /\ child'[n][r] = L
        BY <1>7, <1>9, <1>13, <3>1
      <3>2. CASE n = v /\ r = "right" /\ child'[n][r] = R /\ v # R
        BY <1>7, <1>9, <1>13, <3>2
      <3>3. CASE n = u /\ r = c /\ child'[n][r] = z
        BY <1>5, <1>7, <1>9, <1>13, <2>2, <3>3
      <3>4. CASE n = g /\ r = k /\ child'[n][r] = v
        BY <1>5, <1>7, <1>9, <1>13, <3>4
      <3>5. CASE /\ child'[n][r] = child[n][r]
                 /\ child[n][r] \notin {a, v, L, R} /\ (child[n][r] # nil => child[n][r] # z)
        BY <1>9, <1>13, <1>15, <2>2, <3>5
      <3> QED BY <1>14, <3>1, <3>2, <3>3, <3>4, <3>5
    <2>3. ASSUME NEW n \in Linked', child'[n]["left"] = child'[n]["right"],
                 child'[n]["left"] # nil
          PROVE  FALSE
      <3>1. n \in Linked
        BY <1>13
      <3>2. child[n]["left"] = child[n]["right"] => child[n]["left"] = nil
        BY <1>1, <3>1 DEF LinksOK
      <3>3. CASE n = v
        BY <1>7, <1>8, <1>9, <2>3, <3>3
      <3>4. CASE n # v
        <4> DEFINE l == child'[n]["left"]
                   r == child'[n]["right"]
        <4>1. \/ l = z /\ z # nil
              \/ l = v
              \/ l = child[n]["left"] /\ l \notin {v, z}
          BY <1>14, <2>3, <3>4
        <4>2. \/ n = u /\ c = "left" /\ l = z
              \/ n = g /\ k = "left" /\ l = v
              \/ l = child[n]["left"] /\ l \notin {v, z}
          BY <1>14, <2>3, <3>4
        <4>3. \/ n = u /\ c = "right" /\ r = z
              \/ n = g /\ k = "right" /\ r = v
              \/ r = child[n]["right"] /\ r \notin {v, z}
          BY <1>14, <2>3, <3>4
        <4> QED BY <1>5, <2>3, <3>2, <4>2, <4>3
      <3> QED BY <3>3, <3>4
    <2>4. ASSUME NEW n \in Linked'
          PROVE  IF n = root' THEN parent'[n] = nil
                 ELSE parent'[n] \in Linked' /\ \E r \in Side : child'[parent'[n]][r] = n
      <3>1. n \in Linked /\ n # a /\ n # nil /\ n \in Ref
        BY <1>6, <1>13
      <3>2. v \in Linked' /\ u \in Linked' /\ v \in Linked
        BY <1>5, <1>7, <1>13
      <3>3. root # v
        <4>1. q # nil
          BY <1>6, <1>7, <1>8
        <4> QED BY <1>5, <1>16, <4>1
      <3>4. CASE n = v
        <4>1. g = nil \/ (g \in Linked' /\ child'[g][k] = v /\ root' = root)
          BY <1>7, <1>9, <1>13
        <4> QED BY <1>7, <1>9, <3>3, <3>4, <4>1
      <3>5. CASE n = L
        <4>1. n # root'
          BY <1>7, <1>9, <1>16, <3>5
        <4> QED BY <1>9, <3>2, <3>5, <4>1
      <3>6. CASE n = R /\ v # R
        <4>1. n # root'
          BY <1>7, <1>9, <1>16, <3>6
        <4>2. child'[v]["right"] = R
          BY <1>8, <3>6
        <4> QED BY <1>9, <3>2, <3>6, <4>1, <4>2
      <3>7. CASE n = z
        <4>1. n # root'
          BY <1>5, <1>9, <1>16, <3>1, <3>7
        <4> QED BY <1>7, <1>9, <3>2, <3>7, <4>1
      <3>8. CASE n \notin {v, L, R, z}
        <4>1. parent'[n] = parent[n]
          BY <1>9, <3>1, <3>8
        <4>2. IF n = root THEN parent[n] = nil
              ELSE parent[n] \in Linked /\ \E r \in Side : child[parent[n]][r] = n
          BY <1>1, <3>1 DEF LinksOK
        <4>3. n = root <=> n = root'
          BY <1>7, <1>9, <3>1, <3>8
        <4>4. ASSUME parent[n] \in Linked, NEW r \in Side, child[parent[n]][r] = n
              PROVE  parent[n] \in Linked' /\ child'[parent[n]][r] = n
          <5>1. parent[n] # a
            BY <1>7, <3>8, <4>4
          <5>2. parent[n] # v
            BY <1>7, <3>1, <3>8, <4>4
          <5>3. parent[n] \in Linked'
            BY <1>13, <4>4, <5>1
          <5>4. ~(parent[n] = u /\ r = c)
            BY <1>8, <3>8, <4>4, <5>2
          <5>5. ~(parent[n] = g /\ r = k)
            BY <1>6, <1>7, <3>1, <4>4
          <5> QED BY <1>14, <4>4, <5>2, <5>3, <5>4, <5>5
        <4> QED BY <4>1, <4>2, <4>3, <4>4
      <3> QED BY <3>4, <3>5, <3>6, <3>7, <3>8
    <2> QED BY <2>1, <2>2, <2>3, <2>4 DEF LinksOK
  <1>18. \A n \in Linked' : n \in Linked /\ n \in Ref /\ n # nil /\ n # a
    BY <1>6, <1>13
  <1>19. \E e \in [Ref -> Nat] : \A n \in Linked', r \in Side :
            child'[n][r] # nil => e[n] < e[child'[n][r]]
    <2>1. PICK f \in [Ref -> Nat] : f[v] = d[a] /\ \A n \in Ref : n # v => f[n] = d[n]
      <3>1. [d EXCEPT ![v] = d[a]] \in [Ref -> Nat]
        BY <1>6, <1>7
      <3> QED BY <1>5, <1>6, <3>1
    <2>2. \A m \in Linked, s \in Side : child[m][s] # nil => d[m] < d[child[m][s]]
      BY <1>1 DEF Descending
    <2>3. d[a] < d[L] /\ d[a] < d[R]
      BY <1>7, <2>2
    <2>4. z # nil => d[v] < d[z]
      BY <1>5, <1>7, <2>2
    <2>5. v # R => d[q] < d[v]
      BY <1>6, <1>7, <1>8, <2>2, <1>5
    <2>6. g # nil => d[g] < d[a]
      BY <1>7, <2>2
    <2>7. /\ d[a] \in Nat /\ d[v] \in Nat /\ d[q] \in Nat /\ d[z] \in Nat
      BY <1>5, <1>6, <1>7
    <2>8. f[L] = d[L] /\ f[z] = d[z] /\ (v # R => f[R] = d[R] /\ f[q] = d[q]) /\ f[g] = d[g]
      BY <1>5, <1>6, <1>7, <1>8, <2>1
    <2> SUFFICES ASSUME NEW n \in Linked', NEW r \in Side, child'[n][r] # nil
                 PROVE  f[n] < f[child'[n][r]]
      OBVIOUS
    <2>9. CASE n = v /\ r = "left" /\ child'[n][r] = L
      BY <2>1, <2>3, <2>8, <2>9
    <2>10. CASE n = v /\ r = "right" /\ child'[n][r] = R /\ v # R
      BY <2>1, <2>3, <2>8, <2>10
    <2>11. CASE n = u /\ r = c /\ child'[n][r] = z
      <3>1. u = v => f[u] < f[z]
        BY <1>4, <2>1, <2>4, <2>7, <2>8, <2>11
      <3>2. u # v => f[u] < f[z]
        BY <1>8, <2>4, <2>5, <2>7, <2>8, <2>11
      <3> QED BY <2>11, <3>1, <3>2
    <2>12. CASE n = g /\ r = k /\ child'[n][r] = v
      BY <1>18, <2>1, <2>6, <2>8, <2>12
    <2>13. CASE child'[n][r] = child[n][r] /\ child[n][r] # v /\ n # v
      <3>1. child[n][r] \in Ref /\ n \in Ref /\ n \in Linked
        BY <1>15, <1>18
      <3>2. f[n] = d[n] /\ f[child[n][r]] = d[child[n][r]]
        BY <2>1, <2>13, <3>1
      <3> QED BY <2>2, <2>13, <3>1, <3>2
    <2> QED BY <1>14, <2>9, <2>10, <2>11, <2>12, <2>13
  <1>20. SentinelIntact' /\ DetachedPristine'
    <2>1. \A n \in Ref : n \notin Linked => /\ n # a /\ n # v /\ n # u /\ n # L /\ n # R
                                            /\ (n # nil => n # g /\ n # z)
      BY <1>5, <1>7
    <2>2. \A n \in Ref, r \in Side : n \notin Linked => child'[n][r] = child[n][r]
      BY <1>9, <2>1
    <2>3. \A n \in Ref : n \notin Linked => color'[n] = color[n]
      BY <1>12, <2>1
    <2>4. SentinelIntact'
      <3>1. nil \in Ref /\ nil \notin Linked
        BY <1>6
      <3> QED BY <1>1, <2>2, <2>3, <3>1 DEF SentinelIntact
    <2>5. ASSUME NEW n \in Detached' PROVE IsPristine(n)'
      <3>1. n \in Detached /\ n \in Ref /\ n # nil /\ n \notin Linked
        BY <1>6, <1>13
      <3>2. IsPristine(n)
        BY <1>1, <3>1 DEF DetachedPristine
      <3>3. parent'[n] = parent[n] /\ color'[n] = color[n] /\ \A r \in Side : child'[n][r] = child[n][r]
        BY <1>9, <2>1, <2>2, <2>3, <3>1
      <3> QED BY <3>2, <3>3 DEF IsPristine
    <2> QED BY <2>4, <2>5 DEF DetachedPristine
  <1>21. u # v => h[q] = h[v] + Ink(v)
    BY <1>7, <1>8, <1>5
  <1>22. color[v] = "black" => child'[u][Other(c)] # z
    <2> SUFFICES ASSUME color[v] = "black", child'[u][Other(c)] = z PROVE FALSE
      OBVIOUS
    <2>1. CASE u = v
      BY <1>7, <1>8, <1>9, <2>1 DEF Other
    <2>2. CASE u # v
      <3>1. u = q /\ c = "left" /\ Other(c) = "right" /\ child'[q]["right"] = z /\ q \in Linked'
        BY <1>7, <1>8, <1>13, <2>2 DEF Other
      <3>2. z = nil /\ child[q]["right"] = nil
        BY <1>5, <1>14, <2>2, <3>1
      <3>3. h[q] = h[nil] + Ink(nil) /\ h[v] = h[nil] + Ink(nil) /\ h[q] = h[v] + Ink(v)
        BY <1>5, <1>7, <1>21, <2>2, <3>1, <3>2
      <3>4. Ink(nil) = 1 /\ Ink(v) = 1
        BY <1>1 DEF Ink, SentinelIntact
      <3> QED BY <1>1, <3>3, <3>4
    <2> QED BY <2>1, <2>2
  <1>23. \E j \in [Ref -> Nat] : Balanced(j)'
    <2>1. PICK j \in [Ref -> Nat] : j[v] = h[a] /\ \A n \in Ref : n # v => j[n] = h[n]
      <3>1. [h EXCEPT ![v] = h[a]] \in [Ref -> Nat]
        BY <1>6, <1>7
      <3> QED BY <1>5, <1>6, <3>1
    <2> DEFINE Inked(n) == IF color'[n] = "black" THEN 1 ELSE 0
               Due(n, r) == IF n = u /\ r = c /\ color[v] = "black" THEN 1 ELSE 0
    <2>2. /\ \A n \in Ref : n # v /\ n # a => Inked(n) = Ink(n)
          /\ Inked(v) = Ink(a)
      BY <1>12 DEF Ink
    <2>3. \A n \in Ref : Ink(n) \in {0, 1} /\ h[n] \in Nat
      BY DEF Ink
    <2>4. Due(u, c) = Ink(v) /\ \A n, r : ~(n = u /\ r = c) => Due(n, r) = 0
      BY DEF Ink
    <2>5. h[a] = h[L] + Ink(L) /\ h[a] = h[R] + Ink(R) /\ (g # nil => h[g] = h[a] + Ink(a))
      BY <1>5, <1>7
    <2>6. j[L] = h[L] /\ (v # R => j[R] = h[R]) /\ j[z] = h[z] /\ j[g] = h[g]
          /\ (u # v => j[u] = h[u])
      BY <1>5, <1>6, <1>7, <2>1
    <2>7. /\ L \in Ref /\ R \in Ref /\ z \in Ref /\ u \in Ref /\ v \in Ref /\ a \in Ref
          /\ L # a /\ R # a /\ z # a /\ L # v /\ z # v
      BY <1>5, <1>6, <1>7
    <2>8. Inked(L) = Ink(L) /\ (v # R => Inked(R) = Ink(R)) /\ Inked(z) = Ink(z)
      BY <2>2, <2>7
    <2>9. j[u] = h[z] + Ink(z) + Ink(v)
      <3>1. CASE u = v
        BY <1>5, <1>8, <2>1, <2>3, <2>5, <2>7, <3>1
      <3>2. CASE u # v
        BY <1>5, <1>8, <1>21, <2>3, <2>6, <2>7, <3>2
      <3> QED BY <3>1, <3>2
    <2> HIDE DEF Inked, Due
    <2>10. ASSUME NEW n \in Linked', NEW r \in Side
           PROVE  j[n] = j[child'[n][r]] + Inked(child'[n][r]) + Due(n, r)
      <3>1. CASE n = v /\ r = "left" /\ child'[n][r] = L /\ ~(n = u /\ r = c)
        BY <2>1, <2>3, <2>4, <2>5, <2>6, <2>7, <2>8, <3>1
      <3>2. CASE n = v /\ r = "right" /\ child'[n][r] = R /\ v # R /\ ~(n = u /\ r = c)
        BY <2>1, <2>3, <2>4, <2>5, <2>6, <2>7, <2>8, <3>2
      <3>3. CASE n = u /\ r = c /\ child'[n][r] = z
        BY <2>3, <2>4, <2>6, <2>7, <2>8, <2>9, <3>3
      <3>4. CASE n = g /\ r = k /\ child'[n][r] = v /\ n # v /\ ~(n = u /\ r = c)
        BY <1>18, <2>1, <2>2, <2>3, <2>4, <2>5, <2>6, <2>7, <3>4
      <3>5. CASE /\ child'[n][r] = child[n][r] /\ child[n][r] \notin {a, v, L, R}
                 /\ n # v /\ ~(n = u /\ r = c)
        <4>1. n \in Linked /\ n \in Ref /\ child[n][r] \in Ref
          BY <1>15, <1>18
        <4>2. h[n] = h[child[n][r]] + Ink(child[n][r])
          BY <1>5, <4>1
        <4>3. j[n] = h[n] /\ j[child[n][r]] = h[child[n][r]] /\ Due(n, r) = 0
              /\ Inked(child[n][r]) = Ink(child[n][r])
          BY <2>1, <2>2, <2>4, <3>5, <4>1
        <4> QED BY <2>3, <3>5, <4>1, <4>2, <4>3
      <3> QED BY <1>14, <3>1, <3>2, <3>3, <3>4, <3>5
    <2> USE DEF Inked, Due
    <2>11. ASSUME NEW n \in Linked', NEW r \in Side
           PROVE  Weight(n, r)' = Inked(child'[n][r]) + Due(n, r)
      <3>1. CASE color[v] = "black"
        <4>1. Lacks(n, r)' <=> n = u /\ r = c
          <5>1. Lacks(n, r)' <=> n = u /\ child'[n][r] = z /\ child'[n][Other(r)] # z
            BY <1>9, <1>10, <3>1 DEF Lacks, BlackBlackLabels
          <5>2. n = u => child'[n][c] = z /\ child'[n][Other(c)] # z
            BY <1>9, <1>22, <3>1
          <5>3. r = c \/ (r = Other(c) /\ Other(r) = c)
            BY <1>7 DEF Other
          <5> QED BY <5>1, <5>2, <5>3
        <4> QED BY <3>1, <4>1 DEF Weight
      <3>2. CASE color[v] # "black"
        <4>1. ~Lacks(n, r)'
          BY <1>10, <3>2 DEF Lacks, BlackBlackLabels
        <4> QED BY <3>2, <4>1 DEF Weight
      <3> QED BY <3>1, <3>2
    <2>12. ASSUME NEW n \in Linked', NEW r \in Side
           PROVE  j[n] = j[child'[n][r]] + Weight(n, r)'
      <3>1. child'[n][r] \in Ref
        BY <1>14, <1>15, <1>18, <2>7
      <3>2. Inked(child'[n][r]) \in {0, 1} /\ Due(n, r) \in {0, 1} /\ j[child'[n][r]] \in Nat
        BY <3>1
      <3> HIDE DEF Inked, Due
      <3> QED BY <2>10, <2>11, <3>2
    <2>13. j[nil] = 0
      BY <1>1, <1>5, <2>1
    <2> QED BY <2>12, <2>13 DEF Balanced
  <1>24. root # v
    <2>1. q # nil
      BY <1>6, <1>7, <1>8
    <2> QED BY <1>5, <1>16, <2>1
  <1>25. NoRedRed'
    <2>1. ASSUME NEW n \in Linked', color'[n] = "red", parent'[n] # nil,
                 color'[parent'[n]] = "red"
          PROVE  n = x' /\ pc' = "blackblack"
      <3>1. n \in Linked /\ n # a /\ n # nil /\ n \in Ref
        BY <1>6, <1>13
      <3>2. CASE n = v
        BY <1>5, <1>6, <1>7, <1>9, <1>12, <2>1, <3>2
      <3>3. CASE n \in {L, R} /\ n # v
        <4>1. parent'[n] = v /\ parent[n] = a /\ color[n] = "red"
          BY <1>7, <1>9, <1>12, <2>1, <3>1, <3>3
        <4> QED BY <1>5, <1>7, <1>12, <2>1, <3>1, <4>1
      <3>4. CASE n = z
        BY <1>5, <1>7, <1>10, <1>12, <2>1, <3>1, <3>4, <1>6
      <3>5. CASE n \notin {v, L, R, z}
        <4>1. parent'[n] = parent[n] /\ color[n] = "red"
          BY <1>9, <1>12, <2>1, <3>1, <3>5
        <4>2. parent[n] \in Ref /\ parent[n] # a
          BY <1>6, <1>13, <1>17, <2>1, <4>1 DEF LinksOK
        <4>3. parent[n] # v
          <5>1. n # root => \E r \in Side : child[parent[n]][r] = n
            BY <1>1, <3>1 DEF LinksOK
          <5>2. n # root
            BY <1>16, <2>1, <3>1, <4>1
          <5> QED BY <1>7, <3>1, <3>5, <5>1, <5>2
        <4> QED BY <1>5, <1>12, <2>1, <3>1, <4>1, <4>2, <4>3
      <3> QED BY <3>2, <3>3, <3>4, <3>5
    <2>2. color'[root'] # "red"
      BY <1>5, <1>6, <1>7, <1>9, <1>12, <1>24
    <2> QED BY <2>1, <2>2 DEF NoRedRed
  <1>26. PlaceOK'
    <2>1. color[v] = "black" => BlackBlackPlace'
      <3> SUFFICES ASSUME color[v] = "black" PROVE BlackBlackPlace'
        OBVIOUS
      <3>1. z \in Linked' \cup {nil}
        BY <1>5, <1>7, <1>13
      <3>2. u \in Linked' /\ child'[u][c] = z /\ child'[u][Other(c)] # z
        BY <1>7, <1>9, <1>13, <1>22
      <3> QED BY <1>7, <1>9, <1>10, <3>1, <3>2 DEF BlackBlackPlace
    <2> QED BY <1>10, <2>1 DEF PlaceOK, SearchPlace, RedRedPlace, SuccessorPlace,
                               BlackBlackPlace, RedRedLabels, BlackBlackLabels
  <1>27. RotationsSpent' /\ pc' # "successor"
    BY <1>10, <1>11 DEF RotationsSpent, RedRedLabels, BlackBlackLabels
  <1> QED
    BY <1>17, <1>19, <1>20, <1>23, <1>25, <1>26, <1>27, InvariantAfter DEF Repaired

=============================================================================
