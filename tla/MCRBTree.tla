------------------------------ MODULE MCRBTree ------------------------------
(* Instances of RBTree for TLC.                                            *)
EXTENDS RBTreeRefinement, TLC

Slots5  == 1..5
Values4 == 1..4
Slots9  == 1..9

\* Two families of keys: 1 to 8, and 11 to 20.
Keys == 1..20

\* Orders in which the slots are filled.  In each the ninth or an earlier
\* insertion recolours first and rotates one level higher, as an outer or an
\* inner case in the left or the right half.
Orders == {<<1, 2, 3, 4, 5, 6, 7, 8, 9>>, <<10, 9, 8, 6, 1, 3, 2, 7, 4>>,
           <<1, 10, 8, 2, 9, 7, 6, 5, 3>>, <<1, 2, 8, 9, 3, 4, 5, 7, 6>>}

\* Slot n holds n, a key that is at home in this slot only so that no two
\* states differ by the names of slots, or what the n-th insertion of an order
\* puts there.
PinnedOrListed(most) ==
    [n \in Node |-> {k \in 1..most : k = n} \cup {10 + o[n] : o \in Orders}]
Pinned8 == PinnedOrListed(8)

\* Keys of the first family come and go in any order.  Those of the second
\* grow in one of the orders and drain in any: slot n is handed out only when
\* all slots below it are in use and all above it are free.  They do not mix.
FreeOrGrowThenDrain ==
    \A n \in Node :
        status[n] = "free" /\ status'[n] = "detached" =>
            IF value'[n] <= 10
            THEN \A m \in Node : status[m] = "free" \/ value[m] <= 10
            ELSE /\ \A m \in Node : status[m] = "free" <=> m >= n
                 /\ \E o \in Orders : \A m \in 1 .. n : value'[m] = 10 + o[m]

KeysSpec == Init /\ [][Next /\ FreeOrGrowThenDrain]_vars

\* Slot n holds value n, and the last slot any value, which may be there
\* already.
PinnedButLast == [n \in Node |-> IF n \in Value THEN {n} ELSE Value]

\* Any slot holds any value.
Anything == [n \in Node |-> Value]

\* Slots are interchangeable where any slot holds any value.
SlotSymmetry == Permutations(Node)
=============================================================================
