---------------------------- MODULE OrderedNodes ----------------------------
(***************************************************************************)
(* What mulle__rbtree promises its callers, without a tree: a sequence of  *)
(* nodes and three calls that change it.  A call is requested, takes       *)
(* effect in one step or is refused, may settle for a while without        *)
(* visible effect, and returns.                                            *)
(***************************************************************************)
EXTENDS Integers, Sequences

CONSTANTS Node, nil, Payload, AllowDuplicates, Positional, EEXIST

VARIABLES
    seq,     \* the nodes of the container, in order
    held,    \* nodes allocated and not in the container
    key,     \* the value of each allocated node
    call,    \* the call that runs: op, its node and the neighbour it names
    result   \* what the last insert returned

vars == <<seq, held, key, call, result>>

Members == {seq[i] : i \in DOMAIN seq}
Idle     == [op |-> "none", node |-> nil, at |-> nil]
Settling == [op |-> "settling", node |-> nil, at |-> nil]

Init ==
    /\ seq = <<>>
    /\ held = {}
    /\ key = [n \in Node |-> nil]
    /\ call = Idle
    /\ result = 0

\* _mulle__rbtree_new_node
Allocate(n, v) ==
    /\ call = Idle
    /\ n \notin held \cup Members
    /\ held' = held \cup {n}
    /\ key' = [key EXCEPT ![n] = v]
    /\ UNCHANGED <<seq, call, result>>

\* _mulle__rbtree_free_node of a node that is not in the container
Release(n) ==
    /\ call = Idle
    /\ n \in held
    /\ held' = held \ {n}
    /\ key' = [key EXCEPT ![n] = nil]
    /\ UNCHANGED <<seq, call, result>>

Request(op, n, m) ==
    /\ call = Idle
    /\ call' = [op |-> op, node |-> n, at |-> m]
    /\ UNCHANGED <<seq, held, key, result>>

RequestInsert(n) ==
    n \in held /\ (Positional => seq = <<>>) /\ Request("insert", n, nil)
RequestBeside(n, m, op) ==
    Positional /\ n \in held /\ m \in Members /\ Request(op, n, m)
RequestRemove(n) == n \in Members /\ Request("remove", n, nil)

-----------------------------------------------------------------------------
\* The order of the container after each call takes effect.
WithAfter(i, n) == SubSeq(seq, 1, i) \o <<n>> \o SubSeq(seq, i + 1, Len(seq))
Without(i) == SubSeq(seq, 1, i - 1) \o SubSeq(seq, i + 1, Len(seq))

\* By key a node comes behind all nodes with a key that is less or equal:
\* equal keys keep the order in which they were inserted.
Place(i) ==
    CASE call.op = "insert" ->
            \A j \in DOMAIN seq : j <= i <=> key[seq[j]] <= key[call.node]
      [] call.op = "before" -> i + 1 \in DOMAIN seq /\ seq[i + 1] = call.at
      [] call.op = "after"  -> i \in DOMAIN seq /\ seq[i] = call.at

Present == \E m \in Members : key[m] = key[call.node]
Refused == call.op = "insert" /\ ~AllowDuplicates /\ Present

Refuse ==
    /\ Refused
    /\ result' = EEXIST
    /\ call' = Idle
    /\ UNCHANGED <<seq, held, key>>

Insert ==
    /\ call.op \in {"insert", "before", "after"}
    /\ ~Refused
    /\ \E i \in 0 .. Len(seq) : Place(i) /\ seq' = WithAfter(i, call.node)
    /\ held' = held \ {call.node}
    /\ result' = 0
    /\ UNCHANGED key

Remove ==
    /\ call.op = "remove"
    /\ \E i \in DOMAIN seq : seq[i] = call.node /\ seq' = Without(i)
    /\ key' = [key EXCEPT ![call.node] = nil]
    /\ UNCHANGED <<held, result>>

TakeEffect ==
    /\ Insert \/ Remove
    /\ call' \in {Idle, Settling}

Settle ==
    /\ call = Settling
    /\ call' = Idle
    /\ UNCHANGED <<seq, held, key, result>>

-----------------------------------------------------------------------------
Answer == Refuse \/ TakeEffect \/ Settle

Next ==
    \/ \E n \in Node : \/ \E v \in Payload[n] : Allocate(n, v)
                       \/ Release(n)
                       \/ RequestInsert(n)
                       \/ \E m \in Node, op \in {"before", "after"} :
                             RequestBeside(n, m, op)
                       \/ RequestRemove(n)
    \/ Answer

Spec     == Init /\ [][Next]_vars
FairSpec == Spec /\ WF_vars(Answer)
=============================================================================
