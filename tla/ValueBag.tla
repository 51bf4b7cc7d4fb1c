------------------------------ MODULE ValueBag ------------------------------
(***************************************************************************)
(* What mulle_rbtree promises its callers, without tree and nodes: a bag   *)
(* of values, a set where duplicates are not allowed, and what the calls   *)
(* return.  A call is requested, takes effect in one step, and returns.    *)
(***************************************************************************)
EXTENDS Integers

CONSTANTS Value, nil, AllowDuplicates, EEXIST, ENOENT

VARIABLES
    content,  \* how many times each value is in the container
    call,     \* the call that runs and the value it was given
    result    \* what the last call returned

vars == <<content, call, result>>

Empty == [v \in Value |-> 0]

Idle      == [op |-> "none", key |-> nil]
Returning == [op |-> "return", key |-> nil]
Closed    == [op |-> "closed", key |-> nil]

Init == content = Empty /\ call = Idle /\ result = 0

Request(op, k) ==
    /\ call = Idle
    /\ call' = [op |-> op, key |-> k]
    /\ UNCHANGED <<content, result>>

Held == content[call.key] > 0

Answer(op, r) ==
    /\ call.op = op
    /\ result' = r
    /\ call' \in {Idle, Returning}

AddTakes   == /\ Answer("add", 0)
              /\ ~Held \/ AllowDuplicates
              /\ content' = [content EXCEPT ![call.key] = @ + 1]
AddRefuses == Answer("add", EEXIST) /\ Held /\ ~AllowDuplicates /\ UNCHANGED content

RemoveTakes == /\ Answer("remove", 0)
               /\ Held
               /\ content' = [content EXCEPT ![call.key] = @ - 1]
RemoveMisses == Answer("remove", ENOENT) /\ ~Held /\ UNCHANGED content

Finds  == Answer("find", call.key) /\ Held /\ UNCHANGED content
Misses == Answer("find", nil) /\ ~Held /\ UNCHANGED content

Return == call = Returning /\ call' = Idle /\ UNCHANGED <<content, result>>

Close == call.op = "done" /\ call' = Closed /\ content' = Empty /\ UNCHANGED result

Proceed == \/ AddTakes \/ AddRefuses \/ RemoveTakes \/ RemoveMisses
           \/ Finds \/ Misses \/ Return \/ Close

Next == \/ \E op \in {"add", "find", "remove"}, k \in Value : Request(op, k)
        \/ Request("done", nil)
        \/ Proceed

Spec == Init /\ [][Next]_vars

FairSpec == Spec /\ WF_vars(Proceed)
=============================================================================
