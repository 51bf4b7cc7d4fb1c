----------------------- MODULE RBContainerRefinement -----------------------
(***************************************************************************)
(* The container implements the bag of ValueBag: attach_node and the       *)
(* unlinking of remove_node are the steps in which add and remove take     *)
(* effect, whatever is retained, released, repaired and walked around them. *)
(***************************************************************************)
EXTENDS RBContainer

Content == [v \in Value |-> IF op = "closed" THEN 0
                            ELSE Cardinality({n \in Linked : value[n] = v})]

TakenEffect == \/ op = "insert" /\ status[at] = "linked"
               \/ op = "remove" /\ status[at] = "free"

CallSeen ==
    LET seen == CASE op = "none"                    -> "none"
                  [] op = "closed"                  -> "closed"
                  [] op = "walk" \/ TakenEffect     -> "return"
                  [] op \in {"new", "insert"} /\ ~TakenEffect -> "add"
                  [] op = "search"                  -> wanted
                  [] op \in {"release", "unlink", "remove"} /\ ~TakenEffect -> "remove"
                  [] op = "done"                    -> "done"
    IN  [op  |-> seen,
         key |-> IF seen \in {"add", "find", "remove"} THEN key ELSE nil]

ResultSeen == IF TakenEffect THEN 0 ELSE result

Bag == INSTANCE ValueBag
    WITH content <- Content, call <- CallSeen, result <- ResultSeen

\* Every call answers as it would on a bag of values, 0, EEXIST exactly for a
\* value that is there, ENOENT exactly for one that is not, and comes back.
ImplementsValueBag == Bag!FairSpec
=============================================================================
