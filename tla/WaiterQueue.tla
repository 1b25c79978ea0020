----------------------------- MODULE WaiterQueue -----------------------------
(***************************************************************************)
(* What the intrusive LinkedList (linked_list.h) promises its one user,    *)
(* the rutex waiter list (spec 4.1): a FIFO of nodes in which a node       *)
(* appears at most once; push appends, unlink removes the node wherever it *)
(* is and is a no-op for a node that is not linked; front is the head.     *)
(***************************************************************************)
EXTENDS Sequences

CONSTANTS Nodes

VARIABLE q

InQueue(n) == \E i \in DOMAIN q : q[i] = n

Push(n) == /\ ~InQueue(n)
           /\ q' = Append(q, n)

Unlink(n) == q' = SelectSeq(q, LAMBDA x : x # n)

Init == q = <<>>

Next == \E n \in Nodes : Push(n) \/ Unlink(n)

Spec == Init /\ [][Next]_q
=============================================================================
