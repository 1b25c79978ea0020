------------------------------ MODULE LinkedList ------------------------------
(***************************************************************************)
(* LinkedList and LinkedNode (src/libgo/routine_sync/linked_list.h) at the *)
(* level of their pointers: every node carries prev/next, the list keeps a *)
(* dummy head node and a tail pointer.  Callers push a node only when it   *)
(* is not in the list (the rutex pushes a fresh waiter frame) and may      *)
(* unlink any node, linked or not (safe_unlink, notify_one).  The list is  *)
(* checked against WaiterQueue through the refinement mapping that reads   *)
(* the queue off the next pointers from the dummy node.                    *)
(***************************************************************************)
EXTENDS Naturals, Sequences, FiniteSets

CONSTANTS
  Nodes,   \* the waiter frames that may be linked
  Dummy,   \* LinkedList::dummy_
  Null     \* nullptr

AllNodes == Nodes \cup {Dummy}

VARIABLES
  next,    \* LinkedNode::next of every node, dummy_ included
  prev,    \* LinkedNode::prev
  tail,    \* LinkedList::tail_
  linked,  \* the nodes the callers have pushed and not yet unlinked
  fault    \* the program dereferenced nullptr

vars == <<next, prev, tail, linked, fault>>

(* The chain of next pointers from n, at most k long.                      *)
RECURSIVE Chain(_, _)
Chain(n, k) ==
  IF next[n] = Null \/ k = 0 THEN <<>> ELSE <<next[n]>> \o Chain(next[n], k - 1)

(* front(): head_->next (head_ is the dummy node).                         *)
Front == next[Dummy]

(* LinkedList::clear, run by the constructor.                              *)
Init ==
  /\ next = [n \in AllNodes |-> Null]
  /\ prev = [n \in AllNodes |-> Null]
  /\ tail = Dummy
  /\ linked = {}
  /\ fault = FALSE

(* LinkedList::push.                                                       *)
Push(n) ==
  /\ ~fault
  /\ n \notin linked
  /\ next' = [next EXCEPT ![tail] = n, ![n] = Null]
  /\ prev' = [prev EXCEPT ![n] = tail]
  /\ tail' = n
  /\ linked' = linked \cup {n}
  /\ UNCHANGED fault

(* LinkedList::unlink.  At the tail: tail_ = tail_->prev, then             *)
(* tail_->next = nullptr (a null dereference when prev was null).          *)
(* Elsewhere: fix prev->next, clear node->prev, then fix next->prev from   *)
(* node->prev, which the line before has just cleared.                    *)
Unlink(n) ==
  /\ ~fault
  /\ linked' = linked \ {n}
  /\ IF tail = n
     THEN IF prev[n] = Null
          THEN /\ fault' = TRUE
               /\ UNCHANGED <<next, prev, tail>>
          ELSE /\ tail' = prev[n]
               /\ next' = [next EXCEPT ![prev[n]] = Null, ![n] = Null]
               /\ prev' = [prev EXCEPT ![n] = Null]
               /\ UNCHANGED fault
     ELSE LET p  == prev[n]
              nx == next[n]
              next1 == IF p # Null THEN [next EXCEPT ![p] = nx] ELSE next
              prev1 == [prev EXCEPT ![n] = Null]
          IN /\ next' = IF nx # Null THEN [next1 EXCEPT ![n] = Null] ELSE next1
             /\ prev' = IF nx # Null THEN [prev1 EXCEPT ![nx] = prev1[n]] ELSE prev1
             /\ UNCHANGED <<tail, fault>>

Next == \E n \in Nodes : Push(n) \/ Unlink(n)

Spec == Init /\ [][Next]_vars

TypeOK ==
  /\ next \in [AllNodes -> AllNodes \cup {Null}]
  /\ prev \in [AllNodes -> AllNodes \cup {Null}]
  /\ tail \in AllNodes
  /\ linked \subseteq Nodes
  /\ fault \in BOOLEAN

(* The FIFO the list stands for: the nodes reached from the dummy node.    *)
Abstract == INSTANCE WaiterQueue WITH q <- Chain(Dummy, Cardinality(Nodes) + 1)

(* The list implements the waiter queue: every push and unlink changes the *)
(* chain from the dummy node the way the FIFO contract says (a step that   *)
(* dereferences nullptr changes nothing, which the contract refuses when   *)
(* the node was linked).                                                   *)
RefinesWaiterQueue == Abstract!Spec
=============================================================================
