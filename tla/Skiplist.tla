------------------------------- MODULE Skiplist -------------------------------
(***************************************************************************)
(* LinkedSkipList (src/libgo/routine_sync/linked_skiplist.h) at the level  *)
(* of its links: each node has Height levels of prev/next pointers; the    *)
(* head is the dummy_ node.  Callers insert a node that is not linked (the *)
(* timer's schedule, after buildNode) and erase any node.  buildNode's     *)
(* random height is a nondeterministic choice in 1..MaxHeight (the         *)
(* distribution does not matter to the properties).                        *)
(***************************************************************************)
EXTENDS Naturals, Sequences, FiniteSets

CONSTANTS
  Nodes,      \* the TimerIds that may be linked
  Key,        \* [Nodes -> Nat]: node->key, the deadline
  MaxHeight,  \* the template parameter MaxHeight
  Dummy,       \* dummy_, which head_ points to
  Null        \* nullptr

ASSUME MaxHeight \in Nat \ {0} /\ Key \in [Nodes -> Nat]

AllNodes == Nodes \cup {Dummy}
Levels   == 0 .. MaxHeight - 1

VARIABLES
  next,     \* next[n][i]: n->links[i].next
  prev,     \* prev[n][i]: n->links[i].prev
  height,   \* Node::height (head_->height for Dummy)
  linked,   \* the nodes the callers have inserted and not yet erased
  fault     \* the program dereferenced nullptr

vars == <<next, prev, height, linked, fault>>

NoLinks == [i \in Levels |-> Null]

(* front(): head_->links[0].next.                                          *)
Front == next[Dummy][0]

(* The constructor: clear() sets head_->height = 1 and zeroes its links.   *)
Init ==
  /\ next = [n \in AllNodes |-> NoLinks]
  /\ prev = [n \in AllNodes |-> NoLinks]
  /\ height = [n \in AllNodes |-> IF n = Dummy THEN 1 ELSE 0]
  /\ linked = {}
  /\ fault = FALSE

(* insert(node).  lower_bound walks the levels but never writes prevs, so  *)
(* every prevs[i] is null and the loop splices the node right after head_  *)
(* at each of its levels.  At a level where head_'s next is null the line  *)
(* next->links[i].prev = node dereferences nullptr.                        *)
Insert(n) ==
  /\ ~fault
  /\ n \notin linked
  /\ \E h \in IF height[n] = 0 THEN 1 .. MaxHeight ELSE {height[n]} :
       LET lv == 0 .. h - 1 IN
       IF \E i \in lv : next[Dummy][i] = Null
       THEN /\ fault' = TRUE
            /\ UNCHANGED <<next, prev, height, linked>>
       ELSE /\ next' = [m \in AllNodes |->
                          [i \in Levels |->
                             IF i \in lv /\ m = n THEN next[Dummy][i]
                             ELSE IF i \in lv /\ m = Dummy THEN n
                             ELSE next[m][i]]]
            /\ prev' = [m \in AllNodes |->
                          [i \in Levels |->
                             IF i \in lv /\ m = n THEN Dummy
                             ELSE IF i \in lv /\ m = next[Dummy][i] THEN n
                             ELSE prev[m][i]]]
            /\ height' = [height EXCEPT ![n] = h,
                                        ![Dummy] = IF @ < h THEN h ELSE @]
            /\ linked' = linked \cup {n}
            /\ UNCHANGED fault

(* The effect of unlink on level i of node n: fix prev's next, clear n's   *)
(* prev, then fix next's prev from n's prev, which has just been cleared.  *)
UnlinkLevel(nx, pv, n, i) ==
  LET p  == pv[n][i]
      s  == nx[n][i]
      nx1 == IF p # Null THEN [nx EXCEPT ![p][i] = s] ELSE nx
      pv1 == IF p # Null THEN [pv EXCEPT ![n][i] = Null] ELSE pv
  IN IF s # Null
     THEN <<[nx1 EXCEPT ![n][i] = Null], [pv1 EXCEPT ![s][i] = pv1[n][i]]>>
     ELSE <<nx1, pv1>>

RECURSIVE UnlinkFrom(_, _, _, _)
UnlinkFrom(nx, pv, n, i) ==
  IF i >= height[n] THEN <<nx, pv>>
  ELSE LET r == UnlinkLevel(nx, pv, n, i) IN UnlinkFrom(r[1], r[2], n, i + 1)

(* erase(node, clearHeight) = unlink: every level below node->height, then *)
(* height = 0 when clearHeight (reschedule passes false).                  *)
Erase(n) ==
  /\ ~fault
  /\ \E clearHeight \in BOOLEAN :
       LET r == UnlinkFrom(next, prev, n, 0) IN
       /\ next' = r[1]
       /\ prev' = r[2]
       /\ height' = IF clearHeight THEN [height EXCEPT ![n] = 0] ELSE height
  /\ linked' = linked \ {n}
  /\ UNCHANGED fault

Next == \E n \in Nodes : Insert(n) \/ Erase(n)

Spec == Init /\ [][Next]_vars

TypeOK ==
  /\ next \in [AllNodes -> [Levels -> AllNodes \cup {Null}]]
  /\ prev \in [AllNodes -> [Levels -> AllNodes \cup {Null}]]
  /\ height \in [AllNodes -> 0 .. MaxHeight]

(* insert never dereferences nullptr: spec 4.2 says insert splices the    *)
(* node in under the caller's lock, and the timer's schedule inserts into *)
(* a container that starts empty.                                          *)
NoNullDereference == ~fault
=============================================================================
