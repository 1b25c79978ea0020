------------------------------ MODULE MCSkiplist ------------------------------
EXTENDS Skiplist
CONSTANTS n1, n2, n3

(* Three timer entries with distinct deadlines, n3 the earliest.           *)
KeyOf == [n \in {n1, n2, n3} |-> CASE n = n1 -> 2 [] n = n2 -> 3 [] n = n3 -> 1]
=============================================================================
