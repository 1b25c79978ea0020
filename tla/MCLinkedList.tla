---------------------------- MODULE MCLinkedList ----------------------------
EXTENDS LinkedList
CONSTANTS w1, w2, w3
=============================================================================
