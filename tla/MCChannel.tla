------------------------------ MODULE MCChannel ------------------------------
EXTENDS Channel
CONSTANTS t1, t2, c1, c2

(* The cv each thread's rendezvous call creates on its stack.              *)
LocalCvOf == [t \in {t1, t2} |-> IF t = t1 THEN c1 ELSE c2]

(* A waiting pop that then closes the channel, against two waiting pushes *)
(* into one slot: the pop may park on popCv_ before any push, the second  *)
(* push parks on pushCv_ until the pop frees the slot or the close        *)
(* requeues it, and close() races a push that still waits.  When the pop  *)
(* fails (the rendezvous) and the channel throws, the close never comes.   *)
ProgramFlow ==
  [t \in {t1, t2} |->
     IF t = t1 THEN <<"operator>>", "Close">>
     ELSE <<"Push", "operator<<">>]

(* A waiting pop and a close.                                               *)
ProgramClose ==
  [t \in {t1, t2} |->
     IF t = t1 THEN <<"Pop">> ELSE <<"Close">>]

(* A waiting push meets a waiting pop on an unbuffered channel.           *)
ProgramRendezvous ==
  [t \in {t1, t2} |->
     IF t = t1 THEN <<"operator<<">> ELSE <<"Pop">>]
=============================================================================
