------------------------------ MODULE MCCondVar ------------------------------
EXTENDS CondVar
CONSTANTS t1, t2, t3

(* A cv waiter with a deadline, a thread calling notify_all, and a thread  *)
(* taking the mutex with a deadline: the waiter, woken by the notify or   *)
(* by its timer, re-takes the mutex through lock_contended against a      *)
(* fresh try_lock, and the timed locker can give up while parked on the   *)
(* mutex's rutex.                                                          *)
ProgramNotify ==
  LET Op(o) == [op |-> o] IN
  [t \in {t1, t2, t3} |->
     CASE t = t1 -> <<[op |-> "lock", timed |-> FALSE], [op |-> "wait", timed |-> TRUE],
                      Op("unlock")>>
       [] t = t2 -> <<[op |-> "lock", timed |-> FALSE], Op("notify_all"), Op("unlock")>>
       [] t = t3 -> <<[op |-> "lock", timed |-> TRUE], Op("unlock")>>]

(* One waiter and a thread that wakes it with fast_notify_all.             *)
ProgramFast ==
  LET Op(o) == [op |-> o]
      Lock == [op |-> "lock", timed |-> FALSE] IN
  [t \in {t1, t2} |->
     IF t = t2
     THEN <<Lock, Op("fast_notify_all"), Op("unlock")>>
     ELSE <<Lock, [op |-> "wait", timed |-> FALSE], Op("unlock")>>]
=============================================================================
