------------------------------- MODULE MCRutex -------------------------------
(* Model values and client programs for Rutex.tla.                        *)
EXTENDS Rutex

CONSTANTS t1, t2, t3, R1, R2

(* A timed waiter and an untimed waiter on R1; a third thread moves R1's  *)
(* waiters to R2 and notifies both rutexes, so requeue races safe_unlink  *)
(* of the timer callback and of join.                                     *)
ProgramRequeue ==
  [t \in {t1, t2, t3} |->
     CASE t = t1 -> <<[op |-> "wait", r |-> R1, timed |-> TRUE]>>
       [] t = t2 -> <<[op |-> "wait", r |-> R1, timed |-> FALSE]>>
       [] t = t3 -> <<[op |-> "requeue", r |-> R1, to |-> R2],
                      [op |-> "notify", r |-> R2],
                      [op |-> "notify", r |-> R1]>>]

(* One untimed waiter and one notifier: the smallest lost-wakeup race.    *)
ProgramNotify ==
  [t \in {t1, t2} |->
     CASE t = t1 -> <<[op |-> "wait", r |-> R1, timed |-> FALSE]>>
       [] t = t2 -> <<[op |-> "notify", r |-> R1]>>]

(* One timed waiter and one notifier: besides the lost wakeup of          *)
(* ProgramNotify, the timer callback can take waitMtx_ while notify_one    *)
(* try_locks it (rutex.h:185), or find the waiter not yet asleep and       *)
(* reschedule its own entry (rutex.h:64); rutex_timer_lost_wakeup.        *)
ProgramTimed ==
  [t \in {t1, t2} |->
     CASE t = t1 -> <<[op |-> "wait", r |-> R1, timed |-> TRUE]>>
       [] t = t2 -> <<[op |-> "notify", r |-> R1]>>]
=============================================================================
