----------------------------- MODULE CondVarCore -----------------------------
(***************************************************************************)
(* libgo::ConditionVariable (src/libgo/routine_sync/condition_variable.h) *)
(* as procedures over a MutexCore mutex: a condition variable is its own  *)
(* rutex, whose word counts the notifications.  Callers enter with the     *)
(* Call* operators below, naming the cv's rutex and the label to return    *)
(* to.  wait_until_impl's `expectValue` is read as the `expectedValue` it  *)
(* loaded, and requeue's `&other` as `other`.                              *)
(***************************************************************************)
EXTENDS MutexCore

CallArgs(r, to, e) == [r |-> r, to |-> to, expect |-> e, timed |-> FALSE]

(* Enter procedure l with return label ret, after the labels in more.      *)
Enter(t, l, more, ret) ==
  /\ pc' = [pc EXCEPT ![t] = l]
  /\ stack' = [stack EXCEPT ![t] = more \o <<ret>> \o @]

(* lock.lock() / Mutex::lock().                                            *)
CallLock(t, ret) ==
  /\ arg' = [arg EXCEPT ![t] = CallArgs(M, Null, CONTENDED)]
  /\ Enter(t, "M_trylock", <<>>, ret)

(* lock.unlock() / the unique_lock destructor.                             *)
CallUnlock(t, ret) ==
  /\ arg' = [arg EXCEPT ![t] = CallArgs(M, Null, 0)]
  /\ Enter(t, "M_unlock", <<>>, ret)

(* wait_until(lock, abstime) (and wait_for, which passes now() + dur):   *)
(* wait_until_impl with a deadline.  It loads the cv word as its expected  *)
(* value and unlocks the mutex first; the cv's rutex rides in arg.to       *)
(* meanwhile, and arg.timed carries the deadline to the rutex wait.        *)
CallWaitUntil(t, cv, timed, ret) ==
  /\ arg' = [arg EXCEPT ![t] = [CallArgs(M, cv, value[cv]) EXCEPT !.timed = timed]]
  /\ Enter(t, "M_unlock", <<"C_wait">>, ret)

(* wait(lock): wait_until_impl with null_tp().                             *)
CallWait(t, cv, ret) == CallWaitUntil(t, cv, FALSE, ret)

(* notify_one / notify_all / fast_notify_all(lock): fetch_add on the word, *)
(* then the rutex call.                                                    *)
CallNotifyOne(t, cv, ret) ==
  /\ value' = [value EXCEPT ![cv] = @ + 1]
  /\ arg' = [arg EXCEPT ![t] = CallArgs(cv, Null, 0)]
  /\ Enter(t, "N_lock", <<>>, ret)

CallNotifyAll(t, cv, ret) ==
  /\ value' = [value EXCEPT ![cv] = @ + 1]
  /\ arg' = [arg EXCEPT ![t] = CallArgs(cv, Null, 0)]
  /\ Enter(t, "N_lock", <<"C_notified">>, ret)

CallFastNotifyAll(t, cv, ret) ==
  /\ value' = [value EXCEPT ![cv] = @ + 1]
  /\ arg' = [arg EXCEPT ![t] = CallArgs(cv, M, 0)]
  /\ Enter(t, "Q_requeue", <<>>, ret)

(* wait_until_impl, after lock.mutex()->unlock(): rutex_.wait_until with   *)
(* the value loaded before the unlock.                                     *)
WaitOnCV(t) ==
  /\ pc[t] = "C_wait"
  /\ arg' = [arg EXCEPT ![t].r = arg[t].to]
  /\ Call(t, "W_check", "C_relock")
  /\ UNCHANGED <<rv, ip, seen, tgt, rutexVars, waiterVars, waiting, timerVars>>

(* ... then lock.mutex()->lock_contended(null_tp()), whatever the wait     *)
(* returned; it returns to wait's caller.                                  *)
Relock(t) ==
  /\ pc[t] = "C_relock"
  /\ arg' = [arg EXCEPT ![t] = CallArgs(M, Null, CONTENDED)]
  /\ Goto(t, "M_xchg")
  /\ UNCHANGED <<stack, rv, ip, seen, tgt, rutexVars, waiterVars, waiting,
                 timerVars>>

(* Rutex::notify_all: while (notify_one()) n++.                            *)
NotifyAllLoop(t) ==
  /\ pc[t] = "C_notified"
  /\ IF rv[t] = 1
     THEN Call(t, "N_lock", "C_notified") /\ UNCHANGED rv
     ELSE Return(t, 0)
  /\ UNCHANGED <<ip, arg, seen, tgt, rutexVars, waiterVars, waiting, timerVars>>

CondVarStep(t) == WaitOnCV(t) \/ Relock(t) \/ NotifyAllLoop(t)
=============================================================================
