------------------------------- MODULE CondVar -------------------------------
(***************************************************************************)
(* Clients of libgo::Mutex (MutexCore, rutex M) and of a                   *)
(* ConditionVariable (CondVarCore, rutex CV): each thread runs a program   *)
(* of calls made the way code using them through std::unique_lock<Mutex>  *)
(* does: lock (untimed, or timed with Mutex::lock(abstime)), unlock and,   *)
(* with the lock held, wait (untimed, or timed with wait_until/wait_for),  *)
(* notify_one, notify_all and fast_notify_all.                              *)
(***************************************************************************)
EXTENDS CondVarCore

CONSTANTS
  CV,       \* the condition variable's rutex_
  Program   \* [Threads -> Seq(Op)]

Ops == [op : {"lock", "wait"}, timed : BOOLEAN]
       \cup [op : {"unlock", "notify_one", "notify_all",
                   "fast_notify_all"}]

ASSUME /\ Rutexes = {M, CV} /\ M # CV
       /\ \A t \in Threads : Program[t] \in Seq(Ops)

vars == coreVars

Prev(t) == Program[t][ip[t] - 1].op

(* The last call was a lock that returned false (a timed lock that timed  *)
(* out): the client does not hold the mutex.                               *)
LockFailed(t) == ip[t] > 1 /\ Prev(t) = "lock" /\ rv[t] = FALSE

(* The thread holds the mutex between two calls: its last call was not    *)
(* unlock and, if it was a lock, that lock returned true.                  *)
InCS(t) ==
  /\ pc[t] = "Idle"
  /\ ip[t] > 1
  /\ Prev(t) # "unlock"
  /\ ~LockFailed(t)

(* Take the next call.  An unlock is made only of a mutex the client got.  *)
Dispatch(t) ==
  LET o == Program[t][ip[t]] IN
  /\ pc[t] = "Idle"
  /\ ip[t] <= Len(Program[t])
  /\ o.op = "unlock" => ~LockFailed(t)
  /\ ip' = [ip EXCEPT ![t] = @ + 1]
  /\ CASE o.op = "lock"            ->
            /\ arg' = [arg EXCEPT ![t] = [CallArgs(M, Null, CONTENDED)
                                            EXCEPT !.timed = o.timed]]
            /\ Enter(t, "M_trylock", <<>>, "Idle") /\ UNCHANGED value
       [] o.op = "unlock"          -> CallUnlock(t, "Idle") /\ UNCHANGED value
       [] o.op = "wait"            -> CallWaitUntil(t, CV, o.timed, "Idle")
                                        /\ UNCHANGED value
       [] o.op = "notify_one"      -> CallNotifyOne(t, CV, "Idle")
       [] o.op = "notify_all"      -> CallNotifyAll(t, CV, "Idle")
       [] o.op = "fast_notify_all" -> CallFastNotifyAll(t, CV, "Idle")
  /\ UNCHANGED <<rv, seen, tgt, queue, owner, rmtx, waiterVars, waiting, timerVars>>

(* After a timed lock that returned false the client passes over its      *)
(* unlock.                                                                  *)
SkipUnlock(t) ==
  /\ pc[t] = "Idle"
  /\ ip[t] <= Len(Program[t])
  /\ Program[t][ip[t]].op = "unlock"
  /\ LockFailed(t)
  /\ ip' = [ip EXCEPT ![t] = @ + 1]
  /\ UNCHANGED <<pc, stack, arg, rv, seen, tgt, rutexVars, waiterVars, waiting,
                 timerVars>>

Init ==
  /\ CoreInit
  /\ pc = [a \in Actors |-> IF a = TimerThread THEN "T_run" ELSE "Idle"]
  /\ ip = [t \in Threads |-> 1]

Next ==
  \/ \E t \in Threads : Dispatch(t)
  \/ \E t \in Threads : SkipUnlock(t)
  \/ \E t \in Threads : CondVarStep(t)
  \/ \E t \in Threads : MutexStep(t)
  \/ \E t \in Threads : RutexStep(t)
  \/ TimerStep

Fairness ==
  /\ \A t \in Threads :
       WF_vars(Dispatch(t) \/ SkipUnlock(t) \/ CondVarStep(t) \/ MutexStep(t) \/ RutexStep(t))
  /\ WF_vars(TimerStep)

Spec == Init /\ [][Next]_vars /\ Fairness

-----------------------------------------------------------------------------
TypeOK ==
  /\ value[M] \in {0, LOCKED, CONTENDED}
  /\ value[CV] \in Nat
  /\ queue \in [Rutexes -> Seq(Threads)]
  /\ \A t \in Threads : owner[t] \in Rutexes \cup {Null}

(* Mutual exclusion (spec property 4): at most one thread holds the mutex  *)
(* between calls, whichever of try_lock's byte exchange and                *)
(* lock_contended's word exchange took it, while a cv waiter gives it up   *)
(* with unlock and takes it back through lock_contended alone, and a       *)
(* timed lock gives up on its deadline.                                    *)
MutualExclusion ==
  \A t, u \in Threads : InCS(t) /\ InCS(u) => t = u
=============================================================================
