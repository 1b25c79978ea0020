------------------------------ MODULE MutexCore ------------------------------
(***************************************************************************)
(* libgo::Mutex (src/libgo/routine_sync/mutex.h) over the rutex of         *)
(* RutexCore: try_lock, lock_contended and unlock as procedures a client   *)
(* enters with Call.  The rutex word packs two bytes, locked and           *)
(* contended; on the little-endian targets the code is built for the word *)
(* reads locked + 256 * contended, so LOCKED = 1 and CONTENDED = 257.      *)
(* Mutex::lock's `return ;` after a successful try_lock (ill-formed in a   *)
(* bool function) is read as `return true`.                                *)
(***************************************************************************)
EXTENDS RutexCore

CONSTANT M   \* the mutex's rutex_

ASSUME M \in Rutexes

LOCKED    == 1
CONTENDED == 257

LockedByte(v)    == v % 256
ContendedByte(v) == v \div 256

(* Mutant: try_lock adds to the locked byte instead of exchanging it.     *)
TryLockFetchAdd(t) ==
  /\ pc[t] = "M_trylock"
  /\ value' = [value EXCEPT ![M] = @ + 1]
  /\ IF LockedByte(value[M]) = 0
     THEN Return(t, TRUE)
     ELSE /\ Goto(t, "M_xchg")
          /\ UNCHANGED <<stack, rv>>
  /\ UNCHANGED <<ip, arg, seen, tgt, queue, owner, rmtx, waiterVars, waiting,
                 timerVars>>

(* Mutex::lock(abstime) begins with try_lock: exchange the locked byte     *)
(* with 1; on success lock returns at once.                                *)
TryLock(t) ==
  /\ pc[t] = "M_trylock"
  /\ value' = [value EXCEPT ![M] = @ - LockedByte(@) + 1]
  /\ IF LockedByte(value[M]) = 0
     THEN Return(t, TRUE)
     ELSE /\ Goto(t, "M_xchg")
          /\ UNCHANGED <<stack, rv>>
  /\ UNCHANGED <<ip, arg, seen, tgt, queue, owner, rmtx, waiterVars, waiting,
                 timerVars>>

(* Mutant: lock_contended tests the contended byte of the old word.        *)
LockContendedWrongByte(t) ==
  /\ pc[t] = "M_xchg"
  /\ value' = [value EXCEPT ![M] = CONTENDED]
  /\ IF ContendedByte(value[M]) = 1
     THEN Call(t, "W_check", "M_waited") /\ UNCHANGED rv
     ELSE Return(t, TRUE)
  /\ UNCHANGED <<ip, arg, seen, tgt, queue, owner, rmtx, waiterVars, waiting,
                 timerVars>>

(* lock_contended: while exchange(CONTENDED) has the locked byte set,      *)
(* rutex_.wait_until(CONTENDED, abstime).                                  *)
LockContended(t) ==
  /\ pc[t] = "M_xchg"
  /\ value' = [value EXCEPT ![M] = CONTENDED]
  /\ IF LockedByte(value[M]) = 1
     THEN Call(t, "W_check", "M_waited") /\ UNCHANGED rv
     ELSE Return(t, TRUE)
  /\ UNCHANGED <<ip, arg, seen, tgt, queue, owner, rmtx, waiterVars, waiting,
                 timerVars>>

(* After the wait: success, ewouldblock and eintr go round the loop; a     *)
(* timeout ends lock_contended, and lock(abstime) returns false.           *)
LockWaited(t) ==
  /\ pc[t] = "M_waited"
  /\ IF rv[t] = "etimeout"
     THEN Return(t, FALSE)
     ELSE /\ Goto(t, "M_xchg")
          /\ UNCHANGED <<stack, rv>>
  /\ UNCHANGED <<ip, arg, seen, tgt, rutexVars, waiterVars, waiting, timerVars>>

(* Mutant: unlock skips the notify whenever the locked byte was set.       *)
UnlockTestsLockedBit(t) ==
  /\ pc[t] = "M_unlock"
  /\ value' = [value EXCEPT ![M] = 0]
  /\ IF LockedByte(value[M]) = 1
     THEN Return(t, 0)
     ELSE /\ Goto(t, "N_lock")
          /\ UNCHANGED <<stack, rv>>
  /\ UNCHANGED <<ip, arg, seen, tgt, queue, owner, rmtx, waiterVars, waiting,
                 timerVars>>

(* Mutex::unlock: exchange the word with 0; unless it was plain LOCKED,    *)
(* rutex_.notify_one() (whose return ends unlock).                         *)
Unlock(t) ==
  /\ pc[t] = "M_unlock"
  /\ value' = [value EXCEPT ![M] = 0]
  /\ IF value[M] = LOCKED
     THEN Return(t, 0)
     ELSE /\ Goto(t, "N_lock")
          /\ UNCHANGED <<stack, rv>>
  /\ UNCHANGED <<ip, arg, seen, tgt, queue, owner, rmtx, waiterVars, waiting,
                 timerVars>>

MutexStep(t) ==
  \/ TryLock(t) \/ LockContended(t) \/ LockWaited(t) \/ Unlock(t)

-----------------------------------------------------------------------------
(* Threads that owe the queued waiters a wake-up or the contended byte:    *)
(* an unlocker inside notify_one, and a waiter that has been taken off the *)
(* list and has not yet stored CONTENDED again.                            *)
NotifyLabels == {"N_lock", "N_unlockw", "N_wake", "N_sw", "N_waked"}
Obliged(t) ==
  \/ pc[t] \in NotifyLabels \cup {"M_waited", "M_xchg"}
  \/ pc[t] \in FrameLabels \ {"W_lock"} /\ owner[t] = Null

(* The other half of the spec's "contended is set conservatively"         *)
(* (4.6): while a waiter is parked in the mutex's rutex, either the        *)
(* contended byte is set, so the next unlock calls notify_one, or some     *)
(* thread is bound to notify or to set it again.  try_lock's byte exchange *)
(* can make the word plain LOCKED with waiters parked, and an unlock that  *)
(* then sees LOCKED skips notify_one.                                      *)
ContendedWhileQueued ==
  queue[M] # <<>> =>
    \/ ContendedByte(value[M]) = 1
    \/ \E t \in Threads : Obliged(t)
=============================================================================
