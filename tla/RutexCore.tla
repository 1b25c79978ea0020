------------------------------ MODULE RutexCore ------------------------------
(***************************************************************************)
(* The rutex layer of libgo's routine_sync (src/libgo/routine_sync):       *)
(*   - Rutex (rutex.h): the atomic word value_, the internal mutex mtx_,   *)
(*     the FIFO waiters_ and wait_until / notify_one / requeue;            *)
(*   - RutexWaiter (rutex.h): the stack frame of one blocked call, with    *)
(*     state_, waked_, the per-waiter mutex wakeMtx_, owner_, and its      *)
(*     sleep / wake / wake_by_timer / safe_unlink / join;                  *)
(*   - PThreadSwitcher (switcher.h): the thread-local waiting_ flag that   *)
(*     sleep() sets and wake() clears;                                     *)
(*   - the part of RoutineSyncTimer (timer.h) a timed wait touches:        *)
(*     schedule, join_unschedule, and the run loop invoking the callback   *)
(*     under the entry's invoke mutex.                                     *)
(*                                                                         *)
(* Every thread runs one call at a time; pc is its program counter and     *)
(* stack its return labels, so modules layered on top (Mutex, condition    *)
(* variable, channel) call these procedures with Call and get the result   *)
(* in rv.  The intrusive list waiters_ is abstracted to the FIFO contract  *)
(* LinkedList promises (LinkedList.tla checks the list against it).  The   *)
(* timer's deadlines are abstracted: any scheduled entry may come due at   *)
(* any moment (Timer.tla models the clock and the ordered container).      *)
(***************************************************************************)
EXTENDS Naturals, Sequences, FiniteSets

CONSTANTS
  Threads,      \* threads and coroutines that call the primitives
  Rutexes,      \* the Rutex objects
  TimerThread,  \* the RoutineSyncTimer worker running run()
  Null          \* nullptr

ASSUME TimerThread \notin Threads /\ Null \notin Threads \cup Rutexes

Actors == Threads \cup {TimerThread}

VARIABLES
  pc,       \* program counter of every actor
  stack,    \* return labels of the procedures a thread is inside
  arg,      \* arguments of the rutex call a thread is inside
  rv,       \* value returned by the last procedure a thread left
  value,    \* Rutex::value_
  queue,    \* Rutex::waiters_, as the FIFO of the waiting threads
  owner,    \* RutexWaiter::owner_ of each thread's current waiter frame
  rmtx,     \* holder of Rutex::mtx_
  state,    \* RutexWaiter::state_
  waked,    \* RutexWaiter::waked_
  wmtx,     \* holder of RutexWaiter::wakeMtx_
  epoch,    \* number of waiter frames a thread has created (frame identity)
  woke,     \* history: who made the switcher wake of the current frame succeed
  waiting,  \* PThreadSwitcher::waiting_ of each thread (thread_local)
  timers,   \* threads whose TimerId is linked in the timer's ordered list
  imtx,     \* holder of the invoke mutex (FuncWrapper::mtx_) of a TimerId
  seen,     \* owner_ as loaded by safe_unlink before it locks that rutex
  tgt,      \* frame <<thread, epoch>> a notifier or the timer is waking
  ip        \* index of the next call of a thread's client program

ctlVars    == <<pc, stack, arg, rv, seen, tgt, ip>>
rutexVars  == <<value, queue, owner, rmtx>>
waiterVars == <<state, waked, wmtx, epoch, woke>>
timerVars  == <<timers, imtx>>
coreVars   == <<ctlVars, rutexVars, waiterVars, waiting, timerVars>>

Results == {"success", "etimeout", "ewouldblock", "eintr"}

(* The labels inside Rutex::wait_until once the waiter frame exists.       *)
FrameLabels == {"W_lock", "W_sched", "W_sleep", "W_blocked", "J_waked",
                "J_unlink", "J_lockw", "J_unsched"}
WaitLabels == {"W_check"} \cup FrameLabels

(* The frame <<t, e>> is alive: thread t is still inside the wait call     *)
(* that created its e-th RutexWaiter.                                      *)
FrameAlive(f) == epoch[f[1]] = f[2] /\ pc[f[1]] \in FrameLabels

-----------------------------------------------------------------------------
(* Control helpers.                                                        *)

Goto(a, l) == pc' = [pc EXCEPT ![a] = l]

Call(t, l, ret) ==
  /\ pc' = [pc EXCEPT ![t] = l]
  /\ stack' = [stack EXCEPT ![t] = <<ret>> \o @]

Return(t, v) ==
  /\ pc' = [pc EXCEPT ![t] = Head(stack[t])]
  /\ stack' = [stack EXCEPT ![t] = Tail(@)]
  /\ rv' = [rv EXCEPT ![t] = v]

Acquire(m, k, a) == m' = [m EXCEPT ![k] = a]
Release(m, k)    == m' = [m EXCEPT ![k] = Null]

(* LinkedList::unlink of a waiter, as the list's FIFO contract states it.  *)
Unlinked(q, t) == SelectSeq(q, LAMBDA x : x # t)

-----------------------------------------------------------------------------
(* RutexWaiter::safe_unlink, shared by join and wake_by_timer: load owner_,*)
(* lock that rutex's mtx_, and unlink only if owner_ is still the rutex    *)
(* that was loaded; otherwise (a requeue moved the waiter) retry.          *)

SafeUnlinkLoad(a, t, gone, locking) ==
  IF owner[t] = Null
  THEN /\ Goto(a, gone)
       /\ UNCHANGED seen
  ELSE /\ seen' = [seen EXCEPT ![a] = owner[t]]
       /\ Goto(a, locking)

(* Mutant: safe_unlink without the re-check of owner_ under the lock.     *)
SafeUnlinkRelockNoRecheck(a, t, unlinked, retry) ==
  /\ rmtx[seen[a]] = Null
  /\ queue' = [queue EXCEPT ![seen[a]] = Unlinked(@, t)]
  /\ owner' = [owner EXCEPT ![t] = Null]
  /\ Goto(a, unlinked)

SafeUnlinkRelock(a, t, unlinked, retry) ==
  /\ rmtx[seen[a]] = Null
  /\ IF owner[t] = seen[a]
     THEN /\ queue' = [queue EXCEPT ![seen[a]] = Unlinked(@, t)]
          /\ owner' = [owner EXCEPT ![t] = Null]
          /\ Goto(a, unlinked)
     ELSE /\ UNCHANGED <<ip, queue, owner>>
          /\ Goto(a, retry)

-----------------------------------------------------------------------------
(* Rutex::wait_until(expectValue, abstime), called with arg[t] =           *)
(* [r |-> rutex, expect |-> expectValue, timed |-> abstime # nullptr].     *)

(* The unlocked load of value_; on a match the RutexWaiter is constructed. *)
WaitCheck(t) ==
  LET r == arg[t].r IN
  /\ pc[t] = "W_check"
  /\ IF value[r] # arg[t].expect
     THEN /\ Return(t, "ewouldblock")
          /\ UNCHANGED <<ip, waiterVars, owner>>
     ELSE /\ epoch' = [epoch EXCEPT ![t] = @ + 1]
          /\ state' = [state EXCEPT ![t] = "none"]
          /\ waked' = [waked EXCEPT ![t] = FALSE]
          /\ wmtx' = [wmtx EXCEPT ![t] = Null]
          /\ owner' = [owner EXCEPT ![t] = Null]
          /\ woke' = [woke EXCEPT ![t] = "none"]
          /\ Goto(t, "W_lock")
          /\ UNCHANGED <<ip, stack, rv>>
  /\ UNCHANGED <<ip, arg, seen, tgt, value, queue, rmtx, waiting, timerVars>>

(* The critical section under mtx_: re-check value_, then push the waiter  *)
(* and set owner_.  state_ of the fresh frame is none, so the switch on    *)
(* it falls through.                                                       *)
WaitLock(t) ==
  LET r == arg[t].r IN
  /\ pc[t] = "W_lock"
  /\ rmtx[r] = Null
  /\ IF value[r] # arg[t].expect
     THEN /\ Return(t, "ewouldblock")
          /\ UNCHANGED <<ip, queue, owner>>
     ELSE /\ queue' = [queue EXCEPT ![r] = Append(@, t)]
          /\ owner' = [owner EXCEPT ![t] = r]
          /\ Goto(t, "W_sched")
          /\ UNCHANGED <<ip, stack, rv>>
  /\ UNCHANGED <<ip, arg, seen, tgt, value, rmtx, waiterVars, waiting, timerVars>>

(* RutexWaiter::sleep: with a deadline, schedule the wake_by_timer         *)
(* callback (RoutineSyncTimer::schedule links the TimerId under mtx_).     *)
WaitSchedule(t) ==
  /\ pc[t] = "W_sched"
  /\ timers' = IF arg[t].timed THEN timers \cup {t} ELSE timers
  /\ Goto(t, "W_sleep")
  /\ UNCHANGED <<ip, stack, arg, rv, seen, tgt, rutexVars, waiterVars, waiting, imtx>>

(* PThreadSwitcher::sleep: set waiting_ under the switcher's mutex ...     *)
SwitcherSleep(t) ==
  /\ pc[t] = "W_sleep"
  /\ waiting' = [waiting EXCEPT ![t] = TRUE]
  /\ Goto(t, "W_blocked")
  /\ UNCHANGED <<ip, stack, arg, rv, seen, tgt, rutexVars, waiterVars, timerVars>>

(* ... and block on cond_ until a wake clears it.                          *)
SwitcherWoken(t) ==
  /\ pc[t] = "W_blocked"
  /\ ~waiting[t]
  /\ Goto(t, "J_waked")
  /\ UNCHANGED <<ip, stack, arg, rv, seen, tgt, rutexVars, waiterVars, waiting, timerVars>>

(* RutexWaiter::join step 1: waked_ = true.                                *)
JoinWaked(t) ==
  /\ pc[t] = "J_waked"
  /\ waked' = [waked EXCEPT ![t] = TRUE]
  /\ Goto(t, "J_unlink")
  /\ UNCHANGED <<ip, stack, arg, rv, seen, tgt, rutexVars, state, wmtx, epoch, woke,
                 waiting, timerVars>>

(* join step 2: safe_unlink.  Every path that wakes a waiter (notify_one, *)
(* wake_by_timer) has unlinked it first, so join finds owner_ null; the    *)
(* load, lock and re-check of the other branch are taken as one step.     *)
JoinUnlink(t) ==
  /\ pc[t] = "J_unlink"
  /\ IF owner[t] = Null
     THEN UNCHANGED <<queue, owner>>
     ELSE /\ rmtx[owner[t]] = Null
          /\ queue' = [queue EXCEPT ![owner[t]] = Unlinked(@, t)]
          /\ owner' = [owner EXCEPT ![t] = Null]
  /\ Goto(t, "J_lockw")
  /\ UNCHANGED <<ip, stack, arg, rv, seen, tgt, value, rmtx, waiterVars, waiting,
                 timerVars>>

(* The value wait_until returns for the final state_ of the frame.         *)
WaitResult(t) ==
  CASE state[t] = "timeout" -> "etimeout"
    [] state[t] = "ready"   -> "success"
    [] OTHER                -> "eintr"

(* join step 3: wakeMtx_.lock(), held until the frame is destroyed.  An    *)
(* untimed wait then returns.                                              *)
JoinLockWake(t) ==
  /\ pc[t] = "J_lockw"
  /\ wmtx[t] = Null
  /\ wmtx' = [wmtx EXCEPT ![t] = t]
  /\ IF arg[t].timed
     THEN /\ Goto(t, "J_unsched")
          /\ UNCHANGED <<ip, stack, rv>>
     ELSE Return(t, WaitResult(t))
  /\ UNCHANGED <<ip, arg, seen, tgt, rutexVars, state, waked, epoch, woke, waiting,
                 timerVars>>

(* Mutant: join returns without join_unschedule.                          *)
JoinUnscheduleSkip(t) ==
  /\ pc[t] = "J_unsched"
  /\ Return(t, WaitResult(t))
  /\ UNCHANGED <<ip, arg, seen, tgt, rutexVars, waiterVars, waiting, timerVars>>

(* join step 4: RoutineSyncTimer::join_unschedule: take the entry's invoke *)
(* mutex (waiting out a running callback), cancel, erase under mtx_; then  *)
(* wait_until returns.                                                     *)
JoinUnschedule(t) ==
  /\ pc[t] = "J_unsched"
  /\ imtx[t] = Null
  /\ timers' = timers \ {t}
  /\ Return(t, WaitResult(t))
  /\ UNCHANGED <<ip, arg, seen, tgt, rutexVars, waiterVars, waiting, imtx>>

-----------------------------------------------------------------------------
(* Rutex::notify_one, called with arg[a].r.  notify_one declares two      *)
(* locks named lock (rutex.h:177/184), which does not compile; the         *)
(* comments at rutex.h:37, 79, 86 and 183 fix the intent: mtx_ is released *)
(* at line 194 and wake() runs under the waiter's waitMtx_, which is held  *)
(* until the call returns or the loop goes round.                          *)

NotifyLock(a) ==
  LET r == arg[a].r IN
  /\ pc[a] = "N_lock"
  /\ rmtx[r] = Null
  /\ IF queue[r] = <<>>
     THEN /\ Return(a, 0)
          /\ UNCHANGED <<ip, queue, owner, rmtx, wmtx, tgt>>
     ELSE LET w == Head(queue[r]) IN
          /\ queue' = [queue EXCEPT ![r] = Tail(@)]
          /\ owner' = [owner EXCEPT ![w] = Null]
          /\ IF wmtx[w] = Null
             THEN /\ Acquire(wmtx, w, a)
                  /\ Acquire(rmtx, r, a)
                  /\ tgt' = [tgt EXCEPT ![a] = <<w, epoch[w]>>]
                  /\ Goto(a, "N_unlockw")
             ELSE UNCHANGED <<ip, wmtx, rmtx, tgt, pc>>
          /\ UNCHANGED <<ip, stack, rv>>
  /\ UNCHANGED <<ip, arg, seen, value, state, waked, epoch, woke, waiting, timerVars>>

(* Mutant: line 194 read literally, releasing waitMtx_ instead of mtx_.   *)
NotifyUnlockWaiterWaitMtx(a) ==
  /\ pc[a] = "N_unlockw"
  /\ Release(wmtx, tgt[a][1])
  /\ Goto(a, "N_wake")
  /\ UNCHANGED <<ip, stack, arg, rv, seen, tgt, rutexVars, state, waked, epoch, woke,
                 waiting, timerVars>>

(* lock.unlock() of the rutex mtx_, before wake() is called.              *)
NotifyUnlockWaiter(a) ==
  /\ pc[a] = "N_unlockw"
  /\ Release(rmtx, arg[a].r)
  /\ Goto(a, "N_wake")
  /\ UNCHANGED <<ip, stack, arg, rv, seen, tgt, value, queue, owner, waiterVars,
                 waiting, timerVars>>

(* Mutant: wake() without the store of state_.                            *)
NotifyWakeNoState(a) ==
  LET w == tgt[a][1] IN
  /\ pc[a] = "N_wake"
  /\ IF waked[w]
     THEN /\ Release(wmtx, w)
          /\ Return(a, 1)
     ELSE /\ Goto(a, "N_sw")
          /\ UNCHANGED <<wmtx, stack, rv>>
  /\ UNCHANGED <<ip, arg, seen, tgt, rutexVars, state, waked, epoch, woke, waiting,
                 timerVars>>

(* RutexWaiter::wake(ready): return true if waked_, else store state_.     *)
(* Returning 1 ends notify_one, whose scope releases waitMtx_.             *)
NotifyWake(a) ==
  LET w == tgt[a][1] IN
  /\ pc[a] = "N_wake"
  /\ IF waked[w]
     THEN /\ Release(wmtx, w)
          /\ Return(a, 1)
          /\ UNCHANGED state
     ELSE /\ state' = [state EXCEPT ![w] = "ready"]
          /\ Goto(a, "N_sw")
          /\ UNCHANGED <<ip, wmtx, stack, rv>>
  /\ UNCHANGED <<ip, arg, seen, tgt, rutexVars, waked, epoch, woke, waiting, timerVars>>

(* switcher_->wake(): PThreadSwitcher::wake fails unless waiting_ is set;  *)
(* on failure notify_one goes round its loop, releasing waitMtx_.          *)
NotifySwitch(a) ==
  LET w == tgt[a][1] IN
  /\ pc[a] = "N_sw"
  /\ IF waiting[w]
     THEN /\ waiting' = [waiting EXCEPT ![w] = FALSE]
          /\ woke' = [woke EXCEPT ![w] = "notify"]
          /\ Goto(a, "N_waked")
          /\ UNCHANGED wmtx
     ELSE /\ Release(wmtx, w)
          /\ Goto(a, "N_lock")
          /\ UNCHANGED <<ip, waiting, woke>>
  /\ UNCHANGED <<ip, stack, arg, rv, seen, tgt, rutexVars, state, waked, epoch, timerVars>>

(* waked_ = true; notify_one returns 1 and releases waitMtx_.              *)
NotifyWaked(a) ==
  LET w == tgt[a][1] IN
  /\ pc[a] = "N_waked"
  /\ waked' = [waked EXCEPT ![w] = TRUE]
  /\ Release(wmtx, w)
  /\ Return(a, 1)
  /\ UNCHANGED <<ip, arg, seen, tgt, rutexVars, state, epoch, woke, waiting, timerVars>>

-----------------------------------------------------------------------------
(* Mutant: requeue moves the waiters but leaves owner_ alone.             *)
RequeueStepKeepOwner(a) ==
  /\ pc[a] = "Q_requeue"
  /\ rmtx[arg[a].r] = Null /\ rmtx[arg[a].to] = Null
  /\ queue' = [queue EXCEPT ![arg[a].r] = <<>>,
                             ![arg[a].to] = queue[arg[a].to] \o queue[arg[a].r]]
  /\ Return(a, Len(queue[arg[a].r]))
  /\ UNCHANGED <<ip, arg, seen, tgt, value, owner, rmtx, waiterVars, waiting, timerVars>>

(* Rutex::requeue(other), called with arg[a].r and arg[a].to: lock both   *)
(* mutexes (in address order), move every waiter to the tail of other's   *)
(* list and point its owner_ at other.                                    *)

RequeueStep(a) ==
  LET r == arg[a].r
      o == arg[a].to
  IN
  /\ pc[a] = "Q_requeue"
  /\ rmtx[r] = Null /\ rmtx[o] = Null
  /\ queue' = [queue EXCEPT ![r] = <<>>, ![o] = queue[o] \o queue[r]]
  /\ owner' = [w \in Threads |->
                 IF \E i \in DOMAIN queue[r] : queue[r][i] = w THEN o ELSE owner[w]]
  /\ Return(a, Len(queue[r]))
  /\ UNCHANGED <<ip, arg, seen, tgt, value, rmtx, waiterVars, waiting, timerVars>>

-----------------------------------------------------------------------------
(* The timer worker: RoutineSyncTimer::run takes a due entry under mtx_,  *)
(* try_locks its invoke mutex and erases it; if locked it invokes the     *)
(* callback, which for a rutex wait is RutexWaiter::wake_by_timer.  The   *)
(* invoke mutex is released when invoke() returns.                        *)

TimerFinish == /\ Goto(TimerThread, "T_run")

TimerFire ==
  /\ pc[TimerThread] = "T_run"
  /\ \E t \in timers :
       /\ timers' = timers \ {t}
       /\ IF imtx[t] = Null
          THEN /\ Acquire(imtx, t, TimerThread)
               /\ tgt' = [tgt EXCEPT ![TimerThread] = <<t, epoch[t]>>]
               /\ Goto(TimerThread, "T_invoke")
          ELSE UNCHANGED <<ip, imtx, tgt, pc>>
  /\ UNCHANGED <<ip, stack, arg, rv, seen, rutexVars, waiterVars, waiting>>

(* FuncWrapper::invoke: canceled_ is never set (cancel() stores false), so *)
(* fn_ runs: wake_by_timer try_locks wakeMtx_ and returns if it is taken.  *)
TimerInvoke ==
  LET t == tgt[TimerThread][1] IN
  /\ pc[TimerThread] = "T_invoke"
  /\ IF wmtx[t] = Null
     THEN /\ Acquire(wmtx, t, TimerThread)
          /\ Goto(TimerThread, "T_unlink")
          /\ UNCHANGED imtx
     ELSE /\ Release(imtx, t)
          /\ TimerFinish
          /\ UNCHANGED wmtx
  /\ UNCHANGED <<ip, stack, arg, rv, seen, tgt, rutexVars, state, waked, epoch, woke,
                 waiting, timers>>

(* wake_by_timer: safe_unlink; if the waiter was not linked any more,      *)
(* return (releasing wakeMtx_, then the invoke mutex).                     *)
TimerUnlink ==
  LET t == tgt[TimerThread][1] IN
  /\ pc[TimerThread] = "T_unlink"
  /\ SafeUnlinkLoad(TimerThread, t, "T_gone", "T_relock")
  /\ UNCHANGED <<ip, stack, arg, rv, tgt, rutexVars, waiterVars, waiting, timerVars>>

TimerRelock ==
  /\ pc[TimerThread] = "T_relock"
  /\ SafeUnlinkRelock(TimerThread, tgt[TimerThread][1], "T_wake", "T_unlink")
  /\ UNCHANGED <<ip, stack, arg, rv, seen, tgt, value, rmtx, waiterVars, waiting, timerVars>>

TimerGone ==
  LET t == tgt[TimerThread][1] IN
  /\ pc[TimerThread] = "T_gone"
  /\ Release(wmtx, t)
  /\ Release(imtx, t)
  /\ TimerFinish
  /\ UNCHANGED <<ip, stack, arg, rv, seen, tgt, rutexVars, state, waked, epoch, woke,
                 waiting, timers>>

(* Mutant: wake_by_timer passes waiter_state_interrupted.               *)
TimerWakeInterrupted ==
  LET t == tgt[TimerThread][1] IN
  /\ pc[TimerThread] = "T_wake"
  /\ state' = [state EXCEPT ![t] = "interrupted"]
  /\ IF waiting[t]
     THEN /\ waiting' = [waiting EXCEPT ![t] = FALSE]
          /\ woke' = [woke EXCEPT ![t] = "timer"]
          /\ Goto(TimerThread, "T_waked")
     ELSE /\ Goto(TimerThread, "T_resched")
          /\ UNCHANGED <<waiting, woke>>
  /\ UNCHANGED <<ip, stack, arg, rv, seen, tgt, rutexVars, waked, wmtx, epoch, timerVars>>

(* wake(timeout): state_ = timeout, then switcher_->wake().  On failure   *)
(* wake_by_timer calls reschedule on its own TimerId.                     *)
TimerWake ==
  LET t == tgt[TimerThread][1] IN
  /\ pc[TimerThread] = "T_wake"
  /\ state' = [state EXCEPT ![t] = "timeout"]
  /\ IF waiting[t]
     THEN /\ waiting' = [waiting EXCEPT ![t] = FALSE]
          /\ woke' = [woke EXCEPT ![t] = "timer"]
          /\ Goto(TimerThread, "T_waked")
     ELSE /\ Goto(TimerThread, "T_resched")
          /\ UNCHANGED <<ip, waiting, woke>>
  /\ UNCHANGED <<ip, stack, arg, rv, seen, tgt, rutexVars, waked, wmtx, epoch, timerVars>>

TimerWaked ==
  LET t == tgt[TimerThread][1] IN
  /\ pc[TimerThread] = "T_waked"
  /\ waked' = [waked EXCEPT ![t] = TRUE]
  /\ Release(wmtx, t)
  /\ Release(imtx, t)
  /\ TimerFinish
  /\ UNCHANGED <<ip, stack, arg, rv, seen, tgt, rutexVars, state, epoch, woke, waiting,
                 timers>>

(* RoutineSyncTimer::reschedule begins with invoke_lock on the entry's     *)
(* mutex, which run() holds while this callback executes: the timer        *)
(* thread relocks a std::mutex it owns and blocks for good (timer.h:94     *)
(* says so).  No step leaves T_resched.                                    *)
TimerSelfDeadlocked == pc[TimerThread] = "T_resched"

TimerStep ==
  \/ TimerFire \/ TimerInvoke \/ TimerUnlink \/ TimerRelock \/ TimerGone
  \/ TimerWake \/ TimerWaked

(* Every step a thread can take inside the rutex procedures.               *)
RutexStep(t) ==
  \/ WaitCheck(t) \/ WaitLock(t) \/ WaitSchedule(t) \/ SwitcherSleep(t)
  \/ SwitcherWoken(t) \/ JoinWaked(t) \/ JoinUnlink(t)
  \/ JoinLockWake(t) \/ JoinUnschedule(t)
  \/ NotifyLock(t) \/ NotifyUnlockWaiter(t) \/ NotifyWake(t) \/ NotifySwitch(t)
  \/ NotifyWaked(t) \/ RequeueStep(t)

CoreInit ==
  /\ stack = [t \in Threads |-> <<>>]
  /\ arg = [t \in Threads |-> [r |-> Null, to |-> Null, expect |-> 0, timed |-> FALSE]]
  /\ rv = [t \in Threads |-> 0]
  /\ value = [r \in Rutexes |-> 0]
  /\ queue = [r \in Rutexes |-> <<>>]
  /\ owner = [t \in Threads |-> Null]
  /\ rmtx = [r \in Rutexes |-> Null]
  /\ state = [t \in Threads |-> "none"]
  /\ waked = [t \in Threads |-> FALSE]
  /\ wmtx = [t \in Threads |-> Null]
  /\ epoch = [t \in Threads |-> 0]
  /\ woke = [t \in Threads |-> "none"]
  /\ waiting = [t \in Threads |-> FALSE]
  /\ timers = {}
  /\ imtx = [t \in Threads |-> Null]
  /\ seen = [a \in Actors |-> Null]
  /\ tgt = [a \in Actors |-> <<CHOOSE t \in Threads : TRUE, 0>>]

=============================================================================
