-------------------------------- MODULE Timer --------------------------------
(***************************************************************************)
(* RoutineSyncTimer (src/libgo/routine_sync/timer.h) with a clock: the     *)
(* worker thread running run(), and clients that each own one TimerId,     *)
(* schedule it with a deadline and later join_unschedule it, as a timed    *)
(* rutex wait does.  The ordered container is the sorted queue the         *)
(* skiplist is meant to be (Skiplist.tla shows the real one crashes on its *)
(* first insert).  The callback is wake_by_timer: it returns, or, when the *)
(* waiter had not reached sleep yet, calls reschedule on its own TimerId.  *)
(***************************************************************************)
EXTENDS Naturals, Sequences

CONSTANTS
  Entries,   \* the TimerIds, one per client
  Delays,    \* deadlines a client asks for, relative to the current time
  MaxTime,   \* bound on the clock
  Worker,    \* the thread running run()
  Null

ASSUME Delays \subseteq Nat /\ MaxTime \in Nat

VARIABLES
  now,       \* clock_type::now()
  list,      \* orderedList_, sorted by key
  lmtx,      \* holder of the timer's mtx_
  key,       \* TimerId::key
  imtx,      \* holder of FuncWrapper::mtx_ (the invoke mutex)
  canceled,  \* FuncWrapper::canceled_
  done,      \* FuncWrapper::done_
  cpc,       \* program counter of each entry's client
  wpc,       \* program counter of the worker
  cur,       \* the entry the worker is invoking
  fired,     \* history: the callback of the entry has run
  jres       \* history: what join_unschedule returned

vars == <<now, list, lmtx, key, imtx, canceled, done, cpc, wpc, cur, fired, jres>>

InList(e) == \E i \in DOMAIN list : list[i] = e

(* orderedList_.insert: after the entries with smaller or equal keys.     *)
Inserted(e) ==
  LET before == SelectSeq(list, LAMBDA x : key[x] <= key[e])
      after  == SelectSeq(list, LAMBDA x : key[x] > key[e])
  IN before \o <<e>> \o after

Erased(e) == SelectSeq(list, LAMBDA x : x # e)

Init ==
  /\ now = 0
  /\ list = <<>>
  /\ lmtx = Null
  /\ key = [e \in Entries |-> 0]
  /\ imtx = [e \in Entries |-> Null]
  /\ canceled = [e \in Entries |-> FALSE]
  /\ done = [e \in Entries |-> FALSE]
  /\ cpc = [e \in Entries |-> "idle"]
  /\ wpc = "run"
  /\ cur = Null
  /\ fired = [e \in Entries |-> FALSE]
  /\ jres = [e \in Entries |-> FALSE]

(* The clock advances.                                                     *)
Tick ==
  /\ now < MaxTime
  /\ now' = now + 1
  /\ UNCHANGED <<list, lmtx, key, imtx, canceled, done, cpc, wpc, cur, fired, jres>>

(* schedule(id, abstime, fn), before its lock: key = convert(abstime);     *)
(* value.set(fn) resets done_ and canceled_; buildNode.                    *)
ScheduleSet(e) ==
  /\ cpc[e] = "idle"
  /\ \E d \in Delays : key' = [key EXCEPT ![e] = now + d]
  /\ done' = [done EXCEPT ![e] = FALSE]
  /\ canceled' = [canceled EXCEPT ![e] = FALSE]
  /\ cpc' = [cpc EXCEPT ![e] = "insert"]
  /\ UNCHANGED <<now, list, lmtx, imtx, wpc, cur, fired, jres>>

(* ... then orderedList_.insert(&id) under mtx_.                           *)
ScheduleInsert(e) ==
  /\ cpc[e] = "insert"
  /\ lmtx = Null
  /\ list' = Inserted(e)
  /\ cpc' = [cpc EXCEPT ![e] = "scheduled"]
  /\ UNCHANGED <<now, lmtx, key, imtx, canceled, done, wpc, cur, fired, jres>>

(* Mutant: join_unschedule cancels without taking the invoke mutex.        *)
JoinCancelNoLock(e) ==
  /\ cpc[e] = "scheduled"
  /\ canceled' = [canceled EXCEPT ![e] = FALSE]
  /\ cpc' = [cpc EXCEPT ![e] = "erase"]
  /\ UNCHANGED <<now, list, lmtx, key, imtx, done, wpc, cur, fired, jres>>

(* join_unschedule(id): lock the invoke mutex, waiting out a running       *)
(* callback; cancel(), which stores false, so canceled_ stays false.       *)
JoinCancel(e) ==
  /\ cpc[e] = "scheduled"
  /\ imtx[e] = Null
  /\ imtx' = [imtx EXCEPT ![e] = e]
  /\ canceled' = [canceled EXCEPT ![e] = FALSE]
  /\ cpc' = [cpc EXCEPT ![e] = "erase"]
  /\ UNCHANGED <<now, list, lmtx, key, done, wpc, cur, fired, jres>>

(* ... lock mtx_, erase, return done(); both locks go on return.           *)
JoinErase(e) ==
  /\ cpc[e] = "erase"
  /\ lmtx = Null
  /\ list' = Erased(e)
  /\ jres' = [jres EXCEPT ![e] = done[e]]
  /\ imtx' = [imtx EXCEPT ![e] = IF @ = e THEN Null ELSE @]
  /\ cpc' = [cpc EXCEPT ![e] = "joined"]
  /\ UNCHANGED <<now, lmtx, key, canceled, done, wpc, cur, fired>>

(* run(), one round of its loop under mtx_: if the front entry has         *)
(* key >= now(), try_lock its invoke mutex and erase it; if the try_lock   *)
(* succeeded, unlock mtx_ and go on to invoke.  Otherwise the round ends   *)
(* and the loop goes round (the sleep_for after `continue` is never        *)
(* reached), which changes nothing.                                        *)
RunCheck ==
  /\ wpc = "run"
  /\ lmtx = Null
  /\ list # <<>>
  /\ LET e == Head(list) IN
     /\ key[e] >= now
     /\ list' = Tail(list)
     /\ IF imtx[e] = Null
        THEN /\ imtx' = [imtx EXCEPT ![e] = Worker]
             /\ cur' = e
             /\ wpc' = "invoke"
        ELSE UNCHANGED <<imtx, cur, wpc>>
  /\ UNCHANGED <<now, lmtx, key, canceled, done, cpc, fired, jres>>

(* Mutant: the invoke mutex stays held after the callback returns.         *)
RunInvokeKeepsLock ==
  /\ wpc = "invoke"
  /\ IF canceled[cur]
     THEN /\ imtx' = [imtx EXCEPT ![cur] = Null]
          /\ wpc' = "run"
          /\ UNCHANGED <<done, fired, cur>>
     ELSE /\ fired' = [fired EXCEPT ![cur] = TRUE]
          /\ \/ /\ done' = [done EXCEPT ![cur] = TRUE]
                /\ wpc' = "run"
                /\ cur' = Null
                /\ UNCHANGED imtx
             \/ /\ wpc' = "resched"
                /\ UNCHANGED <<done, imtx, cur>>
  /\ UNCHANGED <<now, list, lmtx, key, canceled, cpc, jres>>

(* FuncWrapper::invoke: unless canceled_, run fn_ (wake_by_timer) and set  *)
(* done_; the invoke mutex is released when the round ends.  When the     *)
(* waiter had not gone to sleep yet, wake_by_timer calls reschedule.       *)
RunInvoke ==
  /\ wpc = "invoke"
  /\ IF canceled[cur]
     THEN /\ imtx' = [imtx EXCEPT ![cur] = Null]
          /\ wpc' = "run"
          /\ UNCHANGED <<done, fired, cur>>
     ELSE /\ fired' = [fired EXCEPT ![cur] = TRUE]
          /\ \/ /\ done' = [done EXCEPT ![cur] = TRUE]
                /\ imtx' = [imtx EXCEPT ![cur] = Null]
                /\ wpc' = "run"
                /\ cur' = Null
             \/ /\ wpc' = "resched"
                /\ UNCHANGED <<done, imtx, cur>>
  /\ UNCHANGED <<now, list, lmtx, key, canceled, cpc, jres>>

(* reschedule(id, ...) begins with invoke_lock on the entry's mutex, which *)
(* run() holds while the callback runs: called from inside the callback it *)
(* never gets it (timer.h:94), and no step leaves "resched".               *)
WorkerSelfDeadlocked == wpc = "resched"

Client(e) ==
  ScheduleSet(e) \/ ScheduleInsert(e) \/ JoinCancel(e) \/ JoinErase(e)

Next ==
  \/ Tick
  \/ \E e \in Entries : Client(e)
  \/ RunCheck \/ RunInvoke

Spec == Init /\ [][Next]_vars

(* The worker and the clients are OS threads and the clock always moves:  *)
(* each is weakly fair.  Nothing is strongly fair: a join blocked on an    *)
(* invoke mutex is not promised it while it is only now and then free.     *)
Fairness ==
  /\ WF_vars(Tick)
  /\ WF_vars(RunCheck \/ RunInvoke)
  /\ \A e \in Entries : WF_vars(Client(e))

FairSpec == Spec /\ Fairness

-----------------------------------------------------------------------------
(* join_unschedule's result tells whether the callback ran: done() after   *)
(* the invoke mutex was taken is true exactly when fn_ had been invoked,   *)
(* although cancel() does not set canceled_ and run() may have taken the   *)
(* entry off the list just before join_unschedule erased it.  jres is      *)
(* fixed once joined, so this is also spec property 5: the callback never  *)
(* starts after the join.                                                  *)
JoinReportsDone ==
  \A e \in Entries : cpc[e] = "joined" => jres[e] = fired[e]

(* join_unschedule returns: a client that has scheduled its entry gets     *)
(* past the invoke mutex, which run() holds while the callback runs, and   *)
(* past mtx_, because every path through invoke() ends by releasing the    *)
(* invoke lock.  The one exception is the callback stuck in reschedule of  *)
(* this very entry (timer.h:94), whose join then waits for ever; the joins *)
(* of every other entry still return.                                       *)
JoinReturns ==
  \A e \in Entries :
    cpc[e] = "scheduled" ~> (cpc[e] = "joined" \/ (WorkerSelfDeadlocked /\ cur = e))

(* Spec 4.4: the run loop invokes an entry when it is due: never before    *)
(* its deadline.                                                           *)
NoEarlyFire ==
  [][\A e \in Entries : ~fired[e] /\ fired'[e] => now >= key[e]]_vars
=============================================================================
