-------------------------------- MODULE Rutex --------------------------------
(***************************************************************************)
(* Clients of the bare Rutex (rutex.h): each thread runs a fixed program   *)
(* of rutex calls, the way the condition variable drives it: a wait reads *)
(* the word and calls wait_until with the value it read (optionally with a *)
(* deadline), a notify increments the word and calls notify_one, a requeue *)
(* increments it and moves the waiters to another rutex (as                *)
(* ConditionVariable::notify_one / fast_notify_all do).                    *)
(***************************************************************************)
EXTENDS RutexCore

CONSTANTS
  Program   \* [Threads -> Seq(Op)]: the calls each thread makes, in order

Ops ==
  [op : {"wait"}, r : Rutexes, timed : BOOLEAN] \cup
  [op : {"notify"}, r : Rutexes] \cup
  [op : {"requeue"}, r : Rutexes, to : Rutexes]

ASSUME \A t \in Threads : Program[t] \in Seq(Ops)

vars == coreVars

Finished(t) == pc[t] = "Idle" /\ ip[t] > Len(Program[t])

(* Take the next call of the program.  The wait's snapshot of the word,    *)
(* and the notifier's fetch_add, happen in this step.                      *)
Dispatch(t) ==
  LET o == Program[t][ip[t]] IN
  /\ pc[t] = "Idle"
  /\ ip[t] <= Len(Program[t])
  /\ ip' = [ip EXCEPT ![t] = @ + 1]
  /\ CASE o.op = "wait" ->
            /\ arg' = [arg EXCEPT ![t] = [r |-> o.r, to |-> Null,
                                          expect |-> value[o.r], timed |-> o.timed]]
            /\ Call(t, "W_check", "Idle")
            /\ UNCHANGED value
       [] o.op = "notify" ->
            /\ arg' = [arg EXCEPT ![t] = [r |-> o.r, to |-> Null, expect |-> 0,
                                          timed |-> FALSE]]
            /\ value' = [value EXCEPT ![o.r] = @ + 1]
            /\ Call(t, "N_lock", "Idle")
       [] o.op = "requeue" ->
            /\ arg' = [arg EXCEPT ![t] = [r |-> o.r, to |-> o.to, expect |-> 0,
                                          timed |-> FALSE]]
            /\ value' = [value EXCEPT ![o.r] = @ + 1]
            /\ Call(t, "Q_requeue", "Idle")
  /\ UNCHANGED <<rv, seen, tgt, queue, owner, rmtx, waiterVars, waiting, timerVars>>

Init ==
  /\ CoreInit
  /\ pc = [a \in Actors |-> IF a = TimerThread THEN "T_run" ELSE "Idle"]
  /\ ip = [t \in Threads |-> 1]

Next ==
  \/ \E t \in Threads : Dispatch(t)
  \/ \E t \in Threads : RutexStep(t)
  \/ TimerStep

(* Threads are scheduled by the OS and the timer worker runs on its own    *)
(* thread: every one that can move keeps moving.                           *)
Fairness ==
  /\ \A t \in Threads : WF_vars(Dispatch(t) \/ RutexStep(t))
  /\ WF_vars(TimerStep)

Spec == Init /\ [][Next]_vars /\ Fairness

-----------------------------------------------------------------------------
TypeOK ==
  /\ pc \in [Actors -> STRING]
  /\ value \in [Rutexes -> Nat]
  /\ queue \in [Rutexes -> Seq(Threads)]
  /\ owner \in [Threads -> Rutexes \cup {Null}]
  /\ rmtx \in [Rutexes -> Actors \cup {Null}]
  /\ wmtx \in [Threads -> Actors \cup {Null}]
  /\ imtx \in [Threads -> Actors \cup {Null}]
  /\ state \in [Threads -> {"none", "ready", "timeout"}]
  /\ waked \in [Threads -> BOOLEAN]
  /\ waiting \in [Threads -> BOOLEAN]
  /\ timers \subseteq Threads
  /\ woke \in [Threads -> {"none", "notify", "timer"}]

(* The spec's rutex invariant "waiter.owner == R <=> waiter in R.queue",   *)
(* and a waiter is queued at most once.  It is kept by wait_until's push,  *)
(* notify_one's unlink, safe_unlink and requeue, which each change the     *)
(* list and owner_ under mtx_, while safe_unlink reads owner_ without it.  *)
OwnerMatchesQueue ==
  \A t \in Threads :
    /\ \A r \in Rutexes :
         (owner[t] = r) <=> (\E i \in DOMAIN queue[r] : queue[r][i] = t)
    /\ \A r \in Rutexes : \A i, j \in DOMAIN queue[r] :
         queue[r][i] = t /\ queue[r][j] = t => i = j

(* RutexWaiter::join's promise: once wait_until has returned, the waiter   *)
(* is in no rutex's list, even if a requeue moved it between the moment   *)
(* safe_unlink (of join or of wake_by_timer) loaded owner_ and the moment  *)
(* it locked that rutex.                                                   *)
UnlinkedOnReturn ==
  \A t \in Threads : pc[t] \notin FrameLabels =>
    /\ owner[t] = Null
    /\ \A r \in Rutexes : \A i \in DOMAIN queue[r] : queue[r][i] # t

(* join's other promise: after wait_until returns, the timer holds no      *)
(* reference to the frame: its TimerId is unlinked and no callback on it   *)
(* is running (join_unschedule waited on the invoke mutex).                *)
TimerGoneOnReturn ==
  \A t \in Threads : pc[t] \notin FrameLabels =>
    /\ t \notin timers
    /\ imtx[t] = Null

(* A wait leaves with a result its history justifies: success only after   *)
(* a notify_one woke it, etimeout only after the timer callback woke it,   *)
(* ewouldblock only when the word differed from the expected value, and    *)
(* never eintr (nothing in the code interrupts a waiter).                  *)
LeavesWait(t) == pc[t] \in WaitLabels /\ pc'[t] \notin WaitLabels

WaitReturnJustified ==
  [][\A t \in Threads : LeavesWait(t) =>
       /\ rv'[t] # "eintr"
       /\ rv'[t] = "success" => woke[t] = "notify"
       /\ rv'[t] = "etimeout" => woke[t] = "timer"
       /\ rv'[t] = "ewouldblock" => value[arg[t].r] # arg[t].expect]_vars

(* The comment on RutexWaiter::wake says it runs with the waiter's mutex   *)
(* held, and join's comment says that once it holds wakeMtx_ every notify  *)
(* has finished: no notifier touches a waiter frame (waked_, state_,       *)
(* switcher_) after the wait that owns the frame has returned.             *)
NoWakeAfterReturn ==
  \A a \in Threads :
    pc[a] \in {"N_wake", "N_sw", "N_waked"} => FrameAlive(tgt[a])

(* No lost wakeup: every call a thread makes returns, so every program     *)
(* runs to its end.                                                        *)
AllCallsReturn == <>(\A t \in Threads : Finished(t))

=============================================================================
