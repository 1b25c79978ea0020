------------------------------- MODULE Channel -------------------------------
(***************************************************************************)
(* libgo::ChannelImpl (src/libgo/routine_sync/channel.h): the buffered     *)
(* paths (cap_ > 0) push_impl_with_cap and pop_impl_with_cap, the          *)
(* unbuffered rendezvous (cap_ == 0) of ChannelImplWithSignal, and close,  *)
(* over the Mutex mtx_ (rutex M) and the ConditionVariables pushCv_ and    *)
(* popCv_ of CondVarCore.  Every call is untimed (abstime == nullptr), so  *)
(* wait_until_p is wait(lock, p): while (!p()) wait(lock).  The isWait     *)
(* flag is an argument of each call.  `noitfy_one` is read as notify_one. *)
(* The rendezvous waits with the predicate []{return true;}: untimed, it   *)
(* holds at once and nothing waits.  A pushed element is the name of its   *)
(* pusher.  The properties count the elements only, so the model is also  *)
(* ChannelImpl<nullptr_t>, whose count_ is Len(q) here (channel.h:353-436, *)
(* the same code with ++count_).  Clients call the Channel<T> wrapper,     *)
(* which forwards to ChannelImpl and, for operator<< and operator>>,       *)
(* throws when the call fails and throw_ex_if_operator_failed_ is set.     *)
(***************************************************************************)
EXTENDS CondVarCore

CONSTANTS
  PushCv,   \* pushCv_'s rutex
  PopCv,    \* popCv_'s rutex
  LocalCv,  \* [Threads -> rutex]: the `ConditionVariable waiting` a
            \* rendezvous call creates on its stack
  Caps,     \* the capacities the channel may be constructed with
  Program   \* [Threads -> Seq(Calls)]

(* The members of Channel<T> that call into ChannelImpl, untimed.          *)
Calls == {"operator<<", "operator>>", "Push", "Pop", "TryPush", "TryPop", "Close"}

Ops == [op : {"push", "pop"}, wait : BOOLEAN] \cup [op : {"close"}]

(* The ChannelImpl call each member makes: impl_->push(t, isWait),         *)
(* impl_->pop(t, isWait) or impl_->close().                                *)
ImplCall(c) ==
  CASE c \in {"operator<<", "Push"} -> [op |-> "push", wait |-> TRUE]
    [] c = "TryPush"                 -> [op |-> "push", wait |-> FALSE]
    [] c \in {"operator>>", "Pop"}   -> [op |-> "pop", wait |-> TRUE]
    [] c = "TryPop"                  -> [op |-> "pop", wait |-> FALSE]
    [] c = "Close"                   -> [op |-> "close"]

ASSUME /\ Rutexes = {M, PushCv, PopCv} \cup {LocalCv[t] : t \in Threads}
       /\ Cardinality(Rutexes) = 3 + Cardinality(Threads)
       /\ Caps \subseteq Nat
       /\ \A t \in Threads : Program[t] \in Seq(Calls)

VARIABLES
  cap,      \* cap_, fixed by the constructor
  throwEx,  \* Channel's throw_ex_if_operator_failed_, fixed by the constructor
  q,        \* q_, the buffer
  closed,   \* closed_
  pushQ,    \* pushQ_: the pusher whose element waits in the slot, or Null
  popQ,     \* popQ_: the popper whose slot waits for an element, or Null
  sigWait   \* waiting_: the rutex of the slot owner's cv, or Null

ctor     == <<cap, throwEx>>
chanVars == <<ctor, q, closed, pushQ, popQ, sigWait>>
sigVars  == <<pushQ, popQ, sigWait>>
vars == <<coreVars, chanVars>>

Op(t) == ImplCall(Program[t][ip[t] - 1])

-----------------------------------------------------------------------------
(* Take the next call: each starts with std::unique_lock<Mutex> lock(mtx_) *)
(* and comes back to Idle.                                                  *)
Dispatch(t) ==
  LET o == ImplCall(Program[t][ip[t]]).op IN
  /\ pc[t] = "Idle"
  /\ ip[t] <= Len(Program[t])
  /\ ip' = [ip EXCEPT ![t] = @ + 1]
  /\ arg' = [arg EXCEPT ![t] = CallArgs(M, Null, CONTENDED)]
  /\ Enter(t, "M_trylock",
           <<CASE o = "push"  -> IF cap > 0 THEN "CU_locked" ELSE "SU_locked"
               [] o = "pop"   -> IF cap > 0 THEN "CO_locked" ELSE "SO_locked"
               [] o = "close" -> "CC_locked">>, "Idle")
  /\ UNCHANGED <<rv, seen, tgt, rutexVars, waiterVars, waiting, timerVars,
                 chanVars>>

(* return v: the unique_lock destructor unlocks mtx_ on the way out.       *)
UnlockReturning(t, v) ==
  CallUnlock(t, IF v THEN "CH_rtrue" ELSE "CH_rfalse")

(* q_.push_back(t); popCv_.notify_one(); return true;                       *)
PushBackNotifyPushCv(t) ==
  /\ q' = Append(q, t)
  /\ CallNotifyOne(t, PushCv, "CH_unlock")

PushBack(t) ==
  /\ q' = Append(q, t)
  /\ CallNotifyOne(t, PopCv, "CH_unlock")

(* t = q_.front(); q_.pop(); pushCv_.notify_one(); return true;             *)
PopFrontNoNotify(t) ==
  /\ q' = Tail(q)
  /\ CallUnlock(t, "CH_rtrue")
  /\ UNCHANGED value

PopFront(t) ==
  /\ q' = Tail(q)
  /\ CallNotifyOne(t, PushCv, "CH_unlock")

(* push_impl_with_cap with mtx_ held: closed, room, try-push, or wait.    *)
PushLockedNoCapCheck(t) ==
  /\ pc[t] = "CU_locked"
  /\ IF closed THEN UnlockReturning(t, FALSE) /\ UNCHANGED <<q, value>>
     ELSE IF Len(q) <= cap THEN PushBack(t)
     ELSE IF ~Op(t).wait THEN UnlockReturning(t, FALSE) /\ UNCHANGED <<q, value>>
     ELSE CallWait(t, PushCv, "CU_pred") /\ UNCHANGED <<q, value>>
  /\ UNCHANGED <<ip, rv, seen, tgt, queue, owner, rmtx, waiterVars, waiting,
                 timerVars, ctor, closed, sigVars>>

PushLocked(t) ==
  /\ pc[t] = "CU_locked"
  /\ IF closed THEN UnlockReturning(t, FALSE) /\ UNCHANGED <<q, value>>
     ELSE IF Len(q) < cap THEN PushBack(t)
     ELSE IF ~Op(t).wait THEN UnlockReturning(t, FALSE) /\ UNCHANGED <<q, value>>
     ELSE CallWait(t, PushCv, "CU_pred") /\ UNCHANGED <<q, value>>
  /\ UNCHANGED <<ip, rv, seen, tgt, queue, owner, rmtx, waiterVars, waiting,
                 timerVars, ctor, closed, sigVars>>

(* Back from pushCv_.wait with mtx_ re-taken: test p = q_.size() < cap_    *)
(* again; once it holds, the status is no_timeout, so closed_ decides.    *)
PushWokenNoClosedCheck(t) ==
  /\ pc[t] = "CU_pred"
  /\ IF Len(q) >= cap THEN CallWait(t, PushCv, "CU_pred") /\ UNCHANGED <<q, value>>
     ELSE PushBack(t)
  /\ UNCHANGED <<ip, rv, seen, tgt, queue, owner, rmtx, waiterVars, waiting,
                 timerVars, ctor, closed, sigVars>>

PushWoken(t) ==
  /\ pc[t] = "CU_pred"
  /\ IF Len(q) >= cap THEN CallWait(t, PushCv, "CU_pred") /\ UNCHANGED <<q, value>>
     ELSE IF closed THEN UnlockReturning(t, FALSE) /\ UNCHANGED <<q, value>>
     ELSE PushBack(t)
  /\ UNCHANGED <<ip, rv, seen, tgt, queue, owner, rmtx, waiterVars, waiting,
                 timerVars, ctor, closed, sigVars>>

(* pop_impl_with_cap with mtx_ held.                                        *)
PopLocked(t) ==
  /\ pc[t] = "CO_locked"
  /\ IF closed THEN UnlockReturning(t, FALSE) /\ UNCHANGED <<q, value>>
     ELSE IF q # <<>> THEN PopFront(t)
     ELSE IF ~Op(t).wait THEN UnlockReturning(t, FALSE) /\ UNCHANGED <<q, value>>
     ELSE CallWait(t, PopCv, "CO_pred") /\ UNCHANGED <<q, value>>
  /\ UNCHANGED <<ip, rv, seen, tgt, queue, owner, rmtx, waiterVars, waiting,
                 timerVars, ctor, closed, sigVars>>

(* Back from popCv_.wait: p = !q_.empty().                                  *)
PopWoken(t) ==
  /\ pc[t] = "CO_pred"
  /\ IF q = <<>> THEN CallWait(t, PopCv, "CO_pred") /\ UNCHANGED <<q, value>>
     ELSE IF closed THEN UnlockReturning(t, FALSE) /\ UNCHANGED <<q, value>>
     ELSE PopFront(t)
  /\ UNCHANGED <<ip, rv, seen, tgt, queue, owner, rmtx, waiterVars, waiting,
                 timerVars, ctor, closed, sigVars>>

(* After the notify: leave through the unique_lock destructor, true.       *)
NotifiedUnlock(t) ==
  /\ pc[t] = "CH_unlock"
  /\ UnlockReturning(t, TRUE)
  /\ UNCHANGED <<ip, rv, seen, tgt, rutexVars, waiterVars, waiting, timerVars,
                 chanVars>>

(* The call returns its bool once mtx_ is released.                         *)
(* The ChannelImpl call returns to the Channel<T> member.  operator<< and  *)
(* operator>> throw std::runtime_error on false when                       *)
(* throw_ex_if_operator_failed_ is set: the client's program ends there.   *)
Throws(t) ==
  /\ pc[t] = "CH_rfalse"
  /\ throwEx
  /\ Program[t][ip[t] - 1] \in {"operator<<", "operator>>"}

ReturnBool(t) ==
  /\ pc[t] \in {"CH_rtrue", "CH_rfalse"}
  /\ Return(t, pc[t] = "CH_rtrue")
  /\ ip' = [ip EXCEPT ![t] = IF Throws(t) THEN Len(Program[t]) + 1 ELSE @]
  /\ UNCHANGED <<arg, seen, tgt, rutexVars, waiterVars, waiting, timerVars,
                 chanVars>>

(* The rendezvous, *_impl_with_signal_noqueued with mtx_ held: fail when  *)
(* closed; hand over to a partner that published its slot and cv, waking *)
(* it with fast_notify_all; fail for a try-call; otherwise publish the     *)
(* own slot and cv and wait.  That wait returns at once with mtx_ still    *)
(* held, the slot is still the own one, so it is torn down again and the   *)
(* call returns false.                                                      *)
PushNoQueued(t) ==
  IF closed THEN UnlockReturning(t, FALSE) /\ UNCHANGED <<value, sigVars>>
  ELSE IF popQ # Null /\ sigWait # Null
       THEN /\ popQ' = Null /\ sigWait' = Null /\ UNCHANGED pushQ
            /\ CallFastNotifyAll(t, sigWait, "CH_unlock")
  ELSE IF ~Op(t).wait THEN UnlockReturning(t, FALSE) /\ UNCHANGED <<value, sigVars>>
  ELSE /\ pushQ' = Null /\ sigWait' = Null /\ UNCHANGED <<popQ, value>>
       /\ UnlockReturning(t, FALSE)

PopNoQueued(t) ==
  IF closed THEN UnlockReturning(t, FALSE) /\ UNCHANGED <<value, sigVars>>
  ELSE IF pushQ # Null /\ sigWait # Null
       THEN /\ pushQ' = Null /\ sigWait' = Null /\ UNCHANGED popQ
            /\ CallFastNotifyAll(t, sigWait, "CH_unlock")
  ELSE IF ~Op(t).wait THEN UnlockReturning(t, FALSE) /\ UNCHANGED <<value, sigVars>>
  ELSE /\ popQ' = Null /\ sigWait' = Null /\ UNCHANGED <<pushQ, value>>
       /\ UnlockReturning(t, FALSE)

(* push_impl_with_signal with mtx_ held, first and after every wake from  *)
(* pushCv_: while another push owns the slot (p = !pushQ_ is false) a     *)
(* try-push fails and a waiting push waits on pushCv_; then noqueued.     *)
SigPush(t) ==
  /\ pc[t] \in {"SU_locked", "SU_pred"}
  /\ IF pushQ = Null THEN PushNoQueued(t)
     ELSE IF ~Op(t).wait THEN UnlockReturning(t, FALSE) /\ UNCHANGED <<value, sigVars>>
     ELSE CallWait(t, PushCv, "SU_pred") /\ UNCHANGED <<value, sigVars>>
  /\ UNCHANGED <<ip, rv, seen, tgt, queue, owner, rmtx, waiterVars, waiting,
                 timerVars, ctor, q, closed>>

(* pop_impl_with_signal, the same on popQ_ and popCv_.                     *)
SigPop(t) ==
  /\ pc[t] \in {"SO_locked", "SO_pred"}
  /\ IF popQ = Null THEN PopNoQueued(t)
     ELSE IF ~Op(t).wait THEN UnlockReturning(t, FALSE) /\ UNCHANGED <<value, sigVars>>
     ELSE CallWait(t, PopCv, "SO_pred") /\ UNCHANGED <<value, sigVars>>
  /\ UNCHANGED <<ip, rv, seen, tgt, queue, owner, rmtx, waiterVars, waiting,
                 timerVars, ctor, q, closed>>

(* close(): closed_ = true; for the rendezvous clear both slots and wake  *)
(* the slot owner's cv, if any.                                             *)
CloseLocked(t) ==
  /\ pc[t] = "CC_locked"
  /\ closed' = TRUE
  /\ IF cap = 0 THEN pushQ' = Null /\ popQ' = Null ELSE UNCHANGED <<pushQ, popQ>>
  /\ IF cap = 0 /\ sigWait # Null
     THEN sigWait' = Null /\ CallFastNotifyAll(t, sigWait, "CC_push")
     ELSE UNCHANGED <<sigWait, value, arg, stack>> /\ Goto(t, "CC_push")
  /\ UNCHANGED <<ip, rv, seen, tgt, queue, owner, rmtx, waiterVars, waiting,
                 timerVars, ctor, q>>

(* pushCv_.fast_notify_all(lock); popCv_.fast_notify_all(lock);             *)
CloseNotify(t) ==
  /\ pc[t] \in {"CC_push", "CC_pop"}
  /\ IF pc[t] = "CC_push" THEN CallFastNotifyAll(t, PushCv, "CC_pop")
                          ELSE CallFastNotifyAll(t, PopCv, "CC_swap")
  /\ UNCHANGED <<ip, rv, seen, tgt, queue, owner, rmtx, waiterVars, waiting,
                 timerVars, chanVars>>

(* QueueT q; std::swap(q, q_); then the destructor unlocks mtx_.           *)
CloseSwap(t) ==
  /\ pc[t] = "CC_swap"
  /\ q' = <<>>
  /\ arg' = [arg EXCEPT ![t] = CallArgs(M, Null, 0)]
  /\ Goto(t, "M_unlock")
  /\ UNCHANGED <<stack, ip, rv, seen, tgt, rutexVars, waiterVars, waiting,
                 timerVars, ctor, closed, sigVars>>

ChannelStep(t) ==
  \/ PushLocked(t) \/ PushWoken(t) \/ PopLocked(t) \/ PopWoken(t)
  \/ NotifiedUnlock(t) \/ ReturnBool(t)
  \/ SigPush(t) \/ SigPop(t)
  \/ CloseLocked(t) \/ CloseNotify(t) \/ CloseSwap(t)

(* Every call is untimed, so nothing is ever scheduled on the timer: the   *)
(* timer thread takes no step and is left out.                             *)
Lower(t) ==
  /\ CondVarStep(t) \/ MutexStep(t) \/ RutexStep(t)
  /\ UNCHANGED chanVars

Init ==
  /\ CoreInit
  /\ pc = [a \in Actors |-> IF a = TimerThread THEN "T_run" ELSE "Idle"]
  /\ ip = [t \in Threads |-> 1]
  /\ cap \in Caps
  /\ throwEx \in BOOLEAN
  /\ q = <<>>
  /\ closed = FALSE
  /\ pushQ = Null /\ popQ = Null /\ sigWait = Null

Next ==
  \/ \E t \in Threads : Dispatch(t) \/ ChannelStep(t) \/ Lower(t)

Spec == Init /\ [][Next]_vars
-----------------------------------------------------------------------------
TypeOK ==
  /\ throwEx \in BOOLEAN
  /\ q \in Seq(Threads) /\ Len(q) <= cap
  /\ closed \in BOOLEAN
  /\ pushQ \in Threads \cup {Null} /\ popQ \in Threads \cup {Null}
  /\ sigWait \in Rutexes \cup {Null}
  /\ value[M] \in {0, LOCKED, CONTENDED}

(* A thread inside wait(lock, p) on cv, coming back to label l, that is    *)
(* not parked in the cv's waiters_: it will re-test p under mtx_ (or is   *)
(* stuck in the rutex for a reason of the rutex's own).                    *)
Heading(t, cv, l) ==
  /\ pc[t] = l \/ \E i \in 1..Len(stack[t]) : stack[t][i] = l
  /\ \A i \in 1..Len(queue[cv]) : queue[cv][i] # t

(* A notify_one on cv whose call has not yet taken the rutex lock to       *)
(* unlink a waiter.                                                         *)
Notifying(t, cv) == pc[t] = "N_lock" /\ arg[t].r = cv

Count(S) == Cardinality(S)

(* While a pop is parked on popCv_, every element in q_ has a popper on    *)
(* its way to it: one already unlinked from popCv_ (or not yet parked) or *)
(* one a pusher's notify_one is about to unlink.  A push that appended     *)
(* without notifying popCv_, or an unlink nobody re-tests p after, leaves  *)
(* an element behind a sleeping pop.                                       *)
PopWaitersServed ==
  queue[PopCv] # <<>> =>
    Len(q) <= Count({t \in Threads : Heading(t, PopCv, "CO_pred")})
              + Count({t \in Threads : Notifying(t, PopCv)})

(* The same for a push parked on pushCv_ and the free slots of q_, which   *)
(* pops open and announce with pushCv_.notify_one().                       *)
PushWaitersServed ==
  queue[PushCv] # <<>> =>
    cap - Len(q) <= Count({t \in Threads : Heading(t, PushCv, "CU_pred")})
                    + Count({t \in Threads : Notifying(t, PushCv)})

(* Spec property 7 (Closed): close() releases every waiting push and pop   *)
(* with false.  So no pop goes to sleep on popCv_ again once closed_ is    *)
(* set: pop_impl_with_cap's predicate !q_.empty() ignores closed_, and     *)
(* close() empties q_.                                                      *)
PopSleepsOnlyWhileOpen ==
  [][\A t \in Threads :
       ~(closed /\ pc[t] = "CO_pred" /\ pc'[t] = "M_unlock")]_vars

BC == INSTANCE BufferedChannel
        WITH Elements <- Threads, capacity <- cap,
             buf <- q, isClosed <- closed

(* The channel implements BufferedChannel: under mtx_, q_ and closed_     *)
(* change only as whole calls would change them, so a push never lands    *)
(* past cap_ or after close (push_impl_with_cap re-tests closed_ after its *)
(* wait), a pop never takes from a closed channel, and each call moves at *)
(* most one element.                                                       *)
RefinesBufferedChannel == BC!Spec

(* Spec 4.8, S3 and "Closed": a push or pop that may wait (isWait, no     *)
(* deadline) returns false only once the channel is closed; until then it *)
(* waits for its partner (the rendezvous), for room or for an element.    *)
WaitingCallFailsOnlyOnClose ==
  [][\A t \in Threads :
       ( /\ pc[t] = "CH_rfalse" /\ pc'[t] # "CH_rfalse"
         /\ Op(t).op \in {"push", "pop"} /\ Op(t).wait ) => closed]_vars
=============================================================================
