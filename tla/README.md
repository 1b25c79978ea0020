# TLA+ models of libgo's routine_sync

This directory holds TLA+ models of the synchronisation library in
`src/libgo/routine_sync/`, the TLC configurations that check them, and
`PROJECT.json`. That file lists the components, the runs, the mutants, the map
from every definition to the source lines it models, the findings and the
hazards.

## The system

routine_sync builds blocking primitives that work the same for OS threads and
coroutines. The parts, from the bottom up:

| Part | File | State | Operations |
|---|---|---|---|
| C1 intrusive list | `linked_list.h` | `prev`/`next` of each node, `dummy_`, `tail_` | `clear`, `push`, `front`, `unlink` |
| C2 skiplist | `linked_skiplist.h` | multi-level links of each node | `buildNode`, `insert`, `erase`, `front` |
| C3 switcher | `switcher.h` | `PThreadSwitcher::waiting_` (thread-local) | `sleep`, `wake`; `RoutineSyncPolicy::clsRef` |
| C4 timer | `timer.h` | skiplist of `TimerId`s under `mtx_`; each entry has an invoke mutex, `canceled_` and `done_` | `schedule`, `reschedule`, `join_unschedule`, `run` |
| C5 rutex | `rutex.h` | word `value_`, `mtx_`, list `waiters_`; per waiter frame `state_`, `waked_`, `waitMtx_`, `owner_` | `wait_until`, `notify_one`, `notify_all`, `requeue`; waiter `sleep`, `wake`, `wake_by_timer`, `safe_unlink`, `join` |
| C6 mutex | `mutex.h` | the rutex word as bytes `locked`, `contended` | `try_lock`, `lock(abstime)`, `lock_contended`, `unlock` |
| C7 condition variable | `condition_variable.h` | its own rutex word (a notify counter) | `wait*`, `notify_one`, `notify_all`, `fast_notify_all` |
| C8 channel | `channel.h` | `q_`/`count_`, `cap_`, `closed_`, rendezvous slots `pushQ_`/`popQ_`/`waiting_`, cvs `pushCv_`/`popCv_` | `push`, `pop`, `close` (buffered and unbuffered) |

How they interact:
- A rutex wait pushes a stack-allocated `RutexWaiter` onto `waiters_` (C1).
  It then sleeps through the switcher (C3), and with a deadline it schedules
  `wake_by_timer` on the timer (C4, stored in C2).
- `notify_one` unlinks the head waiter and wakes it through the switcher. The
  timer thread races it through `wake_by_timer`.
- `join` makes the waiter frame safe to destroy. It sets `waked_`, runs
  `safe_unlink`, locks `waitMtx_`, then calls `join_unschedule`.
- The mutex (C6) parks its contenders on its rutex.
- The condition variable (C7) unlocks the mutex, waits on its own rutex, and
  re-takes the mutex through `lock_contended`. `fast_notify_all` requeues
  its waiters directly onto the mutex's rutex.
- The channel (C8) is built from the mutex and condition variables.

Things that make this code hard:
- Three actors may touch one waiter frame: the waiter, a notifier and the timer
  thread. They coordinate through an ABBA pair of locks: the rutex mutex, then
  the waiter mutex.
- `safe_unlink` reads `owner_` before taking that rutex's lock, racing requeue.
- The thread switcher's `wake` fails if the waiter has not yet set `waiting_`.
- The mutex word is changed both byte-wise (`try_lock`) and word-wise
  (`lock_contended`, `unlock`).
- Waiters can be moved between rutexes without being woken (requeue).

### The code as built

Several lines of the source do not compile. The models follow the evident
intent of each:
- `islock`/`isLock` and the doubly declared `lock` in `notify_one`
  (rutex.h:177/184). The comments at rutex.h:37, 79, 86 and 183 and spec 4.5
  fix what it means. `notify_one` try_locks the waiter's `waitMtx_` while it
  holds `mtx_`. The `lock.unlock()` at line 194 releases `mtx_`, and `wake()`
  runs under `waitMtx_`, which the call holds until it returns or loops.
- `wakeMtx_` for the member `waitMtx_`.
- `owner_.store(&other)` in `requeue`, read as `other`.
- `return ;` in `Mutex::lock`, read as `return true`.
- `expectValue` for `expectedValue` in `wait_until_impl`.
- `noitfy_one` in the channel, read as `notify_one`.
- `ConditionVariable::wait_until_p` names an undeclared `Predicate` and returns
  a `bool` as `cv_status`. With `abstime == nullptr`, which is every call the
  channel model makes, it is `wait(lock, p)`: `while (!p()) wait(lock)`.

`RoutineSyncTimer::run` is private and nothing in the repository starts it. The
models assume a timer thread runs it, as spec 4.4 describes.

## Modules

| Module | Models | Notes |
|---|---|---|
| `RutexCore` | C5 with the thread switcher (C3) and the parts of the timer (C4) a timed wait uses | the base of everything below |
| `Rutex` | clients of the bare rutex: each thread runs a fixed program of wait / notify / requeue calls | |
| `MCRutex` | programs and constants for TLC | |
| `WaiterQueue` | the FIFO contract the list promises (spec 4.1) | abstract |
| `LinkedList` | C1 at pointer level; `RefinesWaiterQueue` instantiates `WaiterQueue` with `q <- Chain(Dummy, ...)` | refinement |
| `MCLinkedList` | three nodes | |
| `MutexCore` | C6's procedures over `RutexCore` | |
| `CondVarCore` | C7's procedures over `MutexCore`, for any cv rutex: `CallWait`, `CallWaitUntil` (`wait_until`/`wait_for` without a predicate: the same steps with a deadline on the rutex wait), `CallNotifyOne`, `CallNotifyAll`, `CallFastNotifyAll` and the steps `WaitOnCV`, `Relock`, `NotifyAllLoop` | |
| `CondVar`, `MCCondVar` | clients of C6 and C7: threads running lock (untimed or with a deadline) / wait / notify_one / notify_all / fast_notify_all / unlock on one mutex and one cv | a timed lock that fails is followed by no unlock (`SkipUnlock`) |
| `BufferedChannel` | what a channel call promises, one whole call per step: `Send`, `Recv`, `Close`, and `Drop` of the buffer once closed | abstract |
| `Channel`, `MCChannel` | C8, untimed, both capacities (`cap \in Caps`), called through the `Channel<T>` wrapper: a client program is a sequence of its members (`operator<<`, `operator>>`, `Push`, `Pop`, `TryPush`, `TryPop`, `Close`), `ImplCall` gives the ChannelImpl call each makes, and `Throws` ends the program when an operator fails with `throw_ex_if_operator_failed_` (`throwEx`, chosen at construction) set; buffered `push_impl_with_cap`, `pop_impl_with_cap` (with `isWait`); the unbuffered rendezvous `push/pop_impl_with_signal` (`SigPush`, `SigPop`) and their `_noqueued` halves (`PushNoQueued`, `PopNoQueued`) through `pushQ_`, `popQ_`, `waiting_`; `close`; all over `mtx_`, `pushCv_`, `popCv_` and each thread's own rendezvous cv (`LocalCv[t]`) from `CondVarCore`. `RefinesBufferedChannel` instantiates `BufferedChannel` with `buf <- q`, `isClosed <- closed` | also `ChannelImpl<nullptr_t>`: `count_` is `Len(q)` |
| `Skiplist`, `MCSkiplist` | C2 at link level: `buildNode` (height chosen), `insert`, `erase`/`unlink` per level | `UnlinkFrom` is `RECURSIVE` |
| `Timer`, `MCTimer` | C4 with a clock: `schedule`, `join_unschedule`, the `run` loop, `FuncWrapper::invoke`/`cancel`, `reschedule` from the callback; `FairSpec` adds weak fairness | the container is a sorted sequence |

**Control.** Every thread has a program counter `pc`, a stack of return labels
`stack`, the arguments `arg` of the rutex call it is in, and the last return
value `rv`. A higher module enters a lower one's procedure with `Call` (or
`Enter`, which pushes several return labels at once: `wait` returns through
`C_wait` and `C_relock` before its caller's label) and resumes at the label it
pushed, exactly as the C++ calls nest. A tail call, such as `lock_contended`
re-entered from `C_relock` or the unlock at the end of `close`, is a `Goto`
that leaves the stack alone. Each action is
one step between accesses to shared state. Its guard is the code's lock
acquisition or condition, and its `IF` branches are the code's early returns.
The timer thread is one more actor, `TimerThread`.

**State.**
- `value`, `queue`, `owner` and `rmtx` (the holder of `mtx_`) are per rutex.
- `state`, `waked` and `wmtx` (the holder of `waitMtx_`) are per thread. They
  are the fields of the thread's current waiter frame.
- `epoch` counts a thread's frames, so `<<thread, epoch>>` names a frame. That
  lets `NoWakeAfterReturn` tell a live frame from a destroyed one.
- `waiting` is `PThreadSwitcher::waiting_`.
- `timers` is the set of scheduled entries and `imtx` the holders of their
  invoke mutexes.
- `seen` is the `owner_` that `safe_unlink` loaded before locking.
- `tgt` is the frame a notifier or the timer is working on.
- `woke` is history only: who made the switcher wake succeed.

**Abstractions.**
- The rutex's `waiters_` is a sequence with FIFO semantics: the `WaiterQueue`
  contract. `LinkedList` checks the real list against that contract, and it
  fails it (see below). The rutex results therefore hold for a correct list.
- Timer deadlines are abstract: any scheduled entry may come due at any
  moment. This covers every order of firing against the rest of the system.
- `reschedule`, called from `wake_by_timer`, is the state
  `TimerSelfDeadlocked` ("T_resched"), which no step leaves. This is what the
  code does: it relocks the invoke mutex that `run()` holds.
- Mutex word: `locked + 256 * contended`, the little-endian layout, so
  `LOCKED = 1` and `CONTENDED = 257`.

## Runs

| Run | Expect | What it shows |
|---|---|---|
| `rutex_safety` | pass (44k states) | Setup: t1 waits with a deadline and t2 without, on R1; t3 requeues R1→R2, notifies R2, then notifies R1. `OwnerMatchesQueue`: `owner_` always agrees with the lists. `UnlinkedOnReturn`: a waiter is unlinked once `wait_until` returns. `TimerGoneOnReturn`: no timer entry or running callback outlives the wait. `NoWakeAfterReturn`: no notifier touches a waiter frame after its wait has returned. `wake()` runs under `waitMtx_`, and `join` locks it after `safe_unlink`, so a notifier still inside `wake()` finishes first. `WaitReturnJustified` (action property): success only after a notify wake, etimeout only after a timer wake, ewouldblock only on a changed word, never eintr. |
| `rutex_lost_wakeup` | violation of `AllCallsReturn` | A notify lands after the waiter is queued but before `sleep` sets `waiting_`. The switcher wake fails and the waiter has already been unlinked, so it sleeps for ever (spec property 3). |
| `rutex_timer_lost_wakeup` | violation of `AllCallsReturn` | Setup: `ProgramTimed`, with t1 waiting with a deadline and t2 notifying. `notify_one`'s `try_lock` fails while `wake_by_timer` holds `waitMtx_` (rutex.h:185). The notifier unlinks the waiter and skips it, and the timer's `safe_unlink` finds it gone, so nobody wakes it. A copy whose switcher wake waits for `waiting_` (a guard `waiting[w]` in `NotifySwitch`) still fails this run, through rutex.h:64. The timer finds the waiter not yet asleep and deadlocks in `reschedule`, and the unlinked waiter is never woken. |
| `list_contract` | violation of `RefinesWaiterQueue` | `unlink` clears `node->prev` before copying it into `next->prev` (linked_list.h:58/63). After push w1, push w2, unlink w1, push w1, push w3, unlink w2, the list is no longer the FIFO. |
| `cv_notify` | pass (1.4M states, about a minute) | Setup: t1 locks, waits on the cv with a deadline (`wait_until`), unlocks; it is woken by the notify or by its timer, whose callback races the notify for the waiter; t2 locks, notify_all, unlocks; t3 locks with a deadline, then unlocks if it got the mutex. `MutualExclusion` (spec property 4): no two clients hold the mutex, including the timed locker. `ContendedWhileQueued`: a parked waiter always has the contended byte set, or a thread that will notify or re-set it, while cv waiters give up and re-take the mutex through `lock_contended`. |
| `cv_fast_notify_all` | violation of `ContendedWhileQueued` | `fast_notify_all` requeues the waiter onto the mutex rutex while the word is plain `LOCKED`. The notifier's `unlock` then skips `notify_one` (mutex.h:55), so the waiter is stranded (spec S6). |
| `skiplist_insert` | violation of `NoNullDereference` | Setup: three nodes, `MaxHeight` 2. `insert` splices after `head_` on every level because `lower_bound` never fills `prevs`. On an empty level it dereferences the null `next` (linked_skiplist.h:139), so the first insert crashes. |
| `timer_join` | pass (8.5k states) | Setup: two entries, delays 0..2, the clock up to 3. `JoinReportsDone`: its result says whether the callback ran. Since that result is fixed once joined, the callback never starts after the join (spec property 5). This holds although `cancel()` stores false (timer.h:52), because `join_unschedule` erases the entry under the invoke mutex. `JoinReturns` (liveness, under `FairSpec`): a client that has scheduled its entry always gets through `join_unschedule`, because every path through `invoke()` releases the invoke mutex, unless the callback is stuck in `reschedule` of that very entry (timer.h:94); the joins of the other entries still return. |
| `timer_early_fire` | violation of `NoEarlyFire` | `run()` takes the front entry when `key >= now()` (timer.h:129), i.e. before its deadline. |
| `channel_flow` | pass (115k states) | Setup: `cap_` 0 or 1, throwing or not; t1 calls `operator>>`, then `Close`; t2 calls `Push`, then `operator<<`. A failed operator throws and ends its thread's program (on the unbuffered channel t1's `operator>>` always fails, so the close may never come). `TypeOK` bounds `q_` by `cap_`. `RefinesBufferedChannel`: `q_` and `closed_` change only as whole calls of `BufferedChannel` would, so no push lands past `cap_` or after close, even a push parked on `pushCv_` that `close` requeues (it re-tests `closed_`, channel.h:250). `PopWaitersServed`: while a pop is parked on `popCv_`, each element of `q_` has a pop on its way to it (unlinked from the cv but not yet re-testing, or about to be unlinked by a push's `notify_one`). `PushWaitersServed` says the same of free slots and parked pushes. |
| `channel_close` | violation of `PopSleepsOnlyWhileOpen` | A pop has taken its cv snapshot and released `mtx_` when `close()` runs. Its rutex wait returns ewouldblock, it re-takes `mtx_`, and `!q_.empty()` is false because `close` emptied `q_` and the predicate ignores `closed_`. It waits on `popCv_` again and nothing will wake it (spec property 7). |
| `channel_rendezvous` | violation of `WaitingCallFailsOnlyOnClose` | Setup: `cap_` 0; t1 pushes, t2 pops, both with `isWait`. The rendezvous "wait" is `wait_until_p(lock, nullptr, []{ return true; })`, i.e. `while (!true) wait(lock)`: it returns at once with `mtx_` held. The call finds its own slot still set (channel.h:47/107), clears it and returns false while the channel is open, before the partner can see it. No rendezvous ever happens (spec 4.8, S3). |

Each property of a passing run has a mutant in `PROJECT.json`. A mutant
replaces one mapped action with a plausible bug, and TLC finds that property
violated:
- requeue leaving `owner_`;
- `safe_unlink` without its re-check;
- `join` skipping `join_unschedule`;
- `wake` without storing `state_`;
- a timer wake with the wrong state;
- `try_lock` adding instead of exchanging;
- `lock_contended` testing the wrong byte;
- `unlock` testing the locked bit instead of comparing with `LOCKED`;
- `join_unschedule` cancelling without the invoke mutex;
- `invoke` leaving the invoke mutex held after the callback;
- `notify_one` releasing `waitMtx_` instead of `mtx_` at rutex.h:194;
- a push accepting at `size == cap_`;
- a push notifying `pushCv_` instead of `popCv_`;
- a pop not notifying `pushCv_`;
- a push woken from `pushCv_` not re-testing `closed_`.

### Bounds

- Three threads with one or two calls each, one or two rutexes, and three list
  nodes.
- Every race the code is written against needs at most three actors: waiter,
  notifier and timer; or waiter, requeuer and `safe_unlink`; or holder, fresh
  `try_lock` and woken waiter. The runs cover all interleavings of these.
- Each defect found needs two threads.
- Channel: capacities 0 and 1, and two threads with two calls each, already
  reach a parked pop, a parked push, both woken, a close against each, and
  both rendezvous roles (the `_noqueued` halves, and the fast notify of a
  partner's cv when a slot is found set). A third thread, or a second pop,
  makes more than 5 million states without adding a new kind of step.
- Timer: two entries and delays 0..2 put one entry before, at and after the
  other's deadline. Skiplist: two levels show both the empty-level crash and
  the multi-level splice.
- Larger programs multiply the states without adding a new kind of step: the
  four-call, three-thread mutex program did not finish in 15 minutes.

### Fairness

Threads are OS threads and the timer runs on its own thread, so each is
weakly fair on its steps (`WF_vars` per thread and for `TimerThread`). There
is no strong fairness: a thread blocked on a lock is never promised it.
`AllCallsReturn` fails because of a state no step leaves, not because of
scheduling. In `Timer`, the worker, each client and the clock are weakly fair
(`FairSpec`); `JoinReturns` holds under that: a join blocked on the invoke
mutex needs only the worker to keep taking steps, because the worker holds
that mutex continuously until it releases it, and nothing else takes it. Safety runs set `CHECK_DEADLOCK FALSE` because the
lost wakeup and the timer self-deadlock do leave threads blocked for good; the
cfgs say so. `Channel` and `Skiplist` state no fairness: every property they
check is a safety property.

## Not modelled

- **Timed channel calls and the timed cv predicate loop**
  (`TimedPush`/`TimedPop`, `wait_until(lock, abstime, p)`, the timed branch of
  `wait_until_p`): the timer paths they add are those of `RutexCore`, which
  `rutex_safety` and, for a timed cv wait, `cv_notify` check; `wait_until_p`
  also converts the predicate loop's `bool` to a `cv_status` there. The queued rendezvous path
  (channel.h:74/133) passes `*abstime` where `wait_until_p` takes a pointer,
  and dereferences null for an untimed call; untimed, it is never reached,
  because no thread ever finds `pushQ_`/`popQ_` set (see
  `channel_rendezvous`), so `SigPush`/`SigPop` model it as the untimed wait.
- **Drain at close** (spec property 7): `close` swaps `q_` away (`CloseSwap`).
  Remaining elements are dropped, plainly; `BufferedChannel` states that drop
  (`Drop`) as the contract the code keeps, and there is no run stating they
  drain.
- **Liveness of the composed modules.** `CondVar` and `Channel` wait through
  the rutex, so "every call returns" fails there through the rutex lost
  wakeup that `rutex_lost_wakeup` already shows. A liveness property for them
  would restate that one bug, not check anything about their own protocol.
- **`ChannelImpl<nullptr_t>`** (channel.h:297-441): it runs the buffered
  protocol with `count_` in place of `q_`, and `Channel` checks that
  protocol. A second copy of the same actions would check nothing new.
- **Nothing else to model:**
  - `RoutineSyncPolicy`: a per-call choice of switcher with no shared state.
  - Coroutine switchers: outside the repository.
  - `util.h`: `RefBase`/`RefBaseGuard`, an atomic reference count whose
    `dec()` calls a deleter at zero. `switcher.h` includes it, but nothing in
    the library uses it, so there is no client protocol to check.
  - The tests and the tutorial: they drive the library and are not part of
    it.
  - `config.h`: compile-time options and debug flags.
