# TLA+ models of Boost.GreenThread

These modules model the fiber runtime of this repository, from its source under `src/`.
TLC checks them.

## The system

Fibers are coroutines (`thread_object`, src/src/thread_object.cpp). Each fiber is bound to an asio strand. A pool of OS worker threads (`scheduler_object`, src/src/scheduler_object.cpp) runs the strands.

- **Waking a fiber.** `resume()` posts `activate_thread` to the fiber's strand. That handler sets the fiber READY, then `one_step()` sets it RUNNING and enters the coroutine.
- **Leaving the coroutine.** The coroutine runs until it yields a state:
  - BLOCKED, from `pause()`;
  - READY, from `yield()`; `one_step` then resumes the fiber again;
  - STOPPED, when the entry returns. `one_step` then swaps out the join queue, activates the joiners and posts `on_thread_exit`, which decrements `thread_count_`.
- **Interrupts.** `pause()` checks the interrupt flag when it is resumed and throws `thread_interrupted`.
- **Waking a waiter.** Every synchronisation primitive follows the same pattern:
  1. it records the waiter under a spinlock;
  2. it releases the spinlock;
  3. the waiter pauses;
  4. another agent later calls `resume()`, or cancels a timer whose strand-wrapped handler calls it.
- **Scheduler termination.** The scheduler's heartbeat timer stops the reactor once `thread_count_` is 0.

| Part | Source | Module | Status |
|---|---|---|---|
| Fiber object: stepping, yield, sleep, join, interrupt, fiber-specific storage | thread_object.cpp/.hpp, thread_only.hpp | FiberRuntime, Interruption, FiberLifecycle, ThreadGroup | partly (the name, `get_tss_data` and `release()` are not modelled) |
| Fiber handles: join/join_and_rethrow, detach, exceptions, at_thread_exit, ~thread_object | thread_object.cpp | FiberLifecycle | modelled |
| Scheduler: make_thread, start, add_thread, join, heartbeat | scheduler_object.cpp | Scheduler, FiberRuntime | modelled |
| mutex, recursive_mutex, timed_mutex, recursive_timed_mutex | mutex.cpp, mutex.hpp | GreenMutex, AbstractLock | modelled |
| condition_variable, notify_all_at_thread_exit | condition.cpp | CondVar, CvClients | partly (the predicate overloads are client code) |
| barrier, with every kind of completion function | barrier.hpp | GreenBarrier | modelled |
| asio yield token, use_future | asio/detail/yield.hpp, asio/detail/use_future.hpp | FiberLifecycle, AsyncExecutor | modelled |
| thread_group | thread_group.hpp | ThreadGroup | modelled (its `shared_timed_mutex` from the spec), any number of groups |
| streambuf over an asio stream | streambuf.hpp | Streambuf | partly (`set_duplex_mode` is a constant, `connect` and put-back are not modelled) |
| greenify | greenify.hpp | ThreadGroup, Scheduler | partly (the root fiber, start, join) |
| spinlock | detail/spinlock.hpp | implicit | each critical section is one atomic step |
| async(), async_executor, async_function, future::get | future/async.hpp | AsyncExecutor | partly (queue, packaged task and future from the spec; a throwing `async_function` fn, `foreign_thread_pool` and continuations are not modelled) |
| std_stream_guard, exceptions, entry wrappers | headers | not modelled | formatting or no state |

## Modules

### FiberRuntime

This module models the fiber machinery that the other modules build on.

**Variables**

| Variable | What it models |
|---|---|
| `fstate` | `state_` |
| `pc` | where the coroutine is |
| `squeue` | the handlers posted to each strand |
| `busy` | the fiber a strand is running |
| `live` | `thread_count_` |
| `requested` | `interrupt_requested_` |
| `disable` | `interrupt_disable_level_` |
| `sleeping` | armed sleep timers |
| `joinq` | `join_queue_` |
| `joinee` | the fiber that a join is waiting for |
| `ops` | how many client operations each fiber has left |

**Handlers a strand runs**
- `RunActivate`: `activate_thread` and `one_step`.
- `RunExit`: `on_thread_exit`.

A strand starts a handler only when it is not busy and a worker is free. This gives asio's guarantee that a strand runs one handler at a time.

**Shared operators used by the other modules**
- `Pause`, `YieldOut` and `Finish` are the three ways a coroutine can leave.
- `TakesYield` is the condition `yield(hint)` tests.
- `Resume` models `resume()`.

**The module's own client operations**
- `ClientYield`, `ClientSleep` and `SleepTimerFires`.
- `ClientJoin`, `JoinPause` and `WaitReturns`.
- `ClientReturns`.
- `Interrupt`, which models `thread::interrupt`: it sets the flag only when the disable level is 0.

### GreenMutex

This module extends FiberRuntime and models all four mutex classes. The constants `Recursive` and `Timed` select the class.

**Variables**

| Variable | What it models |
|---|---|
| `owner` | `owner_` |
| `level` | `level_`; it is always 1 while a non-recursive mutex is owned |
| `suspended` | `suspended_`; each entry has a flag that says whether a timer is attached |
| `timer` | the timer that `try_lock_rel` armed |
| `held` | the number of lock_guards each client holds |
| `cont` | where the caller of `lock()`/`unlock()` continues once the call returns |

**Actions**
- `LockCall(f, next)` and `UnlockCall(f, next)` are the spinlock sections of `lock` and `unlock`, called by a client that continues at `next`. Each dispatches to the class's own code: `MutexLock`/`RecursiveLock` and `MutexUnlock`/`RecursiveUnlock` (the timed classes share their lock and unlock bodies with the untimed ones except for the timer flag of the queue entry), and likewise `MutexTryLock`/`RecursiveTryLock` and `TimedTryLockFor`/`RecursiveTryLockFor`. `Lock` and `Unlock` are the client's lock_guard around them; CondVar calls them from `relock_guard`.
- `TryLock` and `TryLockFor` are the spinlock sections of `try_lock` and `try_lock_rel`.
- `LockPause` is the pause after the spinlock is released.
- `LockReturns` and `TryLockForReturns` are the return from `pause()`, including the exception path.
- `Unlock` is unlock with handoff. `WakeNewOwner` is its choice between resuming the new owner and cancelling its timer.
- `UnlockYield` is `tf->yield(owner_)`. It reads `owner_` when it runs, as the code does after it has released the spinlock.
- `TimerExpires` and `RunTimeout` model the timer and `timeout_handler`.
- `CriticalYield` is a client's `this_thread::yield()` inside its critical section.

**Client loop.** Each fiber makes `Ops` lock attempts. It unlocks whatever it holds before its entry returns. A client re-locks only a recursive mutex, so the DEADLOCK branches are unreachable.

**Wake-up accounting.** `SingleWakeup` compares, for every fiber, the wake-ups on their way to it (activations queued on strands, armed timers, queued timeout handlers, untimed places in `suspended_`) with the ones it is owed (one while BLOCKED or READY, one between queueing itself and pausing). Equality means no wake-up is lost and none is doubled.

### CondVar

CondVar extends GreenMutex with `condition_variable` (condition.cpp), run over a plain mutex.

| Variable | What it models |
|---|---|
| `cvq` | the condition's `suspended_`; each entry says whether a timer is attached |
| `cvtimer` | the timer of a `wait_rel` |

**Actions**
- `WaitCall(f, timed)` is the spinlock section of `wait` (timed FALSE) and `wait_rel` (timed TRUE): it queues the waiter and, for `wait_rel`, arms the timer.
- `WaitUnlock` is the `relock_guard` constructor, a full `mutex::unlock` with handoff and yield.
- `WaitPause` is the `pause()`.
- `WaitRelock` is the `relock_guard` destructor, a full `mutex::lock` that may queue and pause again. `WaitReturn` is the return to the caller.
- `CvTimerExpires` and `RunCvTimeout` model the timer and `timeout_handler`, which removes the waiter only on expiry and always resumes it.
- `NotifyOneCall` and `NotifyAllCall` pop waiters and wake them through `WakeWaiter` (resume, or cancel the timer), then yield. `notify_one` on an empty queue returns without yielding.

**Clients (module CvClients).** It adds `ready`, the predicate the clients protect with the mutex, and `notifies`, the notifications a notifier still has to make. Each waiter locks, calls `wait` or `wait_for` while `ready` is false, and unlocks. The notifier locks, sets `ready`, and makes one `notify_all` or one `notify_one` per waiter. It unlocks before, between or after them, or it calls `notify_all_at_thread_exit` with its lock still held (`NotifyAtExit`): when its entry returns, the cleanup function does a full `unlock` with handoff (`ExitUnlock`) and then `notify_all` (`ExitNotifyAll`), each of which may yield inside the cleaner.

**Destructor continuations.** `relock_guard`'s destructor is implicitly `noexcept`. So `LockReturns` sends an interrupted `lock()` called from it (continuation `wait_return` or `unwind`) to `terminate`.

### GreenBarrier

GreenBarrier extends CondVar with `barrier` (barrier.hpp) over the modelled mutex and condition. Its variables are `count` (`m_count`), `generation` (`m_generation`), each fiber's local `gen`, `fct` (which completion the constructor installed in `fct_`) and the ghost `target` (the count the current generation started from).

- `BarrierInit` chooses among the constructors: the default reseter or a null function pointer, a void completion (functor or function pointer, wrapped to return the count), or a completion returning `unsigned int`. `Reseter` is what `fct_()` returns: the constructor's count, or the size completion's result for that generation (the constant sequence `SizeResults`, which has no 0, as `wait()` asserts).
- `BarrierLock` is the `unique_lock` constructor.
- `Arrive` takes the generation and decrements the count. The last arriver starts a new generation, resets the count through `fct_()` and calls `notify_all` with the mutex held.
- `BarrierCheck` is the `while (gen == m_generation) m_cond.wait(lock)` loop.
- `BarrierLeave` is the return, with the `unique_lock` destructor's unlock.

Each fiber passes the barrier `Ops` times, so consecutive generations overlap in the mutex queue and the condition. With `SizeResults = <<2, 1, 3>>` the size completion makes the second and third generations 2 and 1 fibers wide, so a lone arriver completes a generation without waiting.

### Interruption

Interruption extends FiberRuntime with the scoped helpers of thread_object.cpp. The variable `scopes` is each fiber's stack of open `disable_interruption` and `restore_interruption` objects; a restore entry keeps its `level_`. The ghost `called` records that `thread::interrupt()` was called, whether or not it set the flag.

- `DisableEnter` and `RestoreEnter` are the constructors: increment the level, or swap it with `level_` (0).
- `ScopeExit` is the destructor of the innermost scope, at the end of its block or while `thread_interrupted` unwinds the entry.
- `InterruptionPoint` throws when the flag is set, without looking at the level.
- `InterruptCall` is `thread::interrupt()`, at most once per target.
- Sleeps and yields reuse FiberRuntime's actions; `WaitReturns` is `pause()`'s check.

`LevelOf` is a recursive operator that reads, off the scope stack alone, the level the scopes stand for: the disable scopes opened since the innermost restore scope. `ScopesConsistent` compares the code's level with it.

The queries `interruption_enabled()` and `interruption_requested()` change no state and are not actions. `interruption_requested()` returns the negation of the flag (thread_object.cpp:606); the spec records this itself.

### Scheduler

Scheduler models `scheduler_object` from the side of the OS thread that drives it (main). Main runs one of the `Programs`: a sequence of `make_thread`, `start`, `add_thread` and `join` calls, such as greenify's start, make, join. A fiber's own execution is abstracted to one activation (`RunFiber`) in which it makes its `Children` and returns; its `on_thread_exit` (`RunExit`) decrements `count` (`thread_count_`).

- `MainMake`/`MakeThreads` are `make_thread`: count up, `started_` set, the activation posted.
- `MainStart` arms the heartbeat and launches the workers unless `threads_` is non-empty; `MainAdd` adds workers.
- `JoinCheck` is `join()`'s `while (started_ && thread_count_>0) cv_.wait()`; `JoinThreads` joins the workers once the reactor is stopped, clears `threads_`, resets `started_` and the io_service.
- `Heartbeat` is `on_check_timer`: re-arm while `thread_count_>0 || !started_`, otherwise stop the io_service and notify `cv_`.

### FiberLifecycle

FiberLifecycle extends FiberRuntime with the `thread` handle and what happens to a `thread_object` around its entry. `Owner[g]` is the fiber (or `Main`, greenify's thread) whose entry holds g's handle as a local.

| Variable | What it models |
|---|---|
| `handle` | `thread::impl_` of g's handle is set |
| `thisref` | `this_ref_` |
| `uncaught` | `uncaught_exception_` holds an exception |
| `cleanup` | the functions `at_thread_exit` queued in `cleanup_queue_` |
| `jmode` | the `propagate_exception` argument of the join a fiber is in |
| `aop`, `aout` | the yield-token operation a fiber waits on, and whether it passed an `error_code&` |

- `JoinCall` is `thread::join`: `join` or `join_and_rethrow` on a child; a stopped child is not waited for. `JoinReturns` is the return from the join's `pause()`: `thread_interrupted` when interrupted, otherwise `Propagate` (`propagate_exception`: rethrow the child's exception and clear it).
- `DetachCall` is `thread::detach`: post `thread_object::detach` to the child's strand, reset `impl_`. `RunDetach` takes `this_ref_` only if the child has not STOPPED; `RunExitRelease` is `on_thread_exit`, which drops `this_ref_`.
- `InterruptCall`, `AtThreadExit`, `Throw` (the entry throws), and the yield token: `AsyncCall` (the `async_result` constructor), `AsyncPause`, `AsyncCompletes` (the handler stores the result and resumes the fiber) and `AsyncReturns` (`get()`: throw `system_error` on an error with no `error_code&`, or `thread_interrupted`).
- `EntryReturns` is the end of `runner_wrapper`: the locals (children's handles) are destroyed, the cleaner runs the cleanup queue, an exception not caught by the entry goes to `uncaught_exception_`, and the coroutine yields STOPPED (FiberRuntime's `Finish`).
- `GreenifyReturns`: `scheduler::join()` returned and greenify drops the root's handle.
- `Aborted` is `~thread_object` calling `std::terminate`: some object no longer referenced (`Referenced`) has not STOPPED or still holds an exception. The model halts there.

### ThreadGroup

ThreadGroup extends FiberRuntime with `thread_group` (thread_group.hpp), one per element of `Groups`. Each fiber runs `Program[f]`, a sequence of operations; each operation names its call, the thread it is given and the group it is made on. Only `Main` (greenify's root) exists at first.

| Variable | What it models |
|---|---|
| `made` | the fibers `thread::start` has made |
| `threads` | each group's `std::list<thread*>` |
| `excl`, `readers`, `want` | each group's `shared_timed_mutex m_`: exclusive holder, shared holders; and the mode a waiting fiber wants (on the group of its operation) |
| `step`, `it` | each fiber's position in its program, and join_all's iterator |
| `fss`, `minted`, `disposed` | the fiber's `fss_` entry for one key; ghosts: the values handed to it, and the values cleanup functions were called on |

`shared_mutex.hpp` is not in the tree, so the lock (`Available`, `Take`, `Release`, `LockCall`, `Grant`, `WriterEnds`) is modelled from the spec as a blocking reader/writer lock with the writer preference of Boost.Thread's `shared_mutex`, which thread_group.hpp was taken from. A fiber that cannot take it pauses, and `Grant` hands it over and resumes the fiber.

- `CreateThread`, `AddThread` and `RemoveThread` are the writer bodies; `CreateThread` starts the thread (`Start`, `make_thread`). `ReadBody` is `is_this_thread_in`, `is_thread_in` and `size`.
- `JoinAllStep` is one turn of `join_all`'s loop: it joins `threads[it]` when it is `joinable()` (not the caller) and not STOPPED, or moves on. `JoinBack` is the return from that join; `JoinAllEnds` releases the shared lock. The destructor is `join_all` followed by deleting the threads.
- `Spawn` is a plain `thread` constructor; `GroupYield` is `this_thread::yield()`.
- `SetTssData` is `set_tss_data`: the removal branch, and the update branch with its `cleanup_existing` test. `fiber_specific_ptr` lives in tss.hpp, which is not in the tree, so its calls are modelled from the spec. `TssReset` is `reset(new T)`, which is `set_tss_data(key, cleanup, fresh, true)`. `TssUnset` is the pointer's destructor, which is `set_tss_data(key, 0, 0, true)`.
- `GroupEntryReturns` ends the fiber's entry. The cleaner's fss loop (`FssCleaned`) runs, then the coroutine yields STOPPED.

### AsyncExecutor

AsyncExecutor extends ThreadGroup with `async()`, `async_executor` and `async_function` (future/async.hpp), and with the use_future completion token (asio/detail/use_future.hpp). An executor is named by the group that is its `threads_`: its constructor is the `create` operations on that group, `Push` is `operator()`, `Close` is the first statement of the destructor, and the destructor's `join_all` and the member `~thread_group` are ThreadGroup's `joinall` and `destroy` on that group. `Serve` is one turn of a worker's `for(auto &i : queue_) i();`: pop and run a task, wait on an empty open queue, or end on an empty closed one. `Async` builds the packaged task and starts the detached fiber whose entry (`AsyncEntry`) runs it. `Get` and `GetBack` are `future::get()`.

An `async_function` is named by a group no thread_group uses, which names its `queue_`. `AsyncFunction` is the constructor, which starts `thread_` on `execute()`. `AsyncCall` is `async_call`, behind `operator()` and `apply`. `Execute` is one turn of `execute()`'s loop, the same queue turn (`QueueLoop`) as a worker's, where `call` sets the element's promise. `FnDestroy` is the destructor's `queue_->close()`. `FnJoin`, `FnJoinPause` and `FnJoinBack` are its `thread_.join()`: `thread_object::join` queues the caller on the joinee's join queue, releases the joinee's `mtx_`, and only then pauses.

For use_future, `UseFuture` is an initiating function called with the token: `handler_type` selects `promise_handler`, and `async_result` takes its promise's future. `Complete` is the operation completing on an io thread. `asio_handler_invoke` then makes and detaches a fiber on the initiating fiber's scheduler. `HandlerInvoke` is `do_handler_invoke` in that fiber: the `promise_handler` sets the promise, with a `system_error` for a non-zero `error_code` or with the value otherwise. `inflight` holds the handlers whose operation has not completed.

| Variable | What it models |
|---|---|
| `queue`, `closed`, `qwait` | each executor's `concurrent_queue`: the queued task ids, whether it is closed, the workers waiting in its pop |
| `tasks` | every packaged task or promise: who runs it (an executor's or async_function's queue, async()'s fiber, or a use_future handler's fiber) and how often it ran |
| `inflight` | the use_future handlers whose operation has not completed |
| `held`, `getter` | the futures a fiber holds, and the task whose `get()` it is parked on |

`concurrent_queue.hpp`, `packaged_task.hpp` and the future headers are not in the tree, so the queue and the shared state come from the spec: push appends and wakes one waiter, close wakes all, the range-for drains the queue even after it is closed (src/test/test_cq.cpp sums every value pushed before the close), and a task run sets its future, with a value or with fn's exception, and resumes the fibers parked in `get()`. The queue's mutex is never held across a suspension, so each critical section is one step.

`MCAsyncExecutor` gives m the program create f1, spawn f2, add f2, joinall, remove f1, destroy on group g0. f1 reads g0, resets a `fiber_specific_ptr`, yields and resets it again, leaving the last value to the cleaner, then calls `async()` on a fiber a1 sharing its strand and gets the result. f2 reads g0, resets the pointer and destroys it, then builds an executor of two workers w1, w2 on group gE, gives it two tasks, gets the first result and destroys the executor. Once the group is destroyed, m makes an `async_function` whose thread is x. It calls the function twice and starts a use_future operation, whose completion runs on a fiber h. It gets the first call's result, destroys the function, and gets the other two results. x and h run on the strands of w1 and w2, which have stopped by then. So members read g0 while the root queues for the exclusive lock or holds the shared lock in `join_all`, and the workers wait on the queue before, between and after the pushes and the close.

### Streambuf

Streambuf models `streambuf_base<Stream>` (streambuf.hpp), the `std::streambuf` behind `tcp_stream`. It is used by one fiber, and its async reads and writes park that fiber until asio completes them. Bytes are abstracted to their position in their stream: the user's n-th byte is n, and the peer's n-th byte is n. The put-back area, which nothing writes, reads as `Nul`. The peer is an echo server, as in test_tcp_stream: it sends one byte for each byte it has received. The fault is a connection reset (`Reset`), after which every async operation fails.

| Variable | What it models |
|---|---|
| `pbuf` | the put area `[pbase, pptr)` |
| `unbuffered` | `unbuffered_` |
| `garea`, `gpos` | the get area `[eback+putback_max, egptr)` and `gptr` in it |
| `pc`, `ret`, `c`, `ptr` | where the fiber is parked, which call entered `overflow`/`underflow`, and `overflow`'s argument and local `ptr` |
| `wire`, `inq`, `sent`, `broken` | what the peer received, what it sent that no read took yet, how much it sent, and the reset |
| `written`, `cursor`, `got` | ghosts: the bytes accepted from the user, the user's position in the input, the last byte `sbumpc` returned |

- `Put` is `sputc`: store while the put area has room, otherwise `overflow(c)`. `Sync` is `pubsync`.
- `overflow` is `Overflow` followed by its completions. `WriteSome` is one turn of its loop, a partial `async_write_some`. `WriteChar` is the unbuffered single-byte write. `WriteFails` is the error return. `OverflowEnds` is `setp` plus storing `c`.
- `Get` is `sbumpc`, and `InAvail` is `in_avail` calling `showmanyc`. Both enter `Underflow`, which calls `sync()` first in half_duplex mode. `ReadSome` is the refill with `setg`, and `ReadFails` is the eof return.
- `Seek` is `seekoff(off, cur, in)`. It moves only inside the get area, never into the put-back area and never onto `egptr`.
- `SetBuf` is `setbuf(0, 0)`, and `Destroy` is the destructor's flush.

### AbstractLock

AbstractLock states what a mutex promises: one holder, a depth, and a FIFO queue with handoff. A free lock is taken only when no one is queued, and a timed waiter may abandon the queue.

GreenMutex instantiates it with `holder <- owner_`, `depth <- level_` and `waiting <-` the fibers of `suspended_`. `LockRefinement` checks `AL!Spec`.

## Runs

| Run | cfg | Expect | Shows |
|---|---|---|---|
| timed_mutex | MCGreenMutex_timed.cfg | pass | recursive_timed_mutex with lock, try_lock and try_lock_for, re-entry to depth 2 and yields in the critical section, on 2 workers: one wake-up per waiter across timer expiry racing handoff, `owner_`/`level_` agree with what clients hold, the owner knows it, refinement of AbstractLock, termination |
| mutex_interrupt_leak | MCGreenMutex_leak.cfg | violation | an interrupted `lock()` leaks the mutex (finding 1) |
| condvar | MCCondVar.cfg | pass | two waiters (`wait` or `wait_for`) and a notifier (`notify_one`, `notify_all` or `notify_all_at_thread_exit`) on 2 workers: one wake-up per wait, the mutex held and the queue entry gone on return, termination |
| condvar_interrupt | MCCondVar_interrupt.cfg | pass | interrupts aimed at both waiters: single wake-ups, a normal return holds the mutex, exclusion holds although a locker can leak |
| condvar_terminate | MCCondVar_terminate.cfg | violation | an interrupt during the relock in `wait` calls `std::terminate` (finding 2) |
| barrier | MCGreenBarrier.cfg | pass | three fibers pass a barrier twice on 2 workers, under each kind of completion: the count matches the current generation's missing arrivals, wake-ups stay single, all finish |
| runtime | MCInterruption.cfg | pass | fibers that yield, sleep, join, nest disable/restore scopes and call `interruption_point()` while two are interrupted: the disable level equals what the open scopes stand for, one pending wake-up per suspended fiber, joiners run after their joinee, all stop |
| scheduler | MCScheduler.cfg | pass | greenify twice on one scheduler, fibers made before `start`, workers added, a fiber making a child: `join()` returns only after every fiber has been counted out, and every fiber made is run (`MadeFiberRuns`) |
| scheduler_late_make | MCScheduler_late.cfg | violation | a fiber made after the heartbeat stopped the io_service never runs, and `join()` hangs (finding 3) |
| lifecycle | MCFiberLifecycle.cfg | pass | a root fiber joins (either mode), detaches or interrupts its children, which yield, sleep, use the yield token, register exit functions or throw: a joiner resumes only after its joinee stopped and ran its cleanups, a yield-token caller only after its handler stored the result, and every `thread_object` is released unless `~thread_object` terminated the process |
| thread_group_executor | MCAsyncExecutor.cfg | pass | create, add, join_all, remove and destroy on a group whose members read it, then an async_executor of two workers, an `async()`, an `async_function` and a use_future operation: `join_all` returns only after every listed thread other than the caller stopped (`JoinAllJoinedAll`). Each value a member's `fiber_specific_ptr` held is cleaned up exactly once, and never while the member can still reach it (`FssDisposedOnce`). Every executor or `async_function` task runs exactly once, and before the destructor's join returns (`ExecutorRunsEachTaskOnce`). `get()` returns only after its own task set the future, whoever sets it and whether that comes before or after `get()` parks (`FutureGetReturnsValue`). Every fiber ends. |
| streambuf | MCStreambuf.cfg | pass | three bytes through a 2-byte put area or unbuffered, reads of up to 2 bytes, seeks and `in_avail`, partial transfers and a reset at any point: the peer gets exactly the accepted bytes in order, or a prefix of them after a reset (`NoLossNoDup`); every byte read is the peer's byte at the user's position (`ReadsInOrder`); every read owed an answer returns (`GetReturns`) |

Every property of a passing run has a mutant in PROJECT.json: a plausible bug in the mapped code (a dropped guard, a double decrement, a missing reset) under which TLC reports the property violated with the run's own configuration.

**Bounds.** Most runs use 3 fibers on 2 strands: f1 and f2 share strand s1 (the `stick_with_parent` policy), f3 runs alone on s2. In the CondVar runs f1 and f2 wait and f3 notifies. Every fiber makes `Ops` operations (1 to 3).

- **Workers.** Two workers let two strands run at once, which is where timers and unlocks race and where `yield(hint)` may not yield.
- **Ops.** Two or three operations per fiber are enough for:
  - a queue of two waiters behind an owner;
  - a timer expiring before a handoff, and one expiring during it;
  - re-entry followed by handoff;
  - a restore scope inside a disable scope, or a disable scope around a sleep, a join or an `interruption_point` (the runtime run has `Ops = 2`, so a sleep inside a restore inside a disable is out of its reach).
- **Lifecycle.** f1 owns f2 and f3. Only f2 throws, is interrupted and uses the yield token. These are the fibers whose events race the root's join, detach and interrupt; extending them to f3 multiplies the states without adding a new ordering.
- **Scheduler.** Three programs cover start before and after make, a second greenify on a scheduler that has been joined and reset, and `add_thread`. `MCLatePrograms` (start, make f1, make f2, join) is the late make of finding 3.
- **Thread group and executor.** The root's six operations put a reader of g0 before, during and after each writer and `join_all`, with f2 both spawned and added. Two workers and two tasks are the fewest for which a push wakes one of two waiters, a close wakes both, and a task can still be queued when the close comes. The `async_function` gets two calls so that its fiber can find the queue empty, non-empty or closed at each turn. The use_future operation can complete before m's `get()` on it, or after m parks there, while x still runs the function's calls.
- **Streambuf.** Three bytes with a put area of 2 make `sputc` overflow with a full buffer, so the loop runs with 1 or 2 bytes per write; reads of at most 2 bytes make a refill split what the peer sent and let `seekoff` move both ways. `PutbackMax` is the code's 8.

**Deadlock.** It is checked everywhere except `condvar_interrupt`, `condvar_terminate` and `scheduler_late_make`. In the condvar runs the interrupted-lock leak (finding 1) really does leave fibers parked forever. In `scheduler_late_make`, `join()` really does wait for good. In FiberLifecycle a terminated process is a halting state (`Halted`), not a deadlock.

## Fairness

- **Running fibers (weak fairness).** A fiber that is running keeps its worker until it yields: nothing preempts a coroutine.
- **Armed timers and reactor operations (weak fairness).** The reactor eventually fires an armed timer; a yield-token operation is taken to complete (a timer, or I/O the peer answers).
- **Strands with queued handlers (strong fairness).** Such a strand is served whenever a worker is free infinitely often; other strands can take the free workers for a time.
- **Main.** Main keeps running its program, and greenify returns once `scheduler::join()` can.
- **Interrupts.** No interrupt is promised to happen.
- **Executor calls.** A push, close, queue turn or `get()` is a step of a running fiber, under the same weak fairness; a waiting worker or getter moves only when a push, close or task run resumes it. A started use_future operation completes (weak fairness), as a yield-token operation does.
- **Thread group lock.** The lock is handed to a waiter that can have it (weak fairness), as a blocking `shared_timed_mutex` does.
- **Streambuf.** asio completes an operation that can complete, and the echo peer answers what it received (weak fairness). Neither the user's next call nor a reset is forced.

## Findings

1. **mutex.cpp:45 (code bug).** An interrupt requested while a fiber waits in `lock()` makes `pause()` throw, but `unlock()` has already made that fiber the owner. `lock()` exits by the exception, no lock_guard exists to release the mutex, and every later locker blocks forever. The same shape is in every `lock` and `try_lock_rel` of mutex.cpp. Run `mutex_interrupt_leak`.
2. **condition.cpp:32 and :76 (code bug).** `wait` and `wait_rel` reacquire the mutex in the destructor of `relock_guard` (thread_object.hpp:150), which is implicitly `noexcept`. When another fiber holds the mutex, `lock()` pauses inside the destructor; an interrupt requested meanwhile makes `pause()` throw out of it and `std::terminate` is called. Run `condvar_terminate`: a notified waiter queues behind the notifier, which still holds the mutex, and is interrupted.
3. **scheduler_object.cpp:107 (code bug).** `on_check_timer` stops the io_service as soon as `thread_count_` is 0 after a fiber was made, and nothing restarts it before `join()` resets it. A `make_thread` from main after `start()` that comes once the earlier fibers have ended and the heartbeat has fired posts an activation nobody runs, and `join()` waits on `cv_` forever. Run `scheduler_late_make`.

Observations outside the runs (all but the set_tss_data one are in PROJECT.json's hazards). A directed test reaches each of them:
- `interrupt()` made while interruption is disabled is dropped, not deferred as spec 5 says (thread_object.cpp:326).
- `interruption_point()` throws inside a `disable_interruption` scope, although spec 8 says the interrupt is raised only at level 0 (thread_object.cpp:614).
- An interrupted `join_and_rethrow` leaves the child's exception in place, so `~thread_object` calls `std::terminate` (thread_object.cpp:300).
- After a refill, `sungetc` returns a zero byte from the put-back area, which nothing fills (streambuf.hpp:125).
- `set_tss_data(key, 0, 0, false)` still runs the cleanup (thread_object.cpp:336). This is the call Boost.Thread's `release()` makes.
- An `async_function` call whose fn throws breaks its own future and ends the dedicated fiber, so later calls' futures stay pending until the destructor (async.hpp:139).
- A transient write error after a partial write makes the next flush send the written prefix again (streambuf.hpp:161). TLC shows this with a non-final error added to Streambuf.

Further observations: a plain `join` also leaves the child's exception in place, so `~thread_object` terminates where spec 206 says the exception is discarded; `this_thread::interruption_requested()` returns the negation of the flag (thread_object.cpp:606); an exit function that calls `at_thread_exit` is dropped, because the cleaner has already swapped the queue out; a size completion returning 0 makes `m_count` wrap under `NDEBUG`; `thread_group::join_all` joins under a shared lock that a member's `add_thread` would wait for.

## Not modelled, and the plan

- **A throwing async_function, foreign_thread_pool, continuations.** `async_function` is modelled only with an fn that returns. A throwing fn ends its fiber and leaves later futures pending (hazard at async.hpp:139), which a passing run cannot explore. `foreign_thread_pool` runs OS threads on `boost::mutex`, outside the fiber runtime. `then` and `wait_for_any/all` live in headers that are missing from the tree.
- **Fiber-specific `release()` and `get_tss_data`.** `release()` is in the missing tss.hpp. `get_tss_data` changes no state. The observation above on thread_object.cpp:336 says what `release()` would do if it mirrors Boost.Thread.
- **std_stream_guard, names, exceptions, `streambuf::connect`.** These are a buffer swap, formatting, or a single async call with no state.
- **Plan.** Model the exit function that registers another one if a run can be freed.
