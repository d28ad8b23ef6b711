----------------------------- MODULE GreenMutex -----------------------------
(***************************************************************************)
(* The fiber mutex family of src/src/mutex.cpp: mutex, recursive_mutex,    *)
(* timed_mutex and recursive_timed_mutex, run by the fibers of             *)
(* FiberRuntime.  The constants Recursive and Timed select the variant;    *)
(* the four classes share one discipline:                                  *)
(*   - a spinlock mtx_ makes each of lock/try_lock/unlock/timeout_handler  *)
(*     one atomic step on owner_, level_ and suspended_;                   *)
(*   - a blocked locker queues itself and pauses after releasing mtx_;     *)
(*   - unlock hands ownership straight to the head of suspended_ and wakes *)
(*     it: by resume(), or, when the waiter armed a timer, by cancelling   *)
(*     that timer so that the timer's handler resumes it;                  *)
(*   - after a handoff the unlocker calls yield(owner_) with mtx_ released.*)
(* Every fiber runs a client loop of Ops lock attempts, each followed by   *)
(* the matching unlocks, the way a lock_guard does.                        *)
(***************************************************************************)
EXTENDS FiberRuntime

CONSTANTS
    Recursive,  \* recursive_mutex / recursive_timed_mutex
    Timed,      \* timed_mutex / recursive_timed_mutex
    MaxDepth    \* deepest nesting of a recursive client

ASSUME Recursive \in BOOLEAN /\ Timed \in BOOLEAN
ASSUME MaxDepth \in Nat \ {0}

VARIABLES
    owner,      \* owner_
    level,      \* level_ (1 whenever a non-recursive mutex is owned)
    suspended,  \* suspended_: the queued lockers, with "a timer is attached"
    timer,      \* the state of the timer try_lock_rel armed for a fiber
    held,       \* how many times each fiber has acquired and not released
    cont        \* where a fiber continues once its lock()/unlock() returns

mvars == <<owner, level, suspended, timer, held, cont>>
vars == <<rtvars, ops, mvars>>

Waiter == [fib : Fibers, timed : BOOLEAN]

TimeoutHandler(f) == [kind |-> "timeout", fib |-> f]

\* The places from which a fiber may still learn that it owns the mutex.
WaitPCs == {"lock_pause", "lock_wait", "tlf_pause", "tlf_wait"}

\* The places of a fiber that has registered a wake-up source and not yet
\* paused for it.
ArmedPCs == {"lock_pause", "tlf_pause"}

\* The wake-ups f will get: those of FiberRuntime, an armed timer, a
\* timeout_handler queued on its strand, a place in suspended_ without a
\* timer (unlock resumes such a waiter itself).
Wakeups(f) ==
    RuntimeWakeups(f)
      + (IF timer[f] = "armed" THEN 1 ELSE 0)
      + MapThenSumSet(LAMBDA s : Occurrences(squeue[s], TimeoutHandler(f)), Strands)
      + Occurrences(suspended, [fib |-> f, timed |-> FALSE])

\* The wake-ups f is owed: one for a suspended coroutine, one for a pause
\* it has armed and not yet reached.
Owed(f) ==
    (IF fstate[f] \in {"BLOCKED", "READY"} THEN 1 ELSE 0)
      + (IF pc[f] \in ArmedPCs THEN 1 ELSE 0)

MutexPCs == {"idle", "unwind", "done", "unlock_yield"} \cup WaitPCs

TypeOK ==
    /\ RuntimeTypeOK
    /\ pc \in [Fibers -> MutexPCs]
    /\ owner \in Fibers \cup {NoFiber}
    /\ level \in 0..MaxDepth
    /\ suspended \in Seq(Waiter)
    /\ timer \in [Fibers -> {"idle", "armed"}]
    /\ held \in [Fibers -> 0..MaxDepth]
    /\ cont \in [Fibers -> MutexPCs]

Init ==
    /\ RuntimeInit
    /\ owner = NoFiber
    /\ level = 0
    /\ suspended = <<>>
    /\ timer = [f \in Fibers |-> "idle"]
    /\ held = [f \in Fibers |-> 0]
    /\ cont = [f \in Fibers |-> "idle"]

-----------------------------------------------------------------------------
(* Client side: the next lock attempt is allowed when the client holds     *)
(* nothing, or re-enters a recursive mutex it holds.                       *)
MayLock(f) ==
    /\ Running(f) /\ pc[f] = "idle" /\ ops[f] > 0
    /\ held[f] = 0 \/ (Recursive /\ held[f] < MaxDepth)

Acquired(f) == held' = [held EXCEPT ![f] = @ + 1]

(* mutex::lock() (and timed_mutex::lock()) called by f, which continues   *)
(* at next once it returns; under mtx_: the owner re-locking gets DEADLOCK *)
(* (no client here does); a free mutex is taken; otherwise the fiber is   *)
(* queued, without a timer, and goes on to pause.                          *)
MutexLock(f, next) ==
    /\ owner # f
    /\ \/ /\ owner = NoFiber
          /\ owner' = f
          /\ level' = 1
          /\ Acquired(f)
          /\ pc' = [pc EXCEPT ![f] = next]
          /\ UNCHANGED <<suspended, cont>>
       \/ /\ owner # NoFiber
          /\ suspended' = Append(suspended, [fib |-> f, timed |-> FALSE])
          /\ pc' = [pc EXCEPT ![f] = "lock_pause"]
          /\ cont' = [cont EXCEPT ![f] = next]
          /\ UNCHANGED <<owner, level, held>>
    /\ UNCHANGED <<fstate, squeue, busy, live, requested, disable, sleeping, joinq, joinee, timer>>

(* recursive_mutex::lock(): the owner bumps level_; anyone else proceeds   *)
(* as in mutex::lock().                                                    *)
RecursiveLock(f, next) ==
    \/ /\ owner = f
       /\ level' = level + 1
       /\ Acquired(f)
       /\ pc' = [pc EXCEPT ![f] = next]
       /\ UNCHANGED <<fstate, squeue, busy, live, requested, disable, sleeping, joinq, joinee,
                      owner, suspended, timer, cont>>
    \/ MutexLock(f, next)

(* lock() of the selected class; recursive_timed_mutex::lock() is          *)
(* recursive_mutex::lock() with an untimed waiter entry.                   *)
LockCall(f, next) == IF Recursive THEN RecursiveLock(f, next) ELSE MutexLock(f, next)

(* The client's lock_guard constructor.                                    *)
Lock(f) ==
    /\ MayLock(f)
    /\ ops' = [ops EXCEPT ![f] = @ - 1]
    /\ LockCall(f, "idle")

(* relock_guard has released mtx_; the fiber pauses.                       *)
LockPause(f) ==
    /\ Running(f) /\ pc[f] \in {"lock_pause", "tlf_pause"}
    /\ Pause(f, IF pc[f] = "lock_pause" THEN "lock_wait" ELSE "tlf_wait")
    /\ UNCHANGED <<squeue, live, requested, disable, sleeping, joinq, joinee, ops, mvars>>

\* The continuations of a lock() called from the destructor of
\* relock_guard (condition_variable::wait, CondVar): the destructor is
\* implicitly noexcept, so an exception leaving that lock() calls
\* std::terminate.  No client of this module continues there.
DestructorConts == {"wait_return", "unwind"}

(* Resumed in lock(): pause() throws thread_interrupted if an interrupt    *)
(* was requested, disable, so lock() exits by the exception (and when this lock()   *)
(* was called by a destructor, std::terminate is called); otherwise lock() *)
(* returns and the unlocker has already made this fiber the owner.         *)
LockReturns(f) ==
    /\ Running(f) /\ pc[f] = "lock_wait"
    /\ IF Interrupted(f)
       THEN /\ pc' = [pc EXCEPT ![f] = IF cont[f] \in DestructorConts
                                        THEN "terminate" ELSE "unwind"]
            /\ UNCHANGED held
       ELSE pc' = [pc EXCEPT ![f] = cont[f]] /\ Acquired(f)
    /\ UNCHANGED <<fstate, squeue, busy, live, requested, disable, sleeping, joinq, joinee, ops,
                   owner, level, suspended, timer, cont>>

(* mutex::try_lock() (and timed_mutex::try_lock()), under mtx_: a free    *)
(* mutex is taken; it returns whether the caller owns it.                  *)
MutexTryLock(f) ==
    \/ /\ owner = NoFiber
       /\ owner' = f
       /\ level' = 1
       /\ Acquired(f)
    \/ /\ owner # NoFiber
       /\ UNCHANGED <<owner, level, held>>

(* recursive_mutex::try_lock(): the owner bumps level_ as well.            *)
RecursiveTryLock(f) ==
    \/ /\ owner = f
       /\ level' = level + 1
       /\ Acquired(f)
       /\ UNCHANGED owner
    \/ owner # f /\ MutexTryLock(f)

(* try_lock() of the selected class (recursive_timed_mutex::try_lock() is  *)
(* recursive_mutex's).                                                     *)
TryLock(f) ==
    /\ MayLock(f)
    /\ ops' = [ops EXCEPT ![f] = @ - 1]
    /\ IF Recursive THEN RecursiveTryLock(f) ELSE MutexTryLock(f)
    /\ UNCHANGED <<fstate, pc, squeue, busy, live, requested, disable, sleeping, joinq, joinee,
                   suspended, timer, cont>>

(* timed_mutex::try_lock_rel(d), under mtx_: the owner gets DEADLOCK; a    *)
(* free mutex is taken; otherwise the fiber arms a timer whose handler,    *)
(* wrapped by its strand, is timeout_handler, queues itself with that      *)
(* timer attached and goes on to pause.                                    *)
TimedTryLockFor(f) ==
    /\ owner # f
    /\ \/ /\ owner = NoFiber
          /\ owner' = f
          /\ level' = 1
          /\ Acquired(f)
          /\ UNCHANGED <<suspended, pc, timer>>
       \/ /\ owner # NoFiber
          /\ timer' = [timer EXCEPT ![f] = "armed"]
          /\ suspended' = Append(suspended, [fib |-> f, timed |-> TRUE])
          /\ pc' = [pc EXCEPT ![f] = "tlf_pause"]
          /\ UNCHANGED <<owner, level, held>>

(* recursive_timed_mutex::try_lock_rel(d): the owner bumps level_; anyone  *)
(* else proceeds as in timed_mutex::try_lock_rel.                          *)
RecursiveTryLockFor(f) ==
    \/ /\ owner = f
       /\ level' = level + 1
       /\ Acquired(f)
       /\ UNCHANGED <<owner, suspended, pc, timer>>
    \/ TimedTryLockFor(f)

(* try_lock_for/try_lock_until of a timed class call try_lock_rel.         *)
TryLockFor(f) ==
    /\ Timed
    /\ MayLock(f)
    /\ ops' = [ops EXCEPT ![f] = @ - 1]
    /\ IF Recursive THEN RecursiveTryLockFor(f) ELSE TimedTryLockFor(f)
    /\ UNCHANGED <<fstate, squeue, busy, live, requested, disable, sleeping, joinq, joinee, cont>>

\* Mutant of TryLockForReturns: reports success without checking owner_.
TryLockForAlwaysTrue(f) ==
    /\ Running(f) /\ pc[f] = "tlf_wait"
    /\ IF Interrupted(f)
       THEN pc' = [pc EXCEPT ![f] = "unwind"] /\ UNCHANGED held
       ELSE pc' = [pc EXCEPT ![f] = "idle"] /\ Acquired(f)
    /\ UNCHANGED <<fstate, squeue, busy, live, requested, disable, sleeping, joinq, joinee, ops,
                   owner, level, suspended, timer, cont>>

\* Mutant of TryLockForReturns: reports failure whenever the call was
\* woken by its timer's handler, which is every time.
TryLockForAlwaysFalse(f) ==
    /\ Running(f) /\ pc[f] = "tlf_wait"
    /\ pc' = [pc EXCEPT ![f] = IF Interrupted(f) THEN "unwind" ELSE "idle"]
    /\ UNCHANGED <<fstate, squeue, busy, live, requested, disable, sleeping, joinq, joinee, ops,
                   owner, level, suspended, timer, held, cont>>

(* Resumed in try_lock_rel: pause() throws on a pending interrupt;         *)
(* otherwise the call returns owner_ == tf, and the stack timer goes out   *)
(* of scope.                                                               *)
TryLockForReturns(f) ==
    /\ Running(f) /\ pc[f] = "tlf_wait"
    /\ IF Interrupted(f)
       THEN pc' = [pc EXCEPT ![f] = "unwind"] /\ UNCHANGED held
       ELSE /\ pc' = [pc EXCEPT ![f] = "idle"]
            /\ IF owner = f THEN Acquired(f) ELSE UNCHANGED held
    /\ UNCHANGED <<fstate, squeue, busy, live, requested, disable, sleeping, joinq, joinee, ops,
                   owner, level, suspended, timer, cont>>

\* Mutant of WakeNewOwner: the timer is cancelled and the waiter resumed too.
WakeNewOwnerTwice(w) ==
    /\ IF w.timed /\ timer[w.fib] = "armed"
       THEN /\ timer' = [timer EXCEPT ![w.fib] = "idle"]
            /\ squeue' = Post(Resume(squeue, w.fib), StrandOf[w.fib], TimeoutHandler(w.fib))
       ELSE /\ squeue' = Resume(squeue, w.fib)
            /\ UNCHANGED timer

\* Mutant of WakeNewOwner: a waiter whose timer already expired (cancel()
\* finds nothing to abort) is resumed directly.
WakeNewOwnerResumeExpired(w) ==
    IF w.timed /\ timer[w.fib] = "armed"
    THEN /\ timer' = [timer EXCEPT ![w.fib] = "idle"]
         /\ squeue' = Post(squeue, StrandOf[w.fib], TimeoutHandler(w.fib))
    ELSE /\ squeue' = Resume(squeue, w.fib)
         /\ UNCHANGED timer

(* Waking the waiter that unlock() hands the mutex to: a waiter without a  *)
(* timer is resumed; for one with a timer, cancel() makes an armed timer   *)
(* complete with operation_aborted, posting its handler to the waiter's    *)
(* strand, and does nothing to a timer that has already expired.           *)
WakeNewOwner(w) ==
    IF w.timed
    THEN IF timer[w.fib] = "armed"
         THEN /\ timer' = [timer EXCEPT ![w.fib] = "idle"]
              /\ squeue' = Post(squeue, StrandOf[w.fib], TimeoutHandler(w.fib))
         ELSE UNCHANGED <<timer, squeue>>
    ELSE /\ squeue' = Resume(squeue, w.fib)
         /\ UNCHANGED timer

\* Mutant of UnlockCall: the mutex goes to the newest waiter (LIFO).
UnlockLifo(f, next) ==
    /\ held' = [held EXCEPT ![f] = @ - 1]
    /\ \/ /\ level > 1
          /\ level' = level - 1
          /\ pc' = [pc EXCEPT ![f] = next]
          /\ UNCHANGED <<owner, suspended, timer, squeue, cont>>
       \/ /\ level = 1
          /\ suspended = <<>>
          /\ owner' = NoFiber
          /\ level' = 0
          /\ pc' = [pc EXCEPT ![f] = next]
          /\ UNCHANGED <<suspended, timer, squeue, cont>>
       \/ /\ level = 1
          /\ suspended # <<>>
          /\ owner' = Last(suspended).fib
          /\ suspended' = Front(suspended)
          /\ WakeNewOwner(Last(suspended))
          /\ pc' = [pc EXCEPT ![f] = "unlock_yield"]
          /\ cont' = [cont EXCEPT ![f] = next]
          /\ UNCHANGED level
    /\ UNCHANGED <<fstate, busy, live, requested, disable, sleeping, joinq, joinee>>

\* Mutant of UnlockCall: on handoff level_ is incremented instead of kept at 1.
UnlockHandoffBumpsLevel(f, next) ==
    /\ held' = [held EXCEPT ![f] = @ - 1]
    /\ \/ /\ level > 1
          /\ level' = level - 1
          /\ pc' = [pc EXCEPT ![f] = next]
          /\ UNCHANGED <<owner, suspended, timer, squeue, cont>>
       \/ /\ level = 1
          /\ suspended = <<>>
          /\ owner' = NoFiber
          /\ level' = 0
          /\ pc' = [pc EXCEPT ![f] = next]
          /\ UNCHANGED <<suspended, timer, squeue, cont>>
       \/ /\ level = 1
          /\ suspended # <<>>
          /\ owner' = Head(suspended).fib
          /\ suspended' = Tail(suspended)
          /\ WakeNewOwner(Head(suspended))
          /\ pc' = [pc EXCEPT ![f] = "unlock_yield"]
          /\ cont' = [cont EXCEPT ![f] = next]
          /\ level' = level + 1
    /\ UNCHANGED <<fstate, busy, live, requested, disable, sleeping, joinq, joinee>>

(* mutex::unlock() (and timed_mutex::unlock()) called by f, the owner,    *)
(* which continues at next once it returns; under mtx_: with nobody queued *)
(* the mutex is freed; otherwise ownership passes to the head of           *)
(* suspended_, which is woken, and the unlocker goes on to yield with mtx_ *)
(* released.  (A non-owner gets NOPERM; no client here calls it so.)       *)
MutexUnlock(f, next) ==
    \/ /\ suspended = <<>>
       /\ owner' = NoFiber
       /\ level' = 0
       /\ pc' = [pc EXCEPT ![f] = next]
       /\ UNCHANGED <<suspended, timer, squeue, cont>>
    \/ /\ suspended # <<>>
       /\ owner' = Head(suspended).fib
       /\ suspended' = Tail(suspended)
       /\ WakeNewOwner(Head(suspended))
       /\ pc' = [pc EXCEPT ![f] = "unlock_yield"]
       /\ cont' = [cont EXCEPT ![f] = next]
       /\ UNCHANGED level

(* recursive_mutex::unlock(): --level_; above 0 the owner keeps the mutex; *)
(* at 0 it is freed or handed over as in mutex::unlock(), the new owner at *)
(* level_ 1.                                                               *)
RecursiveUnlock(f, next) ==
    \/ /\ level > 1
       /\ level' = level - 1
       /\ pc' = [pc EXCEPT ![f] = next]
       /\ UNCHANGED <<owner, suspended, timer, squeue, cont>>
    \/ level = 1 /\ MutexUnlock(f, next)

(* unlock() of the selected class by f (recursive_timed_mutex::unlock() is *)
(* recursive_mutex::unlock() with timed_mutex's wake-up of the new owner). *)
UnlockCall(f, next) ==
    /\ held' = [held EXCEPT ![f] = @ - 1]
    /\ IF Recursive THEN RecursiveUnlock(f, next) ELSE MutexUnlock(f, next)
    /\ UNCHANGED <<fstate, busy, live, requested, disable, sleeping, joinq, joinee>>

(* The client's lock_guard destructor.                                     *)
Unlock(f) ==
    /\ Running(f) /\ pc[f] = "idle" /\ held[f] > 0
    /\ UnlockCall(f, "idle")
    /\ UNCHANGED ops

\* Mutant of UnlockYield: the fiber keeps yielding to the owner hint
\* instead of returning from unlock().
UnlockYieldRepeats(f) ==
    /\ Running(f) /\ pc[f] = "unlock_yield"
    /\ IF TakesYield(f, owner)
       THEN YieldOut(f, "unlock_yield") /\ squeue' = Resume(squeue, f)
       ELSE pc' = [pc EXCEPT ![f] = cont[f]] /\ UNCHANGED <<fstate, busy, squeue>>
    /\ UNCHANGED <<live, requested, disable, sleeping, joinq, joinee, ops, mvars>>

(* tf->yield(owner_), evaluated after relock_guard released mtx_: the hint *)
(* is whatever owner_ holds by then.  unlock() then returns.               *)
UnlockYield(f) ==
    /\ Running(f) /\ pc[f] = "unlock_yield"
    /\ IF TakesYield(f, owner)
       THEN YieldOut(f, cont[f]) /\ squeue' = Resume(squeue, f)
       ELSE pc' = [pc EXCEPT ![f] = cont[f]] /\ UNCHANGED <<fstate, busy, squeue>>
    /\ UNCHANGED <<live, requested, disable, sleeping, joinq, joinee, ops, mvars>>

(* Inside its critical section the client calls this_thread::yield(),     *)
(* letting other fibers of its strand and worker run into the held mutex.  *)
CriticalYield(f) ==
    /\ Running(f) /\ pc[f] = "idle" /\ ops[f] > 0 /\ held[f] > 0
    /\ YieldOut(f, "idle")
    /\ squeue' = Resume(squeue, f)
    /\ ops' = [ops EXCEPT ![f] = @ - 1]
    /\ UNCHANGED <<live, requested, disable, sleeping, joinq, joinee, mvars>>

(* The timer of a try_lock_rel expires: its strand-wrapped handler is      *)
(* dispatched to the waiter's strand.                                      *)
TimerExpires(f) ==
    /\ timer[f] = "armed"
    /\ timer' = [timer EXCEPT ![f] = "idle"]
    /\ squeue' = Post(squeue, StrandOf[f], TimeoutHandler(f))
    /\ UNCHANGED <<fstate, pc, busy, live, requested, disable, sleeping, joinq, joinee, ops,
                   owner, level, suspended, held, cont>>

\* Mutant of RunTimeout: the waiter is resumed only when it timed out,
\* not when it was handed the mutex.
RunTimeoutOnlyOnExpiry(s) ==
    /\ CanRun(s)
    /\ Head(squeue[s]).kind = "timeout"
    /\ LET f == Head(squeue[s]).fib IN
         IF owner # f
         THEN /\ suspended' = RemoveFirstMatch(suspended, LAMBDA w : w.fib = f)
              /\ squeue' = Resume([squeue EXCEPT ![s] = Tail(@)], f)
         ELSE /\ squeue' = [squeue EXCEPT ![s] = Tail(@)]
              /\ UNCHANGED suspended
    /\ UNCHANGED <<fstate, pc, busy, live, requested, disable, sleeping, joinq, joinee, ops,
                   owner, level, timer, held, cont>>

(* timeout_handler run by strand s, whatever the error code: under mtx_,   *)
(* a fiber that is not the owner is removed from suspended_; then it is    *)
(* resumed.                                                                *)
RunTimeout(s) ==
    /\ CanRun(s)
    /\ Head(squeue[s]).kind = "timeout"
    /\ LET f == Head(squeue[s]).fib IN
         /\ suspended' = IF owner # f
                         THEN RemoveFirstMatch(suspended, LAMBDA w : w.fib = f)
                         ELSE suspended
         /\ squeue' = Resume([squeue EXCEPT ![s] = Tail(@)], f)
    /\ UNCHANGED <<fstate, pc, busy, live, requested, disable, sleeping, joinq, joinee, ops,
                   owner, level, timer, held, cont>>

(* The entry returns once its lock attempts are done and its guards        *)
(* released, or unwinds from an interrupted lock.                          *)
MutexReturns(f) ==
    /\ Running(f)
    /\ \/ pc[f] = "idle" /\ ops[f] = 0
       \/ pc[f] = "unwind"
    /\ held[f] = 0
    /\ Finish(f)
    /\ UNCHANGED <<live, requested, disable, sleeping, joinee, ops, mvars>>

Terminated ==
    /\ \A f \in Fibers : fstate[f] = "STOPPED" /\ timer[f] = "idle"
    /\ \A s \in Strands : squeue[s] = <<>>
    /\ UNCHANGED vars

MutexStep(f) ==
    \/ Lock(f) \/ LockPause(f) \/ LockReturns(f) \/ TryLock(f)
    \/ TryLockFor(f) \/ TryLockForReturns(f) \/ Unlock(f) \/ UnlockYield(f)
    \/ CriticalYield(f) \/ MutexReturns(f)

HandlerStep(s) ==
    \/ (RunActivate(s) \/ RunExit(s)) /\ UNCHANGED mvars
    \/ RunTimeout(s)

Next ==
    \/ \E s \in Strands : HandlerStep(s)
    \/ \E f \in Fibers : MutexStep(f) \/ TimerExpires(f)
    \/ Terminated

\* The same, with thread::interrupt() called by other agents.
InterruptibleNext ==
    \/ Next
    \/ \E f \in Fibers : Interrupt(f) /\ UNCHANGED mvars

(* Fairness as in FiberRuntime: running fibers continue, strands with      *)
(* queued handlers are served, armed timers expire.                        *)
Fairness ==
    /\ \A f \in Fibers : WF_vars(MutexStep(f)) /\ WF_vars(TimerExpires(f))
    /\ \A s \in Strands : SF_vars(HandlerStep(s))

Spec == Init /\ [][Next]_vars /\ Fairness

InterruptibleSpec == Init /\ [][InterruptibleNext]_vars /\ Fairness

-----------------------------------------------------------------------------
(* Properties.                                                             *)

\* Every suspended fiber has exactly one pending wake-up and no fiber ever
\* has two.  This is what the timer/handoff protocol of the timed mutexes
\* must get right: when the timer expires while unlock() hands the mutex to
\* the waiter, exactly one of timeout_handler and unlock() may resume it,
\* or the fiber is woken twice (or never).
SingleWakeup == \A f \in Fibers : Wakeups(f) = Owed(f)

\* A fiber whose client holds a lock_guard is the owner, at the nesting
\* depth it believes: no two fibers are ever inside the critical section,
\* whatever the interleaving of handoffs, timeouts and try_lock_for results.
OwnershipAgreement ==
    \A f \in Fibers : held[f] > 0 => owner = f /\ level = held[f]

\* The owner of the mutex either knows it (holds a guard) or is still in
\* lock()/try_lock_for() and will learn it on return: ownership is never
\* handed to a fiber that will not release it.
OwnerKnowsIt ==
    owner # NoFiber => held[owner] > 0 \/ pc[owner] \in WaitPCs

\* The mutex implements AbstractLock: owner_, level_ and the fibers of
\* suspended_ behave as a lock with FIFO handoff and no barging.  This is
\* the spec's "handoff, not retry" and "strictly FIFO among waiters": a
\* fresh lock() or try_lock() never takes the mutex while fibers are queued,
\* unlock() passes it to the oldest waiter, and a timeout removes a waiter
\* without disturbing the order of the others or the owner.
AL == INSTANCE AbstractLock
        WITH Clients <- Fibers, None <- NoFiber, Reentrant <- Recursive,
             Abandoning <- Timed, holder <- owner, depth <- level,
             waiting <- [i \in 1..Len(suspended) |-> suspended[i].fib]

LockRefinement == AL!Spec

\* Every fiber eventually stops and thread_count_ drops to 0: no fiber is
\* left parked in suspended_ (RuntimeTermination of FiberRuntime).

=============================================================================
