------------------------------ MODULE CondVar ------------------------------
(***************************************************************************)
(* condition_variable of src/src/condition.cpp over the fiber mutex of     *)
(* GreenMutex (the class waits on a plain `mutex`, so the modules using it *)
(* run with Recursive = Timed = FALSE).                                    *)
(*                                                                         *)
(* wait() queues the fiber in suspended_ under the condition's spinlock,   *)
(* then a relock_guard<mutex> unlocks the mutex (a full mutex::unlock,     *)
(* handoff and yield included), pauses, and in its destructor locks the    *)
(* mutex again (a full mutex::lock, queueing and pausing included).        *)
(* wait_rel() also arms a strand-wrapped timer.  notify_one/notify_all pop *)
(* waiters and resume them, or cancel their timer so that the handler      *)
(* resumes them, then yield the notifying fiber.                           *)
(*                                                                         *)
(* The calls are operators taking the caller's continuation; the modules   *)
(* of the condition's users (CvClients, GreenBarrier) supply the guards.   *)
(* A wait returns at pc "wait_return" and its caller re-tests its          *)
(* predicate at pc "check".                                                *)
(***************************************************************************)
EXTENDS GreenMutex

VARIABLES
    cvq,        \* suspended_ of the condition: waiters, "a timer is attached"
    cvtimer     \* the wait_rel timer of each fiber

cvvars == <<cvq, cvtimer>>

CvExpired(f) == [kind |-> "cv_expired", fib |-> f]
CvCancelled(f) == [kind |-> "cv_cancelled", fib |-> f]

CvPCs == {"check", "wait_return", "cv_unlock", "cv_pause", "cv_wait", "terminate"}

\* The wake-ups f will get, counting the condition's: a place in suspended_
\* without a timer, an armed wait_rel timer, its handler queued.
CvWakeups(f) ==
    Wakeups(f)
      + Occurrences(cvq, [fib |-> f, timed |-> FALSE])
      + (IF cvtimer[f] = "armed" THEN 1 ELSE 0)
      + MapThenSumSet(LAMBDA s : Occurrences(squeue[s], CvExpired(f))
                                   + Occurrences(squeue[s], CvCancelled(f)), Strands)

\* A waiter is owed the wake-up of its pause from the moment it is queued
\* until it pauses, also while mutex::unlock yields in between.
CvOwed(f) ==
    Owed(f)
      + (IF \/ pc[f] \in {"cv_unlock", "cv_pause"}
            \/ pc[f] = "unlock_yield" /\ cont[f] = "cv_pause"
         THEN 1 ELSE 0)

\* The condition's part of a type invariant.
CvVarsOK ==
    /\ cvq \in Seq(Waiter)
    /\ cvtimer \in [Fibers -> {"idle", "armed"}]

CvInit ==
    /\ Init
    /\ cvq = <<>>
    /\ cvtimer = [f \in Fibers |-> "idle"]

-----------------------------------------------------------------------------
(* wait(lock) and wait_rel(lock, d) called by f: the caller owns the mutex *)
(* (the NOPERM branch is not taken by the callers here); under the         *)
(* condition's spinlock f is queued, and wait_rel arms its timer, whose    *)
(* strand-wrapped handler is timeout_handler.                              *)
WaitCall(f, timed) ==
    /\ owner = f
    /\ cvq' = Append(cvq, [fib |-> f, timed |-> timed])
    /\ cvtimer' = IF timed THEN [cvtimer EXCEPT ![f] = "armed"] ELSE cvtimer
    /\ pc' = [pc EXCEPT ![f] = "cv_unlock"]
    /\ UNCHANGED <<fstate, squeue, busy, live, requested, disable, sleeping, joinq, joinee, ops, mvars>>

(* The relock_guard constructor: mutex::unlock().                          *)
WaitUnlock(f) ==
    /\ Running(f) /\ pc[f] = "cv_unlock"
    /\ UnlockCall(f, "cv_pause")
    /\ UNCHANGED <<ops, cvvars>>

WaitPause(f) ==
    /\ Running(f) /\ pc[f] = "cv_pause"
    /\ Pause(f, "cv_wait")
    /\ UNCHANGED <<squeue, live, requested, disable, sleeping, joinq, joinee, ops, mvars, cvvars>>

\* Mutant of WaitRelock: wait() returns without taking the mutex back.
WaitReturnsUnlocked(f) ==
    /\ Running(f) /\ pc[f] = "cv_wait"
    /\ pc' = [pc EXCEPT ![f] = IF Interrupted(f) THEN "unwind" ELSE "wait_return"]
    /\ UNCHANGED <<fstate, squeue, busy, live, requested, disable, sleeping, joinq, joinee, ops,
                   owner, level, suspended, timer, held, cont, cvvars>>

(* Back from pause(): if an interrupt was requested pause() throws, and    *)
(* the relock_guard destructor runs during the unwinding; either way the   *)
(* destructor calls mutex::lock().                                         *)
WaitRelock(f) ==
    /\ Running(f) /\ pc[f] = "cv_wait"
    /\ LockCall(f, IF Interrupted(f) THEN "unwind" ELSE "wait_return")
    /\ UNCHANGED <<ops, cvvars>>

(* wait() returns to the caller's loop, which tests its predicate again.   *)
WaitReturn(f) ==
    /\ Running(f) /\ pc[f] = "wait_return"
    /\ pc' = [pc EXCEPT ![f] = "check"]
    /\ UNCHANGED <<fstate, squeue, busy, live, requested, disable, sleeping, joinq, joinee, ops,
                   mvars, cvvars>>

(* An interrupted wait() that relocked the mutex without pausing unwinds   *)
(* holding it; the caller's unique_lock destructor releases it.            *)
UnwindUnlock(f) ==
    /\ Running(f) /\ pc[f] = "unwind" /\ held[f] > 0
    /\ UnlockCall(f, "unwind")
    /\ UNCHANGED <<ops, cvvars>>

(* Timer expiry of a wait_rel: the handler goes to the waiter's strand.    *)
CvTimerExpires(f) ==
    /\ cvtimer[f] = "armed"
    /\ cvtimer' = [cvtimer EXCEPT ![f] = "idle"]
    /\ squeue' = Post(squeue, StrandOf[f], CvExpired(f))
    /\ UNCHANGED <<fstate, pc, busy, live, requested, disable, sleeping, joinq, joinee, ops,
                   mvars, cvq>>

\* Mutant of RunCvTimeout: on expiry the waiter is left in suspended_.
RunCvTimeoutKeepsWaiter(s) ==
    /\ CanRun(s)
    /\ Head(squeue[s]).kind \in {"cv_expired", "cv_cancelled"}
    /\ squeue' = Resume([squeue EXCEPT ![s] = Tail(@)], Head(squeue[s]).fib)
    /\ UNCHANGED <<fstate, pc, busy, live, requested, disable, sleeping, joinq, joinee, ops,
                   mvars, cvvars>>

(* timeout_handler on the waiter's strand: on expiry (no error code),      *)
(* under the spinlock, the waiter is removed from suspended_ if still      *)
(* there (ret := timeout); cancelled or not, the waiter is resumed.        *)
RunCvTimeout(s) ==
    /\ CanRun(s)
    /\ Head(squeue[s]).kind \in {"cv_expired", "cv_cancelled"}
    /\ LET h == Head(squeue[s]) IN
         /\ cvq' = IF h.kind = "cv_expired"
                   THEN RemoveFirstMatch(cvq, LAMBDA w : w.fib = h.fib)
                   ELSE cvq
         /\ squeue' = Resume([squeue EXCEPT ![s] = Tail(@)], h.fib)
    /\ UNCHANGED <<fstate, pc, busy, live, requested, disable, sleeping, joinq, joinee, ops,
                   mvars, cvtimer>>

\* Mutant of WakeWaiter: the waiter is resumed even when its timer is
\* cancelled, so the cancellation handler wakes it a second time.
WakeWaiterTwice(q, w) ==
    IF w.timed /\ cvtimer[w.fib] = "armed"
    THEN Post(Resume(q, w.fib), StrandOf[w.fib], CvCancelled(w.fib))
    ELSE Resume(q, w.fib)

(* Waking a popped waiter: resume() it, or cancel its timer, which posts   *)
(* the handler with operation_aborted if the timer is still armed and does *)
(* nothing if it has expired (its handler is already on the way).          *)
WakeWaiter(q, w) ==
    IF ~w.timed THEN Resume(q, w.fib)
    ELSE IF cvtimer[w.fib] = "armed"
         THEN Post(q, StrandOf[w.fib], CvCancelled(w.fib))
         ELSE q

\* The timers a notify cancels.
Cancelled(ws) ==
    [g \in Fibers |-> IF [fib |-> g, timed |-> TRUE] \in ToSet(ws) THEN "idle" ELSE cvtimer[g]]

(* notify_one() called by fiber f, which continues at next: with nobody    *)
(* queued it returns at once, without yielding; otherwise the head of      *)
(* suspended_ is popped and woken, and, the spinlock released, f yields    *)
(* (no hint: always).                                                      *)
NotifyOneCall(f, next) ==
    /\ IF cvq = <<>>
       THEN /\ pc' = [pc EXCEPT ![f] = next]
            /\ UNCHANGED <<fstate, busy, squeue, cvq, cvtimer>>
       ELSE /\ cvq' = Tail(cvq)
            /\ cvtimer' = Cancelled(<<Head(cvq)>>)
            /\ squeue' = Resume(WakeWaiter(squeue, Head(cvq)), f)
            /\ YieldOut(f, next)
    /\ UNCHANGED <<live, requested, disable, sleeping, joinq, joinee, ops, mvars>>

\* Mutant of NotifyAllCall: the waiters are woken but not popped.
NotifyAllCallKeepsQueue(f, next) ==
    /\ cvtimer' = Cancelled(cvq)
    /\ squeue' = Resume(FoldLeft(WakeWaiter, squeue, cvq), f)
    /\ YieldOut(f, next)
    /\ UNCHANGED <<live, requested, disable, sleeping, joinq, joinee, ops, mvars, cvq>>

(* notify_all() called by fiber f: every queued waiter is popped and woken *)
(* in order, then f yields, also when nobody was queued.                   *)
NotifyAllCall(f, next) ==
    /\ cvq' = <<>>
    /\ cvtimer' = Cancelled(cvq)
    /\ squeue' = Resume(FoldLeft(WakeWaiter, squeue, cvq), f)
    /\ YieldOut(f, next)
    /\ UNCHANGED <<live, requested, disable, sleeping, joinq, joinee, ops, mvars>>

(* The steps of a fiber inside a wait, and the parts of mutex::lock/unlock *)
(* and of the entry's return that the callers go through.                  *)
CvWaitStep(f) ==
    \/ WaitUnlock(f) \/ WaitPause(f) \/ WaitRelock(f) \/ WaitReturn(f) \/ UnwindUnlock(f)
    \/ (LockPause(f) \/ LockReturns(f) \/ UnlockYield(f) \/ MutexReturns(f))
          /\ UNCHANGED cvvars

CvHandlerStep(s) ==
    \/ HandlerStep(s) /\ UNCHANGED cvvars
    \/ RunCvTimeout(s)

-----------------------------------------------------------------------------
(* Properties, for the modules of the condition's users.                   *)

\* Every suspended fiber has exactly one pending wake-up and none ever has
\* two, counting the condition's: a waiter popped by notify_one/notify_all
\* is resumed directly or through its cancelled timer, never both, and a
\* timeout_handler that fires first takes it out of suspended_ so no later
\* notify resumes it again.  The waiter is queued before it releases the
\* mutex and pauses, so a notify in between is owed, not lost.
CvSingleWakeup == \A f \in Fibers : CvWakeups(f) = CvOwed(f)

\* When wait()/wait_rel() returns normally the caller holds the mutex again
\* and its entry in suspended_ is gone (the spec's guarantee 4), whatever
\* notify, timeout and handoff raced with the relock.
WaitReturnsLocked ==
    \A f \in Fibers :
        pc[f] = "wait_return" =>
            /\ owner = f /\ held[f] = 1
            /\ \A i \in 1..Len(cvq) : cvq[i].fib # f

\* An interruption raised at a wait propagates up the stack, running the
\* destructors (the spec's cancellation contract): no fiber ends in
\* std::terminate.
NoTerminate == \A f \in Fibers : pc[f] # "terminate"

=============================================================================
