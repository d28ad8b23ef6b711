----------------------------- MODULE CvClients -----------------------------
(***************************************************************************)
(* The predicate loop condition_variable is made for, run by fibers over   *)
(* one mutex and one condition (CondVar): a waiter locks, waits (wait or   *)
(* wait_for) while `ready` is false, and unlocks; a notifier locks, sets   *)
(* `ready`, notifies every waiter (one notify_all or one notify_one per    *)
(* waiter) and unlocks, before, between or after notifying, or hands its   *)
(* lock to notify_all_at_thread_exit.  wait_rel's    *)
(* cv_status result is not modelled: the loop re-tests the predicate       *)
(* whatever it is.                                                         *)
(***************************************************************************)
EXTENDS CondVar

CONSTANTS
    Waiters,    \* fibers running the waiting loop
    Notifiers   \* fibers setting the predicate and notifying

ASSUME Waiters \cup Notifiers = Fibers /\ Waiters \cap Notifiers = {}

VARIABLES
    ready,      \* the predicate the clients protect with the mutex
    notifies    \* notifications a notifier still has to make

clientvars == <<ready, notifies>>
allvars == <<vars, cvvars, clientvars>>

NotifierPCs == {"set", "n_notify", "n_atexit", "n_exit_notify"}

ClientTypeOK ==
    /\ RuntimeTypeOK
    /\ pc \in [Fibers -> MutexPCs \cup CvPCs \cup NotifierPCs]
    /\ cont \in [Fibers -> MutexPCs \cup CvPCs \cup NotifierPCs]
    /\ owner \in Fibers \cup {NoFiber}
    /\ level \in 0..MaxDepth
    /\ suspended \in Seq(Waiter)
    /\ held \in [Fibers -> 0..1]
    /\ CvVarsOK
    /\ ready \in BOOLEAN
    /\ notifies \in [Fibers -> 0..Cardinality(Waiters)]

ClientInit ==
    /\ CvInit
    /\ ready = FALSE
    /\ notifies = [f \in Fibers |-> IF f \in Notifiers THEN Cardinality(Waiters) ELSE 0]

(* Both loops start by locking the mutex.                                  *)
ClientLock(f) ==
    /\ Running(f) /\ pc[f] = "idle" /\ ops[f] > 0
    /\ ops' = [ops EXCEPT ![f] = @ - 1]
    /\ LockCall(f, IF f \in Waiters THEN "check" ELSE "set")
    /\ UNCHANGED <<cvvars, clientvars>>

(* The waiter tests the predicate under the mutex; once it holds, the      *)
(* waiter unlocks and is done.                                             *)
CheckReady(f) ==
    /\ Running(f) /\ pc[f] = "check" /\ ready
    /\ UnlockCall(f, "idle")
    /\ UNCHANGED <<ops, cvvars, clientvars>>

(* While it does not, the waiter calls wait() or wait_for().               *)
Wait(f) ==
    /\ Running(f) /\ pc[f] = "check" /\ ~ready
    /\ WaitCall(f, FALSE)
    /\ UNCHANGED clientvars

WaitFor(f) ==
    /\ Running(f) /\ pc[f] = "check" /\ ~ready
    /\ WaitCall(f, TRUE)
    /\ UNCHANGED clientvars

(* The notifier sets the predicate under the mutex.                        *)
SetReady(f) ==
    /\ Running(f) /\ pc[f] = "set"
    /\ ready' = TRUE
    /\ pc' = [pc EXCEPT ![f] = "n_notify"]
    /\ UNCHANGED <<fstate, squeue, busy, live, requested, disable, sleeping, joinq, joinee, ops,
                   mvars, cvvars, notifies>>

\* After a notification the notifier is done once it has made them all and
\* released the mutex.
AfterNotify(f, n) == IF n = 0 /\ held[f] = 0 THEN "idle" ELSE "n_notify"

NotifyOne(f) ==
    /\ Running(f) /\ pc[f] = "n_notify" /\ notifies[f] > 0
    /\ notifies' = [notifies EXCEPT ![f] = @ - 1]
    /\ NotifyOneCall(f, AfterNotify(f, notifies[f] - 1))
    /\ UNCHANGED ready

NotifyAll(f) ==
    /\ Running(f) /\ pc[f] = "n_notify" /\ notifies[f] > 0
    /\ notifies' = [notifies EXCEPT ![f] = 0]
    /\ NotifyAllCall(f, AfterNotify(f, 0))
    /\ UNCHANGED ready

(* notify_all_at_thread_exit(cv, lk) with the notifier's lock: under the  *)
(* fiber's mtx_, a cleanup_handler owning lk goes on cleanup_queue_, and   *)
(* the entry returns with the mutex still locked.                          *)
NotifyAtExit(f) ==
    /\ Running(f) /\ pc[f] = "n_notify" /\ notifies[f] > 0 /\ held[f] > 0
    /\ notifies' = [notifies EXCEPT ![f] = 0]
    /\ pc' = [pc EXCEPT ![f] = "n_atexit"]
    /\ UNCHANGED <<fstate, squeue, busy, live, requested, disable, sleeping, joinq, joinee, ops,
                   mvars, cvvars, ready>>

(* runner_wrapper's cleaner runs the cleanup_handler before the coroutine  *)
(* yields STOPPED: l_.unlock(), a full mutex::unlock() that may hand the   *)
(* mutex over and yield, then notify_all(), which yields too.              *)
ExitUnlock(f) ==
    /\ Running(f) /\ pc[f] = "n_atexit"
    /\ UnlockCall(f, "n_exit_notify")
    /\ UNCHANGED <<ops, cvvars, clientvars>>

ExitNotifyAll(f) ==
    /\ Running(f) /\ pc[f] = "n_exit_notify"
    /\ NotifyAllCall(f, "idle")
    /\ UNCHANGED clientvars

(* The notifier unlocks, before, between or after its notifications.       *)
NotifierUnlock(f) ==
    /\ Running(f) /\ pc[f] = "n_notify" /\ held[f] > 0
    /\ UnlockCall(f, IF notifies[f] = 0 THEN "idle" ELSE "n_notify")
    /\ UNCHANGED <<ops, cvvars, clientvars>>

ClientStep(f) ==
    \/ ClientLock(f) \/ CheckReady(f) \/ Wait(f) \/ WaitFor(f) \/ SetReady(f)
    \/ NotifyOne(f) \/ NotifyAll(f) \/ NotifierUnlock(f)
    \/ NotifyAtExit(f) \/ ExitUnlock(f) \/ ExitNotifyAll(f)
    \/ CvWaitStep(f) /\ UNCHANGED clientvars

\* Every fiber has stopped, or is stuck in std::terminate (which ends the
\* process); every strand is drained.
ClientsTerminated ==
    /\ \A f \in Fibers : fstate[f] = "STOPPED" /\ cvtimer[f] = "idle"
    /\ \A s \in Strands : squeue[s] = <<>>
    /\ UNCHANGED allvars

ClientHandlerStep(s) == CvHandlerStep(s) /\ UNCHANGED clientvars

ClientTimerStep(f) == CvTimerExpires(f) /\ UNCHANGED clientvars

ClientNext ==
    \/ \E s \in Strands : ClientHandlerStep(s)
    \/ \E f \in Fibers : ClientStep(f) \/ ClientTimerStep(f)
    \/ \E f \in Fibers : Interrupt(f) /\ UNCHANGED <<mvars, cvvars, clientvars>>
    \/ ClientsTerminated

(* As in GreenMutex: running fibers continue, strands with queued          *)
(* handlers are served, armed timers expire.                               *)
ClientFairness ==
    /\ \A f \in Fibers : WF_allvars(ClientStep(f)) /\ WF_allvars(ClientTimerStep(f))
    /\ \A s \in Strands : SF_allvars(ClientHandlerStep(s))

ClientSpec == ClientInit /\ [][ClientNext]_allvars /\ ClientFairness

=============================================================================
