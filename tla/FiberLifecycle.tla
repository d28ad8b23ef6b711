--------------------------- MODULE FiberLifecycle ---------------------------
(***************************************************************************)
(* The life of a thread_object (src/src/thread_object.cpp) as seen through *)
(* the thread handles that own it: the handle's join(propagate) (join or   *)
(* join_and_rethrow), detach() and interrupt(), the entry's own exceptions *)
(* captured in uncaught_exception_, the at_thread_exit cleanup queue run   *)
(* by runner_wrapper's cleaner, the self reference this_ref_ that a        *)
(* detached fiber holds until scheduler_object::on_thread_exit drops it,   *)
(* and ~thread_object, which calls std::terminate for a fiber that has not *)
(* stopped or still holds an exception.                                    *)
(*                                                                         *)
(* Every fiber's handle (a thread object, movable and not copyable) is     *)
(* held by one owner: another fiber, whose entry declared it as a local,   *)
(* or main, which holds the root fiber's handle in greenify until          *)
(* scheduler::join() returns.  A thread_object is destroyed when the last  *)
(* shared_ptr to it goes; the owners of those pointers are listed in       *)
(* Referenced.                                                             *)
(***************************************************************************)
EXTENDS FiberRuntime

CONSTANTS
    Main,       \* the OS thread that runs greenify
    Owner,      \* Owner[g]: the fiber, or Main, that holds g's handle
    Throwers,   \* fibers whose entry may throw an exception of its own
    Catching,   \* fibers whose entry catches every exception at its top level
    JoinModes,  \* the propagate_exception arguments the owners pass to join()
    Reactors    \* fibers whose entry calls reactor operations with the yield token

ASSUME Main \notin Fibers
ASSUME Owner \in [Fibers -> Fibers \cup {Main}] /\ \A g \in Fibers : Owner[g] # g
ASSUME Throwers \subseteq Fibers /\ Catching \subseteq Fibers
ASSUME JoinModes \subseteq BOOLEAN /\ JoinModes # {}
ASSUME Reactors \subseteq Fibers

VARIABLES
    handle,     \* thread::impl_ of g's handle is set
    thisref,    \* this_ref_
    uncaught,   \* uncaught_exception_ holds an exception
    cleanup,    \* the functions at_thread_exit has put on cleanup_queue_
    jmode,      \* the propagate_exception argument of the join a fiber is in
    aop,        \* the reactor operation a fiber started with the yield token
    aout        \* that operation's yield_t carries an error_code out-parameter

lifevars == <<handle, thisref, uncaught, cleanup, jmode, aop, aout>>
allvars == <<rtvars, ops, lifevars>>

\* The fibers whose handles f's entry holds as locals.
Children(f) == {g \in Fibers : Owner[g] = f}

LifePCs == {"idle", "sleep_wait", "async_pause", "async_wait", "join_pause", "join_wait", "unwind", "done"}

LifeTypeOK ==
    /\ RuntimeTypeOK
    /\ pc \in [Fibers -> LifePCs]
    /\ handle \in [Fibers -> BOOLEAN]
    /\ thisref \in [Fibers -> BOOLEAN]
    /\ uncaught \in [Fibers -> BOOLEAN]
    /\ cleanup \in [Fibers -> 0..Ops]
    /\ jmode \in [Fibers -> BOOLEAN]
    /\ aop \in [Fibers -> {"none", "pending", "ok", "error"}]
    /\ aout \in [Fibers -> BOOLEAN]

(* Every fiber has been made (thread::start -> make_thread) and its handle *)
(* is held by its owner.                                                   *)
LifeInit ==
    /\ RuntimeInit
    /\ handle = [g \in Fibers |-> TRUE]
    /\ thisref = [g \in Fibers |-> FALSE]
    /\ uncaught = [g \in Fibers |-> FALSE]
    /\ cleanup = [g \in Fibers |-> 0]
    /\ jmode = [g \in Fibers |-> FALSE]
    /\ aop = [g \in Fibers |-> "none"]
    /\ aout = [g \in Fibers |-> FALSE]

\* The holders of a thread_ptr_t to g: its handle, this_ref_, the bound
\* arguments of the handlers posted to a strand (activate_thread,
\* on_thread_exit, thread_object::detach), the argument of the
\* activate_thread running it, its sleep timer's handler, the activate()
\* bound into a join queue, the thread_ptr_t argument of a pending join
\* on g, and the thread_ of a yield_handler not yet invoked.
Referenced(g) ==
    \/ handle[g] \/ thisref[g]
    \/ \E s \in Strands : busy[s] = g \/ \E i \in 1..Len(squeue[s]) : squeue[s][i].fib = g
    \/ g \in sleeping \/ aop[g] = "pending"
    \/ \E h \in Fibers : g \in Range(joinq[h]) \/ joinee[h] = g

\* ~thread_object: the last reference has gone while the fiber has not
\* stopped, or with an exception no joiner took, and std::terminate is
\* called.
Aborted == \E g \in Fibers : ~Referenced(g) /\ (fstate[g] # "STOPPED" \/ uncaught[g])

-----------------------------------------------------------------------------
(* The entry's operations.                                                 *)

MayAct(f) == Running(f) /\ pc[f] = "idle" /\ ops[f] > 0

Spend(f) == ops' = [ops EXCEPT ![f] = @ - 1]

(* propagate_exception(g), called by join_and_rethrow: swap the exception  *)
(* out of g and rethrow it in the joiner.  A plain join leaves it there.   *)
Propagate(f, g, rethrow) ==
    IF rethrow /\ uncaught[g]
    THEN /\ uncaught' = [uncaught EXCEPT ![g] = FALSE]
         /\ pc' = [pc EXCEPT ![f] = "unwind"]
    ELSE /\ pc' = [pc EXCEPT ![f] = "idle"]
         /\ UNCHANGED uncaught

\* Mutant of JoinCall: the joiner also resumes itself before pausing.
JoinCallSelfResume(f, g, rethrow) ==
    /\ MayAct(f) /\ g \in Children(f) /\ handle[g]
    /\ Spend(f)
    /\ IF fstate[g] = "STOPPED"
       THEN Propagate(f, g, rethrow) /\ UNCHANGED <<squeue, joinq, joinee, jmode>>
       ELSE /\ joinq' = [joinq EXCEPT ![g] = Append(@, f)]
            /\ joinee' = [joinee EXCEPT ![f] = g]
            /\ jmode' = [jmode EXCEPT ![f] = rethrow]
            /\ pc' = [pc EXCEPT ![f] = "join_pause"]
            /\ squeue' = Resume(squeue, f)
            /\ UNCHANGED uncaught
    /\ UNCHANGED <<fstate, busy, live, requested, disable, sleeping, handle, thisref, cleanup,
                   aop, aout>>

(* thread::join(propagate) on the handle of g: impl_ is set and not the    *)
(* caller, and both run on one scheduler, so join_and_rethrow or join is   *)
(* called.  Under g's mtx_: a STOPPED g returns at once (join_and_rethrow  *)
(* propagates first); otherwise an activate() of the joiner goes on g's    *)
(* join queue and the joiner pauses.  join does not reset impl_.           *)
JoinCall(f, g, rethrow) ==
    /\ MayAct(f) /\ g \in Children(f) /\ handle[g]
    /\ Spend(f)
    /\ IF fstate[g] = "STOPPED"
       THEN Propagate(f, g, rethrow) /\ UNCHANGED <<joinq, joinee, jmode>>
       ELSE /\ joinq' = [joinq EXCEPT ![g] = Append(@, f)]
            /\ joinee' = [joinee EXCEPT ![f] = g]
            /\ jmode' = [jmode EXCEPT ![f] = rethrow]
            /\ pc' = [pc EXCEPT ![f] = "join_pause"]
            /\ UNCHANGED uncaught
    /\ UNCHANGED <<fstate, squeue, busy, live, requested, disable, sleeping, handle, thisref,
                   cleanup, aop, aout>>

(* Back from the pause() of the join: pause() throws thread_interrupted    *)
(* on a pending interrupt, before join_and_rethrow reaches                 *)
(* propagate_exception; otherwise join_and_rethrow propagates.             *)
JoinReturns(f) ==
    /\ Running(f) /\ pc[f] = "join_wait"
    /\ IF Interrupted(f)
       THEN pc' = [pc EXCEPT ![f] = "unwind"] /\ UNCHANGED uncaught
       ELSE Propagate(f, joinee[f], jmode[f])
    /\ joinee' = [joinee EXCEPT ![f] = NoFiber]
    /\ UNCHANGED <<fstate, squeue, busy, live, requested, disable, sleeping, joinq, ops, handle,
                   thisref, cleanup, jmode, aop, aout>>

(* thread::detach() on the handle of g: post thread_object::detach, bound  *)
(* to impl_, to g's strand, then reset impl_.                              *)
DetachCall(f, g) ==
    /\ MayAct(f) /\ g \in Children(f) /\ handle[g]
    /\ Spend(f)
    /\ squeue' = Post(squeue, StrandOf[g], [kind |-> "detach", fib |-> g])
    /\ handle' = [handle EXCEPT ![g] = FALSE]
    /\ UNCHANGED <<fstate, pc, busy, live, requested, disable, sleeping, joinq, joinee, thisref,
                   uncaught, cleanup, jmode, aop, aout>>

(* thread::interrupt() on the handle of g (FiberRuntime's Interrupt, which *)
(* happens at most once to each target and so needs no operation budget).  *)
InterruptCall(f, g) ==
    /\ MayAct(f) /\ g \in Children(f) /\ handle[g]
    /\ Interrupt(g)
    /\ UNCHANGED lifevars

(* this_thread::at_thread_exit(fn): under mtx_, fn goes on cleanup_queue_. *)
AtThreadExit(f) ==
    /\ MayAct(f)
    /\ Spend(f)
    /\ cleanup' = [cleanup EXCEPT ![f] = @ + 1]
    /\ UNCHANGED <<rtvars, handle, thisref, uncaught, jmode, aop, aout>>

(* A reactor operation started with the yield token (asio::yield or       *)
(* yield[ec]): the yield_handler takes get_current_thread_ptr(), and       *)
(* async_result points the handler's ec_ at its own ec_ when the token has *)
(* no out-parameter.  The operation is under way; get() has not yet        *)
(* paused.                                                                 *)
AsyncCall(f) ==
    /\ MayAct(f) /\ f \in Reactors
    /\ Spend(f)
    /\ \E out \in BOOLEAN : aout' = [aout EXCEPT ![f] = out]
    /\ aop' = [aop EXCEPT ![f] = "pending"]
    /\ pc' = [pc EXCEPT ![f] = "async_pause"]
    /\ UNCHANGED <<fstate, squeue, busy, live, requested, disable, sleeping, joinq, joinee,
                   handle, thisref, uncaught, cleanup, jmode>>

(* async_result::get(): pause().                                           *)
AsyncPause(f) ==
    /\ Running(f) /\ pc[f] = "async_pause"
    /\ Pause(f, "async_wait")
    /\ UNCHANGED <<squeue, live, requested, disable, sleeping, joinq, joinee, ops, lifevars>>

(* The operation completes, successfully or not, and the reactor invokes   *)
(* the yield_handler on an io thread: *ec_ and *value_ are stored, then    *)
(* thread_->activate(), which runs no fiber there and so posts             *)
(* activate_thread to the fiber's strand, where it runs only once the     *)
(* fiber has paused.                                                       *)
AsyncCompletes(f) ==
    /\ aop[f] = "pending"
    /\ \E ec \in {"ok", "error"} : aop' = [aop EXCEPT ![f] = ec]
    /\ squeue' = Resume(squeue, f)
    /\ UNCHANGED <<fstate, pc, busy, live, requested, disable, sleeping, joinq, joinee, ops,
                   handle, thisref, uncaught, cleanup, jmode, aout>>

(* Back from get()'s pause(): pause() throws thread_interrupted on a       *)
(* pending interrupt; otherwise get() throws system_error when the         *)
(* operation failed and the token had no out-parameter, and returns the    *)
(* value otherwise.                                                        *)
AsyncReturns(f) ==
    /\ Running(f) /\ pc[f] = "async_wait"
    /\ pc' = [pc EXCEPT ![f] = IF Interrupted(f) \/ (aop[f] = "error" /\ ~aout[f])
                                THEN "unwind" ELSE "idle"]
    /\ aop' = [aop EXCEPT ![f] = "none"]
    /\ UNCHANGED <<fstate, squeue, busy, live, requested, disable, sleeping, joinq, joinee, ops,
                   handle, thisref, uncaught, cleanup, jmode, aout>>

(* The entry throws an exception of its own.                               *)
Throw(f) ==
    /\ MayAct(f) /\ f \in Throwers
    /\ Spend(f)
    /\ pc' = [pc EXCEPT ![f] = "unwind"]
    /\ UNCHANGED <<fstate, squeue, busy, live, requested, disable, sleeping, joinq, joinee,
                   lifevars>>

(* The entry returns, or an exception leaves it, the handles it holds      *)
(* being destroyed on the way.  runner_wrapper's cleaner then swaps the    *)
(* cleanup queue out under mtx_ and calls every function; an exception     *)
(* not caught by the entry lands in uncaught_exception_; the coroutine     *)
(* yields STOPPED and one_step() wakes the joiners (Finish).               *)
EntryReturns(f) ==
    /\ Running(f)
    /\ \/ pc[f] = "idle" /\ ops[f] = 0
       \/ pc[f] = "unwind"
    /\ handle' = [g \in Fibers |-> IF g \in Children(f) THEN FALSE ELSE handle[g]]
    /\ cleanup' = [cleanup EXCEPT ![f] = 0]
    /\ uncaught' = [uncaught EXCEPT ![f] = pc[f] = "unwind" /\ f \notin Catching]
    /\ Finish(f)
    /\ UNCHANGED <<live, requested, disable, sleeping, joinee, ops, thisref, jmode, aop, aout>>

-----------------------------------------------------------------------------
(* Handlers run by the strands.                                            *)

\* Mutant of RunDetach: this_ref_ is taken whatever the state.
RunDetachUnchecked(s) ==
    /\ CanRun(s)
    /\ Head(squeue[s]).kind = "detach"
    /\ thisref' = [thisref EXCEPT ![Head(squeue[s]).fib] = TRUE]
    /\ squeue' = [squeue EXCEPT ![s] = Tail(@)]
    /\ UNCHANGED <<fstate, pc, busy, live, requested, disable, sleeping, joinq, joinee, ops,
                   handle, uncaught, cleanup, jmode, aop, aout>>

(* thread_object::detach, run by g's strand: under mtx_, unless g has      *)
(* STOPPED, this_ref_ := shared_from_this().                               *)
RunDetach(s) ==
    /\ CanRun(s)
    /\ Head(squeue[s]).kind = "detach"
    /\ LET g == Head(squeue[s]).fib IN
         thisref' = [thisref EXCEPT ![g] = @ \/ fstate[g] # "STOPPED"]
    /\ squeue' = [squeue EXCEPT ![s] = Tail(@)]
    /\ UNCHANGED <<fstate, pc, busy, live, requested, disable, sleeping, joinq, joinee, ops,
                   handle, uncaught, cleanup, jmode, aop, aout>>

\* Mutant of RunExitRelease: thread_count_ is decremented twice.
RunExitReleaseTwice(s) ==
    /\ CanRun(s)
    /\ Head(squeue[s]).kind = "exit"
    /\ live' = live - 2
    /\ thisref' = [thisref EXCEPT ![Head(squeue[s]).fib] = FALSE]
    /\ squeue' = [squeue EXCEPT ![s] = Tail(@)]
    /\ UNCHANGED <<fstate, pc, busy, requested, disable, sleeping, joinq, joinee, ops, handle,
                   uncaught, cleanup, jmode, aop, aout>>

(* on_thread_exit (FiberRuntime's RunExit) also drops this_ref_.           *)
RunExitRelease(s) ==
    /\ RunExit(s)
    /\ thisref' = [thisref EXCEPT ![Head(squeue[s]).fib] = FALSE]
    /\ UNCHANGED <<handle, uncaught, cleanup, jmode, aop, aout>>

(* greenify: scheduler::join() has returned (every fiber counted out, the  *)
(* strands idle) and the root's handle goes out of scope.                  *)
GreenifyReturns ==
    /\ live = 0
    /\ \A s \in Strands : squeue[s] = <<>>
    /\ \E g \in Children(Main) : handle[g]
    /\ handle' = [g \in Fibers |-> IF g \in Children(Main) THEN FALSE ELSE handle[g]]
    /\ UNCHANGED <<rtvars, ops, thisref, uncaught, cleanup, jmode, aop, aout>>

\* Every fiber has stopped, every strand is drained and every handle is
\* gone: greenify has returned.
LifeTerminated ==
    /\ \A g \in Fibers : fstate[g] = "STOPPED" /\ ~handle[g]
    /\ \A s \in Strands : squeue[s] = <<>>

LifeStep(f) ==
    \/ \E g \in Fibers, r \in JoinModes : JoinCall(f, g, r)
    \/ \E g \in Fibers : DetachCall(f, g) \/ InterruptCall(f, g)
    \/ AtThreadExit(f) \/ Throw(f)
    \/ ClientYield(f) /\ UNCHANGED lifevars
    \/ ClientSleep(f) /\ UNCHANGED lifevars
    \/ JoinPause(f) /\ UNCHANGED lifevars
    \/ pc[f] = "sleep_wait" /\ WaitReturns(f) /\ UNCHANGED lifevars
    \/ JoinReturns(f)
    \/ AsyncCall(f) \/ AsyncPause(f) \/ AsyncReturns(f)
    \/ EntryReturns(f)

LifeHandlerStep(s) ==
    \/ RunActivate(s) /\ UNCHANGED lifevars
    \/ RunDetach(s)
    \/ RunExitRelease(s)

LifeTimerStep(f) ==
    \/ SleepTimerFires(f) /\ UNCHANGED lifevars
    \/ AsyncCompletes(f)

(* std::terminate ends the process; after the last step nothing changes.  *)
Halted == (Aborted \/ LifeTerminated) /\ UNCHANGED allvars

LifeNext ==
    \/ ~Aborted /\ \/ \E s \in Strands : LifeHandlerStep(s)
                   \/ \E f \in Fibers : LifeStep(f) \/ LifeTimerStep(f)
                   \/ GreenifyReturns
    \/ Halted

(* As in Interruption: a running fiber keeps running, a strand with queued *)
(* handlers gets a worker whenever one is free infinitely often, armed     *)
(* timers expire, and main returns from scheduler::join() once it can.     *)
(* Reactor operations are taken to complete (a timer, or I/O the peer      *)
(* answers).                                                               *)
LifeFairness ==
    /\ \A f \in Fibers : WF_allvars(~Aborted /\ LifeStep(f)) /\ WF_allvars(~Aborted /\ LifeTimerStep(f))
    /\ \A s \in Strands : SF_allvars(~Aborted /\ LifeHandlerStep(s))
    /\ WF_allvars(~Aborted /\ GreenifyReturns)

LifeSpec == LifeInit /\ [][LifeNext]_allvars /\ LifeFairness

-----------------------------------------------------------------------------
(* Properties.                                                             *)

\* Every thread_object is eventually released, unless the process has been
\* terminated: a detached fiber's this_ref_ is always dropped by its
\* on_thread_exit, which relies on thread_object::detach, posted by
\* thread::detach to the same strand, taking this_ref_ only while the
\* fiber has not STOPPED; and greenify drops the root's handle once
\* scheduler::join() returns.
LifecycleReleased == <>(Aborted \/ \A g \in Fibers : ~Referenced(g))

\* A fiber runs again after a pause only once the event it waits for has
\* happened, even when that event races the pause on another worker: a
\* joiner once its joinee has stopped and runner_wrapper's cleaner has run
\* every function registered with at_thread_exit (one_step() wakes the
\* join queue only after the coroutine yielded STOPPED), and a caller of
\* async_result::get() once the yield_handler has stored the result.
WokenByItsEvent ==
    \A f \in Fibers :
        /\ pc[f] = "join_wait" /\ fstate[f] = "RUNNING" =>
               fstate[joinee[f]] = "STOPPED" /\ cleanup[joinee[f]] = 0
        /\ pc[f] = "async_wait" /\ fstate[f] = "RUNNING" => aop[f] \in {"ok", "error"}

=============================================================================
