---------------------------- MODULE FiberRuntime ----------------------------
(***************************************************************************)
(* The fiber object (src/src/thread_object.cpp) and the part of the        *)
(* scheduler (src/src/scheduler_object.cpp) that runs fibers: every fiber  *)
(* is bound to a strand, every wake-up is an activate_thread handler       *)
(* posted to that strand, and a pool of Workers OS threads runs strand     *)
(* handlers, at most one per strand at a time.                             *)
(*                                                                         *)
(* A fiber executes between an activate_thread handler and the point where *)
(* its coroutine yields a state back to one_step(): BLOCKED (pause), READY *)
(* (yield) or STOPPED (entry returned).  While it executes, its strand is  *)
(* busy with it; everything it does in between is split into the steps     *)
(* separated by its spinlock sections, so that fibers on other strands     *)
(* interleave with it the way the worker threads do.                       *)
(*                                                                         *)
(* The operators below are the machinery the synchronisation modules       *)
(* (GreenMutex, ...) build on; the module's own client operations are      *)
(* this_thread::yield, sleep_for, thread::join and thread::interrupt,      *)
(* which Interruption puts together, with the interruption scopes, into    *)
(* the specification of fibers that use no synchronisation object.         *)
(***************************************************************************)
EXTENDS Integers, Sequences, FiniteSets, SequencesExt

CONSTANTS
    Fibers,           \* the fibers made by make_thread
    Strands,          \* the strands they are bound to
    StrandOf,         \* thread_strand_ of every fiber
    Workers,          \* threads_.size() of the scheduler
    NoFiber,          \* a null thread_ptr_t
    InterruptTargets, \* fibers some other agent calls thread::interrupt() on
    JoinTargets,      \* JoinTargets[f]: fibers f's entry may join
    Ops               \* client operations each fiber performs before returning

ASSUME StrandOf \in [Fibers -> Strands]
ASSUME Workers \in Nat \ {0}
ASSUME NoFiber \notin Fibers
ASSUME InterruptTargets \subseteq Fibers
ASSUME JoinTargets \in [Fibers -> SUBSET Fibers]
ASSUME Ops \in Nat

VARIABLES
    fstate,    \* state_ of every thread_object
    pc,        \* where each fiber's coroutine is
    squeue,    \* the handlers posted to each strand and not yet run
    busy,      \* the fiber whose one_step a strand is running, or NoFiber
    live,      \* scheduler_object::thread_count_
    requested, disable, \* interrupt_requested_
    sleeping,  \* fibers whose sleep_rel timer is armed
    joinq,     \* join_queue_ of every fiber: the joiners to activate
    joinee,    \* the argument of the join a fiber is in, or NoFiber
    ops        \* client operations each fiber has left

rtvars == <<fstate, pc, squeue, busy, live, requested, disable, sleeping, joinq, joinee>>

States == {"READY", "RUNNING", "BLOCKED", "STOPPED"}

\* The handlers a strand runs: activate_thread, scheduler_object::
\* on_thread_exit, thread_object::detach, and the strand-wrapped timer
\* handlers of the mutexes ("timeout") and of condition_variable::wait_rel,
\* which completes either by expiry or cancelled by a notify.
Handlers == [kind : {"activate", "exit", "detach", "timeout", "cv_expired", "cv_cancelled"},
             fib : Fibers]

Activation(f) == [kind |-> "activate", fib |-> f]

\* strand::post: append a handler to the strand's queue.
Post(q, s, h) == [q EXCEPT ![s] = Append(@, h)]

\* thread_object::resume(): post activate_thread(f) to f's strand.
Resume(q, f) == Post(q, StrandOf[f], Activation(f))

\* resume() every fiber of a sequence, in order.
ResumeAll(q, fs) == FoldLeft(LAMBDA acc, g : Resume(acc, g), q, fs)

\* The fiber's coroutine is executing on a worker.
Running(f) == fstate[f] = "RUNNING" /\ busy[StrandOf[f]] = f

\* A worker thread is free to run a handler.
WorkerFree == Cardinality({s \in Strands : busy[s] # NoFiber}) < Workers

\* A strand can start its next handler.
CanRun(s) == busy[s] = NoFiber /\ squeue[s] # <<>> /\ WorkerFree

\* The interruption check pause() makes once it is resumed: a request and
\* interruption enabled (disable level 0).
Interrupted(f) == requested[f] /\ disable[f] = 0

Occurrences(seq, e) == Cardinality({i \in 1..Len(seq) : seq[i] = e})

\* The activations already posted for f and not yet run.
Posted(f) == MapThenSumSet(LAMBDA s : Occurrences(squeue[s], Activation(f)), Strands)

\* The wake-ups f will get from this module's own waits: a posted
\* activation, an armed sleep timer, a place in some join queue.
RuntimeWakeups(f) ==
    Posted(f) + (IF f \in sleeping THEN 1 ELSE 0)
      + MapThenSumSet(LAMBDA g : Occurrences(joinq[g], f), Fibers)

RuntimeTypeOK ==
    /\ fstate \in [Fibers -> States]
    /\ squeue \in [Strands -> Seq(Handlers)]
    /\ busy \in [Strands -> Fibers \cup {NoFiber}]
    /\ live \in 0..Cardinality(Fibers)
    /\ requested \in [Fibers -> BOOLEAN]
    /\ disable \in [Fibers -> Nat]
    /\ sleeping \subseteq Fibers
    /\ joinq \in [Fibers -> Seq(Fibers)]
    /\ joinee \in [Fibers -> Fibers \cup {NoFiber}]
    /\ ops \in [Fibers -> 0..Ops]

-----------------------------------------------------------------------------
(* Initial state: make_thread has run for every fiber: thread_count_ was   *)
(* incremented, the thread_object built READY, and resume() posted its     *)
(* first activation.                                                       *)

RuntimeInit ==
    /\ fstate = [f \in Fibers |-> "READY"]
    /\ pc = [f \in Fibers |-> "idle"]
    /\ squeue = [s \in Strands |->
                   SetToSeq({Activation(f) : f \in {g \in Fibers : StrandOf[g] = s}})]
    /\ busy = [s \in Strands |-> NoFiber]
    /\ live = Cardinality(Fibers)
    /\ requested = [f \in Fibers |-> FALSE]
    /\ disable = [f \in Fibers |-> 0]
    /\ sleeping = {}
    /\ joinq = [f \in Fibers |-> <<>>]
    /\ joinee = [f \in Fibers |-> NoFiber]
    /\ ops = [f \in Fibers |-> Ops]

(* one_step() on strand s: READY becomes RUNNING and runner_() enters the  *)
(* coroutine under tls_guard, which keeps the strand busy with f until it  *)
(* yields a state back.                                                    *)
OneStep(s, f) ==
    /\ fstate' = [fstate EXCEPT ![f] = "RUNNING"]
    /\ busy' = [busy EXCEPT ![s] = f]

(* activate_thread(f) run by strand s: state_ := READY, then one_step().   *)
RunActivate(s) ==
    /\ CanRun(s)
    /\ Head(squeue[s]).kind = "activate"
    /\ OneStep(s, Head(squeue[s]).fib)
    /\ squeue' = [squeue EXCEPT ![s] = Tail(@)]
    /\ UNCHANGED <<pc, live, requested, disable, sleeping, joinq, joinee, ops>>

(* scheduler_object::on_thread_exit, posted to the strand by one_step():   *)
(* thread_count_ is decremented under the scheduler mutex.                 *)
RunExit(s) ==
    /\ CanRun(s)
    /\ Head(squeue[s]).kind = "exit"
    /\ live' = live - 1
    /\ squeue' = [squeue EXCEPT ![s] = Tail(@)]
    /\ UNCHANGED <<fstate, pc, busy, requested, disable, sleeping, joinq, joinee, ops>>

(* pause(): set_state(BLOCKED) switches out of the coroutine; one_step()   *)
(* sees BLOCKED and returns, freeing the strand.  The fiber will continue  *)
(* at waitpc once some agent resumes it.                                   *)
Pause(f, waitpc) ==
    /\ fstate' = [fstate EXCEPT ![f] = "BLOCKED"]
    /\ busy' = [busy EXCEPT ![StrandOf[f]] = NoFiber]
    /\ pc' = [pc EXCEPT ![f] = waitpc]

(* The condition under which thread_object::yield(hint) really yields:     *)
(* one worker, more than twice as many live fibers as workers, a hint      *)
(* sharing this fiber's strand, or no hint at all.                         *)
TakesYield(f, hint) ==
    \/ Workers = 1
    \/ live > 2 * Workers
    \/ hint = NoFiber
    \/ StrandOf[hint] = StrandOf[f]

(* set_state(READY) switches out of the coroutine; one_step() sees READY   *)
(* and calls resume(), posting a fresh activation behind the handlers      *)
(* already queued on the strand.                                           *)
YieldOut(f, nextpc) ==
    /\ fstate' = [fstate EXCEPT ![f] = "READY"]
    /\ busy' = [busy EXCEPT ![StrandOf[f]] = NoFiber]
    /\ pc' = [pc EXCEPT ![f] = nextpc]

\* Mutant of Finish: the joiners are activated but join_queue_ is not
\* swapped out, so they stay registered.
FinishKeepsJoinQueue(f) ==
    /\ fstate' = [fstate EXCEPT ![f] = "STOPPED"]
    /\ busy' = [busy EXCEPT ![StrandOf[f]] = NoFiber]
    /\ squeue' = Post(ResumeAll(squeue, joinq[f]), StrandOf[f],
                      [kind |-> "exit", fib |-> f])
    /\ UNCHANGED joinq
    /\ pc' = [pc EXCEPT ![f] = "done"]

\* Mutant of Finish: on_thread_exit is never posted.
FinishWithoutExit(f) ==
    /\ fstate' = [fstate EXCEPT ![f] = "STOPPED"]
    /\ busy' = [busy EXCEPT ![StrandOf[f]] = NoFiber]
    /\ squeue' = ResumeAll(squeue, joinq[f])
    /\ joinq' = [joinq EXCEPT ![f] = <<>>]
    /\ pc' = [pc EXCEPT ![f] = "done"]

(* The entry returned (or threw, the exception going to                    *)
(* uncaught_exception_): runner_wrapper's cleaner ran the empty cleanup    *)
(* queue, the coroutine yields STOPPED, and one_step() swaps out the join  *)
(* queue under mtx_, activates every joiner and posts on_thread_exit.  No  *)
(* joiner here runs on the stopping fiber's coroutine, so activate()       *)
(* finds no current fiber and takes the resume() path.                     *)
Finish(f) ==
    /\ fstate' = [fstate EXCEPT ![f] = "STOPPED"]
    /\ busy' = [busy EXCEPT ![StrandOf[f]] = NoFiber]
    /\ squeue' = Post(ResumeAll(squeue, joinq[f]), StrandOf[f],
                      [kind |-> "exit", fib |-> f])
    /\ joinq' = [joinq EXCEPT ![f] = <<>>]
    /\ pc' = [pc EXCEPT ![f] = "done"]

(* thread::interrupt(): under the target's mtx_, interrupt_requested_ is   *)
(* set when its disable level is 0, and the call does nothing otherwise.   *)
(* The flag is never cleared.                                              *)
Interrupt(f) ==
    /\ f \in InterruptTargets
    /\ ~requested[f]
    /\ requested' = [requested EXCEPT ![f] = disable[f] = 0]
    /\ UNCHANGED <<fstate, pc, squeue, busy, live, disable, sleeping, joinq, joinee, ops>>

-----------------------------------------------------------------------------
(* The module's own client operations.                                     *)

(* this_thread::yield(): thread_object::yield() with no hint always        *)
(* yields.                                                                 *)
ClientYield(f) ==
    /\ Running(f) /\ pc[f] = "idle" /\ ops[f] > 0
    /\ YieldOut(f, "idle")
    /\ squeue' = Resume(squeue, f)
    /\ ops' = [ops EXCEPT ![f] = @ - 1]
    /\ UNCHANGED <<live, requested, disable, sleeping, joinq, joinee>>

(* sleep_rel(d), d > 0: a timer whose handler is activate() is armed, then *)
(* the fiber pauses.                                                       *)
ClientSleep(f) ==
    /\ Running(f) /\ pc[f] = "idle" /\ ops[f] > 0
    /\ sleeping' = sleeping \cup {f}
    /\ Pause(f, "sleep_wait")
    /\ ops' = [ops EXCEPT ![f] = @ - 1]
    /\ UNCHANGED <<squeue, live, requested, disable, joinq, joinee>>

(* The sleep timer expires.  Its handler calls activate() on an io thread  *)
(* that runs no fiber, so it posts activate_thread to the fiber's strand.  *)
SleepTimerFires(f) ==
    /\ f \in sleeping
    /\ sleeping' = sleeping \ {f}
    /\ squeue' = Resume(squeue, f)
    /\ UNCHANGED <<fstate, pc, busy, live, requested, disable, joinq, joinee, ops>>

\* Mutant of ClientJoin: the joiner also resumes itself before pausing, as
\* yield() would.
ClientJoinSelfResume(f) ==
    /\ Running(f) /\ pc[f] = "idle" /\ ops[f] > 0
    /\ \E g \in JoinTargets[f] \ {f} :
         IF fstate[g] = "STOPPED"
         THEN UNCHANGED <<pc, joinq, joinee, squeue>>
         ELSE /\ joinq' = [joinq EXCEPT ![g] = Append(@, f)]
              /\ joinee' = [joinee EXCEPT ![f] = g]
              /\ pc' = [pc EXCEPT ![f] = "join_pause"]
              /\ squeue' = Resume(squeue, f)
    /\ ops' = [ops EXCEPT ![f] = @ - 1]
    /\ UNCHANGED <<fstate, busy, live, requested, disable, sleeping>>

(* thread_object::join(g): under g's mtx_, return at once if g is STOPPED, *)
(* otherwise queue an activate of this fiber on g's join queue, release    *)
(* g's mtx_ and pause.                                                     *)
ClientJoin(f) ==
    /\ Running(f) /\ pc[f] = "idle" /\ ops[f] > 0
    /\ \E g \in JoinTargets[f] \ {f} :
         IF fstate[g] = "STOPPED"
         THEN UNCHANGED <<pc, joinq, joinee>>
         ELSE /\ joinq' = [joinq EXCEPT ![g] = Append(@, f)]
              /\ joinee' = [joinee EXCEPT ![f] = g]
              /\ pc' = [pc EXCEPT ![f] = "join_pause"]
    /\ ops' = [ops EXCEPT ![f] = @ - 1]
    /\ UNCHANGED <<fstate, squeue, busy, live, requested, disable, sleeping>>

JoinPause(f) ==
    /\ Running(f) /\ pc[f] = "join_pause"
    /\ Pause(f, "join_wait")
    /\ UNCHANGED <<squeue, live, requested, disable, sleeping, joinq, joinee, ops>>

(* Back from the pause() of sleep_rel or join: pause() throws              *)
(* thread_interrupted if an interrupt was requested and interruption is   *)
(* enabled, and the exception unwinds the entry; otherwise the call       *)
(* returns.                                                                *)
WaitReturns(f) ==
    /\ Running(f) /\ pc[f] \in {"sleep_wait", "join_wait"}
    /\ pc' = [pc EXCEPT ![f] = IF Interrupted(f) THEN "unwind" ELSE "idle"]
    /\ joinee' = [joinee EXCEPT ![f] = NoFiber]
    /\ UNCHANGED <<fstate, squeue, busy, live, requested, disable, sleeping, joinq, ops>>

(* The entry returns when its operations are done, or unwinds.             *)
ClientReturns(f) ==
    /\ Running(f)
    /\ \/ pc[f] = "idle" /\ ops[f] = 0
       \/ pc[f] = "unwind"
    /\ Finish(f)
    /\ UNCHANGED <<live, requested, disable, sleeping, joinee, ops>>

(* Every fiber has stopped and every strand is drained: the heartbeat      *)
(* timer finds thread_count_ = 0 and stops the reactor.                    *)
RuntimeTerminated ==
    /\ \A f \in Fibers : fstate[f] = "STOPPED"
    /\ \A s \in Strands : squeue[s] = <<>>
    /\ UNCHANGED <<rtvars, ops>>

-----------------------------------------------------------------------------
(* Properties.                                                             *)

\* Every fiber that is suspended has exactly one pending wake-up, and no
\* fiber ever has two: a second activate_thread would re-enter a coroutine
\* that is not waiting for it (running a READY fiber's code early, or a
\* STOPPED fiber's finished coroutine), and a BLOCKED fiber with none is
\* parked forever.  Join queues, sleep timers and strand posts are the
\* wake-up sources of thread_object::join, sleep_rel and yield.
RuntimeSingleWakeup ==
    \A f \in Fibers :
        /\ RuntimeWakeups(f) <= 1
        /\ fstate[f] \in {"BLOCKED", "READY"} => RuntimeWakeups(f) = 1

\* A fiber that paused in thread_object::join(g) runs again only once g has
\* stopped: the only activation it can get is the one g's one_step() posts
\* after the coroutine yielded STOPPED, even when the joiner was
\* interrupted meanwhile and when joiner and joinee share a strand.
JoinReturnsAfterJoinee ==
    \A f \in Fibers :
        pc[f] = "join_wait" /\ fstate[f] = "RUNNING" => fstate[joinee[f]] = "STOPPED"

\* Every fiber eventually stops and every on_thread_exit has run, so the
\* scheduler's heartbeat sees thread_count_ = 0 and scheduler::join returns.
RuntimeTermination == <>(\A f \in Fibers : fstate[f] = "STOPPED" /\ live = 0)

=============================================================================
