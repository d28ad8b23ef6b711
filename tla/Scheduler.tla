----------------------------- MODULE Scheduler -----------------------------
(***************************************************************************)
(* scheduler_object (src/src/scheduler_object.cpp): the live-fiber count   *)
(* thread_count_, the started_ flag, the worker threads running the        *)
(* io_service, the 50 ms heartbeat timer on_check_timer, and the join()    *)
(* that waits on cv_ and then joins the workers.                           *)
(*                                                                         *)
(* An OS thread that is not a fiber (main) runs one of the Programs: a     *)
(* sequence of make_thread, start, add_thread and join calls, such as     *)
(* greenify's start, make_thread, join.  A fiber's own execution is        *)
(* abstracted to one activation, in which it makes its Children (thread    *)
(* started from inside a fiber calls make_thread of its scheduler) and     *)
(* returns; its stopping posts on_thread_exit.  FiberRuntime models what   *)
(* happens inside a fiber.                                                 *)
(***************************************************************************)
EXTENDS Naturals, Sequences, FiniteSets

CONSTANTS
    Fibers,         \* the fibers the program can make
    Children,       \* Children[f]: the fibers f makes while it runs
    Programs,       \* the call sequences the main thread may run
    StartThreads,   \* the nthr of start() and add_worker_thread()
    MaxWorkers      \* a bound on threads_.size()

Calls == [op : {"start", "add", "join"}] \cup [op : {"make"}, fib : Fibers]

\* Every fiber is made once: by main or by one parent.
ASSUME Children \in [Fibers -> SUBSET Fibers]
ASSUME \A f, g \in Fibers : f # g => Children[f] \cap Children[g] = {}
ASSUME Programs \subseteq Seq(Calls)
ASSUME StartThreads \in Nat \ {0} /\ MaxWorkers \in Nat

VARIABLES
    prog,      \* the program main runs
    mpc,       \* the index of main's current call
    jstage,    \* where main is inside scheduler::join()
    fst,       \* each fiber: not made, activation queued, exit queued, done
    count,     \* thread_count_
    started,   \* started_
    workers,   \* threads_.size()
    stopped,   \* io_service_ has been stopped and not yet reset
    timer      \* check_timer has a pending wait

vars == <<prog, mpc, jstage, fst, count, started, workers, stopped, timer>>

FiberStates == {"none", "queued", "exiting", "done"}

SchedTypeOK ==
    /\ prog \in Programs
    /\ mpc \in 1..Len(prog) + 1
    /\ jstage \in {"none", "wait", "threads"}
    /\ fst \in [Fibers -> FiberStates]
    /\ count \in 0..Cardinality(Fibers)
    /\ started \in BOOLEAN
    /\ workers \in 0..MaxWorkers
    /\ stopped \in BOOLEAN
    /\ timer \in BOOLEAN

(* The scheduler_object constructor: thread_count_(0), started_(false), no *)
(* worker threads, a fresh io_service.                                     *)
SchedInit ==
    /\ prog \in Programs
    /\ mpc = 1
    /\ jstage = "none"
    /\ fst = [f \in Fibers |-> "none"]
    /\ count = 0
    /\ started = FALSE
    /\ workers = 0
    /\ stopped = FALSE
    /\ timer = FALSE

\* main's current call.
Call == prog[mpc]

\* Some worker thread is inside io_service_.run() and runs handlers.
Serving == workers > 0 /\ ~stopped

\* Mutant of MakeThreads: a fiber's make_thread does not count the new
\* fibers.
MakeThreadsUncounted(fs) ==
    /\ count' = count
    /\ started' = (started \/ fs # {})

\* make_thread for each fiber of fs: under mtx_, thread_count_ is
\* incremented, started_ set, and the first activation posted.
MakeThreads(fs) ==
    /\ count' = count + Cardinality(fs)
    /\ started' = (started \/ fs # {})

(* main calls make_thread (thread::start(scheduler&) or the default        *)
(* scheduler's).                                                           *)
MainMake ==
    /\ mpc <= Len(prog) /\ Call.op = "make"
    /\ MakeThreads({Call.fib})
    /\ fst' = [fst EXCEPT ![Call.fib] = "queued"]
    /\ mpc' = mpc + 1
    /\ UNCHANGED <<prog, jstage, workers, stopped, timer>>

(* start(nthr): under mtx_, return if threads_ is not empty; otherwise arm *)
(* the heartbeat and launch nthr threads running io_service_.run().        *)
MainStart ==
    /\ mpc <= Len(prog) /\ Call.op = "start"
    /\ IF workers > 0
       THEN UNCHANGED <<workers, timer>>
       ELSE /\ timer' = TRUE
            /\ workers' = StartThreads
    /\ mpc' = mpc + 1
    /\ UNCHANGED <<prog, jstage, fst, count, started, stopped>>

(* add_thread(nthr): under mtx_, nthr more threads run io_service_.run(). *)
MainAdd ==
    /\ mpc <= Len(prog) /\ Call.op = "add"
    /\ workers + StartThreads <= MaxWorkers
    /\ workers' = workers + StartThreads
    /\ mpc' = mpc + 1
    /\ UNCHANGED <<prog, jstage, fst, count, started, stopped, timer>>

(* join(): under mtx_, `while (started_ && thread_count_>0) cv_.wait()`.   *)
(* Entering the loop, and each wake-up from cv_, re-tests the condition.   *)
JoinCheck ==
    /\ mpc <= Len(prog) /\ Call.op = "join" /\ jstage = "none"
    /\ jstage' = IF started /\ count > 0 THEN "wait" ELSE "threads"
    /\ UNCHANGED <<prog, mpc, fst, count, started, workers, stopped, timer>>

(* Then every worker thread is joined, which returns once io_service_.     *)
(* run() has returned, i.e. once the io_service is stopped; threads_ is    *)
(* cleared, started_ reset and io_service_.reset() called.                 *)
JoinThreads ==
    /\ jstage = "threads"
    /\ stopped \/ workers = 0
    /\ workers' = 0
    /\ started' = FALSE
    /\ stopped' = FALSE
    /\ jstage' = "none"
    /\ mpc' = mpc + 1
    /\ UNCHANGED <<prog, fst, count, timer>>

(* A worker runs a fiber's activation: the fiber runs, makes its children  *)
(* (make_thread of its own scheduler) and returns; one_step then posts     *)
(* on_thread_exit.                                                          *)
RunFiber(f) ==
    /\ Serving /\ fst[f] = "queued"
    /\ MakeThreads(Children[f])
    /\ fst' = [g \in Fibers |-> IF g \in Children[f] THEN "queued"
                                ELSE IF g = f THEN "exiting" ELSE fst[g]]
    /\ UNCHANGED <<prog, mpc, jstage, workers, stopped, timer>>

\* Mutant of RunExit: thread_count_ is decremented twice.
RunExitTwice(f) ==
    /\ Serving /\ fst[f] = "exiting"
    /\ count' = count - 2
    /\ fst' = [fst EXCEPT ![f] = "done"]
    /\ UNCHANGED <<prog, mpc, jstage, started, workers, stopped, timer>>

\* Mutant of RunExit: thread_count_ is not decremented.
RunExitKeepsCount(f) ==
    /\ Serving /\ fst[f] = "exiting"
    /\ fst' = [fst EXCEPT ![f] = "done"]
    /\ UNCHANGED <<prog, mpc, jstage, count, started, workers, stopped, timer>>

(* on_thread_exit, run by a worker: under mtx_, --thread_count_.           *)
RunExit(f) ==
    /\ Serving /\ fst[f] = "exiting"
    /\ count' = count - 1
    /\ fst' = [fst EXCEPT ![f] = "done"]
    /\ UNCHANGED <<prog, mpc, jstage, started, workers, stopped, timer>>

(* on_check_timer, run by a worker when the heartbeat expires: under mtx_, *)
(* re-arm if thread_count_>0 || !started_; otherwise stop the io_service   *)
(* and cv_.notify_one(), which wakes join() if it waits.                   *)
Heartbeat ==
    /\ Serving /\ timer
    /\ IF count > 0 \/ ~started
       THEN UNCHANGED <<jstage, stopped, timer>>
       ELSE /\ stopped' = TRUE
            /\ timer' = FALSE
            /\ jstage' = IF jstage = "wait" THEN "none" ELSE jstage
    /\ UNCHANGED <<prog, mpc, fst, count, started, workers>>

\* main has returned from its program.
MainDone ==
    /\ mpc = Len(prog) + 1
    /\ UNCHANGED vars

MainStep == MainMake \/ MainStart \/ MainAdd \/ JoinCheck \/ JoinThreads

SchedNext ==
    \/ MainStep
    \/ \E f \in Fibers : RunFiber(f) \/ RunExit(f)
    \/ Heartbeat
    \/ MainDone

(* main keeps running its program; running workers run every queued        *)
(* handler and the heartbeat keeps expiring.                               *)
SchedFairness ==
    /\ WF_vars(MainStep)
    /\ \A f \in Fibers : WF_vars(RunFiber(f)) /\ WF_vars(RunExit(f))
    /\ WF_vars(Heartbeat)

SchedSpec == SchedInit /\ [][SchedNext]_vars /\ SchedFairness

-----------------------------------------------------------------------------
(* Properties.                                                             *)

\* scheduler::join() returns only when every fiber made so far, by main or
\* by other fibers, has stopped and had its on_thread_exit run: the
\* heartbeat may stop the io_service (and so let the worker threads be
\* joined) only once thread_count_ has reached 0, and a fiber makes its
\* children before its own exit is counted.
JoinAfterAllFibers ==
    [][JoinThreads => \A f \in Fibers : fst[f] \in {"none", "done"}]_vars

\* Spec 4.2: join() waits for the live-fiber count to reach zero and the
\* heartbeat to stop the reactor, so main's program, joins included,
\* eventually completes.
SchedulerJoinReturns == <>(mpc = Len(prog) + 1)

\* Spec 4.2, fiber creation: make_thread posts the new fiber's initial
\* activate, and a worker runs the reactor.  Every fiber that has been made, by main or by another fiber, is
\* eventually run and counted out by on_thread_exit: the heartbeat must not
\* stop the io_service while an activation is still queued, and a
\* make_thread after a stop must be served by some later run().
MadeFiberRuns == \A f \in Fibers : fst[f] = "queued" ~> fst[f] = "done"

=============================================================================
