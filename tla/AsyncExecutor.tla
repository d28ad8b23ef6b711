---------------------------- MODULE AsyncExecutor ----------------------------
(***************************************************************************)
(* async_executor (include/boost/green_thread/future/async.hpp): a pool of *)
(* fibers made by create_thread on the executor's own thread_group, all   *)
(* running for(auto &i : queue_) i(); over one concurrent_queue of         *)
(* packaged tasks.  operator() pushes a task and hands back its future;    *)
(* the destructor closes the queue, then joins the group (join_all), and   *)
(* the member ~thread_group joins it again and deletes the threads.        *)
(*                                                                         *)
(* An executor is named by its threads_ group: "push", "close" and the    *)
(* workers' "serve" carry that group, and "create", "joinall" and         *)
(* "destroy" on it are ThreadGroup's own actions.                          *)
(*                                                                         *)
(* concurrent_queue.hpp, packaged_task.hpp and the future headers are not  *)
(* in the source tree; they are modelled from the spec: push appends and  *)
(* wakes one waiter, close wakes every waiter, the range-for pops while    *)
(* the queue holds tasks, waits while it is empty and open, and ends once  *)
(* it is empty and closed (src/test/test_cq.cpp sums every value pushed   *)
(* before the close).  A task sets its future when it runs, with a        *)
(* value or with the exception fn threw, and set_value resumes the fibers *)
(* parked in the future's get().  The queue's mutex is held for no        *)
(* suspension, so each of its critical sections is one step.               *)
(***************************************************************************)
EXTENDS ThreadGroup

VARIABLES
    queue,      \* queue_ of the executor of each group: the task ids queued
    closed,     \* whether that queue has been closed
    qwait,      \* the workers waiting in the queue's pop, in wait order
    tasks,      \* every packaged task made: who runs it (an executor's group or
                \* async()'s fiber) and how often it ran
    held,       \* the futures a fiber holds, oldest first
    getter,     \* the task whose future a fiber's get() is parked on, or 0
    inflight    \* the use_future handlers whose operation has not completed

evars == <<queue, closed, qwait, tasks, held, getter, inflight>>
avars == <<vars, evars>>

ExecPCs == {"q_wait", "get_wait", "fn_join", "fn_join_pause", "fn_join_wait"}

Task == [by : Groups \cup Fibers, runs : Nat]

AsyncTypeOK ==
    /\ GroupStateOK(GroupPCs \cup ExecPCs)
    /\ queue \in [Groups -> Seq(Nat \ {0})]
    /\ closed \in [Groups -> BOOLEAN]
    /\ qwait \in [Groups -> Seq(Fibers)]
    /\ tasks \in Seq(Task)
    /\ held \in [Fibers -> Seq(Nat \ {0})]
    /\ getter \in [Fibers -> Nat]
    /\ inflight \subseteq Fibers

AsyncInit ==
    /\ GroupInit
    /\ queue = [g \in Groups |-> <<>>]
    /\ closed = [g \in Groups |-> FALSE]
    /\ qwait = [g \in Groups |-> <<>>]
    /\ tasks = <<>>
    /\ held = [f \in Fibers |-> <<>>]
    /\ getter = [f \in Fibers |-> 0]
    /\ inflight = {}

\* The fibers parked on the future of task t, in a fixed order.
Getters(t) == SetToSeq({g \in Fibers : getter[g] = t})

\* f performs its next operation, an executor call.
ExecCall(f, o) == MayStep(f) /\ CurOp(f).op = o

ExecUnchanged ==
    UNCHANGED <<fstate, busy, live, requested, disable, sleeping, joinq, joinee, ops, made,
                threads, excl, readers, want, it, fssvars, inflight>>

-----------------------------------------------------------------------------
(* The calls.                                                              *)

(* concurrent_queue::push(e) on the queue gr: e is appended under the     *)
(* queue's lock and the first waiting popper, if any, is woken.            *)
QueuePush(gr, e) ==
    /\ queue' = [queue EXCEPT ![gr] = Append(@, e)]
    /\ IF qwait[gr] = <<>>
       THEN UNCHANGED <<qwait, squeue>>
       ELSE /\ qwait' = [qwait EXCEPT ![gr] = Tail(@)]
            /\ squeue' = Resume(squeue, Head(qwait[gr]))

(* A new future f holds, of a new task run by "by".                        *)
NewTask(f, by) ==
    /\ tasks' = Append(tasks, [by |-> by, runs |-> 0])
    /\ held' = [held EXCEPT ![f] = Append(@, Len(tasks) + 1)]

(* operator()(fn, args...): a packaged_task is built, its future taken and *)
(* the task pushed.                                                        *)
Push(f) ==
    /\ ExecCall(f, "push")
    /\ NewTask(f, Grp(f))
    /\ QueuePush(Grp(f), Len(tasks) + 1)
    /\ Next1(f)
    /\ UNCHANGED <<pc, closed, getter>>
    /\ ExecUnchanged

(* async_call(args), behind operator() and apply(): an element holding    *)
(* the arguments and a promise is made, the promise's future taken, and   *)
(* the element pushed on the function's queue.                             *)
AsyncCall(f) ==
    /\ ExecCall(f, "fn_call")
    /\ NewTask(f, Grp(f))
    /\ QueuePush(Grp(f), Len(tasks) + 1)
    /\ Next1(f)
    /\ UNCHANGED <<pc, closed, getter>>
    /\ ExecUnchanged

(* concurrent_queue::close() on the queue gr: the queue is marked closed  *)
(* and every waiting popper is woken.                                      *)
QueueClose(gr) ==
    /\ closed' = [closed EXCEPT ![gr] = TRUE]
    /\ qwait' = [qwait EXCEPT ![gr] = <<>>]
    /\ squeue' = ResumeAll(squeue, qwait[gr])

(* ~async_executor's first statement, queue_.close().                     *)
Close(f) ==
    /\ ExecCall(f, "close")
    /\ QueueClose(Grp(f))
    /\ Next1(f)
    /\ UNCHANGED <<pc, queue, tasks, held, getter>>
    /\ ExecUnchanged

\* Mutant of RunTask: setting one future wakes every fiber parked in any
\* future's get(), as one condition shared by all futures would.
RunTaskWakesAll(t) ==
    /\ tasks' = [tasks EXCEPT ![t].runs = @ + 1]
    /\ getter' = [g \in Fibers |-> 0]
    /\ squeue' = ResumeAll(squeue, SetToSeq({g \in Fibers : getter[g] # 0}))

\* The task t is run: a packaged_task's operator() calls fn and stores its
\* result or its exception, and the shared state resumes the fibers parked
\* in get().
RunTask(t) ==
    /\ tasks' = [tasks EXCEPT ![t].runs = @ + 1]
    /\ getter' = [g \in Fibers |-> IF getter[g] = t THEN 0 ELSE getter[g]]
    /\ squeue' = ResumeAll(squeue, Getters(t))

\* Mutant of Serve: the loop ends as soon as the queue is closed, whatever
\* it still holds.
ServeStopsWhenClosed(f) ==
    LET gr == Grp(f) IN
    /\ ExecCall(f, "serve")
    /\ CASE closed[gr] ->
              /\ Next1(f)
              /\ UNCHANGED <<fstate, busy, pc, queue, qwait, tasks, squeue, getter>>
         [] queue[gr] # <<>> ->
              /\ queue' = [queue EXCEPT ![gr] = Tail(@)]
              /\ RunTask(Head(queue[gr]))
              /\ UNCHANGED <<fstate, busy, pc, qwait, step>>
         [] OTHER ->
              /\ qwait' = [qwait EXCEPT ![gr] = Append(@, f)]
              /\ Pause(f, "q_wait")
              /\ UNCHANGED <<queue, tasks, squeue, getter, step>>
    /\ UNCHANGED <<closed, held, inflight>>
    /\ UNCHANGED <<live, requested, disable, sleeping, joinq, joinee, ops, made, threads, excl,
                   readers, want, it, fssvars>>

(* One turn of a range-for over a concurrent_queue, calling what it pops: *)
(* a queued task is popped and run, which sets its future and resumes the *)
(* fibers parked in its get(); an empty open queue makes the fiber wait   *)
(* on the queue's condition and pause; an empty closed queue ends the     *)
(* loop and with it the fiber's entry.                                     *)
QueueLoop(f, o) ==
    LET gr == Grp(f) IN
    /\ ExecCall(f, o)
    /\ CASE queue[gr] # <<>> ->
              /\ queue' = [queue EXCEPT ![gr] = Tail(@)]
              /\ RunTask(Head(queue[gr]))
              /\ UNCHANGED <<fstate, busy, pc, qwait, step>>
         [] ~closed[gr] ->
              /\ qwait' = [qwait EXCEPT ![gr] = Append(@, f)]
              /\ Pause(f, "q_wait")
              /\ UNCHANGED <<queue, tasks, squeue, getter, step>>
         [] OTHER ->
              /\ Next1(f)
              /\ UNCHANGED <<fstate, busy, pc, queue, qwait, tasks, squeue, getter>>
    /\ UNCHANGED <<closed, held, inflight>>
    /\ UNCHANGED <<live, requested, disable, sleeping, joinq, joinee, ops, made, threads, excl,
                   readers, want, it, fssvars>>

(* A worker of the pool: for(auto &i : queue_) i();                        *)
Serve(f) == QueueLoop(f, "serve")

(* async_function's thread_, running execute(): for(auto &e : *queue_)    *)
(* call(e), where call sets the element's promise from fn's result.  fn   *)
(* never throws here (see the README on a throwing fn).                    *)
Execute(f) == QueueLoop(f, "execute")

(* async(fn, args...): a packaged_task is built, its future taken, and a  *)
(* thread constructed on the task (thread::start makes the fiber and      *)
(* resumes it) and detached.                                               *)
Async(f) ==
    LET g == CurOp(f).fib IN
        /\ ExecCall(f, "async")
        /\ Start(g)
        /\ NewTask(f, g)
        /\ Next1(f)
        /\ UNCHANGED <<fstate, busy, pc, requested, disable, sleeping, joinq, joinee, ops,
                       threads, excl, readers, want, it, fssvars, queue, closed, qwait, getter,
                       inflight>>

(* The entry of async()'s fiber: the packaged_task runs.                   *)
AsyncEntry(f) ==
    /\ ExecCall(f, "run")
    /\ RunTask(CHOOSE i \in DOMAIN tasks : tasks[i].by = f)
    /\ Next1(f)
    /\ UNCHANGED <<pc, queue, closed, qwait, held>>
    /\ ExecUnchanged

(* The condition's wait returns with the queue's lock: the loop looks at  *)
(* the queue again.                                                        *)
QueueWaitBack(f) ==
    /\ Running(f) /\ pc[f] = "q_wait"
    /\ pc' = [pc EXCEPT ![f] = "idle"]
    /\ UNCHANGED <<squeue, step, queue, closed, qwait, tasks, held, getter>>
    /\ ExecUnchanged

(* future::get() on the oldest future f holds: it returns at once when    *)
(* the task has run, and otherwise parks the fiber on the shared state.    *)
Get(f) ==
    LET t == Head(held[f]) IN
    /\ ExecCall(f, "get")
    /\ IF tasks[t].runs > 0
       THEN /\ held' = [held EXCEPT ![f] = Tail(@)]
            /\ Next1(f)
            /\ UNCHANGED <<fstate, busy, pc, getter>>
       ELSE /\ getter' = [getter EXCEPT ![f] = t]
            /\ Pause(f, "get_wait")
            /\ UNCHANGED <<held, step>>
    /\ UNCHANGED <<squeue, queue, closed, qwait, tasks, inflight>>
    /\ UNCHANGED <<live, requested, disable, sleeping, joinq, joinee, ops, made, threads, excl,
                   readers, want, it, fssvars>>

(* Resumed by set_value: get() returns the task's result.                  *)
GetBack(f) ==
    /\ Running(f) /\ pc[f] = "get_wait"
    /\ pc' = [pc EXCEPT ![f] = "idle"]
    /\ held' = [held EXCEPT ![f] = Tail(@)]
    /\ Next1(f)
    /\ UNCHANGED <<squeue, queue, closed, qwait, tasks, getter>>
    /\ ExecUnchanged

(* async_function(fn): fn_ is stored, a fresh queue_ made, and thread_    *)
(* constructed on execute(): thread::start makes its fiber and resumes it. *)
AsyncFunction(f) ==
    /\ ExecCall(f, "fn_make")
    /\ Start(CurOp(f).fib)
    /\ Next1(f)
    /\ UNCHANGED <<fstate, busy, pc, requested, disable, sleeping, joinq, joinee, ops,
                   threads, excl, readers, want, it, fssvars, evars>>

(* ~async_function: queue_->close(), then thread_.join().                  *)
FnDestroy(f) ==
    /\ ExecCall(f, "fn_destroy")
    /\ QueueClose(Grp(f))
    /\ pc' = [pc EXCEPT ![f] = "fn_join"]
    /\ UNCHANGED <<step, queue, tasks, held, getter>>
    /\ ExecUnchanged

(* thread_.join() -> thread_object::join(): under the joinee's mtx_, it    *)
(* returns at once if the joinee has STOPPED, and otherwise queues the     *)
(* caller's activate on the joinee's join queue and releases the mtx_ ...  *)
FnJoin(f) ==
    LET g == CurOp(f).fib IN
    /\ Running(f) /\ pc[f] = "fn_join"
    /\ IF fstate[g] = "STOPPED"
       THEN /\ pc' = [pc EXCEPT ![f] = "idle"]
            /\ Next1(f)
            /\ UNCHANGED <<joinq, joinee>>
       ELSE /\ joinq' = [joinq EXCEPT ![g] = Append(@, f)]
            /\ joinee' = [joinee EXCEPT ![f] = g]
            /\ pc' = [pc EXCEPT ![f] = "fn_join_pause"]
            /\ UNCHANGED step
    /\ UNCHANGED <<fstate, squeue, busy, live, requested, disable, sleeping, ops, made,
                   threads, excl, readers, want, it, fssvars, evars>>

(* ... and only then pauses.                                               *)
FnJoinPause(f) ==
    /\ Running(f) /\ pc[f] = "fn_join_pause"
    /\ Pause(f, "fn_join_wait")
    /\ UNCHANGED <<squeue, live, requested, disable, sleeping, joinq, joinee, ops, gvars,
                   fssvars, evars>>

(* Woken from the joinee's one_step() after it STOPPED: join() returns.   *)
FnJoinBack(f) ==
    /\ Running(f) /\ pc[f] = "fn_join_wait"
    /\ pc' = [pc EXCEPT ![f] = "idle"]
    /\ joinee' = [joinee EXCEPT ![f] = NoFiber]
    /\ Next1(f)
    /\ UNCHANGED <<fstate, squeue, busy, live, requested, disable, sleeping, joinq, ops, made,
                   threads, excl, readers, want, it, fssvars, evars>>

(* An asio initiating function called with use_future: the handler type   *)
(* is promise_handler, whose constructor makes the promise and keeps the  *)
(* calling fiber's thread_object (for its scheduler); async_result takes  *)
(* the promise's future, which the initiating function returns once the   *)
(* operation is started.  The fiber asio_handler_invoke will make for the *)
(* completion is named by the operation's fib.                             *)
UseFuture(f) ==
    LET h == CurOp(f).fib IN
    /\ ExecCall(f, "uf_start")
    /\ NewTask(f, h)
    /\ inflight' = inflight \cup {h}
    /\ Next1(f)
    /\ UNCHANGED <<fstate, pc, squeue, busy, live, requested, disable, sleeping, joinq, joinee,
                   ops, made, threads, excl, readers, want, it, fssvars, queue, closed, qwait,
                   getter>>

(* The operation completes on an io thread, which invokes the handler     *)
(* through asio_handler_invoke: a thread is constructed on the scheduler  *)
(* of the initiating fiber, running do_handler_invoke, and detached.      *)
Complete(h) ==
    /\ h \in inflight
    /\ inflight' = inflight \ {h}
    /\ Start(h)
    /\ UNCHANGED <<fstate, busy, pc, requested, disable, sleeping, joinq, joinee, ops, step,
                   threads, excl, readers, want, it, fssvars, queue, closed, qwait, tasks,
                   held, getter>>

(* do_handler_invoke in the handler's fiber: the completion calls the      *)
(* promise_handler, which sets the promise's exception from a non-zero    *)
(* error_code and its value otherwise; either sets the future.             *)
HandlerInvoke(f) ==
    /\ ExecCall(f, "invoke")
    /\ RunTask(CHOOSE i \in DOMAIN tasks : tasks[i].by = f)
    /\ Next1(f)
    /\ UNCHANGED <<pc, queue, closed, qwait, held>>
    /\ ExecUnchanged

ExecStep(f) ==
    \/ Push(f) \/ Close(f) \/ Serve(f) \/ QueueWaitBack(f) \/ Get(f) \/ GetBack(f)
    \/ Async(f) \/ AsyncEntry(f)
    \/ AsyncFunction(f) \/ AsyncCall(f) \/ Execute(f)
    \/ FnDestroy(f) \/ FnJoin(f) \/ FnJoinPause(f) \/ FnJoinBack(f)
    \/ UseFuture(f) \/ HandlerInvoke(f)

AsyncNext ==
    \/ GroupNext /\ UNCHANGED evars
    \/ \E f \in Fibers : ExecStep(f) \/ Complete(f)

(* ThreadGroup's fairness, a running fiber keeps running through its      *)
(* executor calls, and a started operation completes.                      *)
AsyncFairness ==
    /\ \A f \in Fibers : WF_avars(GroupStep(f) /\ UNCHANGED evars) /\ WF_avars(ExecStep(f))
                         /\ WF_avars(Grant(f) /\ UNCHANGED evars) /\ WF_avars(Complete(f))
    /\ \A s \in Strands : SF_avars(GroupHandlerStep(s) /\ UNCHANGED evars)

AsyncSpec == AsyncInit /\ [][AsyncNext]_avars /\ AsyncFairness

-----------------------------------------------------------------------------
(* Properties.                                                             *)

\* Every task an executor or an async_function is given runs exactly once:
\* no fiber ever runs a task twice, and once the destructor's join
\* (~async_executor's join_all, or ~async_function's thread_.join()) has
\* returned after its close, every task pushed to that queue has run, so
\* that no future handed out is left to a broken promise.  This rests on
\* the order of close and join in the destructors, on the loops draining a
\* closed queue, and on the join waiting for each serving fiber, whichever
\* strand and worker ran it.
ExecutorRunsEachTaskOnce ==
    /\ [](\A i \in DOMAIN tasks : tasks[i].runs <= 1)
    /\ [][\A f \in Fibers :
            Busy(f) /\ step'[f] = step[f] + 1 /\ CurOp(f).op \in Joining \cup {"fn_destroy"}
            /\ closed[Grp(f)] =>
                \A i \in DOMAIN tasks : tasks[i].by = Grp(f) => tasks[i].runs = 1]_avars

\* future::get() returns only once its own task has set the shared state:
\* whether the task is run by a pool worker, by async()'s fiber, by an
\* async_function's thread or by the fiber a use_future completion makes
\* on an io thread, and whether it sets the future before get() looks or
\* after get() has parked, a fiber leaves get() holding that task's result
\* and never another's.
FutureGetReturnsValue ==
    [][\A f \in Fibers : Len(held'[f]) < Len(held[f]) => tasks[Head(held[f])].runs = 1]_avars

=============================================================================
