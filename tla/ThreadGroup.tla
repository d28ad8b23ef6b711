---------------------------- MODULE ThreadGroup ----------------------------
(***************************************************************************)
(* thread_group (include/boost/green_thread/thread_group.hpp): a list of   *)
(* thread* guarded by a shared_timed_mutex, run by the fibers of           *)
(* FiberRuntime.  Writers (create_thread, add_thread, remove_thread) take  *)
(* the lock exclusively; readers (join_all, is_this_thread_in, size) take  *)
(* it shared, and join_all holds it while it joins every listed thread.    *)
(*                                                                         *)
(* shared_mutex.hpp is not in the source tree: the lock is the blocking    *)
(* reader/writer lock the spec lists, with the writer preference of the    *)
(* Boost.Thread shared_mutex thread_group.hpp was taken from (a reader     *)
(* waits while a writer holds or waits).  A fiber that cannot have it      *)
(* pauses; the lock hands it over and resumes the fiber (Grant).           *)
(*                                                                         *)
(* Each fiber runs Program[f], a sequence of group and thread operations;  *)
(* only Main's entry exists at first, the others are made by thread::start *)
(* from create_thread or from a plain thread constructor ("spawn").        *)
(* Entries also use one fiber_specific_ptr: "tss_reset" is its reset(new T)*)
(* and "tss_unset" its destructor, both calls of set_tss_data.             *)
(***************************************************************************)
EXTENDS FiberRuntime

CONSTANTS
    Main,       \* the fiber greenify's root runs
    Groups,     \* the thread_group objects
    Program     \* Program[f]: the operations f's entry performs

\* An operation names the call, the thread it is given and the group it is
\* made on; modules extending this one add calls of their own.
Op == [op : STRING, fib : Fibers \cup {NoFiber}, grp : Groups]

ASSUME Main \in Fibers
ASSUME Program \in [Fibers -> Seq(Op)]
ASSUME InterruptTargets = {}

VARIABLES
    made,       \* fibers whose thread_object make_thread has built
    threads,    \* threads_ of every group: the listed threads, in order
    excl,       \* the exclusive holder of each group's m_, or NoFiber
    readers,    \* the shared holders of each group's m_
    want,       \* the mode a fiber paused in m_ waits for, or "none"
    step,       \* the index of the operation a fiber performs next
    it,         \* the position of join_all's iterator
    fss,        \* fss_: the fiber's entry for the key, if any
    minted,     \* ghost: the values reset() has handed to the fiber so far
    disposed    \* ghost: the values cleanup functions were called on, in order

gvars == <<made, threads, excl, readers, want, step, it>>
fssvars == <<fss, minted, disposed>>
vars == <<rtvars, ops, gvars, fssvars>>

\* The value of an absent key.
NoEntry == [in |-> FALSE, func |-> FALSE, data |-> 0]

Writers == {"create", "add", "remove"}
Readers == {"read", "joinall", "destroy"}

\* The operation f is at, while its entry has not returned.
CurOp(f) == Program[f][step[f]]
Busy(f) == step[f] <= Len(Program[f])

\* The group f's operation is made on, and that group's list.
Grp(f) == CurOp(f).grp
Listed(f) == threads[Grp(f)]

GroupPCs == {"idle", "rw_wait", "held", "join_pause", "join_wait", "done"}

\* The types of the variables, for fibers whose pc ranges over pcs.
GroupStateOK(pcs) ==
    /\ RuntimeTypeOK
    /\ pc \in [Fibers -> pcs]
    /\ made \subseteq Fibers
    /\ threads \in [Groups -> Seq(Fibers)]
    /\ excl \in [Groups -> Fibers \cup {NoFiber}]
    /\ readers \in [Groups -> SUBSET Fibers]
    /\ want \in [Fibers -> {"none", "s", "x"}]
    /\ step \in [Fibers -> Nat \ {0}]
    /\ it \in [Fibers -> Nat \ {0}]
    /\ fss \in [Fibers -> [in : BOOLEAN, func : BOOLEAN, data : Nat]]
    /\ minted \in [Fibers -> Nat]
    /\ disposed \in [Fibers -> Seq(Nat)]

GroupTypeOK == GroupStateOK(GroupPCs)

(* Only Main has been made: its make_thread counted it and posted its      *)
(* first activation.                                                       *)
GroupInit ==
    /\ fstate = [f \in Fibers |-> "READY"]
    /\ pc = [f \in Fibers |-> "idle"]
    /\ squeue = [s \in Strands |-> IF s = StrandOf[Main] THEN <<Activation(Main)>> ELSE <<>>]
    /\ busy = [s \in Strands |-> NoFiber]
    /\ live = 1
    /\ requested = [f \in Fibers |-> FALSE]
    /\ disable = [f \in Fibers |-> 0]
    /\ sleeping = {}
    /\ joinq = [f \in Fibers |-> <<>>]
    /\ joinee = [f \in Fibers |-> NoFiber]
    /\ ops = [f \in Fibers |-> Ops]
    /\ made = {Main}
    /\ threads = [g \in Groups |-> <<>>]
    /\ excl = [g \in Groups |-> NoFiber]
    /\ readers = [g \in Groups |-> {}]
    /\ want = [f \in Fibers |-> "none"]
    /\ step = [f \in Fibers |-> 1]
    /\ it = [f \in Fibers |-> 1]
    /\ fss = [f \in Fibers |-> NoEntry]
    /\ minted = [f \in Fibers |-> 0]
    /\ disposed = [f \in Fibers |-> <<>>]

-----------------------------------------------------------------------------
(* m_, the shared_timed_mutex of group gr.                                 *)

\* The mode an operation locks m_ in.
Mode(o) == IF o.op \in Writers THEN "x" ELSE "s"

\* m_ can be had in mode md: shared while no writer holds or waits,
\* exclusively while nobody holds it.
Available(gr, md) ==
    LET WantsX == {w \in Fibers : want[w] = "x"} IN
    IF md = "s" THEN excl[gr] = NoFiber /\ \A w \in WantsX : Grp(w) # gr
    ELSE excl[gr] = NoFiber /\ readers[gr] = {}

Take(f, gr, md) ==
    IF md = "s" THEN readers' = [readers EXCEPT ![gr] = @ \cup {f}] /\ UNCHANGED excl
    ELSE excl' = [excl EXCEPT ![gr] = f] /\ UNCHANGED readers

Release(f, gr) ==
    /\ readers' = [readers EXCEPT ![gr] = @ \ {f}]
    /\ excl' = [excl EXCEPT ![gr] = IF @ = f THEN NoFiber ELSE @]

\* thread::start(): make_thread counts the fiber, builds its
\* thread_object on a strand of its own and resumes it.
Start(g) ==
    /\ g \notin made
    /\ made' = made \cup {g}
    /\ live' = live + 1
    /\ squeue' = Resume(squeue, g)

-----------------------------------------------------------------------------
(* The operations of a fiber's entry.                                      *)

MayStep(f) == Running(f) /\ pc[f] = "idle" /\ Busy(f)

Next1(f) == step' = [step EXCEPT ![f] = @ + 1]

(* The lock taken on entry to a group operation (lock_guard or             *)
(* shared_lock on m_): taken at once when available; otherwise the fiber   *)
(* records the mode it waits for and pauses.                               *)
LockCall(f) ==
    /\ MayStep(f) /\ CurOp(f).op \in Writers \cup Readers
    /\ LET md == Mode(CurOp(f)) IN
         IF Available(Grp(f), md)
         THEN /\ Take(f, Grp(f), md)
              /\ pc' = [pc EXCEPT ![f] = "held"]
              /\ UNCHANGED <<fstate, busy, want>>
         ELSE /\ want' = [want EXCEPT ![f] = md]
              /\ Pause(f, "rw_wait")
              /\ UNCHANGED <<excl, readers>>
    /\ UNCHANGED <<squeue, live, requested, disable, sleeping, joinq, joinee, ops, made, threads,
                   step, it>>

(* m_ is handed to a paused fiber once its mode is available, and the      *)
(* fiber is resumed.                                                       *)
Grant(f) ==
    /\ pc[f] = "rw_wait" /\ fstate[f] = "BLOCKED"
    /\ Available(Grp(f), want[f])
    /\ Take(f, Grp(f), want[f])
    /\ want' = [want EXCEPT ![f] = "none"]
    /\ pc' = [pc EXCEPT ![f] = "held"]
    /\ squeue' = Resume(squeue, f)
    /\ UNCHANGED <<fstate, busy, live, requested, disable, sleeping, joinq, joinee, ops, made,
                   threads, step, it, fssvars>>

\* A writer's body is done: its lock_guard releases m_.
WriterEnds(f) ==
    /\ Release(f, Grp(f))
    /\ pc' = [pc EXCEPT ![f] = "idle"]
    /\ Next1(f)
    /\ UNCHANGED <<fstate, busy, requested, disable, sleeping, joinq, joinee, ops, want, it>>

Holding(f, o) == Running(f) /\ pc[f] = "held" /\ CurOp(f).op = o

(* create_thread(fn): under the exclusive lock, a thread is constructed,   *)
(* which makes its fiber, and push_backed.                                 *)
CreateThread(f) ==
    /\ Holding(f, "create")
    /\ Start(CurOp(f).fib)
    /\ threads' = [threads EXCEPT ![Grp(f)] = Append(@, CurOp(f).fib)]
    /\ WriterEnds(f)

(* add_thread(thrd): a thread made earlier is push_backed.                 *)
AddThread(f) ==
    /\ Holding(f, "add")
    /\ threads' = [threads EXCEPT ![Grp(f)] = Append(@, CurOp(f).fib)]
    /\ WriterEnds(f)
    /\ UNCHANGED <<made, live, squeue>>

(* remove_thread(thrd): the first entry for thrd, if any, is erased.       *)
RemoveThread(f) ==
    /\ Holding(f, "remove")
    /\ threads' = [threads EXCEPT ![Grp(f)] = RemoveFirst(@, CurOp(f).fib)]
    /\ WriterEnds(f)
    /\ UNCHANGED <<made, live, squeue>>

(* is_this_thread_in() (or size()): the list is scanned under the shared   *)
(* lock, which is then released.                                           *)
ReadBody(f) ==
    /\ Holding(f, "read")
    /\ Release(f, Grp(f))
    /\ pc' = [pc EXCEPT ![f] = "idle"]
    /\ Next1(f)
    /\ UNCHANGED <<fstate, squeue, busy, live, requested, disable, sleeping, joinq, joinee, ops,
                   made, threads, want, it>>

(* A thread constructed outside the group (thread t(fn)): thread::start    *)
(* makes its fiber; no lock is taken.                                      *)
Spawn(f) ==
    /\ MayStep(f) /\ CurOp(f).op = "spawn"
    /\ Start(CurOp(f).fib)
    /\ Next1(f)
    /\ UNCHANGED <<fstate, pc, busy, requested, disable, sleeping, joinq, joinee, ops, threads,
                   excl, readers, want, it>>

(* this_thread::yield().                                                   *)
GroupYield(f) ==
    /\ MayStep(f) /\ CurOp(f).op = "yield"
    /\ YieldOut(f, "idle")
    /\ squeue' = Resume(squeue, f)
    /\ Next1(f)
    /\ UNCHANGED <<live, requested, disable, sleeping, joinq, joinee, ops, made, threads, excl,
                   readers, want, it>>

\* thread::joinable(): impl_ is set, is not the caller, and runs on the
\* caller's scheduler (every fiber here does).
Joinable(f, g) == g # f

Joining == {"joinall", "destroy"}

\* f is in join_all's loop, holding the shared lock.
InJoinAll(f) == Running(f) /\ pc[f] = "held" /\ CurOp(f).op \in Joining

\* Mutant of JoinBack: the iterator is advanced twice after a join.
JoinBackSkips(f) ==
    /\ Running(f) /\ pc[f] = "join_wait"
    /\ pc' = [pc EXCEPT ![f] = "held"]
    /\ it' = [it EXCEPT ![f] = @ + 2]
    /\ joinee' = [joinee EXCEPT ![f] = NoFiber]
    /\ UNCHANGED <<fstate, squeue, busy, live, requested, disable, sleeping, joinq, ops, made,
                   threads, excl, readers, want, step>>

\* Mutant of JoinAllStep: the iterator is not advanced past a thread that
\* needs no join.
JoinAllStepStays(f) ==
    /\ InJoinAll(f)
    /\ it[f] <= Len(Listed(f))
    /\ LET g == Listed(f)[it[f]] IN
         IF ~Joinable(f, g) \/ fstate[g] = "STOPPED"
         THEN UNCHANGED <<pc, joinq, joinee, it>>
         ELSE /\ joinq' = [joinq EXCEPT ![g] = Append(@, f)]
              /\ joinee' = [joinee EXCEPT ![f] = g]
              /\ pc' = [pc EXCEPT ![f] = "join_pause"]
              /\ UNCHANGED it
    /\ UNCHANGED <<fstate, squeue, busy, live, requested, disable, sleeping, ops, made, threads,
                   excl, readers, want, step>>

(* One turn of join_all's loop, under the shared lock: a joinable thread   *)
(* is joined with thread::join() -> thread_object::join(), which returns   *)
(* at once if it has STOPPED and otherwise queues an activate of the       *)
(* caller on its join queue and pauses; other threads are passed over.    *)
JoinAllStep(f) ==
    /\ InJoinAll(f)
    /\ it[f] <= Len(Listed(f))
    /\ LET g == Listed(f)[it[f]] IN
         IF ~Joinable(f, g) \/ fstate[g] = "STOPPED"
         THEN /\ it' = [it EXCEPT ![f] = @ + 1]
              /\ UNCHANGED <<pc, joinq, joinee>>
         ELSE /\ joinq' = [joinq EXCEPT ![g] = Append(@, f)]
              /\ joinee' = [joinee EXCEPT ![f] = g]
              /\ pc' = [pc EXCEPT ![f] = "join_pause"]
              /\ UNCHANGED it
    /\ UNCHANGED <<fstate, squeue, busy, live, requested, disable, sleeping, ops, made, threads,
                   excl, readers, want, step>>

(* Back from the join's pause() (no interrupt is ever requested here): the *)
(* loop moves on.                                                          *)
JoinBack(f) ==
    /\ Running(f) /\ pc[f] = "join_wait"
    /\ pc' = [pc EXCEPT ![f] = "held"]
    /\ it' = [it EXCEPT ![f] = @ + 1]
    /\ joinee' = [joinee EXCEPT ![f] = NoFiber]
    /\ UNCHANGED <<fstate, squeue, busy, live, requested, disable, sleeping, joinq, ops, made,
                   threads, excl, readers, want, step>>

\* Mutant of JoinAllEnds: the iterator is reset to a 0-based begin().
JoinAllEndsZeroBased(f) ==
    /\ InJoinAll(f)
    /\ it[f] > Len(Listed(f))
    /\ Release(f, Grp(f))
    /\ it' = [it EXCEPT ![f] = 0]
    /\ pc' = [pc EXCEPT ![f] = "idle"]
    /\ Next1(f)
    /\ UNCHANGED <<fstate, squeue, busy, live, requested, disable, sleeping, joinq, joinee, ops,
                   made, threads, want>>

(* The loop has passed the end of the list: the shared_lock is released.   *)
(* For ~thread_group the threads are then deleted; ~thread does nothing    *)
(* to a fiber, whose thread_object the joins left STOPPED.                 *)
JoinAllEnds(f) ==
    /\ InJoinAll(f)
    /\ it[f] > Len(Listed(f))
    /\ Release(f, Grp(f))
    /\ it' = [it EXCEPT ![f] = 1]
    /\ pc' = [pc EXCEPT ![f] = "idle"]
    /\ Next1(f)
    /\ UNCHANGED <<fstate, squeue, busy, live, requested, disable, sleeping, joinq, joinee, ops,
                   made, threads, want>>

\* Mutant of SetTssData: an update never cleans up the value it replaces.
SetTssDataNoCleanup(f, func, data, cleanupExisting) ==
    LET e == fss[f]
        cleaned == IF e.in /\ e.func /\ ~func /\ data = 0
                   THEN Append(disposed[f], e.data) ELSE disposed[f]
    IN  /\ disposed' = [disposed EXCEPT ![f] = cleaned]
        /\ fss' = [fss EXCEPT ![f] = IF ~func /\ data = 0 THEN NoEntry
                                     ELSE [in |-> TRUE, func |-> func, data |-> data]]

(* set_tss_data(key, func, data, cleanup_existing) in fiber f: with no    *)
(* func and no data the entry is erased, its cleanup called on its value   *)
(* whenever it has one; otherwise the existing value is cleaned up if      *)
(* cleanup_existing and the entry has a cleanup, and the entry is set.     *)
SetTssData(f, func, data, cleanupExisting) ==
    LET e == fss[f]
        cleaned == IF e.in /\ e.func /\ (cleanupExisting \/ (~func /\ data = 0))
                   THEN Append(disposed[f], e.data) ELSE disposed[f]
    IN  /\ disposed' = [disposed EXCEPT ![f] = cleaned]
        /\ fss' = [fss EXCEPT ![f] = IF ~func /\ data = 0 THEN NoEntry
                                     ELSE [in |-> TRUE, func |-> func, data |-> data]]

TssStep(f, o) ==
    /\ MayStep(f) /\ CurOp(f).op = o
    /\ Next1(f)
    /\ UNCHANGED <<rtvars, ops, made, threads, excl, readers, want, it>>

(* fiber_specific_ptr::reset(new T): a fresh value, with the pointer's     *)
(* cleanup, replacing (and cleaning up) the current one.                   *)
TssReset(f) ==
    /\ TssStep(f, "tss_reset")
    /\ minted' = [minted EXCEPT ![f] = @ + 1]
    /\ SetTssData(f, TRUE, minted[f] + 1, TRUE)

(* ~fiber_specific_ptr: set_tss_data(key, 0, 0, true).                     *)
TssUnset(f) ==
    /\ TssStep(f, "tss_unset")
    /\ SetTssData(f, FALSE, 0, TRUE)
    /\ UNCHANGED minted

(* The cleaner's fss loop: an entry with a cleanup and a value has the     *)
(* cleanup called on it.                                                   *)
FssCleaned(f) ==
    IF fss[f].func /\ fss[f].data # 0 THEN Append(disposed[f], fss[f].data) ELSE disposed[f]

(* The entry has performed its program and returns: the cleaner runs the   *)
(* fss cleanups, and the coroutine yields STOPPED.                         *)
GroupEntryReturns(f) ==
    /\ Running(f) /\ pc[f] = "idle" /\ ~Busy(f)
    /\ Finish(f)
    /\ disposed' = [disposed EXCEPT ![f] = FssCleaned(f)]
    /\ UNCHANGED <<live, requested, disable, sleeping, joinee, ops, gvars, fss, minted>>

GroupStep(f) ==
    \/ /\ \/ LockCall(f) \/ CreateThread(f) \/ AddThread(f) \/ RemoveThread(f) \/ ReadBody(f)
          \/ Spawn(f) \/ GroupYield(f)
          \/ JoinAllStep(f) \/ (JoinPause(f) /\ UNCHANGED gvars) \/ JoinBack(f) \/ JoinAllEnds(f)
       /\ UNCHANGED fssvars
    \/ TssReset(f) \/ TssUnset(f)
    \/ GroupEntryReturns(f)

GroupHandlerStep(s) == (RunActivate(s) \/ RunExit(s)) /\ UNCHANGED <<gvars, fssvars>>

\* Every fiber made has stopped and the strands are drained.
GroupTerminated ==
    /\ \A f \in made : fstate[f] = "STOPPED"
    /\ \A s \in Strands : squeue[s] = <<>>
    /\ UNCHANGED vars

GroupNext ==
    \/ \E s \in Strands : GroupHandlerStep(s)
    \/ \E f \in Fibers : GroupStep(f) \/ Grant(f)
    \/ GroupTerminated

(* As in the other modules: a running fiber keeps running, a strand with   *)
(* queued handlers gets a free worker infinitely often, and the lock is    *)
(* handed over once it stays available to a waiter.                       *)
GroupFairness ==
    /\ \A f \in Fibers : WF_vars(GroupStep(f)) /\ WF_vars(Grant(f))
    /\ \A s \in Strands : SF_vars(GroupHandlerStep(s))

GroupSpec == GroupInit /\ [][GroupNext]_vars /\ GroupFairness

-----------------------------------------------------------------------------
(* Properties.                                                             *)

\* join_all returns only once every thread on the list, other than the
\* caller, has stopped: the shared lock keeps writers off the list while
\* it is walked, and each join wakes the caller only from the joinee's
\* one_step() after its coroutine yielded STOPPED, even when the joinee
\* had not yet been scheduled when join_all reached it.
JoinAllJoinedAll ==
    [][\A f \in Fibers :
         pc[f] = "held" /\ pc'[f] = "idle" /\ CurOp(f).op \in Joining =>
             \A g \in Range(Listed(f)) \ {f} : fstate[g] = "STOPPED"]_vars

\* Every value reset() hands a fiber is cleaned up exactly once, and never
\* while the running fiber can still reach it through its entry: by the
\* next reset, by the pointer's destructor, or by runner_wrapper's cleaner
\* before the fiber is STOPPED.
FssDisposedOnce ==
    \A f \in Fibers : \A n \in 1..minted[f] :
        LET times == Cardinality({i \in DOMAIN disposed[f] : disposed[f][i] = n})
        IN  /\ times <= 1
            /\ fss[f].in /\ fss[f].data = n /\ fstate[f] # "STOPPED" => times = 0
            /\ fstate[f] = "STOPPED" => times = 1

=============================================================================
