---------------------------- MODULE GreenBarrier ----------------------------
(***************************************************************************)
(* barrier of src/include/boost/green_thread/barrier.hpp: a count, a       *)
(* generation, a fiber mutex and a condition_variable (CondVar).  wait()   *)
(* locks, captures the generation, decrements the count; the fiber that    *)
(* brings it to zero starts the next generation, resets the count through  *)
(* the completion function and notifies all; the others wait on the       *)
(* condition until the generation changes.  The completion function is    *)
(* the one the constructor built: the default reseter, or a void          *)
(* completion (functor or function pointer) wrapped to return the count,   *)
(* return the constructor's count; a completion returning unsigned int     *)
(* gives the next generation's count itself.                               *)
(*                                                                         *)
(* Every fiber calls wait() Ops times.                                     *)
(***************************************************************************)
EXTENDS CondVar

CONSTANTS
    BarrierCount,   \* the count given to the constructor
    SizeResults     \* the results of a size completion function, one per generation

\* check_counter: a barrier for 0 threads is never constructed; a size
\* completion never returns 0 (wait() asserts m_count != 0).
ASSUME BarrierCount \in Nat \ {0}
ASSUME SizeResults \in Seq(Nat \ {0})

\* The completions a constructor can install: none, or a null function
\* pointer (default_barrier_reseter), a void functor or function pointer
\* (void_functor_barrier_reseter, void_fct_ptr_barrier_reseter), or a
\* functor or function pointer returning unsigned int.
CompletionKinds == {"default", "void", "size"}

\* fct_(), called when generation g (counted from 1) begins: the reseters
\* return the constructor's count, a size completion its own result.
Reseter(kind, g) == IF kind = "size" THEN SizeResults[g] ELSE BarrierCount

\* The largest count m_count can hold.
MaxCount == Max({BarrierCount} \cup Range(SizeResults))

VARIABLES
    count,        \* m_count
    generation,   \* m_generation
    gen,          \* each fiber's local gen, -1 before it is first taken
    fct,          \* the kind of fct_ the constructor installed
    target        \* the count the current generation started from

barvars == <<count, generation, gen, fct, target>>
allvars == <<vars, cvvars, barvars>>

BarrierTypeOK ==
    /\ RuntimeTypeOK
    /\ pc \in [Fibers -> MutexPCs \cup CvPCs \cup {"arrive", "last"}]
    /\ cont \in [Fibers -> MutexPCs \cup CvPCs \cup {"arrive", "last"}]
    /\ owner \in Fibers \cup {NoFiber}
    /\ held \in [Fibers -> 0..1]
    /\ CvVarsOK
    /\ count \in 1..MaxCount
    /\ generation \in 0..Len(SizeResults)
    /\ gen \in [Fibers -> {-1} \cup 0..generation]
    /\ fct \in CompletionKinds
    /\ target \in 1..MaxCount

(* The constructors: m_count(check_counter(count)), m_generation(0), fct_ *)
(* one of the completions.                                                 *)
BarrierInit ==
    /\ CvInit
    /\ count = BarrierCount
    /\ generation = 0
    /\ gen = [f \in Fibers |-> -1]
    /\ fct \in CompletionKinds
    /\ target = BarrierCount

(* wait(): the unique_lock constructor locks m_mutex.                      *)
BarrierLock(f) ==
    /\ Running(f) /\ pc[f] = "idle" /\ ops[f] > 0
    /\ ops' = [ops EXCEPT ![f] = @ - 1]
    /\ LockCall(f, "arrive")
    /\ UNCHANGED <<cvvars, barvars>>

\* Mutant of Arrive: the count is reset one short.
ArriveResetShort(f) ==
    /\ Running(f) /\ pc[f] = "arrive"
    /\ gen' = [gen EXCEPT ![f] = generation]
    /\ UNCHANGED fct
    /\ IF count = 1
       THEN /\ generation' = generation + 1
            /\ count' = Reseter(fct, generation + 1) - 1
            /\ target' = Reseter(fct, generation + 1)
            /\ NotifyAllCall(f, "last")
       ELSE /\ count' = count - 1
            /\ pc' = [pc EXCEPT ![f] = "check"]
            /\ UNCHANGED <<fstate, squeue, busy, live, requested, disable, sleeping, joinq, joinee,
                           ops, mvars, cvvars, generation, target>>

\* Mutant of Arrive: m_count is not reset by the completion function.
ArriveNoReset(f) ==
    /\ Running(f) /\ pc[f] = "arrive"
    /\ gen' = [gen EXCEPT ![f] = generation]
    /\ UNCHANGED fct
    /\ count' = count - 1
    /\ IF count = 1
       THEN /\ generation' = generation + 1
            /\ target' = Reseter(fct, generation + 1)
            /\ NotifyAllCall(f, "last")
       ELSE /\ pc' = [pc EXCEPT ![f] = "check"]
            /\ UNCHANGED <<fstate, squeue, busy, live, requested, disable, sleeping, joinq, joinee,
                           ops, mvars, cvvars, generation, target>>

(* Under m_mutex: gen := m_generation; --m_count.  At zero the generation  *)
(* advances, m_count := fct_() (the assert that it is not 0 holds: see     *)
(* SizeResults) and the condition is notified (notify_all yields with      *)
(* m_mutex still held); wait() will return true.  Otherwise the fiber goes *)
(* on to the while loop.                                                   *)
Arrive(f) ==
    /\ Running(f) /\ pc[f] = "arrive"
    /\ gen' = [gen EXCEPT ![f] = generation]
    /\ UNCHANGED fct
    /\ IF count = 1
       THEN /\ generation' = generation + 1
            /\ count' = Reseter(fct, generation + 1)
            /\ target' = Reseter(fct, generation + 1)
            /\ NotifyAllCall(f, "last")
       ELSE /\ count' = count - 1
            /\ pc' = [pc EXCEPT ![f] = "check"]
            /\ UNCHANGED <<fstate, squeue, busy, live, requested, disable, sleeping, joinq, joinee,
                           ops, mvars, cvvars, generation, target>>

(* while (gen == m_generation) m_cond.wait(lock);                          *)
BarrierCheck(f) ==
    /\ Running(f) /\ pc[f] = "check" /\ gen[f] = generation
    /\ WaitCall(f, FALSE)
    /\ UNCHANGED barvars

(* wait() returns (true for the last fiber, false after the loop) and the  *)
(* unique_lock destructor unlocks m_mutex.                                 *)
BarrierLeave(f) ==
    /\ Running(f)
    /\ \/ pc[f] = "last"
       \/ pc[f] = "check" /\ gen[f] # generation
    /\ UnlockCall(f, "idle")
    /\ UNCHANGED <<ops, cvvars, barvars>>

BarrierStep(f) ==
    \/ BarrierLock(f) \/ Arrive(f) \/ BarrierCheck(f) \/ BarrierLeave(f)
    \/ CvWaitStep(f) /\ UNCHANGED barvars

BarrierHandlerStep(s) == CvHandlerStep(s) /\ UNCHANGED barvars

BarrierTerminated ==
    /\ \A f \in Fibers : fstate[f] = "STOPPED"
    /\ \A s \in Strands : squeue[s] = <<>>
    /\ UNCHANGED allvars

BarrierNext ==
    \/ \E s \in Strands : BarrierHandlerStep(s)
    \/ \E f \in Fibers : BarrierStep(f)
    \/ BarrierTerminated

(* As in GreenMutex: running fibers continue, strands with queued          *)
(* handlers are served.                                                    *)
BarrierFairness ==
    /\ \A f \in Fibers : WF_allvars(BarrierStep(f))
    /\ \A s \in Strands : SF_allvars(BarrierHandlerStep(s))

BarrierSpec == BarrierInit /\ [][BarrierNext]_allvars /\ BarrierFairness

-----------------------------------------------------------------------------
(* Properties.                                                             *)

\* m_count is always the number of arrivals the current generation still
\* waits for: the count the generation started from (the constructor's,
\* or the size completion's result) less the fibers that took the current
\* generation in wait() and have not seen it change.  So a generation ends
\* after exactly that many arrivals, however fibers of consecutive
\* generations overlap in the mutex queue and the condition.
ArrivalsCounted ==
    count = target - Cardinality({f \in Fibers : gen[f] = generation})

=============================================================================
