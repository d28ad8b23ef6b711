---------------------------- MODULE Interruption ----------------------------
(***************************************************************************)
(* Interruption of a fiber (src/src/thread_object.cpp): thread::interrupt  *)
(* from another agent, the scoped helpers this_thread::                    *)
(* disable_interruption and restore_interruption that change the fiber's   *)
(* interrupt_disable_level_, the check pause() makes when it is resumed   *)
(* (FiberRuntime's WaitReturns) and the explicit this_thread::             *)
(* interruption_point(), over all of FiberRuntime's client operations.     *)
(*                                                                         *)
(* Each fiber's entry opens and closes scopes in LIFO order (they are C++  *)
(* objects with automatic storage), sleeps, yields, joins and calls        *)
(* interruption_point(), Ops operations in all; a thread_interrupted       *)
(* exception unwinds the entry, running the destructors of the scopes      *)
(* still open.  Every target of InterruptTargets is interrupted at most    *)
(* once, at any moment.                                                    *)
(***************************************************************************)
EXTENDS FiberRuntime

VARIABLES
    scopes,   \* the disable/restore objects each fiber has open, innermost last
    called    \* thread::interrupt() has been called on the fiber

scopevars == <<scopes, called>>
allvars == <<rtvars, ops, scopevars>>

\* A disable_interruption object, or a restore_interruption object with its
\* member level_ (the disable level it swapped out).
Scope == [kind : {"disable"}] \cup [kind : {"restore"}, saved : Nat]

InterruptTypeOK ==
    /\ RuntimeTypeOK
    /\ pc \in [Fibers -> {"idle", "sleep_wait", "join_pause", "join_wait", "unwind", "done"}]
    /\ scopes \in [Fibers -> Seq(Scope)]
    /\ called \in [Fibers -> BOOLEAN]

InterruptInit ==
    /\ RuntimeInit
    /\ scopes = [f \in Fibers |-> <<>>]
    /\ called = [f \in Fibers |-> FALSE]

\* The disable level a stack of scopes stands for, read off the stack
\* alone: a restore scope enables interruption, each disable scope opened
\* inside the innermost one adds a level.
RECURSIVE LevelOf(_)
LevelOf(stack) ==
    IF stack = <<>> THEN 0
    ELSE IF Last(stack).kind = "restore" THEN 0
    ELSE 1 + LevelOf(Front(stack))

(* disable_interruption(): under mtx_, ++interrupt_disable_level_.         *)
DisableEnter(f) ==
    /\ Running(f) /\ pc[f] = "idle" /\ ops[f] > 0
    /\ ops' = [ops EXCEPT ![f] = @ - 1]
    /\ disable' = [disable EXCEPT ![f] = @ + 1]
    /\ scopes' = [scopes EXCEPT ![f] = Append(@, [kind |-> "disable"])]
    /\ UNCHANGED <<fstate, pc, squeue, busy, live, requested, sleeping, joinq, joinee, called>>

(* restore_interruption(): under mtx_, swap the level with level_, which   *)
(* starts at 0: interruption is enabled and the old level kept.            *)
RestoreEnter(f) ==
    /\ Running(f) /\ pc[f] = "idle" /\ ops[f] > 0
    /\ ops' = [ops EXCEPT ![f] = @ - 1]
    /\ disable' = [disable EXCEPT ![f] = 0]
    /\ scopes' = [scopes EXCEPT ![f] = Append(@, [kind |-> "restore", saved |-> disable[f]])]
    /\ UNCHANGED <<fstate, pc, squeue, busy, live, requested, sleeping, joinq, joinee, called>>

\* Mutant of ScopeExit: ~disable_interruption decrements twice.
ScopeExitDecrementsTwice(f) ==
    /\ Running(f) /\ pc[f] \in {"idle", "unwind"} /\ scopes[f] # <<>>
    /\ disable' = [disable EXCEPT ![f] =
                     IF Last(scopes[f]).kind = "disable" THEN @ - 2 ELSE Last(scopes[f]).saved]
    /\ scopes' = [scopes EXCEPT ![f] = Front(@)]
    /\ UNCHANGED <<fstate, pc, squeue, busy, live, requested, sleeping, joinq, joinee, ops, called>>

\* Mutant of ScopeExit: ~restore_interruption does not swap the level back.
ScopeExitKeepsLevel(f) ==
    /\ Running(f) /\ pc[f] \in {"idle", "unwind"} /\ scopes[f] # <<>>
    /\ disable' = [disable EXCEPT ![f] = IF Last(scopes[f]).kind = "disable" THEN @ - 1 ELSE @]
    /\ scopes' = [scopes EXCEPT ![f] = Front(@)]
    /\ UNCHANGED <<fstate, pc, squeue, busy, live, requested, sleeping, joinq, joinee, ops, called>>

(* The innermost scope ends, at the end of its block or while an exception *)
(* unwinds the entry: ~disable_interruption decrements the level,          *)
(* ~restore_interruption swaps level_ back in.                             *)
ScopeExit(f) ==
    /\ Running(f) /\ pc[f] \in {"idle", "unwind"} /\ scopes[f] # <<>>
    /\ disable' = [disable EXCEPT ![f] =
                     IF Last(scopes[f]).kind = "disable" THEN @ - 1 ELSE Last(scopes[f]).saved]
    /\ scopes' = [scopes EXCEPT ![f] = Front(@)]
    /\ UNCHANGED <<fstate, pc, squeue, busy, live, requested, sleeping, joinq, joinee, ops, called>>

(* interruption_point(): under mtx_, throw thread_interrupted if           *)
(* interrupt_requested_; the disable level is not consulted.               *)
InterruptionPoint(f) ==
    /\ Running(f) /\ pc[f] = "idle" /\ ops[f] > 0
    /\ ops' = [ops EXCEPT ![f] = @ - 1]
    /\ pc' = [pc EXCEPT ![f] = IF requested[f] THEN "unwind" ELSE "idle"]
    /\ UNCHANGED <<fstate, squeue, busy, live, requested, disable, sleeping, joinq, joinee,
                   scopevars>>

(* thread::interrupt() called by another agent (FiberRuntime's Interrupt). *)
InterruptCall(f) ==
    /\ ~called[f]
    /\ called' = [called EXCEPT ![f] = TRUE]
    /\ Interrupt(f)
    /\ UNCHANGED <<ops, scopes>>

(* The entry returns or the exception leaves it once every scope object    *)
(* has been destroyed.                                                     *)
ScopedReturns(f) ==
    /\ scopes[f] = <<>>
    /\ ClientReturns(f)
    /\ UNCHANGED scopevars

ScopeStep(f) ==
    \/ DisableEnter(f) \/ RestoreEnter(f) \/ ScopeExit(f) \/ InterruptionPoint(f)
    \/ (ClientYield(f) \/ ClientSleep(f) \/ ClientJoin(f) \/ JoinPause(f) \/ WaitReturns(f))
       /\ UNCHANGED scopevars
    \/ ScopedReturns(f)

ScopeHandlerStep(s) == (RunActivate(s) \/ RunExit(s)) /\ UNCHANGED scopevars

ScopeTimerStep(f) == SleepTimerFires(f) /\ UNCHANGED scopevars

ScopesTerminated == RuntimeTerminated /\ UNCHANGED scopevars

InterruptNext ==
    \/ \E s \in Strands : ScopeHandlerStep(s)
    \/ \E f \in Fibers : ScopeStep(f) \/ ScopeTimerStep(f) \/ InterruptCall(f)
    \/ ScopesTerminated

(* A running fiber keeps running: its worker is committed to it.  A strand *)
(* with queued handlers is served by some worker whenever one is free      *)
(* infinitely often (workers can be taken by other strands, hence strong   *)
(* fairness).  Armed timers expire.  Interrupts are not promised.          *)
InterruptFairness ==
    /\ \A f \in Fibers : WF_allvars(ScopeStep(f)) /\ WF_allvars(ScopeTimerStep(f))
    /\ \A s \in Strands : SF_allvars(ScopeHandlerStep(s))

InterruptSpec == InterruptInit /\ [][InterruptNext]_allvars /\ InterruptFairness

-----------------------------------------------------------------------------
(* Properties.                                                             *)

\* interrupt_disable_level_ is always the level the open scopes stand for,
\* and every open restore_interruption holds the level its enclosing
\* scopes stand for: however disable and restore scopes nest, and when an
\* exception unwinds them, the destructors' decrements and swaps give
\* back exactly the level each constructor found.
ScopesConsistent ==
    \A f \in Fibers :
        /\ disable[f] = LevelOf(scopes[f])
        /\ \A i \in 1..Len(scopes[f]) :
              scopes[f][i].kind = "restore" =>
                  scopes[f][i].saved = LevelOf(SubSeq(scopes[f], 1, i - 1))

=============================================================================
