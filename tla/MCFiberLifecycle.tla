-------------------------- MODULE MCFiberLifecycle --------------------------
(* greenify's root fiber f1, whose handle main holds, owns the handles of  *)
(* f2, on its own strand, and f3, on another.                              *)
EXTENDS FiberLifecycle

CONSTANTS f1, f2, f3, s1, s2

MCStrandOf == [f \in Fibers |-> IF f = f3 THEN s2 ELSE s1]

MCOwner == [f \in Fibers |-> IF f = f1 THEN Main ELSE f1]

\* A chain: f1 owns f2, which owns f3.
MCOwnerChain == [f \in Fibers |-> CASE f = f1 -> Main [] f = f2 -> f1 [] OTHER -> f2]

\* The fibers whose handles each fiber holds (documentation of Owner).
MCJoinTargets == [f \in Fibers |-> {g \in Fibers : MCOwner[g] = f}]

MCJoinTargetsChain == [f \in Fibers |-> {g \in Fibers : MCOwnerChain[g] = f}]

=============================================================================
