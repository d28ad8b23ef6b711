--------------------------- MODULE MCGreenBarrier ---------------------------
(* Three fibers passing a barrier: f1 and f2 share strand s1, f3 runs on   *)
(* s2.                                                                     *)
EXTENDS GreenBarrier

CONSTANTS f1, f2, f3, s1, s2

MCStrandOf == [f \in {f1, f2, f3} |-> IF f = f3 THEN s2 ELSE s1]

\* A size completion for the two generations after the first: three fibers
\* arriving twice each pass generations of 3, 2 and 1.
MCSizeResults == <<2, 1, 3>>

MCNoJoins == [f \in {f1, f2, f3} |-> {}]
=============================================================================
