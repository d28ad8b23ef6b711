--------------------------- MODULE MCInterruption ---------------------------
(* Three fibers, two of them sharing a strand (the stick_with_parent       *)
(* policy).  f1 may join f2 or f3 and f2 may join f3 (a parent joining its *)
(* children).                                                              *)
EXTENDS Interruption

CONSTANTS f1, f2, f3, s1, s2

MCStrandOf == [f \in Fibers |-> IF f = f3 THEN s2 ELSE s1]

MCJoinTargets == [f \in Fibers |->
                    CASE f = f1 -> {f2, f3}
                      [] f = f2 -> {f3}
                      [] OTHER  -> {}]

=============================================================================
