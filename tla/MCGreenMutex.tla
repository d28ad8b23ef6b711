---------------------------- MODULE MCGreenMutex ----------------------------
(* Three fibers contending for one mutex: f1 and f2 share strand s1 (the   *)
(* stick_with_parent policy), f3 runs on s2.  Nobody joins in this model.  *)
EXTENDS GreenMutex

CONSTANTS f1, f2, f3, s1, s2

MCStrandOf == [f \in {f1, f2, f3} |-> IF f = f3 THEN s2 ELSE s1]

MCNoJoins == [f \in {f1, f2, f3} |-> {}]
=============================================================================
