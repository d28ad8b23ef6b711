------------------------------ MODULE MCCondVar ------------------------------
(* Two waiters and a notifier around one condition_variable and its mutex: *)
(* f1 and f2 share strand s1, the notifier f3 runs on s2.                  *)
EXTENDS CvClients

CONSTANTS f1, f2, f3, s1, s2

MCStrandOf == [f \in {f1, f2, f3} |-> IF f = f3 THEN s2 ELSE s1]

MCNoJoins == [f \in {f1, f2, f3} |-> {}]
=============================================================================
