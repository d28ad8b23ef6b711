---------------------------- MODULE MCScheduler ----------------------------
EXTENDS Scheduler

CONSTANTS f1, f2, f3

Start == [op |-> "start"]
Add == [op |-> "add"]
Join == [op |-> "join"]
Make(f) == [op |-> "make", fib |-> f]

\* greenify twice on one scheduler (the default one is reused), and
\* fibers made before start with a worker added later, and greenify on a
\* pool grown before the root fiber is made.
MCPrograms ==
    { <<Start, Make(f1), Join, Start, Make(f2), Join>>,
      <<Make(f1), Make(f2), Start, Add, Join>>,
      <<Start, Add, Make(f1), Join>> }

\* main starts the scheduler, makes f1 and, later, f2, then joins: f1 may
\* have ended and the heartbeat stopped the io_service before f2 is made.
MCLatePrograms == { <<Start, Make(f1), Make(f2), Join>> }

\* f1 makes f3.
MCChildren == [f \in Fibers |-> IF f = f1 THEN {f3} ELSE {}]

=============================================================================
