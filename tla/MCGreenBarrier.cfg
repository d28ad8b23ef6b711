\* A barrier for three fibers passed twice by each of them on two workers:
\* the last arriver leaves and arrives again while the woken waiters of the
\* first generation are still queued for the mutex.  The barrier is built
\* with each kind of completion; a size completion makes the later
\* generations 2 and 1 fibers wide.
CONSTANTS
    f1 = f1
    f2 = f2
    f3 = f3
    s1 = s1
    s2 = s2
    NoFiber = NoFiber
    Fibers = {f1, f2, f3}
    Strands = {s1, s2}
    StrandOf <- MCStrandOf
    JoinTargets <- MCNoJoins
    InterruptTargets = {}
    Workers = 2
    Ops = 2
    Recursive = FALSE
    Timed = FALSE
    MaxDepth = 1
    BarrierCount = 3
    SizeResults <- MCSizeResults

SPECIFICATION BarrierSpec

INVARIANT BarrierTypeOK
INVARIANT ArrivalsCounted
INVARIANT CvSingleWakeup

PROPERTY RuntimeTermination
