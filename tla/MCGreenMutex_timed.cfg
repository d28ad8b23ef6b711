\* recursive_timed_mutex: lock, try_lock and try_lock_for with re-entry to
\* depth 2 and yields inside the critical section, against unlock handoffs
\* and expiring timers, on two worker threads, without interrupts.
CONSTANTS
    f1 = f1
    f2 = f2
    f3 = f3
    s1 = s1
    s2 = s2
    NoFiber = NoFiber
    Fibers = {f1, f2, f3}
    Strands = {s1, s2}
    StrandOf <- MCStrandOf
    JoinTargets <- MCNoJoins
    InterruptTargets = {}
    Workers = 2
    Ops = 3
    Recursive = TRUE
    Timed = TRUE
    MaxDepth = 2

SPECIFICATION Spec

INVARIANT TypeOK
INVARIANT SingleWakeup
INVARIANT OwnershipAgreement
INVARIANT OwnerKnowsIt

PROPERTY LockRefinement
PROPERTY RuntimeTermination
