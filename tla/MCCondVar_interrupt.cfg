\* condition_variable with interrupts aimed at both waiters: single wake-ups
\* and the relocked mutex on return survive interrupted waits and relocks.
\* An interrupted lock() leaks the mutex (MCGreenMutex_leak), leaving
\* fibers parked for good, so deadlock is not checked.
CONSTANTS
    f1 = f1
    f2 = f2
    f3 = f3
    s1 = s1
    s2 = s2
    NoFiber = NoFiber
    Fibers = {f1, f2, f3}
    Waiters = {f1, f2}
    Notifiers = {f3}
    Strands = {s1, s2}
    StrandOf <- MCStrandOf
    JoinTargets <- MCNoJoins
    InterruptTargets = {f1, f2}
    Workers = 2
    Ops = 1
    Recursive = FALSE
    Timed = FALSE
    MaxDepth = 1

SPECIFICATION ClientSpec

INVARIANT CvSingleWakeup
INVARIANT WaitReturnsLocked
INVARIANT OwnershipAgreement

CHECK_DEADLOCK FALSE
