\* An interrupt delivered to a waiter that must queue in the relock of
\* wait(): the pause() in relock_guard's destructor throws and the program
\* calls std::terminate.
CONSTANTS
    f1 = f1
    f2 = f2
    f3 = f3
    s1 = s1
    s2 = s2
    NoFiber = NoFiber
    Fibers = {f1, f2, f3}
    Waiters = {f1, f2}
    Notifiers = {f3}
    Strands = {s1, s2}
    StrandOf <- MCStrandOf
    JoinTargets <- MCNoJoins
    InterruptTargets = {f1, f2}
    Workers = 2
    Ops = 1
    Recursive = FALSE
    Timed = FALSE
    MaxDepth = 1

SPECIFICATION ClientSpec

INVARIANT NoTerminate

CHECK_DEADLOCK FALSE
