\* condition_variable: two waiters (wait or wait_for) and one notifier
\* (notify_one per waiter or notify_all) on two worker threads.
CONSTANTS
    f1 = f1
    f2 = f2
    f3 = f3
    s1 = s1
    s2 = s2
    NoFiber = NoFiber
    Fibers = {f1, f2, f3}
    Waiters = {f1, f2}
    Notifiers = {f3}
    Strands = {s1, s2}
    StrandOf <- MCStrandOf
    JoinTargets <- MCNoJoins
    InterruptTargets = {}
    Workers = 2
    Ops = 1
    Recursive = FALSE
    Timed = FALSE
    MaxDepth = 1

SPECIFICATION ClientSpec

INVARIANT ClientTypeOK
INVARIANT CvSingleWakeup
INVARIANT WaitReturnsLocked

PROPERTY RuntimeTermination
