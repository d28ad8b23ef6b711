\* plain mutex, f1 interrupted: does ownership ever reach a fiber that
\* will never release it?
CONSTANTS
    f1 = f1
    f2 = f2
    f3 = f3
    s1 = s1
    s2 = s2
    NoFiber = NoFiber
    Fibers = {f1, f2, f3}
    Strands = {s1, s2}
    StrandOf <- MCStrandOf
    JoinTargets <- MCNoJoins
    InterruptTargets = {f1}
    Workers = 2
    Ops = 1
    Recursive = FALSE
    Timed = FALSE
    MaxDepth = 1

SPECIFICATION InterruptibleSpec

INVARIANT OwnerKnowsIt
