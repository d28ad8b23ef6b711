\* Three fibers on two strands that yield, sleep, join one another, nest
\* interruption scopes and call interruption_point, two operations each;
\* f1 and f2 are targets of thread::interrupt().
CONSTANTS
    f1 = f1
    f2 = f2
    f3 = f3
    s1 = s1
    s2 = s2
    NoFiber = NoFiber
    Fibers = {f1, f2, f3}
    Strands = {s1, s2}
    StrandOf <- MCStrandOf
    JoinTargets <- MCJoinTargets
    InterruptTargets = {f1, f2}
    Workers = 2
    Ops = 2

SPECIFICATION InterruptSpec

INVARIANT InterruptTypeOK
INVARIANT ScopesConsistent
INVARIANT RuntimeSingleWakeup
INVARIANT JoinReturnsAfterJoinee

PROPERTY RuntimeTermination
