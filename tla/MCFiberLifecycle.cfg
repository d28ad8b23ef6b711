\* The root fiber joins (with or without propagation), detaches or
\* interrupts its two children; every fiber registers at_thread_exit
\* functions, yields and sleeps, two operations per fiber; f2, on the
\* root's strand, may also throw and wait for reactor operations with the
\* yield token, and is the one fiber interrupted.
CONSTANTS
    f1 = f1
    f2 = f2
    f3 = f3
    s1 = s1
    s2 = s2
    Main = Main
    NoFiber = NoFiber
    Fibers = {f1, f2, f3}
    Strands = {s1, s2}
    StrandOf <- MCStrandOf
    Owner <- MCOwner
    JoinTargets <- MCJoinTargets
    InterruptTargets = {f2}
    Throwers = {f2}
    Catching = {}
    JoinModes = {TRUE, FALSE}
    Reactors = {f2}
    Workers = 2
    Ops = 2

SPECIFICATION LifeSpec

INVARIANT LifeTypeOK
INVARIANT WokenByItsEvent

PROPERTY LifecycleReleased
