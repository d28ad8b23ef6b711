\* thread_group g0: the root creates, adds, joins, removes and destroys
\* while two members read the list and use a fiber_specific_ptr; one
\* member then runs an async_executor of two workers on the group gE, on
\* two worker threads; f1 also runs async() and gets its result; the root
\* ends with an async_function and an operation started with use_future.
CONSTANTS
    m = m
    f1 = f1
    f2 = f2
    w1 = w1
    w2 = w2
    a1 = a1
    x = x
    h = h
    s0 = s0
    s1 = s1
    s2 = s2
    s3 = s3
    s4 = s4
    g0 = g0
    gE = gE
    gF = gF
    NoFiber = NoFiber
    Fibers = {m, f1, f2, w1, w2, a1, x, h}
    Strands = {s0, s1, s2, s3, s4}
    StrandOf <- MCStrandOf
    JoinTargets <- MCNoJoins
    InterruptTargets = {}
    Workers = 2
    Ops = 0
    Main = m
    Groups = {g0, gE, gF}
    Program <- MCProgram

SPECIFICATION AsyncSpec

INVARIANT AsyncTypeOK
INVARIANT FssDisposedOnce

PROPERTY JoinAllJoinedAll
PROPERTY ExecutorRunsEachTaskOnce
PROPERTY FutureGetReturnsValue
PROPERTY RuntimeTermination
