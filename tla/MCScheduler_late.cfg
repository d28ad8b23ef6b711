\* main makes a second fiber after start() while the first may already have
\* ended: once the heartbeat has stopped the io_service, the second fiber's
\* activation is never run and join() waits on cv_ with nothing left to
\* wake it.  That state has no successor; the run asks whether the fiber
\* runs, so deadlock is not reported in its place.
CONSTANTS
    f1 = f1
    f2 = f2
    f3 = f3
    Fibers = {f1, f2, f3}
    Children <- MCChildren
    Programs <- MCLatePrograms
    StartThreads = 1
    MaxWorkers = 2

SPECIFICATION SchedSpec

PROPERTY MadeFiberRuns

CHECK_DEADLOCK FALSE
