\* greenify run twice on one scheduler, and fibers made before start.
CONSTANTS
    f1 = f1
    f2 = f2
    f3 = f3
    Fibers = {f1, f2, f3}
    Children <- MCChildren
    Programs <- MCPrograms
    StartThreads = 1
    MaxWorkers = 2

SPECIFICATION SchedSpec

INVARIANT SchedTypeOK
PROPERTY JoinAfterAllFibers
PROPERTY SchedulerJoinReturns
PROPERTY MadeFiberRuns
