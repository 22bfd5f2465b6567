\* A thread that pauses and resumes, and a writer that splits and may fail to.
SPECIFICATION FairSpec
CONSTANTS
    w1 = w1
    w2 = w2
    t1 = t1
    Waiters <- OneWaiter
    TimedWaiters <- OneWaiter
    Togglers <- OneToggler
    MaxStarts = 2
    AtLimit = {"split"}
    JoinBeforeStart = TRUE
INVARIANTS
    LifecycleInv
    StoppedIsSealed
PROPERTIES
    StopReturns
