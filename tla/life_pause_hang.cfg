\* pause() between the limit and the cleanup.
SPECIFICATION FairSpec
CONSTANTS
    w1 = w1
    w2 = w2
    t1 = t1
    Waiters <- OneWaiter
    TimedWaiters <- NoThread
    Togglers <- OneToggler
    MaxStarts = 1
    AtLimit = {"end"}
    JoinBeforeStart = TRUE
PROPERTY
    LimitEndsTheWait
