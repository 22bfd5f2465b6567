\* start() and stop() from one thread, two waiters, no pause(); a limit may split or end a recording.
SPECIFICATION FairSpec
CONSTANTS
    w1 = w1
    w2 = w2
    t1 = t1
    Waiters <- TwoWaiters
    TimedWaiters <- OneWaiter
    Togglers <- NoThread
    MaxStarts = 2
    AtLimit = {"split", "end"}
    JoinBeforeStart = TRUE
INVARIANTS
    CallbackSeesOpenFile
    NoLostWakeup
    NoTerminate
PROPERTIES
    ImplementsRecording
    EndOfLoopCompletes
    WaitersReturn
