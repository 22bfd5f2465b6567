\* One signal, anywhere in a recording.
SPECIFICATION RecordFairSpec
CONSTANTS
    Waiters <- NoThread
    TimedWaiters <- NoThread
    Togglers <- NoThread
    MaxStarts = 1
    AtLimit = {"split", "end"}
    JoinBeforeStart = TRUE
    Topics <- MCTopics
    Language <- MCLanguage
    Malformed <- MCMalformed
    Kilo = 8
    SizeModulus = 4096
    CommandLines <- OneCommandLine
    ConfigFiles <- MCConfigFiles
    MaxSignals = 1
PROPERTY
    SignalEndsTheCommand
