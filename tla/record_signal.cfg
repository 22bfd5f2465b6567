\* One recording by each of the command lines, with each of the files, and two signals at
\* any points of it.
SPECIFICATION RecordFairSpec
CONSTANTS
    Waiters <- NoThread
    TimedWaiters <- NoThread
    Togglers <- NoThread
    MaxStarts = 1
    AtLimit = {"split", "end"}
    JoinBeforeStart = TRUE
    Topics <- MCTopics
    Language <- MCLanguage
    Malformed <- MCMalformed
    Kilo = 8
    SizeModulus = 4096
    CommandLines <- MCCommandLines
    ConfigFiles <- MCConfigFiles
    MaxSignals = 2
INVARIANTS
    ExitInv
    StatisticsAreFinal
    RecordsTheTopicsAsked
    CommandLineOverridesFile
    EndsByItselfOnlyAtALimit
PROPERTIES
    SignalEndsOrHangs
    LimitEndsOrHangs
