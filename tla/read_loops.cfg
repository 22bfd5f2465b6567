\* Batches of 2, histories of 3 and up to five arrivals: a batch that is full, a cache that
\* overflows, stamps that are missing, late or repeated, windows that slide;
\* and for ps batches of 1 and one change of five entities.
SPECIFICATION LoopsSpec
CONSTANTS
    ra = ra
    rb = rb
    Readers <- TwoReaders
    EchoReader = ra
    Stamps <- FewStamps
    Counts <- FewCounts
    Windows <- FewWindows
    MaxSamples = 2
    HistoryDepth = 3
    EchoArrivals = 5
    HzArrivals = 3
    MaxNow = 1
    pa = pa
    pb = pb
    ta = ta
    tb = tb
    tc = tc
    Entities <- FewEntities
    LateEntities <- ComeLater
    Self = pa
    DcpsTopics <- Builtin
    Filters <- FewFilters
    NoFilter = NoFilter
    NoGuid = NoGuid
    PsBatch = 1
    MaxPsChanges = 1
INVARIANTS
    EchoInv
    HzInv
    PsInv
PROPERTY
    DataIsShown
