\* One recording, ended or split by size and duration, with two files kept, on a disk that
\* fills up, recovers and cannot always be read.
SPECIFICATION Spec
CONSTANTS
    MaxFileSize = 3
    MaxDuration = 2
    MaxSplits = 2
    AppendDate = FALSE
    CheckPeriod = 2
    DiskReports = {"free", "low", "error"}
    MaxBatch = 2
    MaxRecordings = 1
    MaxSplitCount = 3
    MaxTime = 4
    NoTime = NoTime
INVARIANTS
    FreeDiskResumesWriting
    RotationInv
    OvershootIsOneBatch
PROPERTIES
    LowDiskStopsWriting
    RemovesOnlyTheOldest
    SplitsOnlyAtALimit
    OpensNoExistingFile
    DurationIsLimited
