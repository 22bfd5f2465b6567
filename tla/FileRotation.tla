---------------------------- MODULE FileRotation ----------------------------
(***************************************************************************)
(* The files of a recording, as the polling thread of a Recorder writes,   *)
(* limits, splits and removes them (record_sample, check_limits, do_split, *)
(* check_num_splits, scheduled_check_disk), under a clock that may advance *)
(* and a disk that may fill up between any two steps.  Samples all have    *)
(* size 1, and OutputConfig::min_space is set.                             *)
(*                                                                         *)
(* The caller stops a recording before it starts the next one; what it may *)
(* do otherwise is the subject of module RecorderLifecycle.                *)
(***************************************************************************)
EXTENDS Integers, Sequences

CONSTANTS
    MaxFileSize,    \* OutputConfig::max_file_size, 0 = unlimited
    MaxDuration,    \* OutputConfig::max_duration_seconds, 0 = unlimited
    MaxSplits,      \* OutputConfig::max_splits, 0 = unlimited
    AppendDate,     \* OutputConfig::append_date
    CheckPeriod,    \* seconds between two looks at the disk (20 in the code)
    DiskReports,    \* what statvfs() may find: "free", "low" or "error"
    MaxBatch,       \* most samples that one pass over the readers takes
    MaxRecordings,  \* bound: how often start() opens a file
    MaxSplitCount,  \* bound: how many splits of a recording succeed
    MaxTime,        \* bound: how far the clock runs
    NoTime          \* time_point{}: end_time before a recording has ended

ASSUME RotationAssumption ==
    /\ AppendDate \in BOOLEAN
    /\ {MaxFileSize, MaxDuration, MaxSplits, MaxBatch} \subseteq Nat
    /\ {MaxRecordings, MaxSplitCount, MaxTime} \subseteq Nat
    /\ CheckPeriod \in Nat \ {0}
    /\ DiskReports \subseteq {"free", "low", "error"}
    /\ NoTime \notin Nat

VARIABLES
    split,           \* OutputConfig::split, which init() has set for good
    at,              \* where the polling loop is: "stopped", "take" or "limits"
    current,         \* McapWriter::current_path_
    files,           \* the recorder's files on disk: their payload and when they began
    splitFiles,      \* split_files_
    splitCount,      \* split_count_
    bytesWritten,    \* McapWriterStats::bytes_written
    startTime,       \* RecorderStats::start_time
    endTime,         \* RecorderStats::end_time
    writingEnabled,  \* writing_enabled_
    checkDiskNext,   \* check_disk_next_
    recordings,      \* how many recordings began
    now,             \* the clock
    disk,            \* what statvfs() finds now
    diskSince        \* since when

vars == <<split, at, current, files, splitFiles, splitCount, bytesWritten, startTime, endTime,
          writingEnabled, checkDiskNext, recordings, now, disk, diskSince>>

environment == <<split, now, disk, diskSince>>

Time == 0..MaxTime
NoName == [date |-> 0, index |-> -2]

\* A file path: prefix, date and split number, -1 for the only file of a recording.
Name == [date : Time, index : -2..MaxSplitCount + 1]

\* McapWriter::generate_filename().
FileName(index) == [date |-> IF AppendDate THEN now ELSE 0, index |-> index]

TypeOK ==
    /\ split \in BOOLEAN
    /\ at \in {"stopped", "take", "limits"}
    /\ DOMAIN files \subseteq Name
    /\ files \in [DOMAIN files -> [bytes : Nat, opened : Time]]
    /\ current \in Name
    /\ splitFiles \in Seq(Name)
    /\ splitCount \in 0..MaxSplitCount + 1
    /\ bytesWritten \in Nat
    /\ startTime \in Time
    /\ endTime \in Time \cup {NoTime}
    /\ writingEnabled \in BOOLEAN
    /\ checkDiskNext \in Nat
    /\ recordings \in 0..MaxRecordings
    /\ now \in Time
    /\ disk \in DiskReports
    /\ diskSince \in Time

\* After init(): the writer is new and so are the counters.
Init ==
    /\ split \in BOOLEAN
    /\ at = "stopped"
    /\ current = NoName
    /\ files = <<>>
    /\ splitFiles = <<>>
    /\ splitCount = 0
    /\ bytesWritten = 0
    /\ startTime = 0
    /\ endTime = NoTime
    /\ writingEnabled = TRUE
    /\ checkDiskNext = 0
    /\ recordings = 0
    /\ now = 0
    /\ disk \in DiskReports
    /\ diskSince = 0

\* The files after one is created (or truncated) and some are removed.
Created(name, removed) ==
    [f \in (DOMAIN files \ removed) \cup {name} |->
        IF f = name THEN [bytes |-> 0, opened |-> now] ELSE files[f]]

\* RecorderStats::duration_seconds(): up to the end of the recording, if it has one.
Duration == (IF endTime = NoTime THEN now ELSE endTime) - startTime

LimitReached_AgeOnlyIfConfigured ==
    IF MaxDuration > 0 THEN Duration >= MaxDuration
    ELSE MaxFileSize > 0 /\ bytesWritten >= MaxFileSize

LimitReached_LaterThanTheLimit ==
    \/ MaxDuration > 0 /\ Duration > MaxDuration
    \/ MaxFileSize > 0 /\ bytesWritten >= MaxFileSize

\* check_limits().
LimitReached ==
    \/ MaxDuration > 0 /\ Duration >= MaxDuration
    \/ MaxFileSize > 0 /\ bytesWritten >= MaxFileSize

-----------------------------------------------------------------------------
(* Recorder::start(): McapWriter::open() keeps the counters of the writer. *)

FirstFile == FileName(IF split THEN 0 ELSE -1)

Start ==
    /\ at = "stopped"
    /\ recordings < MaxRecordings
    /\ recordings' = recordings + 1
    /\ at' = "take"
    /\ current' = FirstFile
    /\ files' = Created(FirstFile, {})
    /\ splitFiles' = IF split THEN <<FirstFile>> ELSE <<>>
    /\ splitCount' = 0
    /\ startTime' = now
    /\ writingEnabled' = TRUE
    /\ checkDiskNext' = now
    /\ UNCHANGED <<bytesWritten, endTime, environment>>

\* McapWriter::open() has stored the path by the time it fails.
StartFails ==
    /\ at = "stopped"
    /\ current' = FirstFile
    /\ splitFiles' = <<>>
    /\ splitCount' = 0
    /\ UNCHANGED <<at, files, bytesWritten, startTime, endTime, writingEnabled,
                   checkDiskNext, recordings, environment>>

WritingAfterCheck_NeverResumes ==
    IF now < checkDiskNext \/ disk = "error" THEN writingEnabled
    ELSE writingEnabled /\ disk = "free"

\* scheduled_check_disk() and check_disk(): does writing_enabled_ hold after them?  When
\* statvfs() fails the flag stays as it was.
WritingAfterCheck ==
    IF now < checkDiskNext \/ disk = "error" THEN writingEnabled ELSE disk = "free"

\* One pass over the readers: its samples go through record_sample(), which looks at the
\* disk when that is due and drops the sample when writing is disabled.
TakeSamplesWithin(period) ==
    /\ at = "take"
    /\ at' = "limits"
    /\ \/ UNCHANGED <<writingEnabled, checkDiskNext, bytesWritten, files>>
       \/ \E n \in 1..MaxBatch :
             LET recorded == IF WritingAfterCheck THEN n ELSE 0 IN
             /\ writingEnabled' = WritingAfterCheck
             /\ checkDiskNext' = IF now < checkDiskNext THEN checkDiskNext ELSE now + period
             /\ bytesWritten' = bytesWritten + recorded
             /\ files' = [files EXCEPT ![current].bytes = @ + recorded]
    /\ UNCHANGED <<current, splitFiles, splitCount, startTime, endTime, recordings,
                   environment>>

TakeSamples_LooksHalfAsOften == TakeSamplesWithin(2 * CheckPeriod)

TakeSamples == TakeSamplesWithin(CheckPeriod)

WithinLimits ==
    /\ at = "limits"
    /\ ~LimitReached
    /\ at' = "take"
    /\ UNCHANGED <<current, files, splitFiles, splitCount, bytesWritten, startTime, endTime,
                   writingEnabled, checkDiskNext, recordings, environment>>

\* Without split the limit ends the loop, and the loop's cleanup the recording.
LimitEndsRecording ==
    /\ at = "limits"
    /\ LimitReached /\ ~split
    /\ at' = "stopped"
    /\ endTime' = now
    /\ UNCHANGED <<current, files, splitFiles, splitCount, bytesWritten, startTime,
                   writingEnabled, checkDiskNext, recordings, environment>>

KeptSplits_OneLess(list) ==
    IF MaxSplits = 0 \/ Len(list) < MaxSplits THEN list
    ELSE SubSeq(list, Len(list) - MaxSplits + 2, Len(list))

\* check_num_splits(): the oldest files over the maximum leave the list.
KeptSplits(list) ==
    IF MaxSplits = 0 \/ Len(list) <= MaxSplits THEN list
    ELSE SubSeq(list, Len(list) - MaxSplits + 1, Len(list))

\* do_split(): McapWriter::reopen() resets the counters and creates the next file, the
\* list is trimmed, std::remove() may fail for what falls out of it.
SplitInto(name) ==
    LET list    == Append(splitFiles, name)
        kept    == KeptSplits(list)
        dropped == {list[i] : i \in 1..Len(list) - Len(kept)}
    IN
    /\ at = "limits"
    /\ LimitReached /\ split
    /\ splitCount < MaxSplitCount
    /\ at' = "take"
    /\ splitCount' = splitCount + 1
    /\ current' = name
    /\ \E removed \in SUBSET dropped : files' = Created(name, removed)
    /\ splitFiles' = kept
    /\ UNCHANGED <<endTime, writingEnabled, checkDiskNext, recordings, environment>>

SplitFile_KeepsBytes ==
    SplitInto(FileName(splitCount + 1)) /\ startTime' = now /\ UNCHANGED bytesWritten

SplitFile_CountsAfterwards ==
    SplitInto(FileName(splitCount)) /\ bytesWritten' = 0 /\ startTime' = now

SplitFile ==
    /\ SplitInto(FileName(splitCount + 1))
    /\ bytesWritten' = 0
    /\ startTime' = now

\* reopen() fails, at the bound it has to: the loop ends, and with it the recording.
SplitFails ==
    /\ at = "limits"
    /\ LimitReached /\ split
    /\ at' = "stopped"
    /\ splitCount' = splitCount + 1
    /\ current' = FileName(splitCount + 1)
    /\ bytesWritten' = 0
    /\ endTime' = now
    /\ UNCHANGED <<files, splitFiles, startTime, writingEnabled, checkDiskNext,
                   recordings, environment>>

\* Recorder::stop() between two passes of the loop.
Stop ==
    /\ at = "take"
    /\ at' = "stopped"
    /\ endTime' = now
    /\ UNCHANGED <<current, files, splitFiles, splitCount, bytesWritten, startTime,
                   writingEnabled, checkDiskNext, recordings, environment>>

-----------------------------------------------------------------------------
(* The environment.                                                        *)

Tick ==
    /\ now < MaxTime
    /\ now' = now + 1
    /\ UNCHANGED <<at, current, files, splitFiles, splitCount, bytesWritten, startTime,
                   endTime, writingEnabled, checkDiskNext, recordings, split, disk, diskSince>>

DiskChanges ==
    /\ disk' \in DiskReports \ {disk}
    /\ diskSince' = now
    /\ UNCHANGED <<at, current, files, splitFiles, splitCount, bytesWritten, startTime,
                   endTime, writingEnabled, checkDiskNext, recordings, split, now>>

Next ==
    \/ Start \/ StartFails \/ TakeSamples \/ WithinLimits \/ LimitEndsRecording
    \/ SplitFile \/ SplitFails \/ Stop
    \/ Tick \/ DiskChanges

Spec == Init /\ [][Next]_vars

-----------------------------------------------------------------------------
(* Properties.                                                             *)

\* While a split recording runs, its list holds the newest files in order, no more than
\* max_splits of them, all on disk and the one being written last.
ListIsTheNewestFiles ==
    split /\ at # "stopped" =>
        /\ splitFiles # <<>>
        /\ splitFiles[Len(splitFiles)] = current
        /\ MaxSplits > 0 => Len(splitFiles) <= MaxSplits
        /\ \A i \in 1..Len(splitFiles) :
              /\ splitFiles[i] \in DOMAIN files
              /\ splitFiles[i].index = splitCount - Len(splitFiles) + i

\* Retention removes a file only when max_splits newer ones of the recording stay.
RemovesOnlyTheOldest ==
    [][\A f \in DOMAIN files \ DOMAIN files' :
          /\ Len(splitFiles') = MaxSplits
          /\ \A i \in 1..Len(splitFiles') : splitFiles'[i].index > f.index]_vars

\* A file exceeds max_file_size by less than one pass over the readers, since the limit
\* is tested between two passes.
OvershootIsOneBatch ==
    MaxFileSize > 0 => \A f \in DOMAIN files : files[f].bytes < MaxFileSize + MaxBatch

\* do_split() gives a file up only when it is full or old enough.
SplitsOnlyAtALimit ==
    [][at = "limits" /\ at' = "take" /\ current' # current =>
          \/ MaxFileSize > 0 /\ files[current].bytes >= MaxFileSize
          \/ MaxDuration > 0 /\ now - files[current].opened >= MaxDuration]_vars

\* A split never truncates a file that is there already.
OpensNoExistingFile ==
    [][at = "limits" /\ at' = "take" /\ splitCount' # splitCount
          => current' \notin DOMAIN files]_vars

\* A disk that has been low for CheckPeriod stops the writing, whatever the last look at
\* it found ...
LowDiskStopsWriting ==
    [][disk = "low" /\ now - diskSince >= CheckPeriod => bytesWritten' <= bytesWritten]_vars

\* ... and once it has been free for CheckPeriod, the next sample is recorded again.
FreeDiskResumesWriting ==
    at = "take" /\ disk = "free" /\ now - diskSince >= CheckPeriod => WritingAfterCheck

\* McapWriter::current_file_size() is the payload of the file being written.
CurrentFileSizeIsExact == at # "stopped" => bytesWritten = files[current].bytes

\* No recording goes on into a file that is MaxDuration old: check_limits() either ends
\* it or splits it.
DurationIsLimited ==
    [][at = "limits" /\ at' = "take" /\ MaxDuration > 0
          => now - files'[current'].opened < MaxDuration]_vars

-----------------------------------------------------------------------------
(* The inductive invariants of FileRotation_proofs.                        *)

\* What a running recording rests on: its file is there and a split may still come.
RunningInv ==
    at # "stopped" => current \in DOMAIN files /\ splitCount <= MaxSplitCount

\* The next look at the disk is due within CheckPeriod; if that is later than CheckPeriod
\* after the last change of the disk, the look before it found what the disk is now.
DiskInv ==
    /\ checkDiskNext <= now + CheckPeriod
    /\ diskSince <= now
    /\ checkDiskNext > diskSince + CheckPeriod /\ checkDiskNext > now =>
          /\ disk = "low" => ~writingEnabled
          /\ disk = "free" => writingEnabled

\* The inductive invariant of every recording: types, the file being written, the list of
\* the splits and the schedule of the disk checks.
RotationInv == TypeOK /\ RunningInv /\ ListIsTheNewestFiles /\ DiskInv

\* In the first recording the counters are those of the file being written, and the
\* split numbers of the files are those given out so far ...
FirstRecordingInv ==
    /\ recordings = 0 => /\ at = "stopped" /\ bytesWritten = 0 /\ endTime = NoTime
                         /\ DOMAIN files = {}
    /\ at # "stopped" => /\ bytesWritten = files[current].bytes
                         /\ startTime = files[current].opened
                         /\ endTime = NoTime
                         /\ \A f \in DOMAIN files : f.index <= splitCount

\* ... which the last test of the limits found below its maximum.
SizeInv ==
    MaxFileSize > 0 =>
        /\ \A f \in DOMAIN files : files[f].bytes < MaxFileSize + MaxBatch
        /\ at = "take" => bytesWritten < MaxFileSize
=============================================================================
