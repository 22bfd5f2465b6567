------------------------- MODULE FileRotation_proofs -------------------------
(***************************************************************************)
(* What a recorder keeps and what it removes, for every limit, every       *)
(* number of files to keep and every behaviour of the clock and the disk.  *)
(***************************************************************************)
EXTENDS FileRotation, SequenceTheorems, TLAPS

-----------------------------------------------------------------------------
(* The names and the list.                                                 *)

\* generate_filename() yields a name with the split number it is given.
LEMMA FileNameType ==
    ASSUME now \in Time, NEW index \in -2..MaxSplitCount + 1
    PROVE  FileName(index) \in Name /\ FileName(index).index = index
<1>1. 0 \in Time
  BY RotationAssumption DEF Time, RotationAssumption
<1> QED BY <1>1 DEF FileName, Name

\* check_num_splits() keeps the end of the list: at most MaxSplits files of it, and
\* exactly so many when it drops any.
LEMMA KeptIsTheEnd ==
    ASSUME NEW list \in Seq(Name), list # <<>>
    PROVE  LET kept == KeptSplits(list)
               k    == Len(list) - Len(kept)
           IN  /\ kept \in Seq(Name)
               /\ kept # <<>>
               /\ k \in 0..Len(list) - 1
               /\ \A i \in 1..Len(kept) : kept[i] = list[k + i]
               /\ MaxSplits > 0 => Len(kept) <= MaxSplits
               /\ k # 0 => Len(kept) = MaxSplits
<1> MaxSplits \in Nat
  BY RotationAssumption DEF RotationAssumption
<1>0. Len(list) \in Nat \ {0}
  BY EmptySeq
<1>1. CASE MaxSplits = 0 \/ Len(list) <= MaxSplits
  <2>1. KeptSplits(list) = list
    BY <1>1 DEF KeptSplits
  <2>2. \A i \in 1..Len(list) : Len(list) - Len(list) + i = i
    BY <1>0
  <2> QED BY <1>0, <1>1, <2>1, <2>2
<1>2. CASE MaxSplits # 0 /\ Len(list) > MaxSplits
  <2> DEFINE m == Len(list) - MaxSplits + 1
             kept == SubSeq(list, m, Len(list))
  <2>1. m \in 2..Len(list)
    BY <1>0, <1>2
  <2>2. \A i \in m..Len(list) : list[i] \in Name
    BY <2>1, <1>0, ElementOfSeq
  <2>3. /\ kept \in Seq(Name)
        /\ Len(kept) = MaxSplits
        /\ \A i \in 1..MaxSplits : kept[i] = list[m + i - 1]
    BY <2>1, <2>2, <1>0, <1>2, SubSeqProperties
  <2>4. KeptSplits(list) = kept
    BY <1>0, <1>2 DEF KeptSplits
  <2>5. kept # <<>>
    BY <2>3, <1>2, EmptySeq
  <2>6. \A i \in 1..MaxSplits : m + i - 1 = (Len(list) - MaxSplits) + i
    BY <1>0
  <2> HIDE DEF kept
  <2> QED BY <2>1, <2>3, <2>4, <2>5, <2>6, <1>0, <1>2
<1> QED BY <1>0, <1>1, <1>2

-----------------------------------------------------------------------------
(* Types.                                                                  *)

\* Nothing but a few bytes and time stamps is known of the files: creating one keeps
\* their type.
LEMMA CreatedType ==
    ASSUME TypeOK, NEW name \in Name, NEW removed
    PROVE  /\ DOMAIN Created(name, removed) = (DOMAIN files \ removed) \cup {name}
           /\ DOMAIN Created(name, removed) \subseteq Name
           /\ Created(name, removed)
                 \in [DOMAIN Created(name, removed) -> [bytes : Nat, opened : Time]]
BY DEF TypeOK, Created

-----------------------------------------------------------------------------
(* A split.                                                                *)

\* do_split() and check_num_splits(): the list stays the newest files, all of them on
\* disk, and what leaves the disk is older than everything in the list.
LEMMA SplitKeepsTheNewest ==
    ASSUME TypeOK, RunningInv, ListIsTheNewestFiles, SplitFile
    PROVE  /\ splitCount' = splitCount + 1
           /\ splitCount' \in 0..MaxSplitCount
           /\ current' \in Name
           /\ current' \in DOMAIN files'
           /\ DOMAIN files' \subseteq Name
           /\ files' \in [DOMAIN files' -> [bytes : Nat, opened : Time]]
           /\ splitFiles' \in Seq(Name)
           /\ splitFiles' # <<>>
           /\ splitFiles'[Len(splitFiles')] = current'
           /\ MaxSplits > 0 => Len(splitFiles') <= MaxSplits
           /\ \A i \in 1..Len(splitFiles') :
                 /\ splitFiles'[i] \in DOMAIN files'
                 /\ splitFiles'[i].index = splitCount' - Len(splitFiles') + i
           /\ \A f \in DOMAIN files \ DOMAIN files' :
                 /\ Len(splitFiles') = MaxSplits
                 /\ f.index <= splitCount' - Len(splitFiles')
<1> DEFINE name    == FileName(splitCount + 1)
           list    == Append(splitFiles, name)
           kept    == KeptSplits(list)
           k       == Len(list) - Len(kept)
           dropped == {list[i] : i \in 1..k}
<1>1. /\ at = "limits" /\ split
      /\ splitCount < MaxSplitCount
      /\ splitCount' = splitCount + 1
      /\ current' = name
      /\ splitFiles' = kept
  BY DEF SplitFile, SplitInto
<1>2. PICK removed \in SUBSET dropped : files' = Created(name, removed)
  BY DEF SplitFile, SplitInto
<1>3. /\ splitCount \in Nat /\ MaxSplitCount \in Nat /\ MaxSplits \in Nat
      /\ splitCount + 1 \in 0..MaxSplitCount
  BY <1>1, RotationAssumption DEF TypeOK, RotationAssumption
<1>4. name \in Name /\ name.index = splitCount + 1
  <2>1. splitCount + 1 \in -2..MaxSplitCount + 1 /\ now \in Time
    BY <1>3 DEF TypeOK
  <2> QED BY <2>1, FileNameType
<1>5. splitFiles \in Seq(Name) /\ Len(splitFiles) \in Nat \ {0}
  BY <1>1, EmptySeq DEF TypeOK, ListIsTheNewestFiles
<1>6. /\ list \in Seq(Name) /\ list # <<>>
      /\ Len(list) = Len(splitFiles) + 1
      /\ list[Len(list)] = name
      /\ \A i \in 1..Len(splitFiles) : list[i] = splitFiles[i]
  BY <1>4, <1>5
<1> HIDE DEF name, list
<1>7. \A i \in 1..Len(list) : list[i].index = splitCount + 1 - Len(list) + i
  <2> TAKE i \in 1..Len(list)
  <2>1. CASE i = Len(list)
    BY <2>1, <1>3, <1>4, <1>5, <1>6
  <2>2. CASE i \in 1..Len(splitFiles)
    BY <2>2, <1>1, <1>3, <1>5, <1>6 DEF ListIsTheNewestFiles
  <2> QED BY <2>1, <2>2, <1>5, <1>6
<1>8. \A i \in 1..Len(list) : list[i] \in DOMAIN files \cup {name}
  <2> TAKE i \in 1..Len(list)
  <2>1. CASE i = Len(list)
    BY <2>1, <1>6
  <2>2. CASE i \in 1..Len(splitFiles)
    BY <2>2, <1>1, <1>6 DEF ListIsTheNewestFiles
  <2> QED BY <2>1, <2>2, <1>5, <1>6
<1>9. /\ kept \in Seq(Name) /\ kept # <<>>
      /\ k \in 0..Len(list) - 1
      /\ \A i \in 1..Len(kept) : kept[i] = list[k + i]
      /\ MaxSplits > 0 => Len(kept) <= MaxSplits
      /\ k # 0 => Len(kept) = MaxSplits
  BY <1>6, KeptIsTheEnd
<1>10. Len(kept) \in Nat \ {0} /\ Len(list) \in Nat /\ Len(list) = k + Len(kept)
  BY <1>5, <1>6, <1>9, EmptySeq
<1> HIDE DEF kept, k
<1>11. kept[Len(kept)] = name
  <2>1. Len(kept) \in 1..Len(kept)
    BY <1>10
  <2>2. kept[Len(kept)] = list[k + Len(kept)]
    BY <2>1, <1>9
  <2> QED BY <2>2, <1>6, <1>10
<1>12. \A i \in 1..Len(kept) : kept[i].index = splitCount + 1 - Len(kept) + i
  <2> TAKE i \in 1..Len(kept)
  <2>1. k + i \in 1..Len(list) /\ kept[i] = list[k + i]
    BY <1>9, <1>10
  <2>2. kept[i].index = splitCount + 1 - Len(list) + (k + i)
    BY <2>1, <1>7
  <2>3. k \in Nat
    BY <1>9, <1>10
  <2> QED BY <2>2, <2>3, <1>3, <1>10
<1>13. \A d \in dropped : d.index <= splitCount + 1 - Len(kept)
  <2> TAKE d \in dropped
  <2>1. PICK j \in 1..k : d = list[j]
    OBVIOUS
  <2>2. j \in 1..Len(list) /\ j <= k
    BY <1>9, <1>10
  <2> QED BY <2>1, <2>2, <1>3, <1>7, <1>9, <1>10
<1>14. \A i \in 1..Len(kept) : kept[i] \notin dropped
  BY <1>3, <1>10, <1>12, <1>13
<1>15. \A i \in 1..Len(kept) : kept[i] \in DOMAIN files \cup {name}
  BY <1>8, <1>9, <1>10
<1>16. /\ DOMAIN files' = (DOMAIN files \ removed) \cup {name}
       /\ DOMAIN files' \subseteq Name
       /\ files' \in [DOMAIN files' -> [bytes : Nat, opened : Time]]
  BY <1>2, <1>4, CreatedType
<1>17. \A i \in 1..Len(kept) : kept[i] \in DOMAIN files'
  BY <1>14, <1>15, <1>16
<1>18. \A f \in DOMAIN files \ DOMAIN files' :
          Len(kept) = MaxSplits /\ f.index <= splitCount + 1 - Len(kept)
  <2> TAKE f \in DOMAIN files \ DOMAIN files'
  <2>1. f \in dropped
    BY <1>16
  <2>2. k # 0
    BY <2>1, <1>9
  <2> QED BY <2>1, <2>2, <1>9, <1>13
<1> HIDE DEF dropped
<1> QED BY <1>1, <1>3, <1>4, <1>9, <1>11, <1>12, <1>16, <1>17, <1>18

-----------------------------------------------------------------------------
(* The invariant.                                                          *)

\* record_sample() adds to the payload of a file.
LEMMA RecordedType ==
    ASSUME NEW S, NEW f \in [S -> [bytes : Nat, opened : Time]], NEW c, NEW n \in Nat
    PROVE  [f EXCEPT ![c].bytes = @ + n] \in [S -> [bytes : Nat, opened : Time]]
<1> DEFINE g == [f EXCEPT ![c].bytes = @ + n]
<1>1. ASSUME NEW s \in S
      PROVE  g[s] \in [bytes : Nat, opened : Time]
  <2>1. CASE s = c
    <3>1. g[s] = [f[s] EXCEPT !.bytes = @ + n]
      BY <2>1
    <3>2. f[s] \in [bytes : Nat, opened : Time] /\ f[s].bytes + n \in Nat
      OBVIOUS
    <3> QED BY <3>1, <3>2
  <2>2. CASE s # c
    BY <2>2
  <2> QED BY <2>1, <2>2
<1>2. g = [s \in S |-> g[s]]
  OBVIOUS
<1> QED BY <1>1, <1>2

\* Nobody changes OutputConfig::split.
LEMMA SplitIsFixed == ASSUME [Next]_vars PROVE split' = split
BY DEF Next, vars, environment, Start, StartFails, TakeSamples, TakeSamplesWithin, WithinLimits,
   LimitEndsRecording, SplitFile, SplitInto, SplitFails, Stop, Tick, DiskChanges

\* Every step keeps the types; that a split remains possible while a recording runs is
\* what bounds the split number.
LEMMA TypeStep ==
    ASSUME RotationInv, [Next]_vars
    PROVE  TypeOK'
<1> USE RotationAssumption
<1>1. TypeOK /\ RunningInv /\ ListIsTheNewestFiles
  BY DEF RotationInv
<1>2. /\ 0 \in Time /\ now \in Nat /\ Time \subseteq Nat
      /\ MaxSplitCount \in Nat /\ MaxTime \in Nat /\ CheckPeriod \in Nat
      /\ splitCount \in Nat /\ checkDiskNext \in Nat /\ bytesWritten \in Nat
  BY <1>1 DEF TypeOK, Time, RotationAssumption
<1>3. FirstFile \in Name
  <2>1. (IF split THEN 0 ELSE -1) \in -2..MaxSplitCount + 1
    BY <1>2
  <2> QED BY <1>1, <2>1, FileNameType DEF TypeOK, FirstFile
<1>4. writingEnabled' \in BOOLEAN
  <2>1. WritingAfterCheck \in BOOLEAN
    BY <1>1, Zenon DEF TypeOK, WritingAfterCheck
  <2>2. writingEnabled' \in {writingEnabled, TRUE, WritingAfterCheck}
    BY Zenon DEF Next, vars, Start, StartFails, TakeSamples, TakeSamplesWithin, WithinLimits,
                 LimitEndsRecording, SplitFile, SplitInto, SplitFails, Stop, Tick, DiskChanges
  <2> QED BY <1>1, <2>1, <2>2, Zenon DEF TypeOK
<1>4a. split' \in BOOLEAN
  BY <1>1, SplitIsFixed, Zenon DEF TypeOK
<1> DEFINE FileTypes ==
        /\ DOMAIN files \subseteq Name
        /\ files \in [DOMAIN files -> [bytes : Nat, opened : Time]]
        /\ current \in Name
        /\ splitFiles \in Seq(Name)
        /\ splitCount \in 0..MaxSplitCount + 1
    CounterTypes ==
        /\ at \in {"stopped", "take", "limits"}
        /\ bytesWritten \in Nat
        /\ startTime \in Time
        /\ endTime \in Time \cup {NoTime}
        /\ checkDiskNext \in Nat
        /\ recordings \in 0..MaxRecordings
        /\ now \in Time
        /\ disk \in DiskReports
        /\ diskSince \in Time
<1>5. FileTypes /\ CounterTypes
  BY <1>1 DEF TypeOK
<1>6. SUFFICES FileTypes' /\ CounterTypes'
  BY <1>4, <1>4a, Zenon DEF TypeOK
<1>7. CASE Start
  <2>1. files' = Created(FirstFile, {})
    BY <1>7 DEF Start
  <2>2. /\ DOMAIN files' \subseteq Name
        /\ files' \in [DOMAIN files' -> [bytes : Nat, opened : Time]]
    BY <1>1, <1>3, <2>1, CreatedType
  <2>3. splitFiles' \in Seq(Name)
    BY <1>3, <1>7 DEF Start
  <2>4. splitCount' \in 0..MaxSplitCount + 1 /\ current' \in Name
    BY <1>2, <1>3, <1>7 DEF Start
  <2>5. recordings' \in 0..MaxRecordings
    BY <1>5, <1>7 DEF Start, RotationAssumption
  <2>6. CounterTypes'
    BY <1>2, <1>5, <1>7, <2>5 DEF Start, environment
  <2> QED BY <2>2, <2>3, <2>4, <2>6
<1>8. CASE StartFails
  <2>1. splitFiles' \in Seq(Name) /\ splitCount' \in 0..MaxSplitCount + 1
    BY <1>2, <1>8 DEF StartFails
  <2>2. UNCHANGED files /\ current' \in Name
    BY <1>3, <1>8 DEF StartFails
  <2>3. CounterTypes'
    BY <1>5, <1>8 DEF StartFails, environment
  <2> QED BY <1>5, <2>1, <2>2, <2>3
<1>9. CASE TakeSamples
  <2>1. /\ at' = "limits"
        /\ UNCHANGED <<current, splitFiles, splitCount, startTime, endTime, recordings,
                       environment>>
    BY <1>9 DEF TakeSamples, TakeSamplesWithin
  <2>2. CASE UNCHANGED <<checkDiskNext, bytesWritten, files>>
    BY <1>5, <2>1, <2>2 DEF environment
  <2>3. ASSUME NEW n \in 1..MaxBatch, NEW recorded \in {0, n},
               checkDiskNext' = IF now < checkDiskNext THEN checkDiskNext
                                ELSE now + CheckPeriod,
               bytesWritten' = bytesWritten + recorded,
               files' = [files EXCEPT ![current].bytes = @ + recorded]
        PROVE  FileTypes' /\ CounterTypes'
    <3>1. recorded \in Nat
      BY <2>3 DEF RotationAssumption
    <3>2. /\ DOMAIN files' = DOMAIN files
          /\ files' \in [DOMAIN files -> [bytes : Nat, opened : Time]]
      BY <1>5, <2>3, <3>1, RecordedType
    <3>3. bytesWritten' \in Nat /\ checkDiskNext' \in Nat
      BY <1>2, <2>3, <3>1
    <3>4. FileTypes'
      BY <1>5, <2>1, <3>2
    <3>5. CounterTypes'
      BY <1>5, <2>1, <3>3 DEF environment
    <3> QED BY <3>4, <3>5
  <2> HIDE DEF FileTypes, CounterTypes
  <2>4. CASE \E n \in 1..MaxBatch :
               LET recorded == IF WritingAfterCheck THEN n ELSE 0 IN
               /\ checkDiskNext' = IF now < checkDiskNext THEN checkDiskNext
                                   ELSE now + CheckPeriod
               /\ bytesWritten' = bytesWritten + recorded
               /\ files' = [files EXCEPT ![current].bytes = @ + recorded]
    BY <2>3, <2>4
  <2> QED BY <1>9, <2>2, <2>4, Zenon DEF TakeSamples, TakeSamplesWithin
<1>10. CASE SplitFile
  <2>1. at' = "take" /\ bytesWritten' = 0 /\ startTime' = now
    BY <1>10 DEF SplitFile, SplitInto
  <2>2. UNCHANGED <<endTime, checkDiskNext, recordings, environment>>
    BY <1>10 DEF SplitFile, SplitInto
  <2>3. splitCount' \in 0..MaxSplitCount + 1
    BY <1>1, <1>2, <1>10, SplitKeepsTheNewest, SMTT(30)
  <2>4. /\ current' \in Name /\ DOMAIN files' \subseteq Name
        /\ files' \in [DOMAIN files' -> [bytes : Nat, opened : Time]]
        /\ splitFiles' \in Seq(Name)
    BY <1>1, <1>10, SplitKeepsTheNewest
  <2>5. CounterTypes'
    BY <1>5, <2>1, <2>2 DEF environment
  <2> QED BY <2>3, <2>4, <2>5
<1>11. CASE SplitFails
  <2>1. splitCount + 1 \in -2..MaxSplitCount + 1 /\ splitCount + 1 \in 0..MaxSplitCount + 1
    BY <1>1, <1>2, <1>11 DEF SplitFails, RunningInv
  <2>2. FileName(splitCount + 1) \in Name
    BY <1>5, <2>1, FileNameType
  <2>3. FileTypes'
    BY <1>5, <1>11, <2>1, <2>2 DEF SplitFails
  <2>4. CounterTypes'
    BY <1>5, <1>11 DEF SplitFails, environment
  <2> QED BY <2>3, <2>4
<1>12. CASE WithinLimits \/ LimitEndsRecording \/ Stop \/ UNCHANGED vars
  BY <1>5, <1>12 DEF WithinLimits, LimitEndsRecording, Stop, vars, environment
<1>13. CASE Tick
  <2>1. now' \in Time
    BY <1>2, <1>13 DEF Tick, Time
  <2> QED BY <1>5, <1>13, <2>1 DEF Tick
<1>14. CASE DiskChanges
  BY <1>5, <1>14 DEF DiskChanges
<1> QED
  BY <1>7, <1>8, <1>9, <1>10, <1>11, <1>12, <1>13, <1>14 DEF Next

\* While a recording runs its file exists, and its list is what ListIsTheNewestFiles says.
LEMMA ListStep ==
    ASSUME RotationInv, [Next]_vars
    PROVE  RunningInv' /\ ListIsTheNewestFiles'
<1> USE RotationAssumption
<1>1. TypeOK /\ RunningInv /\ ListIsTheNewestFiles
  BY DEF RotationInv
<1>2. CASE Start
  <2>1. FirstFile \in Name /\ (split => FirstFile.index = 0)
    <3>1. (IF split THEN 0 ELSE -1) \in -2..MaxSplitCount + 1
      BY DEF RotationAssumption
    <3> QED BY <1>1, <3>1, FileNameType DEF TypeOK, FirstFile
  <2>2. files' = Created(FirstFile, {}) /\ current' = FirstFile /\ splitCount' = 0
    BY <1>2 DEF Start
  <2>3. FirstFile \in DOMAIN files'
    BY <2>2 DEF Created
  <2>4. split => splitFiles' = <<FirstFile>>
    BY <1>2 DEF Start
  <2>5. MaxSplitCount \in Nat /\ MaxSplits \in Nat
    BY DEF RotationAssumption
  <2>6. RunningInv'
    BY <2>2, <2>3, <2>5 DEF RunningInv
  <2>7. ListIsTheNewestFiles'
    <3>1. SUFFICES ASSUME split PROVE ListIsTheNewestFiles'
      BY SplitIsFixed DEF ListIsTheNewestFiles
    <3>2. splitFiles' = <<FirstFile>> /\ FirstFile.index = 0
      BY <2>1, <2>4, <3>1
    <3>3. Len(splitFiles') = 1 /\ splitFiles'[1] = FirstFile /\ splitFiles' # <<>>
      BY <3>2
    <3> QED BY <2>2, <2>3, <2>5, <3>2, <3>3 DEF ListIsTheNewestFiles
  <2> QED BY <2>6, <2>7
<1>3. CASE SplitFile
  <2>1. MaxSplitCount \in Nat
    BY DEF RotationAssumption
  <2>2. RunningInv'
    BY <1>1, <1>3, <2>1, SplitKeepsTheNewest DEF RunningInv
  <2>3. ListIsTheNewestFiles'
    BY <1>1, <1>3, SplitKeepsTheNewest DEF ListIsTheNewestFiles
  <2> QED BY <2>2, <2>3
<1>4. CASE StartFails \/ LimitEndsRecording \/ SplitFails \/ Stop
  BY <1>4 DEF StartFails, LimitEndsRecording, SplitFails, Stop, RunningInv,
              ListIsTheNewestFiles
<1>5. CASE TakeSamples \/ WithinLimits \/ Tick \/ DiskChanges \/ UNCHANGED vars
  <2>1. /\ at' # "stopped" => at # "stopped"
        /\ UNCHANGED <<current, splitFiles, splitCount, split>>
    BY <1>5 DEF TakeSamples, TakeSamplesWithin, WithinLimits, Tick, DiskChanges, vars,
                environment
  <2>2. DOMAIN files' = DOMAIN files
    BY <1>1, <1>5 DEF TakeSamples, TakeSamplesWithin, WithinLimits, Tick, DiskChanges, vars,
                      TypeOK
  <2> QED BY <1>1, <2>1, <2>2 DEF RunningInv, ListIsTheNewestFiles
<1> QED BY <1>2, <1>3, <1>4, <1>5 DEF Next

\* The schedule of the disk checks: a look at the disk sets the flag and the time of the
\* next look together, and a change of the disk starts a new period.
LEMMA DiskStep ==
    ASSUME RotationInv, [Next]_vars
    PROVE  DiskInv'
<1>1. TypeOK /\ DiskInv
  BY DEF RotationInv
<1>2. /\ CheckPeriod \in Nat \ {0}
      /\ now \in Nat /\ diskSince \in Nat /\ checkDiskNext \in Nat
  BY <1>1, RotationAssumption DEF RotationAssumption, TypeOK, Time
<1>3. CASE Start
  <2>1. checkDiskNext' = now /\ UNCHANGED <<now, disk, diskSince>>
    BY <1>3 DEF Start, environment
  <2> QED BY <1>1, <1>2, <2>1 DEF DiskInv
<1>4. CASE TakeSamples
  <2>1. UNCHANGED <<now, disk, diskSince>>
    BY <1>4 DEF TakeSamples, TakeSamplesWithin, environment
  <2>2. CASE UNCHANGED <<writingEnabled, checkDiskNext>>
    BY <1>1, <2>1, <2>2 DEF DiskInv
  <2>3. CASE /\ writingEnabled' = WritingAfterCheck
             /\ checkDiskNext' = IF now < checkDiskNext THEN checkDiskNext
                                 ELSE now + CheckPeriod
    <3>1. CASE now < checkDiskNext
      <4>1. WritingAfterCheck = writingEnabled
        BY <3>1, Zenon DEF WritingAfterCheck
      <4>2. UNCHANGED <<writingEnabled, checkDiskNext>>
        BY <2>3, <3>1, <4>1, Zenon
      <4> QED BY <2>2, <4>2
    <3>2. CASE ~(now < checkDiskNext)
      <4>1. /\ disk = "low" => ~WritingAfterCheck
            /\ disk = "free" => WritingAfterCheck
        BY <3>2 DEF WritingAfterCheck
      <4>2. /\ disk' = "low" => ~writingEnabled'
            /\ disk' = "free" => writingEnabled'
        BY <2>1, <2>3, <4>1, Zenon
      <4>3. checkDiskNext' = now + CheckPeriod
        BY <2>3, <3>2
      <4> QED BY <1>1, <1>2, <2>1, <4>2, <4>3 DEF DiskInv
    <3> QED BY <3>1, <3>2
  <2> QED BY <1>4, <2>2, <2>3, Zenon DEF TakeSamples, TakeSamplesWithin
<1>5. CASE \/ StartFails \/ WithinLimits \/ LimitEndsRecording \/ SplitFile \/ SplitFails
           \/ Stop \/ UNCHANGED vars
  <2>1. UNCHANGED <<writingEnabled, checkDiskNext, now, disk, diskSince>>
    BY <1>5 DEF StartFails, WithinLimits, LimitEndsRecording, SplitFile, SplitInto,
                SplitFails, Stop, vars, environment
  <2> QED BY <1>1, <2>1 DEF DiskInv
<1>6. CASE Tick
  <2>1. now' = now + 1 /\ UNCHANGED <<writingEnabled, checkDiskNext, disk, diskSince>>
    BY <1>6 DEF Tick
  <2> QED BY <1>1, <1>2, <2>1 DEF DiskInv
<1>7. CASE DiskChanges
  <2>1. diskSince' = now /\ UNCHANGED <<writingEnabled, checkDiskNext, now>>
    BY <1>7 DEF DiskChanges
  <2> QED BY <1>1, <1>2, <2>1 DEF DiskInv
<1> QED BY <1>3, <1>4, <1>5, <1>6, <1>7 DEF Next

\* The inductive invariant: types, the file being written, the list of splits and the
\* schedule of the disk checks, in every recording of every recorder.
THEOREM RotationInvariant == Spec => []RotationInv
<1>1. Init => RotationInv
  <2> SUFFICES ASSUME Init PROVE RotationInv
    OBVIOUS
  <2>1. {0} \subseteq Time /\ NoName \in Name
    BY RotationAssumption DEF RotationAssumption, Time, Name, NoName
  <2>2. TypeOK
    BY <2>1, RotationAssumption DEF Init, TypeOK, RotationAssumption
  <2>3. RunningInv /\ ListIsTheNewestFiles
    BY DEF Init, RunningInv, ListIsTheNewestFiles
  <2>4. DiskInv
    BY RotationAssumption DEF Init, DiskInv, RotationAssumption
  <2> QED BY <2>2, <2>3, <2>4 DEF RotationInv
<1>2. RotationInv /\ [Next]_vars => RotationInv'
  BY TypeStep, ListStep, DiskStep, Zenon DEF RotationInv
<1> QED BY <1>1, <1>2, PTL DEF Spec

-----------------------------------------------------------------------------
(* What the invariant says of the list and of the disk.                    *)

\* check_num_splits(): while a split recording runs its list is the newest files, in
\* order, all on disk, at most max_splits of them.
THEOREM ListStaysTheNewestFiles == Spec => []ListIsTheNewestFiles
<1>1. RotationInv => ListIsTheNewestFiles
  BY DEF RotationInv
<1> QED BY <1>1, RotationInvariant, PTL

\* check_num_splits(): a file leaves the disk only when max_splits newer ones stay.
THEOREM RetentionKeepsTheNewest == Spec => RemovesOnlyTheOldest
<1> DEFINE Removal ==
        \A f \in DOMAIN files \ DOMAIN files' :
          /\ Len(splitFiles') = MaxSplits
          /\ \A i \in 1..Len(splitFiles') : splitFiles'[i].index > f.index
<1>1. RotationInv /\ RotationInv' /\ [Next]_vars => [Removal]_vars
  <2> SUFFICES ASSUME RotationInv, RotationInv', Next PROVE Removal
    BY DEF vars
  <2>1. TypeOK /\ RunningInv /\ ListIsTheNewestFiles /\ TypeOK'
    BY DEF RotationInv
  <2>2. CASE SplitFile
    <3>1. ASSUME NEW f \in DOMAIN files \ DOMAIN files', NEW i \in 1..Len(splitFiles')
          PROVE  splitFiles'[i].index > f.index
      <4>1. /\ splitFiles'[i].index = splitCount' - Len(splitFiles') + i
            /\ f.index <= splitCount' - Len(splitFiles')
        BY <2>1, <2>2, <3>1, SplitKeepsTheNewest
      <4>2. splitCount' \in Nat /\ Len(splitFiles') \in Nat
        BY <2>1, RotationAssumption DEF TypeOK, RotationAssumption
      <4>3. f.index \in Int
        BY <2>1, RotationAssumption DEF TypeOK, Name, RotationAssumption
      <4> QED BY <4>1, <4>2, <4>3
    <3>2. \A f \in DOMAIN files \ DOMAIN files' : Len(splitFiles') = MaxSplits
      BY <2>1, <2>2, SplitKeepsTheNewest
    <3> QED BY <3>1, <3>2
  <2>3. CASE Start
    <3>1. DOMAIN files \subseteq DOMAIN files'
      BY <2>3 DEF Start, Created
    <3> QED BY <3>1
  <2>4. CASE ~SplitFile /\ ~Start
    <3>1. DOMAIN files' = DOMAIN files
      BY <2>1, <2>4 DEF Next, StartFails, TakeSamples, TakeSamplesWithin, WithinLimits,
                        LimitEndsRecording, SplitFails, Stop, Tick, DiskChanges, TypeOK
    <3> QED BY <3>1
  <2> QED BY <2>2, <2>3, <2>4
<1> QED BY <1>1, RotationInvariant, PTL DEF Spec, RemovesOnlyTheOldest

\* scheduled_check_disk(): once the disk has been low for a period of the check, whatever
\* was found before, no further sample is recorded.
THEOREM WritingStopsOnALowDisk == Spec => LowDiskStopsWriting
<1> DEFINE NoMore ==
        disk = "low" /\ now - diskSince >= CheckPeriod => bytesWritten' <= bytesWritten
<1>1. RotationInv /\ [Next]_vars => [NoMore]_vars
  <2> SUFFICES ASSUME RotationInv, Next, disk = "low", now - diskSince >= CheckPeriod
               PROVE  bytesWritten' <= bytesWritten
    OBVIOUS
  <2>1. TypeOK /\ DiskInv
    BY DEF RotationInv
  <2>2. /\ CheckPeriod \in Nat /\ bytesWritten \in Nat
        /\ now \in Nat /\ diskSince \in Nat /\ checkDiskNext \in Nat
    BY <2>1, RotationAssumption DEF RotationAssumption, TypeOK, Time
  <2>3. ~WritingAfterCheck
    <3>1. CASE now < checkDiskNext
      <4>1. ~writingEnabled
        BY <2>1, <2>2, <3>1 DEF DiskInv
      <4> QED BY <3>1, <4>1, Zenon DEF WritingAfterCheck
    <3>2. CASE ~(now < checkDiskNext)
      BY <3>2 DEF WritingAfterCheck
    <3> QED BY <3>1, <3>2
  <2>4. CASE TakeSamples
    <3>1. bytesWritten' \in {bytesWritten, bytesWritten + 0}
      BY <2>3, <2>4, Zenon DEF TakeSamples, TakeSamplesWithin
    <3> QED BY <2>2, <3>1
  <2>5. CASE SplitFile \/ SplitFails
    BY <2>2, <2>5 DEF SplitFile, SplitFails
  <2>6. CASE ~TakeSamples /\ ~SplitFile /\ ~SplitFails
    BY <2>2, <2>6 DEF Next, Start, StartFails, WithinLimits, LimitEndsRecording, Stop, Tick,
                      DiskChanges
  <2> QED BY <2>4, <2>5, <2>6
<1> QED BY <1>1, RotationInvariant, PTL DEF Spec, LowDiskStopsWriting

\* scheduled_check_disk(): once the disk has been free for a period of the check, a
\* sample that arrives is recorded, however long writing was disabled.
THEOREM WritingResumes == Spec => []FreeDiskResumesWriting
<1>1. RotationInv => FreeDiskResumesWriting
  <2> SUFFICES ASSUME RotationInv, disk = "free", now - diskSince >= CheckPeriod
               PROVE  WritingAfterCheck
    BY DEF FreeDiskResumesWriting
  <2>1. TypeOK /\ DiskInv
    BY DEF RotationInv
  <2>2. /\ CheckPeriod \in Nat
        /\ now \in Nat /\ diskSince \in Nat /\ checkDiskNext \in Nat
    BY <2>1, RotationAssumption DEF RotationAssumption, TypeOK, Time
  <2>3. CASE now < checkDiskNext
    <3>1. writingEnabled
      BY <2>1, <2>2, <2>3 DEF DiskInv
    <3> QED BY <2>3, <3>1, Zenon DEF WritingAfterCheck
  <2>4. CASE ~(now < checkDiskNext)
    BY <2>4 DEF WritingAfterCheck
  <2> QED BY <2>3, <2>4
<1> QED BY <1>1, RotationInvariant, PTL

-----------------------------------------------------------------------------
(* The first recording of a recorder.  start() keeps the counters of the   *)
(* last one, so nothing here holds of a second recording.                  *)

\* In the first recording every step keeps the counters those of the file being written.
LEMMA FirstRecordingStep ==
    ASSUME MaxRecordings <= 1, RotationInv, FirstRecordingInv, [Next]_vars
    PROVE  FirstRecordingInv'
<1> USE RotationAssumption
<1>1. TypeOK /\ RunningInv /\ ListIsTheNewestFiles
  BY DEF RotationInv
<1>2. CASE Start
  <2>1. recordings = 0 /\ recordings' = 1
    BY <1>1, <1>2 DEF Start, TypeOK, RotationAssumption
  <2>2. /\ bytesWritten = 0 /\ endTime = NoTime /\ DOMAIN files = {}
        /\ UNCHANGED <<bytesWritten, endTime>>
        /\ current' = FirstFile /\ files' = Created(FirstFile, {}) /\ startTime' = now
        /\ splitCount' = 0
    BY <1>2, <2>1 DEF Start, FirstRecordingInv
  <2>3. /\ DOMAIN files' = {FirstFile}
        /\ files'[FirstFile] = [bytes |-> 0, opened |-> now]
    BY <2>2 DEF Created
  <2>4. FirstFile.index <= 0
    BY DEF FirstFile, FileName
  <2> QED BY <2>1, <2>2, <2>3, <2>4 DEF FirstRecordingInv
<1>3. CASE TakeSamples
  <2>1. /\ at = "take" /\ recordings # 0
        /\ UNCHANGED <<current, startTime, endTime, recordings, splitCount>>
    BY <1>3 DEF TakeSamples, TakeSamplesWithin, FirstRecordingInv
  <2>2. /\ current \in DOMAIN files
        /\ files \in [DOMAIN files -> [bytes : Nat, opened : Time]]
    BY <1>1, <2>1 DEF TypeOK, RunningInv
  <2>3. CASE UNCHANGED <<bytesWritten, files>>
    BY <2>1, <2>3 DEF FirstRecordingInv
  <2>4. ASSUME NEW recorded,
               bytesWritten' = bytesWritten + recorded,
               files' = [files EXCEPT ![current].bytes = @ + recorded]
        PROVE  FirstRecordingInv'
    <3>1. /\ DOMAIN files' = DOMAIN files
          /\ files'[current].bytes = files[current].bytes + recorded
          /\ files'[current].opened = files[current].opened
      BY <2>2, <2>4
    <3> QED BY <2>1, <2>4, <3>1 DEF FirstRecordingInv
  <2> QED BY <1>3, <2>3, <2>4, Zenon DEF TakeSamples, TakeSamplesWithin
<1>4. CASE SplitFile
  <2> DEFINE name == FileName(splitCount + 1)
  <2>1. /\ at = "limits" /\ current' = name /\ splitCount' = splitCount + 1
        /\ bytesWritten' = 0 /\ startTime' = now
        /\ UNCHANGED <<endTime, recordings>>
    BY <1>4 DEF SplitFile, SplitInto
  <2>2. PICK removed : files' = Created(name, removed)
    BY <1>4, Zenon DEF SplitFile, SplitInto
  <2>3. /\ DOMAIN files' \subseteq DOMAIN files \cup {name}
        /\ files'[name] = [bytes |-> 0, opened |-> now]
    BY <2>2 DEF Created
  <2>4. name.index = splitCount + 1
    BY DEF FileName
  <2>5. splitCount \in Nat /\ \A f \in DOMAIN files : f.index \in Int
    BY <1>1 DEF TypeOK, Name, RotationAssumption
  <2> HIDE DEF name
  <2>6. \A f \in DOMAIN files' : f.index <= splitCount'
    BY <2>1, <2>3, <2>4, <2>5 DEF FirstRecordingInv
  <2> QED BY <2>1, <2>3, <2>6 DEF FirstRecordingInv
<1>5. CASE LimitEndsRecording \/ SplitFails \/ Stop
  <2>1. at # "stopped" /\ at' = "stopped" /\ recordings' = recordings
    BY <1>5 DEF LimitEndsRecording, SplitFails, Stop
  <2> QED BY <2>1 DEF FirstRecordingInv
<1>6. CASE StartFails
  BY <1>6 DEF StartFails, FirstRecordingInv
<1>7. CASE WithinLimits \/ Tick \/ DiskChanges \/ UNCHANGED vars
  <2>1. /\ at' # "stopped" <=> at # "stopped"
        /\ UNCHANGED <<files, current, bytesWritten, startTime, endTime, recordings,
                       splitCount>>
    BY <1>7 DEF WithinLimits, Tick, DiskChanges, vars
  <2> QED BY <2>1 DEF FirstRecordingInv
<1> QED BY <1>2, <1>3, <1>4, <1>5, <1>6, <1>7 DEF Next

\* The limit is tested after each pass over the readers, so a pass begins below it.
LEMMA SizeStep ==
    ASSUME RotationInv, FirstRecordingInv, SizeInv, [Next]_vars, MaxRecordings <= 1
    PROVE  SizeInv'
<1> USE RotationAssumption
<1>1. TypeOK /\ RunningInv
  BY DEF RotationInv
<1>2. SUFFICES ASSUME MaxFileSize > 0
               PROVE  /\ \A f \in DOMAIN files' : files'[f].bytes < MaxFileSize + MaxBatch
                      /\ at' = "take" => bytesWritten' < MaxFileSize
  BY DEF SizeInv
<1>3. /\ MaxFileSize \in Nat /\ MaxBatch \in Nat /\ bytesWritten \in Nat
      /\ \A f \in DOMAIN files : files[f].bytes < MaxFileSize + MaxBatch
      /\ at = "take" => bytesWritten < MaxFileSize
  BY <1>1, <1>2 DEF TypeOK, SizeInv, RotationAssumption
<1>4. ASSUME NEW name, NEW removed, files' = Created(name, removed)
      PROVE  \A f \in DOMAIN files' : files'[f].bytes < MaxFileSize + MaxBatch
  <2> TAKE f \in DOMAIN files'
  <2>1. CASE f = name
    <3>1. files'[f].bytes = 0
      BY <1>4, <2>1 DEF Created
    <3> QED BY <1>2, <1>3, <3>1
  <2>2. CASE f # name
    <3>1. f \in DOMAIN files /\ files'[f] = files[f]
      BY <1>4, <2>2 DEF Created
    <3> QED BY <1>3, <3>1
  <2> QED BY <2>1, <2>2
<1>5. CASE Start
  <2>1. recordings = 0
    BY <1>1, <1>5 DEF Start, TypeOK, RotationAssumption
  <2>2. bytesWritten' = 0 /\ files' = Created(FirstFile, {})
    BY <1>5, <2>1 DEF Start, FirstRecordingInv
  <2> QED BY <1>2, <1>4, <2>2
<1>6. CASE TakeSamples
  <2>1. at = "take" /\ at' = "limits"
    BY <1>6 DEF TakeSamples, TakeSamplesWithin
  <2>2. /\ files \in [DOMAIN files -> [bytes : Nat, opened : Time]]
        /\ current \in DOMAIN files
        /\ files[current].bytes < MaxFileSize
    BY <1>1, <1>3, <2>1 DEF TypeOK, RunningInv, FirstRecordingInv
  <2>3. CASE UNCHANGED files
    BY <1>3, <2>1, <2>3
  <2>4. ASSUME NEW n \in 1..MaxBatch, NEW recorded \in {0, n},
               files' = [files EXCEPT ![current].bytes = @ + recorded]
        PROVE  \A f \in DOMAIN files' : files'[f].bytes < MaxFileSize + MaxBatch
    <3> TAKE f \in DOMAIN files'
    <3>1. f \in DOMAIN files
      BY <2>4
    <3>2. CASE f = current
      <4>1. files'[f].bytes = files[current].bytes + recorded
        BY <2>2, <2>4, <3>2
      <4>2. files[current].bytes \in Nat /\ recorded \in 0..MaxBatch
        BY <1>3, <2>2, <2>4
      <4> QED BY <1>3, <2>2, <4>1, <4>2
    <3>3. CASE f # current
      <4>1. files'[f] = files[f]
        BY <2>2, <2>4, <3>1, <3>3
      <4> QED BY <1>3, <3>1, <4>1
    <3> QED BY <3>2, <3>3
  <2>5. \/ UNCHANGED files
        \/ \E n \in 1..MaxBatch : \E recorded \in {0, n} :
              files' = [files EXCEPT ![current].bytes = @ + recorded]
    BY <1>6, Zenon DEF TakeSamples, TakeSamplesWithin
  <2> QED BY <2>1, <2>3, <2>4, <2>5
<1>7. CASE WithinLimits
  BY <1>2, <1>3, <1>7 DEF WithinLimits, LimitReached
<1>8. CASE SplitFile
  <2>1. bytesWritten' = 0
    BY <1>8 DEF SplitFile
  <2>2. \E removed : files' = Created(FileName(splitCount + 1), removed)
    BY <1>8, Zenon DEF SplitFile, SplitInto
  <2> QED BY <1>2, <1>4, <2>1, <2>2
<1>9. CASE StartFails \/ LimitEndsRecording \/ SplitFails \/ Stop
  BY <1>3, <1>9 DEF StartFails, LimitEndsRecording, SplitFails, Stop
<1>10. CASE Tick \/ DiskChanges \/ UNCHANGED vars
  BY <1>3, <1>10 DEF Tick, DiskChanges, vars
<1> QED BY <1>5, <1>6, <1>7, <1>8, <1>9, <1>10 DEF Next

\* In the first recording the counters are those of the file being written and no file
\* reaches the limit of its size by more than a pass over the readers.
THEOREM FirstRecording ==
    ASSUME MaxRecordings <= 1
    PROVE  Spec => [](RotationInv /\ FirstRecordingInv /\ SizeInv)
<1>1. Init => FirstRecordingInv /\ SizeInv
  BY RotationAssumption DEF Init, FirstRecordingInv, SizeInv, RotationAssumption
<1>2. RotationInv /\ FirstRecordingInv /\ SizeInv /\ [Next]_vars
      => FirstRecordingInv' /\ SizeInv'
  BY FirstRecordingStep, SizeStep
<1> QED BY <1>1, <1>2, RotationInvariant, PTL DEF Spec

\* McapWriter::current_file_size(): in the first recording it is the payload of the file
\* being written.
THEOREM CurrentFileSize ==
    ASSUME MaxRecordings <= 1
    PROVE  Spec => []CurrentFileSizeIsExact
<1>1. FirstRecordingInv => CurrentFileSizeIsExact
  BY DEF FirstRecordingInv, CurrentFileSizeIsExact
<1> QED BY <1>1, FirstRecording, PTL

\* check_limits(): in the first recording no file exceeds max_file_size by a whole pass
\* over the readers.
THEOREM Overshoot ==
    ASSUME MaxRecordings <= 1
    PROVE  Spec => []OvershootIsOneBatch
<1>1. SizeInv => OvershootIsOneBatch
  BY DEF SizeInv, OvershootIsOneBatch
<1> QED BY <1>1, FirstRecording, PTL

\* do_split(): in the first recording a file is given up only when it is full or old.
THEOREM SplitsAreDue ==
    ASSUME MaxRecordings <= 1
    PROVE  Spec => SplitsOnlyAtALimit
<1> DEFINE Due ==
        at = "limits" /\ at' = "take" /\ current' # current =>
          \/ MaxFileSize > 0 /\ files[current].bytes >= MaxFileSize
          \/ MaxDuration > 0 /\ now - files[current].opened >= MaxDuration
<1>1. RotationInv /\ FirstRecordingInv /\ SizeInv /\ [Next]_vars => [Due]_vars
  <2> SUFFICES ASSUME FirstRecordingInv, Next, at = "limits", at' = "take",
                      current' # current
               PROVE  \/ MaxFileSize > 0 /\ files[current].bytes >= MaxFileSize
                      \/ MaxDuration > 0 /\ now - files[current].opened >= MaxDuration
    BY DEF vars
  <2>1. LimitReached
    BY DEF Next, Start, StartFails, TakeSamples, TakeSamplesWithin, WithinLimits,
           LimitEndsRecording, SplitFile, SplitInto, SplitFails, Stop, Tick, DiskChanges
  <2>2. /\ bytesWritten = files[current].bytes
        /\ Duration = now - files[current].opened
    BY DEF FirstRecordingInv, Duration
  <2> QED BY <2>1, <2>2 DEF LimitReached
<1> QED BY <1>1, FirstRecording, PTL DEF Spec, SplitsOnlyAtALimit

\* generate_filename(): in the first recording no split reuses the name of a file.
THEOREM SplitsAreNewFiles ==
    ASSUME MaxRecordings <= 1
    PROVE  Spec => OpensNoExistingFile
<1> DEFINE NewFile ==
        at = "limits" /\ at' = "take" /\ splitCount' # splitCount
          => current' \notin DOMAIN files
<1>1. RotationInv /\ FirstRecordingInv /\ SizeInv /\ [Next]_vars => [NewFile]_vars
  <2> SUFFICES ASSUME RotationInv, FirstRecordingInv, Next, at = "limits", at' = "take",
                      splitCount' # splitCount
               PROVE  current' \notin DOMAIN files
    BY DEF vars
  <2>1. SplitFile
    BY DEF Next, Start, StartFails, TakeSamples, TakeSamplesWithin, WithinLimits,
           LimitEndsRecording, SplitFails, Stop, Tick, DiskChanges
  <2>2. current'.index = splitCount + 1
    BY <2>1 DEF SplitFile, SplitInto, FileName
  <2>3. splitCount \in Nat
    BY RotationAssumption DEF RotationInv, TypeOK, RotationAssumption
  <2>4. \A f \in DOMAIN files : f.index <= splitCount
    BY DEF FirstRecordingInv
  <2> QED BY <2>2, <2>3, <2>4
<1> QED BY <1>1, FirstRecording, PTL DEF Spec, OpensNoExistingFile

\* check_limits(): the first recording never goes on into a file of its maximum age.
THEOREM DurationLimit ==
    ASSUME MaxRecordings <= 1
    PROVE  Spec => DurationIsLimited
<1> DEFINE Young ==
        at = "limits" /\ at' = "take" /\ MaxDuration > 0
          => now - files'[current'].opened < MaxDuration
<1>1. RotationInv /\ FirstRecordingInv /\ SizeInv /\ [Next]_vars => [Young]_vars
  <2> SUFFICES ASSUME RotationInv, FirstRecordingInv, Next, at = "limits", at' = "take",
                      MaxDuration > 0
               PROVE  now - files'[current'].opened < MaxDuration
    BY DEF vars
  <2>1. now \in Nat /\ MaxDuration \in Nat /\ startTime \in Nat
    BY RotationAssumption DEF RotationInv, TypeOK, Time, RotationAssumption
  <2>2. CASE WithinLimits
    <3>1. UNCHANGED <<files, current>> /\ Duration < MaxDuration
      <4>1. Duration \in Int
        BY <2>1 DEF FirstRecordingInv, Duration
      <4> QED BY <2>1, <2>2, <4>1 DEF WithinLimits, LimitReached
    <3>2. Duration = now - files[current].opened
      BY DEF FirstRecordingInv, Duration
    <3> QED BY <3>1, <3>2
  <2>3. CASE SplitFile
    <3>1. PICK removed : /\ files' = Created(current', removed)
      BY <2>3, Zenon DEF SplitFile, SplitInto
    <3>2. files'[current'].opened = now
      BY <3>1 DEF Created
    <3> QED BY <2>1, <3>2
  <2>4. WithinLimits \/ SplitFile
    BY DEF Next, Start, StartFails, TakeSamples, TakeSamplesWithin, LimitEndsRecording,
           SplitFails, Stop, Tick, DiskChanges
  <2> QED BY <2>2, <2>3, <2>4
<1> QED BY <1>1, FirstRecording, PTL DEF Spec, DurationIsLimited
=============================================================================
