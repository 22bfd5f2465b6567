------------------------------ MODULE ReadLoops ------------------------------
(***************************************************************************)
(* The reading loops of the commands echo and hz                           *)
(* (src/cli/commands/EchoCommand.cpp, HzCommand.cpp): how samples get from *)
(* the cache of a reader to the user, or into the windows from which the   *)
(* rates are computed.                                                     *)
(*                                                                         *)
(* The cache belongs to CycloneDDS.  Every topic has one instance here, of *)
(* which the reader keeps the last samples only.                           *)
(***************************************************************************)
EXTENDS Integers, SequencesExt, Selection

CONSTANTS
    Readers,      \* the readers of found_trackers; echo has only one of them
    EchoReader,
    Stamps,       \* source timestamps; 0 is none
    Counts,       \* values of --count
    Windows,      \* values of --window
    MaxSamples,   \* how many samples one dds_takecdr() returns at most (32 in the code)
    HistoryDepth, \* history_depth of echo's reader (100 in the code)
    EchoArrivals, \* bound: how many samples arrive for echo,
    HzArrivals,   \* bound: and for hz
    MaxNow        \* bound: the last value of the steady clock

ASSUME ReadAssumption ==
    /\ EchoReader \in Readers /\ IsFiniteSet(Readers)
    /\ Stamps \subseteq Int
    /\ Counts \subseteq Int /\ Windows \subseteq Nat
    /\ MaxSamples \in Nat \ {0} /\ HistoryDepth \in Nat \ {0}
    /\ EchoArrivals \in Nat /\ HzArrivals \in Nat /\ MaxNow \in Nat

VARIABLES
    command,     \* "echo" or "hz"; or "ps", which is the subject of PsCommand
    running,     \* g_echo_running, g_hz_running
    pc,          \* "read", hz also "print", and "done"
    maxCount,    \* echo: max_count, 0 for no limit
    windowSize,  \* hz: window_size_ of every tracker
    cache,       \* of each reader: the samples that wait in it
    arrived,     \* of each reader: all samples that ever arrived
    overwritten, \* those that the history of their reader dropped
    printed,     \* echo: the samples it printed
    now,         \* the steady clock
    due,         \* hz: a second has passed since the last block of statistics
    timestamps,  \* hz: timestamps_ of each tracker
    recorded,    \* hz: all timestamps that each tracker was given
    shown        \* hz: the statistics it last printed of each tracker, <<>> for none

options == <<command, maxCount, windowSize>>
dds     == <<cache, arrived, overwritten>>
hz      == <<now, timestamps, recorded, shown>>
vars    == <<running, pc, options, dds, printed, due, hz>>

\* A sample is named by its reader and its place among the arrivals.
Sample == [reader : Readers, seq : Nat, stamp : Stamps \cup {0}, valid : BOOLEAN]

\* FrequencyStats::Stats.
Stats == [total : Int, intervals : Nat, window : Nat, shortest : Int, longest : Int]

Smaller(a, b) == IF a < b THEN a ELSE b
LastOf(seq, n) == SubSeq(seq, Len(seq) - Smaller(n, Len(seq)) + 1, Len(seq))

\* The readers of hz keep as many samples as a window has timestamps.
Depth == IF command = "hz" THEN windowSize ELSE HistoryDepth

ReadTypeOK ==
    /\ command \in {"echo", "hz", "ps"}
    /\ running \in BOOLEAN
    /\ pc \in {"read", "print", "done"}
    /\ maxCount \in Nat
    /\ windowSize \in Nat \ {0, 1}
    /\ cache \in [Readers -> Seq(Sample)] /\ arrived \in [Readers -> Seq(Sample)]
    /\ \A r \in Readers : Len(cache[r]) <= Depth
    /\ timestamps \in [Readers -> Seq(Int)] /\ recorded \in [Readers -> Seq(Int)]
    /\ shown \in [Readers -> Stats \cup {<<>>}]
    /\ overwritten \subseteq Sample
    /\ printed \in Seq(Sample)
    /\ now \in 0..MaxNow
    /\ due \in BOOLEAN

Empty == [r \in Readers |-> <<>>]

\* A negative count means no limit, and no window is smaller than 2.
CountOption(n)  == IF n < 0 THEN 0 ELSE n
WindowOption(n) == IF n < 2 THEN 2 ELSE n

\* Only echo has a count and only hz a window: the others get a value that does not matter.
Init ==
    /\ command \in {"echo", "hz", "ps"}
    /\ running = TRUE
    /\ pc = "read"
    /\ maxCount \in IF command = "echo" THEN {CountOption(n) : n \in Counts} ELSE {0}
    /\ windowSize \in IF command = "hz" THEN {WindowOption(n) : n \in Windows} ELSE {2}
    /\ cache = Empty /\ arrived = Empty /\ overwritten = {}
    /\ printed = <<>>
    /\ now = 0 /\ due = FALSE
    /\ timestamps = Empty /\ recorded = Empty /\ shown = Empty

-----------------------------------------------------------------------------
(* The writers, through CycloneDDS; and time, and the user.                *)

Arrivals == FoldSet(LAMBDA r, n : Len(arrived[r]) + n, 0, Readers)

\* A sample arrives, or the notice that an instance is gone, which has no data.  Echo does
\* not look at the timestamps.
Arrive(r) ==
    /\ pc # "done"
    /\ IF command = "echo" THEN r = EchoReader /\ Arrivals < EchoArrivals
       ELSE Arrivals < HzArrivals
    /\ \E stamp \in Stamps \cup {0}, valid \in BOOLEAN :
          LET s == [reader |-> r, seq |-> Len(arrived[r]) + 1, stamp |-> stamp,
                    valid |-> valid]
              kept == LastOf(Append(cache[r], s), Depth)
          IN /\ ~valid \/ command = "echo" => stamp = 0
             /\ arrived' = [arrived EXCEPT ![r] = Append(@, s)]
             /\ cache' = [cache EXCEPT ![r] = kept]
             /\ overwritten' = overwritten \cup (ToSet(cache[r]) \ ToSet(kept))
    /\ UNCHANGED <<running, pc, options, printed, due, hz>>

SecondPasses ==
    /\ command = "hz" /\ pc # "done" /\ ~due
    /\ due' = TRUE
    /\ UNCHANGED <<running, pc, options, dds, printed, hz>>

Interrupt ==
    /\ pc # "done" /\ running
    /\ running' = FALSE
    /\ UNCHANGED <<pc, options, dds, printed, due, hz>>

-----------------------------------------------------------------------------
(* echo.                                                                   *)

Taken(r) == SubSeq(cache[r], 1, Smaller(MaxSamples, Len(cache[r])))
Left(r)  == SubSeq(cache[r], Len(Taken(r)) + 1, Len(cache[r]))

\* si.valid_data
Data == {s \in Sample : s.valid}

TakeAndPrint_StopsAtNoData(r) ==
    /\ LET k == SelectInSeq(Taken(r), LAMBDA s : ~s.valid)
       IN printed' = printed \o (IF k = 0 THEN Taken(r) ELSE SubSeq(Taken(r), 1, k - 1))
    /\ cache' = [cache EXCEPT ![r] = Left(r)]

\* take_and_print(): one batch, of which the samples with data are printed and counted.
TakeAndPrint(r) ==
    /\ printed' = printed \o Selected(Taken(r), Data)
    /\ cache' = [cache EXCEPT ![r] = Left(r)]

EchoReachedCount == maxCount > 0 /\ Len(printed) >= maxCount

\* One round of the loop: the count is tested before each batch.
EchoRead ==
    /\ command = "echo" /\ pc = "read"
    /\ running /\ ~EchoReachedCount
    /\ TakeAndPrint(EchoReader)
    /\ UNCHANGED <<running, pc, options, arrived, overwritten, due, hz>>

EchoExit ==
    /\ command = "echo" /\ pc = "read"
    /\ ~running \/ EchoReachedCount
    /\ pc' = "done"
    /\ UNCHANGED <<running, options, dds, printed, due, hz>>

-----------------------------------------------------------------------------
(* hz: FrequencyStats.                                                     *)

AddTimestamp_KeepsAll(window, stamp) == LastOf(Append(window, stamp), windowSize)

\* A timestamp that is not newer than the last one is dropped.
AddTimestamp(window, stamp) ==
    IF window # <<>> /\ stamp <= Last(window) THEN window
    ELSE LastOf(Append(window, stamp), windowSize)

HasData(window) == Len(window) >= 2

\* add_timestamp() for one timestamp after the other.
Track(window, stamps) ==
    LET after[n \in 0..Len(stamps)] ==
            IF n = 0 THEN window ELSE AddTimestamp(after[n - 1], stamps[n])
    IN  after[Len(stamps)]

Sum(seq) ==
    LET upTo[n \in 0..Len(seq)] == IF n = 0 THEN 0 ELSE upTo[n - 1] + seq[n]
    IN  upTo[Len(seq)]

\* The average interval is total / intervals; the rates are the inverses of the intervals.
Calculate(window) ==
    LET gap(i) == window[i + 1] - window[i]
        gaps == Selected([i \in 1..(Len(window) - 1) |-> gap(i)], Nat \ {0})
    IN [total |-> Sum(gaps), intervals |-> Len(gaps), window |-> Len(window),
        shortest |-> Min(ToSet(gaps)), longest |-> Max(ToSet(gaps))]

-----------------------------------------------------------------------------
(* hz: the loop.                                                           *)

\* take_and_record(): a sample without a source timestamp gets the time of its batch.
StampsOf(r, time) ==
    LET batch == Selected(Taken(r), Data)
    IN [i \in 1..Len(batch) |-> IF batch[i].stamp > 0 THEN batch[i].stamp ELSE time]

HzRead ==
    /\ command = "hz" /\ pc = "read" /\ running
    /\ \E time \in now..MaxNow :
          /\ now' = time
          /\ recorded' = [r \in Readers |-> recorded[r] \o StampsOf(r, time)]
          /\ timestamps' = [r \in Readers |-> Track(timestamps[r], StampsOf(r, time))]
    /\ cache' = [r \in Readers |-> Left(r)]
    /\ pc' = "print"
    /\ UNCHANGED <<running, options, arrived, overwritten, printed, due, shown>>

WithData == {r \in Readers : HasData(timestamps[r])}

ShowStatistics ==
    shown' = [r \in Readers |-> IF r \in WithData THEN Calculate(timestamps[r]) ELSE shown[r]]

HzPrint_WhenAllHaveData ==
    /\ command = "hz" /\ pc = "print"
    /\ IF due /\ WithData = Readers THEN ShowStatistics /\ due' = FALSE
       ELSE UNCHANGED <<shown, due>>
    /\ pc' = "read"
    /\ UNCHANGED <<running, options, dds, printed, now, timestamps, recorded>>

\* Once a second, when there is anything to show.
HzPrint ==
    /\ command = "hz" /\ pc = "print"
    /\ IF due /\ WithData # {} THEN ShowStatistics /\ due' = FALSE
       ELSE UNCHANGED <<shown, due>>
    /\ pc' = "read"
    /\ UNCHANGED <<running, options, dds, printed, now, timestamps, recorded>>

\* After an interrupt the statistics are printed for the last time.
HzExit ==
    /\ command = "hz" /\ pc = "read" /\ ~running
    /\ ShowStatistics
    /\ pc' = "done"
    /\ UNCHANGED <<running, options, dds, printed, due, now, timestamps, recorded>>

Loop == EchoRead \/ EchoExit \/ HzRead \/ HzPrint \/ HzExit

\* The command is over.
Terminated == pc = "done" /\ UNCHANGED vars

Next ==
    \/ Loop \/ SecondPasses \/ Interrupt \/ Terminated
    \/ \E r \in Readers : Arrive(r)

-----------------------------------------------------------------------------
(* Properties.                                                             *)

\* The cache of a reader holds its newest samples, and what its history dropped is older.
CacheIsTheNewest ==
    \A r \in Readers :
        /\ \A i \in DOMAIN arrived[r] : arrived[r][i].reader = r /\ arrived[r][i].seq = i
        /\ cache[r] = LastOf(arrived[r], Len(cache[r]))
        /\ \A s \in overwritten :
              s.reader = r => s.seq <= Len(arrived[r]) - Len(cache[r])

\* echo prints every message once, in the order of arrival, and leaves out only those that
\* the history of the reader dropped before the loop came to take them.
EchoPrintsAllInOrder ==
    command = "echo" =>
        LET r == EchoReader
        IN printed = Selected(arrived[r], Data \ (overwritten \cup ToSet(cache[r])))

\* --count is overshot by less than one batch.
OvershootIsLessThanABatch == maxCount > 0 => Len(printed) < maxCount + MaxSamples

\* What echo has printed: all of it, in order, and less than a batch too much.
EchoInv ==
    ReadTypeOK /\ CacheIsTheNewest /\ EchoPrintsAllInOrder /\ OvershootIsLessThanABatch

\* A message that waits is printed if the count and the user allow it, and echo exits when
\* it has printed what it was asked for.
EchoKeepsUp ==
    /\ command = "echo" /\ cache[EchoReader] # <<>> ~> cache[EchoReader] = <<>> \/ pc = "done"
    /\ command = "echo" /\ EchoReachedCount ~> pc = "done"

\* The timestamps that were each later than all before them, in their order.
Records(got) ==
    LET record == {i \in DOMAIN got : \A j \in 1..(i - 1) : got[j] < got[i]}
        places == Selected([i \in DOMAIN got |-> i], record)
    IN  [k \in DOMAIN places |-> got[places[k]]]

\* The window of a tracker holds the newest of them: late or repeated messages do not count.
WindowIsTheNewestRecords ==
    \A r \in Readers : timestamps[r] = LastOf(Records(recorded[r]), windowSize)

\* So it is increasing, and nothing that was recorded is later than its last timestamp.
WindowIsIncreasing ==
    \A r \in Readers :
        LET window == timestamps[r]
        IN  /\ \A i \in 1..(Len(window) - 1) : window[i] < window[i + 1]
            /\ \A stamp \in ToSet(recorded[r]) : window # <<>> /\ stamp <= Last(window)

\* The rates that hz prints are finite and ordered, min <= average <= max, and the average
\* is that of the whole window: intervals over the time from its first to its last message.
RatesAreThoseOfAWindow ==
    \A r \in Readers : shown[r] # <<>> =>
        LET s == shown[r]
        IN /\ s.shortest > 0
           /\ s.intervals = s.window - 1
           /\ s.shortest * s.intervals <= s.total /\ s.total <= s.longest * s.intervals

\* What hz keeps and what it shows of it.
HzInv == WindowIsTheNewestRecords /\ WindowIsIncreasing /\ RatesAreThoseOfAWindow

\* Every topic with two timestamps is shown, whether or not the others get any.
EveryTopicIsShown ==
    \A r \in Readers : HasData(timestamps[r]) ~> shown[r] # <<>>

\* "print N messages then exit", the help text of echo says.
PrintsCountMessages == maxCount > 0 => Len(printed) <= maxCount
=============================================================================
