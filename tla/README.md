# cddsctl in TLA+

TLA+ modules, TLC configurations and TLAPS proofs for cddsctl, a command line tool for
CycloneDDS: it lists topics, shows and measures their messages, and records them into MCAP
files. All paths below are those of the repository; the code is under `src/src`, `src/include`
and `src/cli`.

| Abbreviation | File |
| --- | --- |
| R, RH | `src/src/record/Recorder.cpp`, `src/include/cddsctl/record/Recorder.hpp` |
| W | `src/src/record/McapWriter.cpp` |
| TD | `src/src/dds/TopicDiscovery.cpp` |

To check a module: `tlc -workers 2 -config life_calls.cfg MCLifecycle`; to check its proofs:
`tlapm RecorderLifecycle_proofs.tla`. `PROJECT.json` lists the runs, the source lines of every
definition, and for each property a mutant: the definition `<name>_<change>` that stands before
`<name>` in its module. A mutant is the same code with a plausible mistake, and the property is
violated once it takes the place of the original.


## 1. The system

### Threads and locks

A recording has up to five kinds of threads:

* the **caller** of `start()`, `stop()`, `pause()` and `resume()`;
* **waiters** in `wait_for_completion()`, on `completion_cv_` under `completion_mutex_`;
* the **polling thread** of the recorder (`data_polling_thread()`): takes samples, writes them,
  tests the limits, splits the file, and cleans up after a limit;
* the **discovery thread** of `TopicDiscovery`: polls two builtin readers and runs the callback
  `on_endpoint_discovered()`, which registers types, schemas and channels and creates readers;
* a **signal handler**, in the command `record`, which calls `stop()` from wherever the main
  thread happens to be.

`McapWriter::mutex_` protects both register functions and the look-ups of ids
(`get_channel_id()` and the like), but neither `write_message()` nor `reopen()`;
`readers_mutex_` protects `readers_`, but not the loop of
`re_register_schemas_and_channels()`. `callback_mutex_` is held by `set_state()` (R:510-516) while it
calls the user's callback; `start()`, `stop()` and the polling thread all call it. `state_`, `polling_active_` and `running_` are atomics that
are tested and stored in separate steps. The commands have two threads, main and discovery, and
the callback works on variables of the main thread's stack frame.

### Components

| Component | State | Operations | What makes it correct |
| --- | --- | --- | --- |
| Recorder | `state_`, `polling_active_`, two threads, `readers_`, statistics, split list, disk schedule | start, stop, pause, resume, wait, polling, limits, split, retention, disk check | Whoever ends a recording joins before it closes and closes before it says so; waiters are woken; limits hold; only surplus files are removed |
| McapWriter | open file, `schema_ids_`, `channel_ids_`, `bytes_written`, path | open, reopen, close, register, write | An id names what it was registered for in the file that is open |
| TypesCollection | types, types of topics | add, register | A topic is recorded with the schema of its type |
| TopicDiscovery | endpoint tables, thread | start, stop, polling, callbacks | What is alive gets known, what is removed is forgotten, the two tables agree |
| RawDataReader | a DDS reader and its cache | create, take | Takes what the history kept, in order |
| list, info, echo, hz | what the callback collected, reader, options | wait, read, print | Callbacks end before the frame does; what is read is decoded by the type of its endpoint; a message is printed once; rates are those of the window |
| ps | three builtin readers, a map of participants | poll, list | What is alive is listed with its topics, whatever order it is announced in |
| record | options, configuration, two flags, the recorder, a global pointer | execute, signal handler | It records the topics it was asked for and ends as it was asked to; a limit or a signal ends it with a closed file |
| Configuration, ConfigBase, TopicFilter | values | parse, override, match | An option overrides the file and nothing else does; a topic passes the filter exactly if it was asked for |
| TypeSupport, CdrReader, YamlPrinter, JsonPrinter | none (functions of type objects) | schema, read, print | What is printed is what was sent; the schema says the type |
| Participant, logging | one handle, none | | (not modelled) |

### What is hard

1. `pause()` and `resume()` test and store `state_` in two steps, against the end of a recording
   on the polling thread and `stop()` on another.
2. Two teardowns: `stop()` of a paused recorder and the polling thread after its loop.
3. A split replaces the writer while the discovery thread registers into it.
4. A limit, a signal and a `stop()` end one recording at the same time.
5. Callbacks that run while a command gives up or returns.
6. Limits, schedules and lists at their boundaries; disks that fill up; `statvfs()` and
   `std::remove()` that fail; caches that overflow.
7. Options that come from two sources and from two readings of the command line, and exceptions
   that a bad one throws much later, on another thread.
8. A signal handler that needs what the interrupted call holds: `callback_mutex_`.
9. Alignment and widths in the CDR stream, for which nothing in the stream can be checked.

The "hazards" of `PROJECT.json` are these at their lines, with the properties that watch them.


## 2. The modules

| Module | Models | State and actions, against the code |
| --- | --- | --- |
| `RecorderLifecycle` | Recorder: start, stop, pause, resume, wait, both threads | A program counter per thread (`main`, `poll`, `disc`, `waiter`, `toggle`); one action per access to shared state: `StopCall` is the first store of `stop()`, `StopJoin` its join, `StopCheck`/`StopSet` the test and the store of `state_`, and so on; `StartLock`/`StartUnlock`, `StopLock`/`StopUnlock` and `FinishCallback` are the rest of `set_state()`, under `callback_mutex_`. A file is open (numbered by its recording) or not. |
| `Recording` | what `Recorder.hpp` promises to its users | The abstract specification: a recording begins, its file is open in between, and a waiter is told "complete" only when that file is closed for good. `RecorderLifecycle` implements it (`Contract`, `ImplementsRecording`) with `told` from the waiters' program counters and `open` from `file`. |
| `RecorderLifecycle_proofs` | | Theorems, those about `Recording` too |
| `SplitRegistration` | `on_endpoint_discovered()`, `setup_reader_for_topic()`, `record_sample()`, both register functions, `do_split()`, `reopen()`, the ids of `mcap::McapWriter` | `schemaIds`, `channelIds` are the maps; `schemas`, `channels` what is in the file; a message of `file` says both its topic and type and those its channel declares. The register functions are split into the look up, the addition to the file and the store of the id; `reopen()` into its close and its four assignments. The history variable `raced` says whether an endpoint was in the hands of the callback during the last `reopen()`. |
| `SplitRegistration_proofs` | | Theorems |
| `FileRotation` | `record_sample()`, `scheduled_check_disk()`, `check_limits()`, `do_split()`, `check_num_splits()`, `open()`/`reopen()`, `RecorderStats`, `generate_filename()` | One pass of the polling loop is `TakeSamples` and then `WithinLimits`, `LimitEndsRecording`, `SplitFile` or `SplitFails`. The clock and the disk change between any two steps. `split` is what `init()` has set; no step changes it. |
| `FileRotation_proofs` | | Theorems |
| `TopicDiscovery` | `start()`, `stop()`, `discovery_thread_func()`, `process_endpoint()` | `batch` is what one `dds_take()` returned; `AddEndpoint` updates the tables, the callback is the next step (`InvokeCallback`, conjoined by those who use it). The builtin readers and the endpoints are the environment (`Network`). |
| `DiscoveryCommands` | `execute()` of list, info, echo, hz up to the reading, and their callbacks | EXTENDS `TopicDiscovery`. One behaviour is one command. |
| `DiscoveryCommands_proofs` | | Theorems, those about the tables of `TopicDiscovery` too |
| `RecordOptions` | `option::Parser`, the scan for topics, `Configuration`, `ConfigBase`, `TopicFilter`, the overrides, `parse_size()`, `parse_duration()` | Operators only. A text is a number and the rest behind it, as `strtod()` sees it; a command line is a sequence of arguments; a file is the set of its keys. `Asked` and `Decided` say what a command line means by the usage text. |
| `RecordCommand` | `execute()` of record and its signal handler | EXTENDS `RecorderLifecycle` and `RecordOptions`: `ReadOptions` makes `config` of a command line and a file, `PollAsConfigured` lets the limits do what `config` says, `FilterThrows` is the callback that meets a bad pattern; a signal pushes the point where the main thread is on `frames` and enters `stop()`. `Hung` are the states in which the handler waits for what the interrupted call holds. |
| `RecordCommand_proofs` | | Theorems, those about `RecordOptions` too |
| `Selection` | what is left of a vector after `remove_if()` and `erase()` | A recursive function instead of `SelectSeq`, about which nothing could be proved |
| `SelectionTheorems` | | Lemmas, and how to prove by induction without an induction theorem |
| `ReadLoops` | the loops of echo and hz, `take_and_print()`, `take_and_record()`, `FrequencyStats`, a reader's cache | `printed`, `timestamps` (the window) and `shown` are compared with the histories `arrived` and `recorded`. |
| `PsCommand` | `execute()` of ps | One `PsTake` per batch of a builtin reader; `participants` is the map. The builtin readers are the environment (`OthersAct`). |
| `CommandLoops` | the choice of `main()` among echo, hz and ps | EXTENDS `ReadLoops` and `PsCommand`; what does not run stays as it is. |
| `CommandLoops_proofs` | | Theorems about all three |
| `TypeObjects` | XTypes type objects, type mappings, the searches in them | Records. What the code computes by recursion over types is a function of a depth, the number of references that are followed, here and in the next three modules. |
| `SamplePrinting` | `CdrReader`, `YamlPrinter`, `JsonPrinter` | Functions from types and bytes to documents, and the position where the reading ended (`ReadUpTo`); and what is meant: the values of a type as documents with their encodings by XCDR1 (`SamplesUpTo`) |
| `SchemaText` | `generate_idl_for_type()` and its helpers (`TypeSupport.cpp`) | Functions from type objects to a list of declarations |
| `TypeUse` | one use of a type by echo or the recorder | A sample is chosen with its type mapping and printed, or the schema is written. Which types are printed as they are (`Printable`) or can be expressed (`Expressible`), and what a text means to its reader (`MemberMeant`) |
| `TypeUse_proofs` | | Theorems |
| `MC*` | | The finite sets of the runs |

How they compose: `RecordCommand` runs a command on top of the recorder's life, configured by
`RecordOptions`; `DiscoveryCommands` runs four of them on top of the discovery. `RecorderLifecycle`,
`SplitRegistration` and `FileRotation` are three views of the same polling thread; each says in
its header what it leaves to the others. What they share is small: a file is open
(`RecorderLifecycle`), has a name, an age and a size (`FileRotation`), and has schemas, channels
and messages (`SplitRegistration`).

Abstractions that matter:

* Samples have size 1 in `FileRotation`, a stamp in `ReadLoops`, and a topic and a type in
  `SplitRegistration`; their bytes exist only in `TypeUse`.
* Time is a counter that may advance between any two steps; timeouts may pass at any moment.
* `dds_create_reader()`, `reopen()`, `statvfs()` and `std::remove()` may fail nondeterministically
  where the code handles it. Allocation failures and exceptions are left out, except for the
  joins and assignments of `std::thread` that end the process.
* The races of item 3 are also data races on `std::unordered_map`. What a corrupted container
  does is not modelled: the model shows what goes wrong even if none is.


## 3. The runs

None of the runs uses symmetry, since most check liveness or are small without it.

| Run | Asks | Properties |
| --- | --- | --- |
| `life_calls` | Does the recorder do what its interface says, and does every call return, when one thread starts and stops twice, two wait (one of them with a timeout), and a limit may split or end each recording? | `ImplementsRecording` (the refinement of `Recording`), `CallbackSeesOpenFile`, `NoLostWakeup`, `NoTerminate`, `EndOfLoopCompletes`, `WaitersReturn` |
| `life_split_pause` | What survives a thread that pauses and resumes at any moment, with splits that may fail? | `LifecycleInv` (the inductive invariant), `StoppedIsSealed`, `StopReturns` |
| `life_pause_hang` | Does a limit end the wait when somebody pauses? **No** | `LimitEndsTheWait` |
| `reg_splits` | Is everything recorded under its topic, with a schema announced for it, over two splits, with discoveries at any moment and a topic that has two types, in every file whose `reopen()` met no discovery? | `RegistrationInv` (with the inductive invariant `SplitInv`), `RecordedAsReceived` |
| `reg_split_topic` | And in a file whose `reopen()` met one? **No** | `RecordedUnderItsTopic` |
| `rot_files` | Which files does a recording, split or not, keep, list, remove and give up, and when? Does writing follow the disk within a period of the check? | `RotationInv` (the inductive invariant), `OvershootIsOneBatch`, `RemovesOnlyTheOldest`, `SplitsOnlyAtALimit`, `OpensNoExistingFile`, `DurationIsLimited`, `FreeDiskResumesWriting`, `LowDiskStopsWriting` |
| `disc_commands` | Are commands told all that is discovered, by callbacks that end before they do, and does every wait end? | `TablesInv`, `ClientInv` (inductive together), `EchoDecodesItsOwnType`, `RemovalIsComplete`, `CommandEnds`, `AliveIsDiscovered` |
| `record_signal` | Does `cddsctl record` record what its options and its file ask for, end when they say so, and end with a closed file wherever a signal interrupts it, unless it hangs in the one known way (`Hung`)? | `RecordsTheTopicsAsked`, `CommandLineOverridesFile`, `EndsByItselfOnlyAtALimit`, `ExitInv`, `StatisticsAreFinal`, `SignalEndsOrHangs`, `LimitEndsOrHangs` |
| `record_hang` | Does Ctrl+C always end it? **No** | `SignalEndsTheCommand` |
| `read_loops` | Does echo print all messages in order, hz the right rates and ps everybody, when caches overflow, batches are full and entities come and go? | `EchoInv`, `HzInv` (inductive together), `PsInv` (inductive), `DataIsShown` |
| `types` | For every pair out of 21 member types: is what echo prints what was sent, and what the recorder writes as a schema the type? | `PrintsWhatWasSent`, `SchemaSaysTheType` |
| `types_unions` | For unions with an integer discriminator too? **No** | `UnionsArePrinted` |

Bounds, and why they are enough:

* `MaxStarts = 2`: what one recording leaves behind meets the next; a third start finds the
  same. Two waiters, since `notify_all()` and the mutex differ from `notify_one()` only from two on;
  one toggler, whose pause and resume already interleave with both teardowns. `AtLimit` says what
  a limit may do: split, end, or both.
* `reg_splits`: `MaxSplits = 2`, one split to lose an id (or to meet a discovery) and one more to lose what
  the first re-registered (or to find the file in order again). Two topics are enough to confuse one
  with the other; one has two types, so that its reader, its registered type and its schema may
  differ, and the other shares one of them, so that a schema is found as well as added.
* `rot_files`: a maximum size of 3 with passes of up to 2 samples, so that the limit is met exactly
  and exceeded; two files kept out of up to four; `CheckPeriod = 2` instead of 20 seconds, with a
  clock of 4, so that a look at the disk is due, early and overdue. One recording; the theorems
  that need no assumption about it hold for any number.
* `disc_commands`: three endpoints, of which two disagree about the type of a topic, one comes
  late and two changes or departures happen; batches of one sample (32 in the code), so that every
  builtin reader with two samples fills a batch.
* `record_signal`: 18 command lines, which have every option that the code reads, in every style,
  with words before, between and after them, numbers and patterns that are none, and an unknown
  option; no file, four files, or one that cannot be loaded; two topics, a pattern for both and one
  that does not compile; two signals. `Kilo = 8` and `SizeModulus = 4096` stand for 1024 and 2^64,
  so that a size of 64 MB in a file is 64 * 8 * 8 = 4096 and wraps around to 0, which is no limit.
* `read_loops`: batches of 2 (32 in the code), a history of 3 (100) and 5 arrivals: a full
  batch and an overflowing cache. Stamps that are missing, repeated and out of order; a count
  that is absent, below and equal to a batch. For ps, batches of 1 with two writers, a participant
  and its writer that come late in any order, one change or departure.
* `types`: the 21 member types are primitives of each width (BYTE, INT16, INT32, FLOAT64; the others differ from
  these in their names only), texts, sequences, arrays, structs, an enumeration, unions and an alias.
  Every pair of them is checked, so that each follows each at every alignment
  that these leave behind, in both orders of the type mapping. `MaxDepth = 5` is more than any of
  these types needs; sequences are empty or have two elements, arrays two or three, within
  `MaxElements = 4`; there is one number of each width, two bytes and two texts. None of these bounds
  matters to the theorems, which are about the same definitions.

Deadlock is checked in all runs: the end of a behaviour is an explicit stuttering step under the
condition that the program is over.


## 4. Fairness

* **Threads run.** Every thread that is inside a call, the polling thread and the discovery
  thread are weakly fair: the operating system schedules them, and their loops have bounded
  sleeps.
* **Mutexes.** Those who wait for `completion_mutex_` (`StopNotify`, `FinishNotify`, `WaitLock`) are
  strongly fair: the mutex is held for a few instructions at a time, and everyone who wants it gets
  it eventually.
* **Nobody must act.** Callers need not call, limits need not be reached, samples, endpoints and
  signals need not come, and wakeups need not be spurious. An operator who pauses need not
  resume.
* `DiscoveryCommands`: the two threads, and `GiveUp`, since timeouts pass; a command that reads may
  read for ever.
* `CommandLoops`: the loops, and `SecondPasses`, since the clock moves. The timeout of ps is not
  fair: it may be longer than any behaviour.
* `RecordCommand`: the main thread, including a handler that runs on it, and the recorder's two
  threads. With nobody who waits or pauses there is no contention for `completion_mutex_`.
* `callback_mutex_` needs no strong fairness: once whoever waits for it holds up a teardown, nobody
  else takes it again and again.


## 5. What is proved

Every safety invariant and every action property that a passing run checks is a theorem; some
have a hypothesis, which is named with them below. The theorems hold for every value of the
constants that the named assumptions allow. These say what the constants are (`LifecycleAssumption`, `RotationAssumption`,
`RegistrationAssumption`, `DiscoveryAssumption`, `CommandAssumption`, `OptionsAssumption`, `ReadAssumption`,
`PsAssumption`, `TypeUseAssumption`), and `RecordAssumption` that the recorder of the command is started once, by one thread,
with no waiters and nobody who pauses, and that its configuration decides what a limit does.

### `RecorderLifecycle_proofs`

For any number of waiters, togglers and starts, with or without splits and limits.

* `Typing`: `TypeOK` is inductive by itself.
* `Induction`: `LifecycleInv` = `TypeOK`, `ThreadInv`, `DiscoveryInv`, `FileInv`, `WaitInv`, `RestartInv` is
  inductive. None of the safety properties is. "A recorder that says Stopped has
  closed its file" is preserved by a store of Stopped only if one knows where the
  storing thread has been before: `FileInv` ties each point of each teardown to the file;
  `DiscoveryInv` says who may join the discovery thread and that it is gone before the file is
  closed; `ThreadInv` says where the polling thread may be while `stop()` and `start()` go on, which
  is what the join gives; `WaitInv` that a waiter between its test and its sleep holds the mutex.
  The proof has one lemma per part and in each one step per action.
* From it, by implication: `StoppedSealed`, `SamplesToOpenFile`, `CallbackSeesFile`, `WakeupNotLost`, and
  `JoinFirstIsSafe`, which assumes `JoinBeforeStart`.
* `Refinement` (`ImplementsRecording`), which assumes `Togglers = {}`: every step is a step of
  `Recording` or changes none of its variables. It needs a second invariant, `UnpausedInv`: without
  `pause()` the recorder is Running exactly as long as its polling thread works, so that only this
  thread stores Stopped, and a waiter that is about to return true has seen the recording it
  asked about end. With `pause()` it does not hold (section 6).
* `CompletionSealed` (`CompletedRecordingIsSealed`), under the same assumption, from `Refinement`.
* `ContractKeepsCompleteSealed`, of `Recording`, with the inductive invariant `ContractInv`: once a waiter is
  told "complete", the file of the recording it asked about is never open again. By `Refinement`
  the recorder inherits it (`CompleteIsForEver`), which is what the abstract specification is good
  for: the argument never looks at a thread.

### `SplitRegistration_proofs`

For any topics, types, endpoints and splits, with several types for one topic and with discoveries
at any moment, also during a split.

* `SplitInvariant`: `SplitInv` is inductive. What is collected, read and registered again always comes
  from announced endpoints (`CollectionInv`), and a file is open outside `reopen()` (`OpenInv`); the rest
  (`Orderly`) holds unless `raced`. `IdsInv` is its centre: every schema and channel of the
  open file is in the maps under its name, and every id in the maps is that of such an entry, but
  for what the discovery thread is about to store. `ReopenInv` says what `reopen()` has cleared at each
  point, `DiscoveryInv` what the callback has already looked up, `ReRegisterInv` that a
  topic without a channel is one that the re-registration has yet to come to.
* Two steps carry the argument about races. Only a `reopen()` that begins when no callback runs
  clears `raced` (`RacedStep`), and then everything holds again whatever was wrong before, since the maps
  and the writer are emptied and filled from the collection, which a race does not damage
  (`SplitCloseStep`). What a race leaves behind therefore ends with the next split that meets none.
* From it: `RegistrationInvariant`, `MessagesAreRecordedAsReceived`. Without `~raced` they do not hold
  (section 6), and a message's schema is one announced for its topic, not always that of its own type.

### `FileRotation_proofs`

For any limits, batch sizes, periods and clocks.

* `RotationInvariant`: `RotationInv` = `TypeOK`, `RunningInv`, `ListIsTheNewestFiles`, `DiskInv` is inductive over
  any number of recordings. `DiskInv` is the part that is not obvious: if the next look at the disk
  is due later than a period after the disk last changed, then the last look was after the change.
* From it: `ListStaysTheNewestFiles`, `RetentionKeepsTheNewest`, `WritingStopsOnALowDisk`, `WritingResumes`.
* `FirstRecording` assumes `MaxRecordings <= 1` and adds `FirstRecordingInv` (the counters are those of the
  current file; no split number is reused) and `SizeInv`. The assumption is needed: `open()` does not
  reset `bytes_written`, and `start()` does not reset `end_time`. From it: `CurrentFileSize`, `Overshoot`,
  `SplitsAreDue`, `SplitsAreNewFiles`, `DurationLimit`.

### `SelectionTheorems`

What echo prints, what a window keeps, which topics a command line names and what a removal leaves
of a table are selections from sequences. The lemmas say what `Selected` returns for every sequence: the wanted elements
(`SelectedElements`), all or none of them, and that it distributes over concatenation
(`SelectedConcat`), which is what a step that appends needs.

They need induction, and the induction theorems of the library take an operator that the provers
cannot instantiate. Instead each proof is that of the smallest counterexample: the set of the
counterexamples is a set of natural numbers, `SmallestElement` (from `WFMin` of the library) names its
smallest, and the step below it is not in the set. In the same way it is shown that a recursive
function exists at all (`SelectedExists`), without which CHOOSE says nothing of it
(`SelectedRecursion`). `RecordCommand_proofs` and `CommandLoops_proofs` do the same for the scan of the
arguments (`SkippedRecursion`), the window (`TrackRecursion`) and the sum of the intervals
(`SumRecursion`).

### `DiscoveryCommands_proofs`

For any endpoints, batch sizes, changes of the network, commands and tracked topics.

* `TablesAreRight` (`TablesInv`), `CommandsAreTold` (`ClientInv`). Their conjunction `IInv` is inductive;
  `TablesInv` is so under every step of the commands, since these change nothing of the discovery but
  `running`. That what is alive is known (`AliveIsKnown`) holds over a pass only with `SamplesInv`: what a
  batch says of an endpoint agrees with its life, and a batch is empty when the next one is taken. That a
  command knows the table needs `ThreadInv`: a callback runs only while `running` or until the join.
  `ReaderInv` relates echo's reader to the type in its hands, and the lock between them.
* From it: `EchoKeepsToOneType` and `RemovedForGood`.

### `RecordCommand_proofs`

For any command lines, files and number of signals.

* `CommandInduction`: `CommandInv` is inductive. It extends the argument of `LifecycleInv` to a thread that
  is at several places at once: `StackInv` says which calls a signal may have interrupted, and
  `RecorderInv` and `TeardownInv` say of every frame of the stack what `LifecycleInv` says of the
  main thread; `MutexInv` that `callback_mutex_` is in the hands of one of these frames, or of none, so that
  the process hangs only if a signal has found `start()` with it (`HangsAreKnown`); `ProgressInv` says
  how far `execute()` may be for the state of the recorder, and `LimitInv`
  that a loop which ends by itself had a limit in `config`. The lemmas about types of
  `RecorderLifecycle_proofs` are used for the steps of the recorder.
* From it: `NothingIsLeftBehind` (`ExitInv`), `FinalStatistics` (`StatisticsAreFinal`), `LimitsAlone`
  (`EndsByItselfOnlyAtALimit`).
* `OptionsOverrideTheFile` and `TheTopicsAskedFor` are about functions of the input: for every command line
  and every file, `Effective` is what `Decided` says (but for the date that goes with `-o`, which is
  `Disputed`, section 6), and the topics that pass its filter are those
  `Asked` for, if the command line is `Regular`. The second needs an induction over the arguments, by
  which the scan for topics and the parser agree on what is the value of an option.

### `CommandLoops_proofs`

* `PsInvariant`: `PsInv` is inductive for any entities, filters and batch sizes: what is alive is in the
  map or waits in its reader, the map holds nothing that was never announced, and the list is
  what was asked for.
* `EchoInvariant`, `HzInvariant`, for any messages, stamps, caches, batches, counts and windows. `ReadInv`, the
  conjunction of `EchoInv` and `HzInv`, is inductive; neither is alone, since the rates that are shown have
  their type only if windows increase. For echo the argument is that of a queue: what is printed,
  and then the cache, are the messages that arrived but for those that were pushed out, in their order. For hz
  the window is compared with a history: `TrackFacts` says by induction over a batch that `AddTimestamp()`
  keeps the window the last `windowSize` records of all stamps, `RecordsAppend` and `LastOfAppend` how records
  and their ends grow, and `CalculateFacts` that the average of the intervals of an increasing window lies
  between the smallest and the largest of them.

### `TypeUse_proofs`

For any struct, any library of types it may refer to, any values, lengths and depths.
`TypeUseAssumption` says that type objects are well-formed (within a mapping hashes and names are
unique, within an enumeration values, within a union labels), and that what is sent has the form
CDR gives it: numbers of their width, lengths and discriminators that an int32 holds. Unions, enumerations,
aliases, references to nothing and empty lists are allowed, recursive types too, as long as the value
ends.

* `UseInvariant` (`UseInv`): what has been made is made of the mapping and the sample, and the mapping
  is well-formed (`Proper`). The rest is about functions.
* `SamplesArePrintedAsSent` (`PrintsWhatWasSent`). The bytes: what `Put` puts behind some bytes is read back by
  `ReadPrimitive` from where these end, whatever follows (`ReadsWhatWasPut`), since both go to the next multiple of
  the width; the same for numbers and texts (`NumberOfBytes`, `ReadsTheText`). A sample *agrees* with the
  printer if, behind whatever bytes and before whatever bytes, its document is read and the reading ends where
  it ends. Members in turn agree if each does (`InTurnAgrees`, by induction over the members);
  then there is a lemma for each kind of type (`PrimitiveAgrees`, ..., `UnionAgrees`), where the hypotheses of
  `Printable` are used, and `PrintedAsMeant` goes by induction over the references that are
  followed, along the printer (`ReadUpTo`), the encoder (`SamplesUpTo`) and the parts of the type
  (`PartsUpTo`) at once.
* `SchemaDeclaresTheStructs` (`SchemaSaysTheType`). The text of an expressible type that is no array has no bounds
  and means the type (`TextsMeanTheirTypes`, by induction); the text of an array is that of its element and then all its
  bounds, so `split_array_type()` splits it between the two (`BoundsAreSplit`). Each of the two passes
  adds what it has not declared yet, and names are unique (`EnumsAreDeclared`, `StructsAreDeclared`), so each
  struct has one declaration, and it is its own.

Ten recursive functions occur in these definitions. That each exists and satisfies its equation
(`InTurnRecursion`, ..., `StructsRecursion`) is proved in the same way for all of them, as for `Selected`.

### Only model-checked

Everything about liveness: `EndOfLoopCompletes`, `WaitersReturn`, `StopReturns`, `CommandEnds`,
`AliveIsDiscovered`, `SignalEndsOrHangs`, `LimitEndsOrHangs`, `DataIsShown`. It needs fairness and ENABLED.


## 6. Where the code and its documentation disagree

Kept as runs that TLC refutes:

* **`life_pause_hang`.** A limit clears `polling_active_`; a `pause()` before R:282 makes the polling thread
  skip its cleanup, and `wait_for_completion()` waits for ever. RH:130 promises to "wait for
  recording to complete (duration limit or file size limit)".
* **`reg_split_topic`.** `reopen()` (W:66) does not take `mutex_`. Between the two halves of
  `register_channel()` it lets the id of the old file be stored for the new one, where it names
  another topic's channel, and samples are recorded under the wrong topic.
* **`record_hang`.** `start()` stores Running and then takes `callback_mutex_` (R:513). A signal that finds
  the main thread there runs `stop()` on top of it, which joins the polling thread; if that has ended
  by itself, it calls `set_state(Stopped)` (R:296) and waits for the same mutex. Neither goes on.
  `RecordCommand.cpp:287` says "Press Ctrl+C to stop".
* **`types_unions`.** A union over BOOLEAN, BYTE, INT16, INT32, UINT16 or UINT32 is read with a
  discriminator of 8 bytes (`YamlPrinter.cpp:320`); `README.md:251` says unions are fully supported.

Found in the same models, and reproducible by changing constants or properties:

| What | Where | How to see it |
| --- | --- | --- |
| `stop()` of a paused recorder publishes Stopped before it joins discovery and closes the file, so a waiter is told that it is complete too early | R:118, RH:132 | `life_pause_hang.cfg` with `SPECIFICATION Spec` and `PROPERTY CompletedRecordingIsSealed` |
| `start()` after a limit, without `stop()`, assigns over a joinable thread and terminates the process | R:88 | `life_calls.cfg` without waiters, `JoinBeforeStart = FALSE`, `INVARIANT NoTerminate` |
| A topic registered during a split keeps its reader and loses its channel: its samples are dropped until the next split | W:80 | `reg_split_topic.cfg` with `INVARIANT SubscribedHasChannel` |
| Two types for one topic: its reader is of one of them and its channel may have the schema of the other, since the channel is registered for every endpoint and the reader created for the first one that DDS accepts; after a split the channel has the schema of the type announced last | R:226, R:443 | `reg_split_topic.cfg` with `Endpoints <- Conflicting` and `INVARIANT RecordedWithItsType` |
| The second recording of a recorder has no duration limit, since `end_time` stays that of the first | R:91, RH:36 | `rot_files.cfg` with `MaxRecordings = 2`, `MaxDuration = 1`, `MaxFileSize = 0`, and of the properties `DurationIsLimited` only |
| `-o` keeps the date setting of the file, so that the name has none if the file has `append_date: false` ("name will always end with date stamp") | `RecordCommand.cpp:73` | `record_signal.cfg` with `INVARIANT OutputNameIsDated` |
| YAML skips the elements of a list of unions or enumerations without reading them, so that all that follows is decoded from the wrong place; `AdvancedFeatures.idl:231` has a `sequence<VariantValue>`, and `README.md:372` names it as "Deep nesting with unions and sequences" | `YamlPrinter.cpp:122`, `:156` | `types_unions.cfg` with `Mains <- UnionListMains` |
| A second signal during the `stop()` of the first joins the polling thread twice and terminates the process | `RecordCommand.cpp:26` | `record_signal.cfg` with `CommandLines <- OneCommandLine` and `INVARIANT NoTerminate` |
| `echo --count N` prints up to a batch more than N ("print N messages then exit") | `EchoCommand.cpp:67` | `read_loops.cfg` with `INVARIANT PrintsCountMessages` |
| The schema's "dependency order" is the order of the mapping | `TypeSupport.cpp:459` | `types.cfg` with `INVARIANT DeclaredBeforeUse` |

Behaviour that the models describe and no document contradicts:

* `pause()` may overwrite the Stopped of a recording that has ended; `stop()` then repairs it.
* A file that `std::remove()` fails to delete leaves the list and stays on the disk, so more than
  `max_splits` files may remain. Files exceed `max_file_size` by up to a pass over the readers.
* An endpoint that is disposed after its sample was taken is delivered without data and skipped
  (TD:164), so it stays in the tables. `RemovalIsComplete` speaks of the removals that are processed.
* When the creation of its reader fails, echo overwrites the descriptor it made with that of the
  next endpoint, without freeing it; hz never shows a topic that is found after its wait.
* Besides a second signal, the process is ended by `std::stoi()` of something that is no number, and
  by a pattern that is no regular expression, which throws on the discovery
  thread when the first topic comes; the file stays open (`AbortsAreKnown`).
* `-d1 /a` records all topics: the scan for topics (`RecordCommand.cpp:187`) takes `-d1` for an option
  whose value follows. So does an unknown option. `RecordsTheTopicsAsked` asks for command lines
  without these (`Regular`). `-a` and named topics replace the whole filter of the file, what it
  excludes included; the first occurrence of an option counts.
* A size in MB of the file is multiplied in 64 bits and may wrap around to a small limit or none.
* ps prints a GUID of zeros for a participant of which it has seen an endpoint and not yet the
  participant itself (`NoGuid`), and keeps those that leave. It skips DCPS topics only, list also `rt/`.
* Enumerations and unions become `octet` in a schema, and a sequence of arrays is garbled by
  `split_array_type()`. Neither printer reads an alias or the default member of a union.
  `PrintsWhatWasSent` and `SchemaSaysTheType` exclude the types concerned, each
  where they are defined.


## 7. What is not modelled

* The options of the other commands, which are read like those of record; the timing, logging and
  discovery keys of the configuration and the compression level, which the recorder ignores or
  passes on; YAML itself; the list of schemas in JSON (a placeholder in the code).
* `RawDataReader::take_raw()` beyond its cache: how a serialized sample is got out of CycloneDDS or
  iceoryx, and the test for an encapsulation header, depend on the memory layout of these libraries.
* `Participant`, logging: nothing in them interleaves.
* What the state change callback does: no command of the repository sets one. The lock under which
  `set_state()` calls it is modelled; a callback that calls back into the recorder would need it again.
* Locks of spdlog, stdio and the allocator that the main thread holds when a signal arrives: the
  handler, which logs and allocates, can hang on these as on `callback_mutex_`.
* Kinds of types that `is_primitive_type()` does not know (int8, uint8, wide characters, maps, bitmasks), of
  which nothing is read, and the base type of a struct, whose members the printers do not look at.
* XCDR2 (8-byte alignment of 4, DHEADERs, optional and mutable members) and text that is not UTF-8:
  `SamplePrinting` encodes values by XCDR1.
* A signal handler that the system runs on another thread than main.
* The standard deviation of hz; wording and layout of all output.
* Vendored code, but for the numbering of schemas and channels in `mcap::McapWriter`; examples,
  scripts, tests.


## 8. The plan

Done, in this order: the life of the recorder and its proofs; registration and splits; rotation
and its proofs; discovery and the commands on it; the record command; the reading loops; types;
the abstract specification of a recording and the refinement; the proofs about registration;
options, configuration and filter; the proofs about ps, discovery, the commands on it, the record
command with its options, echo and hz, and about types.

What would come next:

1. What a state change callback may do, once the repository has a user of it.
2. The encoding XCDR2.
