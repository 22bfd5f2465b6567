---------------------------- MODULE RecordCommand ----------------------------
(***************************************************************************)
(* The command record (src/cli/commands/RecordCommand.cpp): the main       *)
(* thread makes one recording with a Recorder, and the handler of SIGINT   *)
(* and SIGTERM calls Recorder::stop() on that same thread, at whatever     *)
(* point of the command, or of a call into the recorder, the signal finds  *)
(* it.                                                                     *)
(*                                                                         *)
(* The recorder is that of RecorderLifecycle, with one start() and neither *)
(* waiters nor pauses.  Its variable main is where the innermost call on   *)
(* the main thread is; what the handler interrupts waits in frames.  Which *)
(* limits that recorder has, and whether its topic filter can throw, is    *)
(* decided by the options and the file of module RecordOptions.            *)
(***************************************************************************)
EXTENDS RecorderLifecycle, RecordOptions

CONSTANTS
    CommandLines,  \* the command lines to try, in a sequence
    ConfigFiles,   \* what the file that -c names may hold, in a sequence
    MaxSignals     \* bound: how many signals arrive

ASSUME RecordAssumption ==
    /\ MaxStarts = 1
    /\ Waiters = {} /\ Togglers = {}
    /\ AtLimit = {"split", "end"}
    /\ MaxSignals \in Nat
    /\ \A n \in DOMAIN CommandLines : CommandLines[n] \in Seq(Argument)
    /\ \A n \in DOMAIN ConfigFiles : IsFile(ConfigFiles[n])

VARIABLES
    line,       \* the number of the command line
    onDisk,     \* the number of the file that -c names, 0 if it does not load
    config,     \* config, once the options are read
    command,    \* where RecordCommand::execute() is
    gRunning,   \* g_running
    gRecorder,  \* g_recorder: does it point to the recorder?
    frames,     \* what the handlers that run have interrupted, the innermost first
    signals,    \* how many signals arrived
    badCall     \* a handler called a recorder that had been destroyed

commandVars == <<line, onDisk, config, command, gRunning, gRecorder, frames, signals, badCall>>
recorder == vars
allVars  == <<vars, commandVars>>

CommandPC == {"options", "setup", "init", "start", "starting", "loop", "check", "stopping",
              "statistics", "destroy", "destroying", "exited"}

RecordTypeOK ==
    /\ TypeOK
    /\ line \in DOMAIN CommandLines
    /\ onDisk \in {0} \cup DOMAIN ConfigFiles
    /\ command \in CommandPC
    /\ gRunning \in BOOLEAN
    /\ gRecorder \in BOOLEAN
    /\ frames \in Seq({"idle"} \cup StartPC \cup StartedPC \cup StopPC)
    /\ signals \in 0..MaxSignals
    /\ badCall \in BOOLEAN

Argv   == CommandLines[line]
NoFile == [key \in {} |-> 0]

\* What load_from_file() reads, if it is called.
Loaded == IF onDisk = 0 THEN NoFile ELSE ConfigFiles[onDisk]

RecordInit ==
    /\ Init
    /\ line \in DOMAIN CommandLines
    /\ onDisk \in {0} \cup (IF HasArg(Argv, "config") THEN DOMAIN ConfigFiles ELSE {})
    /\ config = FileConfig(NoFile)
    /\ command = "options"
    /\ gRunning = TRUE
    /\ gRecorder = FALSE
    /\ frames = <<>>
    /\ signals = 0
    /\ badCall = FALSE

\* The main thread is in execute() itself, neither in a call nor in a handler.
CommandGoto(from, to) ==
    /\ command = from /\ main = "idle" /\ frames = <<>>
    /\ command' = to
    /\ UNCHANGED <<line, onDisk, frames, signals, badCall>>

-----------------------------------------------------------------------------
(* execute(), up to the point where the handlers are installed.            *)

\* Help, a file that does not load, and a number that is none end the command early, the
\* last with an exception that nobody catches.
ReadOptions ==
    LET unloadable == HasArg(Argv, "config") /\ onDisk = 0
        early == Given(Argv, "help") \/ unloadable
    IN  /\ CommandGoto("options", IF early THEN "exited"
                                  ELSE IF BadNumber(Argv) THEN "options" ELSE "setup")
        /\ config' = IF early \/ BadNumber(Argv) THEN config ELSE Effective(Loaded, Argv)
        /\ terminated' = (~early /\ BadNumber(Argv))
        /\ UNCHANGED <<gRunning, gRecorder, state, callerVars, pollVars, discVars, file,
                       waitVars, toggle>>

-----------------------------------------------------------------------------
(* execute(), from there.                                                  *)

Construct ==
    /\ CommandGoto("setup", "init")
    /\ gRecorder' = TRUE
    /\ UNCHANGED <<recorder, config, gRunning>>

\* init() creates the participant, the discovery and the writer, or fails.
InitRecorder ==
    /\ \/ CommandGoto("init", "start")
       \/ CommandGoto("init", "destroy")
    /\ UNCHANGED <<recorder, config, gRunning, gRecorder>>

StartRecorder ==
    /\ CommandGoto("start", "starting")
    /\ StartCall
    /\ UNCHANGED <<config, gRunning, gRecorder>>

\* start() returns false when the file cannot be opened, and execute() returns at once.
Started ==
    /\ CommandGoto("starting", IF begun = starts THEN "loop" ELSE "destroy")
    /\ UNCHANGED <<recorder, config, gRunning, gRecorder>>

Watch_ForTheSignalOnly ==
    /\ CommandGoto("loop", IF gRunning THEN "loop" ELSE "check")
    /\ UNCHANGED <<recorder, config, gRunning, gRecorder>>

Watch_ForTheRecorderOnly ==
    /\ CommandGoto("loop", IF state = "Running" THEN "loop" ELSE "check")
    /\ UNCHANGED <<recorder, config, gRunning, gRecorder>>

\* while (g_running && is_recording()) sleep
Watch ==
    /\ CommandGoto("loop", IF gRunning /\ state = "Running" THEN "loop" ELSE "check")
    /\ UNCHANGED <<recorder, config, gRunning, gRecorder>>

StopIfRecording_Dropped ==
    /\ CommandGoto("check", "statistics")
    /\ UNCHANGED <<recorder, config, gRunning, gRecorder>>

StopIfRecording ==
    /\ \/ state = "Running" /\ CommandGoto("check", "stopping") /\ StopCall
       \/ state # "Running" /\ CommandGoto("check", "statistics") /\ UNCHANGED recorder
    /\ UNCHANGED <<config, gRunning, gRecorder>>

Stopped ==
    /\ CommandGoto("stopping", "statistics")
    /\ UNCHANGED <<recorder, config, gRunning, gRecorder>>

Statistics_KeepsThePointer ==
    /\ CommandGoto("statistics", "destroy")
    /\ UNCHANGED <<recorder, config, gRunning, gRecorder>>

\* The statistics and the path are printed; then the handler loses its recorder.
Statistics ==
    /\ CommandGoto("statistics", "destroy")
    /\ gRecorder' = FALSE
    /\ UNCHANGED <<recorder, config, gRunning>>

\* ~Recorder() stops it once more.
Destroy ==
    /\ CommandGoto("destroy", "destroying")
    /\ StopCall
    /\ UNCHANGED <<config, gRunning, gRecorder>>

Exit ==
    /\ CommandGoto("destroying", "exited")
    /\ UNCHANGED <<recorder, config, gRunning, gRecorder>>

Execute ==
    \/ ReadOptions \/ Construct \/ InitRecorder \/ StartRecorder \/ Started \/ Watch \/ StopIfRecording
    \/ Stopped \/ Statistics \/ Destroy \/ Exit

-----------------------------------------------------------------------------
(* signal_handler().  The locks that the recorder takes are those of       *)
(* RecorderLifecycle: what the main thread holds when the signal arrives,  *)
(* it holds as long as the handler runs.  Locks of spdlog, of the          *)
(* allocator and of stdio, which it may hold as well, are left out.        *)

\* The handler calls stop() on top of whatever the main thread does.  When that is
\* another stop() that waits for the polling thread, a second join() of that thread
\* throws, and nothing catches it.
Signal ==
    /\ signals < MaxSignals
    /\ command # "options"
    /\ signals' = signals + 1
    /\ gRunning' = FALSE
    /\ IF ~gRecorder \/ command = "exited"
       THEN /\ badCall' = gRecorder
            /\ UNCHANGED <<recorder, frames>>
       ELSE /\ frames' = <<main>> \o frames
            /\ main' = "stop_join"
            /\ stopCalled' = TRUE
            /\ pollingActive' = FALSE
            /\ terminated' = (main = "stop_join" /\ pollingThread)
            /\ UNCHANGED <<badCall, state, pollingThread, poll, discVars, file, starts,
                           begun, waitVars, toggle>>
    /\ UNCHANGED <<line, onDisk, config, command, gRecorder>>

\* stop() has returned, and the main thread goes on where the signal found it.
HandlerReturns ==
    /\ frames # <<>> /\ main = "idle"
    /\ main' = Head(frames)
    /\ frames' = Tail(frames)
    /\ UNCHANGED <<line, onDisk, config, command, gRunning, gRecorder, signals, badCall, state, pollingActive,
                   pollingThread, poll, discVars, file, starts, stopCalled, begun, waitVars,
                   toggle, terminated>>

-----------------------------------------------------------------------------
(* What the configuration decides in the recorder.                         *)

\* A limit splits the file of a recording that splits, and ends any other.
PollAsConfigured_SplitIgnored ==
    /\ PollingThread
    /\ poll = "limits" /\ <<poll, pollingActive>>' # <<"loop", pollingActive>>
          => HasLimit(config) /\ ~pollingActive'
    /\ UNCHANGED commandVars

PollAsConfigured ==
    /\ PollingThread
    /\ poll = "limits" /\ poll' = "reopen_close" => HasLimit(config) /\ config.split
    /\ poll = "limits" /\ pollingActive /\ ~pollingActive'
          => HasLimit(config) /\ ~config.split
    /\ UNCHANGED commandVars

\* The filter meets the pattern that cannot be compiled when a topic is discovered.
FilterThrows ==
    /\ disc = "callback"
    /\ \E topic \in Topics : Throws(config.filter, topic)
    /\ terminated' = TRUE
    /\ UNCHANGED <<state, callerVars, pollVars, discVars, file, waitVars, toggle, commandVars>>

-----------------------------------------------------------------------------
\* The process is over.
Over == command = "exited" \/ terminated

\* The process hangs: a stop() on the main thread waits for callback_mutex_, or for the
\* polling thread that waits for it, and a call that the signal interrupted holds it.
Hung ==
    /\ callbackMutex = "main"
    /\ main = "stop_lock" \/ (main = "stop_join" /\ poll = "finish_callback")

MainThread ==
    \/ Execute \/ HandlerReturns
    \/ MainInCall /\ UNCHANGED commandVars

RecordNext ==
    \/ /\ ~terminated
       /\ \/ MainThread
          \/ Signal
          \/ PollAsConfigured
          \/ DiscoveryThread /\ UNCHANGED commandVars
          \/ FilterThrows
    \/ (Over \/ Hung) /\ UNCHANGED allVars

RecordSpec == RecordInit /\ [][RecordNext]_allVars

\* All three threads are run; no signal has to come, and no limit has to be reached.
RecordFairSpec ==
    /\ RecordSpec
    /\ WF_allVars(~terminated /\ MainThread)
    /\ WF_allVars(~terminated /\ PollAsConfigured)
    /\ WF_allVars(~terminated /\ DiscoveryThread /\ UNCHANGED commandVars)

-----------------------------------------------------------------------------
(* Properties.                                                             *)

\* When the command prints its statistics and the path of its file, that file is closed
\* and no thread of the recorder works any more: whether a limit, a signal in the loop or
\* a signal in the middle of start() has ended the recording.
StatisticsAreFinal ==
    command = "statistics" /\ frames = <<>> =>
        file = 0 /\ disc = "none" /\ poll \in Finished

\* No path through the command leaves a thread or an open file behind.
ExitLeavesNothing ==
    command = "exited" => file = 0 /\ disc = "none" /\ poll = "none" /\ ~pollingThread

\* The handler never calls a recorder that is gone, if the recording had begun: only the
\* early returns of execute() leave g_recorder behind.
HandlerFindsItsRecorder == badCall => begun = 0

\* The process is aborted by a number that is none or a pattern that cannot be compiled,
\* or by two signals, and by nothing else.
AbortsAreKnown ==
    terminated => \/ BadNumber(Argv)
                  \/ \E topic \in Topics : Throws(config.filter, topic)
                  \/ signals > 1

\* The calls that the main thread is in, the interrupted ones included.
Contexts == {main} \cup {frames[i] : i \in DOMAIN frames}

\* Where a call stands after which, until it returns, the state is Stopped.
Sealing == StartPC \cup Closing \cup {"stop_notify"}

\* The call that the command itself makes.
Bottom == IF frames = <<>> THEN main ELSE frames[Len(frames)]

\* Calls are nested as the handlers nest them: only the command itself starts the
\* recorder, and what interrupts a start() or the end of a stop() finds nothing to do.
StackInv ==
    /\ main \in StartPC \cup StartedPC => frames = <<>>
    /\ \A i \in DOMAIN frames : frames[i] \in StartPC \cup StartedPC => i = Len(frames)
    /\ \A i \in DOMAIN frames : frames[i] \in Sealing =>
          /\ main \in {"idle", "stop_join", "stop_check"}
          /\ \A j \in 1..(i - 1) : frames[j] \in {"idle", "stop_join", "stop_check"}
    /\ frames # <<>> => signals > 0 /\ gRecorder /\ command \notin {"options", "setup", "exited"}
    /\ ~gRunning => signals > 0
    /\ Bottom \in StartPC \cup StartedPC => command = "starting"
    /\ Bottom \in StopPC => command \in {"stopping", "destroying"}

\* Who holds callback_mutex_: one of the calls, the innermost or an interrupted one.
MutexInv ==
    /\ callbackMutex = "main" <=> \E x \in Contexts : x \in {"start_unlock", "stop_unlock"}
    /\ ~({"start_unlock", "stop_unlock"} \subseteq Contexts)

\* The recorder's threads and file, whatever calls are nested on the main thread.
RecorderInv ==
    /\ state # "Paused"
    /\ pollingThread <=> poll # "none"
    /\ \A x \in Contexts :
          /\ x \in StopPC \ {"stop_join"} => poll = "none"
          /\ x \in StartPC \ {"start_running"} => poll = "none" /\ stopCalled
          /\ x \in StartPC => begun < starts
          /\ x \in Sealing => state = "Stopped"
    /\ state = "Stopped" /\ poll \notin Finished
          => "start_running" \in Contexts
    /\ pollingThread /\ begun = 0 => "start_running" \in Contexts
    /\ begun = 0 => state = "Stopped"
    /\ begun <= starts
    /\ starts = 0 => Sealed /\ poll = "none" /\ stopCalled

\* Who may find the discovery running, and the file open.
TeardownInv ==
    /\ ~discRunning /\ disc # "none"
          => "stop_discovery_join" \in Contexts \/ poll = "finish_discovery_join"
    /\ "stop_discovery_join" \in Contexts => ~discRunning
    /\ "stop_close" \in Contexts => ~discRunning /\ disc = "none"
    /\ poll \in {"finish_discovery", "finish_discovery_join", "finish_close", "finish_set"}
          => state = "Running"
    /\ poll \in {"finish_discovery_join", "finish_close", "finish_set"} => ~discRunning
    /\ poll \in {"finish_close", "finish_set"} => disc = "none"
    /\ poll \in {"reopen_open", "finish_set"} => file = 0
    /\ "start_open" \in Contexts => Sealed
    /\ "start_discovery" \in Contexts => ~discRunning /\ disc = "none"
    /\ state = "Stopped" => Sealed \/ \E x \in Contexts : x \in StartPC \cup Closing

\* How far the command is, and what the recorder is then.
ProgressInv ==
    /\ command \in {"options", "setup", "init", "start"} => starts = 0
    /\ command \in {"options", "setup"} => ~gRecorder
    /\ command = "starting" => starts = 1
    /\ command \in {"loop", "check", "stopping", "statistics"} => begun = 1
    /\ command = "check" => state = "Stopped" \/ signals > 0
    /\ command = "stopping" =>
          signals > 0 /\ (state = "Stopped"
                             \/ \E x \in Contexts : x \in {"stop_join", "stop_check", "stop_set"})
    /\ command \in {"statistics", "destroy", "destroying", "exited"} => state = "Stopped"
    /\ command \in {"destroy", "destroying", "exited"} /\ gRecorder => begun = 0
    /\ command = "destroying" => "stop_join" \in Contexts \/ ~pollingThread
    /\ command = "exited" => ~pollingThread
    /\ badCall => command = "exited" /\ gRecorder

\* Where the configuration comes from, and how it ends a recording.
LimitInv ==
    /\ command \notin {"options", "exited"} => config = Effective(Loaded, Argv)
    /\ poll \in {"reopen_close", "reopen_open"} => HasLimit(config) /\ config.split
    /\ ~pollingActive /\ ~stopCalled => HasLimit(config) /\ (config.split => file = 0)
    /\ poll \in {"gate", "take", "limits", "reopen_close", "reopen_open"}
          => pollingActive \/ stopCalled
    /\ poll = "exit" => ~pollingActive

\* The process hangs only if a signal found start() with callback_mutex_ in its hands.
HangsAreKnown == Hung => "start_unlock" \in {frames[i] : i \in DOMAIN frames}

\* What the command leaves behind, for the system and for a signal that comes late.
ExitInv ==
    /\ RecordTypeOK /\ ExitLeavesNothing /\ HandlerFindsItsRecorder /\ AbortsAreKnown
    /\ HangsAreKnown /\ StackInv /\ MutexInv /\ RecorderInv /\ TeardownInv /\ ProgressInv /\ LimitInv

\* On a command line that keeps to the usage text, exactly the topics it asks for pass the
\* filter, for any configuration file: -a, the named topics and those of the file, -e and
\* -x, in any order of the arguments.
RecordsTheTopicsAsked ==
    command \notin {"options", "exited"} /\ Regular(Argv) =>
        \A topic \in Topics :
            ~Throws(config.filter, topic) =>
                (Matches(config.filter, topic) <=> Asked(Loaded, Argv, topic))

\* What the usage text gives to an option and the code to the file: the name that -o
\* begins "will always end with date stamp" (RecordCommand.cpp:74).
Disputed ==
    IF HasArg(Argv, "output") /\ ~HasArg(Argv, "output_name") THEN {"appendDate"} ELSE {}

\* "YAML as base, CLI overrides" (RecordCommand.cpp:159): what an option decides by the
\* usage text does not depend on the file, but for the disputed date, and what no option
\* decides is as in the file.
CommandLineOverridesFile ==
    command \notin {"options", "exited"} =>
        \A key \in DOMAIN config \ ({"filter"} \cup Disputed) :
            IF key \in Decided(Argv)
            THEN \A n \in DOMAIN ConfigFiles : config[key] = Effective(ConfigFiles[n], Argv)[key]
            ELSE config[key] = FileConfig(Loaded)[key]

\* The disputed sentence itself.  No run checks it: a file with append_date: false
\* refutes it.
OutputNameIsDated ==
    command \notin {"options", "exited"} /\ Disputed # {} => config.appendDate

\* What the options ask for, or the file if they do not.
AskedAmount(opt, key) ==
    IF HasArg(Argv, opt) THEN Value(Arg(Argv, opt))
    ELSE IF key \in DOMAIN Loaded THEN Loaded[key] ELSE 0

LimitAsked ==
    AskedAmount("duration", "max_duration") > 0 \/ AskedAmount("size", "max_file_size") > 0

SplitAsked == Given(Argv, "split") \/ ("split" \in DOMAIN Loaded /\ Loaded.split)

\* A recording that nobody stops ends by itself only if a size or a duration was asked
\* for; and if splitting was, only when the next file could not be opened.
EndsByItselfOnlyAtALimit ==
    poll = "exit" /\ ~stopCalled => LimitAsked /\ (SplitAsked => file = 0)

\* A signal ends the command, wherever it arrives, or the handler waits for a mutex that
\* the interrupted start() holds.
SignalEndsOrHangs == signals > 0 ~> Over \/ Hung

\* A limit ends the command, since it ends the polling thread; a signal that comes in the
\* meantime can do no worse.
LimitEndsOrHangs == poll = "exit" ~> Over \/ Hung

\* "Press Ctrl+C to stop" (RecordCommand.cpp:287): a signal ends the command.
SignalEndsTheCommand == signals > 0 ~> Over
=============================================================================
