-------------------------- MODULE RecorderLifecycle --------------------------
(***************************************************************************)
(* The life of one cddsctl::recorder::Recorder: the threads that call its  *)
(* public operations, its data polling thread and the discovery thread of  *)
(* its TopicDiscovery, interleaved at every access to the state they share *)
(* (src/src/record/Recorder.cpp).                                          *)
(*                                                                         *)
(* What is written into a file, and the schemas and channels the discovery *)
(* callback registers, are the subject of module SplitRegistration: here a *)
(* file is only open or closed, and an iteration of the discovery thread   *)
(* that runs the callback is one step long.                                *)
(***************************************************************************)
EXTENDS Naturals

CONSTANTS
    Waiters,          \* threads that call wait_for_completion(), once each
    TimedWaiters,     \* those of them that pass a timeout
    Togglers,         \* threads that call pause() and resume()
    MaxStarts,        \* bound: how often start() is called in state Stopped
    AtLimit,          \* what check_limits() may do: "split" the file, "end" the loop; {} if
                      \* the configuration has no limit, both if it is left open
    JoinBeforeStart   \* the caller of start() has called stop() since the last start()

ASSUME LifecycleAssumption ==
    /\ MaxStarts \in Nat
    /\ TimedWaiters \subseteq Waiters
    /\ AtLimit \subseteq {"split", "end"}
    /\ JoinBeforeStart \in BOOLEAN
    /\ "main" \notin Waiters
    /\ "free" \notin Waiters

VARIABLES
    state,           \* state_, the public RecordingState
    pollingActive,   \* polling_active_
    pollingThread,   \* polling_thread_: is there a std::thread that nobody joined?
    poll,            \* where data_polling_thread() is
    discRunning,     \* TopicDiscovery::running_
    disc,            \* where discovery_thread_func() is
    file,            \* 0, or the number of the start() whose file the writer has open
    main,            \* where the thread that calls start() and stop() is
    starts,          \* how many calls of start() passed its guard
    stopCalled,      \* has stop() been called since the last thread was started?
    begun,           \* the last of them that reached set_state(Running)
    mutex,           \* who holds completion_mutex_
    callbackMutex,   \* does "main" hold callback_mutex_, or is it "free"?
    waiter,          \* where each wait_for_completion() is
    waitsFor,        \* the recording that was last begun when that call was made
    toggle,          \* where each pause() or resume() is
    terminated       \* std::terminate() ended the process

vars == <<state, pollingActive, pollingThread, poll, discRunning, disc, file, main,
          starts, stopCalled, begun, mutex, callbackMutex, waiter, waitsFor, toggle, terminated>>

callerVars  == <<main, starts, stopCalled, begun, pollingThread>>
pollVars    == <<poll, pollingActive>>
discVars    == <<discRunning, disc>>
waitVars    == <<mutex, callbackMutex, waiter, waitsFor>>

\* OutputConfig::split
Split == "split" \in AtLimit

States == {"Stopped", "Running", "Paused"}

\* start(), up to its store of Running, and what is left of set_state() then; stop().
StartPC   == {"start_open", "start_discovery", "start_polling", "start_running"}
StartedPC == {"start_lock", "start_unlock"}
StopPC    == {"stop_join", "stop_check", "stop_set", "stop_lock", "stop_unlock",
              "stop_discovery", "stop_discovery_join", "stop_close", "stop_notify"}
PollPC    == {"none", "loop", "gate", "take", "limits", "reopen_close", "reopen_open",
              "exit", "finish_discovery", "finish_discovery_join", "finish_close",
              "finish_set", "finish_callback", "finish_notify", "done"}
WaitPC    == {"idle", "lock", "check", "block", "blocked", "true", "false"}

TypeOK ==
    /\ state \in States
    /\ pollingActive \in BOOLEAN
    /\ pollingThread \in BOOLEAN
    /\ poll \in PollPC
    /\ discRunning \in BOOLEAN
    /\ disc \in {"none", "check", "callback", "done"}
    /\ starts \in 0..MaxStarts
    /\ stopCalled \in BOOLEAN
    /\ begun \in 0..MaxStarts
    /\ file \in 0..MaxStarts
    /\ main \in {"idle"} \cup StartPC \cup StartedPC \cup StopPC
    /\ mutex \in Waiters \cup {"free"}
    /\ callbackMutex \in {"free", "main"}
    /\ waiter \in [Waiters -> WaitPC]
    /\ waitsFor \in [Waiters -> 0..MaxStarts]
    /\ toggle \in [Togglers -> {"idle", "pause", "resume", "callback"}]
    /\ terminated \in BOOLEAN

Init ==
    /\ state = "Stopped"
    /\ pollingActive = FALSE
    /\ pollingThread = FALSE
    /\ poll = "none"
    /\ discRunning = FALSE
    /\ disc = "none"
    /\ file = 0
    /\ main = "idle"
    /\ starts = 0
    /\ stopCalled = TRUE
    /\ begun = 0
    /\ mutex = "free"
    /\ callbackMutex = "free"
    /\ waiter = [w \in Waiters |-> "idle"]
    /\ waitsFor = [w \in Waiters |-> 0]
    /\ toggle = [t \in Togglers |-> "idle"]
    /\ terminated = FALSE

-----------------------------------------------------------------------------
(* Recorder::set_state() stores the state, and then takes callback_mutex_  *)
(* to look for a callback (which nobody installs).  Here is what the       *)
(* thread of start() and stop() does behind its store; that another thread *)
(* takes the mutex and releases it is one step.                            *)

TakeCallbackMutex(from, to) ==
    /\ main = from
    /\ callbackMutex = "free"
    /\ callbackMutex' = "main"
    /\ main' = to
    /\ UNCHANGED <<state, starts, stopCalled, begun, pollingThread, file, pollVars, discVars,
                   mutex, waiter, waitsFor, toggle, terminated>>

ReleaseCallbackMutex(from, to) ==
    /\ main = from
    /\ callbackMutex' = "free"
    /\ main' = to
    /\ UNCHANGED <<state, starts, stopCalled, begun, pollingThread, file, pollVars, discVars,
                   mutex, waiter, waitsFor, toggle, terminated>>

-----------------------------------------------------------------------------
(* Recorder::start().  A call outside state Stopped returns FALSE and      *)
(* changes nothing; the environment makes one as a stuttering step.        *)

StartCall ==
    /\ main = "idle"
    /\ state = "Stopped"
    /\ starts < MaxStarts
    /\ JoinBeforeStart => stopCalled
    /\ starts' = starts + 1
    /\ main' = "start_open"
    /\ UNCHANGED <<state, stopCalled, begun, pollingThread, file, pollVars, discVars, waitVars,
                   toggle, terminated>>

\* McapWriter::open(): a file that is already open stays, and counts as success.
StartOpen ==
    /\ main = "start_open"
    /\ \E opened \in BOOLEAN :
           IF file # 0 \/ opened
           THEN /\ file' = IF file # 0 THEN file ELSE starts
                /\ main' = "start_discovery"
           ELSE /\ file' = file
                /\ main' = "idle"
    /\ UNCHANGED <<state, starts, stopCalled, begun, pollingThread, pollVars, discVars, waitVars,
                   toggle, terminated>>

\* TopicDiscovery::start(): it does nothing when it runs already, and only logs an
\* error when a builtin reader cannot be created.
StartDiscovery ==
    /\ main = "start_discovery"
    /\ main' = "start_polling"
    /\ \/ UNCHANGED discVars
       \/ /\ ~discRunning
          /\ discRunning' = TRUE
          /\ disc' = "check"
    /\ UNCHANGED <<state, starts, stopCalled, begun, pollingThread, file, pollVars, waitVars,
                   toggle, terminated>>

\* polling_thread_ = make_unique<thread>(...): assigning over a thread that nobody
\* joined destroys a joinable std::thread, and that calls std::terminate().
StartPolling ==
    /\ main = "start_polling"
    /\ pollingActive' = TRUE
    /\ IF pollingThread
       THEN /\ terminated' = TRUE
            /\ UNCHANGED <<main, pollingThread, poll>>
       ELSE /\ pollingThread' = TRUE
            /\ poll' = "loop"
            /\ main' = "start_running"
            /\ UNCHANGED terminated
    /\ stopCalled' = FALSE
    /\ UNCHANGED <<state, starts, begun, file, discVars, waitVars, toggle>>

StartRunning ==
    /\ main = "start_running"
    /\ state' = "Running"
    /\ begun' = starts
    /\ main' = "start_lock"
    /\ UNCHANGED <<starts, stopCalled, pollingThread, file, pollVars, discVars, waitVars,
                   toggle, terminated>>

StartLock == TakeCallbackMutex("start_lock", "start_unlock")

StartUnlock == ReleaseCallbackMutex("start_unlock", "idle")

-----------------------------------------------------------------------------
(* Recorder::stop(), also what ~Recorder() does.                           *)

StopCall_TestsStateFirst ==
    /\ main = "idle"
    /\ stopCalled' = TRUE
    /\ IF state = "Stopped"
       THEN UNCHANGED <<main, pollingActive>>
       ELSE pollingActive' = FALSE /\ main' = "stop_join"
    /\ UNCHANGED <<state, starts, begun, pollingThread, file, poll, discVars, waitVars,
                   toggle, terminated>>

StopCall ==
    /\ main = "idle"
    /\ stopCalled' = TRUE
    /\ pollingActive' = FALSE
    /\ main' = "stop_join"
    /\ UNCHANGED <<state, starts, begun, pollingThread, file, poll, discVars, waitVars,
                   toggle, terminated>>

StopJoin_Detaches ==
    /\ main = "stop_join"
    /\ pollingThread' = FALSE
    /\ main' = "stop_check"
    /\ UNCHANGED <<state, starts, stopCalled, begun, pollVars, file, discVars, waitVars,
                   toggle, terminated>>

StopJoin ==
    /\ main = "stop_join"
    /\ pollingThread => poll = "done"
    /\ pollingThread' = FALSE
    /\ poll' = "none"
    /\ main' = "stop_check"
    /\ UNCHANGED <<state, starts, stopCalled, begun, pollingActive, file, discVars, waitVars,
                   toggle, terminated>>

StopCheck ==
    /\ main = "stop_check"
    /\ main' = IF state = "Stopped" THEN "idle" ELSE "stop_set"
    /\ UNCHANGED <<state, starts, stopCalled, begun, pollingThread, file, pollVars, discVars,
                   waitVars, toggle, terminated>>

StopSet ==
    /\ main = "stop_set"
    /\ state' = "Stopped"
    /\ main' = "stop_lock"
    /\ UNCHANGED <<starts, stopCalled, begun, pollingThread, file, pollVars, discVars, waitVars,
                   toggle, terminated>>

StopLock == TakeCallbackMutex("stop_lock", "stop_unlock")

StopUnlock == ReleaseCallbackMutex("stop_unlock", "stop_discovery")

StopDiscovery_KeepsFlag ==
    /\ main = "stop_discovery"
    /\ main' = IF discRunning THEN "stop_discovery_join" ELSE "stop_close"
    /\ UNCHANGED <<state, starts, stopCalled, begun, pollingThread, file, pollVars,
                   discVars, waitVars, toggle, terminated>>

\* TopicDiscovery::stop(): nothing when it does not run, else clear the flag and join.
StopDiscovery ==
    /\ main = "stop_discovery"
    /\ discRunning' = FALSE
    /\ main' = IF discRunning THEN "stop_discovery_join" ELSE "stop_close"
    /\ UNCHANGED <<state, starts, stopCalled, begun, pollingThread, file, pollVars, disc, waitVars,
                   toggle, terminated>>

StopDiscoveryJoin ==
    /\ main = "stop_discovery_join"
    /\ disc = "done"
    /\ disc' = "none"
    /\ main' = "stop_close"
    /\ UNCHANGED <<state, starts, stopCalled, begun, pollingThread, file, pollVars, discRunning,
                   waitVars, toggle, terminated>>

StopClose ==
    /\ main = "stop_close"
    /\ file' = 0
    /\ main' = "stop_notify"
    /\ UNCHANGED <<state, starts, stopCalled, begun, pollingThread, pollVars, discVars, waitVars,
                   toggle, terminated>>

\* completion_cv_.notify_all() wakes every blocked waiter.
NotifyAll ==
    /\ mutex = "free"
    /\ waiter' = [w \in Waiters |-> IF waiter[w] = "blocked" THEN "lock" ELSE waiter[w]]
    /\ UNCHANGED <<mutex, callbackMutex, waitsFor>>

StopNotify ==
    /\ main = "stop_notify"
    /\ NotifyAll
    /\ main' = "idle"
    /\ UNCHANGED <<state, starts, stopCalled, begun, pollingThread, file, pollVars, discVars,
                   toggle, terminated>>

MainInCall ==
    \/ StartOpen \/ StartDiscovery \/ StartPolling \/ StartRunning \/ StartLock \/ StartUnlock
    \/ StopJoin \/ StopCheck \/ StopSet \/ StopLock \/ StopUnlock
    \/ StopDiscovery \/ StopDiscoveryJoin \/ StopClose \/ StopNotify

-----------------------------------------------------------------------------
(* Recorder::data_polling_thread().                                        *)

PollGoto(from, to) ==
    /\ poll = from
    /\ poll' = to
    /\ UNCHANGED <<callerVars, waitVars, toggle, terminated>>

\* while (polling_active_.load())
PollLoop ==
    /\ PollGoto("loop", IF pollingActive THEN "gate" ELSE "exit")
    /\ UNCHANGED <<state, pollingActive, discVars, file>>

\* if (state_.load() != Running) { sleep; continue; }
PollGate ==
    /\ PollGoto("gate", IF state = "Running" THEN "take" ELSE "loop")
    /\ UNCHANGED <<state, pollingActive, discVars, file>>

\* Take from every reader and record the samples through the writer.
PollTake ==
    /\ PollGoto("take", "limits")
    /\ UNCHANGED <<state, pollingActive, discVars, file>>

\* check_limits(): with a limit reached, split or ask the loop to end.
PollLimits ==
    \/ /\ PollGoto("limits", "loop")
       /\ UNCHANGED <<state, pollingActive, discVars, file>>
    \/ /\ Split
       /\ PollGoto("limits", "reopen_close")
       /\ UNCHANGED <<state, pollingActive, discVars, file>>
    \/ /\ "end" \in AtLimit
       /\ PollGoto("limits", "loop")
       /\ pollingActive' = FALSE
       /\ UNCHANGED <<state, discVars, file>>

\* do_split(): McapWriter::reopen() closes the file ...
ReopenClose ==
    /\ PollGoto("reopen_close", "reopen_open")
    /\ file' = 0
    /\ UNCHANGED <<state, pollingActive, discVars>>

ReopenOpen_IgnoresFailure ==
    /\ PollGoto("reopen_open", "loop")
    /\ \/ file' = starts
       \/ UNCHANGED file
    /\ UNCHANGED <<state, pollingActive, discVars>>

\* ... and opens the next; when it cannot, the recording is called off.
ReopenOpen ==
    /\ PollGoto("reopen_open", "loop")
    /\ \/ /\ file' = starts
          /\ UNCHANGED pollingActive
       \/ /\ pollingActive' = FALSE
          /\ UNCHANGED file
    /\ UNCHANGED <<state, discVars>>

PollExit_LeavesCleanupToStop ==
    /\ PollGoto("exit", "done")
    /\ UNCHANGED <<state, pollingActive, discVars, file>>

\* The cleanup is for a loop that ended while the state is still Running.
PollExit ==
    /\ PollGoto("exit", IF state = "Running" THEN "finish_discovery" ELSE "done")
    /\ UNCHANGED <<state, pollingActive, discVars, file>>

FinishDiscovery_WithoutJoin ==
    /\ PollGoto("finish_discovery", "finish_close")
    /\ discRunning' = FALSE
    /\ UNCHANGED <<state, pollingActive, disc, file>>

FinishDiscovery ==
    /\ PollGoto("finish_discovery",
                IF discRunning THEN "finish_discovery_join" ELSE "finish_close")
    /\ discRunning' = FALSE
    /\ UNCHANGED <<state, pollingActive, disc, file>>

FinishDiscoveryJoin ==
    /\ disc = "done"
    /\ PollGoto("finish_discovery_join", "finish_close")
    /\ disc' = "none"
    /\ UNCHANGED <<state, pollingActive, discRunning, file>>

FinishClose_Skipped ==
    /\ PollGoto("finish_close", "finish_set")
    /\ UNCHANGED <<state, pollingActive, discVars, file>>

FinishClose ==
    /\ PollGoto("finish_close", "finish_set")
    /\ file' = 0
    /\ UNCHANGED <<state, pollingActive, discVars>>

FinishSet ==
    /\ PollGoto("finish_set", "finish_callback")
    /\ state' = "Stopped"
    /\ UNCHANGED <<pollingActive, discVars, file>>

FinishCallback ==
    /\ callbackMutex = "free"
    /\ PollGoto("finish_callback", "finish_notify")
    /\ UNCHANGED <<state, pollingActive, discVars, file>>

FinishNotify_Skipped ==
    /\ PollGoto("finish_notify", "done")
    /\ UNCHANGED <<state, pollingActive, discVars, file>>

FinishNotify ==
    /\ poll = "finish_notify"
    /\ poll' = "done"
    /\ NotifyAll
    /\ UNCHANGED <<state, callerVars, pollingActive, discVars, file, toggle, terminated>>

PollingThread ==
    \/ PollLoop \/ PollGate \/ PollTake \/ PollLimits \/ ReopenClose \/ ReopenOpen
    \/ PollExit \/ FinishDiscovery \/ FinishDiscoveryJoin \/ FinishClose \/ FinishSet
    \/ FinishCallback \/ FinishNotify

-----------------------------------------------------------------------------
(* TopicDiscovery::discovery_thread_func(): an iteration runs the callback *)
(* Recorder::on_endpoint_discovered, which uses the writer.                *)

DiscCheck ==
    /\ disc = "check"
    /\ disc' = IF discRunning THEN "callback" ELSE "done"
    /\ UNCHANGED <<state, callerVars, pollVars, discRunning, file, waitVars, toggle,
                   terminated>>

DiscCallback ==
    /\ disc = "callback"
    /\ disc' = "check"
    /\ UNCHANGED <<state, callerVars, pollVars, discRunning, file, waitVars, toggle,
                   terminated>>

DiscoveryThread == DiscCheck \/ DiscCallback

-----------------------------------------------------------------------------
(* Recorder::wait_for_completion(): cv.wait(lock, state == Stopped).       *)

WaitGoto(w, from, to) ==
    /\ waiter[w] = from
    /\ waiter' = [waiter EXCEPT ![w] = to]
    /\ UNCHANGED <<state, callerVars, pollVars, discVars, file, callbackMutex, toggle,
                   terminated>>

\* The call is made once a recording has begun.
WaitCall(w) ==
    /\ begun > 0
    /\ WaitGoto(w, "idle", "lock")
    /\ waitsFor' = [waitsFor EXCEPT ![w] = begun]
    /\ UNCHANGED mutex

WaitLock(w) ==
    /\ mutex = "free"
    /\ WaitGoto(w, "lock", "check")
    /\ mutex' = w
    /\ UNCHANGED waitsFor

WaitCheck_ReleasesBeforeSleep(w) ==
    /\ WaitGoto(w, "check", IF state = "Stopped" THEN "true" ELSE "block")
    /\ mutex' = "free"
    /\ UNCHANGED waitsFor

\* The predicate is evaluated with the mutex held.
WaitCheck(w) ==
    IF state = "Stopped"
    THEN /\ WaitGoto(w, "check", "true")
         /\ mutex' = "free"
         /\ UNCHANGED waitsFor
    ELSE /\ WaitGoto(w, "check", "block")
         /\ UNCHANGED <<mutex, waitsFor>>

\* Going to sleep releases the mutex in the same step.
WaitBlock(w) ==
    /\ WaitGoto(w, "block", "blocked")
    /\ mutex' = "free"
    /\ UNCHANGED waitsFor

WaitSpuriousWakeup(w) ==
    /\ WaitGoto(w, "blocked", "lock")
    /\ UNCHANGED <<mutex, waitsFor>>

\* wait_for(): at the timeout the predicate is evaluated once more.
WaitTimeout(w) ==
    /\ w \in TimedWaiters
    /\ mutex = "free"
    /\ WaitGoto(w, "blocked", IF state = "Stopped" THEN "true" ELSE "false")
    /\ UNCHANGED <<mutex, waitsFor>>

WaiterInCall(w) == WaitLock(w) \/ WaitCheck(w) \/ WaitBlock(w)

-----------------------------------------------------------------------------
(* Recorder::pause() and Recorder::resume(): a test of the state and,      *)
(* later, set_state().                                                     *)

PauseCall(t) ==
    /\ toggle[t] = "idle"
    /\ state = "Running"
    /\ toggle' = [toggle EXCEPT ![t] = "pause"]
    /\ UNCHANGED <<state, callerVars, pollVars, discVars, file, waitVars, terminated>>

PauseSet(t) ==
    /\ toggle[t] = "pause"
    /\ state' = "Paused"
    /\ toggle' = [toggle EXCEPT ![t] = "callback"]
    /\ UNCHANGED <<callerVars, pollVars, discVars, file, waitVars, terminated>>

ResumeCall(t) ==
    /\ toggle[t] = "idle"
    /\ state = "Paused"
    /\ toggle' = [toggle EXCEPT ![t] = "resume"]
    /\ UNCHANGED <<state, callerVars, pollVars, discVars, file, waitVars, terminated>>

ResumeSet(t) ==
    /\ toggle[t] = "resume"
    /\ state' = "Running"
    /\ toggle' = [toggle EXCEPT ![t] = "callback"]
    /\ UNCHANGED <<callerVars, pollVars, discVars, file, waitVars, terminated>>

ToggleCallback(t) ==
    /\ toggle[t] = "callback"
    /\ callbackMutex = "free"
    /\ toggle' = [toggle EXCEPT ![t] = "idle"]
    /\ UNCHANGED <<state, callerVars, pollVars, discVars, file, waitVars, terminated>>

ToggleInCall(t) == PauseSet(t) \/ ResumeSet(t) \/ ToggleCallback(t)

-----------------------------------------------------------------------------
Waiting  == \E w \in Waiters : \/ WaitCall(w) \/ WaiterInCall(w)
                               \/ WaitSpuriousWakeup(w) \/ WaitTimeout(w)
Toggling == \E t \in Togglers : PauseCall(t) \/ ResumeCall(t) \/ ToggleInCall(t)

Next ==
    /\ ~terminated
    /\ \/ StartCall \/ StopCall \/ MainInCall
       \/ PollingThread
       \/ DiscoveryThread
       \/ Waiting
       \/ Toggling

Spec == Init /\ [][Next]_vars

(* Fairness: the operating system runs every thread that is inside the     *)
(* recorder, and a thread that waits for completion_mutex_ eventually gets *)
(* it (the sections under it are a few instructions long).  Weak fairness  *)
(* is enough for callback_mutex_, which nobody takes again and again.      *)
(* Nobody is obliged to call anything, no limit need be reached and no     *)
(* wakeup need be spurious.                                                *)
Fairness ==
    /\ WF_vars(~terminated /\ MainInCall)
    /\ WF_vars(~terminated /\ PollingThread)
    /\ WF_vars(~terminated /\ DiscoveryThread)
    /\ SF_vars(~terminated /\ StopNotify)
    /\ SF_vars(~terminated /\ FinishNotify)
    /\ \A w \in Waiters : /\ WF_vars(~terminated /\ WaiterInCall(w))
                          /\ SF_vars(~terminated /\ WaitLock(w))
    /\ \A t \in Togglers : WF_vars(~terminated /\ ToggleInCall(t))

FairSpec == Spec /\ Fairness

-----------------------------------------------------------------------------
(* Safety.                                                                 *)

\* Between the store of Stopped in stop() and the end of its teardown.
Closing == {"stop_lock", "stop_unlock", "stop_discovery", "stop_discovery_join", "stop_close"}

\* Where the polling thread is after its own store of Stopped, or if there is none.
Finished == {"none", "finish_callback", "finish_notify", "done"}

\* A recorder that says Stopped, outside start() and the teardown of stop(), has
\* closed its file and joined its discovery thread: data_polling_thread() publishes
\* Stopped only after both, whoever asked for the end.
StoppedIsSealed ==
    state = "Stopped" /\ main \notin StartPC \cup Closing
        => file = 0 /\ ~discRunning /\ disc = "none"

\* The polling thread never hands samples to a writer whose file is closed: stop()
\* joins the thread before it closes, and a failed reopen() ends the loop.
SamplesGoToAnOpenFile == poll = "take" => file # 0

\* A recorder that splits is without a file while reopen() runs, and after one that failed
\* until its teardown has joined the discovery thread.
BetweenFiles ==
    /\ Split
    /\ \/ poll = "reopen_open"
       \/ ~pollingActive /\ poll \notin {"finish_close", "finish_set", "finish_callback",
                                           "finish_notify"}

\* The discovery callback registers schemas and channels while the file is open, since
\* both teardowns join the discovery thread before they close.
CallbackSeesOpenFile ==
    disc = "callback" => file # 0 \/ BetweenFiles

\* A waiter that sleeps, or is about to, although the state is Stopped will still be
\* notified: no interleaving of state_ = Stopped, notify_all() and the waiter's
\* test loses the wakeup.
NoLostWakeup ==
    state = "Stopped" /\ (\E w \in Waiters : waiter[w] \in {"block", "blocked"})
        => poll \in {"finish_callback", "finish_notify"} \/ main \in Closing \cup {"stop_notify"}

\* No std::thread is destroyed while it is joinable.
NoTerminate == ~terminated

\* wait_for_completion() answers true only when the recording that had begun by the
\* time of the call is complete: the file of that recording is closed.
CompletedRecordingIsSealed ==
    [][\A w \in Waiters : waiter[w] # "true" /\ waiter'[w] = "true"
           => file = 0 \/ file > waitsFor[w]]_vars

(* Liveness.                                                               *)

\* stop() returns: the threads it joins come to their end.
StopReturns == main \in StopPC ~> main = "idle" \/ terminated

\* A loop that was asked to end, by stop() or by a limit, leads to state Stopped (or
\* to the next recording).
EndOfLoopCompletes == poll = "exit" ~> state = "Stopped" \/ terminated

\* A waiter whose recording has ended returns, unless the next one begins first.
WaitersReturn ==
    \A w \in Waiters :
        waiter[w] \in {"lock", "check", "block", "blocked"} /\ state = "Stopped"
            ~> waiter[w] \in {"true", "false"} \/ state # "Stopped" \/ terminated

\* wait_for_completion(): "Wait for recording to complete (duration limit or file size
\* limit)".  Once the limit has called the recording off, a waiter returns.
LimitEndsTheWait ==
    \A w \in Waiters :
        waiter[w] = "blocked" /\ poll = "exit"
            ~> waiter[w] \in {"true", "false"}

-----------------------------------------------------------------------------
(* The refinement.                                                         *)

\* A recorder that nobody pauses is the one its interface describes: module Recording,
\* seen through its file, its public state and the answers of wait_for_completion().
Answer == [w \in Waiters |-> IF waiter[w] = "true" THEN "complete"
                             ELSE IF waiter[w] = "false" THEN "timeout" ELSE "none"]

Contract == INSTANCE Recording WITH open <- file, asked <- waitsFor, told <- Answer

ImplementsRecording == Contract!Spec

-----------------------------------------------------------------------------
(* The inductive invariant of RecorderLifecycle_proofs, by subject.        *)

Sealed == file = 0 /\ ~discRunning /\ disc = "none"

\* The handle of the polling thread and where that thread is.
ThreadInv ==
    /\ pollingThread <=> poll # "none"
    /\ main \in Closing \cup {"stop_check", "stop_set", "stop_notify"} => poll = "none"
    /\ main \in {"start_open", "start_discovery", "start_polling"}
          => poll \in Finished
    /\ state = "Stopped" /\ main # "start_running"
          => poll \in Finished
    /\ poll # "none" \/ main \in StartPC => starts # 0

\* The discovery thread and the two threads that may join it.
DiscoveryInv ==
    /\ disc = "none" => ~discRunning
    /\ ~discRunning /\ disc # "none"
          => main = "stop_discovery_join" \/ poll = "finish_discovery_join"
    /\ main \in {"stop_discovery_join", "stop_close"} => ~discRunning
    /\ poll \in {"finish_discovery_join", "finish_close", "finish_set"} => ~discRunning
    /\ main = "stop_close" => disc = "none"
    /\ poll \in {"finish_close", "finish_set"} => disc = "none"

\* The file, and who may find it closed.
FileInv ==
    /\ state = "Stopped" /\ main \notin Closing
            \cup {"start_discovery", "start_polling", "start_running"} => Sealed
    /\ poll \in {"reopen_open", "finish_set"} => file = 0
    /\ main \in {"start_discovery", "start_polling"} => file # 0
    /\ poll \in {"gate", "take", "limits", "reopen_close"} => file # 0
    /\ poll = "loop" => file # 0 \/ ~pollingActive
    /\ disc \in {"check", "callback"} => file # 0 \/ BetweenFiles
    /\ poll \in {"reopen_close", "reopen_open"} => Split

\* The waiters and completion_mutex_, and callback_mutex_.
WaitInv ==
    /\ callbackMutex = "main" <=> main \in {"start_unlock", "stop_unlock"}
    /\ \A w \in Waiters : waiter[w] \in {"check", "block"} => mutex = w
    /\ NoLostWakeup

\* A caller that joins before it starts again never replaces a joinable thread.
RestartInv ==
    JoinBeforeStart =>
        /\ ~terminated
        /\ stopCalled /\ main # "stop_join" => ~pollingThread
        /\ main \in {"start_open", "start_discovery", "start_polling"} => stopCalled

\* With nobody to pause it, a recorder is Running exactly as long as its polling thread
\* works, so that only that thread, after its cleanup, stores Stopped; and a file that
\* is open in state Stopped belongs to the start() in progress.
UnpausedInv ==
    /\ state # "Paused"
    /\ main \notin Closing \cup {"stop_set", "stop_notify"}
    /\ main = "stop_check" => state = "Stopped"
    /\ state = "Running" => poll \notin Finished
    /\ state = "Stopped" => poll \in Finished \cup {"loop", "gate"}
    /\ main = "start_running" =>
          state = "Stopped" /\ poll \in {"loop", "gate"} /\ pollingActive
    /\ poll \in {"loop", "gate"} => state = "Running" \/ main = "start_running"
    /\ main \in {"start_open", "start_discovery", "start_polling"} => state = "Stopped"
    /\ state = "Stopped" /\ file # 0
          => file = starts /\ main \in {"start_discovery", "start_polling", "start_running"}
    /\ begun <= starts
    /\ main \in StartPC => begun < starts
    /\ state = "Running" => begun = starts
    /\ \A w \in Waiters : /\ waitsFor[w] <= begun
                          /\ waitsFor[w] = 0 <=> waiter[w] = "idle"

LifecycleInv ==
    TypeOK /\ ThreadInv /\ DiscoveryInv /\ FileInv /\ WaitInv /\ RestartInv
=============================================================================
