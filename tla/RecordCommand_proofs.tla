------------------------- MODULE RecordCommand_proofs -------------------------
(***************************************************************************)
(* What the command record promises, for any command lines, configuration  *)
(* files and number of signals.                                            *)
(***************************************************************************)
EXTENDS RecordCommand, RecorderLifecycle_proofs, SelectionTheorems

MainPC == {"idle"} \cup StartPC \cup StartedPC \cup StopPC

-----------------------------------------------------------------------------
(* The calls on the main thread.                                           *)

\* Without a handler there is one call; with one, what it interrupted is below it.
LEMMA ContextFacts ==
    ASSUME frames \in Seq(MainPC)
    PROVE  /\ main \in Contexts
           /\ Bottom \in Contexts
           /\ frames = <<>> => Contexts = {main} /\ Bottom = main
           /\ \A x \in Contexts : x = main \/ \E i \in 1..Len(frames) : x = frames[i]
           /\ \A i \in 1..Len(frames) : frames[i] \in Contexts
           /\ DOMAIN frames = 1..Len(frames) /\ Len(frames) \in Nat
  BY DEF Contexts, Bottom

\* A signal.
LEMMA Push ==
    ASSUME frames \in Seq(MainPC), main \in MainPC,
           frames' = <<main>> \o frames, main' = "stop_join"
    PROVE  /\ frames' \in Seq(MainPC) /\ frames' # <<>> /\ Len(frames') = Len(frames) + 1
           /\ frames'[1] = main
           /\ \A i \in 1..Len(frames) : frames'[i + 1] = frames[i]
           /\ Contexts' = Contexts \cup {"stop_join"}
           /\ Bottom' = Bottom
<1>1. /\ frames' \in Seq(MainPC) /\ frames' # <<>> /\ Len(frames') = Len(frames) + 1
      /\ frames'[1] = main
      /\ \A i \in 1..Len(frames) : frames'[i + 1] = frames[i]
  OBVIOUS
<1>2. \A i \in 1..Len(frames') : i = 1 \/ (i - 1 \in 1..Len(frames) /\ frames'[i] = frames[i - 1])
  BY <1>1
<1>3. DOMAIN frames' = 1..Len(frames') /\ DOMAIN frames = 1..Len(frames)
  BY <1>1
<1>4. \A i \in 1..Len(frames) : i + 1 \in 1..Len(frames') /\ 1 \in 1..Len(frames')
  BY <1>1
<1>5. 1 \in 1..Len(frames')
  BY <1>1
<1>6. Contexts' = Contexts \cup {"stop_join"}
  <2>1. ASSUME NEW x \in Contexts' PROVE x \in Contexts \cup {"stop_join"}
    <3>1. x = main' \/ \E i \in 1..Len(frames') : x = frames'[i]
      BY <1>3, <2>1 DEF Contexts
    <3>2. ASSUME NEW i \in 1..Len(frames'), x = frames'[i] PROVE x \in Contexts
      <4>1. x = main \/ \E j \in 1..Len(frames) : x = frames[j]
        BY <1>1, <1>2, <3>2
      <4> QED BY <1>3, <4>1 DEF Contexts
    <3> QED BY <3>1, <3>2
  <2>2. ASSUME NEW x \in Contexts PROVE x \in Contexts'
    <3>1. x = main \/ \E i \in 1..Len(frames) : x = frames[i]
      BY <1>3, <2>2 DEF Contexts
    <3>2. \E i \in 1..Len(frames') : x = frames'[i]
      BY <1>1, <1>4, <1>5, <3>1
    <3> QED BY <1>3, <3>2 DEF Contexts
  <2>3. "stop_join" \in Contexts'
    BY DEF Contexts
  <2> QED BY <2>1, <2>2, <2>3
<1>7. Bottom' = Bottom
  BY <1>1 DEF Bottom
<1> QED BY <1>1, <1>6, <1>7

\* The return of a handler.
LEMMA Pop ==
    ASSUME frames \in Seq(MainPC), frames # <<>>, main = "idle",
           main' = Head(frames), frames' = Tail(frames)
    PROVE  /\ frames' \in Seq(MainPC) /\ Len(frames') = Len(frames) - 1
           /\ main' = frames[1] /\ 1 \in 1..Len(frames)
           /\ \A i \in 1..Len(frames') : i + 1 \in 1..Len(frames) /\ frames'[i] = frames[i + 1]
           /\ Contexts = Contexts' \cup {"idle"}
           /\ Bottom' = Bottom
<1>1. /\ frames' \in Seq(MainPC) /\ Len(frames') = Len(frames) - 1
      /\ main' = frames[1] /\ 1 \in 1..Len(frames)
      /\ \A i \in 1..Len(frames') : i + 1 \in 1..Len(frames) /\ frames'[i] = frames[i + 1]
  OBVIOUS
<1>2. \A i \in 1..Len(frames) : i = 1 \/ (i - 1 \in 1..Len(frames') /\ frames[i] = frames'[i - 1])
  BY <1>1
<1>3. DOMAIN frames' = 1..Len(frames') /\ DOMAIN frames = 1..Len(frames)
  BY <1>1
<1>4. Contexts = Contexts' \cup {"idle"}
  <2>1. ASSUME NEW x \in Contexts' PROVE x \in Contexts
    <3>1. x = main' \/ \E i \in 1..Len(frames') : x = frames'[i]
      BY <1>3, <2>1 DEF Contexts
    <3>2. \E i \in 1..Len(frames) : x = frames[i]
      BY <1>1, <3>1
    <3> QED BY <1>3, <3>2 DEF Contexts
  <2>2. ASSUME NEW x \in Contexts PROVE x \in Contexts' \cup {"idle"}
    <3>1. x = "idle" \/ \E i \in 1..Len(frames) : x = frames[i]
      BY <1>3, <2>2 DEF Contexts
    <3>2. ASSUME NEW i \in 1..Len(frames), x = frames[i] PROVE x \in Contexts'
      <4>1. x = main' \/ \E j \in 1..Len(frames') : x = frames'[j]
        BY <1>1, <1>2, <3>2
      <4> QED BY <1>3, <4>1 DEF Contexts
    <3> QED BY <3>1, <3>2
  <2>3. "idle" \in Contexts
    BY DEF Contexts
  <2> QED BY <2>1, <2>2, <2>3
<1>5. Bottom' = Bottom
  <2>1. CASE Len(frames) = 1
    <3>1. frames' = <<>>
      BY <1>1, <2>1
    <3> QED BY <1>1, <2>1, <3>1 DEF Bottom
  <2>2. CASE Len(frames) # 1
    <3>1. Len(frames) \in Nat /\ Len(frames) # 0 /\ Len(frames') \in 1..Len(frames')
      BY <1>1, <2>2
    <3>2. frames'[Len(frames')] = frames[Len(frames') + 1] /\ Len(frames') + 1 = Len(frames)
      BY <1>1, <3>1
    <3>3. Len(frames') # 0
      BY <1>1, <2>2, <3>1
    <3>4. frames' # <<>>
      BY <3>3
    <3> QED BY <3>2, <3>4 DEF Bottom
  <2> QED BY <2>1, <2>2
<1> QED BY <1>1, <1>4, <1>5

\* A step of the innermost call.
LEMMA Move ==
    ASSUME frames \in Seq(MainPC), UNCHANGED frames
    PROVE  /\ \A x : x \in Contexts' => x = main' \/ x \in Contexts
           /\ \A x : x \in Contexts => x = main \/ x \in Contexts'
           /\ main' \in Contexts'
           /\ frames # <<>> => Bottom' = Bottom
           /\ frames = <<>> => Bottom' = main' /\ Contexts' = {main'}
  BY DEF Contexts, Bottom

-----------------------------------------------------------------------------
(* Types.                                                                  *)

\* What the command's own steps, and the handlers, leave alone.
LEMMA RecorderMoves ==
    ASSUME ~terminated, \/ StartCall \/ StopCall \/ MainInCall \/ PollingThread
                        \/ DiscoveryThread \/ UNCHANGED vars
    PROVE  [Next]_vars
  BY DEF Next

RecordFlagsOK ==
    /\ FlagsOK
    /\ terminated \in BOOLEAN
    /\ gRunning \in BOOLEAN
    /\ gRecorder \in BOOLEAN
    /\ badCall \in BOOLEAN

\* Every flag of the recorder and of the command stays Boolean.
LEMMA RecordFlagsStep ==
    ASSUME RecordTypeOK, [RecordNext]_allVars
    PROVE  RecordFlagsOK'
<1> USE Zenon DEF RecordTypeOK, RecordFlagsOK, TypeOK, FlagsOK, callerVars, pollVars, discVars, recorder, vars,
                  allVars, commandVars
<1>1. CASE ReadOptions
  BY <1>1 DEF ReadOptions, CommandGoto
<1>2. CASE Signal
  BY <1>2 DEF Signal
<1>3. CASE HandlerReturns
  BY <1>3 DEF HandlerReturns
<1>4. CASE FilterThrows
  BY <1>4 DEF FilterThrows
<1>5. CASE UNCHANGED allVars
  BY <1>5
<1>6. ASSUME FlagsOK', terminated' \in BOOLEAN, UNCHANGED commandVars PROVE RecordFlagsOK'
  BY <1>6
<1>7. ASSUME ~terminated, MainInCall \/ PollAsConfigured \/ DiscoveryThread, UNCHANGED commandVars
      PROVE  RecordFlagsOK'
  <2>1. [Next]_vars
    BY <1>7, RecorderMoves DEF PollAsConfigured
  <2>2. TypeOK'
    BY <2>1, TypeStep
  <2>3. FlagsOK' /\ terminated' \in BOOLEAN
    BY <2>2
  <2> QED BY <1>6, <1>7, <2>3
<1>8. ASSUME ~terminated, StartCall \/ StopCall \/ UNCHANGED recorder PROVE TypeOK'
  BY <1>8, RecorderMoves, TypeStep
<1>9. CASE ~terminated /\ (Construct \/ InitRecorder \/ StartRecorder \/ Started \/ Watch)
  BY <1>8, <1>9 DEF Construct, InitRecorder, StartRecorder, Started, Watch, CommandGoto
<1>10. CASE ~terminated /\ (StopIfRecording \/ Stopped \/ Statistics \/ Destroy \/ Exit)
  BY <1>8, <1>10 DEF StopIfRecording, Stopped, Statistics, Destroy, Exit, CommandGoto
<1> QED BY <1>1, <1>2, <1>3, <1>4, <1>5, <1>7, <1>9, <1>10
        DEF RecordNext, MainThread, Execute, PollAsConfigured

\* The recorder itself keeps to its types in every step of the command.
LEMMA RecorderTypeStep ==
    ASSUME RecordTypeOK, [RecordNext]_allVars
    PROVE  TypeOK'
<1> USE DEF RecordTypeOK
<1>1. CASE ReadOptions
  <2>1. UNCHANGED <<state, callerVars, pollVars, discVars, file, waitVars, toggle>>
    BY <1>1 DEF ReadOptions
  <2> QED BY <2>1, RecordFlagsStep
          DEF RecordFlagsOK, FlagsOK, TypeOK, callerVars, pollVars, discVars, waitVars
<1>2. CASE Signal
  <2>1. CASE UNCHANGED recorder
    BY <2>1 DEF TypeOK, recorder, vars
  <2>2. CASE ~UNCHANGED recorder
    <3>1. main' = "stop_join"
          /\ UNCHANGED <<state, pollingThread, poll, discVars, file, starts, begun, waitVars, toggle>>
      BY <1>2, <2>2 DEF Signal
    <3> QED BY <3>1, RecordFlagsStep DEF RecordFlagsOK, FlagsOK, TypeOK, discVars, waitVars, StopPC
  <2> QED BY <2>1, <2>2
<1>3. CASE HandlerReturns
  <2>1. main' \in MainPC
    BY <1>3, Pop DEF HandlerReturns, MainPC
  <2> QED BY <1>3, <2>1, RecordFlagsStep
          DEF HandlerReturns, RecordFlagsOK, FlagsOK, TypeOK, MainPC, discVars, waitVars
<1>4. CASE FilterThrows
  BY <1>4, RecordFlagsStep
     DEF FilterThrows, RecordFlagsOK, FlagsOK, TypeOK, callerVars, pollVars, discVars, waitVars
<1>5. CASE UNCHANGED allVars
  BY <1>5 DEF allVars, TypeOK, vars
<1>6. ASSUME ~terminated, \/ StartCall \/ StopCall \/ MainInCall \/ PollingThread
                          \/ DiscoveryThread \/ UNCHANGED recorder
      PROVE  TypeOK'
  BY <1>6, RecorderMoves, TypeStep DEF recorder
<1> QED BY <1>1, <1>2, <1>3, <1>4, <1>5, <1>6
        DEF RecordNext, MainThread, Execute, PollAsConfigured, Construct, InitRecorder, StartRecorder,
            Started, Watch, StopIfRecording, Stopped, Statistics, Destroy, Exit

\* And so does the command.
LEMMA RecordTypeStep ==
    ASSUME RecordTypeOK, [RecordNext]_allVars
    PROVE  RecordTypeOK'
<1>1. TypeOK' /\ RecordFlagsOK'
  BY RecorderTypeStep, RecordFlagsStep
<1>2. /\ UNCHANGED <<line, onDisk>> /\ command' \in CommandPC
      /\ frames' \in Seq(MainPC) /\ signals' \in 0..MaxSignals
  <2> USE DEF RecordTypeOK, CommandPC
  <2>1. CASE Signal
    <3>1. main \in MainPC
      BY DEF TypeOK, MainPC
    <3> QED BY <2>1, <3>1, Push, RecordAssumption DEF Signal, MainPC, RecordAssumption
  <2>2. CASE HandlerReturns
    BY <2>2, Pop DEF HandlerReturns, MainPC
  <2>3. CASE UNCHANGED commandVars
    BY <2>3 DEF commandVars, MainPC
  <2>4. CASE Execute
    BY <2>4 DEF Execute, CommandGoto, ReadOptions, Construct, InitRecorder, StartRecorder, Started, Watch,
                StopIfRecording, Stopped, Statistics, Destroy, Exit, MainPC
  <2> QED BY <2>1, <2>2, <2>3, <2>4
          DEF RecordNext, MainThread, PollAsConfigured, FilterThrows, allVars
<1> QED BY <1>1, <1>2 DEF RecordTypeOK, RecordFlagsOK, MainPC

-----------------------------------------------------------------------------
(* How the calls nest.                                                     *)

\* The calls of start().
Starting == StartPC \cup StartedPC

LEMMA WhereMainGoes ==
    ASSUME MainInCall
    PROVE  /\ \/ main \in Starting /\ main' \in Starting \cup {"idle"}
              \/ main \in StopPC /\ main' \in StopPC \cup {"idle"}
           /\ main = "stop_join" => main' = "stop_check"
           /\ main = "stop_check" /\ state = "Stopped" => main' = "idle"
  BY DEF MainInCall, StartOpen, StartDiscovery, StartPolling, StartRunning, StartLock, StartUnlock,
         TakeCallbackMutex, ReleaseCallbackMutex, StopLock, StopUnlock, StopJoin, StopCheck,
         StopSet, StopDiscovery, StopDiscoveryJoin, StopClose, StopNotify, Starting, StartPC, StartedPC, StopPC

\* What execute() does to the call that it makes, if any.
LEMMA WhereExecuteGoes ==
    ASSUME Execute
    PROVE  /\ main = "idle" /\ frames = <<>>
           /\ UNCHANGED <<line, onDisk, frames, signals, badCall, gRunning>>
           /\ \/ UNCHANGED main
              \/ main' = "start_open" /\ command' = "starting"
              \/ main' = "stop_join" /\ command' \in {"stopping", "destroying"}
  BY DEF Execute, CommandGoto, ReadOptions, Construct, InitRecorder, StartRecorder, Started, Watch,
         StopIfRecording, Stopped, Statistics, Destroy, Exit, StartCall, StopCall, callerVars, recorder, vars

LEMMA StackStep ==
    ASSUME RecordTypeOK, StackInv, RecorderInv, ProgressInv, [RecordNext]_allVars
    PROVE  StackInv'
<1> USE DEF StackInv, Starting
<1>0. frames \in Seq(MainPC) /\ main \in MainPC
  BY DEF RecordTypeOK, TypeOK, MainPC
<1>1. CASE Signal
  <2>1. CASE UNCHANGED <<main, frames>>
    <3>1. Bottom' = Bottom /\ DOMAIN frames' = DOMAIN frames
      BY <2>1 DEF Bottom
    <3> QED BY <1>1, <2>1, <3>1, <1>0 DEF Signal, RecordTypeOK
  <2>2. CASE gRecorder /\ command # "exited" /\ frames' = <<main>> \o frames /\ main' = "stop_join"
    <3>1. /\ UNCHANGED <<command, gRecorder>> /\ gRunning' = FALSE /\ signals' > 0
      BY <1>1, <2>2 DEF Signal, RecordTypeOK
    <3>2. /\ frames' \in Seq(MainPC) /\ frames' # <<>> /\ Len(frames') = Len(frames) + 1
          /\ frames'[1] = main
          /\ \A i \in 1..Len(frames) : frames'[i + 1] = frames[i]
          /\ Bottom' = Bottom
      BY <1>0, <2>2, Push
    <3>3. DOMAIN frames' = 1..(Len(frames) + 1) /\ DOMAIN frames = 1..Len(frames) /\ Len(frames) \in Nat
      BY <1>0, <3>2
    <3>4. \A i \in 1..(Len(frames) + 1) : i = 1 \/ (i - 1 \in 1..Len(frames) /\ frames'[i] = frames[i - 1])
      BY <3>2, <3>3
    <3>5. ASSUME NEW i \in DOMAIN frames', frames'[i] \in Starting
          PROVE  i = Len(frames')
      <4>1. CASE i = 1
        <5>1. Len(frames) = 0
          BY <3>2, <3>5, <4>1
        <5> QED BY <3>2, <4>1, <5>1
      <4>2. CASE i # 1
        <5>1. i - 1 \in DOMAIN frames /\ frames[i - 1] \in Starting
          BY <3>3, <3>4, <3>5, <4>2
        <5> QED BY <3>2, <3>3, <5>1
      <4> QED BY <4>1, <4>2
    <3>6. ASSUME NEW i \in DOMAIN frames', frames'[i] \in Sealing, NEW j \in 1..(i - 1)
          PROVE  frames'[j] \in {"idle", "stop_join", "stop_check"}
      <4>1. i - 1 \in 1..Len(frames) /\ frames[i - 1] \in Sealing
        BY <3>3, <3>4, <3>6
      <4>2. CASE j = 1
        BY <3>2, <3>3, <4>1, <4>2
      <4>3. CASE j # 1
        <5>1. j \in 1..(Len(frames) + 1) /\ j - 1 \in 1..((i - 1) - 1)
          BY <3>3, <3>6, <4>3
        <5> QED BY <3>3, <3>4, <4>1, <4>3, <5>1
      <4> QED BY <4>2, <4>3
    <3>7. command \notin {"options", "setup", "exited"}
      BY <2>2 DEF ProgressInv
    <3> QED BY <2>2, <3>1, <3>2, <3>5, <3>6, <3>7 DEF StartPC, StartedPC
  <2> QED BY <1>1, <2>1, <2>2 DEF Signal, recorder, vars
<1>2. CASE HandlerReturns
  <2>1. UNCHANGED <<command, gRecorder, gRunning, signals>> /\ frames # <<>>
    BY <1>2 DEF HandlerReturns
  <2>2. /\ frames' \in Seq(MainPC) /\ Len(frames') = Len(frames) - 1
        /\ main' = frames[1] /\ 1 \in 1..Len(frames)
        /\ \A i \in 1..Len(frames') : i + 1 \in 1..Len(frames) /\ frames'[i] = frames[i + 1]
        /\ Bottom' = Bottom
    BY <1>0, <1>2, Pop DEF HandlerReturns
  <2>3. DOMAIN frames' = 1..Len(frames') /\ DOMAIN frames = 1..Len(frames) /\ Len(frames) \in Nat
        /\ Len(frames') \in Nat
    BY <1>0, <2>2
  <2>4. main' \in Starting => frames' = <<>>
    BY <2>2, <2>3
  <2>5. \A i \in DOMAIN frames' : frames'[i] \in Starting => i = Len(frames')
    BY <2>2, <2>3
  <2>6. ASSUME NEW i \in DOMAIN frames', frames'[i] \in Sealing
        PROVE  /\ main' \in {"idle", "stop_join", "stop_check"}
               /\ \A j \in 1..(i - 1) : frames'[j] \in {"idle", "stop_join", "stop_check"}
    <3>1. i + 1 \in DOMAIN frames /\ frames[i + 1] \in Sealing /\ 1 \in 1..((i + 1) - 1)
      BY <2>2, <2>3, <2>6
    <3>2. ASSUME NEW j \in 1..(i - 1)
          PROVE  j \in 1..Len(frames') /\ j + 1 \in 1..((i + 1) - 1)
      BY <2>3, <2>6
    <3> QED BY <2>2, <3>1, <3>2
  <2> QED BY <2>1, <2>2, <2>4, <2>5, <2>6
<1>3. CASE MainInCall /\ UNCHANGED commandVars
  <2>1. UNCHANGED <<command, gRecorder, gRunning, signals, frames>> /\ DOMAIN frames' = DOMAIN frames
    BY <1>3 DEF commandVars
  <2>2. frames # <<>> => Bottom' = Bottom
    BY <2>1 DEF Bottom
  <2>3. frames = <<>> => Bottom' = main' /\ Bottom = main
    BY <2>1 DEF Bottom
  <2>4. ASSUME NEW i \in DOMAIN frames, frames[i] \in Sealing
        PROVE  main' \in {"idle", "stop_join", "stop_check"}
    <3>1. state = "Stopped"
      BY <2>4 DEF RecorderInv, Contexts
    <3>2. main \in {"stop_join", "stop_check"}
      BY <1>3, <2>4, WhereMainGoes DEF Starting, StartPC, StartedPC, StopPC
    <3> QED BY <1>3, <3>1, <3>2, WhereMainGoes
  <2>5. main' \in Starting => main \in Starting
    BY <1>3, WhereMainGoes DEF Starting, StartPC, StartedPC, StopPC
  <2>6. main' \in StopPC => main \in StopPC
    BY <1>3, WhereMainGoes DEF Starting, StartPC, StartedPC, StopPC
  <2> QED BY <2>1, <2>2, <2>3, <2>4, <2>5, <2>6
<1>4. CASE Execute
  <2>1. frames' = <<>> /\ DOMAIN frames' = {} /\ Bottom' = main'
    BY <1>4, WhereExecuteGoes DEF Bottom
  <2> QED BY <1>4, <2>1, WhereExecuteGoes DEF Starting, StartPC, StartedPC, StopPC
<1>5. CASE UNCHANGED <<main, commandVars>>
  <2>1. Bottom' = Bottom /\ DOMAIN frames' = DOMAIN frames
    BY <1>5 DEF Bottom, commandVars
  <2> QED BY <1>5, <2>1 DEF commandVars
<1>6. \/ MainInCall /\ UNCHANGED commandVars
      \/ Signal \/ HandlerReturns \/ Execute
      \/ UNCHANGED <<main, commandVars>>
  BY DEF RecordNext, MainThread, PollAsConfigured, PollingThread, PollLoop, PollGate, PollTake,
         PollLimits, ReopenClose, ReopenOpen, PollExit, FinishDiscovery, FinishDiscoveryJoin,
         FinishClose, FinishSet, FinishCallback, FinishNotify, PollGoto, DiscoveryThread, DiscCheck,
         DiscCallback, FilterThrows, callerVars, allVars, vars
<1> QED BY <1>1, <1>2, <1>3, <1>4, <1>5, <1>6

-----------------------------------------------------------------------------
(* The recorder below the calls.                                           *)

\* What a step of the innermost call makes of the calls.
LEMMA CallFacts ==
    ASSUME RecordTypeOK, StackInv, MainInCall, UNCHANGED commandVars
    PROVE  /\ \A x : x \in Contexts' => x = main' \/ x \in Contexts
           /\ \A x : x \in Contexts => x = main \/ x \in Contexts'
           /\ main \in Contexts /\ main' \in Contexts'
           /\ main \in Starting => Contexts = {main} /\ Contexts' = {main'}
<1>1. frames \in Seq(MainPC) /\ UNCHANGED frames
  BY DEF RecordTypeOK, MainPC, commandVars
<1> QED BY <1>1, Move, ContextFacts DEF StackInv, Starting

\* What a handler that is called, or returns, makes of them.
LEMMA HandlerFacts ==
    ASSUME RecordTypeOK, Signal \/ HandlerReturns
    PROVE  /\ \A x : x \in Contexts' => x = "stop_join" \/ x \in Contexts
           /\ \A x : x \in Contexts => x = "idle" \/ x \in Contexts'
<1>1. frames \in Seq(MainPC) /\ main \in MainPC
  BY DEF RecordTypeOK, TypeOK, MainPC
<1>2. CASE UNCHANGED <<main, frames>>
  BY <1>2 DEF Contexts
<1>3. CASE frames' = <<main>> \o frames /\ main' = "stop_join"
  BY <1>1, <1>3, Push
<1>4. CASE HandlerReturns
  BY <1>1, <1>4, Pop DEF HandlerReturns
<1> QED BY <1>2, <1>3, <1>4 DEF Signal, recorder, vars

LEMMA RecorderCallStep ==
    ASSUME RecordTypeOK, StackInv, RecorderInv, MainInCall, UNCHANGED commandVars
    PROVE  RecorderInv'
<1> USE CallFacts
    DEF RecordTypeOK, TypeOK, States, RecorderInv, Sealing, Closing, Finished, Starting, StartPC, StartedPC, StopPC, Sealed, discVars, pollVars, callerVars
<1>1. CASE StartOpen
  BY <1>1 DEF StartOpen
<1>2. CASE StartDiscovery
  BY <1>2 DEF StartDiscovery
<1>3. CASE StartPolling
  BY <1>3 DEF StartPolling
<1>4. CASE StartRunning
  BY <1>4 DEF StartRunning
<1>5. CASE StopJoin
  BY <1>5 DEF StopJoin
<1>6. CASE StopCheck
  BY <1>6 DEF StopCheck
<1>7. CASE StopSet
  BY <1>7 DEF StopSet
<1>8. CASE StopDiscovery
  BY <1>8 DEF StopDiscovery
<1>9. CASE StopDiscoveryJoin
  BY <1>9 DEF StopDiscoveryJoin
<1>10. CASE StopClose
  BY <1>10 DEF StopClose
<1>11. CASE StopNotify
  BY <1>11 DEF StopNotify
<1>12. CASE StartLock \/ StartUnlock
  BY <1>12 DEF StartLock, StartUnlock, TakeCallbackMutex, ReleaseCallbackMutex
<1>13. CASE StopLock
  BY <1>13 DEF StopLock, TakeCallbackMutex
<1>14. CASE StopUnlock
  BY <1>14 DEF StopUnlock, ReleaseCallbackMutex
<1> QED
  BY <1>1, <1>2, <1>3, <1>4, <1>5, <1>6, <1>7, <1>8, <1>9, <1>10, <1>11, <1>12, <1>13, <1>14
     DEF MainInCall

LEMMA RecorderPollStep ==
    ASSUME RecordTypeOK, RecorderInv, TeardownInv, PollingThread, UNCHANGED commandVars
    PROVE  RecorderInv'
<1>0. Contexts' = Contexts
  BY DEF PollingThread, PollLoop, PollGate, PollTake, PollLimits, ReopenClose, ReopenOpen, PollExit,
         FinishDiscovery, FinishDiscoveryJoin, FinishClose, FinishSet, FinishCallback, FinishNotify,
         PollGoto, callerVars, commandVars, Contexts
<1> USE <1>0
    DEF RecordTypeOK, TypeOK, States, PollPC, Finished, RecorderInv, TeardownInv, Sealed, PollGoto, discVars, callerVars
<1>1. CASE PollLoop \/ PollGate \/ PollTake \/ PollLimits
  BY <1>1 DEF PollLoop, PollGate, PollTake, PollLimits
<1>2. CASE ReopenClose \/ ReopenOpen \/ PollExit
  BY <1>2 DEF ReopenClose, ReopenOpen, PollExit
<1>3. CASE FinishDiscovery \/ FinishDiscoveryJoin \/ FinishClose
  BY <1>3 DEF FinishDiscovery, FinishDiscoveryJoin, FinishClose
<1>4. CASE FinishSet
  BY <1>4 DEF FinishSet
<1>5. CASE FinishCallback \/ FinishNotify
  BY <1>5 DEF FinishCallback, FinishNotify
<1> QED BY <1>1, <1>2, <1>3, <1>4, <1>5 DEF PollingThread

\* The calls of execute(): the recorder's start() and stop(), and nothing else.
LEMMA ExecuteCalls ==
    ASSUME RecordTypeOK, Execute
    PROVE  /\ Contexts = {"idle"} /\ Contexts' = {main'}
           /\ \/ /\ StartCall /\ command = "start" /\ command' = "starting"
                 /\ UNCHANGED <<config, gRecorder>>
              \/ /\ StopCall /\ command = "check" /\ command' = "stopping" /\ state = "Running"
                 /\ UNCHANGED <<config, gRecorder>>
              \/ /\ StopCall /\ command = "destroy" /\ command' = "destroying"
                 /\ UNCHANGED <<config, gRecorder>>
              \/ /\ UNCHANGED <<state, callerVars, pollVars, discVars, file, waitVars, toggle>>
                 /\ command \notin {"start", "destroy"}
                 /\ command' \notin {"starting", "stopping", "destroying"}
<1>1. Contexts = {"idle"} /\ Contexts' = {main'}
  BY WhereExecuteGoes DEF Contexts
<1>2. CASE ReadOptions
  BY <1>1, <1>2 DEF ReadOptions, CommandGoto
<1>3. CASE Construct \/ InitRecorder \/ Started \/ Watch \/ Stopped \/ Statistics \/ Exit
  BY <1>1, <1>3 DEF Construct, InitRecorder, Started, Watch, Stopped, Statistics, Exit, CommandGoto,
                    recorder, vars, callerVars, pollVars, discVars, waitVars
<1>4. CASE StartRecorder
  BY <1>1, <1>4 DEF StartRecorder, CommandGoto
<1>5. CASE StopIfRecording
  BY <1>1, <1>5 DEF StopIfRecording, CommandGoto,
                    recorder, vars, callerVars, pollVars, discVars, waitVars
<1>6. CASE Destroy
  BY <1>1, <1>6 DEF Destroy, CommandGoto
<1> QED BY <1>2, <1>3, <1>4, <1>5, <1>6 DEF Execute

LEMMA RecorderStep ==
    ASSUME RecordTypeOK, StackInv, RecorderInv, TeardownInv, ProgressInv, [RecordNext]_allVars
    PROVE  RecorderInv'
<1> USE DEF RecordTypeOK, TypeOK, RecorderInv, Sealed, Sealing, Closing, Finished, StartPC, StopPC
<1>1. CASE MainInCall /\ UNCHANGED commandVars
  BY <1>1, RecorderCallStep
<1>2. CASE PollAsConfigured
  BY <1>2, RecorderPollStep DEF PollAsConfigured
<1>3. CASE Execute
  <2>1. CASE StartCall /\ command = "start"
    BY <1>3, <2>1, ExecuteCalls DEF StartCall, discVars, pollVars, ProgressInv
  <2>2. CASE StopCall
    BY <1>3, <2>2, ExecuteCalls DEF StopCall, discVars
  <2>3. CASE UNCHANGED <<state, callerVars, pollVars, discVars, file, waitVars, toggle>>
    <3>1. main' = "idle" /\ Contexts' = Contexts
      BY <1>3, <2>3, ExecuteCalls, WhereExecuteGoes DEF callerVars
    <3> QED BY <2>3, <3>1 DEF callerVars, pollVars, discVars
  <2> QED BY <1>3, <2>1, <2>2, <2>3, ExecuteCalls
<1>4. CASE Signal \/ HandlerReturns
  <2>1. UNCHANGED <<state, pollingThread, poll, discVars, file, starts, begun>>
        /\ stopCalled' \in {TRUE, stopCalled}
    BY <1>4 DEF Signal, HandlerReturns, recorder, vars, discVars
  <2> QED BY <1>4, <2>1, HandlerFacts DEF discVars
<1>5. CASE (DiscoveryThread \/ FilterThrows) /\ UNCHANGED commandVars
  <2>1. UNCHANGED <<state, callerVars, pollVars, file>> /\ Contexts' = Contexts
    BY <1>5 DEF DiscoveryThread, DiscCheck, DiscCallback, FilterThrows, callerVars, commandVars, Contexts
  <2>2. starts = 0 => UNCHANGED discVars
    BY <1>5 DEF DiscoveryThread, DiscCheck, DiscCallback, FilterThrows
  <2> QED BY <2>1, <2>2 DEF callerVars, pollVars, discVars
<1>6. CASE UNCHANGED allVars
  <2>1. Contexts' = Contexts
    BY <1>6 DEF allVars, vars, commandVars, Contexts
  <2> QED BY <1>6, <2>1 DEF allVars, vars
<1> QED BY <1>1, <1>2, <1>3, <1>4, <1>5, <1>6 DEF RecordNext, MainThread, FilterThrows

\* Whoever of the calls has callback_mutex_, it is one, and the mutex says so.
LEMMA MutexStep ==
    ASSUME RecordTypeOK, StackInv, MutexInv, [RecordNext]_allVars
    PROVE  MutexInv'
<1> USE DEF MutexInv
<1>1. CASE MainInCall /\ UNCHANGED commandVars
  <2>1. CASE StartLock \/ StartUnlock
    BY <1>1, <2>1, CallFacts DEF StartLock, StartUnlock, TakeCallbackMutex, ReleaseCallbackMutex, Starting,
                                 StartedPC
  <2>2. CASE StopLock
    BY <1>1, <2>2, CallFacts DEF StopLock, TakeCallbackMutex
  <2>3. CASE StopUnlock
    <3>1. main = "stop_unlock" /\ main' = "stop_discovery" /\ callbackMutex' = "free"
      BY <2>3 DEF StopUnlock, ReleaseCallbackMutex
    <3>2. \A i \in DOMAIN frames : frames[i] # "stop_unlock"
      BY <3>1 DEF StackInv, Sealing, Closing
    <3>3. main \in Contexts /\ Contexts' = {main'} \cup {frames[i] : i \in DOMAIN frames}
      BY <1>1 DEF Contexts, commandVars
    <3>4. Contexts = {main} \cup {frames[i] : i \in DOMAIN frames}
      BY DEF Contexts
    <3> QED BY <3>1, <3>2, <3>3, <3>4
  <2>4. CASE ~(StartLock \/ StartUnlock \/ StopLock \/ StopUnlock)
    <3>1. /\ UNCHANGED callbackMutex
          /\ main \notin {"start_unlock", "stop_unlock"}
          /\ main' \notin {"start_unlock", "stop_unlock"}
      BY <1>1, <2>4 DEF MainInCall, StartOpen, StartDiscovery, StartPolling, StartRunning, StopJoin,
                        StopCheck, StopSet, StopDiscovery, StopDiscoveryJoin, StopClose, StopNotify,
                        NotifyAll, waitVars
    <3> QED BY <1>1, <3>1, CallFacts
  <2> QED BY <2>1, <2>2, <2>3, <2>4
<1>2. CASE Execute
  <2>1. Contexts = {"idle"} /\ Contexts' = {main'} /\ main' \in {"idle", "start_open", "stop_join"}
    BY <1>2, ExecuteCalls, WhereExecuteGoes
  <2>2. UNCHANGED callbackMutex
    BY <1>2, ExecuteCalls DEF StartCall, StopCall, waitVars
  <2> QED BY <2>1, <2>2
<1>3. CASE Signal \/ HandlerReturns
  <2>1. UNCHANGED callbackMutex
    BY <1>3 DEF Signal, HandlerReturns, recorder, vars, waitVars
  <2> QED BY <1>3, <2>1, HandlerFacts
<1>4. CASE (PollingThread \/ DiscoveryThread \/ FilterThrows) /\ UNCHANGED commandVars
  <2>1. UNCHANGED <<main, callbackMutex>>
    BY <1>4 DEF PollingThread, PollLoop, PollGate, PollTake, PollLimits, ReopenClose, ReopenOpen,
                PollExit, FinishDiscovery, FinishDiscoveryJoin, FinishClose, FinishSet,
                FinishCallback, FinishNotify, PollGoto, NotifyAll, DiscoveryThread, DiscCheck,
                DiscCallback, FilterThrows, callerVars, waitVars
  <2>2. Contexts' = Contexts
    BY <1>4, <2>1 DEF Contexts, commandVars
  <2> QED BY <2>1, <2>2
<1>5. CASE UNCHANGED allVars
  <2>1. Contexts' = Contexts /\ UNCHANGED callbackMutex
    BY <1>5 DEF allVars, vars, commandVars, Contexts
  <2> QED BY <2>1
<1> QED BY <1>1, <1>2, <1>3, <1>4, <1>5 DEF RecordNext, MainThread, FilterThrows, PollAsConfigured

-----------------------------------------------------------------------------
(* The teardowns.                                                          *)

LEMMA TeardownCallStep ==
    ASSUME RecordTypeOK, StackInv, RecorderInv, TeardownInv, MainInCall, UNCHANGED commandVars
    PROVE  TeardownInv'
<1> USE CallFacts
    DEF RecordTypeOK, TypeOK, States, RecorderInv, TeardownInv, Sealing, Closing, Finished, Starting, StartPC, StartedPC, StopPC, Sealed,
        discVars, pollVars, callerVars
<1>1. CASE StartOpen
  BY <1>1 DEF StartOpen
<1>2. CASE StartDiscovery
  BY <1>2 DEF StartDiscovery
<1>3. CASE StartPolling
  BY <1>3 DEF StartPolling
<1>4. CASE StartRunning
  BY <1>4 DEF StartRunning
<1>5. CASE StopJoin
  BY <1>5 DEF StopJoin
<1>6. CASE StopCheck
  BY <1>6 DEF StopCheck
<1>7. CASE StopSet
  BY <1>7 DEF StopSet
<1>8. CASE StopDiscovery
  <2>1. "stop_discovery_join" \notin Contexts
    BY <1>8 DEF StopDiscovery, Contexts, StackInv
  <2>2. poll = "none"
    BY <1>8 DEF StopDiscovery
  <2>3. ~discRunning => disc = "none"
    BY <2>1, <2>2
  <2> QED BY <1>8, <2>2, <2>3 DEF StopDiscovery
<1>9. CASE StopDiscoveryJoin
  BY <1>9 DEF StopDiscoveryJoin
<1>10. CASE StopClose
  BY <1>10 DEF StopClose
<1>11. CASE StopNotify
  BY <1>11 DEF StopNotify
<1>12. CASE StartLock \/ StartUnlock
  BY <1>12 DEF StartLock, StartUnlock, TakeCallbackMutex, ReleaseCallbackMutex
<1>13. CASE StopLock
  BY <1>13 DEF StopLock, TakeCallbackMutex
<1>14. CASE StopUnlock
  BY <1>14 DEF StopUnlock, ReleaseCallbackMutex
<1> QED
  BY <1>1, <1>2, <1>3, <1>4, <1>5, <1>6, <1>7, <1>8, <1>9, <1>10, <1>11, <1>12, <1>13, <1>14
     DEF MainInCall

LEMMA TeardownPollStep ==
    ASSUME RecordTypeOK, RecorderInv, TeardownInv, PollingThread, UNCHANGED commandVars
    PROVE  TeardownInv'
<1>0. Contexts' = Contexts
  BY DEF PollingThread, PollLoop, PollGate, PollTake, PollLimits, ReopenClose, ReopenOpen, PollExit,
         FinishDiscovery, FinishDiscoveryJoin, FinishClose, FinishSet, FinishCallback, FinishNotify,
         PollGoto, callerVars, commandVars, Contexts
<1> USE <1>0
    DEF RecordTypeOK, TypeOK, States, RecorderInv, TeardownInv, Sealed, Sealing, Closing, Finished,
        StartPC, StopPC, PollGoto, discVars, callerVars
<1>1. CASE PollLoop \/ PollGate \/ PollTake \/ PollLimits
  BY <1>1 DEF PollLoop, PollGate, PollTake, PollLimits
<1>2. CASE ReopenClose \/ ReopenOpen \/ PollExit
  BY <1>2 DEF ReopenClose, ReopenOpen, PollExit
<1>3. CASE FinishDiscovery
  BY <1>3 DEF FinishDiscovery
<1>4. CASE FinishDiscoveryJoin \/ FinishClose
  BY <1>4 DEF FinishDiscoveryJoin, FinishClose
<1>5. CASE FinishSet
  BY <1>5 DEF FinishSet
<1>6. CASE FinishCallback \/ FinishNotify
  BY <1>6 DEF FinishCallback, FinishNotify
<1> QED BY <1>1, <1>2, <1>3, <1>4, <1>5, <1>6 DEF PollingThread

LEMMA TeardownStep ==
    ASSUME RecordTypeOK, StackInv, RecorderInv, TeardownInv, ProgressInv, [RecordNext]_allVars
    PROVE  TeardownInv'
<1> USE DEF RecordTypeOK, TypeOK, RecorderInv, TeardownInv, Sealed, Sealing, Closing, Finished, StartPC, StopPC
<1>1. CASE MainInCall /\ UNCHANGED commandVars
  BY <1>1, TeardownCallStep
<1>2. CASE PollAsConfigured
  BY <1>2, TeardownPollStep DEF PollAsConfigured
<1>3. CASE Execute
  <2>1. CASE StartCall /\ command = "start"
    BY <1>3, <2>1, ExecuteCalls DEF StartCall, discVars, pollVars, ProgressInv
  <2>2. CASE StopCall
    BY <1>3, <2>2, ExecuteCalls DEF StopCall, discVars
  <2>3. CASE UNCHANGED <<state, callerVars, pollVars, discVars, file, waitVars, toggle>>
    <3>1. main' = "idle" /\ Contexts' = Contexts
      BY <1>3, <2>3, ExecuteCalls, WhereExecuteGoes DEF callerVars
    <3> QED BY <2>3, <3>1 DEF callerVars, pollVars, discVars
  <2> QED BY <1>3, <2>1, <2>2, <2>3, ExecuteCalls
<1>4. CASE Signal \/ HandlerReturns
  <2>1. UNCHANGED <<state, poll, discVars, file>>
    BY <1>4 DEF Signal, HandlerReturns, recorder, vars, discVars
  <2> QED BY <1>4, <2>1, HandlerFacts DEF discVars
<1>5. CASE (DiscoveryThread \/ FilterThrows) /\ UNCHANGED commandVars
  <2>1. UNCHANGED <<state, callerVars, pollVars, file, discRunning>> /\ Contexts' = Contexts
    BY <1>5 DEF DiscoveryThread, DiscCheck, DiscCallback, FilterThrows, callerVars, discVars, commandVars,
                Contexts
  <2>2. disc = "none" <=> disc' = "none"
    BY <1>5 DEF DiscoveryThread, DiscCheck, DiscCallback, FilterThrows, discVars
  <2>3. disc = "none" => UNCHANGED disc
    BY <2>2
  <2> QED BY <2>1, <2>2, <2>3 DEF callerVars, pollVars
<1>6. CASE UNCHANGED allVars
  <2>1. Contexts' = Contexts
    BY <1>6 DEF allVars, vars, commandVars, Contexts
  <2> QED BY <1>6, <2>1 DEF allVars, vars
<1> QED BY <1>1, <1>2, <1>3, <1>4, <1>5, <1>6 DEF RecordNext, MainThread, FilterThrows

-----------------------------------------------------------------------------
(* The command.                                                            *)

LEMMA ProgressCallStep ==
    ASSUME RecordTypeOK, StackInv, RecorderInv, ProgressInv, MainInCall, UNCHANGED commandVars
    PROVE  ProgressInv'
<1> USE DEF RecordTypeOK, TypeOK, ProgressInv, callerVars
<1>0. UNCHANGED <<command, gRecorder, signals, badCall>>
  BY DEF commandVars
<1>1. CASE main \in Starting
  <2>1. command = "starting" /\ UNCHANGED starts
    BY <1>1 DEF Starting, StartPC, StartedPC, StackInv, Bottom, MainInCall, StartOpen, StartDiscovery, StartPolling, StartRunning,
                StartLock, StartUnlock, TakeCallbackMutex, ReleaseCallbackMutex, StopLock,
                StopUnlock, StopJoin, StopCheck, StopSet, StopDiscovery, StopDiscoveryJoin,
                StopClose, StopNotify
  <2> QED BY <1>0, <2>1
<1>2. CASE main = "stop_join"
  <2>1. StopJoin
    BY <1>2 DEF MainInCall, StartOpen, StartDiscovery, StartPolling, StartRunning, StartLock,
                StartUnlock, TakeCallbackMutex, ReleaseCallbackMutex, StopLock, StopUnlock,
                StopJoin, StopCheck, StopSet, StopDiscovery, StopDiscoveryJoin, StopClose,
                StopNotify
  <2> QED BY <1>0, <2>1, CallFacts DEF StopJoin
<1>3. CASE main = "stop_check"
  <2>1. StopCheck
    BY <1>3 DEF MainInCall, StartOpen, StartDiscovery, StartPolling, StartRunning, StartLock,
                StartUnlock, TakeCallbackMutex, ReleaseCallbackMutex, StopLock, StopUnlock,
                StopJoin, StopCheck, StopSet, StopDiscovery, StopDiscoveryJoin, StopClose,
                StopNotify
  <2> QED BY <1>0, <2>1, CallFacts DEF StopCheck
<1>4. CASE main = "stop_set"
  <2>1. StopSet
    BY <1>4 DEF MainInCall, StartOpen, StartDiscovery, StartPolling, StartRunning, StartLock,
                StartUnlock, TakeCallbackMutex, ReleaseCallbackMutex, StopLock, StopUnlock,
                StopJoin, StopCheck, StopSet, StopDiscovery, StopDiscoveryJoin, StopClose,
                StopNotify
  <2> QED BY <1>0, <2>1, CallFacts DEF StopSet
<1>5. CASE StopLock \/ StopUnlock \/ StopDiscovery \/ StopDiscoveryJoin \/ StopClose \/ StopNotify
  <2>1. UNCHANGED <<state, starts, begun, pollingThread>>
        /\ main \notin {"stop_join", "stop_check", "stop_set"}
    BY <1>5 DEF StopLock, StopUnlock, TakeCallbackMutex, ReleaseCallbackMutex, StopDiscovery, StopDiscoveryJoin, StopClose, StopNotify
  <2> QED BY <1>0, <2>1, CallFacts
<1> QED
  BY <1>1, <1>2, <1>3, <1>4, <1>5
     DEF MainInCall, StartOpen, StartDiscovery, StartPolling, StartRunning, StartLock, StartUnlock,
         TakeCallbackMutex, ReleaseCallbackMutex, StopLock, StopUnlock, StopJoin, StopCheck,
         StopSet, Starting, StartPC, StartedPC

LEMMA ProgressExecuteStep ==
    ASSUME RecordTypeOK, StackInv, RecorderInv, ProgressInv, Execute
    PROVE  ProgressInv'
<1> USE DEF RecordTypeOK, TypeOK, States, ProgressInv, RecorderInv, CommandGoto
<1>0. Contexts = {"idle"} /\ Contexts' = {main'} /\ UNCHANGED <<signals, badCall, frames>>
  BY ExecuteCalls, WhereExecuteGoes
<1>1. CASE ReadOptions
  BY <1>0, <1>1 DEF ReadOptions, callerVars
<1>2. CASE Construct
  BY <1>0, <1>2 DEF Construct, recorder, vars
<1>3. CASE InitRecorder
  BY <1>0, <1>3 DEF InitRecorder, recorder, vars
<1>4. CASE StartRecorder
  BY <1>0, <1>4 DEF StartRecorder, StartCall
<1>5. CASE Started
  BY <1>0, <1>5, RecordAssumption DEF Started, recorder, vars, RecordAssumption
<1>6. CASE Watch
  BY <1>0, <1>6 DEF Watch, recorder, vars, StackInv
<1>7. CASE StopIfRecording
  BY <1>0, <1>7 DEF StopIfRecording, StopCall, recorder, vars
<1>8. CASE Stopped
  BY <1>0, <1>8 DEF Stopped, recorder, vars
<1>9. CASE Statistics
  BY <1>0, <1>9 DEF Statistics, recorder, vars
<1>10. CASE Destroy
  BY <1>0, <1>10 DEF Destroy, StopCall
<1>11. CASE Exit
  BY <1>0, <1>11 DEF Exit, recorder, vars
<1> QED BY <1>1, <1>2, <1>3, <1>4, <1>5, <1>6, <1>7, <1>8, <1>9, <1>10, <1>11 DEF Execute

LEMMA ProgressStep ==
    ASSUME RecordTypeOK, StackInv, RecorderInv, ProgressInv, [RecordNext]_allVars
    PROVE  ProgressInv'
<1> USE DEF ProgressInv
<1>1. CASE MainInCall /\ UNCHANGED commandVars
  BY <1>1, ProgressCallStep
<1>2. CASE Execute
  BY <1>2, ProgressExecuteStep
<1>3. CASE Signal \/ HandlerReturns
  <2>1. /\ UNCHANGED <<state, pollingThread, starts, begun, command, gRecorder>>
        /\ signals > 0 => signals' > 0
        /\ badCall' => badCall \/ (command = "exited" /\ gRecorder)
    BY <1>3 DEF Signal, HandlerReturns, recorder, vars, RecordTypeOK
  <2> QED BY <1>3, <2>1, HandlerFacts
<1>4. CASE (PollingThread \/ DiscoveryThread \/ FilterThrows) /\ UNCHANGED commandVars
  <2>1. /\ UNCHANGED callerVars /\ state' \in {state, "Stopped"}
    BY <1>4 DEF PollingThread, PollLoop, PollGate, PollTake, PollLimits, ReopenClose, ReopenOpen,
                PollExit, FinishDiscovery, FinishDiscoveryJoin, FinishClose, FinishSet,
                FinishCallback, FinishNotify, PollGoto, DiscoveryThread, DiscCheck, DiscCallback,
                FilterThrows
  <2>2. Contexts' = Contexts
    BY <1>4, <2>1 DEF Contexts, callerVars, commandVars
  <2> QED BY <1>4, <2>1, <2>2 DEF callerVars, commandVars
<1>5. CASE UNCHANGED allVars
  <2>1. Contexts' = Contexts
    BY <1>5 DEF allVars, vars, commandVars, Contexts
  <2> QED BY <1>5, <2>1 DEF allVars, vars, commandVars
<1> QED BY <1>1, <1>2, <1>3, <1>4, <1>5 DEF RecordNext, MainThread, FilterThrows, PollAsConfigured

-----------------------------------------------------------------------------
(* What ends a recording, and the process.                                 *)

LEMMA LimitStep ==
    ASSUME RecordTypeOK, RecorderInv, TeardownInv, ProgressInv, LimitInv, [RecordNext]_allVars
    PROVE  LimitInv'
<1> USE DEF LimitInv
<1>0. Loaded' = Loaded /\ Argv' = Argv
  <2>1. UNCHANGED <<line, onDisk>>
    <3>1. CASE Execute
      BY <3>1, WhereExecuteGoes
    <3>2. CASE Signal \/ HandlerReturns
      BY <3>2 DEF Signal, HandlerReturns
    <3>3. CASE UNCHANGED commandVars
      BY <3>3 DEF commandVars
    <3> QED BY <3>1, <3>2, <3>3 DEF RecordNext, MainThread, FilterThrows, PollAsConfigured, allVars
  <2> QED BY <2>1 DEF Loaded, Argv
<1>1. CASE MainInCall /\ UNCHANGED commandVars
  <2>1. UNCHANGED <<config, command>>
    BY <1>1 DEF commandVars
  <2>2. CASE StartOpen
    <3>1. stopCalled
      BY <2>2 DEF StartOpen, RecorderInv, Contexts, StartPC
    <3> QED BY <1>0, <2>1, <2>2, <3>1 DEF StartOpen, pollVars
  <2>3. CASE StartPolling
    <3>1. poll = "none"
      BY <2>3 DEF StartPolling, RecorderInv, Contexts, StartPC
    <3> QED BY <1>0, <2>1, <2>3, <3>1 DEF StartPolling
  <2>4. CASE StartDiscovery \/ StartRunning \/ StartLock \/ StartUnlock
    BY <1>0, <2>1, <2>4 DEF StartDiscovery, StartRunning, StartLock, StartUnlock, TakeCallbackMutex,
                            ReleaseCallbackMutex, pollVars
  <2>5. CASE StopJoin \/ StopCheck \/ StopSet \/ StopLock \/ StopUnlock
    BY <1>0, <2>1, <2>5 DEF StopJoin, StopCheck, StopSet, StopLock, StopUnlock, TakeCallbackMutex,
                            ReleaseCallbackMutex, pollVars
  <2>6. CASE StopDiscovery \/ StopDiscoveryJoin \/ StopClose \/ StopNotify
    BY <1>0, <2>1, <2>6 DEF StopDiscovery, StopDiscoveryJoin, StopClose, StopNotify, pollVars
  <2> QED BY <1>1, <2>2, <2>3, <2>4, <2>5, <2>6 DEF MainInCall
<1>2. CASE PollAsConfigured
  <2>1. UNCHANGED <<config, command, stopCalled>>
    BY <1>2 DEF PollAsConfigured, commandVars, PollingThread, PollLoop, PollGate, PollTake,
                PollLimits, ReopenClose, ReopenOpen, PollExit, FinishDiscovery, FinishDiscoveryJoin,
                FinishClose, FinishSet, FinishCallback, FinishNotify, PollGoto, callerVars
  <2> USE <1>0, <2>1
  <2>2. CASE PollLoop \/ PollGate \/ PollTake
    BY <2>2 DEF PollLoop, PollGate, PollTake, PollGoto
  <2>3. CASE PollLimits
    <3>1. poll = "limits" /\ poll' \in {"loop", "reopen_close"} /\ UNCHANGED file
          /\ (pollingActive' = pollingActive \/ pollingActive' = FALSE)
      BY <2>3 DEF PollLimits, PollGoto
    <3> QED BY <1>2, <3>1 DEF PollAsConfigured, RecordTypeOK, TypeOK
  <2>4. CASE ReopenClose
    BY <2>4 DEF ReopenClose, PollGoto
  <2>5. CASE ReopenOpen
    BY <2>5 DEF ReopenOpen, PollGoto, TeardownInv
  <2>6. CASE PollExit \/ FinishDiscovery \/ FinishDiscoveryJoin
    BY <2>6 DEF PollExit, FinishDiscovery, FinishDiscoveryJoin, PollGoto
  <2>7. CASE FinishClose \/ FinishSet \/ FinishCallback \/ FinishNotify
    BY <2>7 DEF FinishClose, FinishSet, FinishCallback, FinishNotify, PollGoto
  <2> QED BY <1>2, <2>2, <2>3, <2>4, <2>5, <2>6, <2>7 DEF PollAsConfigured, PollingThread
<1>3. CASE Execute
  <2>1. CASE ReadOptions
    <3>1. poll = "none" /\ stopCalled
      BY <2>1 DEF ReadOptions, CommandGoto, ProgressInv, RecorderInv
    <3>2. UNCHANGED <<poll, stopCalled>>
      BY <2>1 DEF ReadOptions, callerVars, pollVars
    <3>3. command' \notin {"options", "exited"} => config' = Effective(Loaded, Argv)
      BY <2>1 DEF ReadOptions, CommandGoto
    <3> QED BY <1>0, <3>1, <3>2, <3>3
  <2>2. CASE ~ReadOptions
    <3>1. UNCHANGED config /\ command \notin {"options", "exited"}
      BY <1>3, <2>2 DEF Execute, Construct, InitRecorder, StartRecorder, Started, Watch, StopIfRecording,
                        Stopped, Statistics, Destroy, Exit, CommandGoto
    <3>2. CASE StartCall
      BY <1>0, <3>1, <3>2 DEF StartCall, pollVars
    <3>3. CASE StopCall
      BY <1>0, <3>1, <3>3 DEF StopCall
    <3>4. CASE UNCHANGED <<state, callerVars, pollVars, discVars, file, waitVars, toggle>>
      BY <1>0, <3>1, <3>4 DEF callerVars, pollVars
    <3> QED BY <1>3, <3>2, <3>3, <3>4, ExecuteCalls
  <2> QED BY <2>1, <2>2
<1>4. CASE Signal \/ HandlerReturns
  <2>1. /\ UNCHANGED <<config, command, poll, file>>
        /\ UNCHANGED <<pollingActive, stopCalled>> \/ (pollingActive' = FALSE /\ stopCalled' = TRUE)
    BY <1>4 DEF Signal, HandlerReturns, recorder, vars
  <2> QED BY <1>0, <2>1
<1>5. CASE (DiscoveryThread \/ FilterThrows) /\ UNCHANGED commandVars
  BY <1>0, <1>5 DEF DiscoveryThread, DiscCheck, DiscCallback, FilterThrows, callerVars, pollVars, commandVars
<1>6. CASE UNCHANGED allVars
  BY <1>0, <1>6 DEF allVars, vars, commandVars
<1> QED BY <1>1, <1>2, <1>3, <1>4, <1>5, <1>6 DEF RecordNext, MainThread, FilterThrows

\* The process is aborted by what AbortsAreKnown names: no step replaces a joinable thread,
\* and no single signal makes a second join().
LEMMA AbortStep ==
    ASSUME RecordTypeOK, StackInv, RecorderInv, ProgressInv, AbortsAreKnown, [RecordNext]_allVars
    PROVE  AbortsAreKnown'
<1> USE DEF AbortsAreKnown
<1>1. CASE UNCHANGED allVars
  <2>1. Argv' = Argv /\ UNCHANGED <<config, signals, terminated>>
    BY <1>1 DEF allVars, vars, commandVars, Argv
  <2> QED BY <2>1
<1>2. CASE ~terminated /\ ~terminated'
  BY <1>2
<1>3. CASE ReadOptions
  <2>1. terminated' => BadNumber(Argv)
    BY <1>3 DEF ReadOptions
  <2>2. Argv' = Argv
    BY <1>3 DEF ReadOptions, CommandGoto, Argv
  <2> QED BY <2>1, <2>2
<1>4. CASE Signal /\ ~terminated
  <2>1. CASE UNCHANGED recorder
    BY <1>2, <1>4, <2>1 DEF recorder, vars
  <2>2. CASE gRecorder /\ terminated' = (main = "stop_join" /\ pollingThread)
    <3>1. CASE main = "stop_join" /\ pollingThread
      <4>1. signals > 0
        <5>1. CASE frames # <<>>
          BY <5>1 DEF StackInv
        <5>2. CASE frames = <<>> /\ command = "stopping"
          BY <5>2 DEF ProgressInv
        <5>3. CASE frames = <<>> /\ command = "destroying"
          <6>1. "start_running" \in Contexts
            BY <2>2, <3>1, <5>3 DEF ProgressInv, RecorderInv
          <6> QED BY <3>1, <5>3, <6>1, ContextFacts DEF RecordTypeOK, MainPC
        <5> QED BY <3>1, <5>1, <5>2, <5>3 DEF StackInv, Bottom, StopPC
      <4>2. signals' > 1
        BY <1>4, <4>1 DEF Signal, RecordTypeOK
      <4> QED BY <4>2
    <3>2. CASE ~(main = "stop_join" /\ pollingThread)
      BY <2>2, <3>2
    <3> QED BY <3>1, <3>2
  <2> QED BY <1>4, <2>1, <2>2 DEF Signal
<1>5. CASE FilterThrows
  BY <1>5 DEF FilterThrows, commandVars
<1>6. CASE MainInCall /\ ~terminated
  <2>1. main = "start_polling" => ~pollingThread
    BY DEF RecorderInv, Contexts, StartPC
  <2>2. terminated' = terminated
    BY <1>6, <2>1 DEF MainInCall, StartOpen, StartDiscovery, StartPolling, StartRunning, StartLock,
                      StartUnlock, TakeCallbackMutex, ReleaseCallbackMutex, StopLock, StopUnlock,
                      StopJoin, StopCheck, StopSet, StopDiscovery, StopDiscoveryJoin, StopClose,
                      StopNotify
  <2> QED BY <1>6, <2>2
<1>7. ASSUME ~terminated, ~ReadOptions, ~Signal, ~FilterThrows, ~MainInCall, ~UNCHANGED allVars
      PROVE  ~terminated'
  BY <1>7 DEF RecordNext, MainThread, Execute, Construct, InitRecorder, StartRecorder, Started,
              Watch, StopIfRecording, Stopped, Statistics, Destroy, Exit, StartCall, StopCall,
              HandlerReturns, PollAsConfigured, PollingThread, PollLoop, PollGate, PollTake,
              PollLimits, ReopenClose, ReopenOpen, PollExit, FinishDiscovery, FinishDiscoveryJoin,
              FinishClose, FinishSet, FinishCallback, FinishNotify, PollGoto, DiscoveryThread,
              DiscCheck, DiscCallback, recorder, vars
<1>8. terminated => UNCHANGED allVars
  BY DEF RecordNext
<1> QED BY <1>1, <1>2, <1>3, <1>4, <1>5, <1>6, <1>7, <1>8

-----------------------------------------------------------------------------
(* The inductive invariant.                                                *)

CommandInv ==
    /\ RecordTypeOK /\ StackInv /\ MutexInv /\ RecorderInv /\ TeardownInv
    /\ ProgressInv /\ LimitInv /\ AbortsAreKnown

LEMMA CommandInit == RecordInit => CommandInv
<1> SUFFICES ASSUME RecordInit PROVE CommandInv
  OBVIOUS
<1> USE DEF RecordInit, Init
<1>1. TypeOK
  BY TypeInit
<1>2. gRunning \in BOOLEAN /\ gRecorder \in BOOLEAN /\ badCall \in BOOLEAN /\ gRunning /\ ~gRecorder
      /\ ~badCall /\ ~terminated /\ ~discRunning /\ ~pollingThread /\ stopCalled
  BY Zenon
<1>3. RecordTypeOK
  <2>1. frames \in Seq({"idle"} \cup StartPC \cup StartedPC \cup StopPC)
    OBVIOUS
  <2>2. onDisk \in {0} \cup DOMAIN ConfigFiles
    OBVIOUS
  <2> QED BY <1>1, <1>2, <2>1, <2>2, RecordAssumption DEF RecordTypeOK, CommandPC, RecordAssumption
<1>4. Contexts = {"idle"} /\ Bottom = "idle"
  BY DEF Contexts, Bottom
<1>5. StackInv
  BY <1>2, <1>4 DEF StackInv, StartPC, StartedPC, StopPC
<1>6. RecorderInv
  BY <1>2, <1>4 DEF RecorderInv, Finished, StartPC, StopPC, Sealing, Closing, Sealed
<1>7. TeardownInv
  BY <1>2, <1>4 DEF TeardownInv, Sealed
<1>8. ProgressInv
  BY <1>2, <1>4 DEF ProgressInv
<1>9. LimitInv
  BY <1>2 DEF LimitInv
<1>10. AbortsAreKnown
  BY <1>2 DEF AbortsAreKnown
<1>11. MutexInv
  BY <1>4 DEF MutexInv
<1> QED BY <1>3, <1>5, <1>6, <1>7, <1>8, <1>9, <1>10, <1>11 DEF CommandInv

LEMMA CommandStep == CommandInv /\ [RecordNext]_allVars => CommandInv'
  BY RecordTypeStep, StackStep, MutexStep, RecorderStep, TeardownStep, ProgressStep, LimitStep, AbortStep
     DEF CommandInv

LEMMA CommandInduction == RecordSpec => []CommandInv
  BY CommandInit, CommandStep, PTL DEF RecordSpec

\* Between two calls of execute() the recorder is sealed, if its state is Stopped.
LEMMA Between ==
    ASSUME CommandInv, frames = <<>>, state = "Stopped",
           command \notin {"starting", "stopping", "destroying"}
    PROVE  Sealed /\ poll \in Finished
<1>1. Contexts = {main} /\ Bottom = main
  BY ContextFacts DEF CommandInv, RecordTypeOK, MainPC
<1>2. main = "idle"
  BY <1>1 DEF CommandInv, StackInv, RecordTypeOK, TypeOK
<1> QED BY <1>1, <1>2 DEF CommandInv, TeardownInv, RecorderInv, StartPC, Closing

\* No path through the command leaves a thread or an open file behind, no handler calls a
\* recorder that is gone once a recording had begun, and the process is aborted only by
\* arguments that say so or by two signals.
THEOREM NothingIsLeftBehind == RecordSpec => []ExitInv
<1>1. CommandInv => ExitInv
  <2> SUFFICES ASSUME CommandInv PROVE ExitInv
    OBVIOUS
  <2>1. ExitLeavesNothing
    <3> SUFFICES ASSUME command = "exited" PROVE ExitLeavesNothing
      BY DEF ExitLeavesNothing
    <3>1. frames = <<>> /\ state = "Stopped" /\ ~pollingThread
      BY DEF CommandInv, StackInv, ProgressInv
    <3>2. Sealed
      BY <3>1, Between
    <3> QED BY <3>1, <3>2 DEF CommandInv, RecorderInv, Sealed, ExitLeavesNothing
  <2>2. HandlerFindsItsRecorder
    BY DEF CommandInv, ProgressInv, HandlerFindsItsRecorder
  <2>3. HangsAreKnown
    <3> SUFFICES ASSUME Hung PROVE "start_unlock" \in {frames[i] : i \in DOMAIN frames}
      BY DEF HangsAreKnown
    <3>1. PICK x \in Contexts : x \in {"start_unlock", "stop_unlock"}
      BY DEF Hung, CommandInv, MutexInv
    <3>2. PICK i \in DOMAIN frames : x = frames[i]
      BY <3>1 DEF Hung, Contexts
    <3>3. x # "stop_unlock"
      <4>1. main # "stop_lock" \/ x # "stop_unlock"
        BY <3>2 DEF CommandInv, StackInv, Sealing, Closing
      <4>2. poll # "finish_callback" \/ x # "stop_unlock"
        BY <3>1 DEF CommandInv, RecorderInv, StopPC
      <4> QED BY <4>1, <4>2 DEF Hung
    <3> QED BY <3>1, <3>2, <3>3
  <2> QED BY <2>1, <2>2, <2>3 DEF CommandInv, ExitInv
<1> QED BY <1>1, CommandInduction, PTL

\* What execute() prints at the end is final: the file is closed and no thread of the
\* recorder works, whatever has ended the recording.
THEOREM FinalStatistics == RecordSpec => []StatisticsAreFinal
<1>1. CommandInv => StatisticsAreFinal
  <2> SUFFICES ASSUME CommandInv, command = "statistics", frames = <<>>
               PROVE  file = 0 /\ disc = "none" /\ poll \in Finished
    BY DEF StatisticsAreFinal
  <2>1. state = "Stopped"
    BY DEF CommandInv, ProgressInv
  <2> QED BY <2>1, Between DEF Sealed
<1> QED BY <1>1, CommandInduction, PTL

-----------------------------------------------------------------------------
(* The options.                                                            *)

Keys == {"domain", "filter", "prefix", "appendDate", "maxSize", "maxDuration", "split", "maxSplits",
         "minSpace", "compress", "compression"}

\* What becomes of each setting.
LEMMA EffectiveFacts ==
    ASSUME NEW file_, NEW argv
    PROVE  LET made == Effective(file_, argv)
               base == FileConfig(file_)
           IN  /\ DOMAIN made = Keys
               /\ made.domain = Override(argv, "domain", base.domain)
               /\ made.filter = FilterFor(argv, FileFilter(file_))
               /\ made.prefix = Override(argv, "output_name", Override(argv, "output", base.prefix))
               /\ made.appendDate = (base.appendDate /\ ~HasArg(argv, "output_name"))
               /\ made.maxSize = Override(argv, "size", base.maxSize)
               /\ made.maxDuration = Override(argv, "duration", base.maxDuration)
               /\ made.split = (base.split \/ Given(argv, "split"))
               /\ made.maxSplits = Override(argv, "max_splits", base.maxSplits)
               /\ made.minSpace = Override(argv, "min_space", base.minSpace)
               /\ made.compress = (/\ base.compress \/ Given(argv, "zstd") \/ Given(argv, "lz4")
                                   /\ ~Given(argv, "no_compression"))
               /\ made.compression = IF Given(argv, "lz4") THEN "lz4"
                                     ELSE IF Given(argv, "zstd") THEN "zstd" ELSE base.compression
<1> DEFINE base   == FileConfig(file_)
           chosen == [base EXCEPT !.filter = FilterFor(argv, @), !.domain = Override(argv, "domain", @)]
           named  == NameFor(argv, chosen)
           bound  == LimitsFor(argv, named)
           made   == CompressionFor(argv, bound)
<1>1. DOMAIN base = Keys /\ base.filter = FileFilter(file_)
  BY DEF FileConfig, Keys
<1>2. made = Effective(file_, argv)
  BY DEF Effective
<1> HIDE DEF base
<1>3. /\ DOMAIN chosen = Keys
      /\ chosen.domain = Override(argv, "domain", base.domain)
      /\ chosen.filter = FilterFor(argv, base.filter)
      /\ \A key \in Keys \ {"domain", "filter"} : chosen[key] = base[key]
  BY <1>1 DEF Keys
<1> HIDE DEF chosen
<1>4. /\ DOMAIN named = Keys
      /\ named.prefix = Override(argv, "output_name", Override(argv, "output", chosen.prefix))
      /\ named.appendDate = (chosen.appendDate /\ ~HasArg(argv, "output_name"))
      /\ \A key \in Keys \ {"prefix", "appendDate"} : named[key] = chosen[key]
  BY <1>3 DEF Keys, NameFor
<1> HIDE DEF named
<1>5. /\ DOMAIN bound = Keys
      /\ bound.maxDuration = Override(argv, "duration", named.maxDuration)
      /\ bound.maxSize = Override(argv, "size", named.maxSize)
      /\ bound.split = (named.split \/ Given(argv, "split"))
      /\ bound.maxSplits = Override(argv, "max_splits", named.maxSplits)
      /\ bound.minSpace = Override(argv, "min_space", named.minSpace)
      /\ \A key \in Keys \ {"maxDuration", "maxSize", "split", "maxSplits", "minSpace"} :
            bound[key] = named[key]
  BY <1>4 DEF Keys, LimitsFor
<1> HIDE DEF bound
<1>6. /\ DOMAIN made = Keys
      /\ made.compression = IF Given(argv, "lz4") THEN "lz4"
                            ELSE IF Given(argv, "zstd") THEN "zstd" ELSE bound.compression
      /\ made.compress = (/\ bound.compress \/ Given(argv, "zstd") \/ Given(argv, "lz4")
                          /\ ~Given(argv, "no_compression"))
      /\ \A key \in Keys \ {"compress", "compression"} : made[key] = bound[key]
  BY <1>5 DEF Keys, CompressionFor
<1> HIDE DEF made
<1>7. /\ chosen.prefix = base.prefix /\ chosen.appendDate = base.appendDate
      /\ named.maxDuration = base.maxDuration /\ named.maxSize = base.maxSize
      /\ named.split = base.split /\ named.maxSplits = base.maxSplits /\ named.minSpace = base.minSpace
      /\ bound.compression = base.compression /\ bound.compress = base.compress
  BY <1>3, <1>4, <1>5 DEF Keys
<1>8. /\ made.domain = chosen.domain /\ made.filter = chosen.filter /\ made.prefix = named.prefix
      /\ made.appendDate = named.appendDate /\ made.maxSize = bound.maxSize
      /\ made.maxDuration = bound.maxDuration /\ made.split = bound.split
      /\ made.maxSplits = bound.maxSplits /\ made.minSpace = bound.minSpace
  BY <1>3, <1>4, <1>5, <1>6 DEF Keys
<1> QED BY <1>1, <1>2, <1>3, <1>4, <1>5, <1>6, <1>7, <1>8 DEF base

\* The first occurrence of an option that is given.
LEMMA FirstGiven ==
    ASSUME NEW argv \in Seq(Argument), NEW opt, Given(argv, opt)
    PROVE  First(argv, opt) \in DOMAIN argv /\ argv[First(argv, opt)].opt = opt
<1> DEFINE S == {i \in DOMAIN argv : argv[i].opt = opt}
<1>1. DOMAIN argv = 1..Len(argv) /\ Len(argv) \in Nat
  OBVIOUS
<1>2. S \in SUBSET Nat /\ S # {}
  BY <1>1 DEF Given
<1>3. PICK m \in S : \A k \in S : ~(k < m)
  BY <1>2, SmallestElement
<1>4. \A j \in 1..(m - 1) : argv[j].opt # opt
  BY <1>1, <1>3
<1>5. \E i \in DOMAIN argv : argv[i].opt = opt /\ \A j \in 1..(i - 1) : argv[j].opt # opt
  BY <1>3, <1>4
<1> QED BY <1>5, Zenon DEF First

\* The argument of an option is a text of the command line.
LEMMA ArgFacts ==
    ASSUME NEW argv \in Seq(Argument), NEW opt, HasArg(argv, opt)
    PROVE  Arg(argv, opt) \in Texts
<1>1. DOMAIN argv = 1..Len(argv) /\ Len(argv) \in Nat
  OBVIOUS
<1>4. Given(argv, opt)
  BY DEF HasArg
<1>5. First(argv, opt) \in DOMAIN argv
  BY <1>4, FirstGiven
<1>6. \A i \in DOMAIN argv : argv[i].text \in Texts
  <2>1. \A i \in DOMAIN argv : argv[i] \in Argument
    BY <1>1
  <2>2. \A arg \in Argument : arg.text \in Texts
    BY DEF Argument
  <2> QED BY <2>1, <2>2
<1>7. CASE argv[First(argv, opt)].style # "bare"
  BY <1>5, <1>6, <1>7 DEF Arg
<1>8. CASE argv[First(argv, opt)].style = "bare"
  <2>1. TakesNext(argv, First(argv, opt))
    BY <1>8 DEF HasArg
  <2>2. First(argv, opt) + 1 \in DOMAIN argv
    BY <1>1, <1>5, <2>1 DEF TakesNext
  <2> QED BY <1>6, <1>8, <2>2 DEF Arg
<1> QED BY <1>7, <1>8

LEMMA ValueIsNat == \A text \in Texts : Value(text) \in Nat
  BY DEF Texts, Value, NoDigits

\* A limit that is in force was asked for.
LEMMA LimitsAreAsked ==
    ASSUME Argv \in Seq(Argument), IsFile(Loaded), config = Effective(Loaded, Argv), HasLimit(config)
    PROVE  LimitAsked
<1>1. CASE config.maxDuration > 0
  <2>1. config.maxDuration = Override(Argv, "duration", Get(Loaded, "max_duration", 0))
    BY EffectiveFacts DEF FileConfig
  <2>2. CASE HasArg(Argv, "duration")
    <3>1. Value(Arg(Argv, "duration")) \in Nat
      BY <2>2, ArgFacts, ValueIsNat
    <3>2. config.maxDuration = ParseDuration(Arg(Argv, "duration"))
      BY <2>1, <2>2 DEF Override, Parse
    <3>3. Value(Arg(Argv, "duration")) > 0
      BY <1>1, <3>1, <3>2 DEF ParseDuration
    <3> QED BY <2>2, <3>3 DEF LimitAsked, AskedAmount
  <2>3. CASE ~HasArg(Argv, "duration")
    <3>1. config.maxDuration = Get(Loaded, "max_duration", 0)
      BY <2>1, <2>3 DEF Override
    <3> QED BY <1>1, <2>3, <3>1 DEF LimitAsked, AskedAmount, Get
  <2> QED BY <2>2, <2>3
<1>2. CASE config.maxSize > 0
  <2>1. config.maxSize = Override(Argv, "size", Megabytes(Get(Loaded, "max_file_size", 0)))
    BY EffectiveFacts DEF FileConfig
  <2>2. CASE HasArg(Argv, "size")
    <3> DEFINE v == Value(Arg(Argv, "size"))
    <3>1. v \in Nat
      BY <2>2, ArgFacts, ValueIsNat
    <3>2. config.maxSize = ParseSize(Arg(Argv, "size"))
      BY <2>1, <2>2 DEF Override, Parse
    <3>3. config.maxSize \in {v * Kilo * Kilo * Kilo, v * Kilo, v * Kilo * Kilo}
      BY <3>2 DEF ParseSize
    <3> HIDE DEF v
    <3>4. v # 0
      <4>1. 0 * Kilo = 0 /\ 0 * Kilo * Kilo = 0 /\ 0 * Kilo * Kilo * Kilo = 0
        BY OptionsAssumption DEF OptionsAssumption
      <4> QED BY <1>2, <3>3, <4>1
    <3> QED BY <2>2, <3>1, <3>4 DEF LimitAsked, AskedAmount, v
  <2>3. CASE ~HasArg(Argv, "size")
    <3> DEFINE n == Get(Loaded, "max_file_size", 0)
    <3>1. config.maxSize = Megabytes(n)
      BY <2>1, <2>3 DEF Override
    <3>2. n \in Nat
      BY DEF Get, IsFile
    <3> HIDE DEF n
    <3>3. Megabytes(0) = 0
      BY OptionsAssumption DEF OptionsAssumption, Megabytes
    <3>4. n > 0
      BY <1>2, <3>1, <3>2, <3>3
    <3>5. "max_file_size" \in DOMAIN Loaded /\ n = Loaded["max_file_size"]
      BY <3>4 DEF n, Get
    <3> QED BY <2>3, <3>4, <3>5 DEF LimitAsked, AskedAmount
  <2> QED BY <2>2, <2>3
<1> QED BY <1>1, <1>2 DEF HasLimit

\* The arguments and the file of a command are as the assumptions say.
LEMMA InputFacts ==
    ASSUME RecordTypeOK
    PROVE  Argv \in Seq(Argument) /\ IsFile(Loaded)
<1>1. IsFile(NoFile)
  BY DEF IsFile, NoFile
<1> QED BY <1>1, RecordAssumption DEF RecordTypeOK, RecordAssumption, Argv, Loaded

\* A recording that nobody stops ends by itself only if a duration or a size was asked
\* for, and one that splits only when it has no file to go on with.
THEOREM LimitsAlone == RecordSpec => []EndsByItselfOnlyAtALimit
<1>1. CommandInv => EndsByItselfOnlyAtALimit
  <2> SUFFICES ASSUME CommandInv, poll = "exit", ~stopCalled
               PROVE  LimitAsked /\ (SplitAsked => file = 0)
    BY DEF EndsByItselfOnlyAtALimit
  <2>1. HasLimit(config) /\ (config.split => file = 0)
    BY DEF CommandInv, LimitInv
  <2>2. command \notin {"options", "exited"}
    BY DEF CommandInv, ProgressInv, RecorderInv
  <2>3. config = Effective(Loaded, Argv)
    BY <2>2 DEF CommandInv, LimitInv
  <2>4. Argv \in Seq(Argument) /\ IsFile(Loaded)
    BY InputFacts DEF CommandInv
  <2>5. LimitAsked
    BY <2>1, <2>3, <2>4, LimitsAreAsked
  <2>6. config.split = (Get(Loaded, "split", FALSE) \/ Given(Argv, "split"))
    BY <2>3, EffectiveFacts, ZenonT(30) DEF FileConfig
  <2>7. SplitAsked => config.split
    BY <2>6 DEF SplitAsked, Get
  <2> QED BY <2>1, <2>5, <2>7
<1> QED BY <1>1, CommandInduction, PTL

-----------------------------------------------------------------------------
(* The configuration file and the command line.                            *)

\* Which options decide a setting.
LEMMA DecidedFacts ==
    ASSUME NEW argv
    PROVE  /\ "domain" \in Decided(argv) <=> HasArg(argv, "domain")
           /\ "prefix" \in Decided(argv) <=> HasArg(argv, "output") \/ HasArg(argv, "output_name")
           /\ "appendDate" \in Decided(argv) <=> HasArg(argv, "output") \/ HasArg(argv, "output_name")
           /\ "maxSize" \in Decided(argv) <=> HasArg(argv, "size")
           /\ "maxDuration" \in Decided(argv) <=> HasArg(argv, "duration")
           /\ "split" \in Decided(argv) <=> Given(argv, "split")
           /\ "maxSplits" \in Decided(argv) <=> HasArg(argv, "max_splits")
           /\ "minSpace" \in Decided(argv) <=> HasArg(argv, "min_space")
           /\ "compress" \in Decided(argv) <=>
                 Given(argv, "zstd") \/ Given(argv, "lz4") \/ Given(argv, "no_compression")
           /\ "compression" \in Decided(argv) <=> Given(argv, "zstd") \/ Given(argv, "lz4")
<1> DEFINE By(key) == {opt \in Takes \cup Flags : key \in Decides(opt)}
           On == {opt \in Takes : HasArg(argv, opt)} \cup {opt \in Flags : Given(argv, opt)}
<1>1. \A key : key \in Decided(argv) <=> \E opt \in By(key) : opt \in On
  BY DEF Decided
<1>2. /\ By("domain") = {"domain"}
      /\ By("prefix") = {"output", "output_name"}
      /\ By("appendDate") = {"output", "output_name"}
      /\ By("maxSize") = {"size"}
      /\ By("maxDuration") = {"duration"}
  BY DEF Takes, Flags, Decides
<1>3. /\ By("split") = {"split"}
      /\ By("maxSplits") = {"max_splits"}
      /\ By("minSpace") = {"min_space"}
      /\ By("compress") = {"zstd", "lz4", "no_compression"}
      /\ By("compression") = {"zstd", "lz4"}
  BY DEF Takes, Flags, Decides
<1> HIDE DEF By
<1>4. /\ \A opt \in {"domain", "output", "output_name", "size", "duration", "max_splits", "min_space"} :
            opt \in On <=> HasArg(argv, opt)
      /\ \A opt \in {"split", "zstd", "lz4", "no_compression"} : opt \in On <=> Given(argv, opt)
  <2>1. \A opt \in Takes : opt \notin Flags
    BY DEF Takes, Flags
  <2>2. /\ {"domain", "output", "output_name", "size", "duration", "max_splits", "min_space"} \subseteq Takes
        /\ {"split", "zstd", "lz4", "no_compression"} \subseteq Flags
    BY DEF Takes, Flags
  <2> QED BY <2>1, <2>2, Zenon
<1> HIDE DEF On
<1>5. /\ "domain" \in Decided(argv) <=> HasArg(argv, "domain")
      /\ "prefix" \in Decided(argv) <=> HasArg(argv, "output") \/ HasArg(argv, "output_name")
      /\ "appendDate" \in Decided(argv) <=> HasArg(argv, "output") \/ HasArg(argv, "output_name")
      /\ "maxSize" \in Decided(argv) <=> HasArg(argv, "size")
      /\ "maxDuration" \in Decided(argv) <=> HasArg(argv, "duration")
  BY <1>1, <1>2, <1>4
<1>6. /\ "split" \in Decided(argv) <=> Given(argv, "split")
      /\ "maxSplits" \in Decided(argv) <=> HasArg(argv, "max_splits")
      /\ "minSpace" \in Decided(argv) <=> HasArg(argv, "min_space")
      /\ "compress" \in Decided(argv) <=>
            Given(argv, "zstd") \/ Given(argv, "lz4") \/ Given(argv, "no_compression")
      /\ "compression" \in Decided(argv) <=> Given(argv, "zstd") \/ Given(argv, "lz4")
  BY <1>1, <1>3, <1>4
<1> QED BY <1>5, <1>6

\* A setting that an option decides is the same for any two files; -o alone decides no date.
LEMMA DecidedByOptions ==
    ASSUME NEW f, NEW g, NEW argv, NEW key \in Keys \ {"filter"}, key \in Decided(argv),
           key = "appendDate" => HasArg(argv, "output_name")
    PROVE  Effective(f, argv)[key] = Effective(g, argv)[key]
<1> DEFINE a == Effective(f, argv)
           b == Effective(g, argv)
<1> HIDE DEF a, b
<1>1. CASE key \in {"domain", "maxSize", "maxDuration", "maxSplits", "minSpace"}
  <2>1. HasArg(argv, "domain") => a.domain = b.domain
    BY EffectiveFacts DEF Override, a, b
  <2>2. HasArg(argv, "size") => a.maxSize = b.maxSize
    BY EffectiveFacts DEF Override, a, b
  <2>3. HasArg(argv, "duration") => a.maxDuration = b.maxDuration
    BY EffectiveFacts DEF Override, a, b
  <2>4. HasArg(argv, "max_splits") => a.maxSplits = b.maxSplits
    BY EffectiveFacts DEF Override, a, b
  <2>5. HasArg(argv, "min_space") => a.minSpace = b.minSpace
    BY EffectiveFacts DEF Override, a, b
  <2> QED BY <1>1, <2>1, <2>2, <2>3, <2>4, <2>5, DecidedFacts DEF a, b
<1>2. CASE key = "prefix"
  <2>1. HasArg(argv, "output") \/ HasArg(argv, "output_name") => a.prefix = b.prefix
    BY EffectiveFacts DEF Override, a, b
  <2> QED BY <1>2, <2>1, DecidedFacts DEF a, b
<1>3. CASE key \in {"appendDate", "split"}
  <2>1. HasArg(argv, "output_name") => a.appendDate = b.appendDate
    BY EffectiveFacts DEF a, b
  <2>2. Given(argv, "split") => a.split = b.split
    BY EffectiveFacts DEF a, b
  <2> QED BY <1>3, <2>1, <2>2, DecidedFacts DEF a, b
<1>4. CASE key \in {"compress", "compression"}
  <2>1. Given(argv, "zstd") \/ Given(argv, "lz4") \/ Given(argv, "no_compression")
           => a.compress = b.compress
    BY EffectiveFacts DEF a, b
  <2>2. Given(argv, "zstd") \/ Given(argv, "lz4") => a.compression = b.compression
    BY EffectiveFacts DEF a, b
  <2> QED BY <1>4, <2>1, <2>2, DecidedFacts DEF a, b
<1> QED BY <1>1, <1>2, <1>3, <1>4 DEF Keys

\* A setting that no option decides is as the file has it.
LEMMA DecidedByFile ==
    ASSUME NEW f, IsFile(f), NEW argv, NEW key \in Keys \ {"filter"}, key \notin Decided(argv)
    PROVE  Effective(f, argv)[key] = FileConfig(f)[key]
<1> DEFINE a == Effective(f, argv)
           b == FileConfig(f)
<1> HIDE DEF a, b
<1>1. CASE key \in {"domain", "maxSize", "maxDuration", "maxSplits", "minSpace"}
  <2>1. ~HasArg(argv, "domain") => a.domain = b.domain
    BY EffectiveFacts DEF Override, a, b
  <2>2. ~HasArg(argv, "size") => a.maxSize = b.maxSize
    BY EffectiveFacts DEF Override, a, b
  <2>3. ~HasArg(argv, "duration") => a.maxDuration = b.maxDuration
    BY EffectiveFacts DEF Override, a, b
  <2>4. ~HasArg(argv, "max_splits") => a.maxSplits = b.maxSplits
    BY EffectiveFacts DEF Override, a, b
  <2>5. ~HasArg(argv, "min_space") => a.minSpace = b.minSpace
    BY EffectiveFacts DEF Override, a, b
  <2> QED BY <1>1, <2>1, <2>2, <2>3, <2>4, <2>5, DecidedFacts DEF a, b
<1>2. CASE key \in {"prefix", "compression"}
  <2>1. ~HasArg(argv, "output") /\ ~HasArg(argv, "output_name") => a.prefix = b.prefix
    BY EffectiveFacts DEF Override, a, b
  <2>2. ~Given(argv, "zstd") /\ ~Given(argv, "lz4") => a.compression = b.compression
    BY EffectiveFacts DEF a, b
  <2> QED BY <1>2, <2>1, <2>2, DecidedFacts DEF a, b
<1>3. CASE key \in {"appendDate", "split", "compress"}
  <2>1. b.appendDate \in BOOLEAN /\ b.split \in BOOLEAN /\ b.compress \in BOOLEAN
    BY DEF FileConfig, Get, IsFile, b
  <2>2. ~HasArg(argv, "output_name") => a.appendDate = b.appendDate
    <3>1. a.appendDate = (b.appendDate /\ ~HasArg(argv, "output_name"))
      BY EffectiveFacts DEF a, b
    <3> QED BY <2>1, <3>1, Zenon
  <2>3. ~Given(argv, "split") => a.split = b.split
    BY <2>1, EffectiveFacts DEF a, b
  <2>4. ~Given(argv, "zstd") /\ ~Given(argv, "lz4") /\ ~Given(argv, "no_compression")
           => a.compress = b.compress
    BY <2>1, EffectiveFacts, ZenonT(30) DEF a, b
  <2> QED BY <1>3, <2>2, <2>3, <2>4, DecidedFacts DEF a, b
<1> QED BY <1>1, <1>2, <1>3 DEF Keys

\* What an option decides by the usage text does not depend on the configuration file, but
\* for the date that -o asks for, and what no option decides is as in the file: for every
\* file and every command line.
THEOREM OptionsOverrideTheFile == RecordSpec => []CommandLineOverridesFile
<1>1. CommandInv => CommandLineOverridesFile
  <2> SUFFICES ASSUME CommandInv, command \notin {"options", "exited"},
                      NEW key \in DOMAIN config \ ({"filter"} \cup Disputed)
               PROVE  IF key \in Decided(Argv)
                      THEN \A n \in DOMAIN ConfigFiles :
                              config[key] = Effective(ConfigFiles[n], Argv)[key]
                      ELSE config[key] = FileConfig(Loaded)[key]
    BY DEF CommandLineOverridesFile
  <2>1. config = Effective(Loaded, Argv)
    BY DEF CommandInv, LimitInv
  <2>2. key \in Keys \ {"filter"}
    BY <2>1, EffectiveFacts
  <2>3. IsFile(Loaded)
    BY InputFacts DEF CommandInv
  <2>4. CASE key \in Decided(Argv)
    <3>1. key = "appendDate" => HasArg(Argv, "output_name")
      BY <2>4, DecidedFacts DEF Disputed
    <3> QED BY <2>1, <2>2, <2>4, <3>1, DecidedByOptions
  <2>5. CASE key \notin Decided(Argv)
    BY <2>1, <2>2, <2>3, <2>5, DecidedByFile
  <2> QED BY <2>4, <2>5
<1> QED BY <1>1, CommandInduction, PTL

-----------------------------------------------------------------------------
(* The scan for topics and the filter.                                     *)

SkipStep(argv, f, i) == i > 1 /\ ~f[i - 1] /\ SkipsNext(argv[i - 1])

\* The recursive function of the scan exists.
LEMMA SkippedExists ==
    ASSUME NEW argv \in Seq(Argument)
    PROVE  \A n \in 0..Len(argv) : \E f : f = [i \in 0..n |-> SkipStep(argv, f, i)]
<1> DEFINE G == {n \in 0..Len(argv) : \E f : f = [i \in 0..n |-> SkipStep(argv, f, i)]}
<1>1. 0 \in G
  <2> DEFINE f == [i \in 0..0 |-> FALSE]
  <2>1. f = [i \in 0..0 |-> SkipStep(argv, f, i)]
    <3>1. \A i \in 0..0 : ~(i > 1)
      OBVIOUS
    <3>2. \A i \in 0..0 : SkipStep(argv, f, i) = FALSE
      BY <3>1, Zenon DEF SkipStep
    <3> QED BY <3>2, Zenon
  <2>2. 0 \in 0..Len(argv)
    OBVIOUS
  <2> QED BY <2>1, <2>2
<1>2. ASSUME NEW n \in 1..Len(argv), n - 1 \in G
      PROVE  n \in G
  <2>1. PICK h : h = [i \in 0..(n - 1) |-> SkipStep(argv, h, i)]
    BY <1>2
  <2> DEFINE f == [i \in 0..n |-> IF i = n THEN SkipStep(argv, h, n) ELSE h[i]]
  <2>2. ASSUME NEW i \in 0..n PROVE f[i] = SkipStep(argv, f, i)
    <3>1. i > 1 => f[i - 1] = h[i - 1]
      OBVIOUS
    <3>2. CASE i = n
      <4>1. f[i] = SkipStep(argv, h, i)
        BY <3>2
      <4>2. SkipStep(argv, f, i) = SkipStep(argv, h, i)
        BY <3>1, Zenon DEF SkipStep
      <4> QED BY <4>1, <4>2
    <3>3. CASE i # n
      <4>1. i \in 0..(n - 1) /\ f[i] = h[i]
        BY <3>3
      <4>2. h[i] = SkipStep(argv, h, i)
        BY <2>1, <4>1
      <4>3. SkipStep(argv, f, i) = SkipStep(argv, h, i)
        BY <3>1, Zenon DEF SkipStep
      <4> QED BY <4>1, <4>2, <4>3
    <3> QED BY <3>2, <3>3
  <2>3. f = [i \in 0..n |-> SkipStep(argv, f, i)]
    BY <2>2
  <2>4. n \in 0..Len(argv)
    OBVIOUS
  <2> QED BY <2>3, <2>4
<1>3. Len(argv) \in Nat
  OBVIOUS
<1> HIDE DEF G
<1>4. 0..Len(argv) \subseteq G
  BY <1>1, <1>2, <1>3, InductionUpTo
<1> QED BY <1>4 DEF G

\* What the scan computes, argument by argument.
LEMMA SkippedRecursion ==
    ASSUME NEW argv \in Seq(Argument), NEW i \in 1..Len(argv)
    PROVE  Skipped(argv)[i] <=> i > 1 /\ ~Skipped(argv)[i - 1] /\ SkipsNext(argv[i - 1])
<1> DEFINE f == Skipped(argv)
<1>1. \E g : g = [k \in 0..Len(argv) |-> SkipStep(argv, g, k)]
  BY SkippedExists
<1>2. f = CHOOSE g : g = [k \in 0..Len(argv) |-> SkipStep(argv, g, k)]
  BY DEF Skipped, SkipStep
<1>3. f = [k \in 0..Len(argv) |-> SkipStep(argv, f, k)]
  BY <1>1, <1>2
<1> HIDE DEF f
<1>4. f[i] = SkipStep(argv, f, i)
  BY <1>3
<1> QED BY <1>4 DEF SkipStep, f

\* On a command line that keeps to the usage text the scan passes over the arguments that
\* the option parser takes, and over no others.
LEMMA SkippedAreTaken ==
    ASSUME NEW argv \in Seq(Argument), Regular(argv)
    PROVE  \A i \in 1..Len(argv) : Skipped(argv)[i] <=> i > 1 /\ TakesNext(argv, i - 1)
<1> DEFINE Good(i) == Skipped(argv)[i] <=> i > 1 /\ TakesNext(argv, i - 1)
           G == {0} \cup {i \in 1..Len(argv) : Good(i)}
<1>1. \A i \in 1..(Len(argv) - 1) : SkipsNext(argv[i]) <=> TakesNext(argv, i)
  BY DEF Regular, SkipsNext, TakesNext, IsOption, Takes, Flags
<1>2. ASSUME NEW i \in 1..Len(argv), i - 1 \in G
      PROVE  i \in G
  <2>1. CASE i = 1
    <3>1. ~Skipped(argv)[i]
      BY <2>1, SkippedRecursion
    <3> QED BY <2>1, <3>1
  <2>2. CASE i > 1
    <3>1. Skipped(argv)[i] <=> ~Skipped(argv)[i - 1] /\ SkipsNext(argv[i - 1])
      BY <2>2, SkippedRecursion
    <3>2. i - 1 \in 1..(Len(argv) - 1) /\ Good(i - 1)
      BY <1>2, <2>2
    <3>3. Skipped(argv)[i - 1] => ~TakesNext(argv, i - 1)
      <4> SUFFICES ASSUME Skipped(argv)[i - 1] PROVE ~TakesNext(argv, i - 1)
        OBVIOUS
      <4>1. i - 1 > 1 /\ TakesNext(argv, (i - 1) - 1)
        BY <3>2
      <4>2. ~IsOption(argv[((i - 1) - 1) + 1])
        BY <4>1 DEF TakesNext
      <4>3. ((i - 1) - 1) + 1 = i - 1
        OBVIOUS
      <4>4. ~IsOption(argv[i - 1])
        BY <4>2, <4>3
      <4> QED BY <4>4 DEF TakesNext, IsOption, Takes
    <3>4. SkipsNext(argv[i - 1]) <=> TakesNext(argv, i - 1)
      BY <1>1, <3>2
    <3>5. Good(i)
      BY <2>2, <3>1, <3>3, <3>4, Zenon
    <3> QED BY <3>5
  <2> QED BY <2>1, <2>2
<1>3. Len(argv) \in Nat /\ 0 \in G
  OBVIOUS
<1> HIDE DEF G
<1>4. 0..Len(argv) \subseteq G
  BY <1>2, <1>3, InductionUpTo
<1>5. \A i \in 1..Len(argv) : i \in 0..Len(argv) /\ i # 0
  BY <1>3
<1> QED BY <1>4, <1>5 DEF G

\* The topics that execute() finds are the words that belong to no option.
LEMMA CliTopicsFacts ==
    ASSUME NEW argv \in Seq(Argument), Regular(argv)
    PROVE  /\ CliTopics(argv) = <<>> <=> TopicArguments(argv) = {}
           /\ \A t : (\E k \in DOMAIN CliTopics(argv) : CliTopics(argv)[k] = t)
                        <=> t \in TopicArguments(argv)
<1> DEFINE places == [i \in DOMAIN argv |-> i]
           words == {i \in DOMAIN argv : argv[i].opt = "word" /\ ~Skipped(argv)[i]}
           found == Selected(places, words)
           topics == CliTopics(argv)
<1>1. DOMAIN argv = 1..Len(argv) /\ Len(argv) \in Nat
  OBVIOUS
<1>2. places \in Seq(Nat) /\ Len(places) = Len(argv)
  BY <1>1
<1>3. words = {i \in DOMAIN argv : argv[i].opt = "word" /\ ~(i > 1 /\ TakesNext(argv, i - 1))}
  BY <1>1, SkippedAreTaken
<1>4. TopicArguments(argv) = {argv[i].text : i \in words}
  BY <1>3 DEF TopicArguments
<1>5. topics = [k \in DOMAIN found |-> argv[found[k]].text]
  BY DEF CliTopics
<1> HIDE DEF topics, found
<1>6. /\ found \in Seq(Nat)
      /\ \A x : Among(x, found, Len(found)) <=> x \in words /\ Among(x, places, Len(places))
  BY <1>2, SelectedElements DEF found
<1>7. \A x \in words : Among(x, places, Len(places))
  <2> SUFFICES ASSUME NEW x \in words PROVE Among(x, places, Len(places))
    OBVIOUS
  <2>1. x \in 1..Len(places) /\ places[x] = x
    BY <1>1, <1>2
  <2> QED BY <2>1 DEF Among
<1> HIDE DEF words, places
<1>8. \A x : (\E k \in DOMAIN found : found[k] = x) <=> x \in words
  BY <1>6, <1>7 DEF Among
<1>9. DOMAIN topics = DOMAIN found /\ \A k \in DOMAIN found : topics[k] = argv[found[k]].text
  BY <1>5
<1>10. \A t : (\E k \in DOMAIN topics : topics[k] = t) <=> t \in TopicArguments(argv)
  BY <1>4, <1>8, <1>9
<1>11. topics = <<>> <=> DOMAIN topics = {}
  BY <1>5, <1>6
<1> QED BY <1>10, <1>11 DEF topics

\* What becomes of the filter.
LEMMA FilterFacts ==
    ASSUME NEW argv, NEW base, base.exclude = NoText, DOMAIN base = {"topics", "useRegex", "exclude"}
    PROVE  LET made == FilterFor(argv, base)
           IN  /\ made.topics = IF Given(argv, "all") THEN <<>>
                                ELSE IF CliTopics(argv) # <<>> THEN CliTopics(argv)
                                ELSE base.topics
               /\ ~Given(argv, "all") /\ Given(argv, "regex") => made.useRegex = TRUE
               /\ ~Given(argv, "all") /\ ~Given(argv, "regex") =>
                     made.useRegex = IF CliTopics(argv) # <<>> THEN FALSE ELSE base.useRegex
               /\ made.exclude = IF HasArg(argv, "exclude") THEN Arg(argv, "exclude") ELSE NoText
<1> DEFINE chosen == IF Given(argv, "all") THEN EmptyFilter
                     ELSE IF CliTopics(argv) # <<>> THEN [EmptyFilter EXCEPT !.topics = CliTopics(argv)]
                     ELSE base
           with == IF Given(argv, "regex") /\ ~Given(argv, "all")
                   THEN [chosen EXCEPT !.useRegex = TRUE] ELSE chosen
           made == IF HasArg(argv, "exclude")
                   THEN [with EXCEPT !.exclude = Arg(argv, "exclude")] ELSE with
<1>1. made = FilterFor(argv, base)
  BY DEF FilterFor, WithTopics
<1>2. /\ DOMAIN chosen = {"topics", "useRegex", "exclude"}
      /\ chosen.exclude = NoText
      /\ chosen.topics = IF Given(argv, "all") THEN <<>>
                         ELSE IF CliTopics(argv) # <<>> THEN CliTopics(argv)
                         ELSE base.topics
      /\ ~Given(argv, "all") =>
            chosen.useRegex = IF CliTopics(argv) # <<>> THEN FALSE ELSE base.useRegex
  BY DEF EmptyFilter
<1> HIDE DEF chosen
<1>3. /\ DOMAIN with = {"topics", "useRegex", "exclude"}
      /\ with.exclude = NoText /\ with.topics = chosen.topics
      /\ ~Given(argv, "all") /\ Given(argv, "regex") => with.useRegex = TRUE
      /\ ~Given(argv, "all") /\ ~Given(argv, "regex") => with.useRegex = chosen.useRegex
  BY <1>2
<1> HIDE DEF with
<1>4. /\ made.topics = with.topics /\ made.useRegex = with.useRegex
      /\ made.exclude = IF HasArg(argv, "exclude") THEN Arg(argv, "exclude") ELSE NoText
  BY <1>3
<1> QED BY <1>1, <1>2, <1>3, <1>4

\* The filter of a command line that keeps to the usage text passes the topics asked for.
LEMMA FilterAsAsked ==
    ASSUME NEW argv \in Seq(Argument), Regular(argv), NEW f, IsFile(f), NEW topic \in Topics
    PROVE  Matches(FilterFor(argv, FileFilter(f)), topic) <=> Asked(f, argv, topic)
<1> DEFINE base  == FileFilter(f)
           made  == FilterFor(argv, base)
           named == TopicArguments(argv)
           listed == IF named = {} /\ "topics" \in DOMAIN f
                     THEN {f.topics[i] : i \in DOMAIN f.topics} ELSE named
           regex == \/ Given(argv, "regex")
                    \/ named = {} /\ "use_regex" \in DOMAIN f /\ f.use_regex
           Meets(pattern) == IF regex THEN topic \in MatchedBy(pattern) ELSE topic = pattern
<1>1. /\ base.topics = IF "topics" \in DOMAIN f THEN f["topics"] ELSE <<>>
      /\ base.useRegex = IF "use_regex" \in DOMAIN f THEN f["use_regex"] ELSE FALSE
      /\ base.exclude = NoText
      /\ DOMAIN base = {"topics", "useRegex", "exclude"}
  BY DEF FileFilter, EmptyFilter, Get
<1>2. /\ "topics" \in DOMAIN f => f["topics"] \in Seq(Texts)
      /\ "use_regex" \in DOMAIN f => f["use_regex"] \in BOOLEAN
  BY DEF IsFile
<1> HIDE DEF base
<1>3. /\ made.topics = IF Given(argv, "all") THEN <<>>
                       ELSE IF CliTopics(argv) # <<>> THEN CliTopics(argv)
                       ELSE base.topics
      /\ ~Given(argv, "all") /\ Given(argv, "regex") => made.useRegex = TRUE
      /\ ~Given(argv, "all") /\ ~Given(argv, "regex") =>
            made.useRegex = IF CliTopics(argv) # <<>> THEN FALSE ELSE base.useRegex
      /\ made.exclude = IF HasArg(argv, "exclude") THEN Arg(argv, "exclude") ELSE NoText
  BY <1>1, FilterFacts
<1> HIDE DEF made
<1>4. CliTopics(argv) = <<>> <=> named = {}
  BY CliTopicsFacts
<1>5. ~Excluded(made, topic) <=>
          (HasArg(argv, "exclude") => topic \notin MatchedBy(Arg(argv, "exclude")))
  <2>1. topic \notin MatchedBy(NoText)
    BY OptionsAssumption DEF OptionsAssumption
  <2>2. Excluded(made, topic) <=> topic \in MatchedBy(made.exclude)
    BY <2>1, Zenon DEF Excluded
  <2> QED BY <1>3, <2>1, <2>2, Zenon
<1>6. ASSUME ~Given(argv, "all")
      PROVE  /\ made.useRegex <=> regex
             /\ made.topics = <<>> <=> listed = {}
             /\ \A t : (\E i \in DOMAIN made.topics : made.topics[i] = t) <=> t \in listed
  <2>1. made.useRegex <=> regex
    BY <1>1, <1>2, <1>3, <1>4, <1>6
  <2>2. CASE named # {}
    <3>1. made.topics = CliTopics(argv) /\ listed = named
      BY <1>3, <1>4, <1>6, <2>2
    <3> QED BY <1>4, <2>1, <3>1, CliTopicsFacts
  <2>3. CASE named = {} /\ "topics" \in DOMAIN f
    <3>1. made.topics = f["topics"]
      BY <1>1, <1>3, <1>4, <1>6, <2>3
    <3>2. listed = {f["topics"][i] : i \in DOMAIN f["topics"]}
      BY <2>3
    <3>3. f["topics"] = <<>> <=> DOMAIN f["topics"] = {}
      BY <1>2, <2>3
    <3> QED BY <2>1, <3>1, <3>2, <3>3
  <2>4. CASE named = {} /\ "topics" \notin DOMAIN f
    <3>1. made.topics = <<>> /\ listed = {}
      BY <1>1, <1>3, <1>4, <1>6, <2>4
    <3>2. DOMAIN made.topics = {}
      BY <3>1
    <3> QED BY <2>1, <3>1, <3>2, Zenon
  <2> QED BY <2>2, <2>3, <2>4
<1>7. Asked(f, argv, topic) <=>
          /\ HasArg(argv, "exclude") => topic \notin MatchedBy(Arg(argv, "exclude"))
          /\ Given(argv, "all") \/ listed = {} \/ \E pattern \in listed : Meets(pattern)
  BY Zenon DEF Asked
<1>8. CASE Given(argv, "all")
  <2>1. made.topics = <<>>
    BY <1>3, <1>8
  <2> QED BY <1>5, <1>7, <1>8, <2>1 DEF Matches, made, base
<1>9. CASE ~Given(argv, "all")
  <2>1. /\ made.useRegex <=> regex
        /\ made.topics = <<>> <=> listed = {}
        /\ \A t : (\E i \in DOMAIN made.topics : made.topics[i] = t) <=> t \in listed
    BY <1>6, <1>9
  <2> HIDE DEF regex, listed
  <2>2. \A i : Hits(made, topic, i) <=> Meets(made.topics[i])
    BY <2>1 DEF Hits
  <2>3. (\E i \in DOMAIN made.topics : Hits(made, topic, i)) <=> \E pattern \in listed : Meets(pattern)
    BY <2>1, <2>2
  <2>4. Matches(made, topic) <=> Asked(f, argv, topic)
    BY <1>5, <1>7, <1>9, <2>1, <2>3, Zenon DEF Matches
  <2> QED BY <2>4 DEF made, base
<1> QED BY <1>8, <1>9

\* On every command line that keeps to the usage text, with any configuration file,
\* exactly the topics it asks for pass the filter.
THEOREM TheTopicsAskedFor == RecordSpec => []RecordsTheTopicsAsked
<1>1. CommandInv => RecordsTheTopicsAsked
  <2> SUFFICES ASSUME CommandInv, command \notin {"options", "exited"}, Regular(Argv),
                      NEW topic \in Topics
               PROVE  Matches(config.filter, topic) <=> Asked(Loaded, Argv, topic)
    BY DEF RecordsTheTopicsAsked
  <2>1. config = Effective(Loaded, Argv)
    BY DEF CommandInv, LimitInv
  <2>2. config.filter = FilterFor(Argv, FileFilter(Loaded))
    BY <2>1, EffectiveFacts
  <2>3. Argv \in Seq(Argument) /\ IsFile(Loaded)
    BY InputFacts DEF CommandInv
  <2> QED BY <2>2, <2>3, FilterAsAsked
<1> QED BY <1>1, CommandInduction, PTL
=============================================================================
