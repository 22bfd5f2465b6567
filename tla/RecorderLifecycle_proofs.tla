---------------------- MODULE RecorderLifecycle_proofs ----------------------
(***************************************************************************)
(* What TLAPS proves about RecorderLifecycle for all sets of waiters and   *)
(* togglers, every bound on the starts and every configuration.            *)
(***************************************************************************)
EXTENDS RecorderLifecycle, TLAPS

FlagsOK ==
    /\ pollingActive \in BOOLEAN
    /\ pollingThread \in BOOLEAN
    /\ discRunning \in BOOLEAN
    /\ stopCalled \in BOOLEAN
    /\ terminated \in BOOLEAN

\* The flags of the recorder stay Boolean in every step.
LEMMA FlagsStep ==
    ASSUME TypeOK, [Next]_vars
    PROVE  FlagsOK'
<1> USE Zenon DEF TypeOK, FlagsOK, callerVars, pollVars, discVars, waitVars
<1>1. CASE StartCall
  BY <1>1 DEF StartCall
<1>2. CASE StartOpen
  BY <1>2 DEF StartOpen
<1>3. CASE StartDiscovery
  BY <1>3 DEF StartDiscovery
<1>4. CASE StartPolling
  BY <1>4 DEF StartPolling
<1>5. CASE StartRunning
  BY <1>5 DEF StartRunning
<1>6. CASE StartLock
  BY <1>6 DEF StartLock, TakeCallbackMutex
<1>7. CASE StartUnlock
  BY <1>7 DEF StartUnlock, ReleaseCallbackMutex
<1>8. CASE StopCall
  BY <1>8 DEF StopCall
<1>9. CASE StopJoin
  BY <1>9 DEF StopJoin
<1>10. CASE StopCheck
  BY <1>10 DEF StopCheck
<1>11. CASE StopSet
  BY <1>11 DEF StopSet
<1>12. CASE StopLock
  BY <1>12 DEF StopLock, TakeCallbackMutex
<1>13. CASE StopUnlock
  BY <1>13 DEF StopUnlock, ReleaseCallbackMutex
<1>14. CASE StopDiscovery
  BY <1>14 DEF StopDiscovery
<1>15. CASE StopDiscoveryJoin
  BY <1>15 DEF StopDiscoveryJoin
<1>16. CASE StopClose
  BY <1>16 DEF StopClose
<1>17. CASE StopNotify
  BY <1>17 DEF StopNotify, NotifyAll
<1>18. CASE PollLoop
  BY <1>18 DEF PollLoop, PollGoto
<1>19. CASE PollGate
  BY <1>19 DEF PollGate, PollGoto
<1>20. CASE PollTake
  BY <1>20 DEF PollTake, PollGoto
<1>21. CASE PollLimits
  BY <1>21 DEF PollLimits, PollGoto
<1>22. CASE ReopenClose
  BY <1>22 DEF ReopenClose, PollGoto
<1>23. CASE ReopenOpen
  BY <1>23 DEF ReopenOpen, PollGoto
<1>24. CASE PollExit
  BY <1>24 DEF PollExit, PollGoto
<1>25. CASE FinishDiscovery
  BY <1>25 DEF FinishDiscovery, PollGoto
<1>26. CASE FinishDiscoveryJoin
  BY <1>26 DEF FinishDiscoveryJoin, PollGoto
<1>27. CASE FinishClose
  BY <1>27 DEF FinishClose, PollGoto
<1>28. CASE FinishSet
  BY <1>28 DEF FinishSet, PollGoto
<1>29. CASE FinishCallback
  BY <1>29 DEF FinishCallback, PollGoto
<1>30. CASE FinishNotify
  BY <1>30 DEF FinishNotify, NotifyAll
<1>31. CASE DiscCheck
  BY <1>31 DEF DiscCheck
<1>32. CASE DiscCallback
  BY <1>32 DEF DiscCallback
<1>33. ASSUME NEW w \in Waiters, WaitCall(w) PROVE FlagsOK'
  BY <1>33 DEF WaitCall, WaitGoto
<1>34. ASSUME NEW w \in Waiters, WaitLock(w) PROVE FlagsOK'
  BY <1>34 DEF WaitLock, WaitGoto
<1>35. ASSUME NEW w \in Waiters, WaitCheck(w) PROVE FlagsOK'
  BY <1>35 DEF WaitCheck, WaitGoto
<1>36. ASSUME NEW w \in Waiters, WaitBlock(w) PROVE FlagsOK'
  BY <1>36 DEF WaitBlock, WaitGoto
<1>37. ASSUME NEW w \in Waiters, WaitSpuriousWakeup(w) PROVE FlagsOK'
  BY <1>37 DEF WaitSpuriousWakeup, WaitGoto
<1>38. ASSUME NEW w \in Waiters, WaitTimeout(w) PROVE FlagsOK'
  BY <1>38 DEF WaitTimeout, WaitGoto
<1>39. ASSUME NEW t \in Togglers, PauseCall(t) PROVE FlagsOK'
  BY <1>39 DEF PauseCall
<1>40. ASSUME NEW t \in Togglers, PauseSet(t) PROVE FlagsOK'
  BY <1>40 DEF PauseSet
<1>41. ASSUME NEW t \in Togglers, ResumeCall(t) PROVE FlagsOK'
  BY <1>41 DEF ResumeCall
<1>42. ASSUME NEW t \in Togglers, ResumeSet(t) PROVE FlagsOK'
  BY <1>42 DEF ResumeSet
<1>43. ASSUME NEW t \in Togglers, ToggleCallback(t) PROVE FlagsOK'
  BY <1>43 DEF ToggleCallback
<1>44. CASE UNCHANGED vars
  BY <1>44 DEF vars
<1> QED
  BY <1>1, <1>2, <1>3, <1>4, <1>5, <1>6, <1>7, <1>8, <1>9, <1>10, <1>11, <1>12, <1>13,
     <1>14, <1>15, <1>16, <1>17, <1>18, <1>19, <1>20, <1>21, <1>22, <1>23, <1>24,
     <1>25, <1>26, <1>27, <1>28, <1>29, <1>30, <1>31, <1>32, <1>33, <1>34, <1>35,
     <1>36, <1>37, <1>38, <1>39, <1>40, <1>41, <1>42, <1>43, <1>44
  DEF Next, MainInCall, PollingThread, DiscoveryThread, Waiting, WaiterInCall,
      Toggling, ToggleInCall

\* Every step of every thread keeps every variable in its type.
LEMMA TypeStep ==
    ASSUME TypeOK, [Next]_vars
    PROVE  TypeOK'
<1> USE LifecycleAssumption, FlagsStep
    DEF LifecycleAssumption, TypeOK, FlagsOK, States, StartPC, StartedPC, StopPC, PollPC, WaitPC,
        callerVars, pollVars, discVars, waitVars
<1>1. CASE StartCall
  BY <1>1 DEF StartCall
<1>2. CASE StartOpen
  BY <1>2 DEF StartOpen
<1>3. CASE StartDiscovery
  BY <1>3 DEF StartDiscovery
<1>4. CASE StartPolling
  BY <1>4 DEF StartPolling
<1>5. CASE StartRunning
  BY <1>5 DEF StartRunning
<1>6. CASE StartLock
  BY <1>6 DEF StartLock, TakeCallbackMutex
<1>7. CASE StartUnlock
  BY <1>7 DEF StartUnlock, ReleaseCallbackMutex
<1>8. CASE StopCall
  BY <1>8 DEF StopCall
<1>9. CASE StopJoin
  BY <1>9 DEF StopJoin
<1>10. CASE StopCheck
  BY <1>10 DEF StopCheck
<1>11. CASE StopSet
  BY <1>11 DEF StopSet
<1>12. CASE StopLock
  BY <1>12 DEF StopLock, TakeCallbackMutex
<1>13. CASE StopUnlock
  BY <1>13 DEF StopUnlock, ReleaseCallbackMutex
<1>14. CASE StopDiscovery
  BY <1>14 DEF StopDiscovery
<1>15. CASE StopDiscoveryJoin
  BY <1>15 DEF StopDiscoveryJoin
<1>16. CASE StopClose
  BY <1>16 DEF StopClose
<1>17. CASE StopNotify
  BY <1>17 DEF StopNotify, NotifyAll
<1>18. CASE PollLoop
  BY <1>18 DEF PollLoop, PollGoto
<1>19. CASE PollGate
  BY <1>19 DEF PollGate, PollGoto
<1>20. CASE PollTake
  BY <1>20 DEF PollTake, PollGoto
<1>21. CASE PollLimits
  BY <1>21 DEF PollLimits, PollGoto
<1>22. CASE ReopenClose
  BY <1>22 DEF ReopenClose, PollGoto
<1>23. CASE ReopenOpen
  BY <1>23 DEF ReopenOpen, PollGoto
<1>24. CASE PollExit
  BY <1>24 DEF PollExit, PollGoto
<1>25. CASE FinishDiscovery
  BY <1>25 DEF FinishDiscovery, PollGoto
<1>26. CASE FinishDiscoveryJoin
  BY <1>26 DEF FinishDiscoveryJoin, PollGoto
<1>27. CASE FinishClose
  BY <1>27 DEF FinishClose, PollGoto
<1>28. CASE FinishSet
  BY <1>28 DEF FinishSet, PollGoto
<1>29. CASE FinishCallback
  BY <1>29 DEF FinishCallback, PollGoto
<1>30. CASE FinishNotify
  BY <1>30 DEF FinishNotify, NotifyAll
<1>31. CASE DiscCheck
  BY <1>31 DEF DiscCheck
<1>32. CASE DiscCallback
  BY <1>32 DEF DiscCallback
<1>33. ASSUME NEW w \in Waiters, WaitCall(w) PROVE TypeOK'
  BY <1>33 DEF WaitCall, WaitGoto
<1>34. ASSUME NEW w \in Waiters, WaitLock(w) PROVE TypeOK'
  BY <1>34 DEF WaitLock, WaitGoto
<1>35. ASSUME NEW w \in Waiters, WaitCheck(w) PROVE TypeOK'
  BY <1>35 DEF WaitCheck, WaitGoto
<1>36. ASSUME NEW w \in Waiters, WaitBlock(w) PROVE TypeOK'
  BY <1>36 DEF WaitBlock, WaitGoto
<1>37. ASSUME NEW w \in Waiters, WaitSpuriousWakeup(w) PROVE TypeOK'
  BY <1>37 DEF WaitSpuriousWakeup, WaitGoto
<1>38. ASSUME NEW w \in Waiters, WaitTimeout(w) PROVE TypeOK'
  BY <1>38 DEF WaitTimeout, WaitGoto
<1>39. ASSUME NEW t \in Togglers, PauseCall(t) PROVE TypeOK'
  BY <1>39 DEF PauseCall
<1>40. ASSUME NEW t \in Togglers, PauseSet(t) PROVE TypeOK'
  BY <1>40 DEF PauseSet
<1>41. ASSUME NEW t \in Togglers, ResumeCall(t) PROVE TypeOK'
  BY <1>41 DEF ResumeCall
<1>42. ASSUME NEW t \in Togglers, ResumeSet(t) PROVE TypeOK'
  BY <1>42 DEF ResumeSet
<1>43. ASSUME NEW t \in Togglers, ToggleCallback(t) PROVE TypeOK'
  BY <1>43 DEF ToggleCallback
<1>44. CASE UNCHANGED vars
  BY <1>44 DEF vars
<1> QED
  BY <1>1, <1>2, <1>3, <1>4, <1>5, <1>6, <1>7, <1>8, <1>9, <1>10, <1>11, <1>12, <1>13,
     <1>14, <1>15, <1>16, <1>17, <1>18, <1>19, <1>20, <1>21, <1>22, <1>23, <1>24,
     <1>25, <1>26, <1>27, <1>28, <1>29, <1>30, <1>31, <1>32, <1>33, <1>34, <1>35,
     <1>36, <1>37, <1>38, <1>39, <1>40, <1>41, <1>42, <1>43, <1>44
  DEF Next, MainInCall, PollingThread, DiscoveryThread, Waiting, WaiterInCall,
      Toggling, ToggleInCall

LEMMA TypeInit == Init => TypeOK
<1>1. Init => FlagsOK
  BY Zenon DEF Init, FlagsOK
<1> QED
  BY <1>1, LifecycleAssumption
  DEF Init, TypeOK, FlagsOK, LifecycleAssumption, States, PollPC, WaitPC

\* Type correctness: the variables that model the recorder's fields and the program
\* counters of its threads keep their types in every behaviour.
THEOREM Typing == Spec => []TypeOK
<1>1. Init => TypeOK
  BY TypeInit
<1>2. TypeOK /\ [Next]_vars => TypeOK'
  BY TypeStep
<1> QED
  BY <1>1, <1>2, PTL DEF Spec

\* The handle of the polling thread follows the thread itself.
LEMMA ThreadStep ==
    ASSUME TypeOK, ThreadInv, [Next]_vars
    PROVE  ThreadInv'
<1> USE LifecycleAssumption DEF LifecycleAssumption, TypeOK, ThreadInv, Closing, Finished, StartPC, StartedPC,
        StopPC, PollPC, callerVars, pollVars, discVars, waitVars
<1>1. CASE StartCall
  BY <1>1 DEF StartCall
<1>2. CASE StartOpen
  BY <1>2 DEF StartOpen
<1>3. CASE StartDiscovery
  BY <1>3 DEF StartDiscovery
<1>4. CASE StartPolling
  BY <1>4 DEF StartPolling
<1>5. CASE StartRunning
  BY <1>5 DEF StartRunning
<1>6. CASE StartLock
  BY <1>6 DEF StartLock, TakeCallbackMutex
<1>7. CASE StartUnlock
  BY <1>7 DEF StartUnlock, ReleaseCallbackMutex
<1>8. CASE StopCall
  BY <1>8 DEF StopCall
<1>9. CASE StopJoin
  BY <1>9 DEF StopJoin
<1>10. CASE StopCheck
  BY <1>10 DEF StopCheck
<1>11. CASE StopSet
  BY <1>11 DEF StopSet
<1>12. CASE StopLock
  BY <1>12 DEF StopLock, TakeCallbackMutex
<1>13. CASE StopUnlock
  BY <1>13 DEF StopUnlock, ReleaseCallbackMutex
<1>14. CASE StopDiscovery
  BY <1>14 DEF StopDiscovery
<1>15. CASE StopDiscoveryJoin
  BY <1>15 DEF StopDiscoveryJoin
<1>16. CASE StopClose
  BY <1>16 DEF StopClose
<1>17. CASE StopNotify
  BY <1>17 DEF StopNotify, NotifyAll
<1>18. CASE PollLoop
  BY <1>18 DEF PollLoop, PollGoto
<1>19. CASE PollGate
  BY <1>19 DEF PollGate, PollGoto
<1>20. CASE PollTake
  BY <1>20 DEF PollTake, PollGoto
<1>21. CASE PollLimits
  BY <1>21 DEF PollLimits, PollGoto
<1>22. CASE ReopenClose
  BY <1>22 DEF ReopenClose, PollGoto
<1>23. CASE ReopenOpen
  BY <1>23 DEF ReopenOpen, PollGoto
<1>24. CASE PollExit
  BY <1>24 DEF PollExit, PollGoto
<1>25. CASE FinishDiscovery
  BY <1>25 DEF FinishDiscovery, PollGoto
<1>26. CASE FinishDiscoveryJoin
  BY <1>26 DEF FinishDiscoveryJoin, PollGoto
<1>27. CASE FinishClose
  BY <1>27 DEF FinishClose, PollGoto
<1>28. CASE FinishSet
  BY <1>28 DEF FinishSet, PollGoto
<1>29. CASE FinishCallback
  BY <1>29 DEF FinishCallback, PollGoto
<1>30. CASE FinishNotify
  BY <1>30 DEF FinishNotify, NotifyAll
<1>31. CASE DiscCheck
  BY <1>31 DEF DiscCheck
<1>32. CASE DiscCallback
  BY <1>32 DEF DiscCallback
<1>33. ASSUME NEW w \in Waiters, WaitCall(w) PROVE ThreadInv'
  BY <1>33 DEF WaitCall, WaitGoto
<1>34. ASSUME NEW w \in Waiters, WaitLock(w) PROVE ThreadInv'
  BY <1>34 DEF WaitLock, WaitGoto
<1>35. ASSUME NEW w \in Waiters, WaitCheck(w) PROVE ThreadInv'
  BY <1>35 DEF WaitCheck, WaitGoto
<1>36. ASSUME NEW w \in Waiters, WaitBlock(w) PROVE ThreadInv'
  BY <1>36 DEF WaitBlock, WaitGoto
<1>37. ASSUME NEW w \in Waiters, WaitSpuriousWakeup(w) PROVE ThreadInv'
  BY <1>37 DEF WaitSpuriousWakeup, WaitGoto
<1>38. ASSUME NEW w \in Waiters, WaitTimeout(w) PROVE ThreadInv'
  BY <1>38 DEF WaitTimeout, WaitGoto
<1>39. ASSUME NEW t \in Togglers, PauseCall(t) PROVE ThreadInv'
  BY <1>39 DEF PauseCall
<1>40. ASSUME NEW t \in Togglers, PauseSet(t) PROVE ThreadInv'
  BY <1>40 DEF PauseSet
<1>41. ASSUME NEW t \in Togglers, ResumeCall(t) PROVE ThreadInv'
  BY <1>41 DEF ResumeCall
<1>42. ASSUME NEW t \in Togglers, ResumeSet(t) PROVE ThreadInv'
  BY <1>42 DEF ResumeSet
<1>43. ASSUME NEW t \in Togglers, ToggleCallback(t) PROVE ThreadInv'
  BY <1>43 DEF ToggleCallback
<1>44. CASE UNCHANGED vars
  BY <1>44 DEF vars
<1> QED
  BY <1>1, <1>2, <1>3, <1>4, <1>5, <1>6, <1>7, <1>8, <1>9, <1>10, <1>11, <1>12, <1>13,
     <1>14, <1>15, <1>16, <1>17, <1>18, <1>19, <1>20, <1>21, <1>22, <1>23, <1>24,
     <1>25, <1>26, <1>27, <1>28, <1>29, <1>30, <1>31, <1>32, <1>33, <1>34, <1>35,
     <1>36, <1>37, <1>38, <1>39, <1>40, <1>41, <1>42, <1>43, <1>44
  DEF Next, MainInCall, PollingThread, DiscoveryThread, Waiting, WaiterInCall,
      Toggling, ToggleInCall

\* The discovery thread is joined by whoever cleared its flag.
LEMMA DiscoveryStep ==
    ASSUME TypeOK, ThreadInv, DiscoveryInv, [Next]_vars
    PROVE  DiscoveryInv'
<1> USE DEF TypeOK, ThreadInv, DiscoveryInv, Closing, Finished, StartPC, StartedPC,
        callerVars, pollVars, discVars, waitVars
<1>1. CASE StartCall
  BY <1>1 DEF StartCall
<1>2. CASE StartOpen
  BY <1>2 DEF StartOpen
<1>3. CASE StartDiscovery
  BY <1>3 DEF StartDiscovery
<1>4. CASE StartPolling
  BY <1>4 DEF StartPolling
<1>5. CASE StartRunning
  BY <1>5 DEF StartRunning
<1>6. CASE StartLock
  BY <1>6 DEF StartLock, TakeCallbackMutex
<1>7. CASE StartUnlock
  BY <1>7 DEF StartUnlock, ReleaseCallbackMutex
<1>8. CASE StopCall
  BY <1>8 DEF StopCall
<1>9. CASE StopJoin
  BY <1>9 DEF StopJoin
<1>10. CASE StopCheck
  BY <1>10 DEF StopCheck
<1>11. CASE StopSet
  BY <1>11 DEF StopSet
<1>12. CASE StopLock
  BY <1>12 DEF StopLock, TakeCallbackMutex
<1>13. CASE StopUnlock
  BY <1>13 DEF StopUnlock, ReleaseCallbackMutex
<1>14. CASE StopDiscovery
  BY <1>14 DEF StopDiscovery
<1>15. CASE StopDiscoveryJoin
  BY <1>15 DEF StopDiscoveryJoin
<1>16. CASE StopClose
  BY <1>16 DEF StopClose
<1>17. CASE StopNotify
  BY <1>17 DEF StopNotify, NotifyAll
<1>18. CASE PollLoop
  BY <1>18 DEF PollLoop, PollGoto
<1>19. CASE PollGate
  BY <1>19 DEF PollGate, PollGoto
<1>20. CASE PollTake
  BY <1>20 DEF PollTake, PollGoto
<1>21. CASE PollLimits
  BY <1>21 DEF PollLimits, PollGoto
<1>22. CASE ReopenClose
  BY <1>22 DEF ReopenClose, PollGoto
<1>23. CASE ReopenOpen
  BY <1>23 DEF ReopenOpen, PollGoto
<1>24. CASE PollExit
  BY <1>24 DEF PollExit, PollGoto
<1>25. CASE FinishDiscovery
  BY <1>25 DEF FinishDiscovery, PollGoto
<1>26. CASE FinishDiscoveryJoin
  BY <1>26 DEF FinishDiscoveryJoin, PollGoto
<1>27. CASE FinishClose
  BY <1>27 DEF FinishClose, PollGoto
<1>28. CASE FinishSet
  BY <1>28 DEF FinishSet, PollGoto
<1>29. CASE FinishCallback
  BY <1>29 DEF FinishCallback, PollGoto
<1>30. CASE FinishNotify
  BY <1>30 DEF FinishNotify, NotifyAll
<1>31. CASE DiscCheck
  BY <1>31 DEF DiscCheck
<1>32. CASE DiscCallback
  BY <1>32 DEF DiscCallback
<1>33. ASSUME NEW w \in Waiters, WaitCall(w) PROVE DiscoveryInv'
  BY <1>33 DEF WaitCall, WaitGoto
<1>34. ASSUME NEW w \in Waiters, WaitLock(w) PROVE DiscoveryInv'
  BY <1>34 DEF WaitLock, WaitGoto
<1>35. ASSUME NEW w \in Waiters, WaitCheck(w) PROVE DiscoveryInv'
  BY <1>35 DEF WaitCheck, WaitGoto
<1>36. ASSUME NEW w \in Waiters, WaitBlock(w) PROVE DiscoveryInv'
  BY <1>36 DEF WaitBlock, WaitGoto
<1>37. ASSUME NEW w \in Waiters, WaitSpuriousWakeup(w) PROVE DiscoveryInv'
  BY <1>37 DEF WaitSpuriousWakeup, WaitGoto
<1>38. ASSUME NEW w \in Waiters, WaitTimeout(w) PROVE DiscoveryInv'
  BY <1>38 DEF WaitTimeout, WaitGoto
<1>39. ASSUME NEW t \in Togglers, PauseCall(t) PROVE DiscoveryInv'
  BY <1>39 DEF PauseCall
<1>40. ASSUME NEW t \in Togglers, PauseSet(t) PROVE DiscoveryInv'
  BY <1>40 DEF PauseSet
<1>41. ASSUME NEW t \in Togglers, ResumeCall(t) PROVE DiscoveryInv'
  BY <1>41 DEF ResumeCall
<1>42. ASSUME NEW t \in Togglers, ResumeSet(t) PROVE DiscoveryInv'
  BY <1>42 DEF ResumeSet
<1>43. ASSUME NEW t \in Togglers, ToggleCallback(t) PROVE DiscoveryInv'
  BY <1>43 DEF ToggleCallback
<1>44. CASE UNCHANGED vars
  BY <1>44 DEF vars
<1> QED
  BY <1>1, <1>2, <1>3, <1>4, <1>5, <1>6, <1>7, <1>8, <1>9, <1>10, <1>11, <1>12, <1>13,
     <1>14, <1>15, <1>16, <1>17, <1>18, <1>19, <1>20, <1>21, <1>22, <1>23, <1>24,
     <1>25, <1>26, <1>27, <1>28, <1>29, <1>30, <1>31, <1>32, <1>33, <1>34, <1>35,
     <1>36, <1>37, <1>38, <1>39, <1>40, <1>41, <1>42, <1>43, <1>44
  DEF Next, MainInCall, PollingThread, DiscoveryThread, Waiting, WaiterInCall,
      Toggling, ToggleInCall

\* The file is open whenever a thread relies on it.
LEMMA FileStep ==
    ASSUME TypeOK, ThreadInv, DiscoveryInv, FileInv, [Next]_vars
    PROVE  FileInv'
<1> USE DEF TypeOK, ThreadInv, DiscoveryInv, FileInv, BetweenFiles, Sealed, Closing, Finished,
        StartPC, StartedPC, callerVars, pollVars, discVars, waitVars
<1>1. CASE StartCall
  BY <1>1 DEF StartCall
<1>2. CASE StartOpen
  BY <1>2 DEF StartOpen
<1>3. CASE StartDiscovery
  BY <1>3 DEF StartDiscovery
<1>4. CASE StartPolling
  BY <1>4 DEF StartPolling
<1>5. CASE StartRunning
  BY <1>5 DEF StartRunning
<1>6. CASE StartLock
  BY <1>6 DEF StartLock, TakeCallbackMutex
<1>7. CASE StartUnlock
  BY <1>7 DEF StartUnlock, ReleaseCallbackMutex
<1>8. CASE StopCall
  BY <1>8 DEF StopCall
<1>9. CASE StopJoin
  BY <1>9 DEF StopJoin
<1>10. CASE StopCheck
  BY <1>10 DEF StopCheck
<1>11. CASE StopSet
  BY <1>11 DEF StopSet
<1>12. CASE StopLock
  BY <1>12 DEF StopLock, TakeCallbackMutex
<1>13. CASE StopUnlock
  BY <1>13 DEF StopUnlock, ReleaseCallbackMutex
<1>14. CASE StopDiscovery
  BY <1>14 DEF StopDiscovery
<1>15. CASE StopDiscoveryJoin
  BY <1>15 DEF StopDiscoveryJoin
<1>16. CASE StopClose
  BY <1>16 DEF StopClose
<1>17. CASE StopNotify
  BY <1>17 DEF StopNotify, NotifyAll
<1>18. CASE PollLoop
  BY <1>18 DEF PollLoop, PollGoto
<1>19. CASE PollGate
  BY <1>19 DEF PollGate, PollGoto
<1>20. CASE PollTake
  BY <1>20 DEF PollTake, PollGoto
<1>21. CASE PollLimits
  BY <1>21 DEF PollLimits, PollGoto
<1>22. CASE ReopenClose
  BY <1>22 DEF ReopenClose, PollGoto
<1>23. CASE ReopenOpen
  BY <1>23 DEF ReopenOpen, PollGoto
<1>24. CASE PollExit
  BY <1>24 DEF PollExit, PollGoto
<1>25. CASE FinishDiscovery
  BY <1>25 DEF FinishDiscovery, PollGoto
<1>26. CASE FinishDiscoveryJoin
  BY <1>26 DEF FinishDiscoveryJoin, PollGoto
<1>27. CASE FinishClose
  BY <1>27 DEF FinishClose, PollGoto
<1>28. CASE FinishSet
  BY <1>28 DEF FinishSet, PollGoto
<1>29. CASE FinishCallback
  BY <1>29 DEF FinishCallback, PollGoto
<1>30. CASE FinishNotify
  BY <1>30 DEF FinishNotify, NotifyAll
<1>31. CASE DiscCheck
  BY <1>31 DEF DiscCheck
<1>32. CASE DiscCallback
  BY <1>32 DEF DiscCallback
<1>33. ASSUME NEW w \in Waiters, WaitCall(w) PROVE FileInv'
  BY <1>33 DEF WaitCall, WaitGoto
<1>34. ASSUME NEW w \in Waiters, WaitLock(w) PROVE FileInv'
  BY <1>34 DEF WaitLock, WaitGoto
<1>35. ASSUME NEW w \in Waiters, WaitCheck(w) PROVE FileInv'
  BY <1>35 DEF WaitCheck, WaitGoto
<1>36. ASSUME NEW w \in Waiters, WaitBlock(w) PROVE FileInv'
  BY <1>36 DEF WaitBlock, WaitGoto
<1>37. ASSUME NEW w \in Waiters, WaitSpuriousWakeup(w) PROVE FileInv'
  BY <1>37 DEF WaitSpuriousWakeup, WaitGoto
<1>38. ASSUME NEW w \in Waiters, WaitTimeout(w) PROVE FileInv'
  BY <1>38 DEF WaitTimeout, WaitGoto
<1>39. ASSUME NEW t \in Togglers, PauseCall(t) PROVE FileInv'
  BY <1>39 DEF PauseCall
<1>40. ASSUME NEW t \in Togglers, PauseSet(t) PROVE FileInv'
  BY <1>40 DEF PauseSet
<1>41. ASSUME NEW t \in Togglers, ResumeCall(t) PROVE FileInv'
  BY <1>41 DEF ResumeCall
<1>42. ASSUME NEW t \in Togglers, ResumeSet(t) PROVE FileInv'
  BY <1>42 DEF ResumeSet
<1>43. ASSUME NEW t \in Togglers, ToggleCallback(t) PROVE FileInv'
  BY <1>43 DEF ToggleCallback
<1>44. CASE UNCHANGED vars
  BY <1>44 DEF vars
<1> QED
  BY <1>1, <1>2, <1>3, <1>4, <1>5, <1>6, <1>7, <1>8, <1>9, <1>10, <1>11, <1>12, <1>13,
     <1>14, <1>15, <1>16, <1>17, <1>18, <1>19, <1>20, <1>21, <1>22, <1>23, <1>24,
     <1>25, <1>26, <1>27, <1>28, <1>29, <1>30, <1>31, <1>32, <1>33, <1>34, <1>35,
     <1>36, <1>37, <1>38, <1>39, <1>40, <1>41, <1>42, <1>43, <1>44
  DEF Next, MainInCall, PollingThread, DiscoveryThread, Waiting, WaiterInCall,
      Toggling, ToggleInCall

\* No wakeup is lost.
LEMMA WaitStep ==
    ASSUME TypeOK, ThreadInv, WaitInv, [Next]_vars
    PROVE  WaitInv'
<1> USE LifecycleAssumption DEF LifecycleAssumption, TypeOK, ThreadInv, WaitInv, NoLostWakeup, Closing,
        Finished, StartPC, StartedPC, StopPC,
        callerVars, pollVars, discVars, waitVars
<1>1. CASE StartCall
  BY <1>1 DEF StartCall
<1>2. CASE StartOpen
  BY <1>2 DEF StartOpen
<1>3. CASE StartDiscovery
  BY <1>3 DEF StartDiscovery
<1>4. CASE StartPolling
  BY <1>4 DEF StartPolling
<1>5. CASE StartRunning
  BY <1>5 DEF StartRunning
<1>6. CASE StartLock
  BY <1>6 DEF StartLock, TakeCallbackMutex
<1>7. CASE StartUnlock
  BY <1>7 DEF StartUnlock, ReleaseCallbackMutex
<1>8. CASE StopCall
  BY <1>8 DEF StopCall
<1>9. CASE StopJoin
  BY <1>9 DEF StopJoin
<1>10. CASE StopCheck
  BY <1>10 DEF StopCheck
<1>11. CASE StopSet
  BY <1>11 DEF StopSet
<1>12. CASE StopLock
  BY <1>12 DEF StopLock, TakeCallbackMutex
<1>13. CASE StopUnlock
  BY <1>13 DEF StopUnlock, ReleaseCallbackMutex
<1>14. CASE StopDiscovery
  BY <1>14 DEF StopDiscovery
<1>15. CASE StopDiscoveryJoin
  BY <1>15 DEF StopDiscoveryJoin
<1>16. CASE StopClose
  BY <1>16 DEF StopClose
<1>17. CASE StopNotify
  BY <1>17 DEF StopNotify, NotifyAll
<1>18. CASE PollLoop
  BY <1>18 DEF PollLoop, PollGoto
<1>19. CASE PollGate
  BY <1>19 DEF PollGate, PollGoto
<1>20. CASE PollTake
  BY <1>20 DEF PollTake, PollGoto
<1>21. CASE PollLimits
  BY <1>21 DEF PollLimits, PollGoto
<1>22. CASE ReopenClose
  BY <1>22 DEF ReopenClose, PollGoto
<1>23. CASE ReopenOpen
  BY <1>23 DEF ReopenOpen, PollGoto
<1>24. CASE PollExit
  BY <1>24 DEF PollExit, PollGoto
<1>25. CASE FinishDiscovery
  BY <1>25 DEF FinishDiscovery, PollGoto
<1>26. CASE FinishDiscoveryJoin
  BY <1>26 DEF FinishDiscoveryJoin, PollGoto
<1>27. CASE FinishClose
  BY <1>27 DEF FinishClose, PollGoto
<1>28. CASE FinishSet
  BY <1>28 DEF FinishSet, PollGoto
<1>29. CASE FinishCallback
  BY <1>29 DEF FinishCallback, PollGoto
<1>30. CASE FinishNotify
  BY <1>30 DEF FinishNotify, NotifyAll
<1>31. CASE DiscCheck
  BY <1>31 DEF DiscCheck
<1>32. CASE DiscCallback
  BY <1>32 DEF DiscCallback
<1>33. ASSUME NEW w \in Waiters, WaitCall(w) PROVE WaitInv'
  BY <1>33 DEF WaitCall, WaitGoto
<1>34. ASSUME NEW w \in Waiters, WaitLock(w) PROVE WaitInv'
  BY <1>34 DEF WaitLock, WaitGoto
<1>35. ASSUME NEW w \in Waiters, WaitCheck(w) PROVE WaitInv'
  BY <1>35 DEF WaitCheck, WaitGoto
<1>36. ASSUME NEW w \in Waiters, WaitBlock(w) PROVE WaitInv'
  BY <1>36 DEF WaitBlock, WaitGoto
<1>37. ASSUME NEW w \in Waiters, WaitSpuriousWakeup(w) PROVE WaitInv'
  BY <1>37 DEF WaitSpuriousWakeup, WaitGoto
<1>38. ASSUME NEW w \in Waiters, WaitTimeout(w) PROVE WaitInv'
  BY <1>38 DEF WaitTimeout, WaitGoto
<1>39. ASSUME NEW t \in Togglers, PauseCall(t) PROVE WaitInv'
  BY <1>39 DEF PauseCall
<1>40. ASSUME NEW t \in Togglers, PauseSet(t) PROVE WaitInv'
  BY <1>40 DEF PauseSet
<1>41. ASSUME NEW t \in Togglers, ResumeCall(t) PROVE WaitInv'
  BY <1>41 DEF ResumeCall
<1>42. ASSUME NEW t \in Togglers, ResumeSet(t) PROVE WaitInv'
  BY <1>42 DEF ResumeSet
<1>43. ASSUME NEW t \in Togglers, ToggleCallback(t) PROVE WaitInv'
  BY <1>43 DEF ToggleCallback
<1>44. CASE UNCHANGED vars
  BY <1>44 DEF vars
<1> QED
  BY <1>1, <1>2, <1>3, <1>4, <1>5, <1>6, <1>7, <1>8, <1>9, <1>10, <1>11, <1>12, <1>13,
     <1>14, <1>15, <1>16, <1>17, <1>18, <1>19, <1>20, <1>21, <1>22, <1>23, <1>24,
     <1>25, <1>26, <1>27, <1>28, <1>29, <1>30, <1>31, <1>32, <1>33, <1>34, <1>35,
     <1>36, <1>37, <1>38, <1>39, <1>40, <1>41, <1>42, <1>43, <1>44
  DEF Next, MainInCall, PollingThread, DiscoveryThread, Waiting, WaiterInCall,
      Toggling, ToggleInCall

\* A caller that joins first replaces no joinable thread.
LEMMA RestartStep ==
    ASSUME TypeOK, ThreadInv, RestartInv, [Next]_vars
    PROVE  RestartInv'
<1> USE DEF TypeOK, ThreadInv, RestartInv, Closing, Finished, StartPC, callerVars, pollVars, discVars, waitVars
<1>1. CASE StartCall
  BY <1>1 DEF StartCall
<1>2. CASE StartOpen
  BY <1>2 DEF StartOpen
<1>3. CASE StartDiscovery
  BY <1>3 DEF StartDiscovery
<1>4. CASE StartPolling
  BY <1>4 DEF StartPolling
<1>5. CASE StartRunning
  BY <1>5 DEF StartRunning
<1>6. CASE StartLock
  BY <1>6 DEF StartLock, TakeCallbackMutex
<1>7. CASE StartUnlock
  BY <1>7 DEF StartUnlock, ReleaseCallbackMutex
<1>8. CASE StopCall
  BY <1>8 DEF StopCall
<1>9. CASE StopJoin
  BY <1>9 DEF StopJoin
<1>10. CASE StopCheck
  BY <1>10 DEF StopCheck
<1>11. CASE StopSet
  BY <1>11 DEF StopSet
<1>12. CASE StopLock
  BY <1>12 DEF StopLock, TakeCallbackMutex
<1>13. CASE StopUnlock
  BY <1>13 DEF StopUnlock, ReleaseCallbackMutex
<1>14. CASE StopDiscovery
  BY <1>14 DEF StopDiscovery
<1>15. CASE StopDiscoveryJoin
  BY <1>15 DEF StopDiscoveryJoin
<1>16. CASE StopClose
  BY <1>16 DEF StopClose
<1>17. CASE StopNotify
  BY <1>17 DEF StopNotify, NotifyAll
<1>18. CASE PollLoop
  BY <1>18 DEF PollLoop, PollGoto
<1>19. CASE PollGate
  BY <1>19 DEF PollGate, PollGoto
<1>20. CASE PollTake
  BY <1>20 DEF PollTake, PollGoto
<1>21. CASE PollLimits
  BY <1>21 DEF PollLimits, PollGoto
<1>22. CASE ReopenClose
  BY <1>22 DEF ReopenClose, PollGoto
<1>23. CASE ReopenOpen
  BY <1>23 DEF ReopenOpen, PollGoto
<1>24. CASE PollExit
  BY <1>24 DEF PollExit, PollGoto
<1>25. CASE FinishDiscovery
  BY <1>25 DEF FinishDiscovery, PollGoto
<1>26. CASE FinishDiscoveryJoin
  BY <1>26 DEF FinishDiscoveryJoin, PollGoto
<1>27. CASE FinishClose
  BY <1>27 DEF FinishClose, PollGoto
<1>28. CASE FinishSet
  BY <1>28 DEF FinishSet, PollGoto
<1>29. CASE FinishCallback
  BY <1>29 DEF FinishCallback, PollGoto
<1>30. CASE FinishNotify
  BY <1>30 DEF FinishNotify, NotifyAll
<1>31. CASE DiscCheck
  BY <1>31 DEF DiscCheck
<1>32. CASE DiscCallback
  BY <1>32 DEF DiscCallback
<1>33. ASSUME NEW w \in Waiters, WaitCall(w) PROVE RestartInv'
  BY <1>33 DEF WaitCall, WaitGoto
<1>34. ASSUME NEW w \in Waiters, WaitLock(w) PROVE RestartInv'
  BY <1>34 DEF WaitLock, WaitGoto
<1>35. ASSUME NEW w \in Waiters, WaitCheck(w) PROVE RestartInv'
  BY <1>35 DEF WaitCheck, WaitGoto
<1>36. ASSUME NEW w \in Waiters, WaitBlock(w) PROVE RestartInv'
  BY <1>36 DEF WaitBlock, WaitGoto
<1>37. ASSUME NEW w \in Waiters, WaitSpuriousWakeup(w) PROVE RestartInv'
  BY <1>37 DEF WaitSpuriousWakeup, WaitGoto
<1>38. ASSUME NEW w \in Waiters, WaitTimeout(w) PROVE RestartInv'
  BY <1>38 DEF WaitTimeout, WaitGoto
<1>39. ASSUME NEW t \in Togglers, PauseCall(t) PROVE RestartInv'
  BY <1>39 DEF PauseCall
<1>40. ASSUME NEW t \in Togglers, PauseSet(t) PROVE RestartInv'
  BY <1>40 DEF PauseSet
<1>41. ASSUME NEW t \in Togglers, ResumeCall(t) PROVE RestartInv'
  BY <1>41 DEF ResumeCall
<1>42. ASSUME NEW t \in Togglers, ResumeSet(t) PROVE RestartInv'
  BY <1>42 DEF ResumeSet
<1>43. ASSUME NEW t \in Togglers, ToggleCallback(t) PROVE RestartInv'
  BY <1>43 DEF ToggleCallback
<1>44. CASE UNCHANGED vars
  BY <1>44 DEF vars
<1> QED
  BY <1>1, <1>2, <1>3, <1>4, <1>5, <1>6, <1>7, <1>8, <1>9, <1>10, <1>11, <1>12, <1>13,
     <1>14, <1>15, <1>16, <1>17, <1>18, <1>19, <1>20, <1>21, <1>22, <1>23, <1>24,
     <1>25, <1>26, <1>27, <1>28, <1>29, <1>30, <1>31, <1>32, <1>33, <1>34, <1>35,
     <1>36, <1>37, <1>38, <1>39, <1>40, <1>41, <1>42, <1>43, <1>44
  DEF Next, MainInCall, PollingThread, DiscoveryThread, Waiting, WaiterInCall,
      Toggling, ToggleInCall
\* Without pause() only the polling thread ends a recording.
LEMMA UnpausedStep ==
    ASSUME Togglers = {}, TypeOK, ThreadInv, DiscoveryInv, FileInv, UnpausedInv, [Next]_vars
    PROVE  UnpausedInv'
<1> USE LifecycleAssumption
    DEF LifecycleAssumption, TypeOK, States, ThreadInv, DiscoveryInv, FileInv, BetweenFiles, Sealed,
        UnpausedInv, Closing, Finished, StartPC, StartedPC, callerVars, pollVars, discVars, waitVars
<1>1. CASE StartCall
  BY <1>1 DEF StartCall
<1>2. CASE StartOpen
  BY <1>2 DEF StartOpen
<1>3. CASE StartDiscovery
  BY <1>3 DEF StartDiscovery
<1>4. CASE StartPolling
  BY <1>4 DEF StartPolling
<1>5. CASE StartRunning
  BY <1>5 DEF StartRunning
<1>6. CASE StartLock
  BY <1>6 DEF StartLock, TakeCallbackMutex
<1>7. CASE StartUnlock
  BY <1>7 DEF StartUnlock, ReleaseCallbackMutex
<1>8. CASE StopCall
  BY <1>8 DEF StopCall
<1>9. CASE StopJoin
  <2>1. poll \in {"none", "done"}
    BY <1>9, Zenon DEF StopJoin
  <2> QED
    BY <1>9, <2>1 DEF StopJoin
<1>10. CASE StopCheck
  BY <1>10 DEF StopCheck
<1>11. CASE StopSet
  BY <1>11 DEF StopSet
<1>12. CASE StopLock
  BY <1>12 DEF StopLock, TakeCallbackMutex
<1>13. CASE StopUnlock
  BY <1>13 DEF StopUnlock, ReleaseCallbackMutex
<1>14. CASE StopDiscovery
  BY <1>14 DEF StopDiscovery
<1>15. CASE StopDiscoveryJoin
  BY <1>15 DEF StopDiscoveryJoin
<1>16. CASE StopClose
  BY <1>16 DEF StopClose
<1>17. CASE StopNotify
  BY <1>17 DEF StopNotify, NotifyAll
<1>18. CASE PollLoop
  BY <1>18 DEF PollLoop, PollGoto
<1>19. CASE PollGate
  BY <1>19 DEF PollGate, PollGoto
<1>20. CASE PollTake
  BY <1>20 DEF PollTake, PollGoto
<1>21. CASE PollLimits
  <2>1. main # "start_running"
    BY <1>21 DEF PollLimits, PollGoto
  <2>2. main' = "start_running" => pollingActive'
    BY <1>21, <2>1, Zenon DEF PollLimits, PollGoto
  <2> QED
    BY <1>21, <2>1, <2>2 DEF PollLimits, PollGoto
<1>22. CASE ReopenClose
  BY <1>22 DEF ReopenClose, PollGoto
<1>23. CASE ReopenOpen
  <2>1. main # "start_running"
    BY <1>23 DEF ReopenOpen, PollGoto
  <2>2. main' = "start_running" => pollingActive'
    BY <1>23, <2>1, Zenon DEF ReopenOpen, PollGoto
  <2> QED
    BY <1>23, <2>1, <2>2 DEF ReopenOpen, PollGoto
<1>24. CASE PollExit
  BY <1>24 DEF PollExit, PollGoto
<1>25. CASE FinishDiscovery
  BY <1>25 DEF FinishDiscovery, PollGoto
<1>26. CASE FinishDiscoveryJoin
  BY <1>26 DEF FinishDiscoveryJoin, PollGoto
<1>27. CASE FinishClose
  BY <1>27 DEF FinishClose, PollGoto
<1>28. CASE FinishSet
  BY <1>28 DEF FinishSet, PollGoto
<1>29. CASE FinishCallback
  BY <1>29 DEF FinishCallback, PollGoto
<1>30. CASE FinishNotify
  BY <1>30 DEF FinishNotify, NotifyAll
<1>31. CASE DiscCheck
  BY <1>31 DEF DiscCheck
<1>32. CASE DiscCallback
  BY <1>32 DEF DiscCallback
<1>33. ASSUME NEW w \in Waiters, WaitCall(w) PROVE UnpausedInv'
  BY <1>33 DEF WaitCall, WaitGoto
<1>34. ASSUME NEW w \in Waiters, WaitLock(w) PROVE UnpausedInv'
  BY <1>34 DEF WaitLock, WaitGoto
<1>35. ASSUME NEW w \in Waiters, WaitCheck(w) PROVE UnpausedInv'
  BY <1>35 DEF WaitCheck, WaitGoto
<1>36. ASSUME NEW w \in Waiters, WaitBlock(w) PROVE UnpausedInv'
  BY <1>36 DEF WaitBlock, WaitGoto
<1>37. ASSUME NEW w \in Waiters, WaitSpuriousWakeup(w) PROVE UnpausedInv'
  BY <1>37 DEF WaitSpuriousWakeup, WaitGoto
<1>38. ASSUME NEW w \in Waiters, WaitTimeout(w) PROVE UnpausedInv'
  BY <1>38 DEF WaitTimeout, WaitGoto
<1>39. ASSUME NEW t \in Togglers, PauseCall(t) PROVE UnpausedInv'
  BY <1>39 DEF PauseCall
<1>40. ASSUME NEW t \in Togglers, PauseSet(t) PROVE UnpausedInv'
  BY <1>40 DEF PauseSet
<1>41. ASSUME NEW t \in Togglers, ResumeCall(t) PROVE UnpausedInv'
  BY <1>41 DEF ResumeCall
<1>42. ASSUME NEW t \in Togglers, ResumeSet(t) PROVE UnpausedInv'
  BY <1>42 DEF ResumeSet
<1>43. ASSUME NEW t \in Togglers, ToggleCallback(t) PROVE UnpausedInv'
  BY <1>43 DEF ToggleCallback
<1>44. CASE UNCHANGED vars
  BY <1>44 DEF vars
<1> QED
  BY <1>1, <1>2, <1>3, <1>4, <1>5, <1>6, <1>7, <1>8, <1>9, <1>10, <1>11, <1>12, <1>13,
     <1>14, <1>15, <1>16, <1>17, <1>18, <1>19, <1>20, <1>21, <1>22, <1>23, <1>24,
     <1>25, <1>26, <1>27, <1>28, <1>29, <1>30, <1>31, <1>32, <1>33, <1>34, <1>35,
     <1>36, <1>37, <1>38, <1>39, <1>40, <1>41, <1>42, <1>43, <1>44
  DEF Next, MainInCall, PollingThread, DiscoveryThread, Waiting, WaiterInCall,
      Toggling, ToggleInCall

\* The inductive invariant: the polling thread, the discovery thread, the file, the
\* waiters and the caller of start() and stop() constrain one another in every state.
THEOREM Induction == Spec => []LifecycleInv
<1>1. Init => LifecycleInv
  <2> SUFFICES ASSUME Init PROVE LifecycleInv
    OBVIOUS
  <2>1. TypeOK
    BY TypeInit
  <2>2. DiscoveryInv /\ RestartInv
    BY Zenon DEF Init, DiscoveryInv, RestartInv
  <2> QED
    BY <2>1, <2>2
    DEF Init, LifecycleInv, ThreadInv, DiscoveryInv, FileInv, BetweenFiles, Sealed, WaitInv,
        NoLostWakeup, RestartInv, Closing, Finished, StartPC
<1>2. LifecycleInv /\ [Next]_vars => LifecycleInv'
  BY TypeStep, ThreadStep, DiscoveryStep, FileStep, WaitStep, RestartStep
  DEF LifecycleInv
<1> QED
  BY <1>1, <1>2, PTL DEF Spec

\* A recorder that says Stopped, outside a call of start() or stop(), has closed its
\* file and joined its discovery thread.
THEOREM StoppedSealed == Spec => []StoppedIsSealed
<1>1. LifecycleInv => StoppedIsSealed
  BY DEF LifecycleInv, FileInv, StoppedIsSealed, Sealed, StartPC
<1> QED
  BY <1>1, Induction, PTL

\* The polling thread never takes samples for a writer whose file is closed.
THEOREM SamplesToOpenFile == Spec => []SamplesGoToAnOpenFile
<1>1. LifecycleInv => SamplesGoToAnOpenFile
  BY DEF LifecycleInv, FileInv, SamplesGoToAnOpenFile
<1> QED
  BY <1>1, Induction, PTL

\* The discovery callback finds the file open, but between the two files of a split
\* and in a recording that has been called off.
THEOREM CallbackSeesFile == Spec => []CallbackSeesOpenFile
<1>1. LifecycleInv => CallbackSeesOpenFile
  BY DEF LifecycleInv, FileInv, CallbackSeesOpenFile
<1> QED
  BY <1>1, Induction, PTL

\* A waiter that sleeps in state Stopped has a notification still to come.
THEOREM WakeupNotLost == Spec => []NoLostWakeup
<1>1. LifecycleInv => NoLostWakeup
  BY DEF LifecycleInv, WaitInv
<1> QED
  BY <1>1, Induction, PTL

\* A caller that calls stop() before every further start() never destroys a joinable
\* thread.
THEOREM JoinFirstIsSafe == ASSUME JoinBeforeStart PROVE Spec => []NoTerminate
<1>1. LifecycleInv => NoTerminate
  BY Zenon DEF LifecycleInv, RestartInv, NoTerminate
<1> QED
  BY <1>1, Induction, PTL

\* notify_all(), which moves waiters from their sleep to the mutex, answers nobody.
LEMMA NotifyAnswersNobody ==
    ASSUME TypeOK, NotifyAll
    PROVE  Answer' = Answer
BY DEF TypeOK, WaitPC, NotifyAll, Answer

\* A step of a waiter changes the answer of that waiter only, and only at its end.
LEMMA GotoAnswers ==
    ASSUME TypeOK, NEW w \in Waiters, NEW from \in WaitPC, NEW to \in WaitPC,
           WaitGoto(w, from, to), from \notin {"true", "false"}
    PROVE  /\ to \notin {"true", "false"} => Answer' = Answer
           /\ Answer[w] = "none"
           /\ to = "true" => Answer' = [Answer EXCEPT ![w] = "complete"]
           /\ to = "false" => Answer' = [Answer EXCEPT ![w] = "timeout"]
           /\ UNCHANGED <<state, file, begun>>
BY DEF TypeOK, WaitPC, WaitGoto, Answer, callerVars

\* Every step of an unpaused recorder is a step of its contract or invisible to it.
LEMMA ContractStep ==
    ASSUME Togglers = {}, LifecycleInv, UnpausedInv, [Next]_vars
    PROVE  [Contract!Next]_(Contract!contract)
<1> DEFINE Hidden == UNCHANGED <<state, file, begun, waitsFor, Answer>>
<1> SUFFICES Contract!Next \/ Hidden
  BY DEF Contract!contract
<1>0. ASSUME waiter' = waiter PROVE Answer' = Answer
  BY <1>0 DEF Answer
<1> USE DEF LifecycleInv, TypeOK, callerVars, pollVars, discVars, waitVars
<1>1. CASE StartCall
  BY <1>1, <1>0 DEF StartCall
<1>2. CASE StartOpen
  <2>1. CASE UNCHANGED file
    BY <1>2, <2>1, <1>0 DEF StartOpen
  <2>2. CASE file' = starts /\ file = 0
    <3>1. Contract!OpenFile
      BY <1>2, <2>2, <1>0 DEF StartOpen, Contract!OpenFile, UnpausedInv, StartPC
    <3> QED
      BY <3>1 DEF Contract!Next
  <2> QED
    BY <1>2, <2>1, <2>2 DEF StartOpen
<1>3. CASE StartDiscovery
  BY <1>3, <1>0 DEF StartDiscovery
<1>4. CASE StartPolling
  BY <1>4, <1>0 DEF StartPolling
<1>5. CASE StartRunning
  <2>1. state = "Stopped" /\ file # 0 /\ file = starts
    BY <1>5 DEF StartRunning, UnpausedInv, FileInv
  <2>2. Contract!Begin
    BY <1>5, <1>0, <2>1 DEF StartRunning, Contract!Begin
  <2> QED
    BY <2>2 DEF Contract!Next
<1>6. CASE StartLock
  BY <1>6, <1>0 DEF StartLock, TakeCallbackMutex
<1>7. CASE StartUnlock
  BY <1>7, <1>0 DEF StartUnlock, ReleaseCallbackMutex
<1>8. CASE StopCall
  BY <1>8, <1>0 DEF StopCall
<1>9. CASE StopJoin
  BY <1>9, <1>0 DEF StopJoin
<1>10. CASE StopCheck
  BY <1>10, <1>0 DEF StopCheck
<1>11. CASE StopSet
  BY <1>11 DEF StopSet, UnpausedInv, Closing
<1>12. CASE StopLock
  BY <1>12, <1>0 DEF StopLock, TakeCallbackMutex
<1>13. CASE StopUnlock
  BY <1>13, <1>0 DEF StopUnlock, ReleaseCallbackMutex
<1>14. CASE StopDiscovery
  BY <1>14, <1>0 DEF StopDiscovery
<1>15. CASE StopDiscoveryJoin
  BY <1>15, <1>0 DEF StopDiscoveryJoin
<1>16. CASE StopClose
  BY <1>16 DEF StopClose, UnpausedInv, Closing
<1>17. CASE StopNotify
  BY <1>17, NotifyAnswersNobody DEF StopNotify, NotifyAll
<1>18. CASE PollLoop
  BY <1>18, <1>0 DEF PollLoop, PollGoto
<1>19. CASE PollGate
  BY <1>19, <1>0 DEF PollGate, PollGoto
<1>20. CASE PollTake
  BY <1>20, <1>0 DEF PollTake, PollGoto
<1>21. CASE PollLimits
  BY <1>21, <1>0 DEF PollLimits, PollGoto
<1>22. CASE ReopenClose
  <2>1. Contract!CloseFile
    BY <1>22, <1>0 DEF ReopenClose, PollGoto, UnpausedInv, FileInv, Finished, States, Contract!CloseFile
  <2> QED
    BY <2>1 DEF Contract!Next
<1>23. CASE ReopenOpen
  <2>1. state = "Running" /\ begun = starts
    BY <1>23 DEF ReopenOpen, PollGoto, UnpausedInv, Finished, States
  <2>2. CASE UNCHANGED file
    BY <1>23, <1>0, <2>2 DEF ReopenOpen, PollGoto
  <2>3. CASE file' = starts /\ file # starts
    <3>1. file = 0
      BY <1>23 DEF ReopenOpen, PollGoto, FileInv
    <3>2. Contract!NextFile
      BY <1>23, <1>0, <2>1, <2>3, <3>1 DEF ReopenOpen, PollGoto, Contract!NextFile
    <3> QED
      BY <3>2 DEF Contract!Next
  <2> QED
    BY <1>23, <2>2, <2>3 DEF ReopenOpen
<1>24. CASE PollExit
  BY <1>24, <1>0 DEF PollExit, PollGoto
<1>25. CASE FinishDiscovery
  BY <1>25, <1>0 DEF FinishDiscovery, PollGoto
<1>26. CASE FinishDiscoveryJoin
  BY <1>26, <1>0 DEF FinishDiscoveryJoin, PollGoto
<1>27. CASE FinishClose
  <2>1. state = "Running"
    BY <1>27 DEF FinishClose, PollGoto, UnpausedInv, Finished, States
  <2>2. CASE file = 0
    BY <1>27, <1>0, <2>2 DEF FinishClose, PollGoto
  <2>3. CASE file # 0
    <3>1. Contract!CloseFile
      BY <1>27, <1>0, <2>1, <2>3 DEF FinishClose, PollGoto, Contract!CloseFile
    <3> QED
      BY <3>1 DEF Contract!Next
  <2> QED
    BY <2>2, <2>3
<1>28. CASE FinishSet
  <2>1. Contract!Publish
    BY <1>28, <1>0 DEF FinishSet, PollGoto, UnpausedInv, FileInv, Finished, States, Contract!Publish
  <2> QED
    BY <2>1 DEF Contract!Next
<1>29. CASE FinishCallback
  BY <1>29, <1>0 DEF FinishCallback, PollGoto
<1>30. CASE FinishNotify
  BY <1>30, NotifyAnswersNobody DEF FinishNotify, NotifyAll
<1>31. CASE DiscCheck
  BY <1>31, <1>0 DEF DiscCheck
<1>32. CASE DiscCallback
  BY <1>32, <1>0 DEF DiscCallback
<1>33. ASSUME NEW w \in Waiters, WaitCall(w) PROVE Contract!Next
  <2>1. Answer' = Answer /\ UNCHANGED <<state, file, begun>>
    BY <1>33, GotoAnswers DEF WaitCall, WaitPC
  <2>2. Contract!Ask(w)
    BY <1>33, <2>1 DEF WaitCall, WaitGoto, UnpausedInv, Contract!Ask
  <2> QED
    BY <2>2 DEF Contract!Next
<1>34. ASSUME NEW w \in Waiters, WaitLock(w) PROVE Hidden
  BY <1>34, GotoAnswers DEF WaitLock, WaitPC
<1>35. ASSUME NEW w \in Waiters, WaitCheck(w) PROVE Contract!Next \/ Hidden
  <2>1. CASE state = "Stopped"
    <3>1. /\ WaitGoto(w, "check", "true")
          /\ UNCHANGED waitsFor
      BY <1>35, <2>1 DEF WaitCheck
    <3>2. /\ Answer[w] = "none"
          /\ Answer' = [Answer EXCEPT ![w] = "complete"]
          /\ UNCHANGED <<state, file, begun>>
      BY <3>1, GotoAnswers DEF WaitPC
    <3>3. waitsFor[w] # 0 /\ (file = 0 \/ file > waitsFor[w])
      BY <3>1, <2>1 DEF WaitGoto, UnpausedInv, StartPC
    <3>4. Contract!AnswerComplete(w)
      BY <2>1, <3>1, <3>2, <3>3 DEF Contract!AnswerComplete
    <3> QED
      BY <3>4 DEF Contract!Next
  <2>2. CASE state # "Stopped"
    BY <1>35, <2>2, GotoAnswers DEF WaitCheck, WaitPC
  <2> QED
    BY <2>1, <2>2
<1>36. ASSUME NEW w \in Waiters, WaitBlock(w) PROVE Hidden
  BY <1>36, GotoAnswers DEF WaitBlock, WaitPC
<1>37. ASSUME NEW w \in Waiters, WaitSpuriousWakeup(w) PROVE Hidden
  BY <1>37, GotoAnswers DEF WaitSpuriousWakeup, WaitPC
<1>38. ASSUME NEW w \in Waiters, WaitTimeout(w) PROVE Contract!Next
  <2>1. waiter[w] = "blocked" /\ UNCHANGED waitsFor
    BY <1>38 DEF WaitTimeout, WaitGoto
  <2>2. waitsFor[w] # 0
    BY <2>1 DEF UnpausedInv
  <2>3. CASE state = "Stopped"
    <3>1. WaitGoto(w, "blocked", "true")
      BY <1>38, <2>3 DEF WaitTimeout
    <3>2. /\ Answer[w] = "none"
          /\ Answer' = [Answer EXCEPT ![w] = "complete"]
          /\ UNCHANGED <<state, file, begun>>
      BY <3>1, GotoAnswers DEF WaitPC
    <3>3. file = 0 \/ file > waitsFor[w]
      BY <2>3 DEF UnpausedInv, StartPC
    <3>4. Contract!AnswerComplete(w)
      BY <2>1, <2>2, <2>3, <3>2, <3>3 DEF Contract!AnswerComplete
    <3> QED
      BY <3>4 DEF Contract!Next
  <2>4. CASE state # "Stopped"
    <3>1. WaitGoto(w, "blocked", "false") /\ w \in TimedWaiters
      BY <1>38, <2>4 DEF WaitTimeout
    <3>2. /\ Answer[w] = "none"
          /\ Answer' = [Answer EXCEPT ![w] = "timeout"]
          /\ UNCHANGED <<state, file, begun>>
      BY <3>1, GotoAnswers DEF WaitPC
    <3>3. Contract!AnswerTimeout(w)
      BY <2>1, <2>2, <3>1, <3>2 DEF Contract!AnswerTimeout
    <3> QED
      BY <3>3 DEF Contract!Next
  <2> QED
    BY <2>3, <2>4
<1>39. CASE Toggling
  BY <1>39 DEF Toggling
<1>40. CASE UNCHANGED vars
  BY <1>40, <1>0 DEF vars
<1> QED
  BY <1>1, <1>2, <1>3, <1>4, <1>5, <1>6, <1>7, <1>8, <1>9, <1>10, <1>11, <1>12, <1>13,
     <1>14, <1>15, <1>16, <1>17, <1>18, <1>19, <1>20, <1>21, <1>22, <1>23, <1>24,
     <1>25, <1>26, <1>27, <1>28, <1>29, <1>30, <1>31, <1>32, <1>33, <1>34, <1>35,
     <1>36, <1>37, <1>38, <1>39, <1>40
  DEF Next, MainInCall, PollingThread, DiscoveryThread, Waiting, WaiterInCall

\* The state that the refinement rests on: LifecycleInv and, without togglers, UnpausedInv.
LEMMA Unpaused == ASSUME Togglers = {} PROVE Spec => []UnpausedInv
<1>1. Init => UnpausedInv
  BY DEF Init, UnpausedInv, Closing, Finished, StartPC
<1>2. LifecycleInv /\ UnpausedInv /\ [Next]_vars => UnpausedInv'
  BY UnpausedStep DEF LifecycleInv
<1> QED
  BY <1>1, <1>2, Induction, PTL DEF Spec

\* The recorder implements its interface: when nobody pauses it, its file, its public
\* state and the answers of wait_for_completion() behave as module Recording says.
THEOREM Refinement == ASSUME Togglers = {} PROVE Spec => ImplementsRecording
<1>1. Init => Contract!Init
  BY DEF Init, Contract!Init, Answer
<1>2. LifecycleInv /\ UnpausedInv /\ [Next]_vars => [Contract!Next]_(Contract!contract)
  BY ContractStep
<1> QED
  BY <1>1, <1>2, Induction, Unpaused, PTL DEF Spec, ImplementsRecording, Contract!Spec

\* When nobody pauses the recorder, wait_for_completion() answers true only for a
\* recording whose file is closed: the contract allows no other answer.
THEOREM CompletionSealed == ASSUME Togglers = {} PROVE Spec => CompletedRecordingIsSealed
<1> DEFINE Told(w) == waiter[w] # "true" /\ waiter'[w] = "true"
<1>1. ASSUME LifecycleInv, UnpausedInv, [Next]_vars, NEW w \in Waiters, Told(w)
      PROVE  file = 0 \/ file > waitsFor[w]
  <2>1. [Contract!Next]_(Contract!contract)
    BY <1>1, ContractStep
  <2>2. Answer[w] # "complete" /\ Answer'[w] = "complete"
    BY <1>1 DEF Answer
  <2>3. PICK v \in Waiters : Contract!AnswerComplete(v) \/ Contract!AnswerTimeout(v)
    BY <2>1, <2>2 DEF Contract!Next, Contract!contract, Contract!OpenFile, Contract!Begin,
        Contract!CloseFile, Contract!NextFile, Contract!Publish, Contract!Ask
  <2>4. Contract!AnswerComplete(w)
    BY <2>2, <2>3 DEF Contract!AnswerComplete, Contract!AnswerTimeout, Answer
  <2> QED
    BY <2>4 DEF Contract!AnswerComplete
<1>2. LifecycleInv /\ UnpausedInv /\ [Next]_vars
         => [\A w \in Waiters : Told(w) => file = 0 \/ file > waitsFor[w]]_vars
  BY <1>1
<1> QED
  BY <1>2, Induction, Unpaused, PTL DEF Spec, CompletedRecordingIsSealed

\* Every step of the contract keeps what its promise rests on.
LEMMA ContractInvStep ==
    ASSUME Contract!ContractInv, [Contract!Next]_(Contract!contract)
    PROVE  Contract!ContractInv'
<1> USE DEF Contract!ContractInv, Contract!CompleteStaysSealed
<1>1. CASE Contract!OpenFile
  BY <1>1 DEF Contract!OpenFile
<1>2. CASE Contract!Begin
  BY <1>2 DEF Contract!Begin
<1>3. CASE Contract!CloseFile
  BY <1>3 DEF Contract!CloseFile
<1>4. CASE Contract!NextFile
  BY <1>4 DEF Contract!NextFile
<1>5. CASE Contract!Publish
  BY <1>5 DEF Contract!Publish
<1>6. ASSUME NEW w \in Waiters, Contract!Ask(w) PROVE Contract!ContractInv'
  BY <1>6 DEF Contract!Ask
<1>7. ASSUME NEW w \in Waiters, Contract!AnswerComplete(w) PROVE Contract!ContractInv'
  BY <1>7 DEF Contract!AnswerComplete
<1>8. ASSUME NEW w \in Waiters, Contract!AnswerTimeout(w) PROVE Contract!ContractInv'
  BY <1>8 DEF Contract!AnswerTimeout
<1>9. CASE UNCHANGED Contract!contract
  BY <1>9 DEF Contract!contract
<1> QED
  BY <1>1, <1>2, <1>3, <1>4, <1>5, <1>6, <1>7, <1>8, <1>9 DEF Contract!Next

\* What the contract promises: a waiter who was told "complete" was told so for good. No
\* later start() and no later split opens a file for the recording it asked about.
THEOREM ContractKeepsCompleteSealed == Contract!Spec => []Contract!CompleteStaysSealed
<1>1. Contract!Init => Contract!ContractInv
  BY DEF Contract!Init, Contract!ContractInv, Contract!CompleteStaysSealed
<1>2. Contract!ContractInv /\ [Contract!Next]_(Contract!contract) => Contract!ContractInv'
  BY ContractInvStep
<1>3. Contract!ContractInv => Contract!CompleteStaysSealed
  BY DEF Contract!ContractInv
<1> QED
  BY <1>1, <1>2, <1>3, PTL DEF Contract!Spec

\* So does the recorder that implements it: once wait_for_completion() has answered true,
\* the file of that recording is never open again, whatever is started or split later.
THEOREM CompleteIsForEver ==
    ASSUME Togglers = {} PROVE Spec => []Contract!CompleteStaysSealed
<1> QED
  BY Refinement, ContractKeepsCompleteSealed, PTL DEF ImplementsRecording
=============================================================================
