---------------------------- MODULE BotSingle_proof ---------------------------
(* What one read pump adds to the promises of BotManager, for every set of     *)
(* bots, commands and incarnations, and what one StopAll adds, for any number  *)
(* of pumps; and that what the bots are started with and what they say is what *)
(* BotSetup and BotOutput promise.                                             *)
EXTENDS BotSingle, BotManager_proof, BotSetup_proof, BotOutput_proof

USE DEF At, Goto

(* A live process that is monitored is registered.                             *)
LEMMA MonitoredIsRegistered ==
    ASSUME IInv, NEW p \in Procs, os[p] = "alive", monitor[p] # "none"
    PROVE  owner[p] \in Bots /\ processes[owner[p]] = p
<1>1. monitor[p] \in Active
  BY DEF IInv, MonitorInv, WorkerInv
<1> QED
  BY <1>1 DEF IInv, RegistryInv

(* What is registered has an active monitor, and is its bot's.                 *)
LEMMA RegisteredIsMonitored ==
    ASSUME IInv, NEW b \in Bots, processes[b] # None
    PROVE  /\ processes[b] \in Procs /\ owner[processes[b]] = b
           /\ monitor[processes[b]] \in Active
BY DEF IInv, RegistryInv, TypeOK

(* With one pump, a process lives in a slot that is free only if the pump holds *)
(* it to register it.                                                          *)
LEMMA FreeSlotMeansHeld ==
    ASSUME IInv, RolesInv, StartInv, NEW p \in Procs, os[p] = "alive",
           processes[owner[p]] = None
    PROVE  \E w \in Handlers : Holds(w, p) /\ pc[w] = "start.register"
<1>1. monitor[p] \notin Active
  BY NoneAssumption DEF IInv, RegistryInv
<1>2. PICK w \in Workers : Holds(w, p)
  BY <1>1 DEF IInv, MonitorInv
<1>3. w \in Handlers
  BY <1>2 DEF RolesInv, Holds, Workers, Stopping
<1> QED
  BY <1>2, <1>3 DEF StartInv, Holds

(* The steps that keep a read pump a read pump and StopAll StopAll.            *)
LEMMA RolesStep == IInv /\ RolesInv /\ [Next]_vars => RolesInv'
<1> SUFFICES ASSUME IInv, RolesInv, [Next]_vars PROVE RolesInv'
  OBVIOUS
<1>t. TypeOK /\ Handlers \cap Mains = {}
  BY WorkerAssumption DEF IInv
<1> USE DEF TypeOK, Workers
<1> USE DEF sysVars, procVars, bookVars, doneVars, readVars, moniVars, regVars, jobVars
<1>1. ASSUME NEW w \in Workers, HandleCreateBot(w) PROVE RolesInv'
  BY <1>1, <1>t DEF HandleCreateBot, HandleCommand, RolesInv, Stopping
<1>2. ASSUME NEW w \in Workers, HandleStopBot(w) PROVE RolesInv'
  BY <1>2, <1>t DEF HandleStopBot, HandleCommand, RolesInv, Stopping
<1>3. ASSUME NEW w \in Workers, HandleRestartBot(w) PROVE RolesInv'
  BY <1>3, <1>t DEF HandleRestartBot, HandleCommand, RolesInv, Stopping
<1>4. ASSUME NEW w \in Workers, StopAllSnapshot(w) PROVE RolesInv'
  BY <1>4, <1>t DEF StopAllSnapshot, RolesInv, Stopping
<1>5. ASSUME NEW w \in Workers, ReplyError(w) PROVE RolesInv'
  BY <1>5, <1>t DEF ReplyError, Return, RolesInv, Stopping
<1>6. ASSUME NEW w \in Workers, StartBotCheck(w) PROVE RolesInv'
  BY <1>6, <1>t DEF StartBotCheck, RolesInv, Stopping
<1>7. ASSUME NEW w \in Workers, StartBotPrepareFails(w) PROVE RolesInv'
  BY <1>7, <1>t DEF StartBotPrepareFails, RolesInv, Stopping
<1>8. ASSUME NEW w \in Workers, StartBotWrite(w) PROVE RolesInv'
  <2>1. PICK label \in {"start.spawn", "start.fail"} : pc' = [pc EXCEPT ![w] = label]
    BY <1>8 DEF StartBotWrite
  <2> QED
    BY <1>8, <1>t, <2>1 DEF StartBotWrite, RolesInv, Stopping
<1>9. ASSUME NEW w \in Workers, StartBotSpawnFails(w) PROVE RolesInv'
  BY <1>9, <1>t DEF StartBotSpawnFails, RolesInv, Stopping
<1>10. ASSUME NEW w \in Workers, StartBotSpawn(w) PROVE RolesInv'
  BY <1>10, <1>t DEF StartBotSpawn, RolesInv, Stopping
<1>11. ASSUME NEW w \in Workers, StartBotRegister(w) PROVE RolesInv'
  BY <1>11, <1>t DEF StartBotRegister, SaveConfig, SlotFree, RolesInv, Stopping
<1>12. ASSUME NEW w \in Workers, StartBotLose(w) PROVE RolesInv'
  BY <1>12, <1>t DEF StartBotLose, SlotFree, KillEffect, RolesInv, Stopping
<1>13. ASSUME NEW w \in Workers, StartBotReap(w) PROVE RolesInv'
  BY <1>13, <1>t DEF StartBotReap, Reaped, RolesInv, Stopping
<1>14. ASSUME NEW w \in Workers, StartBotDeferredStatus(w) PROVE RolesInv'
  BY <1>14, <1>t DEF StartBotDeferredStatus, RolesInv, Stopping
<1>15. ASSUME NEW w \in Workers, StartBotReport(w) PROVE RolesInv'
  BY <1>15, <1>t DEF StartBotReport, Return, RolesInv, Stopping
<1>16. ASSUME NEW w \in Workers, StopBotLookup(w) PROVE RolesInv'
  BY <1>16, <1>t DEF StopBotLookup, RolesInv, Stopping
<1>17. ASSUME NEW w \in Workers, StopBotNotRunning(w) PROVE RolesInv'
  BY <1>17, <1>t DEF StopBotNotRunning, AfterStopError, RolesInv, Stopping
<1>18. ASSUME NEW w \in Workers, StopBotSignal(w) PROVE RolesInv'
  BY <1>18, <1>t DEF StopBotSignal, RolesInv, Stopping
<1>19. ASSUME NEW w \in Workers, StopBotDone(w) PROVE RolesInv'
  BY <1>19, <1>t DEF StopBotDone, StopBotReturnsNil, Return, Joined, RolesInv,
     Stopping
<1>20. ASSUME NEW w \in Workers, StopBotTimeout(w) PROVE RolesInv'
  BY <1>20, <1>t DEF StopBotTimeout, KillEffect, RolesInv, Stopping
<1>21. ASSUME NEW w \in Workers, StopBotKillFails(w) PROVE RolesInv'
  BY <1>21, <1>t DEF StopBotKillFails, AfterStopError, RolesInv, Stopping
<1>22. ASSUME NEW w \in Workers, RestartBotConfig(w) PROVE RolesInv'
  BY <1>22, <1>t DEF RestartBotConfig, RolesInv, Stopping
<1>23. ASSUME NEW w \in Workers, RestartBotLook(w) PROVE RolesInv'
  BY <1>23, <1>t DEF RestartBotLook, RolesInv, Stopping
<1>24. ASSUME NEW w \in Workers, StopAllNext(w) PROVE RolesInv'
  BY <1>24, <1>t DEF StopAllNext, RolesInv, Stopping
<1>25. ASSUME NEW w \in Workers, StopAllReturns(w) PROVE RolesInv'
  BY <1>25, <1>t DEF StopAllReturns, RolesInv, Stopping
<1>26. ASSUME NEW w \in Workers, StopAllDeadline(w) PROVE RolesInv'
  BY <1>26, <1>t DEF StopAllDeadline, RolesInv, Stopping
<1>27. ASSUME NEW p \in Procs, ReadStdoutStart(p) PROVE RolesInv'
  BY <1>27, <1>t DEF ReadStdoutStart, RolesInv, Stopping
<1>28. ASSUME NEW p \in Procs, ReadStdoutExitMessage(p) PROVE RolesInv'
  BY <1>28, <1>t DEF ReadStdoutExitMessage, RolesInv, Stopping
<1>29. ASSUME NEW p \in Procs, ReadStdoutEOF(p) PROVE RolesInv'
  BY <1>29, <1>t DEF ReadStdoutEOF, ReaderReturns, Closes, RolesInv, Stopping
<1>30. ASSUME NEW p \in Procs, ReadStdoutClosed(p) PROVE RolesInv'
  BY <1>30, <1>t DEF ReadStdoutClosed, ReaderReturns, Closes, RolesInv, Stopping
<1>31. ASSUME NEW p \in Procs, ReadStdoutTooLong(p) PROVE RolesInv'
  BY <1>31, <1>t DEF ReadStdoutTooLong, ReaderReturns, Closes, RolesInv, Stopping
<1>32. ASSUME NEW p \in Procs, MonitorStart(p) PROVE RolesInv'
  BY <1>32, <1>t DEF MonitorStart, RolesInv, Stopping
<1>33. ASSUME NEW p \in Procs, MonitorWait(p) PROVE RolesInv'
  BY <1>33, <1>t DEF MonitorWait, MonitorGoto, RolesInv, Stopping
<1>34. ASSUME NEW p \in Procs, MonitorDrain(p) PROVE RolesInv'
  BY <1>34, <1>t DEF MonitorDrain, MonitorGoto, OutputRead, Verdict, RolesInv,
     Stopping
<1>35. ASSUME NEW p \in Procs, MonitorUnregister(p) PROVE RolesInv'
  BY <1>35, <1>t DEF MonitorUnregister, MonitorGoto, RolesInv, Stopping
<1>36. ASSUME NEW p \in Procs, MonitorReport(p) PROVE RolesInv'
  BY <1>36, <1>t DEF MonitorReport, MonitorGoto, RolesInv, Stopping
<1>37. ASSUME NEW p \in Procs, MonitorFinish(p) PROVE RolesInv'
  BY <1>37, <1>t DEF MonitorFinish, MonitorGoto, RolesInv, Stopping
<1>38. ASSUME NEW p \in Procs, RunnerLoad(p) PROVE RolesInv'
  BY <1>38, <1>t DEF RunnerLoad, RolesInv, Stopping
<1>39. ASSUME NEW p \in Procs, RunnerExitMessage(p) PROVE RolesInv'
  BY <1>39, <1>t DEF RunnerExitMessage, RolesInv, Stopping
<1>40. ASSUME NEW p \in Procs, RunnerExit(p) PROVE RolesInv'
  BY <1>40, <1>t DEF RunnerExit, RolesInv, Stopping
<1>41. CASE UNCHANGED vars
  BY <1>41, <1>t DEF vars, RolesInv, Stopping
<1> QED
  BY <1>1, <1>2, <1>3, <1>4, <1>5, <1>6, <1>7, <1>8, <1>9, <1>10, <1>11,
     <1>12, <1>13, <1>14, <1>15, <1>16, <1>17, <1>18, <1>19, <1>20, <1>21,
     <1>22, <1>23, <1>24, <1>25, <1>26, <1>27, <1>28, <1>29, <1>30, <1>31,
     <1>32, <1>33, <1>34, <1>35, <1>36, <1>37, <1>38, <1>39, <1>40, <1>41
  DEF Next, Dispatch, Worker, StartBot, StopBot, RestartBot, StopAll, readStdout,
      monitorProcess, Runner

(* With one pump no step comes between a StartBot and its slot.                *)
LEMMA StartStep == OnePump /\ IInv /\ RolesInv /\ StartInv /\ [Next]_vars => StartInv'
<1> SUFFICES ASSUME OnePump, IInv, RolesInv, StartInv, [Next]_vars PROVE StartInv'
  OBVIOUS
<1>t. TypeOK /\ Handlers \cap Mains = {}
  BY WorkerAssumption DEF IInv
<1>i. OnePump /\ RolesInv /\ StartInv
  OBVIOUS
<1> USE DEF TypeOK, Workers, RolesInv, Stopping, OnePump
<1> USE DEF sysVars, procVars, bookVars, doneVars, readVars, moniVars, regVars, jobVars
<1>1. ASSUME NEW w \in Workers, HandleCreateBot(w) PROVE StartInv'
  BY <1>1, <1>t, <1>i DEF HandleCreateBot, HandleCommand, StartInv
<1>2. ASSUME NEW w \in Workers, HandleStopBot(w) PROVE StartInv'
  BY <1>2, <1>t, <1>i DEF HandleStopBot, HandleCommand, StartInv
<1>3. ASSUME NEW w \in Workers, HandleRestartBot(w) PROVE StartInv'
  BY <1>3, <1>t, <1>i DEF HandleRestartBot, HandleCommand, StartInv
<1>4. ASSUME NEW w \in Workers, StopAllSnapshot(w) PROVE StartInv'
  <2>1. \A v \in Handlers : pc'[v] = pc[v]
    BY <1>4, <1>t DEF StopAllSnapshot
  <2>2. UNCHANGED <<bot, conf, processes, strategyFile, os, owner, cfg, code>>
    BY <1>4 DEF StopAllSnapshot
  <2> QED
    BY <1>i, <2>1, <2>2 DEF StartInv
<1>5. ASSUME NEW w \in Workers, ReplyError(w) PROVE StartInv'
  BY <1>5, <1>t, <1>i DEF ReplyError, Return, StartInv
<1>6. ASSUME NEW w \in Workers, StartBotCheck(w) PROVE StartInv'
  BY <1>6, <1>t, <1>i DEF StartBotCheck, MayStart, StartInv
<1>7. ASSUME NEW w \in Workers, StartBotPrepareFails(w) PROVE StartInv'
  BY <1>7, <1>t, <1>i DEF StartBotPrepareFails, StartInv
<1>8. ASSUME NEW w \in Workers, StartBotWrite(w) PROVE StartInv'
  <2>1. PICK label \in {"start.spawn", "start.fail"} : pc' = [pc EXCEPT ![w] = label]
    BY <1>8 DEF StartBotWrite
  <2>2. w \in Handlers /\ processes[bot[w]] = None /\ bot[w] \in Bots
    BY <1>8, <1>i DEF StartBotWrite, StartInv, IInv, WorkerInv, AtHome
  <2>3. \A p \in Procs : os[p] = "alive" => owner[p] # bot[w]
    <3> SUFFICES ASSUME NEW p \in Procs, os[p] = "alive", owner[p] = bot[w] PROVE FALSE
      OBVIOUS
    <3>1. \E v \in Handlers : pc[v] = "start.register"
      BY <2>2, <1>i, FreeSlotMeansHeld
    <3> QED
      BY <1>8, <1>i, <2>2, <3>1 DEF StartBotWrite
  <2>4. /\ strategyFile' = [strategyFile EXCEPT ![bot[w]] = conf[w]]
        /\ UNCHANGED <<bot, conf, processes, os, owner, cfg, code>>
    BY <1>8 DEF StartBotWrite
  <2>5. \A v \in Handlers : v = w
    BY <1>i, <2>2
  <2>6. \A v \in Handlers :
          /\ pc'[v] # "start.reap"
          /\ pc'[v] \in {"start.prepare", "start.spawn", "start.register"} =>
                processes'[bot'[v]] = None
          /\ pc'[v] = "start.spawn" => strategyFile'[bot'[v]] = conf'[v]
    BY <1>t, <2>1, <2>2, <2>4, <2>5
  <2>7. \A p \in Procs :
          /\ os'[p] = "alive" => strategyFile'[owner'[p]] = cfg'[p]
          /\ code'[p] # None => os'[p] = "alive" /\ code'[p] = cfg'[p]
    BY <1>t, <1>i, <2>3, <2>4 DEF StartInv
  <2> QED
    BY <2>6, <2>7 DEF StartInv
<1>9. ASSUME NEW w \in Workers, StartBotSpawnFails(w) PROVE StartInv'
  BY <1>9, <1>t, <1>i DEF StartBotSpawnFails, StartInv
<1>10. ASSUME NEW w \in Workers, StartBotSpawn(w) PROVE StartInv'
  BY <1>10, <1>t, <1>i DEF StartBotSpawn, StartInv
<1>11. ASSUME NEW w \in Workers, StartBotRegister(w) PROVE StartInv'
  BY <1>11, <1>t, <1>i DEF StartBotRegister, SaveConfig, SlotFree, StartInv
<1>12. ASSUME NEW w \in Workers, StartBotLose(w) PROVE StartInv'
  BY <1>12, <1>t, <1>i DEF StartBotLose, SlotFree, KillEffect, StartInv
<1>13. ASSUME NEW w \in Workers, StartBotReap(w) PROVE StartInv'
  BY <1>13, <1>t, <1>i DEF StartBotReap, Reaped, StartInv
<1>14. ASSUME NEW w \in Workers, StartBotDeferredStatus(w) PROVE StartInv'
  BY <1>14, <1>t, <1>i DEF StartBotDeferredStatus, StartInv
<1>15. ASSUME NEW w \in Workers, StartBotReport(w) PROVE StartInv'
  BY <1>15, <1>t, <1>i DEF StartBotReport, Return, StartInv
<1>16. ASSUME NEW w \in Workers, StopBotLookup(w) PROVE StartInv'
  BY <1>16, <1>t, <1>i DEF StopBotLookup, StartInv
<1>17. ASSUME NEW w \in Workers, StopBotNotRunning(w) PROVE StartInv'
  BY <1>17, <1>t, <1>i DEF StopBotNotRunning, AfterStopError, StartInv
<1>18. ASSUME NEW w \in Workers, StopBotSignal(w) PROVE StartInv'
  BY <1>18, <1>t, <1>i DEF StopBotSignal, StartInv
<1>19. ASSUME NEW w \in Workers, StopBotDone(w) PROVE StartInv'
  BY <1>19, <1>t, <1>i DEF StopBotDone, StopBotReturnsNil, Return, Joined,
     StartInv
<1>20. ASSUME NEW w \in Workers, StopBotTimeout(w) PROVE StartInv'
  BY <1>20, <1>t, <1>i DEF StopBotTimeout, KillEffect, StartInv
<1>21. ASSUME NEW w \in Workers, StopBotKillFails(w) PROVE StartInv'
  BY <1>21, <1>t, <1>i DEF StopBotKillFails, AfterStopError, StartInv
<1>22. ASSUME NEW w \in Workers, RestartBotConfig(w) PROVE StartInv'
  BY <1>22, <1>t, <1>i DEF RestartBotConfig, StartInv
<1>23. ASSUME NEW w \in Workers, RestartBotLook(w) PROVE StartInv'
  BY <1>23, <1>t, <1>i DEF RestartBotLook, StartInv
<1>24. ASSUME NEW w \in Workers, StopAllNext(w) PROVE StartInv'
  BY <1>24, <1>t, <1>i DEF StopAllNext, StartInv
<1>25. ASSUME NEW w \in Workers, StopAllReturns(w) PROVE StartInv'
  BY <1>25, <1>t, <1>i DEF StopAllReturns, StartInv
<1>26. ASSUME NEW w \in Workers, StopAllDeadline(w) PROVE StartInv'
  BY <1>26, <1>t, <1>i DEF StopAllDeadline, StartInv
<1>27. ASSUME NEW p \in Procs, ReadStdoutStart(p) PROVE StartInv'
  BY <1>27, <1>t, <1>i DEF ReadStdoutStart, StartInv
<1>28. ASSUME NEW p \in Procs, ReadStdoutExitMessage(p) PROVE StartInv'
  BY <1>28, <1>t, <1>i DEF ReadStdoutExitMessage, StartInv
<1>29. ASSUME NEW p \in Procs, ReadStdoutEOF(p) PROVE StartInv'
  BY <1>29, <1>t, <1>i DEF ReadStdoutEOF, ReaderReturns, Closes, StartInv
<1>30. ASSUME NEW p \in Procs, ReadStdoutClosed(p) PROVE StartInv'
  BY <1>30, <1>t, <1>i DEF ReadStdoutClosed, ReaderReturns, Closes, StartInv
<1>31. ASSUME NEW p \in Procs, ReadStdoutTooLong(p) PROVE StartInv'
  BY <1>31, <1>t, <1>i DEF ReadStdoutTooLong, ReaderReturns, Closes, StartInv
<1>32. ASSUME NEW p \in Procs, MonitorStart(p) PROVE StartInv'
  BY <1>32, <1>t, <1>i DEF MonitorStart, StartInv
<1>33. ASSUME NEW p \in Procs, MonitorWait(p) PROVE StartInv'
  BY <1>33, <1>t, <1>i DEF MonitorWait, MonitorGoto, StartInv
<1>34. ASSUME NEW p \in Procs, MonitorDrain(p) PROVE StartInv'
  BY <1>34, <1>t, <1>i DEF MonitorDrain, MonitorGoto, OutputRead, Verdict,
     StartInv
<1>35. ASSUME NEW p \in Procs, MonitorUnregister(p) PROVE StartInv'
  BY <1>35, <1>t, <1>i DEF MonitorUnregister, MonitorGoto, StartInv
<1>36. ASSUME NEW p \in Procs, MonitorReport(p) PROVE StartInv'
  BY <1>36, <1>t, <1>i DEF MonitorReport, MonitorGoto, StartInv
<1>37. ASSUME NEW p \in Procs, MonitorFinish(p) PROVE StartInv'
  BY <1>37, <1>t, <1>i DEF MonitorFinish, MonitorGoto, StartInv
<1>38. ASSUME NEW p \in Procs, RunnerLoad(p) PROVE StartInv'
  BY <1>38, <1>t, <1>i DEF RunnerLoad, StartInv
<1>39. ASSUME NEW p \in Procs, RunnerExitMessage(p) PROVE StartInv'
  BY <1>39, <1>t, <1>i DEF RunnerExitMessage, StartInv
<1>40. ASSUME NEW p \in Procs, RunnerExit(p) PROVE StartInv'
  BY <1>40, <1>t, <1>i DEF RunnerExit, StartInv
<1>41. CASE UNCHANGED vars
  BY <1>41, <1>t, <1>i DEF vars, StartInv
<1> QED
  BY <1>1, <1>2, <1>3, <1>4, <1>5, <1>6, <1>7, <1>8, <1>9, <1>10, <1>11,
     <1>12, <1>13, <1>14, <1>15, <1>16, <1>17, <1>18, <1>19, <1>20, <1>21,
     <1>22, <1>23, <1>24, <1>25, <1>26, <1>27, <1>28, <1>29, <1>30, <1>31,
     <1>32, <1>33, <1>34, <1>35, <1>36, <1>37, <1>38, <1>39, <1>40, <1>41
  DEF Next, Dispatch, Worker, StartBot, StopBot, RestartBot, StopAll, readStdout,
      monitorProcess, Runner

(* With one pump only the monitor of a process being stopped speaks for its bot. *)
LEMMA StopStep == OnePump /\ IInv /\ RolesInv /\ StopInv /\ [Next]_vars => StopInv'
<1> SUFFICES ASSUME OnePump, IInv, RolesInv, StopInv, [Next]_vars PROVE StopInv'
  OBVIOUS
<1>t. TypeOK /\ Handlers \cap Mains = {}
  BY WorkerAssumption DEF IInv
<1>i. OnePump /\ RolesInv /\ StopInv
  OBVIOUS
<1> USE DEF TypeOK, Workers, RolesInv, Stopping, OnePump
<1> USE DEF sysVars, procVars, bookVars, doneVars, readVars, moniVars, regVars, jobVars
<1>1. ASSUME NEW w \in Workers, HandleCreateBot(w) PROVE StopInv'
  BY <1>1, <1>t, <1>i DEF HandleCreateBot, HandleCommand, StopInv
<1>2. ASSUME NEW w \in Workers, HandleStopBot(w) PROVE StopInv'
  BY <1>2, <1>t, <1>i DEF HandleStopBot, HandleCommand, StopInv
<1>3. ASSUME NEW w \in Workers, HandleRestartBot(w) PROVE StopInv'
  BY <1>3, <1>t, <1>i DEF HandleRestartBot, HandleCommand, StopInv
<1>4. ASSUME NEW w \in Workers, StopAllSnapshot(w) PROVE StopInv'
  BY <1>4, <1>t, <1>i DEF StopAllSnapshot, StopInv
<1>5. ASSUME NEW w \in Workers, ReplyError(w) PROVE StopInv'
  BY <1>5, <1>t, <1>i DEF ReplyError, Return, StopInv
<1>6. ASSUME NEW w \in Workers, StartBotCheck(w) PROVE StopInv'
  BY <1>6, <1>t, <1>i DEF StartBotCheck, StopInv
<1>7. ASSUME NEW w \in Workers, StartBotPrepareFails(w) PROVE StopInv'
  BY <1>7, <1>t, <1>i DEF StartBotPrepareFails, StopInv
<1>8. ASSUME NEW w \in Workers, StartBotWrite(w) PROVE StopInv'
  BY <1>8, <1>t, <1>i DEF StartBotWrite, StopInv
<1>9. ASSUME NEW w \in Workers, StartBotSpawnFails(w) PROVE StopInv'
  BY <1>9, <1>t, <1>i DEF StartBotSpawnFails, StopInv
<1>10. ASSUME NEW w \in Workers, StartBotSpawn(w) PROVE StopInv'
  BY <1>10, <1>t, <1>i DEF StartBotSpawn, StopInv
<1>11. ASSUME NEW w \in Workers, StartBotRegister(w) PROVE StopInv'
  BY <1>11, <1>t, <1>i DEF StartBotRegister, SaveConfig, SlotFree, StopInv
<1>12. ASSUME NEW w \in Workers, StartBotLose(w) PROVE StopInv'
  BY <1>12, <1>t, <1>i DEF StartBotLose, SlotFree, KillEffect, StopInv
<1>13. ASSUME NEW w \in Workers, StartBotReap(w) PROVE StopInv'
  BY <1>13, <1>t, <1>i DEF StartBotReap, Reaped, StopInv
<1>14. ASSUME NEW w \in Workers, StartBotDeferredStatus(w) PROVE StopInv'
  BY <1>14, <1>t, <1>i DEF StartBotDeferredStatus, StopInv
<1>15. ASSUME NEW w \in Workers, StartBotReport(w) PROVE StopInv'
  BY <1>15, <1>t, <1>i DEF StartBotReport, Return, StopInv
<1>16. ASSUME NEW w \in Workers, StopBotLookup(w) PROVE StopInv'
  <2>1. bot[w] \in Bots
    BY <1>16 DEF StopBotLookup, IInv, WorkerInv, AtHome
  <2>2. /\ processes[bot[w]] \in Procs /\ owner[processes[bot[w]]] = bot[w]
        /\ monitor[processes[bot[w]]] \in Active
    BY <1>16, <2>1, RegisteredIsMonitored DEF StopBotLookup
  <2> QED
    BY <1>16, <1>t, <1>i, <2>1, <2>2 DEF StopBotLookup, StopInv, Active
<1>17. ASSUME NEW w \in Workers, StopBotNotRunning(w) PROVE StopInv'
  BY <1>17, <1>t, <1>i DEF StopBotNotRunning, AfterStopError, StopInv
<1>18. ASSUME NEW w \in Workers, StopBotSignal(w) PROVE StopInv'
  BY <1>18, <1>t, <1>i DEF StopBotSignal, StopInv
<1>19. ASSUME NEW w \in Workers, StopBotDone(w) PROVE StopInv'
  BY <1>19, <1>t, <1>i DEF StopBotDone, StopBotReturnsNil, Return, Joined, StopInv
<1>20. ASSUME NEW w \in Workers, StopBotTimeout(w) PROVE StopInv'
  BY <1>20, <1>t, <1>i DEF StopBotTimeout, KillEffect, StopInv
<1>21. ASSUME NEW w \in Workers, StopBotKillFails(w) PROVE StopInv'
  <2>1. /\ \A v \in Workers : pc'[v] \in Stopping => v # w /\ pc'[v] = pc[v]
        /\ UNCHANGED <<tgt, bot, owner, monitor, processes, reported, verdict>>
    BY <1>21, <1>t DEF StopBotKillFails, AfterStopError
  <2> QED
    BY <1>i, <2>1 DEF StopInv
<1>22. ASSUME NEW w \in Workers, RestartBotConfig(w) PROVE StopInv'
  BY <1>22, <1>t, <1>i DEF RestartBotConfig, StopInv
<1>23. ASSUME NEW w \in Workers, RestartBotLook(w) PROVE StopInv'
  BY <1>23, <1>t, <1>i DEF RestartBotLook, StopInv
<1>24. ASSUME NEW w \in Workers, StopAllNext(w) PROVE StopInv'
  BY <1>24, <1>t, <1>i DEF StopAllNext, StopInv
<1>25. ASSUME NEW w \in Workers, StopAllReturns(w) PROVE StopInv'
  BY <1>25, <1>t, <1>i DEF StopAllReturns, StopInv
<1>26. ASSUME NEW w \in Workers, StopAllDeadline(w) PROVE StopInv'
  BY <1>26, <1>t, <1>i DEF StopAllDeadline, StopInv
<1>27. ASSUME NEW p \in Procs, ReadStdoutStart(p) PROVE StopInv'
  BY <1>27, <1>t, <1>i DEF ReadStdoutStart, StopInv
<1>28. ASSUME NEW p \in Procs, ReadStdoutExitMessage(p) PROVE StopInv'
  BY <1>28, <1>t, <1>i DEF ReadStdoutExitMessage, StopInv
<1>29. ASSUME NEW p \in Procs, ReadStdoutEOF(p) PROVE StopInv'
  BY <1>29, <1>t, <1>i DEF ReadStdoutEOF, ReaderReturns, Closes, StopInv
<1>30. ASSUME NEW p \in Procs, ReadStdoutClosed(p) PROVE StopInv'
  BY <1>30, <1>t, <1>i DEF ReadStdoutClosed, ReaderReturns, Closes, StopInv
<1>31. ASSUME NEW p \in Procs, ReadStdoutTooLong(p) PROVE StopInv'
  BY <1>31, <1>t, <1>i DEF ReadStdoutTooLong, ReaderReturns, Closes, StopInv
<1>32. ASSUME NEW p \in Procs, MonitorStart(p) PROVE StopInv'
  BY <1>32, <1>t, <1>i DEF MonitorStart, StopInv
<1>33. ASSUME NEW p \in Procs, MonitorWait(p) PROVE StopInv'
  BY <1>33, <1>t, <1>i DEF MonitorWait, MonitorGoto, StopInv
<1>34. ASSUME NEW p \in Procs, MonitorDrain(p) PROVE StopInv'
  BY <1>34, <1>t, <1>i DEF MonitorDrain, MonitorGoto, OutputRead, Verdict, StopInv
<1>35. ASSUME NEW p \in Procs, MonitorUnregister(p) PROVE StopInv'
  BY <1>35, <1>t, <1>i DEF MonitorUnregister, MonitorGoto, StopInv
<1>36. ASSUME NEW p \in Procs, MonitorReport(p) PROVE StopInv'
  <2>1. verdict[p] \in {"stopped", "error"}
    BY <1>36, <1>t, <1>i DEF MonitorReport, StopInv
  <2>2. \A v \in Handlers : pc[v] \in Stopping => bot[v] \in Bots
    BY DEF IInv, WorkerInv, AtHome
  <2>3. /\ reported' = [reported EXCEPT ![owner[p]] = verdict[p]]
        /\ monitor' = [monitor EXCEPT ![p] = "finish"]
        /\ monitor[p] = "report"
        /\ UNCHANGED <<pc, tgt, bot, owner, processes, verdict>>
    BY <1>36 DEF MonitorReport, MonitorGoto
  <2>4. \A v \in Handlers : pc[v] \in Stopping /\ monitor'[tgt[v]] \in {"finish", "done"} =>
          reported'[bot[v]] \in {"stopped", "error"}
    <3> SUFFICES ASSUME NEW v \in Handlers, pc[v] \in Stopping,
                        monitor'[tgt[v]] \in {"finish", "done"}
                 PROVE  reported'[bot[v]] \in {"stopped", "error"}
      OBVIOUS
    <3>1. tgt[v] \in Procs /\ owner[tgt[v]] = bot[v]
      BY <1>i DEF StopInv
    <3>2. CASE owner[p] = bot[v]
      BY <1>t, <2>1, <2>2, <2>3, <3>2
    <3>3. CASE owner[p] # bot[v]
      BY <1>t, <1>i, <2>2, <2>3, <3>1, <3>3 DEF StopInv
    <3> QED
      BY <3>2, <3>3
  <2>5. \A q \in Procs : monitor'[q] # "none" <=> monitor[q] # "none"
    BY <1>t, <2>3
  <2> QED
    BY <1>t, <1>i, <2>3, <2>4, <2>5 DEF StopInv
<1>37. ASSUME NEW p \in Procs, MonitorFinish(p) PROVE StopInv'
  BY <1>37, <1>t, <1>i DEF MonitorFinish, MonitorGoto, StopInv
<1>38. ASSUME NEW p \in Procs, RunnerLoad(p) PROVE StopInv'
  BY <1>38, <1>t, <1>i DEF RunnerLoad, StopInv
<1>39. ASSUME NEW p \in Procs, RunnerExitMessage(p) PROVE StopInv'
  BY <1>39, <1>t, <1>i DEF RunnerExitMessage, StopInv
<1>40. ASSUME NEW p \in Procs, RunnerExit(p) PROVE StopInv'
  BY <1>40, <1>t, <1>i DEF RunnerExit, StopInv
<1>41. CASE UNCHANGED vars
  BY <1>41, <1>t, <1>i DEF vars, StopInv
<1> QED
  BY <1>1, <1>2, <1>3, <1>4, <1>5, <1>6, <1>7, <1>8, <1>9, <1>10, <1>11,
     <1>12, <1>13, <1>14, <1>15, <1>16, <1>17, <1>18, <1>19, <1>20, <1>21,
     <1>22, <1>23, <1>24, <1>25, <1>26, <1>27, <1>28, <1>29, <1>30, <1>31,
     <1>32, <1>33, <1>34, <1>35, <1>36, <1>37, <1>38, <1>39, <1>40, <1>41
  DEF Next, Dispatch, Worker, StartBot, StopBot, RestartBot, StopAll, readStdout,
      monitorProcess, Runner

(* StopAll forgets no live process it answers for, whatever the pumps do.      *)
LEMMA StopAllStep == IInv /\ RolesInv /\ StopAllInv /\ [Next]_vars => StopAllInv'
<1> SUFFICES ASSUME IInv, RolesInv, StopAllInv, [Next]_vars PROVE StopAllInv'
  OBVIOUS
<1>t. TypeOK /\ Handlers \cap Mains = {} /\ \A v, w \in Mains : v = w
  BY WorkerAssumption, MainAssumption DEF IInv
<1>i. RolesInv /\ StopAllInv
  OBVIOUS
<1> USE DEF TypeOK, Workers, RolesInv, Stopping
<1> USE DEF sysVars, procVars, bookVars, doneVars, readVars, moniVars, regVars, jobVars
<1>1. ASSUME NEW w \in Workers, HandleCreateBot(w) PROVE StopAllInv'
  BY <1>1, <1>t, <1>i DEF HandleCreateBot, HandleCommand, StopAllInv, Pending
<1>2. ASSUME NEW w \in Workers, HandleStopBot(w) PROVE StopAllInv'
  BY <1>2, <1>t, <1>i DEF HandleStopBot, HandleCommand, StopAllInv, Pending
<1>3. ASSUME NEW w \in Workers, HandleRestartBot(w) PROVE StopAllInv'
  BY <1>3, <1>t, <1>i DEF HandleRestartBot, HandleCommand, StopAllInv, Pending
<1>4. ASSUME NEW w \in Workers, StopAllSnapshot(w) PROVE StopAllInv'
  <2>1. \A b \in Bots : processes[b] # None =>
          /\ processes[b] \in Procs /\ owner[processes[b]] = b
          /\ monitor[processes[b]] # "none"
    BY RegisteredIsMonitored DEF Active
  <2>2. /\ w \in Mains /\ pc'[w] = "all.next"
        /\ todo' = {b \in Bots : processes[b] # None}
        /\ snap' = {processes[b] : b \in todo'}
        /\ UNCHANGED <<os, owner, monitor>>
    BY <1>4, <1>t DEF StopAllSnapshot
  <2>3. \A q \in snap' : monitor[q] # "none" /\ owner[q] \in todo'
    BY <2>1, <2>2
  <2>4. \A v \in Mains : v = w
    BY <1>t, <2>2
  <2> QED
    BY <2>2, <2>3, <2>4 DEF StopAllInv, Pending
<1>5. ASSUME NEW w \in Workers, ReplyError(w) PROVE StopAllInv'
  BY <1>5, <1>t, <1>i DEF ReplyError, Return, StopAllInv, Pending
<1>6. ASSUME NEW w \in Workers, StartBotCheck(w) PROVE StopAllInv'
  BY <1>6, <1>t, <1>i DEF StartBotCheck, StopAllInv, Pending
<1>7. ASSUME NEW w \in Workers, StartBotPrepareFails(w) PROVE StopAllInv'
  BY <1>7, <1>t, <1>i DEF StartBotPrepareFails, StopAllInv, Pending
<1>8. ASSUME NEW w \in Workers, StartBotWrite(w) PROVE StopAllInv'
  BY <1>8, <1>t, <1>i DEF StartBotWrite, StopAllInv, Pending
<1>9. ASSUME NEW w \in Workers, StartBotSpawnFails(w) PROVE StopAllInv'
  BY <1>9, <1>t, <1>i DEF StartBotSpawnFails, StopAllInv, Pending
<1>10. ASSUME NEW w \in Workers, StartBotSpawn(w) PROVE StopAllInv'
  <2>1. PICK q \in Procs : os[q] = "none" /\ os' = [os EXCEPT ![q] = "alive"]
                           /\ owner' = [owner EXCEPT ![q] = bot[w]]
    BY <1>10 DEF StartBotSpawn
  <2>2. q \notin snap
    BY <2>1, <1>i DEF IInv, MonitorInv, StopAllInv
  <2>3. \A q1 \in snap : os'[q1] = os[q1] /\ owner'[q1] = owner[q1]
    BY <1>t, <2>1, <2>2
  <2>4. w \notin Mains
    BY <1>10, <1>i DEF StartBotSpawn
  <2>5. \A v \in Mains : pc'[v] = pc[v] /\ tgt'[v] = tgt[v] /\ bot'[v] = bot[v]
    BY <1>10, <1>t, <2>4 DEF StartBotSpawn
  <2>6. UNCHANGED <<monitor, snap, todo>>
    BY <1>10 DEF StartBotSpawn
  <2> QED
    BY <1>i, <2>3, <2>5, <2>6 DEF StopAllInv, Pending
<1>11. ASSUME NEW w \in Workers, StartBotRegister(w) PROVE StopAllInv'
  <2>1. \A v \in Mains : pc'[v] = pc[v]
    BY <1>11, <1>t, <1>i DEF StartBotRegister
  <2>2. UNCHANGED <<os, owner, snap, todo, tgt, bot>>
    BY <1>11 DEF StartBotRegister
  <2>3. \A q \in snap : monitor'[q] # "none"
    BY <1>11, <1>t, <1>i DEF StartBotRegister, StopAllInv
  <2> QED
    BY <1>i, <2>1, <2>2, <2>3 DEF StopAllInv, Pending
<1>12. ASSUME NEW w \in Workers, StartBotLose(w) PROVE StopAllInv'
  BY <1>12, <1>t, <1>i DEF StartBotLose, SlotFree, KillEffect, StopAllInv, Pending
<1>13. ASSUME NEW w \in Workers, StartBotReap(w) PROVE StopAllInv'
  BY <1>13, <1>t, <1>i DEF StartBotReap, Reaped, StopAllInv, Pending
<1>14. ASSUME NEW w \in Workers, StartBotDeferredStatus(w) PROVE StopAllInv'
  BY <1>14, <1>t, <1>i DEF StartBotDeferredStatus, StopAllInv, Pending
<1>15. ASSUME NEW w \in Workers, StartBotReport(w) PROVE StopAllInv'
  BY <1>15, <1>t, <1>i DEF StartBotReport, Return, StopAllInv, Pending
<1>16. ASSUME NEW w \in Workers, StopBotLookup(w) PROVE StopAllInv'
  <2>1. \A q \in snap : os[q] = "alive" => processes[owner[q]] = q
    BY <1>t, <1>i, MonitoredIsRegistered DEF StopAllInv
  <2>2. /\ pc[w] = "stop.lookup" /\ pc'[w] = "stop.signal"
        /\ tgt'[w] = processes[bot[w]]
        /\ \A v \in Workers \ {w} : pc'[v] = pc[v] /\ tgt'[v] = tgt[v]
        /\ UNCHANGED <<os, owner, monitor, snap, todo, bot>>
    BY <1>16, <1>t DEF StopBotLookup
  <2> QED
    BY <1>i, <2>1, <2>2 DEF StopAllInv, Pending
<1>17. ASSUME NEW w \in Workers, StopBotNotRunning(w) PROVE StopAllInv'
  <2>1. \A q \in snap : os[q] = "alive" => q \in Procs /\ processes[owner[q]] = q
    BY <1>t, <1>i, MonitoredIsRegistered DEF StopAllInv
  <2>2. \A q \in snap : os[q] = "alive" => owner[q] # bot[w]
    BY <1>17, <2>1, NoneAssumption DEF StopBotNotRunning
  <2>3. /\ pc[w] = "stop.lookup"
        /\ UNCHANGED <<os, owner, monitor, snap, todo, bot, tgt>>
    BY <1>17 DEF StopBotNotRunning
  <2>4. \A v \in Workers \ {w} : pc'[v] = pc[v]
    BY <1>17, <1>t DEF StopBotNotRunning
  <2>5. w \in Mains => pc'[w] = "all.next"
    <3>1. w \in Mains => op[w] = "stopall"
      BY <1>i, <2>3
    <3> QED
      BY <1>17, <1>t, <3>1 DEF StopBotNotRunning, AfterStopError
  <2> QED
    BY <1>i, <2>2, <2>3, <2>4, <2>5 DEF StopAllInv, Pending
<1>18. ASSUME NEW w \in Workers, StopBotSignal(w) PROVE StopAllInv'
  BY <1>18, <1>t, <1>i DEF StopBotSignal, StopAllInv, Pending
<1>19. ASSUME NEW w \in Workers, StopBotDone(w) PROVE StopAllInv'
  <2>1. os[tgt[w]] # "alive"
    BY <1>19, <1>t DEF StopBotDone, Joined, IInv, MonitorInv
  <2>2. /\ pc[w] \in Stopping
        /\ \A v \in Mains : v # w => pc'[v] = pc[v] /\ bot'[v] = bot[v] /\ tgt'[v] = tgt[v]
        /\ w \in Mains => pc'[w] = "all.next"
        /\ UNCHANGED <<os, owner, monitor, snap, todo>>
    BY <1>19, <1>t, <1>i DEF StopBotDone, StopBotReturnsNil, Return
  <2> QED
    BY <1>i, <2>1, <2>2 DEF StopAllInv, Pending
<1>20. ASSUME NEW w \in Workers, StopBotTimeout(w) PROVE StopAllInv'
  BY <1>20, <1>t, <1>i DEF StopBotTimeout, KillEffect, StopAllInv, Pending
<1>21. ASSUME NEW w \in Workers, StopBotKillFails(w) PROVE StopAllInv'
  BY <1>21, <1>t, <1>i DEF StopBotKillFails, AfterStopError, StopAllInv, Pending
<1>22. ASSUME NEW w \in Workers, RestartBotConfig(w) PROVE StopAllInv'
  BY <1>22, <1>t, <1>i DEF RestartBotConfig, StopAllInv, Pending
<1>23. ASSUME NEW w \in Workers, RestartBotLook(w) PROVE StopAllInv'
  BY <1>23, <1>t, <1>i DEF RestartBotLook, StopAllInv, Pending
<1>24. ASSUME NEW w \in Workers, StopAllNext(w) PROVE StopAllInv'
  BY <1>24, <1>t, <1>i DEF StopAllNext, StopAllInv, Pending
<1>25. ASSUME NEW w \in Workers, StopAllReturns(w) PROVE StopAllInv'
  BY <1>25, <1>t, <1>i DEF StopAllReturns, StopAllInv, Pending
<1>26. ASSUME NEW w \in Workers, StopAllDeadline(w) PROVE StopAllInv'
  BY <1>26, <1>t, <1>i DEF StopAllDeadline, StopAllInv, Pending
<1>27. ASSUME NEW p \in Procs, ReadStdoutStart(p) PROVE StopAllInv'
  BY <1>27, <1>t, <1>i DEF ReadStdoutStart, StopAllInv, Pending
<1>28. ASSUME NEW p \in Procs, ReadStdoutExitMessage(p) PROVE StopAllInv'
  BY <1>28, <1>t, <1>i DEF ReadStdoutExitMessage, StopAllInv, Pending
<1>29. ASSUME NEW p \in Procs, ReadStdoutEOF(p) PROVE StopAllInv'
  BY <1>29, <1>t, <1>i DEF ReadStdoutEOF, ReaderReturns, Closes, StopAllInv,
     Pending
<1>30. ASSUME NEW p \in Procs, ReadStdoutClosed(p) PROVE StopAllInv'
  BY <1>30, <1>t, <1>i DEF ReadStdoutClosed, ReaderReturns, Closes, StopAllInv,
     Pending
<1>31. ASSUME NEW p \in Procs, ReadStdoutTooLong(p) PROVE StopAllInv'
  BY <1>31, <1>t, <1>i DEF ReadStdoutTooLong, ReaderReturns, Closes, StopAllInv,
     Pending
<1>32. ASSUME NEW p \in Procs, MonitorStart(p) PROVE StopAllInv'
  BY <1>32, <1>t, <1>i DEF MonitorStart, StopAllInv, Pending
<1>33. ASSUME NEW p \in Procs, MonitorWait(p) PROVE StopAllInv'
  BY <1>33, <1>t, <1>i DEF MonitorWait, MonitorGoto, StopAllInv, Pending
<1>34. ASSUME NEW p \in Procs, MonitorDrain(p) PROVE StopAllInv'
  BY <1>34, <1>t, <1>i DEF MonitorDrain, MonitorGoto, OutputRead, Verdict,
     StopAllInv, Pending
<1>35. ASSUME NEW p \in Procs, MonitorUnregister(p) PROVE StopAllInv'
  BY <1>35, <1>t, <1>i DEF MonitorUnregister, MonitorGoto, StopAllInv, Pending
<1>36. ASSUME NEW p \in Procs, MonitorReport(p) PROVE StopAllInv'
  BY <1>36, <1>t, <1>i DEF MonitorReport, MonitorGoto, StopAllInv, Pending
<1>37. ASSUME NEW p \in Procs, MonitorFinish(p) PROVE StopAllInv'
  BY <1>37, <1>t, <1>i DEF MonitorFinish, MonitorGoto, StopAllInv, Pending
<1>38. ASSUME NEW p \in Procs, RunnerLoad(p) PROVE StopAllInv'
  BY <1>38, <1>t, <1>i DEF RunnerLoad, StopAllInv, Pending
<1>39. ASSUME NEW p \in Procs, RunnerExitMessage(p) PROVE StopAllInv'
  BY <1>39, <1>t, <1>i DEF RunnerExitMessage, StopAllInv, Pending
<1>40. ASSUME NEW p \in Procs, RunnerExit(p) PROVE StopAllInv'
  BY <1>40, <1>t, <1>i DEF RunnerExit, StopAllInv, Pending
<1>41. CASE UNCHANGED vars
  BY <1>41, <1>t, <1>i DEF vars, StopAllInv, Pending
<1> QED
  BY <1>1, <1>2, <1>3, <1>4, <1>5, <1>6, <1>7, <1>8, <1>9, <1>10, <1>11,
     <1>12, <1>13, <1>14, <1>15, <1>16, <1>17, <1>18, <1>19, <1>20, <1>21,
     <1>22, <1>23, <1>24, <1>25, <1>26, <1>27, <1>28, <1>29, <1>30, <1>31,
     <1>32, <1>33, <1>34, <1>35, <1>36, <1>37, <1>38, <1>39, <1>40, <1>41
  DEF Next, Dispatch, Worker, StartBot, StopBot, RestartBot, StopAll, readStdout,
      monitorProcess, Runner

(* Nothing runs in the beginning.                                              *)
LEMMA SingleInit == Init => RolesInv /\ StartInv /\ StopInv /\ StopAllInv
<1> SUFFICES ASSUME Init PROVE RolesInv /\ StartInv /\ StopInv /\ StopAllInv
  OBVIOUS
<1> USE DEF Init, Workers, Stopping
<1>1. RolesInv
  BY DEF RolesInv
<1>2. StartInv
  BY DEF StartInv
<1>3. StopInv
  BY DEF StopInv
<1>4. StopAllInv
  BY DEF StopAllInv
<1> QED
  BY <1>1, <1>2, <1>3, <1>4

(* The goroutines keep their roles, however many pumps there are.              *)
THEOREM RolesHold == Spec => []RolesInv
BY SingleInit, RolesStep, InductiveInvariant, PTL DEF Spec

(* With one pump, StartBot meets no rival.                                     *)
THEOREM StartInvHolds == ASSUME OnePump PROVE Spec => []StartInv
<1>1. IInv /\ RolesInv /\ StartInv /\ [Next]_vars => StartInv'
  BY StartStep
<1> QED
  BY <1>1, SingleInit, InductiveInvariant, RolesHold, PTL DEF Spec

(* With one pump a bot never has two live processes, trading twice with one    *)
(* account, not even while one of them is being replaced.                      *)
THEOREM OneLiveProcessHolds == ASSUME OnePump PROVE Spec => []OneLiveProcess
<1>1. IInv /\ RolesInv /\ StartInv => OneLiveProcess
  <2> SUFFICES ASSUME IInv, RolesInv, StartInv, NEW p \in Procs, NEW q \in Procs,
                      os[p] = "alive", os[q] = "alive", owner[p] = owner[q]
               PROVE  p = q
    BY DEF OneLiveProcess
  <2>1. CASE processes[owner[p]] = None
    <3>1. PICK v \in Handlers : Holds(v, p)
      BY <2>1, FreeSlotMeansHeld
    <3>2. PICK w \in Handlers : Holds(w, q)
      BY <2>1, FreeSlotMeansHeld
    <3> QED
      BY <3>1, <3>2 DEF OnePump, Holds
  <2>2. ASSUME processes[owner[p]] # None, NEW r \in Procs, os[r] = "alive",
               owner[r] = owner[p]
        PROVE  r = processes[owner[p]]
    <3>1. ASSUME NEW w \in Workers, Holds(w, r) PROVE FALSE
      <4>1. w \in Handlers
        BY <3>1 DEF RolesInv, Holds, Workers, Stopping
      <4>2. owner[r] = bot[w] /\ pc[w] = "start.register"
        BY <3>1, <4>1 DEF IInv, WorkerInv, StartInv, Holds
      <4> QED
        BY <2>2, <4>1, <4>2 DEF StartInv
    <3> QED
      BY <2>2, <3>1 DEF IInv, MonitorInv, RegistryInv
  <2> QED
    BY <2>1, <2>2
<1> QED
  BY <1>1, InductiveInvariant, RolesHold, StartInvHolds, PTL

(* With one pump a process has loaded the strategy of the command that started *)
(* it, or none yet.                                                            *)
THEOREM RunsOwnStrategyHolds == ASSUME OnePump PROVE Spec => []RunsOwnStrategy
<1>1. StartInv => RunsOwnStrategy
  BY DEF StartInv, RunsOwnStrategy
<1> QED
  BY <1>1, StartInvHolds, PTL

(* With one pump, nothing comes between a StopBot and the process it stops.    *)
THEOREM StopInvHolds == ASSUME OnePump PROVE Spec => []StopInv
<1>1. IInv /\ RolesInv /\ StopInv /\ [Next]_vars => StopInv'
  BY StopStep
<1> QED
  BY <1>1, SingleInit, InductiveInvariant, RolesHold, PTL DEF Spec

(* With one pump a StopBot that returns nil leaves the process dead, the bot   *)
(* unregistered and its final status handed over.                              *)
THEOREM StopMeansStoppedHolds == ASSUME OnePump PROVE Spec => StopMeansStopped
<1> DEFINE Stopped(w) == StopBotDone(w) => /\ os[tgt[w]] = "exited"
                                           /\ processes[bot[w]] = None
                                           /\ reported[bot[w]] \in {"stopped", "error"}
<1>1. IInv /\ StopInv => \A w \in Handlers : Stopped(w)
  <2> SUFFICES ASSUME IInv, StopInv, NEW w \in Handlers, StopBotDone(w)
               PROVE  /\ os[tgt[w]] = "exited"
                      /\ processes[bot[w]] = None
                      /\ reported[bot[w]] \in {"stopped", "error"}
    OBVIOUS
  <2>1. /\ tgt[w] \in Procs /\ tgt[w] \in done /\ bot[w] \in Bots
        /\ processes[bot[w]] \in {tgt[w], None}
        /\ monitor[tgt[w]] \in {"finish", "done"} =>
              reported[bot[w]] \in {"stopped", "error"}
    BY DEF StopBotDone, Joined, StopInv, Stopping, IInv, WorkerInv, AtHome, Workers
  <2>2. monitor[tgt[w]] = "done" /\ os[tgt[w]] = "exited"
    BY <2>1 DEF IInv, MonitorInv
  <2>3. processes[bot[w]] # tgt[w]
    BY <2>1, <2>2, NoneAssumption, RegisteredIsMonitored DEF Active
  <2> QED
    BY <2>1, <2>2, <2>3
<1>2. IInv /\ StopInv => [\A w \in Handlers : Stopped(w)]_vars
  BY <1>1
<1> QED
  BY <1>2, InductiveInvariant, StopInvHolds, PTL DEF StopMeansStopped

(* StopAll that has not hit its deadline leaves no process alive of those it    *)
(* saw registered, but for those the kernel refused to kill, however many read *)
(* pumps start, stop and restart bots meanwhile.                               *)
THEOREM StopAllStopsAllHolds == Spec => []StopAllStopsAll
<1>1. Spec => []StopAllInv
  BY SingleInit, StopAllStep, InductiveInvariant, RolesHold, PTL DEF Spec
<1>2. StopAllInv => StopAllStopsAll
  BY DEF StopAllInv, Pending, Stopping, StopAllStopsAll
<1> QED
  BY <1>1, <1>2, PTL

-------------------------------------------------------------------------------
(* The content of commands and output.                                         *)

(* What a process was started with is a command the agent knows, by its type.  *)
LEMMA StartedWithConfigs == TypeOK => StartedWith \subseteq Configs
BY DEF TypeOK, StartedWith

(* No bot is started with credentials of two sources.                          *)
THEOREM BotsHaveOneSourceHolds == Spec => []BotsHaveOneSource
<1>1. OneSource = Configs
  BY CredentialsAreOfOneSource DEF OneSource, CredentialsOfOneSource
<1>2. TypeOK => BotsHaveOneSource
  BY <1>1, StartedWithConfigs DEF BotsHaveOneSource
<1> QED
  BY <1>2, TypeCorrect, PTL

(* No bot is started that would trade otherwise than its command says.         *)
THEOREM BotsSeeTheirCommandHolds == Spec => []BotsSeeTheirCommand
<1>1. \A c : CommandsOf(c) \subseteq CreateBots
  BY DEF CommandsOf
<1>2. Seen = Configs
  BY <1>1, RunnerSeesItsOwn DEF Seen, RunnerSeesItsCommand
<1>3. TypeOK => BotsSeeTheirCommand
  BY <1>2, StartedWithConfigs DEF BotsSeeTheirCommand
<1> QED
  BY <1>3, TypeCorrect, PTL

(* What a bot says while somebody reads it arrives whole and can be sent.      *)
THEOREM BotsAreHeardHolds == Spec => []BotsAreHeard
<1>1. BotsAreHeard
  BY LogsArrive, RowsCanBeEncoded DEF BotsAreHeard
<1> QED
  BY <1>1, PTL
===============================================================================
