-------------------------- MODULE BotManager_proof ----------------------------
(* The process manager keeps its promises for every set of bots, commands,     *)
(* incarnations and read pumps: the inductive invariant IInv of BotManager,    *)
(* the safety properties that follow from it, and the refinement of BotSlots.  *)
EXTENDS BotManager, TLAPS

USE DEF At, Goto

(* What is alive or has a goroutine running belongs to a bot.                  *)
LEMMA OwnerIsBot ==
    ASSUME IInv, NEW p \in Procs,
           os[p] = "alive" \/ reader[p] \in {"spawned", "reading"} \/ monitor[p] \in Active
    PROVE  owner[p] \in Bots
<1>1. CASE monitor[p] \in Active
  BY <1>1 DEF IInv, RegistryInv
<1>2. CASE reader[p] \in {"spawned", "reading"}
  BY <1>1, <1>2 DEF IInv, ReaderInv, Active
<1>3. ASSUME NEW w \in Workers, Holds(w, p) PROVE owner[p] \in Bots
  BY <1>3 DEF IInv, WorkerInv, Holds, AtHome
<1> QED
  BY <1>1, <1>2, <1>3 DEF IInv, MonitorInv

(* A step from a state of the inductive invariant keeps the types: no map is   *)
(* indexed and no channel closed with nil.                                     *)
LEMMA TypeStep == IInv /\ [Next]_vars => TypeOK'
<1> SUFFICES ASSUME IInv, [Next]_vars PROVE TypeOK'
  OBVIOUS
<1>a. \A p \in Procs : os[p] = "alive" \/ reader[p] = "spawned" \/ monitor[p] = "spawned"
                         => owner[p] \in Bots
  BY OwnerIsBot DEF Active
<1>b. \A w \in Workers : pc[w] \notin AtHome => bot[w] \in Bots
  BY DEF IInv, WorkerInv
<1>c. \A p \in Procs : reader[p] = "reading" => rptr[p] = p
  BY DEF IInv, ReaderInv
<1>d. \A p \in Procs : monitor[p] = "finish" => mptr[p] = p
  BY DEF IInv, MonitorInv
<1>t. TypeOK
  BY DEF IInv
<1> USE <1>t DEF TypeOK, sysVars, procVars, bookVars, doneVars, readVars, moniVars, regVars, jobVars
<1>1. ASSUME NEW w \in Workers, HandleCreateBot(w) PROVE TypeOK'
  BY <1>1 DEF HandleCreateBot, HandleCommand, Labels
<1>2. ASSUME NEW w \in Workers, HandleStopBot(w) PROVE TypeOK'
  BY <1>2 DEF HandleStopBot, HandleCommand, Labels
<1>3. ASSUME NEW w \in Workers, HandleRestartBot(w) PROVE TypeOK'
  BY <1>3 DEF HandleRestartBot, HandleCommand, Labels
<1>4. ASSUME NEW w \in Workers, StopAllSnapshot(w) PROVE TypeOK'
  BY <1>4 DEF StopAllSnapshot, Labels
<1>5. ASSUME NEW w \in Workers, ReplyError(w) PROVE TypeOK'
  BY <1>5 DEF ReplyError, Return, Labels
<1>6. ASSUME NEW w \in Workers, StartBotCheck(w) PROVE TypeOK'
  BY <1>6 DEF StartBotCheck, Labels
<1>7. ASSUME NEW w \in Workers, StartBotPrepareFails(w) PROVE TypeOK'
  BY <1>7 DEF StartBotPrepareFails, Labels
<1>8. ASSUME NEW w \in Workers, StartBotWrite(w) PROVE TypeOK'
  BY <1>8, <1>b DEF StartBotWrite, AtHome, Labels
<1>9. ASSUME NEW w \in Workers, StartBotSpawnFails(w) PROVE TypeOK'
  BY <1>9 DEF StartBotSpawnFails, Labels
<1>10. ASSUME NEW w \in Workers, StartBotSpawn(w) PROVE TypeOK'
  BY <1>10 DEF StartBotSpawn, Labels
<1>11. ASSUME NEW w \in Workers, StartBotRegister(w) PROVE TypeOK'
  BY <1>11 DEF StartBotRegister, SaveConfig, SlotFree, Labels
<1>12. ASSUME NEW w \in Workers, StartBotLose(w) PROVE TypeOK'
  BY <1>12 DEF StartBotLose, SlotFree, KillEffect, Labels
<1>13. ASSUME NEW w \in Workers, StartBotReap(w) PROVE TypeOK'
  BY <1>13 DEF StartBotReap, Reaped, Labels
<1>14. ASSUME NEW w \in Workers, StartBotDeferredStatus(w) PROVE TypeOK'
  BY <1>14 DEF StartBotDeferredStatus, Labels
<1>15. ASSUME NEW w \in Workers, StartBotReport(w) PROVE TypeOK'
  BY <1>15 DEF StartBotReport, Return, Labels
<1>16. ASSUME NEW w \in Workers, StopBotLookup(w) PROVE TypeOK'
  BY <1>16, <1>b DEF StopBotLookup, AtHome, Labels
<1>17. ASSUME NEW w \in Workers, StopBotNotRunning(w) PROVE TypeOK'
  BY <1>17 DEF StopBotNotRunning, AfterStopError, Labels
<1>18. ASSUME NEW w \in Workers, StopBotSignal(w) PROVE TypeOK'
  BY <1>18 DEF StopBotSignal, Labels
<1>19. ASSUME NEW w \in Workers, StopBotDone(w) PROVE TypeOK'
  BY <1>19 DEF StopBotDone, StopBotReturnsNil, Return, Joined, Labels
<1>20. ASSUME NEW w \in Workers, StopBotTimeout(w) PROVE TypeOK'
  BY <1>20 DEF StopBotTimeout, KillEffect, Labels
<1>21. ASSUME NEW w \in Workers, StopBotKillFails(w) PROVE TypeOK'
  BY <1>21 DEF StopBotKillFails, AfterStopError, Labels
<1>22. ASSUME NEW w \in Workers, RestartBotConfig(w) PROVE TypeOK'
  BY <1>22, <1>b DEF RestartBotConfig, AtHome, Labels
<1>23. ASSUME NEW w \in Workers, RestartBotLook(w) PROVE TypeOK'
  BY <1>23 DEF RestartBotLook, Labels
<1>24. ASSUME NEW w \in Workers, StopAllNext(w) PROVE TypeOK'
  BY <1>24 DEF StopAllNext, Labels
<1>25. ASSUME NEW w \in Workers, StopAllReturns(w) PROVE TypeOK'
  BY <1>25 DEF StopAllReturns, Labels
<1>26. ASSUME NEW w \in Workers, StopAllDeadline(w) PROVE TypeOK'
  BY <1>26 DEF StopAllDeadline, Labels
<1>27. ASSUME NEW p \in Procs, ReadStdoutStart(p) PROVE TypeOK'
  BY <1>27, <1>a DEF ReadStdoutStart, Labels
<1>28. ASSUME NEW p \in Procs, ReadStdoutExitMessage(p) PROVE TypeOK'
  BY <1>28 DEF ReadStdoutExitMessage, Labels
<1>29. ASSUME NEW p \in Procs, ReadStdoutEOF(p) PROVE TypeOK'
  BY <1>29, <1>c DEF ReadStdoutEOF, ReaderReturns, Closes, Labels
<1>30. ASSUME NEW p \in Procs, ReadStdoutClosed(p) PROVE TypeOK'
  BY <1>30, <1>c DEF ReadStdoutClosed, ReaderReturns, Closes, Labels
<1>31. ASSUME NEW p \in Procs, ReadStdoutTooLong(p) PROVE TypeOK'
  BY <1>31, <1>c DEF ReadStdoutTooLong, ReaderReturns, Closes, Labels
<1>32. ASSUME NEW p \in Procs, MonitorStart(p) PROVE TypeOK'
  BY <1>32, <1>a DEF MonitorStart, Labels
<1>33. ASSUME NEW p \in Procs, MonitorWait(p) PROVE TypeOK'
  BY <1>33 DEF MonitorWait, MonitorGoto, Labels
<1>34. ASSUME NEW p \in Procs, MonitorDrain(p) PROVE TypeOK'
  BY <1>34 DEF MonitorDrain, MonitorGoto, OutputRead, Verdict, Labels
<1>35. ASSUME NEW p \in Procs, MonitorUnregister(p) PROVE TypeOK'
  BY <1>35 DEF MonitorUnregister, MonitorGoto, Labels
<1>36. ASSUME NEW p \in Procs, MonitorReport(p) PROVE TypeOK'
  BY <1>36 DEF MonitorReport, MonitorGoto, Labels
<1>37. ASSUME NEW p \in Procs, MonitorFinish(p) PROVE TypeOK'
  BY <1>37, <1>d DEF MonitorFinish, MonitorGoto, Labels
<1>38. ASSUME NEW p \in Procs, RunnerLoad(p) PROVE TypeOK'
  BY <1>38, <1>a DEF RunnerLoad, Labels
<1>39. ASSUME NEW p \in Procs, RunnerExitMessage(p) PROVE TypeOK'
  BY <1>39 DEF RunnerExitMessage, Labels
<1>40. ASSUME NEW p \in Procs, RunnerExit(p) PROVE TypeOK'
  BY <1>40 DEF RunnerExit, Labels
<1>41. CASE UNCHANGED vars
  BY <1>41 DEF vars
<1> QED
  BY <1>1, <1>2, <1>3, <1>4, <1>5, <1>6, <1>7, <1>8, <1>9, <1>10, <1>11,
     <1>12, <1>13, <1>14, <1>15, <1>16, <1>17, <1>18, <1>19, <1>20, <1>21,
     <1>22, <1>23, <1>24, <1>25, <1>26, <1>27, <1>28, <1>29, <1>30, <1>31,
     <1>32, <1>33, <1>34, <1>35, <1>36, <1>37, <1>38, <1>39, <1>40, <1>41
  DEF Next, Dispatch, Worker, StartBot, StopBot, RestartBot, StopAll, readStdout,
      monitorProcess, Runner

(* The steps that touch neither the registry nor the life of a process.        *)
LEMMA QuietStep ==
    ASSUME IInv, TypeOK',
           UNCHANGED <<os, owner, cfg, reportedExit, doneVars, readVars, moniVars,
                       processes, configs>>,
           \A p \in Procs : stopRequested[p] => stopRequested'[p],
           \A w \in Workers : pc'[w] \notin AtHome => bot'[w] \in Bots,
           \A w \in Workers : pc'[w] \in {"start.register", "start.reap"} =>
              /\ pc[w] \in {"start.register", "start.reap"}
              /\ tgt'[w] = tgt[w] /\ bot'[w] = bot[w] /\ conf'[w] = conf[w],
           \A w \in Workers : pc[w] \in {"start.register", "start.reap"} =>
              pc'[w] \in {"start.register", "start.reap"} \/ os[tgt[w]] = "exited"
    PROVE  IInv'
<1> USE DEF IInv, doneVars, readVars, moniVars
<1>1. \A w \in Workers, p \in Procs : Holds(w, p)' =>
         Holds(w, p) /\ bot'[w] = bot[w] /\ conf'[w] = conf[w]
  BY DEF Holds
<1>2. \A w \in Workers, p \in Procs : Holds(w, p) => Holds(w, p)' \/ os[p] = "exited"
  BY DEF Holds
<1>3. WorkerInv'
  BY <1>1 DEF WorkerInv
<1>4. RegistryInv'
  BY DEF RegistryInv
<1>5. ReaderInv'
  BY DEF ReaderInv
<1>6. MonitorInv'
  BY <1>2 DEF MonitorInv
<1>7. FailureIsNotHidden'
  BY DEF FailureIsNotHidden
<1> QED
  BY <1>3, <1>4, <1>5, <1>6, <1>7

(* Every step keeps the inductive invariant: what is registered, held by a     *)
(* StartBot, read and monitored stays consistent.                              *)
LEMMA InvStep == IInv /\ [Next]_vars => IInv'
<1> SUFFICES ASSUME IInv, [Next]_vars PROVE IInv'
  OBVIOUS
<1>t. TypeOK /\ TypeOK'
  BY TypeStep DEF IInv
<1>b. \A w \in Workers : pc[w] \notin AtHome => bot[w] \in Bots
  BY DEF IInv, WorkerInv
<1> USE DEF TypeOK, AtHome, doneVars, readVars, moniVars, procVars, bookVars, regVars,
    jobVars, sysVars
<1>1. ASSUME NEW w \in Workers, HandleCreateBot(w) PROVE IInv'
  BY <1>1, <1>t, <1>b, QuietStep DEF HandleCreateBot, HandleCommand
<1>2. ASSUME NEW w \in Workers, HandleStopBot(w) PROVE IInv'
  BY <1>2, <1>t, <1>b, QuietStep DEF HandleStopBot, HandleCommand
<1>3. ASSUME NEW w \in Workers, HandleRestartBot(w) PROVE IInv'
  BY <1>3, <1>t, <1>b, QuietStep DEF HandleRestartBot, HandleCommand
<1>4. ASSUME NEW w \in Workers, StopAllSnapshot(w) PROVE IInv'
  BY <1>4, <1>t, <1>b, QuietStep DEF StopAllSnapshot
<1>5. ASSUME NEW w \in Workers, ReplyError(w) PROVE IInv'
  BY <1>5, <1>t, <1>b, QuietStep DEF ReplyError, Return
<1>6. ASSUME NEW w \in Workers, StartBotCheck(w) PROVE IInv'
  BY <1>6, <1>t, <1>b, QuietStep DEF StartBotCheck
<1>7. ASSUME NEW w \in Workers, StartBotPrepareFails(w) PROVE IInv'
  BY <1>7, <1>t, <1>b, QuietStep DEF StartBotPrepareFails
<1>8. ASSUME NEW w \in Workers, StartBotWrite(w) PROVE IInv'
  BY <1>8, <1>t, <1>b, QuietStep DEF StartBotWrite
<1>9. ASSUME NEW w \in Workers, StartBotSpawnFails(w) PROVE IInv'
  BY <1>9, <1>t, <1>b, QuietStep DEF StartBotSpawnFails
<1>10. ASSUME NEW w \in Workers, StartBotSpawn(w) PROVE IInv'
  <2> USE <1>10, <1>t DEF StartBotSpawn
  <2>1. WorkerInv'
    <3>1. PICK q \in Procs : /\ os[q] = "none" /\ os' = [os EXCEPT ![q] = "alive"]
                              /\ owner' = [owner EXCEPT ![q] = bot[w]]
                              /\ cfg' = [cfg EXCEPT ![q] = conf[w]]
                              /\ tgt' = [tgt EXCEPT ![w] = q]
      OBVIOUS
    <3>2. \A v \in Workers : ~Holds(v, q)
      BY <3>1 DEF IInv, WorkerInv
    <3>3. monitor[q] = "none" /\ reader[q] = "none"
      BY <3>1 DEF IInv, MonitorInv, ReaderInv
    <3>4. \A v \in Workers, p \in Procs :
             Holds(v, p)' => (v = w /\ p = q) \/ (v # w /\ p # q /\ Holds(v, p))
      BY <3>1, <3>2 DEF Holds
    <3>5. bot[w] \in Bots
      BY <1>b
    <3>6. \A v \in Workers : pc'[v] \notin AtHome => bot'[v] \in Bots
      BY <1>b
    <3>7. \A v \in Workers : pc'[v] \in {"start.register", "start.reap"} => tgt'[v] \in Procs
      BY <3>1 DEF IInv, WorkerInv
    <3>8. \A v \in Workers, p \in Procs :
             Holds(v, p)' => /\ os'[p] # "none"
                             /\ reader'[p] = "none" /\ monitor'[p] = "none"
                             /\ owner'[p] = bot'[v] /\ cfg'[p] = conf'[v]
      BY <3>1, <3>3, <3>4 DEF IInv, WorkerInv
    <3>9. \A u, v \in Workers, p \in Procs : Holds(u, p)' /\ Holds(v, p)' => u = v
      BY <3>4 DEF IInv, WorkerInv
    <3> QED
      BY <3>6, <3>7, <3>8, <3>9 DEF WorkerInv
  <2>2. RegistryInv'
    BY NoneAssumption DEF IInv, RegistryInv, MonitorInv, Active
  <2>3. ReaderInv'
    BY DEF IInv, ReaderInv
  <2>4. MonitorInv'
    BY DEF IInv, MonitorInv, Holds, Active
  <2>5. FailureIsNotHidden'
    BY DEF IInv, FailureIsNotHidden
  <2> QED
    BY <2>1, <2>2, <2>3, <2>4, <2>5 DEF IInv
<1>11. ASSUME NEW w \in Workers, StartBotRegister(w) PROVE IInv'
  <2> USE <1>11, <1>t DEF StartBotRegister, SaveConfig, SlotFree
  <2>1. WorkerInv'
    BY DEF IInv, WorkerInv, Holds
  <2>2. RegistryInv'
    <3> DEFINE q == tgt[w]
    <3>1. q \in Procs /\ Holds(w, q)
      BY DEF IInv, WorkerInv, Holds
    <3>2. monitor[q] = "none" /\ owner[q] = bot[w] /\ cfg[q] = conf[w] /\ bot[w] \in Bots
      BY <3>1, <1>b DEF IInv, WorkerInv
    <3>3. \A b \in Bots \ {bot[w]} :
             /\ processes'[b] = processes[b] /\ configs'[b] = configs[b]
             /\ processes[b] # q
      BY <3>1, <3>2, NoneAssumption DEF IInv, RegistryInv, Active
    <3>4. \A p \in Procs \ {q} : monitor[p] \in Active => owner[p] \in Bots \ {bot[w]}
      BY NoneAssumption DEF IInv, RegistryInv
    <3>5. /\ processes'[bot[w]] = q /\ configs'[bot[w]] = conf[w]
          /\ \A p \in Procs \ {q} : monitor'[p] = monitor[p]
          /\ monitor'[q] = "spawned"
      BY <3>1, <3>2
    <3> HIDE DEF q
    <3>6. \A b \in Bots : processes'[b] # None =>
             /\ owner'[processes'[b]] = b
             /\ monitor'[processes'[b]] \in Active
             /\ cfg'[processes'[b]] = configs'[b]
      BY <3>2, <3>3, <3>5 DEF IInv, RegistryInv, Active
    <3>7. \A p \in Procs : monitor'[p] \in Active =>
             owner'[p] \in Bots /\ processes'[owner'[p]] = p
      BY <3>2, <3>3, <3>4, <3>5 DEF IInv, RegistryInv
    <3> QED
      BY <3>6, <3>7 DEF RegistryInv
  <2>3. ReaderInv'
    BY NoneAssumption DEF IInv, ReaderInv, WorkerInv, Holds
  <2>4. MonitorInv'
    <3> DEFINE q == tgt[w]
    <3>1. q \in Procs /\ Holds(w, q)
      BY DEF IInv, WorkerInv, Holds
    <3>2. os[q] # "none" /\ monitor[q] = "none" /\ monitor'[q] = "spawned"
      BY <3>1 DEF IInv, WorkerInv
    <3>3. \A v \in Workers, p \in Procs \ {q} : Holds(v, p) => Holds(v, p)'
      BY DEF Holds
    <3>4. \A p \in Procs \ {q} : monitor'[p] = monitor[p]
      BY <3>1
    <3> HIDE DEF q
    <3> QED
      BY <3>1, <3>2, <3>3, <3>4 DEF IInv, MonitorInv, Active
  <2>5. FailureIsNotHidden'
    BY DEF IInv, FailureIsNotHidden
  <2> QED
    BY <2>1, <2>2, <2>3, <2>4, <2>5 DEF IInv
<1>12. ASSUME NEW w \in Workers, StartBotLose(w) PROVE IInv'
  BY <1>12, <1>t, <1>b, QuietStep DEF StartBotLose, SlotFree, KillEffect
<1>13. ASSUME NEW w \in Workers, StartBotReap(w) PROVE IInv'
  BY <1>13, <1>t, <1>b, QuietStep DEF StartBotReap, Reaped
<1>14. ASSUME NEW w \in Workers, StartBotDeferredStatus(w) PROVE IInv'
  BY <1>14, <1>t, <1>b, QuietStep DEF StartBotDeferredStatus
<1>15. ASSUME NEW w \in Workers, StartBotReport(w) PROVE IInv'
  BY <1>15, <1>t, <1>b, QuietStep DEF StartBotReport, Return
<1>16. ASSUME NEW w \in Workers, StopBotLookup(w) PROVE IInv'
  BY <1>16, <1>t, <1>b, QuietStep DEF StopBotLookup
<1>17. ASSUME NEW w \in Workers, StopBotNotRunning(w) PROVE IInv'
  BY <1>17, <1>t, <1>b, QuietStep DEF StopBotNotRunning, AfterStopError
<1>18. ASSUME NEW w \in Workers, StopBotSignal(w) PROVE IInv'
  BY <1>18, <1>t, <1>b, QuietStep DEF StopBotSignal
<1>19. ASSUME NEW w \in Workers, StopBotDone(w) PROVE IInv'
  BY <1>19, <1>t, <1>b, QuietStep DEF StopBotDone, StopBotReturnsNil, Return, Joined
<1>20. ASSUME NEW w \in Workers, StopBotTimeout(w) PROVE IInv'
  BY <1>20, <1>t, <1>b, QuietStep DEF StopBotTimeout, KillEffect
<1>21. ASSUME NEW w \in Workers, StopBotKillFails(w) PROVE IInv'
  BY <1>21, <1>t, <1>b, QuietStep DEF StopBotKillFails, AfterStopError
<1>22. ASSUME NEW w \in Workers, RestartBotConfig(w) PROVE IInv'
  BY <1>22, <1>t, <1>b, QuietStep DEF RestartBotConfig
<1>23. ASSUME NEW w \in Workers, RestartBotLook(w) PROVE IInv'
  BY <1>23, <1>t, <1>b, QuietStep DEF RestartBotLook
<1>24. ASSUME NEW w \in Workers, StopAllNext(w) PROVE IInv'
  BY <1>24, <1>t, <1>b, QuietStep DEF StopAllNext
<1>25. ASSUME NEW w \in Workers, StopAllReturns(w) PROVE IInv'
  BY <1>25, <1>t, <1>b, QuietStep DEF StopAllReturns
<1>26. ASSUME NEW w \in Workers, StopAllDeadline(w) PROVE IInv'
  BY <1>26, <1>t, <1>b, QuietStep DEF StopAllDeadline
<1>27. ASSUME NEW p \in Procs, ReadStdoutStart(p) PROVE IInv'
  <2> USE <1>27, <1>t DEF ReadStdoutStart
  <2>1. WorkerInv'
    BY DEF IInv, WorkerInv, Holds
  <2>2. RegistryInv'
    BY DEF IInv, RegistryInv, Active
  <2>3. ReaderInv'
    BY NoneAssumption DEF IInv, ReaderInv, RegistryInv, Active
  <2>4. MonitorInv'
    BY DEF IInv, MonitorInv, Holds, Active
  <2>5. FailureIsNotHidden'
    BY DEF IInv, FailureIsNotHidden
  <2> QED
    BY <2>1, <2>2, <2>3, <2>4, <2>5 DEF IInv
<1>28. ASSUME NEW p \in Procs, ReadStdoutExitMessage(p) PROVE IInv'
  <2> USE <1>28, <1>t DEF ReadStdoutExitMessage
  <2>1. WorkerInv'
    BY DEF IInv, WorkerInv, Holds
  <2>2. RegistryInv'
    BY DEF IInv, RegistryInv, Active
  <2>3. ReaderInv'
    BY DEF IInv, ReaderInv
  <2>4. MonitorInv'
    BY DEF IInv, MonitorInv, Holds, Active
  <2>5. FailureIsNotHidden'
    BY NoneAssumption DEF IInv, FailureIsNotHidden, MonitorInv, ReaderInv,
       RegistryInv, Active
  <2> QED
    BY <2>1, <2>2, <2>3, <2>4, <2>5 DEF IInv
<1>29. ASSUME NEW p \in Procs, ReadStdoutEOF(p) PROVE IInv'
  <2> USE <1>29, <1>t DEF ReadStdoutEOF, ReaderReturns, Closes
  <2>1. WorkerInv'
    BY DEF IInv, WorkerInv, Holds
  <2>2. RegistryInv'
    BY DEF IInv, RegistryInv, Active
  <2>3. ReaderInv'
    BY DEF IInv, ReaderInv
  <2>4. MonitorInv'
    BY DEF IInv, MonitorInv, Holds, Active
  <2>5. FailureIsNotHidden'
    BY DEF IInv, FailureIsNotHidden
  <2> QED
    BY <2>1, <2>2, <2>3, <2>4, <2>5 DEF IInv
<1>30. ASSUME NEW p \in Procs, ReadStdoutClosed(p) PROVE IInv'
  <2> USE <1>30, <1>t DEF ReadStdoutClosed, ReaderReturns, Closes
  <2>1. WorkerInv'
    BY DEF IInv, WorkerInv, Holds
  <2>2. RegistryInv'
    BY DEF IInv, RegistryInv, Active
  <2>3. ReaderInv'
    BY DEF IInv, ReaderInv
  <2>4. MonitorInv'
    BY DEF IInv, MonitorInv, Holds, Active
  <2>5. FailureIsNotHidden'
    BY DEF IInv, FailureIsNotHidden
  <2> QED
    BY <2>1, <2>2, <2>3, <2>4, <2>5 DEF IInv
<1>31. ASSUME NEW p \in Procs, ReadStdoutTooLong(p) PROVE IInv'
  <2> USE <1>31, <1>t DEF ReadStdoutTooLong, ReaderReturns, Closes
  <2>1. WorkerInv'
    BY DEF IInv, WorkerInv, Holds
  <2>2. RegistryInv'
    BY DEF IInv, RegistryInv, Active
  <2>3. ReaderInv'
    BY DEF IInv, ReaderInv
  <2>4. MonitorInv'
    BY DEF IInv, MonitorInv, Holds, Active
  <2>5. FailureIsNotHidden'
    BY DEF IInv, FailureIsNotHidden
  <2> QED
    BY <2>1, <2>2, <2>3, <2>4, <2>5 DEF IInv
<1>32. ASSUME NEW p \in Procs, MonitorStart(p) PROVE IInv'
  <2> USE <1>32, <1>t DEF MonitorStart
  <2>1. WorkerInv'
    BY DEF IInv, WorkerInv, Holds
  <2>2. RegistryInv'
    BY DEF IInv, RegistryInv, Active
  <2>3. ReaderInv'
    BY NoneAssumption DEF IInv, ReaderInv, RegistryInv, Active
  <2>4. MonitorInv'
    BY NoneAssumption DEF IInv, MonitorInv, RegistryInv, Holds, Active
  <2>5. FailureIsNotHidden'
    BY DEF IInv, FailureIsNotHidden
  <2> QED
    BY <2>1, <2>2, <2>3, <2>4, <2>5 DEF IInv
<1>33. ASSUME NEW p \in Procs, MonitorWait(p) PROVE IInv'
  <2> USE <1>33, <1>t DEF MonitorWait, MonitorGoto
  <2>1. WorkerInv'
    BY DEF IInv, WorkerInv, Holds
  <2>2. RegistryInv'
    BY DEF IInv, RegistryInv, Active
  <2>3. ReaderInv'
    BY DEF IInv, ReaderInv
  <2>4. MonitorInv'
    BY DEF IInv, MonitorInv, Holds, Active
  <2>5. FailureIsNotHidden'
    BY DEF IInv, FailureIsNotHidden, MonitorInv
  <2> QED
    BY <2>1, <2>2, <2>3, <2>4, <2>5 DEF IInv
<1>34. ASSUME NEW p \in Procs, MonitorDrain(p) PROVE IInv'
  <2> USE <1>34, <1>t DEF MonitorDrain, MonitorGoto, OutputRead, Verdict
  <2>1. WorkerInv'
    BY DEF IInv, WorkerInv, Holds
  <2>2. RegistryInv'
    BY DEF IInv, RegistryInv, Active
  <2>3. ReaderInv'
    BY DEF IInv, ReaderInv, MonitorInv
  <2>4. MonitorInv'
    BY DEF IInv, MonitorInv, Holds, Active
  <2>5. FailureIsNotHidden'
    BY DEF IInv, FailureIsNotHidden, MonitorInv
  <2> QED
    BY <2>1, <2>2, <2>3, <2>4, <2>5 DEF IInv
<1>35. ASSUME NEW p \in Procs, MonitorUnregister(p) PROVE IInv'
  <2> USE <1>35, <1>t DEF MonitorUnregister, MonitorGoto
  <2>1. WorkerInv'
    BY DEF IInv, WorkerInv, Holds
  <2>2. RegistryInv'
    BY DEF IInv, RegistryInv, Active
  <2>3. ReaderInv'
    BY DEF IInv, ReaderInv
  <2>4. MonitorInv'
    BY DEF IInv, MonitorInv, Holds, Active
  <2>5. FailureIsNotHidden'
    BY DEF IInv, FailureIsNotHidden
  <2> QED
    BY <2>1, <2>2, <2>3, <2>4, <2>5 DEF IInv
<1>36. ASSUME NEW p \in Procs, MonitorReport(p) PROVE IInv'
  <2> USE <1>36, <1>t DEF MonitorReport, MonitorGoto
  <2>1. WorkerInv'
    BY DEF IInv, WorkerInv, Holds
  <2>2. RegistryInv'
    BY DEF IInv, RegistryInv, Active
  <2>3. ReaderInv'
    BY DEF IInv, ReaderInv
  <2>4. MonitorInv'
    BY DEF IInv, MonitorInv, Holds, Active
  <2>5. FailureIsNotHidden'
    BY DEF IInv, FailureIsNotHidden
  <2> QED
    BY <2>1, <2>2, <2>3, <2>4, <2>5 DEF IInv
<1>37. ASSUME NEW p \in Procs, MonitorFinish(p) PROVE IInv'
  <2> USE <1>37, <1>t DEF MonitorFinish, MonitorGoto
  <2>1. WorkerInv'
    BY DEF IInv, WorkerInv, Holds
  <2>2. RegistryInv'
    BY DEF IInv, RegistryInv, Active
  <2>3. ReaderInv'
    BY DEF IInv, ReaderInv
  <2>4. MonitorInv'
    BY DEF IInv, MonitorInv, Holds, Active
  <2>5. FailureIsNotHidden'
    BY DEF IInv, FailureIsNotHidden
  <2> QED
    BY <2>1, <2>2, <2>3, <2>4, <2>5 DEF IInv
<1>38. ASSUME NEW p \in Procs, RunnerLoad(p) PROVE IInv'
  BY <1>38, <1>t, <1>b, QuietStep DEF RunnerLoad
<1>39. ASSUME NEW p \in Procs, RunnerExitMessage(p) PROVE IInv'
  BY <1>39, <1>t, <1>b, QuietStep DEF RunnerExitMessage
<1>40. ASSUME NEW p \in Procs, RunnerExit(p) PROVE IInv'
  <2> USE <1>40, <1>t DEF RunnerExit
  <2>1. WorkerInv'
    BY DEF IInv, WorkerInv, Holds
  <2>2. RegistryInv'
    BY DEF IInv, RegistryInv, Active
  <2>3. ReaderInv'
    BY DEF IInv, ReaderInv
  <2>4. MonitorInv'
    BY DEF IInv, MonitorInv, Holds, Active
  <2>5. FailureIsNotHidden'
    BY DEF IInv, FailureIsNotHidden
  <2> QED
    BY <2>1, <2>2, <2>3, <2>4, <2>5 DEF IInv
<1>41. CASE UNCHANGED vars
  BY <1>41, <1>t, <1>b, QuietStep DEF vars
<1> QED
  BY <1>1, <1>2, <1>3, <1>4, <1>5, <1>6, <1>7, <1>8, <1>9, <1>10, <1>11,
     <1>12, <1>13, <1>14, <1>15, <1>16, <1>17, <1>18, <1>19, <1>20, <1>21,
     <1>22, <1>23, <1>24, <1>25, <1>26, <1>27, <1>28, <1>29, <1>30, <1>31,
     <1>32, <1>33, <1>34, <1>35, <1>36, <1>37, <1>38, <1>39, <1>40, <1>41
  DEF Next, Dispatch, Worker, StartBot, StopBot, RestartBot, StopAll, readStdout,
      monitorProcess, Runner

(* The agent starts with an empty registry and no goroutine in a command.      *)
LEMMA InvInit == Init => IInv
<1> SUFFICES ASSUME Init PROVE IInv
  OBVIOUS
<1> USE NoneAssumption DEF Init
<1>1. TypeOK
  BY DEF TypeOK, Labels
<1>2. WorkerInv
  BY DEF WorkerInv, AtHome, Holds
<1>3. RegistryInv
  BY DEF RegistryInv, Active
<1>4. ReaderInv
  BY DEF ReaderInv
<1>5. MonitorInv
  BY DEF MonitorInv
<1>6. FailureIsNotHidden
  BY DEF FailureIsNotHidden
<1> QED
  BY <1>1, <1>2, <1>3, <1>4, <1>5, <1>6 DEF IInv

(* The inductive invariant holds for any number of bots, commands, incarnations *)
(* and read pumps.                                                             *)
THEOREM InductiveInvariant == Spec => []IInv
BY InvInit, InvStep, PTL DEF Spec

(* Every variable keeps its type.                                              *)
THEOREM TypeCorrect == Spec => []TypeOK
<1>1. IInv => TypeOK
  BY DEF IInv
<1> QED
  BY <1>1, InductiveInvariant, PTL

(* readStdout, handleStdoutLine and monitorProcess, which look their process up *)
(* by bot identifier, always find the incarnation they were started for.       *)
THEOREM OwnIncarnationHolds == Spec => []OwnIncarnation
<1>1. IInv => OwnIncarnation
  <2> SUFFICES ASSUME IInv, NEW p \in Procs
               PROVE /\ reader[p] # "lost" /\ rptr[p] \in {p, None}
                     /\ monitor[p] # "lost" /\ mptr[p] \in {p, None}
                     /\ reader[p] = "reading" => Registered(p)
    BY DEF OwnIncarnation
  <2>1. reader[p] # "lost" /\ rptr[p] \in {p, None}
    BY DEF IInv, ReaderInv
  <2>2. monitor[p] # "lost" /\ mptr[p] \in {p, None}
    BY DEF IInv, MonitorInv
  <2>3. reader[p] = "reading" => Registered(p)
    BY NoneAssumption DEF IInv, ReaderInv, RegistryInv, Active, Registered
  <2> QED
    BY <2>1, <2>2, <2>3
<1> QED
  BY <1>1, InductiveInvariant, PTL

(* A live Python process is registered or still held by the StartBot that      *)
(* started it, whatever races it ran in.                                       *)
THEOREM NoOrphanHolds == Spec => []NoOrphan
<1>1. IInv => NoOrphan
  BY NoneAssumption DEF IInv, MonitorInv, RegistryInv, Registered, NoOrphan
<1> QED
  BY <1>1, InductiveInvariant, PTL

(* What restart_bot would start again is what the bot runs now.                *)
THEOREM SavedConfigHolds == Spec => []SavedConfigIsRunning
<1>1. IInv => SavedConfigIsRunning
  BY DEF IInv, RegistryInv, SavedConfigIsRunning
<1> QED
  BY <1>1, InductiveInvariant, PTL

(* A bot that failed and that nobody stopped is not reported as stopped.       *)
THEOREM FailureIsNotHiddenHolds == Spec => []FailureIsNotHidden
<1>1. IInv => FailureIsNotHidden
  BY DEF IInv
<1> QED
  BY <1>1, InductiveInvariant, PTL

-------------------------------------------------------------------------------
(* The refinement: a step launches an incarnation, gives it the slot, lets it  *)
(* die, empties the slot, or changes nothing BotSlots sees.                    *)

Used == {p \in Procs : monitor[p] # "none"}

(* A step that leaves the registry, the processes and the monitors alone is    *)
(* invisible to BotSlots.                                                      *)
LEMMA QuietStutters ==
    ASSUME UNCHANGED <<processes, os, owner, monitor>>
    PROVE  UNCHANGED Slots!vars
BY DEF Slots!vars

(* So is a step of a monitor that has started and does not unregister.         *)
LEMMA MonitorStutters ==
    ASSUME IInv, UNCHANGED <<processes, os, owner>>,
           NEW p \in Procs, monitor[p] # "none",
           NEW l \in {"waiting", "draining", "unregister", "report", "finish", "done", "lost"},
           MonitorGoto(p, l)
    PROVE  UNCHANGED Slots!vars
<1>1. \A q \in Procs : (monitor'[q] # "none") <=> (monitor[q] # "none")
  BY DEF IInv, TypeOK, MonitorGoto
<1> QED
  BY <1>1 DEF Slots!vars

(* Every step is a step of BotSlots or changes nothing BotSlots sees.          *)
LEMMA RefineStep == IInv /\ [Next]_vars => [Slots!Next]_(Slots!vars)
<1> SUFFICES ASSUME IInv, [Next]_vars PROVE Slots!Next \/ UNCHANGED Slots!vars
  OBVIOUS
<1>t. TypeOK
  BY DEF IInv
<1> USE DEF sysVars, procVars, bookVars, doneVars, readVars, moniVars, regVars, jobVars
<1>1. ASSUME NEW w \in Workers, HandleCreateBot(w)
      PROVE  Slots!Next \/ UNCHANGED Slots!vars
  BY <1>1, QuietStutters DEF HandleCreateBot, HandleCommand
<1>2. ASSUME NEW w \in Workers, HandleStopBot(w)
      PROVE  Slots!Next \/ UNCHANGED Slots!vars
  BY <1>2, QuietStutters DEF HandleStopBot, HandleCommand
<1>3. ASSUME NEW w \in Workers, HandleRestartBot(w)
      PROVE  Slots!Next \/ UNCHANGED Slots!vars
  BY <1>3, QuietStutters DEF HandleRestartBot, HandleCommand
<1>4. ASSUME NEW w \in Workers, StopAllSnapshot(w)
      PROVE  Slots!Next \/ UNCHANGED Slots!vars
  BY <1>4, QuietStutters DEF StopAllSnapshot
<1>5. ASSUME NEW w \in Workers, ReplyError(w)
      PROVE  Slots!Next \/ UNCHANGED Slots!vars
  BY <1>5, QuietStutters DEF ReplyError, Return
<1>6. ASSUME NEW w \in Workers, StartBotCheck(w)
      PROVE  Slots!Next \/ UNCHANGED Slots!vars
  BY <1>6, QuietStutters DEF StartBotCheck
<1>7. ASSUME NEW w \in Workers, StartBotPrepareFails(w)
      PROVE  Slots!Next \/ UNCHANGED Slots!vars
  BY <1>7, QuietStutters DEF StartBotPrepareFails
<1>8. ASSUME NEW w \in Workers, StartBotWrite(w)
      PROVE  Slots!Next \/ UNCHANGED Slots!vars
  BY <1>8, QuietStutters DEF StartBotWrite
<1>9. ASSUME NEW w \in Workers, StartBotSpawnFails(w)
      PROVE  Slots!Next \/ UNCHANGED Slots!vars
  BY <1>9, QuietStutters DEF StartBotSpawnFails
<1>10. ASSUME NEW w \in Workers, StartBotSpawn(w)
       PROVE  Slots!Next \/ UNCHANGED Slots!vars
  <2>1. PICK q \in Procs : /\ os[q] = "none" /\ os' = [os EXCEPT ![q] = "alive"]
                            /\ owner' = [owner EXCEPT ![q] = bot[w]]
    BY <1>10 DEF StartBotSpawn
  <2>2. bot[w] \in Bots
    BY <1>10 DEF IInv, WorkerInv, AtHome, StartBotSpawn
  <2>3. UNCHANGED processes /\ UNCHANGED Used
    BY <1>10 DEF StartBotSpawn, Used
  <2>4. Slots!Launch(bot[w], q)
    BY <2>1, <2>3 DEF Slots!Launch, Used
  <2> QED
    BY <2>2, <2>4 DEF Slots!Next
<1>11. ASSUME NEW w \in Workers, StartBotRegister(w)
       PROVE  Slots!Next \/ UNCHANGED Slots!vars
  <2>1. PICK q \in Procs : q = tgt[w] /\ Holds(w, q) /\ bot[w] \in Bots
    BY <1>11 DEF IInv, WorkerInv, Holds, StartBotRegister, AtHome
  <2>2. os[q] # "none" /\ owner[q] = bot[w] /\ monitor[q] = "none"
    BY <2>1 DEF IInv, WorkerInv
  <2>3. Used' = Used \cup {q}
    BY <1>11, <1>t, <2>1 DEF StartBotRegister, Used, TypeOK
  <2>4. /\ processes[bot[w]] = None /\ processes' = [processes EXCEPT ![bot[w]] = q]
        /\ UNCHANGED <<os, owner>>
    BY <1>11, <2>1 DEF StartBotRegister, SlotFree
  <2>5. q \notin Used
    BY <2>2 DEF Used
  <2>6. Slots!Take(bot[w], q)
    BY <2>2, <2>3, <2>4, <2>5 DEF Used, Slots!Take
  <2> QED
    BY <2>1, <2>6 DEF Slots!Next
<1>12. ASSUME NEW w \in Workers, StartBotLose(w)
       PROVE  Slots!Next \/ UNCHANGED Slots!vars
  BY <1>12, QuietStutters DEF StartBotLose, SlotFree, KillEffect
<1>13. ASSUME NEW w \in Workers, StartBotReap(w)
       PROVE  Slots!Next \/ UNCHANGED Slots!vars
  BY <1>13, QuietStutters DEF StartBotReap, Reaped
<1>14. ASSUME NEW w \in Workers, StartBotDeferredStatus(w)
       PROVE  Slots!Next \/ UNCHANGED Slots!vars
  BY <1>14, QuietStutters DEF StartBotDeferredStatus
<1>15. ASSUME NEW w \in Workers, StartBotReport(w)
       PROVE  Slots!Next \/ UNCHANGED Slots!vars
  BY <1>15, QuietStutters DEF StartBotReport, Return
<1>16. ASSUME NEW w \in Workers, StopBotLookup(w)
       PROVE  Slots!Next \/ UNCHANGED Slots!vars
  BY <1>16, QuietStutters DEF StopBotLookup
<1>17. ASSUME NEW w \in Workers, StopBotNotRunning(w)
       PROVE  Slots!Next \/ UNCHANGED Slots!vars
  BY <1>17, QuietStutters DEF StopBotNotRunning, AfterStopError
<1>18. ASSUME NEW w \in Workers, StopBotSignal(w)
       PROVE  Slots!Next \/ UNCHANGED Slots!vars
  BY <1>18, QuietStutters DEF StopBotSignal
<1>19. ASSUME NEW w \in Workers, StopBotDone(w)
       PROVE  Slots!Next \/ UNCHANGED Slots!vars
  BY <1>19, QuietStutters DEF StopBotDone, StopBotReturnsNil, Return, Joined
<1>20. ASSUME NEW w \in Workers, StopBotTimeout(w)
       PROVE  Slots!Next \/ UNCHANGED Slots!vars
  BY <1>20, QuietStutters DEF StopBotTimeout, KillEffect
<1>21. ASSUME NEW w \in Workers, StopBotKillFails(w)
       PROVE  Slots!Next \/ UNCHANGED Slots!vars
  BY <1>21, QuietStutters DEF StopBotKillFails, AfterStopError
<1>22. ASSUME NEW w \in Workers, RestartBotConfig(w)
       PROVE  Slots!Next \/ UNCHANGED Slots!vars
  BY <1>22, QuietStutters DEF RestartBotConfig
<1>23. ASSUME NEW w \in Workers, RestartBotLook(w)
       PROVE  Slots!Next \/ UNCHANGED Slots!vars
  BY <1>23, QuietStutters DEF RestartBotLook
<1>24. ASSUME NEW w \in Workers, StopAllNext(w)
       PROVE  Slots!Next \/ UNCHANGED Slots!vars
  BY <1>24, QuietStutters DEF StopAllNext
<1>25. ASSUME NEW w \in Workers, StopAllReturns(w)
       PROVE  Slots!Next \/ UNCHANGED Slots!vars
  BY <1>25, QuietStutters DEF StopAllReturns
<1>26. ASSUME NEW w \in Workers, StopAllDeadline(w)
       PROVE  Slots!Next \/ UNCHANGED Slots!vars
  BY <1>26, QuietStutters DEF StopAllDeadline
<1>27. ASSUME NEW p \in Procs, ReadStdoutStart(p)
       PROVE  Slots!Next \/ UNCHANGED Slots!vars
  BY <1>27, QuietStutters DEF ReadStdoutStart
<1>28. ASSUME NEW p \in Procs, ReadStdoutExitMessage(p)
       PROVE  Slots!Next \/ UNCHANGED Slots!vars
  BY <1>28, QuietStutters DEF ReadStdoutExitMessage
<1>29. ASSUME NEW p \in Procs, ReadStdoutEOF(p)
       PROVE  Slots!Next \/ UNCHANGED Slots!vars
  BY <1>29, QuietStutters DEF ReadStdoutEOF, ReaderReturns, Closes
<1>30. ASSUME NEW p \in Procs, ReadStdoutClosed(p)
       PROVE  Slots!Next \/ UNCHANGED Slots!vars
  BY <1>30, QuietStutters DEF ReadStdoutClosed, ReaderReturns, Closes
<1>31. ASSUME NEW p \in Procs, ReadStdoutTooLong(p)
       PROVE  Slots!Next \/ UNCHANGED Slots!vars
  BY <1>31, QuietStutters DEF ReadStdoutTooLong, ReaderReturns, Closes
<1>32. ASSUME NEW p \in Procs, MonitorStart(p)
       PROVE  Slots!Next \/ UNCHANGED Slots!vars
  BY <1>32, MonitorStutters DEF MonitorStart, MonitorGoto
<1>33. ASSUME NEW p \in Procs, MonitorWait(p)
       PROVE  Slots!Next \/ UNCHANGED Slots!vars
  BY <1>33, MonitorStutters DEF MonitorWait, MonitorGoto
<1>34. ASSUME NEW p \in Procs, MonitorDrain(p)
       PROVE  Slots!Next \/ UNCHANGED Slots!vars
  BY <1>34, MonitorStutters DEF MonitorDrain, MonitorGoto
<1>35. ASSUME NEW p \in Procs, MonitorUnregister(p)
       PROVE  Slots!Next \/ UNCHANGED Slots!vars
  <2>1. owner[p] \in Bots /\ processes[owner[p]] = p /\ os[p] = "exited"
    BY <1>35 DEF MonitorUnregister, IInv, RegistryInv, MonitorInv, Active
  <2>2. UNCHANGED Used
    BY <1>35, <1>t DEF MonitorUnregister, MonitorGoto, Used, TypeOK
  <2>3. Slots!Leave(owner[p])
    BY <1>35, <2>1, <2>2, NoneAssumption DEF MonitorUnregister, Used, Slots!Leave
  <2> QED
    BY <2>1, <2>3 DEF Slots!Next
<1>36. ASSUME NEW p \in Procs, MonitorReport(p)
       PROVE  Slots!Next \/ UNCHANGED Slots!vars
  BY <1>36, MonitorStutters DEF MonitorReport, MonitorGoto
<1>37. ASSUME NEW p \in Procs, MonitorFinish(p)
       PROVE  Slots!Next \/ UNCHANGED Slots!vars
  BY <1>37, MonitorStutters DEF MonitorFinish, MonitorGoto
<1>38. ASSUME NEW p \in Procs, RunnerLoad(p)
       PROVE  Slots!Next \/ UNCHANGED Slots!vars
  BY <1>38, QuietStutters DEF RunnerLoad
<1>39. ASSUME NEW p \in Procs, RunnerExitMessage(p)
       PROVE  Slots!Next \/ UNCHANGED Slots!vars
  BY <1>39, QuietStutters DEF RunnerExitMessage
<1>40. ASSUME NEW p \in Procs, RunnerExit(p)
       PROVE  Slots!Next \/ UNCHANGED Slots!vars
  BY <1>40 DEF RunnerExit, Slots!Next, Slots!Die
<1>41. CASE UNCHANGED vars
  BY <1>41, QuietStutters DEF vars
<1> QED
  BY <1>1, <1>2, <1>3, <1>4, <1>5, <1>6, <1>7, <1>8, <1>9, <1>10, <1>11,
     <1>12, <1>13, <1>14, <1>15, <1>16, <1>17, <1>18, <1>19, <1>20, <1>21,
     <1>22, <1>23, <1>24, <1>25, <1>26, <1>27, <1>28, <1>29, <1>30, <1>31,
     <1>32, <1>33, <1>34, <1>35, <1>36, <1>37, <1>38, <1>39, <1>40, <1>41
  DEF Next, Dispatch, Worker, StartBot, StopBot, RestartBot, StopAll, readStdout,
      monitorProcess, Runner

(* The registry starts as BotSlots starts: every slot is free.                 *)
LEMMA RefineInit == Init => Slots!Init
BY DEF Init, Slots!Init

(* The process manager implements BotSlots: an incarnation takes its bot's slot *)
(* once, when it is free, and leaves it dead.                                  *)
THEOREM Refinement == Spec => ImplementsSlots
BY RefineInit, RefineStep, InductiveInvariant, PTL DEF Spec, ImplementsSlots,
   Slots!Spec
===============================================================================
