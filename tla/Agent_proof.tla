----------------------------- MODULE Agent_proof ------------------------------
(* The safety of the agent's life cycle, for any numbers of bots, read pumps   *)
(* and incarnations.                                                           *)
EXTENDS Agent, TLAPS

LEMMA Names ==
    /\ None \notin Bots /\ None \notin Procs /\ None \notin Pumps
    /\ None # 0 /\ None # 1 /\ Main \notin Pumps
  BY NoneAssumption, MainAssumption

LEMMA InitInv == Init => IInv
  <1> SUFFICES ASSUME Init PROVE IInv
    OBVIOUS
  <1> USE Names, InvocationsAssumption DEF Init, Slots!Init
  <1>1. TypeOK
    BY DEF TypeOK, Workers
  <1>2. PhaseInv
    BY DEF PhaseInv, StartUpPhases, ShutDownPhases, EndPhases
  <1>3. JobInv /\ SlotInv /\ LateInv /\ StopAllInv /\ OneLateStartEach
    BY DEF JobInv, SlotInv, LateInv, StopAllInv, OneLateStartEach, ShutDownPhases, EndPhases
  <1> QED
    BY <1>1, <1>2, <1>3 DEF IInv

-------------------------------------------------------------------------------
(* What a step that leaves bots, jobs and pumps alone need not show again.     *)
LEMMA SameBots ==
    ASSUME IInv, UNCHANGED <<pumpVars, pc, op, bot, slotVars, starter, late>>,
           \A h \in Pumps : tgt'[h] = tgt[h],
           phase' = "stopbot" => tgt'[Main] \in used,
           ctx' = ctx \/ ctx' = "done"
    PROVE  JobInv' /\ SlotInv' /\ LateInv' /\ OneLateStartEach'
  <1> USE DEF pumpVars, slotVars, IInv
  <1>1. JobInv'
    BY DEF JobInv
  <1>2. SlotInv'
    BY DEF SlotInv, Owns
  <1>3. LateInv' /\ OneLateStartEach'
    BY DEF LateInv, OneLateStartEach
  <1> QED
    BY <1>1, <1>2, <1>3

LEMMA StartUpStep == ASSUME IInv, StartUp PROVE IInv'
  <1> USE Names DEF IInv
  <1>1. CASE Connected
    <2> USE <1>1 DEF Connected, mainVars, jobVars, procVars, slotVars
    <2>1. TypeOK'
      BY DEF TypeOK, Workers
    <2>2. PhaseInv'
      BY DEF PhaseInv, StartUpPhases, ShutDownPhases, EndPhases
    <2>3. JobInv' /\ SlotInv'
      BY DEF JobInv, SlotInv, TypeOK, Owns
    <2>4. LateInv' /\ OneLateStartEach'
      BY DEF LateInv, OneLateStartEach, TypeOK
    <2>5. StopAllInv'
      BY DEF StopAllInv, ShutDownPhases, EndPhases
    <2> QED
      BY <2>1, <2>2, <2>3, <2>4, <2>5
  <1>2. CASE \/ Run \/ OpenSQLite \/ OpenSQLiteFails \/ SetUp \/ SetUpFails \/ Dial
             \/ DialFails \/ AuthFails
    <2> USE <1>2 DEF Run, OpenSQLite, OpenSQLiteFails, SetUp, SetUpFails, Dial, DialFails,
                     AuthFails, MainStep, KeepsJob, RunFails, Canceled
    <2>1. TypeOK'
      BY DEF TypeOK, Workers, pumpVars, procVars, slotVars, ParseResult
    <2>2. PhaseInv'
      BY DEF PhaseInv, StartUpPhases, ShutDownPhases, EndPhases, ParseResult, ExitCode,
             pumpVars, procVars, slotVars
    <2>3. JobInv' /\ SlotInv' /\ LateInv' /\ OneLateStartEach'
      <3>1. UNCHANGED <<pumpVars, pc, op, bot, tgt, slotVars, starter, late, ctx>>
        BY DEF procVars
      <3>2. phase' # "stopbot"
        OBVIOUS
      <3> QED
        BY <3>1, <3>2, SameBots
    <2>4. StopAllInv'
      <3>1. \A p \in Procs : life[p] = "none"
        BY DEF PhaseInv, StartUpPhases
      <3>2. snap = {}
        BY DEF StopAllInv, ShutDownPhases, EndPhases
      <3> QED
        BY <3>1, <3>2 DEF StopAllInv, procVars, slotVars
    <2> QED
      BY <2>1, <2>2, <2>3, <2>4
  <1> QED
    BY <1>1, <1>2 DEF StartUp

-------------------------------------------------------------------------------
LEMMA ShutDownStep == ASSUME IInv, ShutDown PROVE IInv'
  <1> USE Names DEF IInv
  <1> USE DEF ShutDownPhases, EndPhases
  <1>1. CASE StopAll
    <2> USE <1>1 DEF StopAll, MainStep, Running
    <2>1. TypeOK' /\ PhaseInv'
      BY DEF TypeOK, Workers, PhaseInv, StartUpPhases, pumpVars, procVars, slotVars
    <2>2. JobInv' /\ SlotInv' /\ LateInv' /\ OneLateStartEach'
      BY SameBots DEF procVars
    <2>3. StopAllInv'
      BY DEF StopAllInv, SlotInv, TypeOK, Owns, procVars, slotVars
    <2> QED
      BY <2>1, <2>2, <2>3
  <1>2. CASE StopAllNext
    <2> USE <1>2 DEF StopAllNext
    <2>1. TypeOK' /\ PhaseInv'
      BY DEF TypeOK, Workers, PhaseInv, StartUpPhases, pumpVars, procVars, slotVars
    <2>2. JobInv' /\ SlotInv' /\ LateInv' /\ OneLateStartEach'
      <3>1. phase' = "stopbot" => tgt'[Main] \in used
        BY DEF SlotInv, TypeOK, Workers
      <3>2. \A h \in Pumps : tgt'[h] = tgt[h]
        BY DEF TypeOK, Workers
      <3> QED
        BY <3>1, <3>2, SameBots DEF procVars
    <2>3. StopAllInv'
      BY DEF StopAllInv, SlotInv, TypeOK, Workers, Owns, procVars, slotVars
    <2> QED
      BY <2>1, <2>2, <2>3
  <1>3. CASE StopAllDeadline \/ StopAllReturns
    <2> USE <1>3 DEF StopAllDeadline, StopAllReturns, MainStep, KeepsJob
    <2>1. TypeOK' /\ PhaseInv'
      BY DEF TypeOK, Workers, PhaseInv, StartUpPhases, pumpVars, jobVars, procVars, slotVars
    <2>2. JobInv' /\ SlotInv' /\ LateInv' /\ OneLateStartEach'
      BY SameBots DEF procVars, jobVars
    <2>3. StopAllInv'
      BY DEF StopAllInv, Owns, jobVars, procVars, slotVars
    <2> QED
      BY <2>1, <2>2, <2>3
  <1>4. CASE StopAllStops
    <2> USE <1>4 DEF StopAllStops, Left, StopBotTimeout, Kill, StopBotKillFails, Holds
    <2>1. TypeOK'
      BY DEF TypeOK, Workers, pumpVars, procVars, slotVars, JobInv
    <2>2. PhaseInv'
      BY DEF PhaseInv, StartUpPhases, pumpVars, procVars, slotVars
    <2>3. JobInv' /\ SlotInv' /\ LateInv' /\ OneLateStartEach'
      <3>1. phase' = "stopbot" => tgt'[Main] \in used
        BY DEF JobInv
      <3>2. \A h \in Pumps : tgt'[h] = tgt[h]
        BY DEF TypeOK, Workers
      <3> QED
        BY <3>1, <3>2, SameBots DEF procVars, slotVars
    <2>4. StopAllInv'
      <3>1. tgt[Main] \in used
        BY DEF JobInv
      <3>2. \A h \in Pumps, p \in Procs : Owns(h, p)' <=> Owns(h, p)
        BY DEF Owns, TypeOK, Workers
      <3>3. CASE Left(tgt[Main]) /\ phase' = "stopall" /\ UNCHANGED procVars
        <4>1. life[tgt[Main]] # "alive"
          BY <3>1, <3>3 DEF SlotInv, TypeOK
        <4> QED
          BY <3>2, <3>3, <4>1 DEF StopAllInv, procVars, slotVars
      <3>4. CASE StopBotTimeout(tgt[Main]) /\ UNCHANGED <<tgt, phase>>
        BY <3>2, <3>4 DEF StopAllInv, TypeOK, slotVars
      <3>5. CASE StopBotKillFails(tgt[Main]) /\ phase' = "stopall"
        BY <3>2, <3>5 DEF StopAllInv, TypeOK, slotVars
      <3> QED
        BY <3>3, <3>4, <3>5
    <2> QED
      BY <2>1, <2>2, <2>3, <2>4
  <1>5. CASE CloseConn
    <2> USE <1>5 DEF CloseConn, mainVars, jobVars, procVars, slotVars
    <2>1. TypeOK' /\ PhaseInv'
      BY DEF TypeOK, Workers, PhaseInv, StartUpPhases
    <2>2. JobInv' /\ SlotInv' /\ LateInv' /\ OneLateStartEach'
      BY DEF JobInv, SlotInv, LateInv, OneLateStartEach, Owns
    <2>3. StopAllInv'
      BY DEF StopAllInv, Owns
    <2> QED
      BY <2>1, <2>2, <2>3
  <1>6. CASE CloseReturns \/ Exit
    <2> USE <1>6 DEF CloseReturns, Exit, MainStep, KeepsJob, PumpsHaveReturned
    <2>1. TypeOK'
      BY DEF TypeOK, Workers, PhaseInv, ExitCode, pumpVars, procVars, slotVars
    <2>2. PhaseInv'
      BY DEF PhaseInv, StartUpPhases, ExitCode, TypeOK, ParseResult, pumpVars, procVars, slotVars
    <2>3. JobInv' /\ SlotInv' /\ LateInv' /\ OneLateStartEach'
      BY SameBots DEF procVars
    <2>4. StopAllInv'
      BY DEF StopAllInv, Owns, procVars, slotVars
    <2> QED
      BY <2>1, <2>2, <2>3, <2>4
  <1> QED
    BY <1>1, <1>2, <1>3, <1>4, <1>5, <1>6 DEF ShutDown

-------------------------------------------------------------------------------
LEMMA EnvironmentStep ==
    ASSUME IInv, Signal \/ ConnLost \/ (\E p \in Procs : Die(p)) \/ (\E b \in Bots : Leave(b))
    PROVE  IInv'
  <1> USE Names DEF IInv
  <1>1. CASE Signal \/ ConnLost
    <2> USE <1>1 DEF Signal, ConnLost, mainVars, pumpVars, jobVars, procVars, slotVars
    <2>1. TypeOK' /\ PhaseInv'
      BY DEF TypeOK, Workers, PhaseInv, StartUpPhases, ShutDownPhases, EndPhases
    <2>2. JobInv' /\ SlotInv' /\ LateInv' /\ OneLateStartEach'
      BY DEF JobInv, SlotInv, LateInv, OneLateStartEach, Owns
    <2>3. StopAllInv'
      BY DEF StopAllInv, ShutDownPhases, EndPhases, Owns
    <2> QED
      BY <2>1, <2>2, <2>3
  <1>2. ASSUME NEW p \in Procs, Die(p) PROVE IInv'
    <2> USE <1>2 DEF Die, Slots!Die, sysVars, mainVars, jobVars
    <2>1. TypeOK' /\ PhaseInv'
      BY DEF TypeOK, Workers, PhaseInv, StartUpPhases, ShutDownPhases, EndPhases
    <2>2. JobInv' /\ LateInv' /\ OneLateStartEach'
      BY DEF JobInv, LateInv, OneLateStartEach, TypeOK
    <2>3. \A q \in Procs : life'[q] = "alive" => life[q] = "alive"
      BY DEF TypeOK
    <2>4. SlotInv' /\ StopAllInv'
      BY <2>3 DEF SlotInv, StopAllInv, Owns, TypeOK
    <2> QED
      BY <2>1, <2>2, <2>4
  <1>3. ASSUME NEW b \in Bots, Leave(b) PROVE IInv'
    <2> USE <1>3 DEF Leave, Slots!Leave, sysVars, mainVars, jobVars
    <2>1. TypeOK' /\ PhaseInv'
      BY DEF TypeOK, Workers, PhaseInv, StartUpPhases, ShutDownPhases, EndPhases
    <2>2. JobInv' /\ LateInv' /\ OneLateStartEach' /\ StopAllInv'
      BY DEF JobInv, LateInv, OneLateStartEach, StopAllInv, Owns, TypeOK
    <2>3. SlotInv'
      BY DEF SlotInv, Owns, TypeOK
    <2> QED
      BY <2>1, <2>2, <2>3
  <1> QED
    BY <1>1, <1>2, <1>3

LEMMA PumpStep ==
    ASSUME IInv, NEW h \in Pumps,
           Reconnect(h) \/ PumpLoop(h) \/ PumpReads(h) \/ PumpReadFails(h)
    PROVE  IInv'
  <1> USE Names DEF IInv
  <1>1. phase' = phase /\ phase \notin StartUpPhases \cup EndPhases
    BY DEF Reconnect, PumpLoop, PumpReads, PumpReadFails, mainVars, PhaseInv, StartUpPhases,
           EndPhases
  <1>2. CASE Reconnect(h) \/ PumpLoop(h) \/ PumpReadFails(h)
    <2> USE <1>2 DEF Reconnect, PumpLoop, PumpReadFails, mainVars, jobVars, procVars, slotVars
    <2>1. TypeOK' /\ PhaseInv'
      BY <1>1 DEF TypeOK, Workers, PhaseInv, ShutDownPhases
    <2>2. JobInv' /\ SlotInv' /\ StopAllInv'
      BY DEF JobInv, SlotInv, StopAllInv, Owns, TypeOK
    <2>3. LateInv' /\ OneLateStartEach'
      BY DEF LateInv, OneLateStartEach, MayRead, TypeOK
    <2> QED
      BY <2>1, <2>2, <2>3
  <1>3. CASE PumpReads(h)
    <2> USE <1>3 DEF PumpReads, mainVars, procVars, slotVars
    <2>0. pc'[h] \in {"start", "lookup", "restart"} /\ bot'[h] \in Bots
      BY DEF First, TypeOK
    <2>1. TypeOK'
      BY DEF TypeOK, Workers, First
    <2>2. PhaseInv'
      BY <1>1 DEF PhaseInv, ShutDownPhases
    <2>3. JobInv'
      BY <2>0 DEF JobInv, TypeOK
    <2>4. SlotInv' /\ StopAllInv'
      <3>1. \A g \in Pumps, p \in Procs : Owns(g, p) => Owns(g, p)'
        BY DEF Owns, JobInv, TypeOK
      <3> QED
        BY <3>1 DEF SlotInv, StopAllInv, TypeOK
    <2>5. LateInv' /\ OneLateStartEach'
      BY DEF LateInv, OneLateStartEach, TypeOK
    <2> QED
      BY <2>1, <2>2, <2>3, <2>4, <2>5
  <1> QED
    BY <1>2, <1>3

-------------------------------------------------------------------------------
(* A step of a command that only moves the pump on, with perhaps another        *)
(* process to stop, and leaves none that is alive in nobody's hands.            *)
LEMMA MoveStep ==
    ASSUME IInv, NEW h \in Pumps, pump[h] = "handle",
           UNCHANGED <<sysVars, procVars>>,
           (\E l \in {"start", "launch", "lookup", "stop"} : Goto(h, l)) \/ Return(h),
           pc'[h] # "idle" => pc[h] # "idle",
           pc'[h] = "stop" => tgt'[h] \in used,
           pc[h] \in {"register", "reap"} => life[tgt[h]] # "alive",
           \/ UNCHANGED tgt
           \/ \E p \in Procs \cup {None} : Holds(h, p)
    PROVE  IInv'
  <1> USE Names DEF IInv, sysVars, mainVars, procVars, slotVars
  <1>1. phase \notin StartUpPhases \cup EndPhases
    BY DEF PhaseInv
  <1>2. /\ pump' \in [Pumps -> {"none", "loop", "read", "handle"}]
        /\ pump'[h] \in {"handle", "loop"}
        /\ \A g \in Pumps \ {h} : pump'[g] = pump[g]
        /\ pump'[h] # "handle" => pc'[h] = "idle"
    BY DEF TypeOK, Goto, Return
  <1>3. /\ pc' \in [Pumps -> {"idle", "restart", "start", "launch", "register", "reap",
                               "lookup", "stop"}]
        /\ pc'[h] \in {"idle", "start", "launch", "lookup", "stop"}
        /\ \A g \in Pumps \ {h} : pc'[g] = pc[g]
    BY DEF TypeOK, Goto, Return
  <1>4. /\ bot' \in [Pumps -> Bots \cup {None}] /\ op' \in [Pumps -> Commands \cup {None}]
        /\ \A g \in Pumps \ {h} : bot'[g] = bot[g]
        /\ pc'[h] # "idle" => bot'[h] = bot[h]
    BY DEF TypeOK, Goto, Return
  <1>5. /\ tgt' \in [Workers -> Procs \cup {None}] /\ tgt'[Main] = tgt[Main]
        /\ \A g \in Pumps \ {h} : tgt'[g] = tgt[g]
    BY DEF TypeOK, Workers, Holds
  <1>6. TypeOK'
    BY <1>2, <1>3, <1>4, <1>5 DEF TypeOK
  <1>7. PhaseInv'
    BY <1>1 DEF PhaseInv
  <1>8. JobInv'
    BY <1>2, <1>3, <1>4, <1>5 DEF JobInv
  <1>9. \A p \in Procs : life[p] = "alive" =>
            \A g \in Pumps : Owns(g, p) => Owns(g, p)'
    BY <1>3, <1>5 DEF Owns
  <1>10. SlotInv'
    BY <1>9 DEF SlotInv
  <1>11. LateInv' /\ OneLateStartEach'
    BY <1>2 DEF LateInv, OneLateStartEach
  <1>12. StopAllInv'
    <2>1. \A p \in Procs : life'[p] = "alive" =>
             ((\E g \in Pumps : Owns(g, p)) => (\E g \in Pumps : Owns(g, p)'))
      BY <1>9
    <2> QED
      BY <2>1, <1>5 DEF StopAllInv
  <1> QED
    BY <1>6, <1>7, <1>8, <1>10, <1>11, <1>12

(* The steps that start, register or kill a process.                            *)
LEMMA LaunchStep == ASSUME IInv, NEW h \in Pumps, StartBotLaunches(h) PROVE IInv'
  <1> USE Names DEF IInv, sysVars, mainVars
  <1> USE DEF StartBotLaunches, At, Goto, Holds
  <1>0. PICK p \in Procs : /\ Slots!Launch(bot[h], p)
                            /\ tgt' = [tgt EXCEPT ![h] = p]
                            /\ starter' = [starter EXCEPT ![p] = h]
    OBVIOUS
  <1>1. /\ life[p] = "none" /\ life' = [life EXCEPT ![p] = "alive"]
        /\ home' = [home EXCEPT ![p] = bot[h]] /\ UNCHANGED <<slot, used>>
    BY <1>0 DEF Slots!Launch
  <1>2. p \notin used /\ bot[h] \in Bots /\ h \in Workers /\ h # Main
    BY <1>1 DEF SlotInv, JobInv, Workers
  <1>3. TypeOK'
    BY <1>0, <1>1, <1>2 DEF TypeOK
  <1>4. PhaseInv'
    BY DEF PhaseInv
  <1>5. /\ \A q \in Procs \ {p} : life'[q] = life[q] /\ home'[q] = home[q]
                                    /\ starter'[q] = starter[q]
        /\ life'[p] = "alive" /\ home'[p] = bot[h] /\ starter'[p] = h
    BY <1>0, <1>1 DEF TypeOK
  <1>6. /\ \A g \in Pumps \ {h} : pc'[g] = pc[g] /\ tgt'[g] = tgt[g]
        /\ pc'[h] = "register" /\ tgt'[h] = p /\ tgt'[Main] = tgt[Main]
    BY <1>0, <1>2 DEF TypeOK, Workers
  <1>7. JobInv'
    BY <1>1, <1>2, <1>5, <1>6 DEF JobInv
  <1>8. /\ Owns(h, p)'
        /\ \A g \in Pumps, q \in Procs : Owns(g, q) => Owns(g, q)'
    BY <1>6 DEF Owns
  <1>9. SlotInv'
    BY <1>1, <1>2, <1>5, <1>8 DEF SlotInv, TypeOK
  <1>10. LateInv' /\ OneLateStartEach'
    BY <1>2, <1>5, <1>1 DEF LateInv, OneLateStartEach
  <1>11. StopAllInv'
    <2>1. p \notin snap
      BY <1>2 DEF StopAllInv
    <2> QED
      BY <2>1, <1>1, <1>5, <1>6, <1>8 DEF StopAllInv
  <1> QED
    BY <1>3, <1>4, <1>7, <1>9, <1>10, <1>11

LEMMA RegisterStep == ASSUME IInv, NEW h \in Pumps, StartBotRegisters(h) PROVE IInv'
  <1> USE Names DEF IInv, sysVars, mainVars
  <1> USE DEF StartBotRegisters, At, Return, Holds
  <1> DEFINE p == tgt[h]
  <1>1. /\ p \in Procs \ used /\ life[p] # "none" /\ home[p] = bot[h] /\ starter[p] = h
        /\ bot[h] \in Bots /\ h \in Workers /\ h # Main
    BY DEF JobInv, Workers
  <1>2. /\ slot[bot[h]] = None /\ slot' = [slot EXCEPT ![bot[h]] = p]
        /\ used' = used \cup {p} /\ UNCHANGED <<life, home>>
    BY DEF Slots!Take
  <1>3. TypeOK'
    BY <1>1, <1>2 DEF TypeOK
  <1>4. /\ \A g \in Pumps \ {h} : pc'[g] = pc[g] /\ tgt'[g] = tgt[g] /\ pump'[g] = pump[g]
                                      /\ bot'[g] = bot[g]
        /\ pc'[h] = "idle" /\ pump'[h] = "loop" /\ tgt'[Main] = tgt[Main]
    BY <1>1 DEF TypeOK, Workers
  <1>5. PhaseInv'
    BY <1>2, <1>4 DEF PhaseInv
  <1>6. \A g \in Pumps \ {h} : pc[g] \in {"register", "reap"} => tgt[g] # p
    BY <1>1 DEF JobInv
  <1>7. JobInv'
    BY <1>2, <1>4, <1>6 DEF JobInv
  <1>8. \A g \in Pumps, q \in Procs \ {p} : Owns(g, q) => Owns(g, q)'
    BY <1>4 DEF Owns
  <1>9. /\ slot'[bot[h]] = p /\ \A b \in Bots \ {bot[h]} : slot'[b] = slot[b]
        /\ \A q \in used : slot[home[q]] = q => home[q] # bot[h]
    BY <1>1, <1>2 DEF TypeOK
  <1>10. SlotInv'
    BY <1>1, <1>2, <1>8, <1>9 DEF SlotInv
  <1>11. LateInv'
    BY <1>1, <1>2, <1>4 DEF LateInv
  <1>12. OneLateStartEach'
    <2>1. \A q \in late : starter[q] # h
      BY DEF LateInv
    <2> QED
      BY <1>1, <2>1 DEF OneLateStartEach
  <1>13. StopAllInv'
    <2>1. snap \subseteq used' /\ p \notin snap
      BY <1>1, <1>2 DEF StopAllInv
    <2>2. phase \in ShutDownPhases \cup EndPhases => p \in late'
      BY DEF PhaseInv
    <2>3. late \subseteq late'
      OBVIOUS
    <2> QED
      BY <2>1, <2>2, <2>3, <1>2, <1>4, <1>8 DEF StopAllInv
  <1> QED
    BY <1>3, <1>5, <1>7, <1>10, <1>11, <1>12, <1>13

LEMMA KillStep ==
    ASSUME IInv, NEW h \in Pumps, At(h, "register") \/ At(h, "stop"),
           UNCHANGED <<sysVars, op, bot, pump, slotVars, configs, starter, late>>,
           \/ killed' = killed \cup {q \in {tgt[h]} : life[q] = "alive"} /\ spared' = spared
           \/ killed' = killed /\ spared' = spared \cup {tgt[h]} /\ At(h, "stop"),
           \/ UNCHANGED <<pc, tgt>> /\ At(h, "stop")
           \/ pc' = [pc EXCEPT ![h] = "reap"] /\ UNCHANGED tgt /\ At(h, "register")
    PROVE  IInv'
  <1> USE Names DEF IInv, sysVars, mainVars, slotVars, At
  <1>1. tgt[h] \in Procs /\ bot[h] \in Bots
    BY DEF JobInv, TypeOK
  <1>2. TypeOK'
    BY <1>1 DEF TypeOK
  <1>3. PhaseInv'
    BY DEF PhaseInv
  <1>4. /\ \A g \in Pumps \ {h} : pc'[g] = pc[g]
        /\ \/ pc[h] = "stop" /\ pc'[h] = "stop"
           \/ pc[h] = "register" /\ pc'[h] = "reap"
    BY DEF TypeOK
  <1>5. tgt' = tgt /\ bot' = bot /\ pump' = pump
    OBVIOUS
  <1>6. JobInv'
    <2>1. phase' = "stopbot" => tgt'[Main] \in used'
      BY <1>5 DEF JobInv
    <2> SUFFICES ASSUME NEW g \in Pumps
                 PROVE  /\ pump'[g] # "handle" => pc'[g] = "idle"
                        /\ pc'[g] # "idle" => bot'[g] \in Bots
                        /\ pc'[g] \in {"register", "reap"} =>
                              /\ tgt'[g] \in Procs \ used' /\ life'[tgt'[g]] # "none"
                              /\ home'[tgt'[g]] = bot'[g] /\ starter'[tgt'[g]] = g
                        /\ pc'[g] = "stop" => tgt'[g] \in used'
      BY <2>1 DEF JobInv
    <2>2. CASE g = h
      BY <2>2, <1>1, <1>4, <1>5 DEF JobInv
    <2>3. CASE g # h
      BY <2>3, <1>4, <1>5 DEF JobInv
    <2> QED
      BY <2>2, <2>3
  <1>7. \A g \in Pumps, p \in Procs : Owns(g, p) => Owns(g, p)'
    <2> SUFFICES ASSUME NEW g \in Pumps, NEW p \in Procs, Owns(g, p) PROVE Owns(g, p)'
      OBVIOUS
    <2>1. CASE g = h
      BY <2>1, <1>4, <1>5 DEF Owns
    <2>2. CASE g # h
      BY <2>2, <1>4, <1>5 DEF Owns
    <2> QED
      BY <2>1, <2>2
  <1>8. SlotInv'
    BY <1>7 DEF SlotInv
  <1>9. LateInv' /\ OneLateStartEach'
    BY DEF LateInv, OneLateStartEach
  <1>10. spared \subseteq spared'
    OBVIOUS
  <1>11. StopAllInv'
    BY <1>5, <1>7, <1>10 DEF StopAllInv
  <1> QED
    BY <1>2, <1>3, <1>6, <1>8, <1>9, <1>11

(* The kernel refuses: StopBot returns, and the process is spared.              *)
LEMMA RefusedStep ==
    ASSUME IInv, NEW h \in Pumps, At(h, "stop"), UNCHANGED sysVars,
           StopBotKillFails(tgt[h]), Holds(h, None), Return(h)
    PROVE  IInv'
  <1> USE Names DEF IInv, sysVars, mainVars, slotVars, At, StopBotKillFails, Holds, Return
  <1>1. tgt[h] \in Procs /\ h # Main /\ h \in Workers
    BY DEF JobInv, TypeOK, Workers
  <1>2. TypeOK'
    BY <1>1 DEF TypeOK
  <1>3. /\ \A g \in Pumps \ {h} : pc'[g] = pc[g] /\ tgt'[g] = tgt[g] /\ pump'[g] = pump[g]
                                      /\ bot'[g] = bot[g]
        /\ pc'[h] = "idle" /\ pump'[h] = "loop" /\ tgt'[Main] = tgt[Main]
    BY <1>1 DEF TypeOK, Workers
  <1>4. PhaseInv'
    BY <1>3 DEF PhaseInv
  <1>5. JobInv'
    BY <1>3 DEF JobInv
  <1>6. \A g \in Pumps, p \in Procs : Owns(g, p) => Owns(g, p)'
    BY <1>3 DEF Owns
  <1>7. SlotInv'
    BY <1>6 DEF SlotInv
  <1>8. LateInv' /\ OneLateStartEach'
    BY <1>3 DEF LateInv, OneLateStartEach
  <1>9. StopAllInv'
    BY <1>3, <1>6 DEF StopAllInv
  <1> QED
    BY <1>2, <1>4, <1>5, <1>7, <1>8, <1>9

LEMMA CommandStep == ASSUME IInv, NEW h \in Pumps, Command(h) PROVE IInv'
  <1> USE Names DEF IInv, At
  <1>1. h \in Workers /\ tgt[h] \in Procs \cup {None}
    BY DEF TypeOK, Workers
  <1>2. CASE RestartBot(h) \/ StartBotPrepares(h) \/ StartBotLaunchFails(h)
    BY <1>2, MoveStep DEF RestartBot, StartBotPrepares, StartBotLaunchFails, Goto, Return, TypeOK
  <1>3. CASE StartBotLaunches(h)
    BY <1>3, LaunchStep
  <1>4. CASE StartBotRegisters(h)
    BY <1>4, RegisterStep
  <1>5. CASE StartBotLoses(h)
    BY <1>5, KillStep DEF StartBotLoses, Kill, Goto
  <1>6. CASE StartBotReaps(h)
    <2>1. life[tgt[h]] # "alive"
      BY <1>6 DEF StartBotReaps, Reaped
    <2>2. pc'[h] = "idle"
      BY <1>6 DEF StartBotReaps, Return, TypeOK
    <2> QED
      BY <1>6, <2>1, <2>2, MoveStep DEF StartBotReaps
  <1>7. CASE StopBotLooks(h)
    <2> USE <1>7 DEF StopBotLooks
    <2>1. bot[h] \in Bots
      BY DEF JobInv
    <2>2. slot[bot[h]] \in Procs \cup {None} /\ tgt'[h] = slot[bot[h]]
      BY <1>1, <2>1 DEF TypeOK, Holds
    <2>3. pc'[h] = IF slot[bot[h]] = None THEN "idle" ELSE "stop"
      BY DEF TypeOK, Goto, Return
    <2>4. pc'[h] = "stop" => tgt'[h] \in used
      BY <2>1, <2>2, <2>3 DEF SlotInv
    <2>5. (\E l \in {"start", "launch", "lookup", "stop"} : Goto(h, l)) \/ Return(h)
      OBVIOUS
    <2> QED
      BY <2>2, <2>4, <2>5, MoveStep
  <1>8. CASE PumpStops(h)
    <2> USE <1>8 DEF PumpStops
    <2>1. CASE Holds(h, None) /\ UNCHANGED procVars /\ (Goto(h, "start") \/ Return(h))
      <3>1. pc'[h] # "stop" /\ pc[h] = "stop"
        BY <2>1 DEF TypeOK, Goto, Return
      <3> QED
        BY <2>1, <3>1, MoveStep
    <2>2. CASE StopBotTimeout(tgt[h]) /\ UNCHANGED <<jobVars, pump>>
      BY <2>2, KillStep DEF StopBotTimeout, Kill, jobVars
    <2>3. CASE StopBotKillFails(tgt[h]) /\ Holds(h, None) /\ Return(h)
      BY <2>3, RefusedStep
    <2> QED
      BY <2>1, <2>2, <2>3
  <1> QED
    BY <1>2, <1>3, <1>4, <1>5, <1>6, <1>7, <1>8 DEF Command

LEMMA NextInv == IInv /\ [Next]_vars => IInv'
  <1> SUFFICES ASSUME IInv, [Next]_vars PROVE IInv'
    OBVIOUS
  <1>1. CASE UNCHANGED vars
    BY <1>1 DEF vars, mainVars, pumpVars, jobVars, procVars, slotVars, IInv, TypeOK, PhaseInv,
                JobInv, SlotInv, LateInv, StopAllInv, OneLateStartEach, Owns
  <1>2. CASE StartUp \/ ShutDown
    BY <1>2, StartUpStep, ShutDownStep
  <1>3. CASE Signal \/ ConnLost \/ (\E p \in Procs : Die(p)) \/ (\E b \in Bots : Leave(b))
    BY <1>3, EnvironmentStep
  <1>4. ASSUME NEW h \in Pumps,
               Reconnect(h) \/ PumpLoop(h) \/ PumpReads(h) \/ PumpReadFails(h) \/ Command(h)
        PROVE  IInv'
    BY <1>4, PumpStep, CommandStep
  <1> QED
    BY <1>1, <1>2, <1>3, <1>4 DEF Next

-------------------------------------------------------------------------------
(* The invariant the safety properties below follow from.                       *)
THEOREM InductiveInvariant == Spec => []IInv
  BY InitInv, NextInv, PTL DEF Spec

(* Every variable keeps its type.                                               *)
THEOREM TypeCorrect == Spec => []TypeOK
  <1>1. IInv => TypeOK
    BY DEF IInv
  <1> QED
    BY <1>1, InductiveInvariant, PTL

(* Nothing is opened before the command line is whole; -h and -version succeed. *)
THEOREM StartsOnlyWhenComplete == Spec => []StartsWhenComplete
  <1>1. IInv => StartsWhenComplete
    BY NoneAssumption, InvocationsAssumption
       DEF IInv, TypeOK, PhaseInv, StartsWhenComplete, ParseArgs, MissingSome, ExitCode,
           CommandLine, EndPhases
  <1> QED
    BY <1>1, InductiveInvariant, PTL

(* Whatever the bots and the kernel do, what StopAll saw is dead or spared.     *)
THEOREM StopAllLeavesNone == Spec => []StopAllStopsAll
  <1>1. IInv => StopAllStopsAll
    BY DEF IInv, StopAllInv, StopAllStopsAll
  <1> QED
    BY <1>1, InductiveInvariant, PTL

(* A read pump starts at most one bot after the signal.                         *)
THEOREM OneLateStart == Spec => []OneLateStartEach
  <1>1. IInv => OneLateStartEach
    BY DEF IInv
  <1> QED
    BY <1>1, InductiveInvariant, PTL

(* Only those and what resisted live on when the agent has ended.               *)
THEOREM SurvivorsAreLate == Spec => []OnlyLateOnesSurvive
  <1>1. IInv => OnlyLateOnesSurvive
    <2> SUFFICES ASSUME IInv, exit # None, NEW p \in Procs, life[p] = "alive"
                 PROVE  p \in late \cup spared
      BY DEF OnlyLateOnesSurvive
    <2> USE DEF IInv
    <2>1. phase = "exit"
      BY DEF PhaseInv
    <2>2. \A h \in Pumps : ~ Owns(h, p)
      BY <2>1 DEF PhaseInv, JobInv, Owns, EndPhases
    <2>3. p \in snap \cup spared \cup late
      BY <2>1, <2>2 DEF StopAllInv, EndPhases
    <2>4. p \in snap => p \in spared
      BY <2>1 DEF StopAllInv
    <2> QED
      BY <2>3, <2>4
  <1> QED
    BY <1>1, InductiveInvariant, PTL

(* No read pump outlives the database.                                          *)
THEOREM PumpsEndFirst == Spec => []StoreOutlivesPumps
  <1>1. IInv => StoreOutlivesPumps
    BY DEF IInv, PhaseInv, StartUpPhases, EndPhases, StoreOutlivesPumps
  <1> QED
    BY <1>1, InductiveInvariant, PTL
===============================================================================
