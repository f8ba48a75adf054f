--------------------------- MODULE StatusQueue_proof --------------------------
(* The status queue, for any numbers of connections, bots, incarnations and    *)
(* goroutines and any capacity: it implements StatusChannel, and the pump of a *)
(* connection that is over costs it one message.                               *)
EXTENDS StatusQueue, TLAPS

LEMMA Names ==
    /\ None \notin Conns /\ None \notin Bots /\ None \notin Procs /\ None \notin Messages
    /\ sendBufferSize \in Nat \ {0}
    /\ \A h \in Handlers : h \notin Procs /\ h \notin Beats
    /\ \A p \in Procs : p \notin Handlers /\ p \notin Beats
  BY NoneAssumption, NoMessageAssumption, SizeAssumption, SendersAssumption

LEMMA MessageTypes ==
    /\ Heartbeat \in Messages
    /\ \A b \in Bots, s \in Statuses : Status(b, s) \in Messages
    /\ \A m \in Messages : m.bot \in Bots => m.status \in Statuses
    /\ \A m \in Messages : {m.bot} \cap Bots \subseteq Bots
  BY NoneAssumption DEF Messages, Heartbeat, Status

LEMMA InitInv == Init => IInv
  <1> SUFFICES ASSUME Init PROVE IInv
    OBVIOUS
  <1> USE Names DEF Init, L!Init
  <1>1. TypeOK
    <2>1. sendCh \in Seq(Messages) /\ Len(sendCh) <= sendBufferSize
      OBVIOUS
    <2>2. processes \in [Bots -> Procs \cup {None}] /\ view \in [Bots -> Statuses \cup {None}]
      OBVIOUS
    <2>3. /\ sending \in [Senders -> Messages \cup {None}]
          /\ life \in [Procs -> {"alive", "exited", "unregistered", "reported", "done"}]
          /\ owner \in [Procs -> Bots \cup {None}]
      OBVIOUS
    <2>4. /\ sock \in [Conns -> {"none", "open", "broken", "closed"}]
          /\ pump \in [Conns -> {"none", "run", "write", "failed"}]
          /\ hand \in [Conns -> Messages \cup {None}] /\ swallowed \in [Conns -> 0..2]
      OBVIOUS
    <2>5. /\ pc \in [Handlers -> {"idle", "start", "report", "fail", "reply", "restart",
                                  "stop", "wait"}]
          /\ op \in [Handlers -> {"none", "create", "stop", "restart"}]
          /\ bot \in [Handlers -> Bots \cup {None}] /\ tgt \in [Handlers -> Procs \cup {None}]
      OBVIOUS
    <2> QED
      BY <2>1, <2>2, <2>3, <2>4, <2>5 DEF TypeOK
  <1>2. LinkInv /\ PumpInv
    BY DEF LinkInv, PumpInv, L!Held
  <1>3. JobInv
    BY DEF JobInv, Senders
  <1> QED
    BY <1>1, <1>2, <1>3 DEF IInv

-------------------------------------------------------------------------------
(* Steps that leave the connection and its pumps alone.                        *)
LEMMA QuietLink ==
    ASSUME IInv, UNCHANGED <<linkVars, pumpVars, swallowed>> PROVE LinkInv' /\ PumpInv'
  BY DEF IInv, LinkInv, PumpInv, L!Held, linkVars, pumpVars

LEMMA HandTypes ==
    ASSUME TypeOK, NEW s \in Senders, NEW m \in Messages, Hand(s, m)
    PROVE  /\ sending' \in [Senders -> Messages \cup {None}]
           /\ excused' \subseteq Bots
           /\ \A t \in Senders \ {s} : sending'[t] = sending[t]
  BY DEF TypeOK, Hand

LEMMA SendStep ==
    ASSUME IInv, NEW s \in Senders, SendQueues(s) \/ SendRefuses(s) PROVE IInv'
  <1> USE Names DEF IInv, linkVars, lifeVars, pumpVars, botVars, Forget, Senders
  <1>1. sending[s] \in Messages
    BY DEF TypeOK, SendQueues, SendRefuses
  <1>2. sendCh' \in Seq(Messages) /\ Len(sendCh') <= sendBufferSize
    BY <1>1 DEF TypeOK, SendQueues, SendRefuses, HasRoom
  <1>3. sending' \in [Senders -> Messages \cup {None}] /\ tgt' \in [Handlers -> Procs \cup {None}]
    BY DEF TypeOK, SendQueues, SendRefuses
  <1>4. excused' \subseteq Bots
    <2>1. CASE SendRefuses(s)
      BY <2>1 DEF TypeOK, SendRefuses
    <2>2. CASE SendQueues(s)
      <3>1. Overtaken(s, sending[s]) => sending[s].bot \in Bots
        BY <1>1 DEF Overtaken, Messages, Heartbeat
      <3> QED
        BY <2>2, <3>1 DEF TypeOK, SendQueues
    <2> QED
      BY <2>1, <2>2
  <1>5. TypeOK'
    BY <1>2, <1>3, <1>4 DEF TypeOK, SendQueues, SendRefuses
  <1>6. LinkInv' /\ PumpInv'
    BY QuietLink DEF SendQueues, SendRefuses
  <1>7. JobInv'
    <2>1. /\ UNCHANGED <<pc, bot, life, owner>>
          /\ \A t \in Senders : sending'[t] # None => sending[t] # None
      BY DEF TypeOK, SendQueues, SendRefuses
    <2>2. \A h \in Handlers : pc[h] = "wait" => tgt'[h] = tgt[h]
      <3>1. \A h \in Handlers : pc[h] = "wait" => h # s
        BY <1>1 DEF JobInv
      <3> QED
        BY <3>1 DEF TypeOK, SendQueues, SendRefuses
    <2> QED
      BY <2>1, <2>2 DEF JobInv
  <1> QED
    BY <1>5, <1>6, <1>7

LEMMA BeatStep == ASSUME IInv, NEW t \in Beats, HeartbeatTicks(t) PROVE IInv'
  <1> USE Names DEF IInv, HeartbeatTicks, linkVars, lifeVars, pumpVars, botVars, jobVars
  <1>1. t \in Senders /\ Heartbeat \in Messages
    BY MessageTypes DEF Senders
  <1>2. /\ sending' \in [Senders -> Messages \cup {None}] /\ excused' \subseteq Bots
        /\ \A h \in Handlers : sending'[h] = sending[h]
    BY <1>1, HandTypes DEF Senders
  <1>3. TypeOK'
    BY <1>2 DEF TypeOK
  <1>4. LinkInv' /\ PumpInv'
    BY QuietLink
  <1>5. JobInv'
    BY <1>2 DEF JobInv
  <1> QED
    BY <1>3, <1>4, <1>5

LEMMA MonitorStepInv ==
    ASSUME IInv, NEW p \in Procs, ProcessExits(p) \/ monitorProcess(p) PROVE IInv'
  <1> USE Names DEF IInv, MonitorStep, restVars, linkVars, lifeVars, pumpVars, jobVars,
                    monitorProcess
  <1>1. LinkInv' /\ PumpInv'
    BY QuietLink DEF ProcessExits, MonitorUnregisters, MonitorReports, MonitorFinishes
  <1>2. CASE ProcessExits(p) \/ MonitorUnregisters(p) \/ MonitorFinishes(p)
    <2> USE <1>2 DEF ProcessExits, MonitorUnregisters, MonitorFinishes
    <2>1. TypeOK'
      BY DEF TypeOK
    <2>2. JobInv'
      BY DEF JobInv, TypeOK
    <2> QED
      BY <1>1, <2>1, <2>2
  <1>3. CASE MonitorReports(p)
    <2> USE <1>3 DEF MonitorReports
    <2>1. p \in Senders /\ Status(owner[p], "ended") \in Messages
      BY MessageTypes DEF Senders, JobInv, Statuses
    <2>2. /\ sending' \in [Senders -> Messages \cup {None}] /\ excused' \subseteq Bots
          /\ \A h \in Handlers : sending'[h] = sending[h]
      BY <2>1, HandTypes DEF Senders
    <2>3. TypeOK'
      BY <2>2 DEF TypeOK
    <2>4. JobInv'
      BY <2>2 DEF JobInv, TypeOK
    <2> QED
      BY <1>1, <2>3, <2>4
  <1> QED
    BY <1>2, <1>3

-------------------------------------------------------------------------------
(* Commands.                                                                   *)

LEMMA ReportStep ==
    ASSUME IInv, NEW h \in Handlers, NEW label \in {"idle", "reply"}, NEW m \in Messages,
           sending[h] = None, pc[h] # "idle", Report(h, label, m),
           tgt' = tgt \/ Forget(h), pc[h] # "wait"
    PROVE  IInv'
  <1> USE Names DEF IInv, Report, Goto, restVars, linkVars, lifeVars, pumpVars, botVars, Forget
  <1>1. h \in Senders
    BY DEF Senders
  <1>2. /\ sending' \in [Senders -> Messages \cup {None}] /\ excused' \subseteq Bots
        /\ \A g \in Handlers \ {h} : sending'[g] = sending[g]
    BY <1>1, HandTypes DEF Senders
  <1>3. tgt' \in [Handlers -> Procs \cup {None}] /\ \A g \in Handlers \ {h} : tgt'[g] = tgt[g]
    BY DEF TypeOK
  <1>4. /\ \A g \in Handlers \ {h} : pc'[g] = pc[g] /\ bot'[g] = bot[g]
        /\ pc'[h] = label /\ (label # "idle" => bot'[h] = bot[h])
    BY DEF TypeOK
  <1>5. TypeOK'
    BY <1>2, <1>3 DEF TypeOK
  <1>6. LinkInv' /\ PumpInv'
    BY QuietLink
  <1>7. JobInv'
    BY <1>2, <1>3, <1>4 DEF JobInv
  <1> QED
    BY <1>5, <1>6, <1>7

(* A goroutine goes on to another label.                                        *)
LEMMA JobMoves ==
    ASSUME IInv, NEW h \in Handlers, sending[h] = None,
           UNCHANGED <<restVars, sending, excused>>,
           pc' \in [Handlers -> {"idle", "start", "report", "fail", "reply", "restart",
                                 "stop", "wait"}],
           op' \in [Handlers -> {"none", "create", "stop", "restart"}],
           bot' \in [Handlers -> Bots \cup {None}], tgt' \in [Handlers -> Procs \cup {None}],
           \A g \in Handlers \ {h} : pc'[g] = pc[g] /\ bot'[g] = bot[g] /\ tgt'[g] = tgt[g],
           pc'[h] # "idle" => bot'[h] \in Bots, pc'[h] = "wait" => tgt'[h] \in Procs,
           processes' \in [Bots -> Procs \cup {None}], saved' \subseteq Bots,
           life' \in [Procs -> {"alive", "exited", "unregistered", "reported", "done"}],
           owner' \in [Procs -> Bots \cup {None}], hurried' \subseteq Procs,
           \A p \in Procs : life'[p] # "done" => owner'[p] \in Bots
    PROVE  IInv'
  <1> USE Names DEF IInv, restVars, linkVars, lifeVars, pumpVars
  <1>1. TypeOK'
    BY DEF TypeOK
  <1>2. LinkInv' /\ PumpInv'
    BY QuietLink
  <1>3. JobInv'
    BY DEF JobInv
  <1> QED
    BY <1>1, <1>2, <1>3

(* What of the bots' state keeps its type when it stays as it is.              *)
LEMMA BotTypes ==
    ASSUME IInv
    PROVE  /\ processes \in [Bots -> Procs \cup {None}] /\ saved \subseteq Bots
           /\ life \in [Procs -> {"alive", "exited", "unregistered", "reported", "done"}]
           /\ owner \in [Procs -> Bots \cup {None}] /\ hurried \subseteq Procs
           /\ \A p \in Procs : life[p] # "done" => owner[p] \in Bots
  BY DEF IInv, TypeOK, JobInv

LEMMA JobTypes ==
    ASSUME IInv
    PROVE  /\ pc \in [Handlers -> {"idle", "start", "report", "fail", "reply", "restart",
                                   "stop", "wait"}]
           /\ op \in [Handlers -> {"none", "create", "stop", "restart"}]
           /\ bot \in [Handlers -> Bots \cup {None}]
           /\ tgt \in [Handlers -> Procs \cup {None}]
           /\ \A h \in Handlers : pc[h] # "idle" => bot[h] \in Bots
  BY DEF IInv, TypeOK, JobInv

(* The same for the goroutine that goes on.                                     *)
LEMMA Relabelled ==
    ASSUME IInv, NEW h \in Handlers,
           NEW label \in {"idle", "start", "report", "fail", "reply", "restart", "stop", "wait"},
           Goto(h, label)
    PROVE  /\ pc' \in [Handlers -> {"idle", "start", "report", "fail", "reply", "restart",
                                    "stop", "wait"}]
           /\ \A g \in Handlers \ {h} : pc'[g] = pc[g]
           /\ pc'[h] = label
  BY JobTypes DEF Goto

LEMMA HandleCommandStep ==
    ASSUME IInv, NEW h \in Handlers, HandleCommand(h) PROVE IInv'
  <1>1. PICK b \in Bots, o \in Commands :
            /\ bot' = [bot EXCEPT ![h] = b] /\ op' = [op EXCEPT ![h] = o]
            /\ Goto(h, IF o = "create" THEN "start" ELSE o)
    BY DEF HandleCommand
  <1>2. /\ sending[h] = None /\ UNCHANGED <<restVars, sending, excused>>
        /\ UNCHANGED <<processes, saved, life, owner, hurried>> /\ tgt' = tgt
    BY DEF HandleCommand, At, botVars
  <1>3. o \in {"create", "stop", "restart"}
    BY CommandAssumption
  <1>4. /\ pc' \in [Handlers -> {"idle", "start", "report", "fail", "reply", "restart",
                                 "stop", "wait"}]
        /\ \A g \in Handlers \ {h} : pc'[g] = pc[g]
        /\ pc'[h] # "wait"
    BY <1>1, <1>3, JobTypes DEF Goto
  <1>5. /\ op' \in [Handlers -> {"none", "create", "stop", "restart"}]
        /\ bot' \in [Handlers -> Bots \cup {None}] /\ bot'[h] \in Bots
        /\ \A g \in Handlers \ {h} : bot'[g] = bot[g]
    BY <1>1, <1>3, JobTypes
  <1> QED
    BY <1>2, <1>4, <1>5, JobMoves, BotTypes, JobTypes

(* Steps to another label that change nothing else.                            *)
LEMMA GoesOn ==
    ASSUME IInv, NEW h \in Handlers,
           NEW label \in {"start", "report", "fail", "reply", "restart", "stop"},
           sending[h] = None, pc[h] # "idle", Goto(h, label),
           UNCHANGED <<restVars, sending, botVars, op, bot, tgt, excused>>
    PROVE  IInv'
  <1>1. bot[h] \in Bots
    BY JobTypes
  <1>2. UNCHANGED <<processes, saved, life, owner, hurried>>
    BY DEF botVars
  <1>3. /\ pc' \in [Handlers -> {"idle", "start", "report", "fail", "reply", "restart",
                                 "stop", "wait"}]
        /\ \A g \in Handlers \ {h} : pc'[g] = pc[g]
        /\ pc'[h] = label
    BY Relabelled
  <1> QED
    BY <1>1, <1>2, <1>3, JobMoves, BotTypes, JobTypes

LEMMA RegistersStep ==
    ASSUME IInv, NEW h \in Handlers, StartBotRegisters(h) PROVE IInv'
  <1>1. PICK p \in Procs :
            /\ processes' = [processes EXCEPT ![bot[h]] = p]
            /\ life' = [life EXCEPT ![p] = "alive"]
            /\ owner' = [owner EXCEPT ![p] = bot[h]]
            /\ tgt' = [tgt EXCEPT ![h] = p]
    BY DEF StartBotRegisters
  <1>2. /\ bot[h] \in Bots /\ sending[h] = None /\ UNCHANGED <<op, bot>>
        /\ UNCHANGED <<restVars, sending, excused>>
    BY JobTypes DEF StartBotRegisters, At
  <1>3. /\ pc' \in [Handlers -> {"idle", "start", "report", "fail", "reply", "restart",
                                 "stop", "wait"}]
        /\ \A g \in Handlers \ {h} : pc'[g] = pc[g]
        /\ pc'[h] = "report"
    BY Relabelled DEF StartBotRegisters
  <1>4. /\ processes' \in [Bots -> Procs \cup {None}]
        /\ life' \in [Procs -> {"alive", "exited", "unregistered", "reported", "done"}]
        /\ owner' \in [Procs -> Bots \cup {None}]
        /\ \A q \in Procs : life'[q] # "done" => owner'[q] \in Bots
    BY <1>1, <1>2, BotTypes
  <1>5. saved' \subseteq Bots /\ hurried' \subseteq Procs
    BY <1>2, BotTypes DEF StartBotRegisters
  <1>6. tgt' \in [Handlers -> Procs \cup {None}] /\ \A g \in Handlers \ {h} : tgt'[g] = tgt[g]
    BY <1>1, JobTypes
  <1> QED
    BY <1>2, <1>3, <1>4, <1>5, <1>6, JobMoves, JobTypes

LEMMA LooksStep ==
    ASSUME IInv, NEW h \in Handlers, StopBotLooks(h) PROVE IInv'
  <1>1. /\ bot[h] \in Bots /\ sending[h] = None /\ UNCHANGED <<op, bot>>
        /\ UNCHANGED <<restVars, sending, excused>>
    BY JobTypes DEF StopBotLooks, At
  <1>2. processes[bot[h]] \in Procs \cup {None}
    BY <1>1, BotTypes
  <1>3. /\ pc' \in [Handlers -> {"idle", "start", "report", "fail", "reply", "restart",
                                 "stop", "wait"}]
        /\ \A g \in Handlers \ {h} : pc'[g] = pc[g]
        /\ pc'[h] = "wait" => processes[bot[h]] # None
    BY JobTypes DEF StopBotLooks, Goto
  <1>4. /\ tgt' \in [Handlers -> Procs \cup {None}]
        /\ \A g \in Handlers \ {h} : tgt'[g] = tgt[g]
        /\ tgt'[h] = processes[bot[h]]
    BY <1>2, JobTypes DEF StopBotLooks
  <1>5. UNCHANGED <<processes, saved, life, owner, hurried>>
    BY DEF StopBotLooks, botVars
  <1>6. pc'[h] = "wait" => tgt'[h] \in Procs
    BY <1>2, <1>3, <1>4
  <1> QED
    BY <1>1, <1>3, <1>4, <1>5, <1>6, JobMoves, BotTypes, JobTypes

LEMMA ReturnsStep ==
    ASSUME IInv, NEW h \in Handlers, StopBotReturns(h) PROVE IInv'
  <1>1. /\ bot[h] \in Bots /\ sending[h] = None /\ UNCHANGED <<op, bot>>
        /\ UNCHANGED <<restVars, sending, excused>>
    BY JobTypes DEF StopBotReturns, At
  <1>2. /\ pc' \in [Handlers -> {"idle", "start", "report", "fail", "reply", "restart",
                                 "stop", "wait"}]
        /\ \A g \in Handlers \ {h} : pc'[g] = pc[g]
        /\ pc'[h] # "wait"
    BY JobTypes DEF StopBotReturns, Goto
  <1>3. tgt' \in [Handlers -> Procs \cup {None}] /\ \A g \in Handlers \ {h} : tgt'[g] = tgt[g]
    BY JobTypes DEF StopBotReturns, Forget
  <1>4. UNCHANGED <<processes, saved, life, owner>> /\ hurried' = hurried
    BY DEF StopBotReturns, Joined
  <1> QED
    BY <1>1, <1>2, <1>3, <1>4, JobMoves, BotTypes, JobTypes

LEMMA ReportsStep ==
    ASSUME IInv, NEW h \in Handlers,
           ReplyError(h) \/ StartBotDeferredStatus(h) \/ StartBotReports(h)
    PROVE  IInv'
  <1> USE DEF ReplyError, StartBotDeferredStatus, StartBotReports, At
  <1>1. bot[h] \in Bots /\ "error" \in Statuses /\ "running" \in Statuses
    BY JobTypes DEF Statuses
  <1>2. \A s \in Statuses : Status(bot[h], s) \in Messages
    BY <1>1, MessageTypes
  <1>3. tgt' = tgt \/ Forget(h)
    OBVIOUS
  <1>4. \E label \in {"idle", "reply"}, m \in Messages : Report(h, label, m)
    BY <1>1, <1>2
  <1> QED
    BY <1>3, <1>4, ReportStep

LEMMA HandlerStep ==
    ASSUME IInv, NEW h \in Handlers, HandleCommand(h) \/ handler(h) PROVE IInv'
  <1>1. CASE StartBotRefused(h) \/ StartBotFails(h) \/ RestartBotLooks(h) \/ StopBotKillFails(h)
    <2>1. /\ sending[h] = None /\ pc[h] # "idle"
          /\ UNCHANGED <<restVars, sending, botVars, op, bot, tgt, excused>>
      BY <1>1 DEF StartBotRefused, StartBotFails, RestartBotLooks, StopBotKillFails, At
    <2>2. \E label \in {"start", "report", "fail", "reply", "restart", "stop"} : Goto(h, label)
      BY <1>1 DEF StartBotRefused, StartBotFails, RestartBotLooks, StopBotKillFails
    <2> QED
      BY <2>1, <2>2, GoesOn
  <1> QED
    BY <1>1, ReportsStep, HandleCommandStep, RegistersStep, LooksStep, ReturnsStep DEF handler

-------------------------------------------------------------------------------
(* The connection and its pumps.                                               *)

(* What a step leaves of TypeOK and JobInv that touches neither bots nor jobs.  *)
LEMMA QuietJobs ==
    ASSUME IInv, UNCHANGED <<sending, botVars, jobVars>> PROVE JobInv'
  BY DEF IInv, JobInv, botVars, jobVars

LEMMA LostTypes ==
    ASSUME NEW m \in Messages \cup {None} PROVE LastLost(m) \subseteq Bots
  BY DEF LastLost

LEMMA LinkStep ==
    ASSUME IInv, \/ Install \/ Drop \/ Signal \/ Close
                 \/ \E c \in Conns : Dial(c) \/ Break(c) \/ Cut(c)
    PROVE  IInv'
  <1> USE Names DEF IInv
  <1>1. CASE Signal \/ Close
    <2> USE <1>1 DEF Signal, Close, linkVars, pumpVars, botVars, jobVars
    <2>1. TypeOK'
      BY DEF TypeOK
    <2> QED
      BY <2>1, QuietLink, QuietJobs
  <1>2. CASE Install
    <2> USE <1>2 DEF Install, L!Install, lifeVars, botVars, jobVars
    <2>1. TypeOK'
      BY DEF TypeOK
    <2>2. LinkInv' /\ PumpInv'
      BY DEF LinkInv, PumpInv, L!Held, TypeOK
    <2> QED
      BY <2>1, <2>2, QuietJobs
  <1>3. CASE Drop
    <2> USE <1>3 DEF Drop, L!Drop, lifeVars, pumpVars, botVars, jobVars
    <2>1. TypeOK'
      BY DEF TypeOK
    <2>2. LinkInv' /\ PumpInv'
      BY DEF LinkInv, PumpInv, L!Held
    <2> QED
      BY <2>1, <2>2, QuietJobs
  <1>4. ASSUME NEW c \in Conns, Dial(c) \/ Break(c) PROVE IInv'
    <2> USE <1>4 DEF Dial, Break, L!Dial, L!Break, lifeVars, pumpVars, botVars, jobVars
    <2>1. TypeOK'
      BY DEF TypeOK
    <2>2. LinkInv' /\ PumpInv'
      BY DEF LinkInv, PumpInv, L!Held, TypeOK
    <2> QED
      BY <2>1, <2>2, QuietJobs
  <1>5. ASSUME NEW c \in Conns, Cut(c) PROVE IInv'
    <2> USE <1>5 DEF Cut, L!Cut, lifeVars, pumpVars, botVars, jobVars
    <2>1. LastLost(hand[c]) \subseteq Bots
      BY LostTypes DEF TypeOK
    <2>2. TypeOK'
      BY <2>1 DEF TypeOK
    <2>3. LinkInv' /\ PumpInv'
      BY DEF LinkInv, PumpInv, L!Held, TypeOK
    <2> QED
      BY <2>2, <2>3, QuietJobs
  <1> QED
    BY <1>1, <1>2, <1>3, <1>4, <1>5

LEMMA TakenTypes ==
    ASSUME TypeOK, sendCh # <<>>
    PROVE  /\ Head(sendCh) \in Messages /\ Tail(sendCh) \in Seq(Messages)
           /\ Len(Tail(sendCh)) <= sendBufferSize
  BY Names DEF TypeOK

LEMMA PumpStep == ASSUME IInv, NEW c \in Conns, writePump(c) PROVE IInv'
  <1> USE Names DEF IInv
  <1>1. CASE WritePumpTakes(c)
    <2> USE <1>1 DEF WritePumpTakes, linkVars, lifeVars, botVars, jobVars
    <2>1. /\ Head(sendCh) \in Messages /\ Tail(sendCh) \in Seq(Messages)
          /\ Len(Tail(sendCh)) <= sendBufferSize
      BY TakenTypes
    <2>2. swallowed' \in [Conns -> 0..2] /\ excused' \subseteq Bots
      BY DEF TypeOK
    <2>3. TypeOK'
      BY <2>1, <2>2 DEF TypeOK
    <2>4. LinkInv'
      BY DEF LinkInv, L!Held, TypeOK
    <2>5. PumpInv'
      <3>1. swallowed[c] = 0
        BY DEF PumpInv
      <3> QED
        BY <2>1, <3>1 DEF PumpInv, L!Held, TypeOK
    <2> QED
      BY <2>3, <2>4, <2>5, QuietJobs
  <1>2. CASE WritePumpWrites(c)
    <2> USE <1>2 DEF WritePumpWrites, linkVars, lifeVars, botVars, jobVars
    <2>1. hand[c] \in Messages
      BY DEF TypeOK, PumpInv
    <2>2. view' \in [Bots -> Statuses \cup {None}]
      BY <2>1, MessageTypes DEF TypeOK
    <2>3. LastLost(hand[c]) \subseteq Bots
      BY LostTypes DEF TypeOK
    <2>4. TypeOK'
      BY <2>2, <2>3 DEF TypeOK
    <2>5. LinkInv' /\ PumpInv'
      BY DEF LinkInv, PumpInv, L!Held, TypeOK
    <2> QED
      BY <2>4, <2>5, QuietJobs
  <1>3. CASE WritePumpFails(c)
    <2> USE <1>3 DEF WritePumpFails, LeftBehind, AfterFailure, linkVars, lifeVars, botVars,
                     jobVars
    <2>1. LastLost(hand[c]) \subseteq Bots
      BY LostTypes DEF TypeOK
    <2>2. TypeOK'
      BY <2>1 DEF TypeOK
    <2>3. LinkInv' /\ PumpInv'
      BY DEF LinkInv, PumpInv, L!Held, TypeOK
    <2> QED
      BY <2>2, <2>3, QuietJobs
  <1>4. CASE WritePumpDisconnects(c) \/ WritePumpCancelled(c)
    <2> USE <1>4 DEF WritePumpDisconnects, WritePumpCancelled, L!Drop, linkVars, lifeVars,
                     botVars, jobVars
    <2>1. TypeOK'
      <3>1. /\ pump' \in [Conns -> {"none", "run", "write", "failed"}]
            /\ swallowed' \in [Conns -> 0..2] /\ conn' \in Conns \cup {None}
        BY DEF TypeOK
      <3>2. UNCHANGED <<cand, sock, lifeVars, sendCh, hand, sending, botVars, jobVars, view,
                        excused>>
        OBVIOUS
      <3> QED
        BY <3>1, <3>2 DEF TypeOK
    <2>2. LinkInv'
      BY DEF LinkInv, L!Held, TypeOK
    <2>3. PumpInv'
      BY DEF PumpInv, L!Held, TypeOK
    <2> QED
      BY <2>1, <2>2, <2>3, QuietJobs
  <1> QED
    BY <1>1, <1>2, <1>3, <1>4 DEF writePump

LEMMA NextInv == IInv /\ [Next]_vars => IInv'
  <1> SUFFICES ASSUME IInv, [Next]_vars PROVE IInv'
    OBVIOUS
  <1>1. CASE UNCHANGED vars
    <2>1. TypeOK'
      BY <1>1 DEF vars, linkVars, lifeVars, pumpVars, botVars, jobVars, IInv, TypeOK
    <2> QED
      BY <1>1, <2>1, QuietLink, QuietJobs DEF vars, IInv
  <1>2. CASE Next
    BY <1>2, LinkStep, PumpStep, BeatStep, SendStep, HandlerStep, MonitorStepInv DEF Next
  <1> QED
    BY <1>1, <1>2

-------------------------------------------------------------------------------
(* The invariant the other theorems rest on.                                   *)
THEOREM InductiveInvariant == Spec => []IInv
  BY InitInv, NextInv, PTL DEF Spec

(* Every variable keeps its type; the queue never exceeds its capacity.         *)
THEOREM TypeCorrect == Spec => []TypeOK
  <1>1. IInv => TypeOK
    BY DEF IInv
  <1> QED
    BY <1>1, InductiveInvariant, PTL

(* The pump of a connection that is over costs the queue one message at most.   *)
THEOREM OneIsSwallowed == Spec => []SwallowsOne
  <1>1. IInv => SwallowsOne
    BY DEF IInv, PumpInv, TypeOK, SwallowsOne
  <1> QED
    BY <1>1, InductiveInvariant, PTL

-------------------------------------------------------------------------------
(* StatusQueue implements StatusChannel: what is in flight is the message in   *)
(* the hand of the pump whose connection is held, if any, and then the queue.  *)

LEMMA FrontOfNone == \A s \in Seq(Messages) : <<>> \o s = s
  OBVIOUS

LEMMA FrontOfOne ==
    ASSUME NEW m \in Messages, NEW s \in Seq(Messages)
    PROVE  /\ <<m>> \o s # <<>> /\ Head(<<m>> \o s) = m /\ Tail(<<m>> \o s) = s
           /\ Len(<<m>> \o s) = Len(s) + 1
  OBVIOUS

LEMMA AppendBehind ==
    ASSUME NEW f \in Seq(Messages), NEW s \in Seq(Messages), NEW m \in Messages
    PROVE  f \o Append(s, m) = Append(f \o s, m)
  OBVIOUS

LEMMA HeadAndTail ==
    ASSUME NEW s \in Seq(Messages), s # <<>> PROVE <<Head(s)>> \o Tail(s) = s
  OBVIOUS

(* The hand that counts, before and after a step.                              *)
LEMMA LiveIs ==
    ASSUME IInv, NEW c \in Conns, L!Held(c), hand[c] # None
    PROVE  LiveHand = <<hand[c]>>
  BY DEF LiveHand, IInv, LinkInv

LEMMA LiveBecomes ==
    ASSUME IInv', NEW c \in Conns, L!Held(c)', hand'[c] # None
    PROVE  LiveHand' = <<hand'[c]>>
  BY DEF LiveHand, IInv, LinkInv

LEMMA NoneLive ==
    ASSUME \A c \in Conns : L!Held(c) => hand[c] = None PROVE LiveHand = <<>>
  BY DEF LiveHand

LEMMA NoneLiveAfter ==
    ASSUME \A c \in Conns : L!Held(c)' => hand'[c] = None PROVE LiveHand' = <<>>
  BY DEF LiveHand

LEMMA LiveTypes ==
    ASSUME IInv
    PROVE  LiveHand = <<>> \/ \E m \in Messages : LiveHand = <<m>>
  BY NoneLive, LiveIs DEF IInv, TypeOK

(* A step that changes no hand that counts.                                    *)
LEMMA LiveStays ==
    ASSUME IInv, IInv',
           \A c \in Conns : L!Held(c)' /\ hand'[c] # None <=> L!Held(c) /\ hand[c] # None,
           \A c \in Conns : L!Held(c) /\ hand[c] # None => hand'[c] = hand[c]
    PROVE  LiveHand' = LiveHand
  <1>1. CASE \E c \in Conns : L!Held(c) /\ hand[c] # None
    BY <1>1, LiveIs, LiveBecomes
  <1>2. CASE \A c \in Conns : L!Held(c) => hand[c] = None
    BY <1>2, NoneLive, NoneLiveAfter
  <1> QED
    BY <1>1, <1>2

LEMMA LiveUntouched ==
    ASSUME UNCHANGED <<sock, hand>> PROVE LiveHand' = LiveHand
  BY DEF LiveHand, L!Held

LEMMA ChannelInit == Init => Channel!Init
  <1> SUFFICES ASSUME Init PROVE Channel!Init
    OBVIOUS
  <1>1. LiveHand = <<>>
    BY NoneLive DEF Init, L!Init, L!Held
  <1> QED
    BY <1>1 DEF Init, Channel!Init

LEMMA ChannelSend ==
    ASSUME IInv, NEW s \in Senders, SendQueues(s)
    PROVE  \E m \in Messages : Channel!Accept(m)
  <1>1. sending[s] \in Messages /\ sendCh \in Seq(Messages)
    BY DEF SendQueues, IInv, TypeOK
  <1>2. LiveHand \in Seq(Messages)
    <2>1. <<>> \in Seq(Messages) /\ \A m \in Messages : <<m>> \in Seq(Messages)
      OBVIOUS
    <2> QED
      BY <2>1, LiveTypes
  <1>3. LiveHand' = LiveHand
    BY LiveUntouched DEF SendQueues, linkVars, pumpVars
  <1>4. LiveHand' \o sendCh' = Append(LiveHand \o sendCh, sending[s])
    BY <1>1, <1>2, <1>3, AppendBehind DEF SendQueues
  <1>5. view' = view
    BY DEF SendQueues
  <1> QED
    BY <1>1, <1>4, <1>5 DEF Channel!Accept

LEMMA ChannelTake ==
    ASSUME IInv, IInv', NEW c \in Conns, WritePumpTakes(c)
    PROVE  Channel!Next \/ UNCHANGED <<LiveHand \o sendCh, view>>
  <1>1. /\ sendCh \in Seq(Messages) /\ sendCh # <<>> /\ Head(sendCh) \in Messages
        /\ sendCh' = Tail(sendCh) /\ sendCh' \in Seq(Messages)
    BY TakenTypes DEF IInv, WritePumpTakes
  <1>2. /\ hand[c] = None /\ hand'[c] = Head(sendCh)
        /\ \A d \in Conns \ {c} : hand'[d] = hand[d]
    BY DEF IInv, TypeOK, PumpInv, WritePumpTakes
  <1>3. UNCHANGED <<sock, view>>
    BY DEF WritePumpTakes, linkVars
  <1>4. CASE L!Held(c)
    <2>1. LiveHand = <<>>
      BY <1>2, <1>4, NoneLive DEF IInv, LinkInv
    <2>2. LiveHand' = <<Head(sendCh)>>
      BY <1>1, <1>2, <1>3, <1>4, LiveBecomes, Names DEF L!Held
    <2>3. LiveHand' \o sendCh' = LiveHand \o sendCh
      BY <1>1, <2>1, <2>2, HeadAndTail, FrontOfNone
    <2> QED
      BY <1>3, <2>3
  <1>5. CASE ~L!Held(c)
    <2>1. LiveHand' = LiveHand
      BY <1>2, <1>3, <1>5, LiveStays DEF L!Held
    <2>2. CASE LiveHand = <<>>
      <3>1. LiveHand \o sendCh = sendCh /\ LiveHand' \o sendCh' = Tail(sendCh)
        BY <1>1, <2>1, <2>2, FrontOfNone
      <3> QED
        BY <1>1, <1>3, <3>1 DEF Channel!Next, Channel!LoseFirst
    <2>3. CASE \E m \in Messages : LiveHand = <<m>>
      <3>1. PICK m \in Messages : LiveHand = <<m>>
        BY <2>3
      <3>2. /\ Head(LiveHand \o sendCh) = m /\ Tail(LiveHand \o sendCh) = sendCh
            /\ Len(LiveHand \o sendCh) > 1
        <4>1. Len(sendCh) > 0
          BY <1>1
        <4> QED
          BY <1>1, <3>1, <4>1, FrontOfOne
      <3>3. LiveHand' \o sendCh' = <<Head(LiveHand \o sendCh)>> \o Tail(Tail(LiveHand \o sendCh))
        BY <1>1, <2>1, <3>1, <3>2
      <3> QED
        BY <1>3, <3>2, <3>3 DEF Channel!Next, Channel!LoseSecond
    <2> QED
      BY <2>2, <2>3, LiveTypes
  <1> QED
    BY <1>4, <1>5

(* The message of a live hand goes, received or lost.                          *)
LEMMA HandGoes ==
    ASSUME IInv, NEW c \in Conns, L!Held(c), hand[c] # None, sendCh' = sendCh,
           \A d \in Conns : L!Held(d)' => hand'[d] = None,
           view' = view \/ view' = Channel!Received(hand[c])
    PROVE  Channel!Next
  <1>1. hand[c] \in Messages /\ sendCh \in Seq(Messages)
    BY DEF IInv, TypeOK
  <1>2. LiveHand = <<hand[c]>> /\ LiveHand' = <<>>
    BY LiveIs, NoneLiveAfter
  <1>3. /\ LiveHand \o sendCh # <<>> /\ Head(LiveHand \o sendCh) = hand[c]
        /\ LiveHand' \o sendCh' = Tail(LiveHand \o sendCh)
    BY <1>1, <1>2, FrontOfNone, FrontOfOne
  <1> QED
    BY <1>3 DEF Channel!Next, Channel!LoseFirst, Channel!Deliver

LEMMA ChannelWrite ==
    ASSUME IInv, NEW c \in Conns, WritePumpWrites(c) PROVE Channel!Next
  <1> USE DEF WritePumpWrites, linkVars, IInv
  <1>1. hand[c] # None /\ L!Held(c) /\ sendCh' = sendCh
    BY DEF PumpInv
  <1>2. \A d \in Conns : L!Held(d)' => hand'[d] = None
    BY DEF TypeOK, PumpInv, LinkInv, L!Held
  <1>3. view' = view \/ view' = Channel!Received(hand[c])
    BY DEF TypeOK, Channel!Received
  <1> QED
    BY <1>1, <1>2, <1>3, HandGoes

LEMMA ChannelFail ==
    ASSUME IInv, IInv', NEW c \in Conns, WritePumpFails(c)
    PROVE  Channel!Next \/ UNCHANGED <<LiveHand \o sendCh, view>>
  <1>1. UNCHANGED <<sendCh, sock, view>> /\ hand' = [hand EXCEPT ![c] = None]
    BY DEF WritePumpFails, LeftBehind, linkVars
  <1>2. CASE L!Held(c)
    <2>1. hand[c] # None
      BY DEF WritePumpFails, IInv, PumpInv
    <2>2. \A d \in Conns : L!Held(d)' => hand'[d] = None
      BY <1>1, <1>2, <2>1 DEF IInv, LinkInv, TypeOK, PumpInv, L!Held
    <2> QED
      BY <1>1, <1>2, <2>1, <2>2, HandGoes
  <1>3. CASE ~L!Held(c)
    <2>1. LiveHand' = LiveHand
      BY <1>1, <1>3, LiveStays DEF L!Held, IInv, TypeOK
    <2> QED
      BY <1>1, <2>1
  <1> QED
    BY <1>2, <1>3

LEMMA ChannelCut ==
    ASSUME IInv, IInv', NEW c \in Conns, Cut(c)
    PROVE  Channel!Next \/ UNCHANGED <<LiveHand \o sendCh, view>>
  <1>1. /\ UNCHANGED <<sendCh, hand, view>> /\ L!Held(c)
        /\ sock' = [sock EXCEPT ![c] = "closed"]
    BY DEF Cut, L!Cut, pumpVars
  <1>2. CASE hand[c] # None
    <2>1. \A d \in Conns : L!Held(d)' => hand'[d] = None
      BY <1>1, <1>2 DEF IInv, LinkInv, TypeOK, L!Held
    <2> QED
      BY <1>1, <1>2, <2>1, HandGoes
  <1>3. CASE hand[c] = None
    <2>1. LiveHand' = LiveHand
      BY <1>1, <1>3, LiveStays DEF L!Held, IInv, TypeOK
    <2> QED
      BY <1>1, <2>1
  <1> QED
    BY <1>2, <1>3

LEMMA ChannelDialOrBreak ==
    ASSUME IInv, IInv', NEW c \in Conns, Dial(c) \/ Break(c)
    PROVE  UNCHANGED <<LiveHand \o sendCh, view>>
  <1>1. UNCHANGED <<sendCh, hand, view>>
    BY DEF Dial, Break, pumpVars
  <1>2. CASE Dial(c)
    <2>1. hand[c] = None
      BY <1>2 DEF Dial, IInv, TypeOK, PumpInv
    <2>2. LiveHand' = LiveHand
      BY <1>1, <1>2, <2>1, LiveStays DEF Dial, L!Dial, L!Held, IInv, TypeOK
    <2> QED
      BY <1>1, <2>2
  <1>3. CASE Break(c)
    <2>1. LiveHand' = LiveHand
      BY <1>1, <1>3, LiveStays DEF Break, L!Break, L!Held, IInv, TypeOK
    <2> QED
      BY <1>1, <2>1
  <1> QED
    BY <1>2, <1>3

(* Every other step leaves the hands, the queue and the platform alone.        *)
LEMMA ChannelQuiet ==
    ASSUME \/ UNCHANGED vars \/ Install \/ Drop \/ Signal \/ Close
           \/ \E t \in Beats : HeartbeatTicks(t)
           \/ \E s \in Senders : SendRefuses(s)
           \/ \E h \in Handlers : HandleCommand(h) \/ handler(h)
           \/ \E p \in Procs : ProcessExits(p) \/ monitorProcess(p)
           \/ \E c \in Conns : WritePumpDisconnects(c) \/ WritePumpCancelled(c)
    PROVE  UNCHANGED <<LiveHand \o sendCh, view>>
  <1>1. UNCHANGED <<sock, hand, sendCh, view>>
    <2> USE DEF linkVars, lifeVars, pumpVars
    <2>1. CASE UNCHANGED vars
      BY <2>1 DEF vars
    <2>2. CASE Install \/ Drop \/ Signal \/ Close
      BY <2>2 DEF Install, L!Install, Drop, L!Drop, Signal, Close
    <2>3. CASE \E t \in Beats : HeartbeatTicks(t)
      BY <2>3 DEF HeartbeatTicks
    <2>4. CASE \E s \in Senders : SendRefuses(s)
      BY <2>4 DEF SendRefuses
    <2>5. CASE \E h \in Handlers : HandleCommand(h) \/ handler(h)
      BY <2>5 DEF HandleCommand, handler, ReplyError, StartBotRefused, StartBotFails,
                  StartBotDeferredStatus, StartBotRegisters, StartBotReports,
                  RestartBotLooks, StopBotLooks, StopBotKillFails, StopBotReturns,
                  Report, restVars
    <2>6. CASE \E p \in Procs : ProcessExits(p) \/ monitorProcess(p)
      BY <2>6 DEF ProcessExits, monitorProcess, MonitorUnregisters, MonitorReports,
                  MonitorFinishes, MonitorStep, restVars
    <2>7. CASE \E c \in Conns : WritePumpDisconnects(c) \/ WritePumpCancelled(c)
      BY <2>7 DEF WritePumpDisconnects, WritePumpCancelled, L!Drop
    <2> QED
      BY <2>1, <2>2, <2>3, <2>4, <2>5, <2>6, <2>7
  <1> QED
    BY <1>1, LiveUntouched

LEMMA ChannelNext ==
    IInv /\ IInv' /\ [Next]_vars => [Channel!Next]_<<LiveHand \o sendCh, view>>
  <1> SUFFICES ASSUME IInv, IInv', [Next]_vars
               PROVE  Channel!Next \/ UNCHANGED <<LiveHand \o sendCh, view>>
    OBVIOUS
  <1>1. CASE \E s \in Senders : SendQueues(s)
    BY <1>1, ChannelSend DEF Channel!Next
  <1>2. CASE \E c \in Conns : WritePumpTakes(c) \/ WritePumpWrites(c) \/ WritePumpFails(c)
    BY <1>2, ChannelTake, ChannelWrite, ChannelFail
  <1>3. CASE \E c \in Conns : Dial(c) \/ Break(c) \/ Cut(c)
    BY <1>3, ChannelDialOrBreak, ChannelCut
  <1>4. \/ UNCHANGED vars \/ Install \/ Drop \/ Signal \/ Close
        \/ \E t \in Beats : HeartbeatTicks(t)
        \/ \E s \in Senders : SendQueues(s) \/ SendRefuses(s)
        \/ \E h \in Handlers : HandleCommand(h) \/ handler(h)
        \/ \E p \in Procs : ProcessExits(p) \/ monitorProcess(p)
        \/ \E c \in Conns : Dial(c) \/ Break(c) \/ Cut(c) \/ writePump(c)
    BY DEF Next
  <1> QED
    BY <1>1, <1>2, <1>3, <1>4, ChannelQuiet DEF writePump

(* Whatever the numbers of connections, bots and goroutines and the capacity    *)
(* of sendCh, the platform receives statuses in the order they were accepted,  *)
(* each at most once.                                                          *)
THEOREM ChannelRefinement == Spec => ImplementsChannel
  <1>1. Spec => [][Channel!Next]_<<LiveHand \o sendCh, view>>
    BY InductiveInvariant, ChannelNext, PTL DEF Spec
  <1> QED
    BY <1>1, ChannelInit, PTL DEF Spec, ImplementsChannel, Channel!Spec

-------------------------------------------------------------------------------
(* What the platform will believe: TruthInv is inductive on top of IInv.       *)

Carries(c, b) == L!Held(c) /\ hand[c] # None /\ hand[c].bot = b

(* The three places a status can be in exclude each other.                     *)
LEMMA WillBeCases ==
    ASSUME NEW b \in Bots, NEW s \in Statuses
    PROVE  /\ ~Silent(b) => (WillBe(b, s) <=> LastQueued(b, s))
           /\ Silent(b) => (WillBe(b, s) <=>
                 \/ \E c \in Conns : Carries(c, b) /\ hand[c] = Status(b, s)
                 \/ ~(\E c \in Conns : Carries(c, b)) /\ view[b] = s)
  <1>1. LastQueued(b, s) => ~Silent(b)
    BY DEF LastQueued, Silent, Status
  <1>2. Status(b, s) # None /\ Status(b, s).bot = b
    BY Names, MessageTypes DEF Status
  <1>3. InHand(b) <=> \E c \in Conns : Carries(c, b)
    BY DEF InHand, Carries
  <1>4. \A c \in Conns : L!Held(c) /\ hand[c] = Status(b, s) <=>
           Carries(c, b) /\ hand[c] = Status(b, s)
    BY <1>2 DEF Carries
  <1> QED
    BY <1>1, <1>3, <1>4 DEF WillBe

LEMMA WillBeCasesNext ==
    ASSUME NEW b \in Bots, NEW s \in Statuses
    PROVE  /\ ~Silent(b)' => (WillBe(b, s)' <=> LastQueued(b, s)')
           /\ Silent(b)' => (WillBe(b, s)' <=>
                 \/ \E c \in Conns : Carries(c, b)' /\ hand'[c] = Status(b, s)
                 \/ ~(\E c \in Conns : Carries(c, b)') /\ view'[b] = s)
  <1>1. LastQueued(b, s)' => ~Silent(b)'
    BY DEF LastQueued, Silent, Status
  <1>2. Status(b, s) # None /\ Status(b, s).bot = b
    BY Names, MessageTypes DEF Status
  <1>3. InHand(b)' <=> \E c \in Conns : Carries(c, b)'
    BY DEF InHand, Carries
  <1>4. \A c \in Conns : L!Held(c)' /\ hand'[c] = Status(b, s) <=>
           Carries(c, b)' /\ hand'[c] = Status(b, s)
    BY <1>2 DEF Carries
  <1>5. WillBe(b, s)' <=>
           \/ LastQueued(b, s)'
           \/ Silent(b)' /\ \E c \in Conns : L!Held(c)' /\ hand'[c] = Status(b, s)
           \/ Silent(b)' /\ ~InHand(b)' /\ view'[b] = s
    BY DEF WillBe, Status
  <1> QED
    BY <1>1, <1>3, <1>4, <1>5

(* A bot is spoken of as before when the queue, what the pumps carry for it    *)
(* and what is known of it are the same; what is carried and known only        *)
(* matters when the queue is silent.                                           *)
LEMMA WillBeSame ==
    ASSUME NEW b \in Bots, NEW s \in Statuses,
           Silent(b)' <=> Silent(b), ~Silent(b) => (LastQueued(b, s)' <=> LastQueued(b, s)),
           Silent(b) => /\ \A c \in Conns : Carries(c, b)' <=> Carries(c, b)
                        /\ \A c \in Conns : Carries(c, b) => hand'[c] = hand[c]
                        /\ view'[b] = view[b]
    PROVE  WillBe(b, s)' <=> WillBe(b, s)
  <1>1. CASE ~Silent(b)
    BY <1>1, WillBeCases, WillBeCasesNext
  <1>2. CASE Silent(b)
    <2>1. (\E c \in Conns : Carries(c, b)') <=> (\E c \in Conns : Carries(c, b))
      BY <1>2
    <2>2. (\E c \in Conns : Carries(c, b)' /\ hand'[c] = Status(b, s)) <=>
          (\E c \in Conns : Carries(c, b) /\ hand[c] = Status(b, s))
      BY <1>2
    <2> QED
      BY <1>2, <2>1, <2>2, WillBeCases, WillBeCasesNext
  <1> QED
    BY <1>1, <1>2

LEMMA WillBeUntouched ==
    ASSUME UNCHANGED <<sendCh, hand, sock, view>>, NEW b \in Bots, NEW s \in Statuses
    PROVE  WillBe(b, s)' <=> WillBe(b, s)
  BY DEF WillBe, LastQueued, Silent, InHand, L!Held

(* The queue after the first message has been taken, or one has been added.    *)
LEMMA TailSays ==
    ASSUME sendCh \in Seq(Messages), sendCh # <<>>, sendCh' = Tail(sendCh), NEW b \in Bots,
           NEW s \in Statuses
    PROVE  /\ Silent(b)' <=> \A i \in 2..Len(sendCh) : sendCh[i].bot # b
           /\ ~Silent(b)' => ~Silent(b) /\ (LastQueued(b, s)' <=> LastQueued(b, s))
           /\ Head(sendCh).bot # b => (Silent(b)' <=> Silent(b))
           /\ Head(sendCh).bot = b => ~Silent(b)
           /\ Head(sendCh).bot = b /\ Silent(b)' =>
                 (LastQueued(b, s) <=> Head(sendCh) = Status(b, s))
  <1> DEFINE n == Len(sendCh)
  <1>1. /\ n \in Nat \ {0} /\ DOMAIN sendCh = 1..n /\ Head(sendCh) = sendCh[1]
        /\ DOMAIN Tail(sendCh) = 1..(n - 1) /\ \A i \in 1..(n - 1) : Tail(sendCh)[i] = sendCh[i + 1]
    OBVIOUS
  <1>2. \A i \in 1..n : i = 1 \/ (i \in 2..n /\ i - 1 \in 1..(n - 1) /\ (i - 1) + 1 = i)
    BY <1>1
  <1>3. \A i \in 1..(n - 1) : i + 1 \in 2..n /\ i + 1 \in 1..n
    BY <1>1
  <1>4. Silent(b)' <=> \A i \in 1..(n - 1) : sendCh[i + 1].bot # b
    BY <1>1 DEF Silent
  <1>5. Silent(b)' <=> \A i \in 2..n : sendCh[i].bot # b
    <2>1. \A i \in 2..n : i - 1 \in 1..(n - 1) /\ (i - 1) + 1 = i
      BY <1>1
    <2> HIDE DEF n
    <2>2. ASSUME \A i \in 1..(n - 1) : sendCh[i + 1].bot # b, NEW i \in 2..n
          PROVE sendCh[i].bot # b
      <3>1. sendCh[(i - 1) + 1].bot # b
        BY <2>1, <2>2
      <3> QED
        BY <2>1, <3>1
    <2>3. (\A i \in 2..n : sendCh[i].bot # b) => \A i \in 1..(n - 1) : sendCh[i + 1].bot # b
      BY <1>3
    <2> QED
      BY <1>4, <2>2, <2>3
  <1>6. Silent(b) <=> sendCh[1].bot # b /\ \A i \in 2..n : sendCh[i].bot # b
    BY <1>1, <1>2 DEF Silent
  <1>7. LastQueued(b, s)' <=> \E i \in 1..(n - 1) :
           sendCh[i + 1] = Status(b, s) /\ \A j \in 1..(n - 1) : i < j => sendCh[j + 1].bot # b
    <2>1. LastQueued(b, s)' <=> \E i \in 1..(n - 1) :
             /\ Tail(sendCh)[i] = Status(b, s)
             /\ \A j \in 1..(n - 1) : i < j => Tail(sendCh)[j].bot # b
      BY <1>1 DEF LastQueued, Status
    <2> HIDE DEF n
    <2> QED
      BY <1>1, <2>1
  <1>8. LastQueued(b, s)' <=> \E i \in 2..n :
           sendCh[i] = Status(b, s) /\ \A j \in 2..n : i < j => sendCh[j].bot # b
    <2>1. ASSUME NEW i \in 1..(n - 1)
          PROVE (\A j \in 1..(n - 1) : i < j => sendCh[j + 1].bot # b) <=>
                (\A j \in 2..n : i + 1 < j => sendCh[j].bot # b)
      <3>1. \A j \in 1..(n - 1) : j + 1 \in 2..n /\ (i < j <=> i + 1 < j + 1)
        BY <1>1
      <3>2. \A j \in 2..n : j - 1 \in 1..(n - 1) /\ (j - 1) + 1 = j /\ (i < j - 1 <=> i + 1 < j)
        BY <1>1
      <3> QED
        BY <3>1, <3>2
    <2>2. \A i \in 2..n : i - 1 \in 1..(n - 1) /\ (i - 1) + 1 = i
      BY <1>1
    <2> QED
      BY <1>3, <1>7, <2>1, <2>2
  <1>9. LastQueued(b, s) <=>
           \/ sendCh[1] = Status(b, s) /\ \A j \in 2..n : sendCh[j].bot # b
           \/ \E i \in 2..n : sendCh[i] = Status(b, s) /\ \A j \in 2..n : i < j => sendCh[j].bot # b
    <2>1. \A i \in 2..n : i \in 1..n /\ 1 < i
      BY <1>1
    <2>2. (\A j \in 1..n : 1 < j => sendCh[j].bot # b) <=> \A j \in 2..n : sendCh[j].bot # b
      BY <1>1
    <2>3. ASSUME NEW i \in 2..n
          PROVE (\A j \in 1..n : i < j => sendCh[j].bot # b) <=>
                (\A j \in 2..n : i < j => sendCh[j].bot # b)
      BY <1>1
    <2>4. LastQueued(b, s) <=>
             \E i \in 1..n : /\ sendCh[i] = Status(b, s)
                            /\ \A j \in 1..n : i < j => sendCh[j].bot # b
      BY <1>1 DEF LastQueued
    <2>5. 1 \in 1..n
      BY <1>1
    <2> HIDE DEF n
    <2> QED
      BY <1>2, <2>1, <2>2, <2>3, <2>4, <2>5
  <1>10. Status(b, s).bot = b
    BY DEF Status
  <1> QED
    BY <1>1, <1>5, <1>6, <1>8, <1>9, <1>10

LEMMA AppendSays ==
    ASSUME sendCh \in Seq(Messages), NEW m \in Messages, sendCh' = Append(sendCh, m),
           NEW b \in Bots, NEW s \in Statuses
    PROVE  /\ m.bot = b => ~Silent(b)' /\ (LastQueued(b, s)' <=> m = Status(b, s))
           /\ m.bot # b => (Silent(b)' <=> Silent(b)) /\ (LastQueued(b, s)' <=> LastQueued(b, s))
  <1> DEFINE n == Len(sendCh)
  <1>1. /\ n \in Nat /\ DOMAIN sendCh = 1..n /\ DOMAIN Append(sendCh, m) = 1..(n + 1)
        /\ Append(sendCh, m)[n + 1] = m /\ n + 1 \in 1..(n + 1)
        /\ \A i \in 1..n : i \in 1..(n + 1) /\ Append(sendCh, m)[i] = sendCh[i] /\ i < n + 1
        /\ \A i \in 1..(n + 1) : i = n + 1 \/ i \in 1..n
        /\ \A i \in 1..(n + 1) : ~(n + 1 < i)
    OBVIOUS
  <1>2. Silent(b)' <=> m.bot # b /\ Silent(b)
    BY <1>1 DEF Silent
  <1>3. LastQueued(b, s)' <=>
           \/ m = Status(b, s)
           \/ \E i \in 1..n : /\ sendCh[i] = Status(b, s) /\ m.bot # b
                              /\ \A j \in 1..n : i < j => sendCh[j].bot # b
    <2>1. LastQueued(b, s)' <=>
             \E i \in 1..(n + 1) :
                 /\ Append(sendCh, m)[i] = Status(b, s)
                 /\ \A j \in 1..(n + 1) : i < j => Append(sendCh, m)[j].bot # b
      BY <1>1 DEF LastQueued, Status
    <2>2. ASSUME NEW i \in 1..n
          PROVE (\A j \in 1..(n + 1) : i < j => Append(sendCh, m)[j].bot # b) <=>
                m.bot # b /\ \A j \in 1..n : i < j => sendCh[j].bot # b
      BY <1>1
    <2>3. \A j \in 1..(n + 1) : n + 1 < j => Append(sendCh, m)[j].bot # b
      BY <1>1
    <2> HIDE DEF n
    <2> QED
      BY <1>1, <2>1, <2>2, <2>3
  <1>4. Status(b, s).bot = b
    BY DEF Status
  <1> QED
    BY <1>1, <1>2, <1>3, <1>4 DEF LastQueued

(* Steps of connections and pumps: it is enough that they say of a bot what    *)
(* was said before, if its last status is not lost.                            *)
LEMMA LinkTruth ==
    ASSUME TruthInv, UNCHANGED <<sending, botVars, jobVars>>,
           \A b \in Bots \ excused' :
               b \notin excused /\ (WillBe(b, "running")' <=> WillBe(b, "running"))
    PROVE  TruthInv'
  <1>1. UNCHANGED <<processes, hurried, life, owner, pc, bot, tgt>>
    BY DEF botVars, jobVars
  <1>2. \A b \in Bots : Owed(b)' <=> Owed(b)
    BY <1>1 DEF Owed
  <1>3. /\ hurried' = {}
        /\ \A h \in Handlers : pc'[h] = "report" => tgt'[h] \in Procs
        /\ \A s \in Senders : sending'[s] # None /\ sending'[s].status = "running" =>
              s \in Handlers /\ tgt'[s] \in Procs
    BY <1>1 DEF TruthInv
  <1>4. \A b \in Bots \ excused' :
            Owed(b)' \/ (WillBe(b, "running")' <=> processes'[b] # None)
    BY <1>1, <1>2 DEF TruthInv
  <1> QED
    BY <1>3, <1>4 DEF TruthInv

(* The same for steps that leave the queue alone.                              *)
LEMMA HandTruth ==
    ASSUME TruthInv, UNCHANGED <<sendCh, sending, botVars, jobVars>>, excused \subseteq excused',
           \A b \in Bots \ excused' : Silent(b) =>
               /\ view'[b] = view[b]
               /\ \A c \in Conns : Carries(c, b)' <=> Carries(c, b)
               /\ \A c \in Conns : Carries(c, b) => hand'[c] = hand[c]
    PROVE  TruthInv'
  <1>1. ASSUME NEW b \in Bots \ excused'
        PROVE WillBe(b, "running")' <=> WillBe(b, "running")
    <2>1. (Silent(b)' <=> Silent(b)) /\ (LastQueued(b, "running")' <=> LastQueued(b, "running"))
      BY DEF Silent, LastQueued, Status
    <2>2. "running" \in Statuses
      BY DEF Statuses
    <2> QED
      BY <1>1, <2>1, <2>2, WillBeSame
  <1> QED
    BY <1>1, LinkTruth

LEMMA QuietTruth ==
    ASSUME TruthInv,
           \/ UNCHANGED vars \/ Install \/ Drop \/ Signal \/ Close
           \/ \E c \in Conns : WritePumpDisconnects(c) \/ WritePumpCancelled(c)
    PROVE  TruthInv'
  <1>1. UNCHANGED <<sendCh, hand, sock, view, excused, sending, botVars, jobVars>>
    BY DEF vars, Install, L!Install, Drop, L!Drop, Signal, Close, WritePumpDisconnects,
           WritePumpCancelled, linkVars, pumpVars
  <1> QED
    BY <1>1, HandTruth DEF Carries, L!Held

LEMMA SockTruth ==
    ASSUME IInv, TruthInv, NEW c \in Conns, Dial(c) \/ Break(c) \/ Cut(c) PROVE TruthInv'
  <1>1. UNCHANGED <<sendCh, hand, view, sending, botVars, jobVars>>
    BY DEF Dial, Break, Cut, pumpVars
  <1>2. sock \in [Conns -> {"none", "open", "broken", "closed"}]
    BY DEF IInv, TypeOK
  <1>3. \A d \in Conns \ {c} : L!Held(d)' <=> L!Held(d)
    BY <1>2 DEF Dial, Break, Cut, L!Dial, L!Break, L!Cut, L!Held
  <1>4. ASSUME NEW b \in Bots \ excused', Silent(b) PROVE Carries(c, b)' <=> Carries(c, b)
    <2>1. CASE Dial(c)
      <3>1. hand[c] = None
        BY <2>1 DEF Dial, IInv, PumpInv
      <3> QED
        BY <1>1, <3>1 DEF Carries
    <2>2. CASE Break(c)
      BY <1>1, <1>2, <2>2 DEF Break, L!Break, L!Held, Carries
    <2>3. CASE Cut(c)
      <3>1. ~(hand[c] # None /\ hand[c].bot = b)
        BY <1>4, <2>3 DEF Cut, LastLost, Newest, Silent
      <3> QED
        BY <1>1, <3>1 DEF Carries
    <2> QED
      BY <2>1, <2>2, <2>3
  <1>5. excused \subseteq excused'
    BY DEF Dial, Break, Cut
  <1>6. \A b \in Bots : \A d \in Conns \ {c} : Carries(d, b)' <=> Carries(d, b)
    BY <1>1, <1>3 DEF Carries
  <1> QED
    BY <1>1, <1>4, <1>5, <1>6, HandTruth

LEMMA TakeTruth ==
    ASSUME IInv, TruthInv, NEW c \in Conns, WritePumpTakes(c) PROVE TruthInv'
  <1>1. /\ sendCh \in Seq(Messages) /\ sendCh # <<>> /\ sendCh' = Tail(sendCh)
        /\ Head(sendCh) \in Messages
    BY TakenTypes DEF IInv, TypeOK, WritePumpTakes
  <1>2. /\ UNCHANGED <<sock, view, sending, botVars, jobVars>>
        /\ hand[c] = None /\ hand'[c] = Head(sendCh)
        /\ \A d \in Conns \ {c} : hand'[d] = hand[d]
    BY DEF WritePumpTakes, linkVars, IInv, TypeOK, PumpInv
  <1>3. \A b \in Bots : /\ ~Carries(c, b)
                        /\ Carries(c, b)' <=> L!Held(c) /\ Head(sendCh).bot = b
                        /\ \A d \in Conns \ {c} : Carries(d, b)' <=> Carries(d, b)
    BY <1>1, <1>2, Names DEF Carries, L!Held
  <1>4. ASSUME NEW b \in Bots \ excused'
        PROVE b \notin excused /\ (WillBe(b, "running")' <=> WillBe(b, "running"))
    <2> DEFINE s == "running"
    <2>0. s \in Statuses /\ b \in Bots /\ b \notin excused
      BY DEF WritePumpTakes, Statuses
    <2> HIDE DEF s
    <2>1. CASE ~Silent(b)'
      BY <1>1, <2>0, <2>1, TailSays, WillBeCases, WillBeCasesNext DEF s
    <2>2. CASE Silent(b)' /\ Head(sendCh).bot # b
      <3>1. Silent(b)
        BY <1>1, <2>0, <2>2, TailSays
      <3>2. \A d \in Conns : /\ Carries(d, b)' <=> Carries(d, b)
                             /\ Carries(d, b) => hand'[d] = hand[d]
        BY <1>2, <1>3, <2>2
      <3> QED
        BY <1>2, <2>0, <2>2, <3>1, <3>2, WillBeSame DEF s
    <2>3. CASE Silent(b)' /\ Head(sendCh).bot = b
      <3>1. ~Silent(b) /\ (WillBe(b, s) <=> Head(sendCh) = Status(b, s))
        BY <1>1, <2>0, <2>3, TailSays, WillBeCases
      <3>2. L!Held(c)
        <4>1. CASE ~L!Held(c)
          <5>1. b \in excused'
            BY <1>1, <2>0, <2>3, <4>1, TailSays DEF WritePumpTakes
          <5> QED
            BY <5>1
        <4> QED
          BY <4>1
      <3>3. \A d \in Conns : Carries(d, b)' <=> d = c
        BY <1>3, <2>0, <2>3, <3>2 DEF IInv, LinkInv, Carries
      <3>4. WillBe(b, s)' <=> Head(sendCh) = Status(b, s)
        BY <1>2, <2>0, <2>3, <3>3, WillBeCasesNext
      <3> QED
        BY <2>0, <3>1, <3>4 DEF s
    <2> QED
      BY <2>0, <2>1, <2>2, <2>3
  <1> QED
    BY <1>2, <1>4, LinkTruth

LEMMA WriteTruth ==
    ASSUME IInv, TruthInv, NEW c \in Conns, WritePumpWrites(c) PROVE TruthInv'
  <1>1. /\ L!Held(c) /\ hand[c] \in Messages /\ sock[c] \in {"open", "broken"}
        /\ UNCHANGED <<sendCh, sock, sending, botVars, jobVars>>
        /\ hand'[c] = None /\ \A d \in Conns \ {c} : hand'[d] = hand[d]
    BY DEF WritePumpWrites, linkVars, IInv, TypeOK, PumpInv, L!Held
  <1>2. \A b \in Bots : \A d \in Conns : /\ ~Carries(d, b)'
                                         /\ Carries(d, b) <=> (d = c /\ hand[c].bot = b)
    BY <1>1, Names DEF IInv, LinkInv, Carries, L!Held
  <1>3. ASSUME NEW b \in Bots \ excused'
        PROVE b \notin excused /\ (WillBe(b, "running")' <=> WillBe(b, "running"))
    <2>0. "running" \in Statuses /\ b \in Bots /\ b \notin excused
      BY DEF WritePumpWrites, Statuses
    <2>1. (Silent(b)' <=> Silent(b)) /\ (LastQueued(b, "running")' <=> LastQueued(b, "running"))
      BY <1>1 DEF Silent, LastQueued, Status
    <2>2. CASE ~Silent(b)
      BY <2>0, <2>1, <2>2, WillBeSame
    <2>3. CASE Silent(b) /\ hand[c].bot # b
      <3>1. view'[b] = view[b]
        BY <2>3 DEF WritePumpWrites
      <3>2. \A d \in Conns : ~Carries(d, b)' /\ ~Carries(d, b)
        BY <1>2, <2>0, <2>3
      <3> QED
        BY <2>0, <2>1, <2>3, <3>1, <3>2, WillBeSame
    <2>4. CASE Silent(b) /\ hand[c].bot = b
      <3>1. sock[c] = "open"
        BY <1>1, <2>0, <2>4, Names DEF WritePumpWrites, LastLost, Newest, Silent
      <3>2. view'[b] = hand[c].status
        BY <2>0, <2>4, <3>1 DEF WritePumpWrites
      <3>3. hand[c] = Status(b, "running") <=> hand[c].status = "running"
        BY <1>1, <2>0, <2>4, Names DEF Messages, Heartbeat, Status
      <3>4. (\A d \in Conns : ~Carries(d, b)') /\ \A d \in Conns : Carries(d, b) <=> d = c
        BY <1>2, <2>0, <2>4
      <3>5. WillBe(b, "running")' <=> view'[b] = "running"
        BY <2>0, <2>1, <2>4, <3>4, WillBeCasesNext
      <3>6. WillBe(b, "running") <=> hand[c] = Status(b, "running")
        BY <2>0, <2>4, <3>4, WillBeCases
      <3> QED
        BY <2>0, <3>2, <3>3, <3>5, <3>6
    <2> QED
      BY <2>0, <2>2, <2>3, <2>4
  <1> QED
    BY <1>1, <1>3, LinkTruth

LEMMA FailTruth ==
    ASSUME IInv, TruthInv, NEW c \in Conns, WritePumpFails(c) PROVE TruthInv'
  <1>1. /\ hand[c] \in Messages /\ sock[c] \in {"broken", "closed"}
        /\ UNCHANGED <<sendCh, sock, view, sending, botVars, jobVars>>
        /\ hand'[c] = None /\ \A d \in Conns \ {c} : hand'[d] = hand[d]
    BY DEF WritePumpFails, LeftBehind, linkVars, IInv, TypeOK, PumpInv
  <1>2. ASSUME NEW b \in Bots \ excused', Silent(b) PROVE ~Carries(c, b)
    <2>1. CASE sock[c] = "closed"
      BY <2>1 DEF Carries, L!Held
    <2>2. CASE sock[c] = "broken"
      BY <1>1, <1>2, <2>2, Names DEF WritePumpFails, LastLost, Newest, Silent, Carries
    <2> QED
      BY <1>1, <2>1, <2>2
  <1>3. \A b \in Bots : ~Carries(c, b)'
    BY <1>1 DEF Carries
  <1>4. \A b \in Bots : \A d \in Conns \ {c} : Carries(d, b)' <=> Carries(d, b)
    BY <1>1 DEF Carries, L!Held
  <1>5. excused \subseteq excused'
    BY DEF WritePumpFails
  <1> QED
    BY <1>1, <1>2, <1>3, <1>4, <1>5, HandTruth

(* What is queued for a bot and not overtaken is true of it.                   *)
LEMMA SendTruth ==
    ASSUME IInv, TruthInv, NEW s \in Senders, SendQueues(s) \/ SendRefuses(s) PROVE TruthInv'
  <1> DEFINE m == sending[s]
  <1>1. /\ m \in Messages /\ m # None /\ sendCh \in Seq(Messages)
        /\ sending' = [sending EXCEPT ![s] = None] /\ Forget(s)
        /\ UNCHANGED <<hand, sock, view, processes, hurried, life, owner, pc, bot>>
    BY Names DEF SendQueues, SendRefuses, linkVars, pumpVars, botVars, IInv, TypeOK
  <1>2. /\ sending'[s] = None
        /\ \A t \in Senders : sending'[t] # None => t # s /\ sending'[t] = sending[t]
        /\ \A t \in Senders \ {s} : sending'[t] = sending[t]
        /\ \A h \in Handlers \ {s} : tgt'[h] = tgt[h]
    BY <1>1 DEF IInv, TypeOK, Forget
  <1>3. \A h \in Handlers : pc[h] = "report" => h # s
    BY <1>1 DEF IInv, JobInv
  <1>4. /\ hurried' = {}
        /\ \A h \in Handlers : pc'[h] = "report" => tgt'[h] \in Procs
        /\ \A t \in Senders : sending'[t] # None /\ sending'[t].status = "running" =>
              t \in Handlers /\ tgt'[t] \in Procs
    BY <1>1, <1>2, <1>3 DEF TruthInv
  <1>5. ASSUME NEW b \in Bots \ excused'
        PROVE Owed(b)' \/ (WillBe(b, "running")' <=> processes'[b] # None)
    <2>0. "running" \in Statuses /\ b \in Bots
      BY DEF Statuses
    <2>1. CASE m.bot # b
      <3>1. b \notin excused
        BY <2>1 DEF SendQueues, SendRefuses
      <3>2. WillBe(b, "running")' <=> WillBe(b, "running")
        <4>1. CASE SendQueues(s)
          <5>1. sendCh' = Append(sendCh, m)
            BY <4>1 DEF SendQueues
          <5>2. /\ Silent(b)' <=> Silent(b)
                /\ LastQueued(b, "running")' <=> LastQueued(b, "running")
            BY <1>1, <2>0, <2>1, <5>1, AppendSays
          <5>3. \A c \in Conns : (Carries(c, b)' <=> Carries(c, b)) /\ hand'[c] = hand[c]
            BY <1>1 DEF Carries, L!Held
          <5> QED
            BY <1>1, <2>0, <5>2, <5>3, WillBeSame
        <4>2. CASE SendRefuses(s)
          BY <1>1, <2>0, <4>2, WillBeUntouched DEF SendRefuses
        <4> QED
          BY <4>1, <4>2
      <3>3. Owed(b) => Owed(b)'
        BY <1>1, <1>2, <2>1 DEF Owed
      <3> QED
        BY <1>1, <2>0, <3>1, <3>2, <3>3 DEF TruthInv
    <2>2. CASE m.bot = b
      <3>1. SendQueues(s) /\ ~Overtaken(s, m)
        BY <2>0, <2>2 DEF SendQueues, SendRefuses
      <3>2. WillBe(b, "running")' <=> m = Status(b, "running")
        <4>1. sendCh' = Append(sendCh, m)
          BY <3>1 DEF SendQueues
        <4>2. ~Silent(b)' /\ (LastQueued(b, "running")' <=> m = Status(b, "running"))
          BY <1>1, <2>0, <2>2, <4>1, AppendSays
        <4> QED
          BY <2>0, <4>2, WillBeCasesNext
      <3>3. m.status \in Statuses /\ (m = Status(b, "running") <=> m.status = "running")
        BY <1>1, <2>0, <2>2, Names DEF Messages, Heartbeat, Status
      <3>4. m.status = "running" => processes[b] # None
        BY <1>1, <2>2, <3>1, Names DEF Overtaken, TruthInv
      <3>5. m.status # "running" => processes[b] = None
        BY <2>2, <3>1, <3>3 DEF Overtaken, TruthInv, Statuses
      <3> QED
        BY <1>1, <3>2, <3>3, <3>4, <3>5
    <2> QED
      BY <2>1, <2>2
  <1> QED
    BY <1>4, <1>5 DEF TruthInv

-------------------------------------------------------------------------------
(* Steps of the goroutines: queue, pumps and platform stay as they are, and    *)
(* who changes what is true of a bot owes a report on it.                      *)
LEMMA JobTruth ==
    ASSUME TruthInv, UNCHANGED <<restVars, hurried>>,
           \A h \in Handlers : pc'[h] = "report" => tgt'[h] \in Procs,
           \A s \in Senders : sending'[s] # None /\ sending'[s].status = "running" =>
              s \in Handlers /\ tgt'[s] \in Procs,
           \A b \in Bots \ excused' :
              /\ b \notin excused /\ (Owed(b) => Owed(b)')
              /\ processes'[b] = processes[b] \/ Owed(b)'
    PROVE  TruthInv'
  <1>1. UNCHANGED <<sendCh, hand, sock, view>>
    BY DEF restVars, linkVars, pumpVars
  <1>2. \A b \in Bots : WillBe(b, "running")' <=> WillBe(b, "running")
    BY <1>1, WillBeUntouched DEF Statuses
  <1>3. \A b \in Bots \ excused' :
            Owed(b)' \/ (WillBe(b, "running")' <=> processes'[b] # None)
    BY <1>2 DEF TruthInv
  <1> QED
    BY <1>3 DEF TruthInv

(* A handler that neither was about to report a start nor will be.             *)
LEMMA MoveTruth ==
    ASSUME IInv, TruthInv, NEW h \in Handlers, sending[h] = None,
           pc[h] # "report", pc'[h] # "report",
           \A g \in Handlers \ {h} : pc'[g] = pc[g] /\ bot'[g] = bot[g] /\ tgt'[g] = tgt[g],
           UNCHANGED <<restVars, sending, processes, life, owner, hurried, excused>>
    PROVE  TruthInv'
  <1>1. \A b \in Bots : Owed(b) => Owed(b)'
    BY DEF Owed
  <1>2. /\ \A g \in Handlers : pc'[g] = "report" => tgt'[g] \in Procs
        /\ \A s \in Senders : sending'[s] # None /\ sending'[s].status = "running" =>
              s \in Handlers /\ tgt'[s] \in Procs
    BY DEF TruthInv
  <1> QED
    BY <1>1, <1>2, JobTruth

LEMMA MovesTruth ==
    ASSUME IInv, TruthInv, NEW h \in Handlers,
           \/ HandleCommand(h) \/ StartBotRefused(h) \/ StartBotFails(h) \/ RestartBotLooks(h)
           \/ StopBotLooks(h) \/ StopBotKillFails(h) \/ StopBotReturns(h)
    PROVE  TruthInv'
  <1> USE JobTypes DEF At, Goto, botVars
  <1>1. CASE HandleCommand(h)
    <2>1. PICK b \in Bots, o \in Commands :
              /\ bot' = [bot EXCEPT ![h] = b]
              /\ pc' = [pc EXCEPT ![h] = IF o = "create" THEN "start" ELSE o]
      BY <1>1 DEF HandleCommand
    <2>2. /\ pc[h] # "report" /\ pc'[h] # "report" /\ sending[h] = None
          /\ \A g \in Handlers \ {h} : pc'[g] = pc[g] /\ bot'[g] = bot[g] /\ tgt'[g] = tgt[g]
      BY <1>1, <2>1, CommandAssumption DEF HandleCommand
    <2> QED
      BY <1>1, <2>2, MoveTruth DEF HandleCommand
  <1>2. CASE StartBotRefused(h) \/ StartBotFails(h) \/ RestartBotLooks(h) \/ StopBotKillFails(h)
    <2>1. /\ pc[h] # "report" /\ pc'[h] # "report" /\ sending[h] = None
          /\ \A g \in Handlers \ {h} : pc'[g] = pc[g] /\ bot'[g] = bot[g] /\ tgt'[g] = tgt[g]
      BY <1>2 DEF StartBotRefused, StartBotFails, RestartBotLooks, StopBotKillFails
    <2>2. UNCHANGED <<restVars, sending, processes, life, owner, hurried, excused>>
      BY <1>2 DEF StartBotRefused, StartBotFails, RestartBotLooks, StopBotKillFails
    <2> QED
      BY <2>1, <2>2, MoveTruth
  <1>3. CASE StopBotLooks(h)
    <2>1. /\ pc[h] # "report" /\ pc'[h] # "report" /\ sending[h] = None
          /\ \A g \in Handlers \ {h} : pc'[g] = pc[g] /\ bot'[g] = bot[g] /\ tgt'[g] = tgt[g]
      BY <1>3 DEF StopBotLooks
    <2> QED
      BY <1>3, <2>1, MoveTruth DEF StopBotLooks
  <1>4. CASE StopBotReturns(h)
    <2>1. /\ pc[h] # "report" /\ pc'[h] # "report" /\ sending[h] = None
          /\ \A g \in Handlers \ {h} : pc'[g] = pc[g] /\ bot'[g] = bot[g] /\ tgt'[g] = tgt[g]
      BY <1>4 DEF StopBotReturns, Forget
    <2>2. hurried' = hurried
      BY <1>4 DEF StopBotReturns, Joined
    <2> QED
      BY <1>4, <2>1, <2>2, MoveTruth DEF StopBotReturns
  <1> QED
    BY <1>1, <1>2, <1>3, <1>4

LEMMA RegistersTruth ==
    ASSUME IInv, TruthInv, NEW h \in Handlers, StartBotRegisters(h) PROVE TruthInv'
  <1>1. PICK p \in Procs :
            /\ Unused(p) /\ life' = [life EXCEPT ![p] = "alive"]
            /\ owner' = [owner EXCEPT ![p] = bot[h]] /\ tgt' = [tgt EXCEPT ![h] = p]
            /\ processes' = [processes EXCEPT ![bot[h]] = p]
    BY DEF StartBotRegisters
  <1>2. /\ pc[h] = "start" /\ sending[h] = None /\ pc' = [pc EXCEPT ![h] = "report"]
        /\ UNCHANGED <<restVars, hurried, sending, bot, excused>>
    BY DEF StartBotRegisters, At, Goto
  <1>3. /\ pc'[h] = "report" /\ tgt'[h] = p
        /\ \A g \in Handlers \ {h} : pc'[g] = pc[g] /\ tgt'[g] = tgt[g]
    BY <1>1, <1>2, JobTypes
  <1>4. /\ \A q \in Procs \ {p} : life'[q] = life[q] /\ owner'[q] = owner[q]
        /\ life[p] = "done" /\ \A b \in Bots \ {bot[h]} : processes'[b] = processes[b]
    BY <1>1, BotTypes DEF Unused
  <1>5. \A b \in Bots : Owed(b) => Owed(b)'
    BY <1>2, <1>3, <1>4 DEF Owed
  <1>6. \A b \in Bots : processes'[b] = processes[b] \/ Owed(b)'
    BY <1>2, <1>3, <1>4 DEF Owed
  <1>7. /\ \A g \in Handlers : pc'[g] = "report" => tgt'[g] \in Procs
        /\ \A s \in Senders : sending'[s] # None /\ sending'[s].status = "running" =>
              s \in Handlers /\ tgt'[s] \in Procs
    BY <1>2, <1>3 DEF TruthInv
  <1> QED
    BY <1>2, <1>5, <1>6, <1>7, JobTruth

(* Who hands a message over owes it, or the bot is excused.                    *)
LEMMA HandOwes ==
    ASSUME IInv, NEW s \in Senders, NEW m \in Messages, sending[s] = None, Hand(s, m)
    PROVE  /\ \A b \in Bots \ excused' :
                 /\ b \notin excused
                 /\ m.bot = b => sending'[s] # None /\ sending'[s].bot = b
           /\ \A t \in Senders : sending[t] # None => sending'[t] = sending[t]
           /\ \A t \in Senders : sending'[t] # None =>
                 sending'[t] = sending[t] \/ (t = s /\ sending'[t] = m)
           /\ sending'[s] # None => sending' = [sending EXCEPT ![s] = m]
                                    /\ ~closed /\ conn # None
  BY Names DEF Hand, IInv, TypeOK

LEMMA BeatTruth ==
    ASSUME IInv, TruthInv, NEW t \in Beats, HeartbeatTicks(t) PROVE TruthInv'
  <1>1. /\ sending[t] = None /\ Hand(t, Heartbeat) /\ t \in Senders /\ Heartbeat \in Messages
        /\ UNCHANGED <<restVars, processes, hurried, life, owner, pc, bot, tgt>>
    BY MessageTypes DEF HeartbeatTicks, Senders, restVars, linkVars, lifeVars, pumpVars, botVars,
                        jobVars
  <1>2. \A b \in Bots \ excused' : b \notin excused /\ (Owed(b) => Owed(b)')
    BY <1>1, HandOwes DEF Owed
  <1>3. \A s \in Senders : sending'[s] # None /\ sending'[s].status = "running" =>
              s \in Handlers /\ tgt'[s] \in Procs
    BY <1>1, HandOwes DEF TruthInv, Heartbeat
  <1>4. \A h \in Handlers : pc'[h] = "report" => tgt'[h] \in Procs
    BY <1>1 DEF TruthInv
  <1> QED
    BY <1>1, <1>2, <1>3, <1>4, JobTruth

(* The last report of a command.                                               *)
LEMMA ReportTruth ==
    ASSUME IInv, TruthInv, NEW h \in Handlers,
           ReplyError(h) \/ StartBotDeferredStatus(h) \/ StartBotReports(h)
    PROVE  TruthInv'
  <1>1. PICK st \in {"running", "error"}, label \in {"idle", "reply"} :
            /\ Report(h, label, Status(bot[h], st))
            /\ st = "running" => pc[h] = "report" /\ tgt[h] \in Procs
                                 /\ (~closed /\ conn # None => tgt' = tgt)
            /\ st = "error" => pc[h] \in {"reply", "fail"}
            /\ tgt' = tgt \/ Forget(h)
    BY DEF ReplyError, StartBotDeferredStatus, StartBotReports, At, TruthInv
  <1>2. /\ sending[h] = None /\ pc[h] # "idle" /\ bot[h] \in Bots /\ h \in Senders
        /\ Status(bot[h], st) \in Messages
    BY <1>1, JobTypes, MessageTypes
       DEF ReplyError, StartBotDeferredStatus, StartBotReports, At, Senders, Statuses
  <1>3. /\ Hand(h, Status(bot[h], st)) /\ pc' = [pc EXCEPT ![h] = label]
        /\ UNCHANGED <<restVars, hurried, processes, life, owner>>
        /\ \A g \in Handlers \ {h} : bot'[g] = bot[g]
    BY <1>1, JobTypes DEF Report, Goto, botVars
  <1>4. /\ pc'[h] # "report" /\ \A g \in Handlers \ {h} : pc'[g] = pc[g] /\ tgt'[g] = tgt[g]
    BY <1>1, <1>3, JobTypes DEF Forget
  <1>5. Status(bot[h], st).bot = bot[h] /\ Status(bot[h], st).status = st
    BY DEF Status
  <1>6. ASSUME NEW b \in Bots \ excused' PROVE b \notin excused /\ (Owed(b) => Owed(b)')
    <2>1. CASE bot[h] = b
      BY <1>2, <1>3, <1>5, <2>1, HandOwes DEF Owed
    <2>2. CASE bot[h] # b
      BY <1>2, <1>3, <1>4, <2>2, HandOwes DEF Owed
    <2> QED
      BY <2>1, <2>2
  <1>7. \A g \in Handlers : pc'[g] = "report" => tgt'[g] \in Procs
    BY <1>4 DEF TruthInv
  <1>8. ASSUME NEW s \in Senders, sending'[s] # None, sending'[s].status = "running"
        PROVE s \in Handlers /\ tgt'[s] \in Procs
    <2>1. CASE s = h
      <3>1. sending'[s] = Status(bot[h], st) /\ ~closed /\ conn # None
        BY <1>2, <1>3, <1>8, <2>1, HandOwes
      <3> QED
        BY <1>1, <1>5, <1>8, <2>1, <3>1
    <2>2. CASE s # h
      BY <1>2, <1>3, <1>4, <1>8, <2>2, HandOwes DEF TruthInv
    <2> QED
      BY <2>1, <2>2
  <1> QED
    BY <1>3, <1>6, <1>7, <1>8, JobTruth

(* The monitor owes the end from the moment the process is out of the registry *)
(* until it has handed the report over.                                        *)
LEMMA MonitorTruth ==
    ASSUME IInv, TruthInv, NEW p \in Procs, ProcessExits(p) \/ monitorProcess(p)
    PROVE  TruthInv'
  <1>1. /\ UNCHANGED <<restVars, hurried, pc, bot, tgt>> /\ sending[p] = None
        /\ \A q \in Procs \ {p} : life'[q] = life[q]
        /\ p \in Senders
    BY BotTypes DEF ProcessExits, monitorProcess, MonitorUnregisters, MonitorReports,
                    MonitorFinishes, MonitorStep, jobVars, Senders
  <1>2. \A h \in Handlers : pc'[h] = "report" => tgt'[h] \in Procs
    BY <1>1 DEF TruthInv
  <1>3. CASE ProcessExits(p) \/ MonitorFinishes(p)
    <2>1. /\ UNCHANGED <<processes, sending, excused>> /\ life[p] # "unregistered"
          /\ \A q \in Procs \ {p} : owner'[q] = owner[q]
      BY <1>3, BotTypes DEF ProcessExits, MonitorFinishes, MonitorStep
    <2>2. \A b \in Bots : Owed(b) => Owed(b)'
      BY <1>1, <2>1 DEF Owed
    <2>3. \A s \in Senders : sending'[s] # None /\ sending'[s].status = "running" =>
              s \in Handlers /\ tgt'[s] \in Procs
      BY <1>1, <2>1 DEF TruthInv
    <2> QED
      BY <1>1, <1>2, <2>1, <2>2, <2>3, JobTruth
  <1>4. CASE MonitorUnregisters(p)
    <2>1. /\ UNCHANGED <<owner, sending, excused>> /\ life[p] = "exited"
          /\ life'[p] = "unregistered"
          /\ owner[p] \in Bots /\ \A b \in Bots \ {owner[p]} : processes'[b] = processes[b]
      BY <1>4, BotTypes DEF MonitorUnregisters, MonitorStep
    <2>2. \A b \in Bots : (Owed(b) => Owed(b)') /\ (processes'[b] = processes[b] \/ Owed(b)')
      BY <1>1, <2>1 DEF Owed
    <2>3. \A s \in Senders : sending'[s] # None /\ sending'[s].status = "running" =>
              s \in Handlers /\ tgt'[s] \in Procs
      BY <1>1, <2>1 DEF TruthInv
    <2> QED
      BY <1>1, <1>2, <2>1, <2>2, <2>3, JobTruth
  <1>5. CASE MonitorReports(p)
    <2>1. /\ UNCHANGED <<processes, owner>> /\ life[p] = "unregistered"
          /\ owner[p] \in Bots /\ Hand(p, Status(owner[p], "ended"))
      BY <1>5, BotTypes DEF MonitorReports, MonitorStep
    <2>2. /\ Status(owner[p], "ended") \in Messages
          /\ Status(owner[p], "ended").bot = owner[p]
          /\ Status(owner[p], "ended").status = "ended"
      BY <2>1, MessageTypes DEF Statuses, Status
    <2>3. ASSUME NEW b \in Bots \ excused' PROVE b \notin excused /\ (Owed(b) => Owed(b)')
      <3>1. CASE owner[p] = b
        BY <1>1, <2>1, <2>2, <3>1, HandOwes DEF Owed
      <3>2. CASE owner[p] # b
        BY <1>1, <2>1, <2>2, <3>2, HandOwes DEF Owed
      <3> QED
        BY <3>1, <3>2
    <2>4. \A s \in Senders : sending'[s] # None /\ sending'[s].status = "running" =>
              s \in Handlers /\ tgt'[s] \in Procs
      BY <1>1, <2>1, <2>2, HandOwes DEF TruthInv
    <2> QED
      BY <1>1, <1>2, <2>1, <2>3, <2>4, JobTruth
  <1> QED
    BY <1>3, <1>4, <1>5 DEF monitorProcess

-------------------------------------------------------------------------------
LEMMA TruthInit == Init => TruthInv
  <1> SUFFICES ASSUME Init PROVE TruthInv
    OBVIOUS
  <1>1. \A s \in Senders : sending[s] = None
    BY DEF Init
  <1>2. \A h \in Handlers : pc[h] = "idle"
    BY DEF Init
  <1>3. ASSUME NEW b \in Bots PROVE ~WillBe(b, "running") /\ processes[b] = None
    <2>1. sendCh = <<>> /\ \A c \in Conns : hand[c] = None
      BY DEF Init
    <2>2. view[b] # "running" /\ processes[b] = None
      BY NoMessageAssumption DEF Init, Statuses
    <2>3. Status(b, "running") # None
      BY Names, MessageTypes DEF Statuses
    <2>4. ~LastQueued(b, "running")
      BY <2>1 DEF LastQueued
    <2> QED
      BY <2>1, <2>2, <2>3, <2>4 DEF WillBe
  <1> QED
    BY <1>1, <1>2, <1>3 DEF TruthInv, Init

LEMMA TruthNext == IInv /\ TruthInv /\ [Next]_vars => TruthInv'
  <1> SUFFICES ASSUME IInv, TruthInv, [Next]_vars PROVE TruthInv'
    OBVIOUS
  <1>1. CASE \/ UNCHANGED vars \/ Install \/ Drop \/ Signal \/ Close
             \/ \E c \in Conns : WritePumpDisconnects(c) \/ WritePumpCancelled(c)
    BY <1>1, QuietTruth
  <1>2. CASE \E c \in Conns : Dial(c) \/ Break(c) \/ Cut(c)
    BY <1>2, SockTruth
  <1>3. CASE \E c \in Conns : WritePumpTakes(c) \/ WritePumpWrites(c) \/ WritePumpFails(c)
    BY <1>3, TakeTruth, WriteTruth, FailTruth
  <1>4. CASE \E t \in Beats : HeartbeatTicks(t)
    BY <1>4, BeatTruth
  <1>5. CASE \E s \in Senders : SendQueues(s) \/ SendRefuses(s)
    BY <1>5, SendTruth
  <1>6. CASE \E h \in Handlers : HandleCommand(h) \/ handler(h)
    BY <1>6, MovesTruth, RegistersTruth, ReportTruth DEF handler
  <1>7. CASE \E p \in Procs : ProcessExits(p) \/ monitorProcess(p)
    BY <1>7, MonitorTruth
  <1> QED
    BY <1>1, <1>2, <1>3, <1>4, <1>5, <1>6, <1>7 DEF Next, writePump

(* At rest nothing is on its way and nobody owes a report.                     *)
LEMMA TruthShows == TruthInv => StatusIsTrue
  <1> SUFFICES ASSUME TruthInv, AtRest, NEW b \in Bots \ excused
               PROVE  view[b] = "running" <=> processes[b] # None
    BY DEF StatusIsTrue
  <1>1. ~Owed(b)
    BY DEF AtRest, Owed
  <1>2. Silent(b) /\ \A c \in Conns : ~Carries(c, b)
    BY DEF AtRest, Silent, Carries
  <1>3. WillBe(b, "running") <=> view[b] = "running"
    BY <1>2, WillBeCases DEF Statuses
  <1> QED
    BY <1>1, <1>3 DEF TruthInv

(* Whatever the numbers of connections, bots and goroutines and the capacity    *)
(* of sendCh: once everything has been handled, the platform believes of every  *)
(* bot that has no excuse what is true of it.                                  *)
THEOREM StatusIsTrueHolds == Spec => []StatusIsTrue
  <1>1. Spec => []TruthInv
    BY InductiveInvariant, TruthInit, TruthNext, PTL DEF Spec
  <1> QED
    BY <1>1, TruthShows, PTL
===============================================================================
