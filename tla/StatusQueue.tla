----------------------------- MODULE StatusQueue ------------------------------
(* The way of a status from the goroutine that reports it to the platform:     *)
(* sendBotStatus (internal/process/manager.go), the dispatcher's error replies *)
(* (internal/command/dispatcher.go), Send, sendCh, writePump and heartbeats    *)
(* (internal/connection/manager.go).                                           *)
(*                                                                             *)
(* The connection is Link's, which ConnManager implements.  Of the process     *)
(* manager there is what decides the order of reports: the registry, the       *)
(* exits, and who waits for whom; BotManager has the rest.  What a process     *)
(* ends with, "stopped" or "error", is one status here, "ended".               *)
EXTENDS Naturals, Sequences, FiniteSets

CONSTANTS
    Conns,           \* connections; one that is over is used again
    Bots,
    Procs,           \* incarnations of bots; one that is over is used again
    Handlers,        \* goroutines that run commands
    Beats,           \* the heartbeat goroutines, which tick at any time
    Commands,        \* the commands the platform sends
    sendBufferSize,  \* capacity of sendCh
    None

ASSUME NoneAssumption == None \notin Conns \cup Bots \cup Procs
ASSUME SizeAssumption == sendBufferSize \in Nat \ {0}
ASSUME SendersAssumption ==
    Handlers \cap Procs = {} /\ Beats \cap (Handlers \cup Procs) = {}
ASSUME CommandAssumption == Commands \subseteq {"create", "stop", "restart"}

VARIABLES
    (* the connection *)
    conn, cand, sock,
    ctx,        \* "live" or "done"
    closed,
    (* outgoing messages *)
    sendCh,
    pump,       \* writePump of each connection: "none", "run", "write", "failed"
    hand,       \* the message it has taken out of sendCh
    sending,    \* the message a goroutine is in Send with, past its checks
    (* bots and the goroutines that report on them *)
    processes,  \* the registered incarnation of each bot
    saved,      \* bots with a saved configuration
    life,       \* of each incarnation: "alive", "exited", "unregistered",
                \* "reported", "done"
    owner,
    pc, op, bot, tgt,
    (* what the platform has received last, and for the properties only: *)
    view,
    excused,    \* bots whose last status was refused or lost, or handed over
                \* when it was no longer true
    hurried,    \* incarnations StopBot returned for before their end was reported
    swallowed   \* how many messages a running pump has taken out of sendCh for
                \* its closed socket (0, 1, more)

linkVars == <<conn, cand, sock>>
lifeVars == <<ctx, closed>>
pumpVars == <<pump, hand>>
botVars  == <<processes, saved, life, owner, hurried>>
jobVars  == <<pc, op, bot, tgt>>
vars == <<linkVars, lifeVars, sendCh, pumpVars, sending, botVars, jobVars, view,
          excused, swallowed>>

L == INSTANCE Link

-------------------------------------------------------------------------------
Senders == Handlers \cup Procs \cup Beats
Statuses == {"running", "ended", "error"}
Status(b, s) == [bot |-> b, status |-> s]
Heartbeat == [bot |-> None, status |-> "heartbeat"]
Messages == [bot : Bots, status : Statuses] \cup {Heartbeat}
ASSUME NoMessageAssumption == None \notin Messages \cup Statuses

TypeOK ==
    /\ conn \in Conns \cup {None} /\ cand \in Conns \cup {None}
    /\ sock \in [Conns -> {"none", "open", "broken", "closed"}]
    /\ ctx \in {"live", "done"} /\ closed \in BOOLEAN
    /\ sendCh \in Seq(Messages) /\ Len(sendCh) <= sendBufferSize
    /\ pump \in [Conns -> {"none", "run", "write", "failed"}]
    /\ hand \in [Conns -> Messages \cup {None}]
    /\ sending \in [Senders -> Messages \cup {None}]
    /\ processes \in [Bots -> Procs \cup {None}]
    /\ saved \subseteq Bots
    /\ life \in [Procs -> {"alive", "exited", "unregistered", "reported", "done"}]
    /\ owner \in [Procs -> Bots \cup {None}]
    /\ pc \in [Handlers -> {"idle", "start", "report", "fail", "reply", "restart",
                            "stop", "wait"}]
    /\ op \in [Handlers -> {"none", "create", "stop", "restart"}]
    /\ bot \in [Handlers -> Bots \cup {None}]
    /\ tgt \in [Handlers -> Procs \cup {None}]
    /\ view \in [Bots -> Statuses \cup {None}]
    /\ excused \subseteq Bots
    /\ hurried \subseteq Procs
    /\ swallowed \in [Conns -> 0..2]

Init ==
    /\ L!Init
    /\ ctx = "live" /\ closed = FALSE
    /\ sendCh = <<>>
    /\ pump = [c \in Conns |-> "none"] /\ hand = [c \in Conns |-> None]
    /\ sending = [s \in Senders |-> None]
    /\ processes = [b \in Bots |-> None] /\ saved = {}
    /\ life = [p \in Procs |-> "done"] /\ owner = [p \in Procs |-> None]
    /\ hurried = {}
    /\ pc = [h \in Handlers |-> "idle"] /\ op = [h \in Handlers |-> "none"]
    /\ bot = [h \in Handlers |-> None] /\ tgt = [h \in Handlers |-> None]
    /\ view = [b \in Bots |-> None]
    /\ excused = {}
    /\ swallowed = [c \in Conns |-> 0]

-------------------------------------------------------------------------------
(* The connection                                                              *)

Dial(c) ==
    /\ ctx = "live" /\ pump[c] = "none"
    /\ L!Dial(c)
    /\ UNCHANGED <<lifeVars, sendCh, pumpVars, sending, botVars, jobVars, view, excused,
                   swallowed>>

Install ==
    /\ L!Install
    /\ pump' = [pump EXCEPT ![cand] = "run"]
    /\ UNCHANGED <<lifeVars, sendCh, hand, sending, botVars, jobVars, view, excused, swallowed>>

Break(c) ==
    /\ L!Break(c)
    /\ UNCHANGED <<lifeVars, sendCh, pumpVars, sending, botVars, jobVars, view, excused,
                   swallowed>>

(* The last status of its bot is lost.                                         *)
Newest(m) == \A i \in DOMAIN sendCh : sendCh[i].bot # m.bot
LastLost(m) == IF m # None /\ Newest(m) THEN {m.bot} \cap Bots ELSE {}

(* handleDisconnect, called by the read pump or by the log sync.               *)
Drop ==
    /\ conn # None
    /\ L!Drop
    /\ UNCHANGED <<lifeVars, sendCh, pumpVars, sending, botVars, jobVars, view, excused,
                   swallowed>>

(* handleDisconnect or Close closes the socket; what the pump has in hand      *)
(* cannot reach the platform any more.                                         *)
Cut(c) ==
    /\ L!Held(c) /\ (conn # c \/ closed)
    /\ L!Cut(c)
    /\ excused' = excused \cup LastLost(hand[c])
    /\ UNCHANGED <<lifeVars, sendCh, pumpVars, sending, botVars, jobVars, view, swallowed>>

Signal ==
    /\ ctx = "live"
    /\ ctx' = "done"
    /\ UNCHANGED <<linkVars, closed, sendCh, pumpVars, sending, botVars, jobVars, view,
                   excused, swallowed>>

Close ==
    /\ ctx = "done" /\ ~closed
    /\ closed' = TRUE
    /\ UNCHANGED <<linkVars, ctx, sendCh, pumpVars, sending, botVars, jobVars, view, excused,
                   swallowed>>

-------------------------------------------------------------------------------
(* Send                                                                        *)

(* SendBotStatus begins: the checks under m.mu.                                *)
Hand(s, m) ==
    IF ~closed /\ conn # None
    THEN sending' = [sending EXCEPT ![s] = m] /\ UNCHANGED excused
    ELSE excused' = excused \cup ({m.bot} \cap Bots) /\ UNCHANGED sending

(* A status that is no longer true when it is queued: a running that comes     *)
(* after the process has left the registry (manager.go:206), the end of an     *)
(* incarnation nobody waited for when the next is registered (262), an error   *)
(* about a bot that runs (dispatcher.go:53).                                   *)
Overtaken(s, m) ==
    CASE m.status = "running" -> processes[m.bot] # tgt[s]
      [] m.status = "ended" -> processes[m.bot] # None /\ s \notin hurried
      [] m.status = "error" -> processes[m.bot] # None
      [] OTHER -> FALSE

HasRoom == Len(sendCh) < sendBufferSize

Forget(s) == tgt' = [h \in Handlers |-> IF h = s THEN None ELSE tgt[h]]

SendQueues(s) ==
    LET m == sending[s] IN
    /\ m # None /\ HasRoom
    /\ sendCh' = Append(sendCh, m)
    /\ excused' = IF Overtaken(s, m) THEN excused \cup {m.bot} ELSE excused \ {m.bot}
    /\ sending' = [sending EXCEPT ![s] = None]
    /\ Forget(s)
    /\ UNCHANGED <<linkVars, lifeVars, pumpVars, botVars, pc, op, bot, view, swallowed>>

(* The queue is full, or the agent shuts down; a select that finds the context *)
(* done may still prefer the queue.                                            *)
SendRefuses(s) ==
    /\ sending[s] # None
    /\ ~HasRoom \/ ctx = "done"
    /\ excused' = excused \cup ({sending[s].bot} \cap Bots)
    /\ sending' = [sending EXCEPT ![s] = None]
    /\ Forget(s)
    /\ UNCHANGED <<linkVars, lifeVars, sendCh, pumpVars, botVars, pc, op, bot, view, swallowed>>

HeartbeatTicks(t) ==
    /\ sending[t] = None
    /\ Hand(t, Heartbeat)
    /\ UNCHANGED <<linkVars, lifeVars, sendCh, pumpVars, botVars, jobVars, view, swallowed>>

-------------------------------------------------------------------------------
(* writePump                                                                   *)

(* The context of a connection is done from some moment after it was dropped.  *)
(* Seeded fault: a pump that disconnects late cancels the one that is current. *)
MayBeCancelledByOthers(c) ==
    conn # c \/ ctx = "done" \/ \E d \in Conns \ {c} : pump[d] = "failed"
MayBeCancelled(c) == conn # c \/ ctx = "done"

(* The select may prefer a message to a context that is done.                  *)
WritePumpTakes(c) ==
    /\ pump[c] = "run" /\ sendCh # <<>>
    /\ pump' = [pump EXCEPT ![c] = "write"]
    /\ hand' = [hand EXCEPT ![c] = Head(sendCh)]
    /\ sendCh' = Tail(sendCh)
    /\ swallowed' = IF L!Held(c) \/ swallowed[c] = 2 THEN swallowed
                    ELSE [swallowed EXCEPT ![c] = @ + 1]
    /\ excused' = IF L!Held(c) THEN excused
                  ELSE excused \cup {b \in {Head(sendCh).bot} \cap Bots :
                                        \A i \in 2..Len(sendCh) : sendCh[i].bot # b}
    /\ UNCHANGED <<linkVars, lifeVars, sending, botVars, jobVars, view>>

(* Written, and received unless the connection is broken already.              *)
WritePumpWrites(c) ==
    /\ pump[c] = "write" /\ L!Held(c)
    /\ view' = [b \in Bots |-> IF sock[c] = "open" /\ b = hand[c].bot
                               THEN hand[c].status ELSE view[b]]
    /\ excused' = excused \cup (IF sock[c] = "open" THEN {} ELSE LastLost(hand[c]))
    /\ pump' = [pump EXCEPT ![c] = "run"]
    /\ hand' = [hand EXCEPT ![c] = None]
    /\ UNCHANGED <<linkVars, lifeVars, sendCh, sending, botVars, jobVars, swallowed>>

(* Seeded faults: the pump does not return when a write fails; what could not  *)
(* be written is put back.                                                     *)
AfterFailureContinue == "run"
AfterFailure == "failed"
PutBack(c) == IF HasRoom THEN Append(sendCh, hand[c]) ELSE sendCh
LeftBehind(c) == sendCh

WritePumpFails(c) ==
    /\ pump[c] = "write" /\ sock[c] \in {"broken", "closed"}
    /\ pump' = [pump EXCEPT ![c] = AfterFailure]
    /\ sendCh' = LeftBehind(c)
    /\ hand' = [hand EXCEPT ![c] = None]
    /\ excused' = excused \cup (IF sock[c] = "closed" THEN {} ELSE LastLost(hand[c]))
    /\ UNCHANGED <<linkVars, lifeVars, sending, botVars, jobVars, view, swallowed>>

(* handleDisconnect drops the connection that is current, and returns.         *)
WritePumpDisconnects(c) ==
    /\ pump[c] = "failed"
    /\ L!Drop
    /\ pump' = [pump EXCEPT ![c] = "none"]
    /\ swallowed' = [swallowed EXCEPT ![c] = 0]
    /\ UNCHANGED <<lifeVars, sendCh, hand, sending, botVars, jobVars, view, excused>>

WritePumpCancelled(c) ==
    /\ pump[c] = "run" /\ MayBeCancelled(c)
    /\ pump' = [pump EXCEPT ![c] = "none"]
    /\ swallowed' = [swallowed EXCEPT ![c] = 0]
    /\ UNCHANGED <<linkVars, lifeVars, sendCh, hand, sending, botVars, jobVars, view, excused>>

writePump(c) ==
    \/ WritePumpTakes(c) \/ WritePumpWrites(c) \/ WritePumpFails(c)
    \/ WritePumpDisconnects(c) \/ WritePumpCancelled(c)

-------------------------------------------------------------------------------
(* Commands: a goroutine goes on when Send has returned.                       *)

At(h, label) == pc[h] = label /\ sending[h] = None
Goto(h, label) == pc' = [pc EXCEPT ![h] = label]
restVars == <<linkVars, lifeVars, sendCh, pumpVars, view, swallowed>>

HandleCommand(h) ==
    /\ At(h, "idle") /\ conn # None /\ ~closed
    /\ \E b \in Bots, o \in Commands :
          /\ bot' = [bot EXCEPT ![h] = b]
          /\ op' = [op EXCEPT ![h] = o]
          /\ Goto(h, IF o = "create" THEN "start" ELSE o)
    /\ UNCHANGED <<restVars, sending, botVars, tgt, excused>>

(* A command's last status: the goroutine is through with it when Send returns.*)
Report(h, label, m) ==
    /\ Hand(h, m)
    /\ Goto(h, label)
    /\ op' = [op EXCEPT ![h] = IF label = "idle" THEN "none" ELSE @]
    /\ bot' = [bot EXCEPT ![h] = IF label = "idle" THEN None ELSE @]
    /\ UNCHANGED <<restVars, botVars>>

ReplyError(h) ==
    /\ At(h, "reply")
    /\ Report(h, "idle", Status(bot[h], "error"))
    /\ Forget(h)

(* The command is not valid, or the bot is registered; that has no other status.*)
StartBotRefused(h) ==
    /\ At(h, "start")
    /\ op[h] = "create" \/ processes[bot[h]] # None
    /\ Goto(h, "reply")
    /\ UNCHANGED <<restVars, sending, botVars, op, bot, tgt, excused>>

StartBotFails(h) ==
    /\ At(h, "start")
    /\ Goto(h, "fail")
    /\ UNCHANGED <<restVars, sending, botVars, op, bot, tgt, excused>>

(* The deferred sendBotStatus.                                                 *)
StartBotDeferredStatus(h) ==
    /\ At(h, "fail")
    /\ Report(h, "reply", Status(bot[h], "error"))
    /\ UNCHANGED tgt

Unused(p) == life[p] = "done" /\ sending[p] = None /\ \A h \in Handlers : tgt[h] # p

StartBotRegisters(h) ==
    /\ At(h, "start") /\ processes[bot[h]] = None
    /\ \E p \in Procs :
          /\ Unused(p)
          /\ processes' = [processes EXCEPT ![bot[h]] = p]
          /\ life' = [life EXCEPT ![p] = "alive"]
          /\ owner' = [owner EXCEPT ![p] = bot[h]]
          /\ tgt' = [tgt EXCEPT ![h] = p]
    /\ saved' = saved \cup {bot[h]}
    /\ Goto(h, "report")
    /\ UNCHANGED <<restVars, sending, hurried, op, bot, excused>>

StartBotReports(h) ==
    /\ At(h, "report")
    /\ Report(h, "idle", Status(bot[h], "running"))
    /\ IF ~closed /\ conn # None THEN UNCHANGED tgt ELSE Forget(h)

(* RestartBot: the configuration, the first look-up.                           *)
RestartBotLooks(h) ==
    /\ At(h, "restart")
    /\ Goto(h, IF bot[h] \notin saved THEN "reply"
               ELSE IF processes[bot[h]] = None THEN "start" ELSE "stop")
    /\ UNCHANGED <<restVars, sending, botVars, op, bot, tgt, excused>>

StopBotLooks(h) ==
    /\ At(h, "stop")
    /\ Goto(h, IF processes[bot[h]] = None THEN "reply" ELSE "wait")
    /\ tgt' = [tgt EXCEPT ![h] = processes[bot[h]]]
    /\ UNCHANGED <<restVars, sending, botVars, op, bot, excused>>

StopBotKillFails(h) ==
    /\ At(h, "wait") /\ life[tgt[h]] = "alive"
    /\ Goto(h, "reply")
    /\ UNCHANGED <<restVars, sending, botVars, op, bot, tgt, excused>>

(* Seeded fault: StopBot waits for the process to leave the registry.          *)
JoinedByRegistry(p) == life[p] \in {"unregistered", "reported", "done"}
Joined(p) == life[p] = "done"

StopBotReturns(h) ==
    /\ At(h, "wait") /\ Joined(tgt[h])
    /\ hurried' = hurried \cup (IF life[tgt[h]] = "done" THEN {} ELSE {tgt[h]})
    /\ Goto(h, IF op[h] = "restart" THEN "start" ELSE "idle")
    /\ Forget(h)
    /\ UNCHANGED <<restVars, sending, processes, saved, life, owner, op, bot, excused>>

handler(h) ==
    \/ ReplyError(h) \/ StartBotRefused(h) \/ StartBotFails(h) \/ StartBotDeferredStatus(h)
    \/ StartBotRegisters(h) \/ StartBotReports(h) \/ RestartBotLooks(h) \/ StopBotLooks(h)
    \/ StopBotKillFails(h) \/ StopBotReturns(h)

-------------------------------------------------------------------------------
(* monitorProcess                                                              *)

MonitorStep(p, from, to) ==
    /\ life[p] = from /\ sending[p] = None
    /\ life' = [life EXCEPT ![p] = to]
    /\ UNCHANGED <<restVars, saved, hurried, jobVars>>

ProcessExits(p) ==
    MonitorStep(p, "alive", "exited") /\ UNCHANGED <<processes, owner, sending, excused>>

MonitorUnregisters(p) ==
    /\ MonitorStep(p, "exited", "unregistered")
    /\ processes' = [processes EXCEPT ![owner[p]] = None]
    /\ UNCHANGED <<owner, sending, excused>>

MonitorReports(p) ==
    /\ MonitorStep(p, "unregistered", "reported")
    /\ Hand(p, Status(owner[p], "ended"))
    /\ UNCHANGED <<processes, owner>>

MonitorFinishes(p) ==
    /\ MonitorStep(p, "reported", "done")
    /\ owner' = [owner EXCEPT ![p] = None]
    /\ UNCHANGED <<processes, sending, excused>>

monitorProcess(p) == MonitorUnregisters(p) \/ MonitorReports(p) \/ MonitorFinishes(p)

-------------------------------------------------------------------------------
Next ==
    \/ \E c \in Conns : Dial(c) \/ Break(c) \/ Cut(c) \/ writePump(c)
    \/ Install \/ Drop \/ Signal \/ Close \/ \E t \in Beats : HeartbeatTicks(t)
    \/ \E s \in Senders : SendQueues(s) \/ SendRefuses(s)
    \/ \E h \in Handlers : HandleCommand(h) \/ handler(h)
    \/ \E p \in Procs : ProcessExits(p) \/ monitorProcess(p)

Spec == Init /\ [][Next]_vars

(* The pumps go on, whatever else happens.                                     *)
FairSpec ==
    Spec /\ \A c \in Conns : WF_vars(WritePumpTakes(c)) /\ WF_vars(WritePumpWrites(c))

-------------------------------------------------------------------------------
(* Properties                                                                  *)

(* When everything that was reported has been handled, the platform believes a *)
(* bot to run exactly if it runs, unless the last status about the bot was     *)
(* refused, was lost with its connection, or had been overtaken by the facts   *)
(* when it was queued.  A stop or a restart overtakes nothing: StopBot waits   *)
(* until the end has been reported (manager.go:264-266, 288).                  *)
AtRest ==
    /\ sendCh = <<>> /\ \A c \in Conns : hand[c] = None
    /\ \A s \in Senders : sending[s] = None
    /\ \A h \in Handlers : pc[h] = "idle"
    /\ \A p \in Procs : life[p] \in {"alive", "done"}

StatusIsTrue ==
    AtRest => \A b \in Bots \ excused : view[b] = "running" <=> processes[b] # None

(* The pump of a connection whose socket is closed costs the queue one message *)
(* at most (manager.go:420-427), the rest waits for the next connection.       *)
SwallowsOne == \A c \in Conns : swallowed[c] <= 1

(* As long as a connection lasts the queue moves, with the pumps of former     *)
(* connections still about.                                                    *)
Lasting == \E c \in Conns : conn = c /\ sock[c] = "open" /\ ctx = "live"
QueueMoves ==
    <>[]Lasting => []<>(sendCh = <<>> \/ \E c \in Conns : conn = c /\ pump[c] = "write")

(* The inductive strengthening of TypeOK and SwallowsOne: one connection is    *)
(* held; a pump has a message in hand just while it writes it, one it took in  *)
(* vain it has yet to fail with; a goroutine in Send does nothing else.        *)
LinkInv ==
    /\ \A c, d \in Conns : L!Held(c) /\ L!Held(d) => c = d
    /\ cand # None => conn = None /\ pump[cand] = "none"

PumpInv ==
    \A c \in Conns :
        /\ pump[c] = "write" <=> hand[c] # None
        /\ swallowed[c] # 0 =>
              swallowed[c] = 1 /\ pump[c] \in {"write", "failed"} /\ ~L!Held(c)

JobInv ==
    /\ \A h \in Handlers :
          /\ pc[h] # "idle" => bot[h] \in Bots
          /\ sending[h] # None => pc[h] \in {"idle", "reply"}
          /\ pc[h] = "wait" => tgt[h] \in Procs
    /\ \A p \in Procs : life[p] # "done" => owner[p] \in Bots

IInv == TypeOK /\ LinkInv /\ PumpInv /\ JobInv

(* What the platform will believe of a bot when all that is under way has      *)
(* arrived: the last status in the queue, else the one a pump can still        *)
(* deliver, else the one it has received.                                      *)
Silent(b) == \A i \in DOMAIN sendCh : sendCh[i].bot # b
LastQueued(b, s) ==
    \E i \in DOMAIN sendCh :
        sendCh[i] = Status(b, s) /\ \A j \in DOMAIN sendCh : i < j => sendCh[j].bot # b
InHand(b) == \E c \in Conns : L!Held(c) /\ hand[c] # None /\ hand[c].bot = b
WillBe(b, s) ==
    \/ LastQueued(b, s)
    \/ Silent(b) /\ \E c \in Conns : L!Held(c) /\ hand[c] = Status(b, s)
    \/ Silent(b) /\ ~InHand(b) /\ view[b] = s

(* Somebody has still to report on a bot: he is in Send, or about to be.       *)
Owed(b) ==
    \/ \E s \in Senders : sending[s] # None /\ sending[s].bot = b
    \/ \E h \in Handlers : pc[h] = "report" /\ bot[h] = b
    \/ \E p \in Procs : life[p] = "unregistered" /\ owner[p] = b

(* The strengthening of StatusIsTrue: what will be believed of a bot is true,  *)
(* or somebody has still to report on it; a report of "running" knows its      *)
(* process; nobody has been let go before the end was reported.                *)
TruthInv ==
    /\ hurried = {}
    /\ \A h \in Handlers : pc[h] = "report" => tgt[h] \in Procs
    /\ \A s \in Senders : sending[s] # None /\ sending[s].status = "running" =>
          s \in Handlers /\ tgt[s] \in Procs
    /\ \A b \in Bots \ excused :
          Owed(b) \/ (WillBe(b, "running") <=> processes[b] # None)

(* The pump of a connection that is open, and the message it holds.            *)
LiveHand ==
    IF \E c \in Conns : L!Held(c) /\ hand[c] # None
    THEN <<hand[CHOOSE c \in Conns : L!Held(c) /\ hand[c] # None]>> ELSE <<>>

Channel == INSTANCE StatusChannel WITH inFlight <- LiveHand \o sendCh

(* However pumps of old and new connections compete for the queue, what the    *)
(* platform receives it receives in the order it was accepted and only once    *)
(* (manager.go:191-200, 416-430).                                              *)
ImplementsChannel == Channel!Spec
===============================================================================
