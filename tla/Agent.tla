-------------------------------- MODULE Agent ---------------------------------
(* The life of the agent (cmd/agent/main.go, internal/app): the command line,  *)
(* what App.Run sets up, the commands read pumps run meanwhile, the signal,    *)
(* StopAll and Close, the exit code, and what is left when it has ended.       *)
(*                                                                             *)
(* Of the process manager there is what BotSlots promises, and BotManager      *)
(* implements; of the connections the read pumps and which of them has an open *)
(* socket, see ConnManager.                                                    *)
EXTENDS FiniteSets

CONSTANTS
    Bots,
    Procs,        \* incarnations; their number bounds how often a bot starts
    Pumps,        \* read pumps; one that has returned is used again
    Commands,     \* the commands the platform sends
    Invocations,  \* the command lines the agent is started with
    None

ASSUME NoneAssumption == None \notin Bots \cup Procs \cup Pumps \cup {0, 1}
ASSUME CommandAssumption == Commands \subseteq {"create", "stop", "restart"}

Required == {"--token", "--secret", "--server"}

(* flags: do the arguments parse; blank: required flags without a value; url:  *)
(* is the server a ws:// or wss:// URL?                                        *)
CommandLine == [flags : {"good", "bad", "help"}, version : BOOLEAN,
                blank : SUBSET Required, url : BOOLEAN]

ASSUME InvocationsAssumption == Invocations \subseteq CommandLine

VARIABLES
    (* main and App.Run *)
    args,
    phase,      \* "args", "store", "sdk", "dial", "auth", "serve", "stopall",
                \* "stopbot", "close", "return" or "exit"
    result,     \* what Run returns: "nil", "canceled" or "error"
    exit,       \* the exit code, or None while the process runs
    ctx,        \* "live" or "done"
    db,         \* the Store: "none", "open" or "closed"
    todo,       \* StopAll: the bots left
    snap,       \* and (ghost) the processes it answers for
    (* the read pumps, and the one whose socket is open *)
    pump,       \* "none", "loop", "read" or "handle"
    link,
    pc, op, bot, (* the command a pump runs *)
    tgt,        \* the process a pump, or StopAll, holds or stops
    (* the process manager *)
    slot, life, home, used,
    killed,     \* those with a pending SIGKILL
    configs,    \* bots with a saved configuration
    spared,     \* (ghost) processes the kernel has refused to kill, or StopAll
                \* has had no time for
    starter,    \* (ghost) the pump that launched an incarnation
    late        \* (ghost) those registered after the signal

mainVars == <<args, phase, result, exit, db, todo, snap>>
pumpVars == <<pump, link>>
jobVars  == <<pc, op, bot, tgt>>
slotVars == <<slot, life, home, used>>
procVars == <<slotVars, killed, configs, spared, starter, late>>
vars == <<mainVars, ctx, pumpVars, jobVars, procVars>>

Slots == INSTANCE BotSlots

-------------------------------------------------------------------------------
Main == "main"
ASSUME MainAssumption == Main \notin Pumps
Workers == Pumps \cup {Main}

TypeOK ==
    /\ args \in Invocations
    /\ phase \in {"args", "store", "sdk", "dial", "auth", "serve", "stopall", "stopbot",
                  "close", "return", "exit"}
    /\ result \in {None, "nil", "canceled", "error"}
    /\ exit \in {None, 0, 1}
    /\ ctx \in {"live", "done"}
    /\ db \in {"none", "open", "closed"}
    /\ todo \subseteq Bots /\ snap \subseteq Procs
    /\ pump \in [Pumps -> {"none", "loop", "read", "handle"}]
    /\ link \in Pumps \cup {None}
    /\ pc \in [Pumps -> {"idle", "restart", "start", "launch", "register", "reap",
                         "lookup", "stop"}]
    /\ op \in [Pumps -> Commands \cup {None}]
    /\ bot \in [Pumps -> Bots \cup {None}]
    /\ tgt \in [Workers -> Procs \cup {None}]
    /\ slot \in [Bots -> Procs \cup {None}]
    /\ life \in [Procs -> {"none", "alive", "exited"}]
    /\ home \in [Procs -> Bots \cup {None}]
    /\ used \subseteq Procs /\ killed \subseteq Procs
    /\ configs \subseteq Bots /\ spared \subseteq Procs
    /\ starter \in [Procs -> Pumps \cup {None}] /\ late \subseteq Procs

Init ==
    /\ args \in Invocations
    /\ phase = "args" /\ result = None /\ exit = None /\ ctx = "live" /\ db = "none"
    /\ todo = {} /\ snap = {}
    /\ pump = [h \in Pumps |-> "none"] /\ link = None
    /\ pc = [h \in Pumps |-> "idle"] /\ op = [h \in Pumps |-> None]
    /\ bot = [h \in Pumps |-> None] /\ tgt = [w \in Workers |-> None]
    /\ Slots!Init
    /\ killed = {} /\ configs = {} /\ spared = {}
    /\ starter = [p \in Procs |-> None] /\ late = {}

-------------------------------------------------------------------------------
(* ParseArgs                                                                   *)

MissingSome(a) == a.blank # {}

ParseArgs(a) ==
    CASE a.flags # "good" -> a.flags
      [] a.flags = "good" /\ a.version -> "version"
      [] a.flags = "good" /\ ~a.version /\ MissingSome(a) -> "missing"
      [] OTHER -> "config"

(* What handleParseError makes of an error, Run of -version.                   *)
ParseResult(a) == IF ParseArgs(a) \in {"help", "version"} THEN "nil" ELSE "error"

(* main                                                                        *)
ExitCode(res) == IF res \in {"nil", "canceled"} THEN 0 ELSE 1

-------------------------------------------------------------------------------
(* App.Run                                                                     *)

MainStep(from, to) ==
    /\ phase = from /\ phase' = to
    /\ UNCHANGED <<args, pumpVars, pc, op, bot, procVars>>
KeepsJob == UNCHANGED <<tgt, todo, snap>>

Run ==
    /\ MainStep("args", IF ParseArgs(args) = "config" THEN "store" ELSE "return")
    /\ result' = IF ParseArgs(args) = "config" THEN result ELSE ParseResult(args)
    /\ UNCHANGED <<exit, ctx, db>> /\ KeepsJob

(* An operation that takes the context fails with it when it is done.          *)
Canceled == {"error"} \cup (IF ctx = "done" THEN {"canceled"} ELSE {})

RunFails(errors) ==
    /\ result' \in errors
    /\ UNCHANGED <<exit, ctx, db>> /\ KeepsJob

OpenSQLite ==
    /\ MainStep("store", "sdk") /\ ctx = "live"
    /\ db' = "open"
    /\ UNCHANGED <<result, exit, ctx>> /\ KeepsJob
OpenSQLiteFails == MainStep("store", "return") /\ RunFails(Canceled)

(* resolveSDKDir and process.NewManager; a signal is not noticed.              *)
SetUp ==
    /\ MainStep("sdk", "dial")
    /\ UNCHANGED <<result, exit, ctx, db>> /\ KeepsJob
SetUpFails == MainStep("sdk", "return") /\ RunFails({"error"})

(* connectOnce: buildAgentEndpoint and DialContext, then authenticate.         *)
Dial ==
    /\ MainStep("dial", "auth") /\ args.url /\ ctx = "live"
    /\ UNCHANGED <<result, exit, ctx, db>> /\ KeepsJob
DialFails ==
    MainStep("dial", "return") /\ RunFails(IF args.url THEN Canceled ELSE {"error"})
AuthFails == MainStep("auth", "return") /\ RunFails({"error"})

Connected ==
    /\ phase = "auth" /\ phase' = "serve"
    /\ \E h \in Pumps :
          /\ pump[h] = "none"
          /\ pump' = [pump EXCEPT ![h] = "loop"] /\ link' = h
    /\ UNCHANGED <<args, result, exit, ctx, db, todo, snap, jobVars, procVars>>

Signal ==
    /\ ctx = "live" /\ exit = None
    /\ ctx' = "done"
    /\ UNCHANGED <<mainVars, pumpVars, jobVars, procVars>>

(* StopAll: GetRunningBots, and StopBot for one after the other.               *)
Running == {b \in Bots : slot[b] # None}
StopAll ==
    /\ MainStep("serve", "stopall") /\ ctx = "done"
    /\ todo' = Running
    /\ snap' = {slot[b] : b \in Running}
    /\ UNCHANGED <<result, exit, ctx, db, tgt>>

StopAllNext ==
    /\ phase = "stopall"
    /\ \E b \in todo :
          /\ todo' = todo \ {b}
          /\ tgt' = [tgt EXCEPT ![Main] = slot[b]]
          /\ phase' = IF slot[b] = None THEN "stopall" ELSE "stopbot"
    /\ UNCHANGED <<args, result, exit, ctx, db, snap, pumpVars, pc, op, bot, procVars>>

(* The 10 s of shutdownCtx are over.                                           *)
StopAllDeadline ==
    /\ phase = "stopall" /\ phase' = "close" /\ todo # {}
    /\ todo' = {}
    /\ spared' = spared \cup snap
    /\ UNCHANGED <<args, result, exit, ctx, db, snap, pumpVars, jobVars, slotVars, killed,
                   configs, starter, late>>

StopAllReturns ==
    /\ MainStep("stopall", "close") /\ todo = {}
    /\ UNCHANGED <<result, exit, ctx, db>> /\ KeepsJob

(* connection.Manager.Close cancels, closes the socket and waits for the pumps.*)
(* Seeded fault: it does not wait.                                             *)
PumpsAreLeft == TRUE
PumpsHaveReturned == \A h \in Pumps : pump[h] = "none"

CloseConn ==
    /\ phase = "close" /\ link # None
    /\ link' = None
    /\ UNCHANGED <<mainVars, ctx, pump, jobVars, procVars>>

CloseReturns ==
    /\ MainStep("close", "return") /\ link = None /\ PumpsHaveReturned
    /\ result' = "nil"
    /\ UNCHANGED <<exit, ctx, db>> /\ KeepsJob

(* The deferred store.Close, and main.                                         *)
Exit ==
    /\ MainStep("return", "exit")
    /\ db' = IF db = "open" THEN "closed" ELSE db
    /\ exit' = ExitCode(result)
    /\ UNCHANGED <<result, ctx>> /\ KeepsJob

-------------------------------------------------------------------------------
(* Read pumps and their connections                                            *)

(* A connection is lost; the supervisor makes another.                         *)
ConnLost ==
    /\ phase \in {"serve", "stopall", "stopbot"} /\ link # None
    /\ link' = None
    /\ UNCHANGED <<mainVars, ctx, pump, jobVars, procVars>>

Reconnect(h) ==
    /\ phase = "serve" /\ ctx = "live" /\ link = None /\ pump[h] = "none"
    /\ pump' = [pump EXCEPT ![h] = "loop"] /\ link' = h
    /\ UNCHANGED <<mainVars, ctx, jobVars, procVars>>

(* Seeded fault: the context is not looked at before every read.               *)
GoesOn(h) == link = h
MayRead(h) == ctx = "live"

(* The context of a connection that is lost is done too, from some moment on.  *)
PumpLoop(h) ==
    /\ pump[h] = "loop"
    /\ \/ MayRead(h) /\ pump' = [pump EXCEPT ![h] = "read"]
       \/ (~MayRead(h) \/ link # h) /\ pump' = [pump EXCEPT ![h] = "none"]
    /\ UNCHANGED <<mainVars, ctx, link, jobVars, procVars>>

(* Whatever has arrived may still be read when the socket has been closed.     *)
PumpReadFails(h) ==
    /\ pump[h] = "read"
    /\ pump' = [pump EXCEPT ![h] = "none"]
    /\ link' = IF link = h THEN None ELSE link
    /\ UNCHANGED <<mainVars, ctx, jobVars, procVars>>

First(o) == CASE o = "create" -> "start" [] o = "stop" -> "lookup" [] OTHER -> "restart"

PumpReads(h) ==
    /\ pump[h] = "read"
    /\ \E o \in Commands, b \in Bots :
          /\ op' = [op EXCEPT ![h] = o] /\ bot' = [bot EXCEPT ![h] = b]
          /\ pc' = [pc EXCEPT ![h] = First(o)]
    /\ pump' = [pump EXCEPT ![h] = "handle"]
    /\ UNCHANGED <<mainVars, ctx, link, tgt, procVars>>

-------------------------------------------------------------------------------
(* The commands, in the terms of BotSlots                                      *)

At(h, label) == pump[h] = "handle" /\ pc[h] = label
Goto(h, label) == pc' = [pc EXCEPT ![h] = label] /\ UNCHANGED <<op, bot, pump>>
Return(h) ==
    /\ pc' = [pc EXCEPT ![h] = "idle"] /\ op' = [op EXCEPT ![h] = None]
    /\ bot' = [bot EXCEPT ![h] = None] /\ pump' = [pump EXCEPT ![h] = "loop"]
Holds(h, p) == tgt' = [tgt EXCEPT ![h] = p]
sysVars == <<mainVars, ctx, link>>

RestartBot(h) ==
    /\ At(h, "restart")
    /\ IF bot[h] \in configs
       THEN Goto(h, IF slot[bot[h]] = None THEN "start" ELSE "lookup")
       ELSE Return(h)
    /\ UNCHANGED <<sysVars, tgt, procVars>>

(* Everything StartBot does before cmd.Start, and its failures.                *)
StartBotPrepares(h) ==
    /\ At(h, "start")
    /\ \/ slot[bot[h]] = None /\ Goto(h, "launch")
       \/ Return(h)
    /\ UNCHANGED <<sysVars, tgt, procVars>>

StartBotLaunches(h) ==
    /\ At(h, "launch")
    /\ \E p \in Procs :
          /\ Slots!Launch(bot[h], p)
          /\ Holds(h, p)
          /\ starter' = [starter EXCEPT ![p] = h]
    /\ Goto(h, "register")
    /\ UNCHANGED <<sysVars, killed, configs, spared, late>>

StartBotLaunchFails(h) ==
    /\ At(h, "launch") /\ Return(h)
    /\ UNCHANGED <<sysVars, tgt, procVars>>

StartBotRegisters(h) ==
    /\ At(h, "register")
    /\ Slots!Take(bot[h], tgt[h])
    /\ configs' = configs \cup {bot[h]}
    /\ late' = IF ctx = "done" THEN late \cup {tgt[h]} ELSE late
    /\ Holds(h, None) /\ Return(h)
    /\ UNCHANGED <<sysVars, killed, spared, starter>>

(* Seeded fault: Interrupt, which the strategy ignores, and no SIGKILL.        *)
Interrupt(p) == killed' = killed
Kill(p) == killed' = killed \cup {q \in {p} : life[q] = "alive"}

StartBotLoses(h) ==
    /\ At(h, "register") /\ slot[bot[h]] # None
    /\ Kill(tgt[h])
    /\ Goto(h, "reap")
    /\ UNCHANGED <<sysVars, tgt, slotVars, configs, spared, starter, late>>

(* Seeded fault: the loser is abandoned without waiting for its death.         *)
ReapedAtOnce(p) == TRUE
Reaped(p) == life[p] = "exited"

StartBotReaps(h) ==
    /\ At(h, "reap") /\ Reaped(tgt[h])
    /\ Holds(h, None) /\ Return(h)
    /\ UNCHANGED <<sysVars, procVars>>

(* StopBot finds the bot or does not.                                          *)
StopBotLooks(h) ==
    /\ At(h, "lookup")
    /\ Holds(h, slot[bot[h]])
    /\ IF slot[bot[h]] = None THEN Return(h) ELSE Goto(h, "stop")
    /\ UNCHANGED <<sysVars, procVars>>

(* The rest of StopBot, of a pump or of StopAll, past Interrupt: the process   *)
(* has left (Done is closed after that), or 3 s are over and it is killed, or  *)
(* it cannot be.                                                               *)
(* Seeded fault: StopBot does not wait for what it has killed.                 *)
LeftOrKilled(p) == slot[home[p]] # p \/ p \in killed
Left(p) == slot[home[p]] # p

StopBotTimeout(p) ==
    /\ p \notin killed
    /\ Kill(p)
    /\ UNCHANGED <<slotVars, configs, spared, starter, late>>

StopBotKillFails(p) ==
    /\ life[p] = "alive" /\ p \notin killed
    /\ spared' = spared \cup {p}
    /\ UNCHANGED <<slotVars, killed, configs, starter, late>>

PumpStops(h) ==
    /\ At(h, "stop")
    /\ \/ Left(tgt[h]) /\ Holds(h, None) /\ UNCHANGED procVars
          /\ IF op[h] = "restart" THEN Goto(h, "start") ELSE Return(h)
       \/ StopBotTimeout(tgt[h]) /\ UNCHANGED <<jobVars, pump>>
       \/ StopBotKillFails(tgt[h]) /\ Holds(h, None) /\ Return(h)
    /\ UNCHANGED sysVars

(* StopAll goes on to the next bot whatever StopBot returns.                   *)
StopAllStops ==
    /\ phase = "stopbot"
    /\ \/ Left(tgt[Main]) /\ Holds(Main, None) /\ phase' = "stopall" /\ UNCHANGED procVars
       \/ StopBotTimeout(tgt[Main]) /\ UNCHANGED <<tgt, phase>>
       \/ StopBotKillFails(tgt[Main]) /\ Holds(Main, None) /\ phase' = "stopall"
    /\ UNCHANGED <<args, result, exit, db, todo, snap, ctx, pumpVars, pc, op, bot>>

-------------------------------------------------------------------------------
(* The processes, and the goroutines that wait for them                        *)

Die(p) ==
    /\ Slots!Die(p)
    /\ killed' = killed \ {p}
    /\ UNCHANGED <<sysVars, pump, jobVars, configs, spared, starter, late>>

(* monitorProcess; when the agent has ended nobody notices any more.           *)
Leave(b) ==
    /\ exit = None
    /\ Slots!Leave(b)
    /\ UNCHANGED <<sysVars, pump, jobVars, killed, configs, spared, starter, late>>

-------------------------------------------------------------------------------
StartUp ==
    \/ Run \/ OpenSQLite \/ OpenSQLiteFails \/ SetUp \/ SetUpFails \/ Dial \/ DialFails
    \/ AuthFails \/ Connected

ShutDown ==
    \/ StopAll \/ StopAllNext \/ StopAllDeadline \/ StopAllReturns \/ StopAllStops
    \/ CloseConn \/ CloseReturns \/ Exit

Command(h) ==
    \/ RestartBot(h) \/ StartBotPrepares(h) \/ StartBotLaunches(h) \/ StartBotLaunchFails(h)
    \/ StartBotRegisters(h) \/ StartBotLoses(h) \/ StartBotReaps(h) \/ StopBotLooks(h)
    \/ PumpStops(h)

Next ==
    \/ StartUp \/ ShutDown \/ Signal \/ ConnLost
    \/ \E h \in Pumps :
          Reconnect(h) \/ PumpLoop(h) \/ PumpReads(h) \/ PumpReadFails(h) \/ Command(h)
    \/ \E p \in Procs : Die(p)
    \/ \E b \in Bots : Leave(b)

Spec == Init /\ [][Next]_vars

(* Start-up and shutdown go on (every call in them has a timeout or is local), *)
(* commands too, a read ends when the agent has closed its socket, the monitor *)
(* of a dead process takes it out of the registry, and SIGKILL works.          *)
Progress ==
    /\ WF_vars(StartUp) /\ WF_vars(ShutDown)
    /\ \A h \in Pumps :
          /\ WF_vars(PumpLoop(h)) /\ WF_vars(Command(h))
          /\ WF_vars(phase = "close" /\ link = None /\ PumpReadFails(h))
    /\ \A p \in Procs : WF_vars(p \in killed /\ Die(p))
    /\ \A b \in Bots : WF_vars(Leave(b))

FairSpec == Spec /\ Progress

-------------------------------------------------------------------------------
(* Properties                                                                  *)

(* The agent touches neither the disk nor the network before it has a whole    *)
(* command line; -h and -version succeed and leave nothing behind              *)
(* (config.go:42-60, app.go:24-38).                                            *)
StartsWhenComplete ==
    /\ db # "none" => args.flags = "good" /\ ~args.version /\ args.blank = {}
    /\ exit # None /\ args.flags # "bad" /\ (args.flags = "help" \/ args.version) => exit = 0

(* When StopAll has returned within its time, every process it saw is dead     *)
(* unless the kernel refused to kill it: no bot that fails to stop or has just *)
(* ended spares the others (manager.go:342-361).                               *)
StopAllStopsAll ==
    phase \in {"close", "return", "exit"} => \A p \in snap \ spared : life[p] # "alive"

(* A create_bot handled while the agent shuts down may start a bot StopAll has  *)
(* not seen and that outlives the agent (app.go:69-77).  There is at most one   *)
(* for every read pump: a pump looks at its context before it reads on, and     *)
(* after the signal no pump is started (connection/manager.go:391-396).         *)
OneLateStartEach ==
    \A p, q \in late : starter[p] = starter[q] => p = q

(* And nothing else is left: what lives on when the agent has ended was         *)
(* registered after the signal, or resisted; the loser of two starts is reaped. *)
OnlyLateOnesSurvive ==
    exit # None => \A p \in Procs : life[p] = "alive" => p \in late \cup spared

(* No command is run with the database closed, nor after main has returned:    *)
(* Close waits for the pumps before Run's deferred store.Close runs.           *)
StoreOutlivesPumps ==
    \A h \in Pumps : pump[h] # "none" => db = "open" /\ exit = None

-------------------------------------------------------------------------------
(* The inductive strengthening of the safety properties.                       *)

StartUpPhases == {"args", "store", "sdk", "dial", "auth"}
ShutDownPhases == {"stopall", "stopbot", "close"}
EndPhases == {"return", "exit"}

(* How far App.Run has come, and what it holds.                                *)
PhaseInv ==
    /\ phase \in {"args", "store"} => db = "none"
    /\ phase \notin {"args", "store"} \cup EndPhases => db = "open"
    /\ phase \notin {"args"} \cup EndPhases \/ db # "none" => ParseArgs(args) = "config"
    /\ phase \in EndPhases => result \in {"nil", "canceled", "error"}
    /\ phase \in EndPhases /\ ParseArgs(args) \in {"help", "version"} => result = "nil"
    /\ exit = IF phase = "exit" THEN ExitCode(result) ELSE None
    /\ phase \in ShutDownPhases => ctx = "done"
    /\ phase \in StartUpPhases \cup EndPhases => \A h \in Pumps : pump[h] = "none"
    /\ phase \in StartUpPhases => \A p \in Procs : life[p] = "none"

(* The command a pump runs, and the process it has launched or stops.          *)
Owns(h, p) == tgt[h] = p /\ pc[h] \in {"register", "reap"}

JobInv ==
    /\ \A h \in Pumps :
          /\ pump[h] # "handle" => pc[h] = "idle"
          /\ pc[h] # "idle" => bot[h] \in Bots
          /\ pc[h] \in {"register", "reap"} =>
                /\ tgt[h] \in Procs \ used /\ life[tgt[h]] # "none"
                /\ home[tgt[h]] = bot[h] /\ starter[tgt[h]] = h
          /\ pc[h] = "stop" => tgt[h] \in used
    /\ phase = "stopbot" => tgt[Main] \in used

(* A slot holds a process that was started for the bot; one that is alive has  *)
(* its slot, or is in the hands of the pump that launched it.                  *)
SlotInv ==
    /\ \A b \in Bots : slot[b] # None => slot[b] \in used /\ home[slot[b]] = b
    /\ \A p \in used : home[p] \in Bots /\ life[p] # "none"
    /\ \A p \in Procs : life[p] = "alive" =>
          IF p \in used THEN slot[home[p]] = p ELSE \E h \in Pumps : Owns(h, p)

(* A pump that has started a bot after the signal reads no more.               *)
LateInv ==
    /\ late \subseteq used
    /\ late # {} => ctx = "done"
    /\ \A p \in late : starter[p] \in Pumps /\ pump[starter[p]] \in {"loop", "none"}

(* What StopAll answers for and what escapes it.                               *)
StopAllInv ==
    /\ snap # {} => phase \in ShutDownPhases \cup EndPhases
    /\ snap \subseteq used
    /\ \A p \in snap \ spared : life[p] = "alive" =>
          \/ phase \in {"stopall", "stopbot"} /\ home[p] \in todo
          \/ phase = "stopbot" /\ tgt[Main] = p
    /\ phase \in ShutDownPhases \cup EndPhases =>
          \A p \in Procs : life[p] = "alive" =>
              p \in snap \cup spared \cup late \/ \E h \in Pumps : Owns(h, p)

IInv == /\ TypeOK /\ PhaseInv /\ JobInv /\ SlotInv /\ LateInv /\ StopAllInv
        /\ OneLateStartEach

-------------------------------------------------------------------------------
(* A signalled agent ends, whatever its bots and its pumps are doing.          *)
ShutdownEnds == ctx = "done" ~> exit # None
===============================================================================
