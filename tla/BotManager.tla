------------------------------ MODULE BotManager ------------------------------
(* The process manager of the agent (internal/process/manager.go) with the     *)
(* dispatcher that calls it (internal/command/dispatcher.go).                  *)
(*                                                                             *)
(* Three kinds of goroutine share the registry m.processes: the goroutines     *)
(* that run a platform command (Handlers) or StopAll at shutdown (Mains), and  *)
(* for every started bot process one readStdout and one monitorProcess.  The   *)
(* operating system processes are the environment.  A Proc is one incarnation  *)
(* of a bot: a BotProcess, its exec.Cmd and its Python process.                *)
(*                                                                             *)
(* Data is abstract: a Config stands for a whole CreateBotCommand, strategy    *)
(* code and parameters included; of the stdout lines only the "exit" message   *)
(* is kept.  Only the last status handed to the connection manager for a bot   *)
(* is remembered.                                                              *)
EXTENDS FiniteSets

CONSTANTS
    Bots,          \* bot identifiers
    Configs,       \* contents of create_bot commands
    ValidConfigs,  \* those StartBot's validation lets through
    Procs,         \* incarnations; their number bounds how often a bot starts
    Handlers,      \* goroutines that run commands: the read pumps
    Commands,      \* the commands the platform sends
    RunnerEvents,  \* what a Python process does besides exiting
    Mains,         \* goroutines that run StopAll: {} or the main goroutine
    None           \* nil

ASSUME ConfigAssumption == ValidConfigs \subseteq Configs
ASSUME NoneAssumption == /\ None \notin Bots
                         /\ None \notin Configs
                         /\ None \notin Procs
ASSUME CommandAssumption == Commands \subseteq {"create", "stop", "restart"}
ASSUME RunnerAssumption == RunnerEvents \subseteq {"load", "report"}
ASSUME WorkerAssumption == Handlers \cap Mains = {}
ASSUME MainAssumption == \A v, w \in Mains : v = w

Workers == Handlers \cup Mains

VARIABLES
    (* the Python processes, as the operating system knows them *)
    os,            \* "none", "alive" or "exited"
    killed,        \* those with a pending SIGKILL
    code,          \* the strategy a live one has loaded from its strategy.py
    pipe,          \* unread in its stdout pipe: "empty", or "fail"
    (* BotProcess *)
    owner,         \* BotID
    cfg,           \* the command it was started with
    stopRequested,
    reportedExit,  \* is it other than 0?
    stdoutDone,    \* those whose StdoutDone is closed
    done,          \* those whose Done is closed
    (* the two goroutines of a registered process, and their local variables *)
    reader, rptr,
    monitor, mptr, waitErr, verdict,
    (* Manager, and the files below dataDir *)
    processes, configs, strategyFile,
    (* the last status handed to SendBotStatus *)
    reported,
    (* the goroutines that run commands, and their local variables *)
    pc, op, bot, conf, tgt,
    todo, snap     \* StopAll: bots left, and (ghost) the processes it answers
                   \* for: those it saw, less those the kernel refuses to kill

procVars == <<os, killed, code, pipe>>
bookVars == <<owner, cfg, stopRequested, reportedExit>>
doneVars == <<stdoutDone, done>>
readVars == <<reader, rptr>>
moniVars == <<monitor, mptr, waitErr, verdict>>
regVars  == <<processes, configs, strategyFile>>
jobVars  == <<op, bot, conf, tgt, todo, snap>>
vars == <<procVars, bookVars, doneVars, readVars, moniVars, regVars, reported,
          pc, jobVars>>

-------------------------------------------------------------------------------
Labels == {"idle", "reply",
           "start.check", "start.prepare", "start.spawn", "start.register",
           "start.reap", "start.fail", "start.report",
           "stop.lookup", "stop.signal", "stop.wait", "stop.join",
           "restart.config", "restart.look",
           "all.next", "all.done"}

TypeOK ==
    /\ os \in [Procs -> {"none", "alive", "exited"}]
    /\ killed \subseteq Procs
    /\ code \in [Procs -> Configs \cup {None}]
    /\ pipe \in [Procs -> {"empty", "fail"}]
    /\ owner \in [Procs -> Bots \cup {None}]
    /\ cfg \in [Procs -> Configs \cup {None}]
    /\ stopRequested \in [Procs -> BOOLEAN]
    /\ reportedExit \in [Procs -> BOOLEAN]
    /\ stdoutDone \subseteq Procs
    /\ done \subseteq Procs
    /\ reader \in [Procs -> {"none", "spawned", "reading", "closed", "lost"}]
    /\ rptr \in [Procs -> Procs \cup {None}]
    /\ monitor \in [Procs -> {"none", "spawned", "waiting", "draining",
                              "unregister", "report", "finish", "done", "lost"}]
    /\ mptr \in [Procs -> Procs \cup {None}]
    /\ waitErr \in [Procs -> BOOLEAN]
    /\ verdict \in [Procs -> {"none", "stopped", "error"}]
    /\ processes \in [Bots -> Procs \cup {None}]
    /\ configs \in [Bots -> Configs \cup {None}]
    /\ strategyFile \in [Bots -> Configs \cup {None}]
    /\ reported \in [Bots -> {"none", "running", "stopped", "error"}]
    /\ pc \in [Workers -> Labels]
    /\ op \in [Workers -> {"none", "create", "stop", "restart", "stopall"}]
    /\ bot \in [Workers -> Bots \cup {None}]
    /\ conf \in [Workers -> Configs \cup {None}]
    /\ tgt \in [Workers -> Procs \cup {None}]
    /\ todo \subseteq Bots
    /\ snap \subseteq Procs

Init ==
    /\ os = [p \in Procs |-> "none"]
    /\ killed = {}
    /\ code = [p \in Procs |-> None]
    /\ pipe = [p \in Procs |-> "empty"]
    /\ owner = [p \in Procs |-> None]
    /\ cfg = [p \in Procs |-> None]
    /\ stopRequested = [p \in Procs |-> FALSE]
    /\ reportedExit = [p \in Procs |-> FALSE]
    /\ stdoutDone = {}
    /\ done = {}
    /\ reader = [p \in Procs |-> "none"]
    /\ rptr = [p \in Procs |-> None]
    /\ monitor = [p \in Procs |-> "none"]
    /\ mptr = [p \in Procs |-> None]
    /\ waitErr = [p \in Procs |-> FALSE]
    /\ verdict = [p \in Procs |-> "none"]
    /\ processes = [b \in Bots |-> None]
    /\ configs = [b \in Bots |-> None]
    /\ strategyFile = [b \in Bots |-> None]
    /\ reported = [b \in Bots |-> "none"]
    /\ pc = [w \in Workers |-> "idle"]
    /\ op = [w \in Workers |-> "none"]
    /\ bot = [w \in Workers |-> None]
    /\ conf = [w \in Workers |-> None]
    /\ tgt = [w \in Workers |-> None]
    /\ todo = {}
    /\ snap = {}
-------------------------------------------------------------------------------
(* Commands: internal/command/dispatcher.go, called by a read pump.            *)

At(w, label) == pc[w] = label
Goto(w, label) == pc' = [pc EXCEPT ![w] = label]
sysVars == <<procVars, bookVars, doneVars, readVars, moniVars, regVars>>

HandleCommand(w, o, b, c, label) ==
    /\ w \in Handlers /\ At(w, "idle") /\ o \in Commands
    /\ op' = [op EXCEPT ![w] = o]
    /\ bot' = [bot EXCEPT ![w] = b]
    /\ conf' = [conf EXCEPT ![w] = c]
    /\ Goto(w, label)
    /\ UNCHANGED <<tgt, todo, snap, sysVars, reported>>

HandleCreateBot(w) ==
    \E b \in Bots, c \in Configs : HandleCommand(w, "create", b, c, "start.check")
HandleStopBot(w) ==
    \E b \in Bots : HandleCommand(w, "stop", b, None, "stop.lookup")
HandleRestartBot(w) ==
    \E b \in Bots : HandleCommand(w, "restart", b, None, "restart.config")

Return(w) ==
    /\ Goto(w, "idle")
    /\ op' = [op EXCEPT ![w] = "none"]
    /\ bot' = [bot EXCEPT ![w] = None]
    /\ conf' = [conf EXCEPT ![w] = None]
    /\ tgt' = [tgt EXCEPT ![w] = None]
    /\ UNCHANGED <<todo, snap>>

(* The controller returned an error: the dispatcher reports it as a status.    *)
ReplyError(w) ==
    /\ At(w, "reply")
    /\ reported' = [reported EXCEPT ![bot[w]] = "error"]
    /\ Return(w)
    /\ UNCHANGED sysVars

-------------------------------------------------------------------------------
(* Manager.StartBot                                                            *)

(* Seeded fault: the check under the read lock is left out.                    *)
MayStartUnchecked(b, c) == c \in ValidConfigs
MayStart(b, c) == c \in ValidConfigs /\ processes[b] = None

StartBotCheck(w) ==
    /\ At(w, "start.check")
    /\ Goto(w, IF MayStart(bot[w], conf[w]) THEN "start.prepare" ELSE "reply")
    /\ UNCHANGED <<jobVars, sysVars, reported>>

(* Credentials, bot directory, strategy.py, Python interpreter: an error       *)
(* before the file is written, or after it, or none.                           *)
StartBotPrepareFails(w) ==
    /\ At(w, "start.prepare")
    /\ Goto(w, "start.fail")
    /\ UNCHANGED <<jobVars, sysVars, reported>>

StartBotWrite(w) ==
    /\ At(w, "start.prepare")
    /\ strategyFile' = [strategyFile EXCEPT ![bot[w]] = conf[w]]
    /\ \E label \in {"start.spawn", "start.fail"} : Goto(w, label)
    /\ UNCHANGED <<jobVars, procVars, bookVars, doneVars, readVars, moniVars,
                   processes, configs, reported>>

(* Pipes and cmd.Start.                                                        *)
StartBotSpawnFails(w) ==
    /\ At(w, "start.spawn")
    /\ Goto(w, "start.fail")
    /\ UNCHANGED <<jobVars, sysVars, reported>>

StartBotSpawn(w) ==
    /\ At(w, "start.spawn")
    /\ \E p \in Procs :
          /\ os[p] = "none"
          /\ os' = [os EXCEPT ![p] = "alive"]
          /\ owner' = [owner EXCEPT ![p] = bot[w]]
          /\ cfg' = [cfg EXCEPT ![p] = conf[w]]
          /\ tgt' = [tgt EXCEPT ![w] = p]
    /\ Goto(w, "start.register")
    /\ UNCHANGED <<op, bot, conf, todo, snap, killed, code, pipe, stopRequested,
                   reportedExit, doneVars, readVars, moniVars, regVars, reported>>

(* Seeded fault: no second check under the write lock.                         *)
SlotFreeUnchecked(b) == TRUE
SlotFree(b) == processes[b] = None

(* Seeded fault: the configuration is saved when a bot is first started only.  *)
SaveConfigOnce(b, c) ==
    configs' = [configs EXCEPT ![b] = IF configs[b] = None THEN c ELSE configs[b]]
SaveConfig(b, c) == configs' = [configs EXCEPT ![b] = c]

StartBotRegister(w) ==
    /\ At(w, "start.register") /\ SlotFree(bot[w])
    /\ processes' = [processes EXCEPT ![bot[w]] = tgt[w]]
    /\ SaveConfig(bot[w], conf[w])
    /\ reader' = [reader EXCEPT ![tgt[w]] = "spawned"]
    /\ monitor' = [monitor EXCEPT ![tgt[w]] = "spawned"]
    /\ Goto(w, "start.report")
    /\ UNCHANGED <<jobVars, procVars, bookVars, doneVars, rptr, mptr, waitErr,
                   verdict, strategyFile, reported>>

(* Seeded fault: the Interrupt the strategy has ignored instead of SIGKILL.    *)
InterruptEffect(p) == {}
KillEffect(p) == {p} \cap {q \in Procs : os[q] = "alive"}

(* Another start won: kill the new process, whose error is ignored, and wait   *)
(* for its end.                                                                *)
StartBotLose(w) ==
    /\ At(w, "start.register") /\ ~SlotFree(bot[w])
    /\ killed' \in {killed, killed \cup KillEffect(tgt[w])}
    /\ Goto(w, "start.reap")
    /\ UNCHANGED <<jobVars, os, code, pipe, bookVars, doneVars, readVars, moniVars,
                   regVars, reported>>

(* Seeded fault: the loser is abandoned without waiting for its death.         *)
ReapedAtOnce(p) == TRUE
Reaped(p) == os[p] = "exited"

StartBotReap(w) ==
    /\ At(w, "start.reap") /\ Reaped(tgt[w])
    /\ tgt' = [tgt EXCEPT ![w] = None]
    /\ Goto(w, "start.fail")
    /\ UNCHANGED <<op, bot, conf, todo, snap, sysVars, reported>>

(* The deferred sendBotStatus of a StartBot that fails.                        *)
StartBotDeferredStatus(w) ==
    /\ At(w, "start.fail")
    /\ reported' = [reported EXCEPT ![bot[w]] = "error"]
    /\ Goto(w, "reply")
    /\ UNCHANGED <<jobVars, sysVars>>

StartBotReport(w) ==
    /\ At(w, "start.report")
    /\ reported' = [reported EXCEPT ![bot[w]] = "running"]
    /\ Return(w)
    /\ UNCHANGED sysVars

-------------------------------------------------------------------------------
(* Manager.StopBot, RestartBot and StopAll                                     *)

StopBotLookup(w) ==
    /\ At(w, "stop.lookup") /\ processes[bot[w]] # None
    /\ tgt' = [tgt EXCEPT ![w] = processes[bot[w]]]
    /\ Goto(w, "stop.signal")
    /\ UNCHANGED <<op, bot, conf, todo, snap, sysVars, reported>>

(* StopBot returns: nil to HandleStopBot ends the command, to RestartBot lets  *)
(* it go on to StartBot; StopAll goes on to its next bot whatever it returns.  *)
StopBotReturnsNil(w) ==
    \/ op[w] = "stop" /\ Return(w)
    \/ op[w] = "restart" /\ Goto(w, "start.check") /\ UNCHANGED jobVars
    \/ op[w] = "stopall" /\ Goto(w, "all.next") /\ UNCHANGED jobVars

(* Seeded fault: StopAll returns the first error instead of remembering it.    *)
AfterStopErrorFirst(w) == IF op[w] = "stopall" THEN "all.done" ELSE "reply"
AfterStopError(w) == IF op[w] = "stopall" THEN "all.next" ELSE "reply"

StopBotNotRunning(w) ==
    /\ At(w, "stop.lookup") /\ processes[bot[w]] = None
    /\ Goto(w, AfterStopError(w))
    /\ UNCHANGED <<jobVars, sysVars, reported>>

(* Cancel, stdin.Close and Interrupt, which may or may not end the process.    *)
StopBotSignal(w) ==
    /\ At(w, "stop.signal")
    /\ stopRequested' = [stopRequested EXCEPT ![tgt[w]] = TRUE]
    /\ Goto(w, "stop.wait")
    /\ UNCHANGED <<jobVars, procVars, owner, cfg, reportedExit, doneVars, readVars,
                   moniVars, regVars, reported>>

(* Seeded fault: StopBot waits for the registry entry to go, not for Done.     *)
JoinedByRegistry(p) == processes[owner[p]] # p
Joined(p) == p \in done

StopBotDone(w) ==
    /\ pc[w] \in {"stop.wait", "stop.join"} /\ Joined(tgt[w])
    /\ StopBotReturnsNil(w)
    /\ UNCHANGED <<sysVars, reported>>

(* The 3 s timer.  Killing a process that has exited has no effect, and        *)
(* ErrProcessDone is no error.                                                 *)
StopBotTimeout(w) ==
    /\ At(w, "stop.wait")
    /\ killed' = killed \cup KillEffect(tgt[w])
    /\ Goto(w, "stop.join")
    /\ UNCHANGED <<jobVars, os, code, pipe, bookVars, doneVars, readVars, moniVars,
                   regVars, reported>>

(* Kill fails: StopBot returns the error, the process lives on.                *)
StopBotKillFails(w) ==
    /\ At(w, "stop.wait") /\ os[tgt[w]] = "alive"
    /\ snap' = IF op[w] = "stopall" THEN snap \ {tgt[w]} ELSE snap
    /\ Goto(w, AfterStopError(w))
    /\ UNCHANGED <<op, bot, conf, tgt, todo, sysVars, reported>>

RestartBotConfig(w) ==
    /\ At(w, "restart.config")
    /\ conf' = [conf EXCEPT ![w] = configs[bot[w]]]
    /\ Goto(w, IF configs[bot[w]] = None THEN "reply" ELSE "restart.look")
    /\ UNCHANGED <<op, bot, tgt, todo, snap, sysVars, reported>>

RestartBotLook(w) ==
    /\ At(w, "restart.look")
    /\ Goto(w, IF processes[bot[w]] = None THEN "start.check" ELSE "stop.lookup")
    /\ UNCHANGED <<jobVars, sysVars, reported>>

StopAllSnapshot(w) ==
    /\ w \in Mains /\ At(w, "idle")
    /\ todo' = {b \in Bots : processes[b] # None}
    /\ snap' = {processes[b] : b \in todo'}
    /\ op' = [op EXCEPT ![w] = "stopall"]
    /\ Goto(w, "all.next")
    /\ UNCHANGED <<bot, conf, tgt, sysVars, reported>>

StopAllNext(w) ==
    /\ At(w, "all.next")
    /\ \E b \in todo :
          /\ todo' = todo \ {b}
          /\ bot' = [bot EXCEPT ![w] = b]
    /\ Goto(w, "stop.lookup")
    /\ UNCHANGED <<op, conf, tgt, snap, sysVars, reported>>

StopAllReturns(w) ==
    /\ At(w, "all.next") /\ todo = {}
    /\ Goto(w, "all.done")
    /\ UNCHANGED <<jobVars, sysVars, reported>>

(* The 10 s context of App.Run is done: StopAll gives up.                      *)
StopAllDeadline(w) ==
    /\ At(w, "all.next") /\ todo # {}
    /\ snap' = {}
    /\ Goto(w, "all.done")
    /\ UNCHANGED <<op, bot, conf, tgt, todo, sysVars, reported>>

-------------------------------------------------------------------------------
(* The goroutines of a registered process.  Both look the process up by its    *)
(* bot identifier, once at the start; p is the one they were started for.      *)

ReadStdoutStart(p) ==
    /\ reader[p] = "spawned"
    /\ rptr' = [rptr EXCEPT ![p] = processes[owner[p]]]
    /\ reader' = [reader EXCEPT ![p] =
                     IF processes[owner[p]] = None THEN "lost" ELSE "reading"]
    /\ UNCHANGED <<procVars, bookVars, doneVars, moniVars, regVars, reported, pc,
                   jobVars>>

(* handleStdoutLine looks the process up once more.  A code of 0 is what       *)
(* reportedExit starts with, and a later one would reset it: runner.py prints  *)
(* one exit message, as the last thing it does.                                *)
ReadStdoutExitMessage(p) ==
    LET q == processes[owner[p]] IN
    /\ reader[p] = "reading" /\ pipe[p] = "fail"
    /\ pipe' = [pipe EXCEPT ![p] = "empty"]
    /\ reportedExit' = IF q = None THEN reportedExit
                       ELSE [reportedExit EXCEPT ![q] = TRUE]
    /\ UNCHANGED <<os, killed, code, owner, cfg, stopRequested, doneVars, readVars,
                   moniVars, regVars, reported, pc, jobVars>>

(* Seeded fault: StdoutDone is not closed when the scanner fails.              *)
ClosesAtEOF(p) == IF os[p] = "exited" /\ pipe[p] = "empty" THEN {rptr[p]} ELSE {}
Closes(p) == {rptr[p]}

ReaderReturns(p) ==
    /\ reader[p] = "reading"
    /\ stdoutDone' = stdoutDone \cup Closes(p)
    /\ reader' = [reader EXCEPT ![p] = "closed"]
    /\ rptr' = [rptr EXCEPT ![p] = None]
    /\ UNCHANGED <<procVars, bookVars, done, moniVars, regVars, reported, pc,
                   jobVars>>

(* End of file: the process has exited and everything it printed is read.      *)
ReadStdoutEOF(p) == os[p] = "exited" /\ pipe[p] = "empty" /\ ReaderReturns(p)

(* cmd.Wait has closed the pipe under the reader: the rest is lost.            *)
ReadStdoutClosed(p) == monitor[p] = "draining" /\ ReaderReturns(p)

(* A line longer than stdoutScannerBufferSize ends the scanner.                *)
ReadStdoutTooLong(p) == ReaderReturns(p)

MonitorStart(p) ==
    /\ monitor[p] = "spawned"
    /\ mptr' = [mptr EXCEPT ![p] = processes[owner[p]]]
    /\ monitor' = [monitor EXCEPT ![p] =
                      IF processes[owner[p]] = None THEN "lost" ELSE "waiting"]
    /\ UNCHANGED <<procVars, bookVars, doneVars, readVars, waitErr, verdict, regVars,
                   reported, pc, jobVars>>

MonitorGoto(p, label) == monitor' = [monitor EXCEPT ![p] = label]

(* cmd.Wait: err is an exit status other than 0, or a failure to copy stderr.  *)
MonitorWait(p) ==
    /\ monitor[p] = "waiting" /\ os[p] = "exited"
    /\ \E err \in BOOLEAN : waitErr' = [waitErr EXCEPT ![p] = err]
    /\ MonitorGoto(p, "draining")
    /\ UNCHANGED <<procVars, bookVars, doneVars, readVars, mptr, verdict, regVars,
                   reported, pc, jobVars>>

(* Seeded fault: the verdict does not wait for the reader.                     *)
OutputReadAtOnce(q) == TRUE
OutputRead(q) == q \in stdoutDone

(* Seeded fault: the exit code the runner reported is not looked at.           *)
VerdictOfStatusOnly(err, stop, exitCode) == IF err /\ ~stop THEN "error" ELSE "stopped"
Verdict(err, stop, exitCode) ==
    IF ~stop /\ (err \/ exitCode) THEN "error" ELSE "stopped"

MonitorDrain(p) ==
    /\ monitor[p] = "draining" /\ OutputRead(mptr[p])
    /\ verdict' = [verdict EXCEPT ![p] =
           Verdict(waitErr[p], stopRequested[mptr[p]], reportedExit[mptr[p]])]
    /\ MonitorGoto(p, "unregister")
    /\ UNCHANGED <<procVars, bookVars, doneVars, readVars, mptr, waitErr, regVars,
                   reported, pc, jobVars>>

MonitorUnregister(p) ==
    /\ monitor[p] = "unregister"
    /\ processes' = [processes EXCEPT ![owner[p]] = None]
    /\ MonitorGoto(p, "report")
    /\ UNCHANGED <<procVars, bookVars, doneVars, readVars, mptr, waitErr, verdict,
                   configs, strategyFile, reported, pc, jobVars>>

MonitorReport(p) ==
    /\ monitor[p] = "report"
    /\ reported' = [reported EXCEPT ![owner[p]] = verdict[p]]
    /\ MonitorGoto(p, "finish")
    /\ UNCHANGED <<procVars, bookVars, doneVars, readVars, mptr, waitErr, verdict,
                   regVars, pc, jobVars>>

(* Of the BotProcess and the pipe nothing but Done is read from here on: what  *)
(* they hold is forgotten with the local variables.                            *)
MonitorFinish(p) ==
    /\ monitor[p] = "finish"
    /\ done' = done \cup {mptr[p]}
    /\ MonitorGoto(p, "done")
    /\ mptr' = [mptr EXCEPT ![p] = None]
    /\ waitErr' = [waitErr EXCEPT ![p] = FALSE]
    /\ verdict' = [verdict EXCEPT ![p] = "none"]
    /\ pipe' = [pipe EXCEPT ![p] = "empty"]
    /\ stopRequested' = [stopRequested EXCEPT ![p] = FALSE]
    /\ reportedExit' = [reportedExit EXCEPT ![p] = FALSE]
    /\ UNCHANGED <<os, killed, code, owner, cfg, stdoutDone, readVars, regVars,
                   reported, pc, jobVars>>

-------------------------------------------------------------------------------
(* The Python process (sdk/clawquant/runner.py running any strategy).          *)

RunnerLoad(p) ==
    /\ "load" \in RunnerEvents /\ os[p] = "alive" /\ code[p] = None
    /\ code' = [code EXCEPT ![p] = strategyFile[owner[p]]]
    /\ UNCHANGED <<os, killed, pipe, bookVars, doneVars, readVars, moniVars, regVars,
                   reported, pc, jobVars>>

RunnerExitMessage(p) ==
    /\ "report" \in RunnerEvents /\ os[p] = "alive" /\ pipe[p] = "empty"
    /\ pipe' = [pipe EXCEPT ![p] = "fail"]
    /\ UNCHANGED <<os, killed, code, bookVars, doneVars, readVars, moniVars, regVars,
                   reported, pc, jobVars>>

(* It may exit at any time.                                                    *)
RunnerExit(p) ==
    /\ os[p] = "alive"
    /\ os' = [os EXCEPT ![p] = "exited"]
    /\ killed' = killed \ {p}
    /\ code' = [code EXCEPT ![p] = None]
    /\ UNCHANGED <<pipe, bookVars, doneVars, readVars, moniVars, regVars, reported,
                   pc, jobVars>>

-------------------------------------------------------------------------------
Dispatch(w) == HandleCreateBot(w) \/ HandleStopBot(w) \/ HandleRestartBot(w)

StartBot(w) ==
    \/ StartBotCheck(w) \/ StartBotPrepareFails(w) \/ StartBotWrite(w)
    \/ StartBotSpawnFails(w) \/ StartBotSpawn(w) \/ StartBotRegister(w)
    \/ StartBotLose(w) \/ StartBotReap(w) \/ StartBotDeferredStatus(w)
    \/ StartBotReport(w)

StopBot(w) ==
    \/ StopBotLookup(w) \/ StopBotNotRunning(w) \/ StopBotSignal(w)
    \/ StopBotDone(w) \/ StopBotTimeout(w) \/ StopBotKillFails(w)

RestartBot(w) == RestartBotConfig(w) \/ RestartBotLook(w)

StopAll(w) == StopAllNext(w) \/ StopAllReturns(w) \/ StopAllDeadline(w)

Worker(w) == ReplyError(w) \/ StartBot(w) \/ StopBot(w) \/ RestartBot(w) \/ StopAll(w)

readStdout(p) ==
    \/ ReadStdoutStart(p) \/ ReadStdoutExitMessage(p)
    \/ ReadStdoutEOF(p) \/ ReadStdoutClosed(p) \/ ReadStdoutTooLong(p)

monitorProcess(p) ==
    \/ MonitorStart(p) \/ MonitorWait(p) \/ MonitorDrain(p)
    \/ MonitorUnregister(p) \/ MonitorReport(p) \/ MonitorFinish(p)

Runner(p) == RunnerLoad(p) \/ RunnerExitMessage(p) \/ RunnerExit(p)

Next ==
    \/ \E w \in Workers : Dispatch(w) \/ StopAllSnapshot(w) \/ Worker(w)
    \/ \E p \in Procs : readStdout(p) \/ monitorProcess(p) \/ Runner(p)

Spec == Init /\ [][Next]_vars

(* What the agent's goroutines are sure to do: every goroutine that can take a *)
(* step takes one (timers fire, locks are fair enough), the scanner returns at *)
(* end of file or on a closed pipe, a killed process dies.  A bot may run for  *)
(* ever, and commands need not come.                                           *)
Fairness ==
    /\ \A w \in Workers : WF_vars(Worker(w))
    /\ \A p \in Procs :
          /\ WF_vars(ReadStdoutStart(p) \/ ReadStdoutExitMessage(p))
          /\ WF_vars(ReadStdoutEOF(p) \/ ReadStdoutClosed(p))
          /\ WF_vars(monitorProcess(p))
          /\ WF_vars(p \in killed /\ RunnerExit(p))

FairSpec == Spec /\ Fairness

-------------------------------------------------------------------------------
(* Properties                                                                  *)

Holds(w, p) == tgt[w] = p /\ pc[w] \in {"start.register", "start.reap"}
Registered(p) == owner[p] # None /\ processes[owner[p]] = p

(* readStdout and monitorProcess find their BotProcess by bot identifier, and  *)
(* an exit message is stored into whatever that identifier denotes when the    *)
(* line is read (manager.go:211, 237, 385).  However starts, exits and         *)
(* restarts interleave they get the incarnation they were started for, never   *)
(* nil (StdoutDone or Done would stay open for ever) and never a successor     *)
(* (its Done would be closed, its exit code set).                              *)
OwnIncarnation ==
    \A p \in Procs :
        /\ reader[p] # "lost" /\ rptr[p] \in {p, None}
        /\ monitor[p] # "lost" /\ mptr[p] \in {p, None}
        /\ reader[p] = "reading" => Registered(p)

(* The agent never loses a Python process: one that is alive is registered, so *)
(* that a later stop_bot or StopAll reaches it, or a StartBot still holds it   *)
(* and will register or kill it (manager.go:189-200).                          *)
NoOrphan ==
    \A p \in Procs :
        os[p] = "alive" => Registered(p) \/ \E w \in Workers : Holds(w, p)

(* The saved configuration restart_bot starts from is that of the process the  *)
(* bot runs now, not that of a start that was refused or of an earlier process *)
(* (manager.go:198-199, 303-305).                                              *)
SavedConfigIsRunning ==
    \A b \in Bots : processes[b] # None => configs[b] = cfg[processes[b]]

(* monitorProcess judges a process when all its output has been handled: a bot *)
(* nobody stopped is never called "stopped" when its exit status or an exit    *)
(* message that was read said otherwise, whenever the reader and the monitor   *)
(* run (manager.go:242-254).                                                   *)
FailureIsNotHidden ==
    \A p \in Procs :
        verdict[p] = "stopped" => stopRequested[p] \/ ~(waitErr[p] \/ reportedExit[p])

-------------------------------------------------------------------------------
(* The inductive invariant behind the four properties above.                   *)

Active == {"spawned", "waiting", "draining", "unregister"}
AtHome == {"idle", "all.next", "all.done"}

(* A goroutine in a command knows its bot; the process it is about to register *)
(* or to reap is its own, is not registered and has no goroutines yet.         *)
WorkerInv ==
    /\ \A w \in Workers : pc[w] \notin AtHome => bot[w] \in Bots
    /\ \A w \in Workers : pc[w] \in {"start.register", "start.reap"} => tgt[w] \in Procs
    /\ \A w \in Workers, p \in Procs :
          Holds(w, p) => /\ os[p] # "none"
                         /\ reader[p] = "none" /\ monitor[p] = "none"
                         /\ owner[p] = bot[w] /\ cfg[p] = conf[w]
    /\ \A v, w \in Workers, p \in Procs : Holds(v, p) /\ Holds(w, p) => v = w

(* A process is registered, under its bot, while its monitor is active.        *)
RegistryInv ==
    /\ \A b \in Bots : processes[b] # None =>
          /\ owner[processes[b]] = b
          /\ monitor[processes[b]] \in Active
          /\ cfg[processes[b]] = configs[b]
    /\ \A p \in Procs : monitor[p] \in Active =>
          owner[p] \in Bots /\ processes[owner[p]] = p

(* The reader is gone before the monitor gives its verdict.                    *)
ReaderInv ==
    \A p \in Procs :
        /\ reader[p] \in {"spawned", "reading"} =>
              monitor[p] \in {"spawned", "waiting", "draining"}
        /\ rptr[p] = IF reader[p] = "reading" THEN p ELSE None
        /\ p \in stdoutDone => reader[p] = "closed"
        /\ reader[p] # "lost"
        /\ reader[p] # "none" => monitor[p] # "none"

MonitorInv ==
    \A p \in Procs :
        /\ monitor[p] # "lost"
        /\ mptr[p] = IF monitor[p] \in {"none", "spawned", "done"} THEN None ELSE p
        /\ monitor[p] # "none" => os[p] # "none"
        /\ os[p] = "alive" => \/ monitor[p] \in Active
                              \/ \E w \in Workers : Holds(w, p)
        /\ monitor[p] \in {"draining", "unregister", "report", "finish", "done"} =>
              os[p] = "exited"
        /\ verdict[p] # "none" => monitor[p] \in {"unregister", "report", "finish"}
        /\ p \in done => monitor[p] = "done"

(* The inductive invariant.                                                    *)
IInv == /\ TypeOK /\ WorkerInv /\ RegistryInv /\ ReaderInv /\ MonitorInv
        /\ FailureIsNotHidden

-------------------------------------------------------------------------------
(* With commands handled one after another (one read pump) a bot never has two *)
(* live Python processes, trading twice with one account.                      *)
OneLiveProcess ==
    \A p, q \in Procs :
        os[p] = "alive" /\ os[q] = "alive" /\ owner[p] = owner[q] => p = q

(* With one read pump a process runs the strategy of the command that started  *)
(* it: nobody rewrites strategy.py between StartBot's WriteFile and the moment *)
(* the interpreter opens the file (manager.go:139-142, 171).                   *)
RunsOwnStrategy ==
    \A p \in Procs : code[p] \in {None, cfg[p]}

(* With one read pump, when StopBot returns nil the process is dead, its bot   *)
(* is unregistered and the last status handed over is a final one: Done is     *)
(* closed last (manager.go:260-266).  RestartBot relies on it.                 *)
StopMeansStopped ==
    [][\A w \in Handlers : StopBotDone(w) =>
          /\ os[tgt[w]] = "exited"
          /\ processes[bot[w]] = None
          /\ reported[bot[w]] \in {"stopped", "error"}]_vars

(* When StopAll returns without having hit its deadline, every process it saw  *)
(* registered is dead, unless the kernel refused to kill it: one bot that      *)
(* fails or has just exited does not spare the others (manager.go:345-358).    *)
StopAllStopsAll ==
    (\E w \in Mains : At(w, "all.done")) =>
        \A p \in snap : os[p] # "alive"

(* StopBot returns, whatever the strategy does with the Interrupt, whenever    *)
(* the process exits by itself and whatever ends the reader.                   *)
StopReturns ==
    \A w \in Workers :
        At(w, "stop.signal") ~> ~(pc[w] \in {"stop.signal", "stop.wait", "stop.join"})

(* An exit is noticed: the registry entry of a process that has died goes, and *)
(* its bot can be started again.                                               *)
ExitIsNoticed ==
    \A p \in Procs : (os[p] = "exited" /\ Registered(p)) ~> ~Registered(p)

(* scripts/e2e_test.sh:551 waits for "bot stopped after normal exit": when     *)
(* everything has come to rest the last status of a bot without a process is   *)
(* not "running".                                                              *)
AtRest ==
    /\ \A w \in Workers : At(w, "idle")
    /\ \A p \in Procs : os[p] # "alive" /\ monitor[p] \in {"none", "done"}
SettledStatus == AtRest => \A b \in Bots : reported[b] # "running"

(* process/manager_test.go:117-119 fails if RestartBot of a bot that has a     *)
(* saved configuration returns an error: a restart is never answered with      *)
(* "bot is not running".                                                       *)
RestartFindsTheBot ==
    [][\A w \in Handlers : StopBotNotRunning(w) => op[w] # "restart"]_vars

-------------------------------------------------------------------------------
(* BotSlots says what the registry promises; BotManager implements it.         *)
Slots == INSTANCE BotSlots WITH
            slot <- processes, life <- os, home <- owner,
            used <- {p \in Procs : monitor[p] # "none"}

(* Seen from outside a bot is a slot that one incarnation takes, at most once, *)
(* and leaves when it is dead; a start that finds the slot taken never takes   *)
(* it over, and no exit of an old incarnation empties the slot of a new one    *)
(* (manager.go:189-200, 260-262).                                              *)
ImplementsSlots == Slots!Spec
===============================================================================
