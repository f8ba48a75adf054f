# A TLA+ verification of clawquant-agent

`clawquant-agent` is a Go program that keeps a WebSocket connection to the ClawQuant platform, starts and
stops trading bots (one Python process each) on the platform's command, and ships what the bots log to the
platform through a local SQLite database. This directory holds TLA+ modules of its concurrent core, TLC
configurations that check them on small instances, and theorems checked by TLAPS for every instance.
References of the form `manager.go:206` are to the Go file the section is about, below `src/internal/`.

## 1. Inventory

| part | code | state | operations | what makes it correct |
|---|---|---|---|---|
| process manager | `process/manager.go` | `processes` and `configs` by bot ID, one `BotProcess` per started process, `bots/<id>/strategy.py` | StartBot, StopBot, RestartBot, StopAll, readStdout, monitorProcess | no process is lost or started twice; every goroutine acts on the incarnation it was started for; a stop ends; statuses are true |
| dispatcher | `command/dispatcher.go`, `handler.go` | none after start-up | HandleCreateBot, HandleStopBot, HandleRestartBot | an error is answered with a status |
| connection manager | `connection/manager.go` | `conn`, `connected`, `connCancel`, `connDone`, `ctx`, `closed`, three goroutines per connection and a supervisor | Connect, connectOnce, readPump, writePump, heartbeatLoop, handleDisconnect, superviseReconnects, Close | one connection at a time, losses are noticed and repaired, tear-downs hit the right connection, shutdown ends |
| outgoing queue | `connection/manager.go` | `sendCh` | Send, SendBotStatus, heartbeats, writePump | statuses arrive in order, at most once; what is lost and when; the queue moves |
| log pipeline | `process/manager.go` (emitLog), `connection/manager.go`, `storage/sqlite.go` | `logCh`, `logSyncCh`, table `logs` | SendLog, logPersistLoop, logSyncLoop, SaveLog, GetUnsyncedLogs, MarkLogsSynced | sent in order, at least once, marked only when written, never stuck |
| agent database | `storage/sqlite.go` | tables `logs`, `storage` | one SQL statement per operation, one database connection | atomic statements |
| agent life cycle | `app/app.go`, `cmd/agent/main.go` | what Run has opened | Run, handleParseError, the signal, StopAll, Close, exit code | which bots outlive an ordered shutdown; the store is closed last; it ends |
| configuration | `app/config.go` | none | ParseArgs | nothing is opened before the command line is whole |
| Python runner | `sdk/clawquant/runner.py` | the strategy it has loaded | load, run, exit message, exit | seen as the environment of the process manager |
| strategy SDK | `sdk/clawquant/*.py` | one SQLite table per bot | wrappers for exchange, log, storage | a log arrives as what it was logged as |
| crypto | `crypto/*.go` | none | Decrypt, Sign | pure |
| build and install | `Makefile`, `scripts/` | none | tooling | out of scope |

How they interact. The read pump of a connection calls the dispatcher, which calls the process manager *in the
pump's own goroutine*; a command may take seconds (StopBot waits up to 3 s and then for the process to be
reaped), and if the connection is lost meanwhile the supervisor makes another, whose pump handles commands at
the same time. Every bot has a goroutine that reads its output and one that waits for its process; both call
into the connection manager (statuses, logs). Connection goroutines, the log loops, the supervisor and the main
goroutine all may tear the connection down. The database is the only state that outlives the agent.

What is hard: look-ups by bot ID that may find another incarnation; check-then-act in StartBot and RestartBot;
three goroutines whose results make one verdict; the order of status reports; tear-down of a connection by
whoever notices its death first, or late; reads without a deadline; a wake-up channel with one place; crashes
between a write and its mark. The full list, line by line, is under `hazards` in `PROJECT.json`.

## 2. Modules

| module | what it is |
|---|---|
| `BotManager` | process manager and dispatcher; environment: Python processes, platform commands, main's StopAll |
| `BotSingle` | `BotManager` with one read pump, composed with `BotSetup` and `BotOutput`: the properties and invariants that need a single pump, and those that relate what is started to what commands say |
| `BotSlots` | abstract: a bot is a slot that one incarnation takes, once, and leaves dead |
| `BotSetup` | what StartBot makes of a command: credentials, encryption key, environment, and what the runner reads from it |
| `BotOutput` | what a call of the SDK's logger comes to: the line, handleStdoutLine, emitLog, the stored row |
| `ConnManager` | connection manager with the part of App.Run that starts and closes it; environment: network, platform, signal |
| `Link` | abstract: at most one socket, dialled, then in use, then gone for good |
| `StatusQueue` | SendBotStatus, Send, `sendCh`, write pumps and heartbeats over a `Link`; environment: bots, commands, network |
| `StatusChannel` | abstract: a FIFO of statuses any of which may be lost |
| `LogPipeline` | from a bot's log line to the mark in the table; environment: connection losses, failing statements, crashes |
| `Agent` | main and App.Run from the command line to the exit code, with the read pumps and the slots of the bots |
| `..._proof` | theorems about the module of that name |
| `MC...` | symmetry sets and constants for TLC |

Who implements what: `BotManager` implements `BotSlots`, and `Agent` is built on the actions of `BotSlots`;
`ConnManager` implements `Link`, and `StatusQueue` is built on the actions of `Link`; `StatusQueue` implements
`StatusChannel`. So the modules that compose use what the detailed modules were shown to promise, and no more.

In every module an action is a piece of the code between two points where another goroutine can step in: a
critical section under the mutex, a channel operation, a system call. The program counters (`pc`, `gpc`,
`dial`, `sup`, `main`, `persist`, `sync`, `reader`, `monitor`) are the places where a goroutine waits for its
next piece. Definitions named *seeded fault* are not part of any specification; each changes the definition
below it as a plausible bug would, and shows that a property notices.

### BotManager

`Procs` are incarnations: a `BotProcess`, its `exec.Cmd` and the Python process. Their number bounds how often
bots are started. `processes`, `configs` and `strategyFile` are the registry, the saved commands and the files;
`reported` is the last status handed to `SendBotStatus` for a bot. A *worker* is a goroutine that runs a command
(`Handlers`, the read pumps) or StopAll (`Mains`); its label in `pc` is named after the place in the code:
`start.check` is the look-up under the read lock (117), `start.register` the one under the write lock (190),
`stop.wait` the select (288), `stop.join` the wait after a kill (297).

- Validation and the three look-ups are guards; credentials, directories, files and the interpreter are
  `StartBotPrepareFails` or `StartBotWrite`, since all that matters later is whether `strategy.py` was written.
- The loser of a start race kills (`StartBotLose`; a kill that fails is ignored) and reaps (`StartBotReap`) its own
  process.
- `readStdout` and `monitorProcess` are separate from `StartBot`: each begins with a look-up by bot ID (211,
  237), and the exit message is stored in whatever the ID denotes when the line is read (385).
- Of exit messages only one with a code other than 0 matters: `runner.py` prints one message, at its end.
- The reader ends at end of file, when `cmd.Wait` closed the pipe under it, or on a line longer than 1 MB.
- `StopBotKillFails` is a kill the kernel refuses (293). `snap` is a ghost variable: the processes StopAll must
  answer for.
- `MonitorFinish` also resets fields of the `BotProcess` that nothing reads any more, to keep states few.
- `Mains` are the main goroutine, of which there is one at most (`MainAssumption`): App.Run calls StopAll once.
- `Commands`, `RunnerEvents` say what platform and process may do; a run leaves out what its question does not
  need. The specification is the one the theorems are about with all of them.

### ConnManager

A `Conn` is a socket with the context, the `connDone` channel and the pumps that `connectOnce` makes for it. When
nothing refers to a connection any more (`Unused`) it is used again for a later one, so that two of them stand for
any number of reconnections. `gpc` has the goroutines that can call `handleDisconnect`: read and write pump of
each connection and `logSyncLoop` (through `writeDirect`), and the heartbeat goroutine, which cannot and only
ends. `took` is what `handleDisconnect` copied under `m.mu` (633-642) and then acts on, in three steps, without
it: cancel, close, signal. `main` and `mtook` are the same for `Close`. `dial` and `cand` are `connectOnce`,
whoever runs it. A read can stay in the socket for ever when the connection is broken, or return a frame that was
buffered before; a write fails. `Cancelled`
includes `ctx`, from which the context of a connection is derived.

`Prompt` is an assumption on time that the code makes silently: `handleDisconnect` takes *whatever connection is
current*. A goroutine that saw its own connection fail and then needs longer than the back-off, 3 s or more, to
enter `handleDisconnect` finds the next connection there and tears that one down. With `Prompt = FALSE` the
property `TearsDownItsOwn` fails; nothing worse follows, the supervisor reconnects. The safety run and the
theorems do not assume it, but for `TearsDownItsOwnHolds`, which is about it.

### StatusQueue

A goroutine that reports a status is in `sending` between the check of `Send` (`closed`, `connected`, 187-191) and
the place in the queue (193-199); everything may happen in between, the loss of the connection among it.
`pump` and `hand` are the write pump of each connection and the message it has taken out of `sendCh`; the pump of a
connection that is over may still take one (the `select` at 420 has two ready cases) and then fails with it.
The process manager is reduced to what orders reports: the registry (`processes`), the life of an incarnation from
its start over its exit, `delete` (262) and its last status (264) to `close(Done)`, and StopBot waiting for the
latter. "stopped" and "error" at the end of a process are one status, "ended"; "error" is the dispatcher's reply.

Three ghost variables make the exceptions explicit. `excused` has the bots whose last status was refused (no
connection, full queue), lost on the way, or handed over when it was no longer true (`Overtaken`); `hurried` the
incarnations for which StopBot returned before the report; `swallowed` counts what a pump took for a closed socket.

### Agent

`phase` is the place in `App.Run` and in `main`; `result` and `exit` what they return. A read pump runs its command in
its own goroutine (`pump`, `pc`), and `link` says whose socket is open; a pump whose connection was lost goes on with
its command while the next connection's pump starts. The process manager is an instance of `BotSlots` with the two
look-ups and the kill of StopBot. `StartUp` and `ShutDown` are the steps of `Run`; all of them may fail where the code
has an error path. Ghosts: `snap`, what StopAll saw; `spared`, processes the kernel would not kill or for which StopAll
had no time left; `starter` and `late`, who launched an incarnation and whether it was registered after the signal.

### BotSetup and BotOutput

Pure operators, translated function by function. A function that may fail returns the set of its results, with one
element or none. A text is a word with or without white space around it, so that `TrimSpace` and the places that
forget it can be told apart: the command's encryption key is used as it is, the environment's is trimmed. `Inherited`
are the environments the agent may have; the bot's own variables come after them. `maxExact` stands for 2^53 and
`Float64` rounds beyond it, to even. `BotSingle` puts commands, environments and calls around every process
that `BotManager` starts or reads from.

### LogPipeline

`rows` and `synced` are the table; ids are positions. `emit` follows each log of a bot through `emitLog`:
queued, or refused and then saved directly, or lost. `writeDirect` takes the connection and writes in one step
(`SyncSend`); a loss in between is a loss after the write, which goes to the connection that was taken. `persist` and
`sync` are the two loops; `batch` is the part
of `entries` still to be handled and `syncedIDs` the code's variable of that name. `link` and `connecting` are
what the pipeline sees of the connection manager (`isConnected`, and the signal at the end of `connectOnce`).
`Exit` is the end of the process at any step, by crash or after `Close`; the table survives it. `written`,
`excused` and `direct` are ghost variables that say what became of rows. `Unencodable` rows are found in the table
only: the agent itself stores valid JSON, but `syncUnsyncedLogs` has a branch for other rows (605-610).
`FoundAssumption` says that the rows found at the start are different ones: a row is an `INSERT` of its own.

## 3. Runs

| run | instance | question | result |
|---|---|---|---|
| `bot_single` | 1 pump, 1 bot, 3 incarnations, 2 good and 1 bad command, all contents of commands, environments and logs | commands in sequence: one live process, own strategy, saved configuration, stop means stopped; credentials of one source, the command seen by the runner, logs heard | holds |
| `bot_race` | 2 pumps, 1 bot, 2 incarnations, create and stop | competing starts and stops: own incarnation, no orphan, true verdict, `IInv`, refinement of `BotSlots` | holds |
| `bot_live` | 1 pump that starts and main that stops, 2 bots, 2 incarnations, bounded commands, fair | StopAll leaves none of what it saw, whatever becomes of one of the bots; a stop returns, an exit is noticed | holds |
| `bot_settled` | 1 incarnation | the last status of a dead bot is not "running" | **violated** |
| `bot_restart` | 2 incarnations | a restart never fails because the bot has just exited | **violated** |
| `conn_safe` | 2 connections, all pumps, any delay, back-off 3 to 5 | one socket, losses signalled, `IInv`, refinement of `Link` | holds |
| `conn_live` | 2 connections, read and write pumps, prompt, fair | recovery, noticing, own tear-down, no leaked pump, Close ends | holds |
| `log_safe` | 3 logs, 2 found rows of which 1 not encodable, queue 1, batch 2, failing statements | marks, duplicates, order, one place for each log, `IInv` | holds |
| `log_live` | 2 logs, 1 found row, batch 2, sound statements, fair | no lost wake-up, everything synced in the end | holds |
| `status_true` | 1 connection at a time, queue 1, 1 bot, 2 incarnations, 1 pump, all commands | when all is quiet the platform's view of a bot is true, or excused by name | holds |
| `status_order` | 2 connections, queue 2, heartbeats, error replies, fair pumps | refinement of `StatusChannel`, one message lost per dead pump (`IInv`), the queue moves | holds |
| `agent` | every kind of command line, 1 bot, 2 incarnations, 2 pumps, all commands, fair | what survives the agent, at most one late bot per pump, the store closed last, `IInv`, every signalled agent ends | holds |

The invariants behind a single property (`StartInv`, `StopInv`, `StopAllInv` in `BotSingle`, `PromptInv`, `TruthInv`,
`Places`) can be added to the cfg of the run that checks the property, where TLC finds them to hold; the proofs made
the runs of them superfluous.

Every `IInv` contains the module's `TypeOK` and the properties its proof needs as conjuncts, so these are checked by
the run that checks `IInv` and not listed again.

Bounds. Two pumps are what the code can have at once for long (a third needs a second loss during one command);
two incarnations let a start race with a start or a stop, a third lets a restart follow a restart (with two pumps
a restart is a stop and a start; the theorems have all three commands). Two connections suffice
because an unused one is used again: the current one and one whose goroutines linger. A back-off of 3 with a cap
of 5 doubles once below and once above the cap. Queue 1 and batch 2 make the queue full, a batch whole, partial
and empty with three rows. In `status_true` connections follow one another and incarnations are used again when they
are done, so that lives are of any length; that pumps of two connections compete is the question of `status_order`,
where messages of any origin will do. `bot_live` has two bots, so that StopAll has one to go on to after one it could
not kill or that has just exited. To keep its liveness within reach `MCBotLive` bounds what happens: a command comes
only while an incarnation is left to start (`NoVainCommand`), and no start fails before its process runs
(`NoEarlyFailure`); failing starts are in the other runs of `BotManager`. `BotsInTurn` and `ProcsInTurn` only settle
which of two equal names is used first. When both incarnations are over and StopAll has returned, nothing more happens
in this run. `agent` has one bot; for any number of bots there is the theorem `StopAllLeavesNone`. Two words, padded or not, and one blank
tell apart all texts the functions of `BotSetup` compare. Symmetry is used in runs without liveness properties only.
Deadlock is not checked where the system may rest for ever: a closed agent in `status_...`, an ended one in `agent`,
the end of the bounded commands in `bot_live`.

### What the two violations show

`bot_settled`: `StartBot` starts `monitorProcess` (203) before it hands over "running" (206). A strategy that ends
at once can be reported "stopped" first, and the platform is left with "running" for a bot that is gone.
`scripts/e2e_test.sh:551` expects "bot stopped after normal exit".

`bot_restart`: `RestartBot` looks the bot up (310), and `StopBot` again (270). If the process exits in between,
the restart fails with "is not running" although there is a saved configuration, and nothing is started.

### Fairness and what it rests on

- Goroutines that can go on do go on (weak fairness per goroutine): the Go scheduler, timers, and mutexes that
  are held for a few assignments.
- Nothing is assumed of bots, platform, network, signals and crashes. A killed process dies. A strategy leaves no
  child behind that keeps stderr open; else `cmd.Wait`, and every `StopBot` of that bot, waits for it.
- A `select` with several ready cases does not ignore `ctx.Done()` for ever: Go chooses at random (strong fairness
  of `SupCancelled` and `SyncCancelled`).
- A write on a dead connection is tried and fails: there is a heartbeat, and a write deadline
  (`websocketWriteWait`). A read is *not* assumed to fail unless the agent closed the socket, since reads have no
  deadline.
- A command handler returns; for `StopBot` that is what `bot_live` shows.
- `QueueMoves` needs the write pumps and the goroutines in `Send` only.
- `Agent`: every step of start-up and shutdown ends. Each call has a timeout (the read deadline of the
  authentication, `websocketWriteWait`, `stopTimeout`, the 10 s of the shutdown context) or is local; SIGKILL works;
  a read ends once the agent has closed the socket.
- `Reconnects` assumes in its statement that the platform can be reached again and again (`PlatformUp`);
  `EventuallySynced` that the connection lasts from some moment on.

## 4. Theorems

All but those about pure operators are `Spec => []...` for every value of the constants under the named assumptions of
the module, which say no more than that `None` is none of the values and the sizes make sense.

**BotManager_proof.** `InductiveInvariant` proves `IInv`. `OwnIncarnation` and `NoOrphan` are not inductive: that a
look-up by bot ID yields the right process depends on the registry containing a process exactly while its monitor
is in a state before `delete` (`RegistryInv`), on the reader being gone before the verdict (`ReaderInv`: the
monitor waits for `StdoutDone`), and on the process between Start and registration belonging to one worker
(`WorkerInv`). From it follow `TypeCorrect`, `OwnIncarnationHolds`, `NoOrphanHolds`, `SavedConfigHolds` and
`FailureIsNotHiddenHolds`, and `Refinement`: every step is a step of `BotSlots` or a stutter.

**BotSingle_proof.** With `OnePump` as its hypothesis, `StartInvHolds`: a StartBot that has passed its check meets no
rival, for nobody else runs create_bot (`RolesInv`: the main goroutine only stops); the slot stays free until it
registers, and the strategy file stays what it wrote as long as its process lives, since the next StartBot needs the
slot, which the monitor frees when the process is dead. From it `OneLiveProcessHolds` and `RunsOwnStrategyHolds`.
`StopInvHolds`: while StopBot waits, the bot's slot is its process's or empty, and only the monitor of that process
reports; hence `StopMeansStoppedHolds`, an action property. `StopAllStopsAllHolds` needs no single pump: every process of
the snapshot that lives is one StopAll has still to look up, or waits for (`Pending`), whatever the read pumps do.
`BotsHaveOneSourceHolds`, `BotsSeeTheirCommandHolds` and `BotsAreHeardHolds` combine the theorems of `BotSetup_proof`
and `BotOutput_proof` with the fact that nothing but an accepted configuration is ever started.

**ConnManager_proof.** `OneSocket` needs to know why the candidate of a reconnection cannot meet an open socket of
the old connection: the supervisor dials only after `connDone` is closed, and `connDone` is closed only after the
socket (`Handlers`, `Sockets`), by whoever got the fields while `connected` was true; and the first dial precedes the
supervisor (`Dialler`). `WholeHolds` and `LossIsSignalledHolds` come with it. No bound on time is used.
`LinkRefinement`: with `cand` as the candidate from the dial to its installation or its end, every step is a step of
`Link` or a stutter.

`TearsDownItsOwnHolds` assumes `Prompt` and nothing else. Its invariant, `PromptInv`, says that one goroutine at most is
between taking the fields and signalling, and that nobody dials before it has signalled (`OneHandler`); that the pumps of
a connection that is over find their context cancelled, so that they do not read again (`PumpsLetGo`); that there is no
open socket when the supervisor's timer fires (`AllClosed`); hence a goroutine that could still find its connection
dead when the next is dialled would be late, and `Prompt` says there is none (`Timely`).

**LogPipeline_proof.** `IInv` relates the table, its marks, the batch in hand and what was written. `MarkedWasWrittenHolds`
(no mark without a write), `ResendIsExcusedHolds` (a second write only after a crash or a failing statement),
`InOrderHolds` and `NoLostWakeupHolds` follow from it. `KeptOnceHolds` rests on `Places`: the rows, the queue and what
logPersistLoop holds are pairwise disjoint and free of repetitions, and contain what `emitLog` accepted and nothing else;
no counting is needed until the last step.

**StatusQueue_proof.** `ChannelRefinement`: what is in flight is the message in the hand of the pump whose
connection is held, followed by `sendCh` (`LiveHand`). A write delivers its first element, a broken or cut
connection loses it, and a pump of a former connection that takes a message loses the first of the queue, which is
the first or the second in flight (`LoseFirst`, `LoseSecond`). That these are all cases rests on `LinkInv` (one
connection is held, and a candidate's pump does not run) and `PumpInv` (a pump has a message in hand just while it
writes). `OneIsSwallowed` follows from `PumpInv`.

`StatusIsTrueHolds`: `StatusIsTrue` says something of quiet states only, so its invariant, `TruthInv`, has to say what
holds on the way there. `WillBe(b, s)`: s is what the platform will believe of b once all that is under way has arrived,
the last status queued, else the one a pump can still deliver, else the one it has. For every bot without an excuse this
is true of the bot, or somebody owes a report on it (`Owed`): a goroutine in `Send`, a StartBot that has registered, or a
monitor that has unregistered. A step of a pump or a connection changes what will be believed only by losing the last
status, which is the excuse; a step that changes what is true leaves a debt; and a report that is queued pays it, unless
it has been overtaken. That StopBot waits for the report (`hurried = {}`) is what lets the next start not overtake it.

**Agent_proof.** `IInv` says how far Run has come and what it holds (`PhaseInv`), what a pump with a process in hand
owns (`JobInv`), that an alive process has its slot or an owner (`SlotInv`), that a pump which has registered a bot
after the signal reads no more (`LateInv`), and where the processes StopAll answers for are (`StopAllInv`). From it
`StopAllLeavesNone`, for any number of bots; `OneLateStart`, `SurvivorsAreLate`: what outlives the agent was registered
after the signal, at most one for each read pump, or was spared; `PumpsEndFirst`; `StartsOnlyWhenComplete`.

**BotSetup_proof, BotOutput_proof.** `OneSourceOnly` and `RunnerSeesItsOwn` for all commands and environments,
`LogsArrive` and `RowsCanBeEncoded` for all messages and any `maxExact`.

Every safety property of the passing runs is proved. Model-checked only: all liveness (`StopReturns`, `ExitIsNoticed`,
`Reconnects`, `DeathIsNoticed`, `NoLeakedPump`, `CloseEnds`, `EventuallySynced`, `QueueMoves`, `ShutdownEnds`), for the
prover does neither fairness nor `ENABLED`; and that nobody is ever stuck, which is TLC's check for deadlock. The two
violated properties are counterexamples of TLC's. Assumed throughout are the named assumptions on the constants, which TLC
evaluates in every run: `None` is none of the values, sizes are positive, a goroutine has one role.

## 5. Not true of this code, or true with a condition

- With two pumps two live processes of one bot can exist for a moment, until the loser is killed (196), and a
  losing `StartBot` can overwrite `strategy.py` before the winner's interpreter reads it. `OneLiveProcess` and
  `RunsOwnStrategy` are therefore checked and proved for one pump (`OnePump`), and `NoOrphan` and `BotSlots` say what remains with two.
- A log saved by `emitLog` itself is not signalled (418); it waits for the next signal. `NoLostWakeup` and
  `EventuallySynced` are about the rows of `logPersistLoop`.
- A failing SELECT or UPDATE ends the sync until the next signal; nothing retries. `NoLostWakeup` is stated for
  `StorageFails = FALSE`.
- Logs still queued when the process ends are lost, also in an ordered shutdown.
- A mark means written to a socket, not received.

- A create_bot handled between StopAll's snapshot and Close starts a bot that nobody stops: it outlives the agent.
  `OneLateStartEach` bounds these bots, it does not exclude them. The goroutines that read their output may still log
  when the store is closed; those logs are refused.
- The platform's view of a bot may be wrong for as long as nothing happens to the bot: when its last status was refused
  (no connection, full queue), lost with a connection, or overtaken by the report of the next incarnation. Nobody
  repeats a status. `StatusIsTrue` says that there is no other reason.
- A create_bot for a bot that runs is answered with the status "error" of that bot.
- Integers beyond 2^53 in the data of a log are rounded; a profit that is no JSON number and data with a NaN arrive as
  an info log of the raw line.
- `params` that are JSON but not an object pass StartBot, and the runner refuses them after "running" was reported.
- Decrypted credentials may be blank; only plain and encrypted fields are checked for it.

## 6. Not modelled

- `handleStdoutLine`'s `last_status` entry (382) and the `storage` table: one statement writes it, nothing reads it.
  `DeleteBotLogs` and `DeleteBotStorage` have no callers.
- `detectPythonCommand`: which interpreter is found. StartBot fails before the start, or goes on.
- `hmac.go`: the signature of the authentication, which only the platform looks at; the ciphers behind `Decrypt`.
- `exchange.py`, `storage.py`, `utils.py`: wrappers around outside services, one table for one thread, pure
  indicators over floats.
- Build information, packaging, installation, the end-to-end test: outside the running program.

See `components` in `PROJECT.json`.

## 7. Plan

Done: all parts in which goroutines or processes meet, with every safety property of their runs and the refinements
between them proved; the pure functions around a bot's start and output. What would add most next:

1. An abstract `Outbox` (a sequence of rows, delivered in order, at least once) implemented by `LogPipeline`, stated as a
   refinement, checked and proved.
2. `LogPipeline`'s `link` derived from `Link` as it is in `StatusQueue`.
3. `StatusQueue`'s reduced process manager shown to be what `BotManager` does, through `BotSlots`.
4. The safety halves of the liveness properties: that a StopBot, a pump or a Close that waits always has somebody whose
   next step lets it go on.
