------------------------------ MODULE BotSingle -------------------------------
(* The process manager of an agent that has had one connection only: one read  *)
(* pump runs its commands one after another (connection/manager.go:382-420),   *)
(* next to StopAll and to the goroutines of the bots.  What its commands and   *)
(* its bots' output say is in BotSetup and BotOutput.  This module has no      *)
(* state of its own, but the promises that need the single pump, and the       *)
(* invariants behind them.                                                     *)
EXTENDS BotManager, BotSetup, BotOutput

OnePump == \A v, w \in Handlers : v = w

-------------------------------------------------------------------------------
(* A configuration of BotManager stands for the commands of a kind: those the  *)
(* validation lets through, or the others.                                     *)
CommandsOf(c) == {cmd \in CreateBots : Accepts(cmd) <=> c \in ValidConfigs}

OneSource == {c \in Configs : CredentialsOfOneSource(CommandsOf(c))}
Seen == {c \in Configs : RunnerSeesItsCommand(CommandsOf(c))}

StartedWith == {cfg[p] : p \in Procs} \ {None}

(* No bot is ever started with credentials of two sources, with a key that was *)
(* meant for another (manager.go:456-484).                                     *)
BotsHaveOneSource == StartedWith \subseteq OneSource

(* No bot is ever started that would trade otherwise than its command says,    *)
(* whatever environment the agent runs in (manager.go:486-524, runner.py).     *)
BotsSeeTheirCommand == StartedWith \subseteq Seen

(* As long as somebody reads a bot's output, what the strategy logs becomes a  *)
(* log of that level, whole, and a row that can be sent (manager.go:363-422).  *)
BotsAreHeard ==
    (\E p \in Procs : reader[p] = "reading") => LogsArriveWhole /\ RowsAreEncodable

-------------------------------------------------------------------------------
(* The inductive invariants, on top of IInv, behind the properties of          *)
(* BotManager that need a single pump, or a single StopAll.                    *)

Stopping == {"stop.signal", "stop.wait", "stop.join"}

(* A read pump runs commands and nothing else, the main goroutine StopAll.     *)
RolesInv ==
    /\ \A w \in Handlers : pc[w] \notin {"all.next", "all.done"} /\ op[w] # "stopall"
    /\ \A w \in Mains :
          /\ pc[w] \in {"idle", "all.next", "all.done", "stop.lookup"} \cup Stopping
          /\ pc[w] # "idle" => op[w] = "stopall"

(* With one pump a StartBot that has passed its check meets no rival: the slot *)
(* stays free and the strategy file stays what it has written, as long as the  *)
(* process it starts lives.                                                    *)
StartInv ==
    /\ \A w \in Handlers :
          /\ pc[w] # "start.reap"
          /\ pc[w] \in {"start.prepare", "start.spawn", "start.register"} =>
                processes[bot[w]] = None
          /\ pc[w] = "start.spawn" => strategyFile[bot[w]] = conf[w]
    /\ \A p \in Procs :
          /\ os[p] = "alive" => strategyFile[owner[p]] = cfg[p]
          /\ code[p] # None => os[p] = "alive" /\ code[p] = cfg[p]

(* With one pump nobody starts a bot, or reports on it, while StopBot waits    *)
(* for its process, except the monitor of that process.                        *)
StopInv ==
    /\ \A w \in Handlers : pc[w] \in Stopping =>
          /\ tgt[w] \in Procs /\ owner[tgt[w]] = bot[w] /\ monitor[tgt[w]] # "none"
          /\ processes[bot[w]] \in {tgt[w], None}
          /\ monitor[tgt[w]] \in {"finish", "done"} =>
                reported[bot[w]] \in {"stopped", "error"}
    /\ \A p \in Procs :
          monitor[p] \in {"unregister", "report", "finish"} => verdict[p] # "none"

(* StopAll still has to deal with every process it answers for that lives.     *)
Pending(w, p) ==
    \/ pc[w] # "all.done" /\ owner[p] \in todo
    \/ pc[w] = "stop.lookup" /\ bot[w] = owner[p]
    \/ pc[w] \in Stopping /\ tgt[w] = p

StopAllInv ==
    /\ \A p \in snap : monitor[p] # "none"
    /\ \A w \in Mains :
          /\ pc[w] = "idle" => snap = {}
          /\ \A p \in snap : os[p] = "alive" => Pending(w, p)
===============================================================================
