----------------------------- MODULE ConnManager -----------------------------
(* The life of the agent's connection to the platform                          *)
(* (internal/connection/manager.go), from App.Run's Connect to its Close       *)
(* (internal/app/app.go).                                                      *)
(*                                                                             *)
(* A Conn is one WebSocket connection together with what connectOnce makes for *)
(* it: its context, its connDone channel and its three pump goroutines.        *)
(* Besides the pumps there are superviseReconnects, logSyncLoop (which writes  *)
(* to whatever connection it finds, see writeDirect) and the main goroutine.   *)
(* What the messages say is left out: a message is read or written, or the     *)
(* read or write fails.                                                        *)
EXTENDS Naturals, FiniteSets

CONSTANTS
    Conns,    \* connections; one that nothing refers to any more is used again
    Loops,    \* the pumps of a connection that are modelled: all of "read",
              \* "write" and "beat", or without "beat", which only ends
    Prompt,   \* TRUE: no goroutine that has seen its connection die needs as
              \* long as the back-off (at least 3 s) to enter handleDisconnect
    defaultBackoff, maxBackoff,   \* 3 s and 60 s
    None      \* nil

ASSUME ConnsAssumption == None \notin Conns
ASSUME LoopsAssumption == Loops \in {{"read", "write"}, {"read", "write", "beat"}}
ASSUME PromptAssumption == Prompt \in BOOLEAN
ASSUME BackoffAssumption ==
    defaultBackoff \in Nat /\ maxBackoff \in Nat /\ defaultBackoff <= maxBackoff

VARIABLES
    (* Manager, written under m.mu *)
    conn, connected, connCancel, connDone, closed,
    ctx,        \* m.ctx: "none", "live" or "done"
    (* connections *)
    sock,       \* "none", "open", "broken" by the network or the platform, or
                \* "closed" by the agent
    cancelled,  \* those whose connCancel has been called
    done,       \* those whose connDone is closed
    (* goroutines that may call handleDisconnect *)
    gpc,        \* where each of them is ("none": not running)
    own,        \* the connection each of them uses
    took,       \* what handleDisconnect took out of the Manager under m.mu
    (* connectOnce, called by the main goroutine or by the supervisor *)
    dial, cand,
    (* superviseReconnects *)
    sup, sdone, backoff,
    (* the main goroutine *)
    main, mtook

mgrVars  == <<conn, connected, connCancel, connDone, closed>>
connVars == <<sock, cancelled, done>>
goVars   == <<gpc, own, took>>
dialVars == <<dial, cand>>
supVars  == <<sup, sdone, backoff>>
mainVars == <<main, mtook>>
vars == <<mgrVars, ctx, connVars, goVars, dialVars, supVars, mainVars>>

-------------------------------------------------------------------------------
Pumps == Loops \X Conns
Syncer == <<"sync", None>>
Goroutines == Pumps \cup {Syncer}

Nothing == [cancel |-> None, conn |-> None, done |-> None]

TypeOK ==
    /\ conn \in Conns \cup {None}
    /\ connected \in BOOLEAN
    /\ connCancel \in Conns \cup {None}
    /\ connDone \in Conns \cup {None}
    /\ closed \in BOOLEAN
    /\ ctx \in {"none", "live", "done"}
    /\ sock \in [Conns -> {"none", "open", "broken", "closed"}]
    /\ cancelled \subseteq Conns
    /\ done \subseteq Conns
    /\ gpc \in [Goroutines -> {"none", "run", "read", "handle", "write", "failed",
                               "cancel", "close", "signal"}]
    /\ own \in [Goroutines -> Conns \cup {None}]
    /\ took \in [Goroutines -> [cancel : Conns \cup {None}, conn : Conns \cup {None},
                                done : Conns \cup {None}]]
    /\ dial \in {"idle", "dial", "auth", "install", "pumps", "ok", "failed"}
    /\ cand \in Conns \cup {None}
    /\ sup \in {"none", "loop", "await", "backoff", "connect", "gone"}
    /\ sdone \in Conns \cup {None}
    /\ backoff \in defaultBackoff..maxBackoff
    /\ main \in {"start", "connect", "serve", "cancel", "close", "signal", "wait",
                 "end", "failed"}
    /\ mtook \in [conn : Conns \cup {None}, done : Conns \cup {None}]

Init ==
    /\ conn = None /\ connected = FALSE /\ connCancel = None /\ connDone = None
    /\ closed = FALSE /\ ctx = "none"
    /\ sock = [c \in Conns |-> "none"]
    /\ cancelled = {} /\ done = {}
    /\ gpc = [g \in Goroutines |-> "none"]
    /\ own = [g \in Goroutines |-> IF g = Syncer THEN None ELSE g[2]]
    /\ took = [g \in Goroutines |-> Nothing]
    /\ dial = "idle" /\ cand = None
    /\ sup = "none" /\ sdone = None /\ backoff = defaultBackoff
    /\ main = "start" /\ mtook = [conn |-> None, done |-> None]

-------------------------------------------------------------------------------
(* connCtx is derived from m.ctx.                                              *)
Cancelled(c) == c \in cancelled \/ ctx = "done"
Dead(c) == sock[c] \in {"broken", "closed"}
Held(c) == sock[c] \in {"open", "broken"}
GoTo(g, label) == gpc' = [gpc EXCEPT ![g] = label]

(* Nothing refers to c any more (or yet).                                      *)
Unused(c) ==
    /\ ~Held(c)
    /\ c \notin {conn, connCancel, connDone, cand, sdone, mtook.conn, mtook.done}
    /\ \A g \in Goroutines :
          own[g] = c \/ c \in {took[g].cancel, took[g].conn, took[g].done} =>
              gpc[g] = "none"

(* connectOnce                                                                 *)

DialFails ==
    /\ dial = "dial"
    /\ dial' = "failed"
    /\ UNCHANGED <<mgrVars, ctx, connVars, goVars, cand, supVars, mainVars>>

(* DialContext gives up when the context is done.                              *)
Dial(c) ==
    /\ dial = "dial" /\ ctx = "live" /\ Unused(c)
    /\ dial' = "auth" /\ cand' = c
    /\ sock' = [sock EXCEPT ![c] = "open"]
    /\ cancelled' = cancelled \ {c} /\ done' = done \ {c}
    /\ UNCHANGED <<mgrVars, ctx, goVars, supVars, mainVars>>

(* authenticate fails: refused, timed out or broken.                           *)
AuthFails ==
    /\ dial = "auth"
    /\ dial' = "failed" /\ cand' = None
    /\ sock' = [sock EXCEPT ![cand] = "closed"]
    /\ UNCHANGED <<mgrVars, ctx, cancelled, done, goVars, supVars,
                   mainVars>>

Auth ==
    /\ dial = "auth" /\ ~Dead(cand)
    /\ dial' = "install"
    /\ UNCHANGED <<mgrVars, ctx, connVars, goVars, cand, supVars, mainVars>>

Install ==
    /\ dial = "install"
    /\ conn' = cand /\ connected' = TRUE /\ connCancel' = cand
    /\ connDone' = cand
    /\ dial' = "pumps"
    /\ UNCHANGED <<closed, ctx, connVars, goVars, cand, supVars, mainVars>>

StartPumps ==
    /\ dial = "pumps"
    /\ gpc' = [g \in Goroutines |-> IF g # Syncer /\ own[g] = cand THEN "run" ELSE gpc[g]]
    /\ dial' = "ok" /\ cand' = None
    /\ UNCHANGED <<mgrVars, ctx, connVars, own, took, supVars, mainVars>>

-------------------------------------------------------------------------------
(* handleDisconnect, called by g when a read or a write of its has failed.     *)

(* Where g goes on when handleDisconnect returns.                              *)
Resume(g) == IF g = Syncer THEN "run" ELSE "none"

DisconnectTake(g) ==
    /\ gpc[g] = "failed"
    /\ took' = [took EXCEPT ![g] =
                   IF connected THEN [cancel |-> connCancel, conn |-> conn, done |-> connDone]
                   ELSE Nothing]
    /\ connected' = FALSE /\ conn' = None /\ connCancel' = None
    /\ GoTo(g, IF connected THEN "cancel" ELSE Resume(g))
    /\ own' = IF g = Syncer THEN [own EXCEPT ![g] = None] ELSE own
    /\ UNCHANGED <<connDone, closed, ctx, connVars, dialVars, supVars, mainVars>>

DisconnectCancel(g) ==
    /\ gpc[g] = "cancel"
    /\ cancelled' = cancelled \cup ({took[g].cancel} \ {None})
    /\ GoTo(g, "close")
    /\ UNCHANGED <<mgrVars, ctx, sock, done, own, took, dialVars,
                   supVars, mainVars>>

(* Seeded fault: the connection is dropped without being closed.               *)
LeaveSocket(c) == sock
CloseSocket(c) == [d \in Conns |-> IF d = c THEN "closed" ELSE sock[d]]

DisconnectClose(g) ==
    /\ gpc[g] = "close"
    /\ sock' = CloseSocket(took[g].conn)
    /\ GoTo(g, "signal")
    /\ UNCHANGED <<mgrVars, ctx, cancelled, done, own, took, dialVars,
                   supVars, mainVars>>

(* close(done), once.  Seeded fault: with one sync.Once for all connections.    *)
SharedOnce(c) == IF done = {} THEN {c} \ {None} ELSE done
SignalOnce(c) == done \cup ({c} \ {None})

DisconnectSignal(g) ==
    /\ gpc[g] = "signal"
    /\ done' = SignalOnce(took[g].done)
    /\ took' = [took EXCEPT ![g] = Nothing]
    /\ GoTo(g, Resume(g))
    /\ UNCHANGED <<mgrVars, ctx, sock, cancelled, own, dialVars, supVars,
                   mainVars>>

handleDisconnect(g) ==
    \/ DisconnectTake(g) \/ DisconnectCancel(g) \/ DisconnectClose(g)
    \/ DisconnectSignal(g)

-------------------------------------------------------------------------------
(* The pumps                                                                   *)

GoStep(g, from, to) ==
    /\ gpc[g] = from
    /\ GoTo(g, to)
    /\ UNCHANGED <<mgrVars, ctx, connVars, own, took, dialVars, supVars, mainVars>>

(* A read or a write has failed.  Seeded fault: the error is not acted on.      *)
GivesUp(g, from) == GoStep(g, from, "none")
Fails(g, from) == GoStep(g, from, "failed")

(* Seeded fault: readPump does not look at its context before it reads.        *)
ReadsAnyway(c) == "read"
ReadsUnlessCancelled(c) == IF Cancelled(c) THEN "none" ELSE "read"

ReadPumpLoop(c) == GoStep(<<"read", c>>, "run", ReadsUnlessCancelled(c))
(* A frame that is buffered is read whatever has become of the socket.         *)
ReadPumpMessage(c) == GoStep(<<"read", c>>, "read", "handle")
ReadPumpDispatched(c) == GoStep(<<"read", c>>, "handle", "run")
ReadPumpFails(c) == Dead(c) /\ Fails(<<"read", c>>, "read")

(* A message taken out of sendCh is written, or the write fails; the select    *)
(* may prefer a message to a context that is done.                             *)
WritePumpFails(c) == Dead(c) /\ Fails(<<"write", c>>, "run")
WritePumpCancelled(c) == Cancelled(c) /\ GoStep(<<"write", c>>, "run", "none")

HeartbeatCancelled(c) ==
    "beat" \in Loops /\ Cancelled(c) /\ GoStep(<<"beat", c>>, "run", "none")

(* logSyncLoop: writeDirect takes the connection under m.mu and writes to it   *)
(* later.                                                                      *)
SyncTakeConn ==
    /\ gpc[Syncer] = "run" /\ connected /\ conn # None
    /\ own' = [own EXCEPT ![Syncer] = conn]
    /\ GoTo(Syncer, "write")
    /\ UNCHANGED <<mgrVars, ctx, connVars, took, dialVars, supVars, mainVars>>

SyncWritten ==
    /\ gpc[Syncer] = "write" /\ ~Dead(own[Syncer])
    /\ own' = [own EXCEPT ![Syncer] = None]
    /\ GoTo(Syncer, "run")
    /\ UNCHANGED <<mgrVars, ctx, connVars, took, dialVars, supVars, mainVars>>

SyncFails ==
    /\ Fails(Syncer, "write")
    /\ Dead(own[Syncer])

SyncCancelled == ctx = "done" /\ GoStep(Syncer, "run", "none")
-------------------------------------------------------------------------------
(* superviseReconnects                                                         *)

SupStep(from, to) ==
    /\ sup = from /\ sup' = to
    /\ UNCHANGED <<mgrVars, ctx, connVars, goVars, mainVars>>

SupLoop ==
    /\ SupStep("loop", "await")
    /\ sdone' = connDone
    /\ UNCHANGED <<backoff, dialVars>>

(* The select, and the check of the context after it.                          *)
SupLost ==
    /\ sdone \in done
    /\ SupStep("await", IF ctx = "done" THEN "gone" ELSE "backoff")
    /\ sdone' = None
    /\ UNCHANGED <<backoff, dialVars>>

SupCancelled ==
    /\ ctx = "done" /\ sup \in {"await", "backoff"}
    /\ SupStep(sup, "gone")
    /\ sdone' = None
    /\ UNCHANGED <<backoff, dialVars>>

(* Goroutines about to call handleDisconnect for a connection of the past.     *)
Lagging(g) ==
    \/ gpc[g] = "failed"
    \/ gpc[g] \in {"read", "write"} /\ sock[own[g]] = "closed"
    \/ g[1] = "write" /\ gpc[g] = "run" /\ sock[own[g]] = "closed"

SupTimer ==
    /\ Prompt => \A g \in Goroutines : ~Lagging(g)
    /\ SupStep("backoff", "connect")
    /\ dial' = "dial"
    /\ UNCHANGED <<sdone, backoff, cand>>

(* Seeded fault: the back-off is not capped.                                   *)
Uncapped(b) == 2 * b
NextBackoff(b) == IF 2 * b > maxBackoff THEN maxBackoff ELSE 2 * b

SupFailed ==
    /\ dial = "failed"
    /\ SupStep("connect", "backoff")
    /\ backoff' = NextBackoff(backoff)
    /\ dial' = "idle"
    /\ UNCHANGED <<sdone, cand>>

SupReconnected ==
    /\ dial = "ok"
    /\ SupStep("connect", "loop")
    /\ backoff' = defaultBackoff
    /\ dial' = "idle"
    /\ UNCHANGED <<sdone, cand>>

superviseReconnects ==
    \/ SupLoop \/ SupLost \/ SupCancelled \/ SupTimer \/ SupFailed \/ SupReconnected

-------------------------------------------------------------------------------
(* App.Run: Connect, wait for the signal, Close                                *)

Connect ==
    /\ main = "start"
    /\ main' = "connect" /\ ctx' = "live" /\ dial' = "dial"
    /\ UNCHANGED <<mgrVars, connVars, goVars, cand, supVars, mtook>>

ConnectFails ==
    /\ main = "connect" /\ dial = "failed"
    /\ main' = "failed" /\ ctx' = "done" /\ dial' = "idle"
    /\ UNCHANGED <<mgrVars, connVars, goVars, cand, supVars, mtook>>

StartWorkers ==
    /\ main = "connect" /\ dial = "ok"
    /\ main' = "serve" /\ dial' = "idle" /\ sup' = "loop"
    /\ GoTo(Syncer, "run")
    /\ UNCHANGED <<mgrVars, ctx, connVars, own, took, cand, sdone, backoff, mtook>>

(* SIGTERM or SIGINT cancels the context m.ctx is derived from.                *)
Signal ==
    /\ ctx = "live"
    /\ ctx' = "done"
    /\ UNCHANGED <<mgrVars, connVars, goVars, dialVars, supVars, mainVars>>

(* After ctx.Done and StopAll.                                                 *)
Close ==
    /\ main = "serve" /\ ctx = "done"
    /\ closed' = TRUE
    /\ mtook' = [conn |-> conn, done |-> connDone]
    /\ main' = "cancel"
    /\ UNCHANGED <<conn, connected, connCancel, connDone, ctx, connVars, goVars,
                   dialVars, supVars>>

CloseCancel ==
    /\ main = "cancel"
    /\ ctx' = "done" /\ main' = "close"
    /\ UNCHANGED <<mgrVars, connVars, goVars, dialVars, supVars, mtook>>

CloseConn ==
    /\ main = "close"
    /\ sock' = CloseSocket(mtook.conn)
    /\ main' = "signal"
    /\ UNCHANGED <<mgrVars, ctx, cancelled, done, goVars, dialVars,
                   supVars, mtook>>

CloseSignal ==
    /\ main = "signal"
    /\ done' = SignalOnce(mtook.done)
    /\ main' = "wait"
    /\ UNCHANGED <<mgrVars, ctx, sock, cancelled, goVars, dialVars, supVars,
                   mtook>>

(* m.wg.Wait                                                                   *)
CloseReturns ==
    /\ main = "wait" /\ sup = "gone" /\ \A g \in Goroutines : gpc[g] = "none"
    /\ main' = "end"
    /\ UNCHANGED <<mgrVars, ctx, connVars, goVars, dialVars, supVars, mtook>>

Break(c) ==
    /\ sock[c] = "open"
    /\ sock' = [sock EXCEPT ![c] = "broken"]
    /\ UNCHANGED <<mgrVars, ctx, cancelled, done, goVars, dialVars,
                   supVars, mainVars>>

-------------------------------------------------------------------------------
connectOnce ==
    \/ DialFails \/ (\E c \in Conns : Dial(c)) \/ AuthFails \/ Auth \/ Install
    \/ StartPumps

readPump(c) ==
    \/ ReadPumpLoop(c) \/ ReadPumpMessage(c) \/ ReadPumpDispatched(c)
    \/ ReadPumpFails(c) \/ handleDisconnect(<<"read", c>>)

writePump(c) ==
    WritePumpFails(c) \/ WritePumpCancelled(c) \/ handleDisconnect(<<"write", c>>)

logSyncLoop ==
    \/ SyncTakeConn \/ SyncWritten \/ SyncFails \/ SyncCancelled
    \/ handleDisconnect(Syncer)

Run == \/ Connect \/ ConnectFails \/ StartWorkers \/ Close \/ CloseCancel
       \/ CloseConn \/ CloseSignal \/ CloseReturns

Stopped == main \in {"end", "failed"} /\ UNCHANGED vars

Next ==
    \/ connectOnce \/ superviseReconnects \/ Run \/ Signal \/ logSyncLoop
    \/ \E c \in Conns : readPump(c) \/ writePump(c) \/ HeartbeatCancelled(c) \/ Break(c)
    \/ Stopped

Spec == Init /\ [][Next]_vars

(* The agent's goroutines go on.  A write to a dead connection fails (there are *)
(* heartbeats and a write deadline); a read, which has no deadline, need not,   *)
(* unless the agent closed the connection; a handler returns                    *)
(* (BotManager!StopReturns).                                                    *)
(* Messages, signals and broken connections need not come.  A select that finds *)
(* the context done every time takes that case in the end (Go chooses at        *)
(* random), and the logs to be synced are finitely many once it is done.        *)
Progress ==
    /\ WF_vars(connectOnce) /\ WF_vars(superviseReconnects) /\ WF_vars(Run)
    /\ WF_vars(logSyncLoop)
    /\ SF_vars(SupCancelled) /\ SF_vars(SyncCancelled)
    /\ \A c \in Conns :
          /\ WF_vars(\/ ReadPumpLoop(c) \/ ReadPumpDispatched(c)
                     \/ sock[c] = "closed" /\ ReadPumpFails(c)
                     \/ handleDisconnect(<<"read", c>>))
          /\ WF_vars(writePump(c)) /\ WF_vars(HeartbeatCancelled(c))

FairSpec == Spec /\ Progress

-------------------------------------------------------------------------------
(* Properties                                                                  *)

(* The agent never has two sockets open to the platform, which would dispatch  *)
(* its commands twice: a connection is closed before connDone tells the        *)
(* supervisor to make another (manager.go:652-664).                            *)
OneSocket == \A c, d \in Conns : Held(c) /\ Held(d) => c = d

(* "connected" means that there is a connection, a cancel function and a       *)
(* channel, all of the same connectOnce; a loser of the race for m.mu in       *)
(* handleDisconnect never leaves half of them.                                 *)
Whole ==
    /\ connected => conn # None /\ conn = connDone
    /\ conn # None => connected
    /\ connCancel = conn

(* The loss of a connection is not lost: whenever the agent has no connection, *)
(* the channel the supervisor watches is closed or a goroutine in              *)
(* handleDisconnect is about to close it (manager.go:466-477, 636-664).        *)
LossIsSignalled ==
    ~connected /\ connDone # None =>
        \/ connDone \in done
        \/ \E g \in Goroutines :
              gpc[g] \in {"cancel", "close", "signal"} /\ took[g].done = connDone

(* The inductive strengthening of the safety properties.                       *)

(* Whose turn it is to dial; the workers start when Connect has succeeded.     *)
Dialler ==
    /\ main \in {"start", "connect"} => sup = "none" /\ gpc[Syncer] = "none"
    /\ main = "start" => ctx = "none" /\ dial = "idle" /\ connDone = None
    /\ ctx = "none" => main = "start"
    /\ main = "connect" /\ dial \notin {"pumps", "ok"} => connDone = None
    /\ dial # "idle" => sup = "connect" \/ main = "connect"
    /\ main \in {"cancel", "close", "signal", "wait", "end", "failed"} => ctx = "done"
    /\ sup = "await" => sdone = connDone

(* A candidate is new and its pumps do not run yet.                            *)
Candidate ==
    /\ dial \in {"auth", "install"} => cand \in Conns \ {connDone}
    /\ dial \in {"auth", "install", "pumps"} =>
          /\ cand # None
          /\ \A g \in Pumps : g[2] = cand => gpc[g] = "none"

(* A pump uses one connection only; whoever is in handleDisconnect holds a     *)
(* connection and its channel, and the channel is closed after the connection. *)
Handlers ==
    /\ \A g \in Pumps : own[g] = g[2]
    /\ \A g \in Goroutines :
          /\ gpc[g] \in {"cancel", "close", "signal"} =>
                took[g].conn = took[g].done /\ took[g].conn \in Conns
          /\ gpc[g] = "signal" => ~Held(took[g].conn)

(* The sockets the agent has open are those of the current connection and of   *)
(* the candidate, and never both.                                              *)
Sockets ==
    /\ \A c \in Conns : Held(c) =>
          c = connDone \/ (c = cand /\ dial \in {"auth", "install"})
    /\ connDone \in Conns /\ Held(connDone) =>
          /\ dial \notin {"auth", "install"}
          /\ ctx = "live" => dial \notin {"dial", "failed"} /\ sup # "backoff"
    /\ ctx = "live" => \A c \in done : ~Held(c)

Core == TypeOK /\ Whole /\ Dialler /\ Candidate /\ Handlers /\ Sockets /\ LossIsSignalled

(* A connection in use is in nobody's hands yet but Close's, and its channel   *)
(* is open; who dials has none in use, and nobody but the dialler can close    *)
(* the candidate.                                                              *)
InUse ==
    /\ conn \in Conns => \A g \in Goroutines :
          gpc[g] \in {"cancel", "close", "signal"} => took[g].conn # conn
    /\ ctx = "live" => conn \notin done
    /\ sup = "backoff" \/ dial \in {"dial", "auth", "install", "failed"} => conn = None
    /\ dial \in {"auth", "install"} =>
          /\ Held(cand) /\ mtook.conn # cand
          /\ \A g \in Goroutines :
                gpc[g] \in {"cancel", "close", "signal"} => took[g].conn # cand

IInv == Core /\ InUse

(* A connection in use is torn down only by a goroutine that used it: as long  *)
(* as goroutines are prompt, none of them wakes up after a reconnection and    *)
(* takes the new connection for its own (handleDisconnect does not look).      *)
TearsDownItsOwn ==
    [][\A g \in Goroutines : DisconnectTake(g) /\ connected => conn = own[g]]_vars

(* The strengthening of TearsDownItsOwn: while the agent is not shutting down, *)
(* one goroutine at most is taking a connection down, the current one, and     *)
(* nobody dials before it has signalled.                                       *)
Handling(g) == gpc[g] \in {"cancel", "close", "signal"}
OneHandler ==
    ctx = "live" =>
        /\ \A g \in Goroutines : Handling(g) =>
              took[g].conn = connDone /\ connDone \notin done /\ ~connected
        /\ \A g, h \in Goroutines : Handling(g) /\ Handling(h) => g = h
        /\ sup = "backoff" \/ dial \in {"dial", "auth", "install", "failed"} =>
              connDone \in done \cup {None}

(* The context of a connection that is not in use any more is cancelled, or    *)
(* is about to be.                                                             *)
LetGo(c) ==
    c = conn \/ c \in cancelled \/ \E g \in Goroutines : gpc[g] = "cancel" /\ took[g].cancel = c
PumpsLetGo ==
    /\ dial = "pumps" => cand = connDone
    /\ connDone # None => LetGo(connDone)
    /\ \A g \in Pumps : gpc[g] # "none" => LetGo(own[g])

(* Before and between connections no socket is left open; goroutines only      *)
(* have connections that were dialled.                                         *)
AllClosed ==
    /\ sup = "backoff" \/ dial \in {"dial", "failed"} => \A c \in Conns : ~Held(c)
    /\ conn # None => sock[conn] # "none"
    /\ dial \in {"auth", "install", "pumps"} => sock[cand] # "none"
    /\ \A g \in Pumps : gpc[g] # "none" => sock[own[g]] # "none"
    /\ gpc[Syncer] \in {"write", "failed"} => own[Syncer] \in Conns /\ sock[own[Syncer]] # "none"
    /\ gpc[Syncer] # "read"
    /\ main = "start" => \A g \in Goroutines : gpc[g] = "none"

(* Who may still find its connection dead uses the one in use, from the moment *)
(* the next is dialled.                                                        *)
Using(g) == gpc[g] \in {"failed", "read", "write"} \/ (g[1] = "write" /\ gpc[g] = "run")
Timely ==
    connected \/ dial \in {"dial", "auth", "install"} =>
        \A g \in Goroutines : Using(g) => own[g] = conn

PromptInv == OneHandler /\ PumpsLetGo /\ AllClosed /\ (Prompt => Timely)

(* The platform can be reached and accepts the agent again and again.          *)
PlatformUp == SF_vars(\E c \in Conns : Dial(c)) /\ SF_vars(Auth)

(* With such a platform an agent that is not shut down gets its connection     *)
(* back (manager.go:483-506).                                                  *)
Reconnects ==
    PlatformUp => (main = "serve" /\ ~connected) ~> (connected \/ ctx = "done")

(* A connection that has died is let go, by the goroutine that used it or by   *)
(* the shutdown.                                                               *)
DeathIsNoticed == \A c \in Conns : (conn = c /\ sock[c] = "broken") ~> (conn # c \/ ctx = "done")

(* The goroutines of a connection end when it is torn down: none of them stays *)
(* in a read of a connection nobody will close.                                *)
NoLeakedPump ==
    \A c \in Conns : c \in cancelled ~>
        \A k \in Loops : gpc[<<k, c>>] = "none"

(* Shutdown ends: Close, called when the context is done, is not kept waiting  *)
(* by a pump, the supervisor or a connection made at the last moment.          *)
CloseEnds == main = "cancel" ~> main = "end"

-------------------------------------------------------------------------------
(* Link says what the rest of the agent may rely on; ConnManager implements it. *)
Pending == IF dial \in {"auth", "install"} THEN cand ELSE None
L == INSTANCE Link WITH cand <- Pending

(* Whatever the goroutines do to the fields, the sockets and each other, the   *)
(* connection in use changes as Link says: a new socket is opened when no old  *)
(* one is left, and what is installed is open (manager.go:288-336, 632-665).   *)
ImplementsLink == L!Spec
===============================================================================
