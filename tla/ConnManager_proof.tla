------------------------- MODULE ConnManager_proof ----------------------------
(* Proofs about ConnManager for every set of connections, every back-off, with *)
(* and without prompt goroutines.                                              *)
EXTENDS ConnManager, TLAPS

(* The goroutines: the log sync is none of the pumps, a pump has a connection. *)
LEMMA Names ==
    /\ Pumps \subseteq Goroutines /\ Syncer \in Goroutines /\ Syncer \notin Pumps
    /\ \A g \in Goroutines : g = Syncer \/ g \in Pumps
    /\ \A g \in Pumps : g[2] \in Conns
    /\ None \notin Conns
  BY ConnsAssumption DEF ConnsAssumption, Goroutines, Pumps, Syncer

(* The initial state.                                                          *)
LEMMA InitCore == Init => Core
  <1> SUFFICES ASSUME Init PROVE Core
    OBVIOUS
  <1> USE Names, BackoffAssumption DEF Init, BackoffAssumption, Nothing
  <1>1. TypeOK
    <2>1. gpc \in [Goroutines -> {"none"}] /\ sock \in [Conns -> {"none"}]
      OBVIOUS
    <2>2. own \in [Goroutines -> Conns \cup {None}]
      OBVIOUS
    <2>3. took \in [Goroutines -> {[cancel |-> None, conn |-> None, done |-> None]}]
      OBVIOUS
    <2>4. backoff \in defaultBackoff..maxBackoff
      OBVIOUS
    <2>5. mtook \in [conn : Conns \cup {None}, done : Conns \cup {None}]
      OBVIOUS
    <2> QED
      BY <2>1, <2>2, <2>3, <2>4, <2>5 DEF TypeOK
  <1>2. Whole /\ Dialler /\ Candidate /\ LossIsSignalled
    BY DEF Whole, Dialler, Candidate, LossIsSignalled
  <1>3. Handlers /\ Sockets
    BY DEF Handlers, Sockets, Held
  <1> QED
    BY <1>1, <1>2, <1>3 DEF Core

(* A step of a goroutine within its loop.                                      *)
LEMMA LoopStep ==
    ASSUME Core, NEW g \in Goroutines, NEW from, NEW to, GoStep(g, from, to),
           from \in {"run", "read", "handle", "write"},
           to \in {"none", "run", "read", "handle", "write", "failed"}
    PROVE  Core'
  <1> USE Names DEF Core, mgrVars, connVars, dialVars, supVars, mainVars
  <1>1. /\ gpc[g] = from /\ gpc' = [gpc EXCEPT ![g] = to]
        /\ UNCHANGED <<mgrVars, ctx, connVars, own, took, dialVars, supVars,
                       mainVars>>
    BY DEF GoStep, GoTo
  <1>2. TypeOK'
    BY <1>1 DEF TypeOK
  <1>3. Whole' /\ Dialler' /\ Sockets'
    BY <1>1 DEF Whole, Dialler, Sockets, Held, TypeOK
  <1>4. Candidate' /\ Handlers' /\ LossIsSignalled'
    BY <1>1 DEF Candidate, Handlers, LossIsSignalled, Held, TypeOK
  <1> QED
    BY <1>2, <1>3, <1>4

(* The steps of connectOnce.                                                   *)
LEMMA ConnectOnceStep ==
    ASSUME Core, 
           DialFails \/ AuthFails \/ Auth \/ Install \/ StartPumps
    PROVE  Core'
  <1> USE Names
      DEF Core, mgrVars, connVars, goVars, dialVars, supVars, mainVars
  <1>1. CASE DialFails
    <2>1. TypeOK'
      BY <1>1 DEF DialFails, TypeOK
    <2>2. Whole' /\ Dialler' /\ Candidate' /\ Handlers' /\ Sockets' /\ LossIsSignalled'
      BY <1>1 DEF DialFails, Whole, Dialler, Candidate, Handlers, Held, Sockets,
         LossIsSignalled
    <2> QED
      BY <2>1, <2>2
  <1>2. CASE AuthFails
    <2>1. TypeOK'
      <3>1. sock' \in [Conns -> {"none", "open", "broken", "closed"}]
        BY <1>2 DEF AuthFails, TypeOK
      <3> QED
        BY <1>2, <3>1 DEF AuthFails, TypeOK
    <2>2. Dialler'
      BY <1>2 DEF AuthFails, Dialler, Candidate
    <2>3. Sockets'
      BY <1>2 DEF AuthFails, Sockets, Held, Candidate, Dialler, TypeOK
    <2>4. Whole' /\ Candidate' /\ Handlers' /\ LossIsSignalled'
      BY <1>2 DEF AuthFails, Whole, Candidate, Handlers, Held, LossIsSignalled
    <2> QED
      BY <2>1, <2>2, <2>3, <2>4
  <1>3. CASE Auth
    <2>1. TypeOK'
      BY <1>3 DEF Auth, TypeOK
    <2>2. Dialler'
      BY <1>3 DEF Auth, Dialler, Candidate
    <2>3. Whole' /\ Candidate' /\ Handlers' /\ Sockets' /\ LossIsSignalled'
      BY <1>3 DEF Auth, Whole, Candidate, Handlers, Held, Sockets, LossIsSignalled
    <2> QED
      BY <2>1, <2>2, <2>3
  <1>4. CASE Install
    <2>1. TypeOK'
      BY <1>4 DEF Install, TypeOK
    <2>2. Whole'
      BY <1>4 DEF Install, Whole, Candidate
    <2>3. Candidate'
      BY <1>4 DEF Install, Candidate
    <2>4. Sockets'
      BY <1>4 DEF Install, Sockets, Held, Candidate, Dialler
    <2>5. Dialler' /\ Handlers' /\ LossIsSignalled'
      BY <1>4 DEF Install, Dialler, Handlers, Held, LossIsSignalled
    <2> QED
      BY <2>1, <2>2, <2>3, <2>4, <2>5
  <1>5. CASE StartPumps
    <2>1. TypeOK'
      BY <1>5 DEF StartPumps, TypeOK
    <2>2. Handlers'
      BY <1>5 DEF StartPumps, Handlers, Held, Candidate
    <2>3. LossIsSignalled'
      BY <1>5 DEF StartPumps, LossIsSignalled, Candidate, Handlers, TypeOK
    <2>4. Whole' /\ Dialler' /\ Candidate' /\ Sockets'
      BY <1>5 DEF StartPumps, Whole, Dialler, Candidate, Sockets, Held
    <2> QED
      BY <2>1, <2>2, <2>3, <2>4
  <1> QED
    BY <1>1, <1>2, <1>3, <1>4, <1>5

(* connectOnce dials.                                                          *)
LEMMA DialStep ==
    ASSUME Core, NEW c \in Conns,
           Dial(c)
    PROVE  Core'
  <1> USE Names
      DEF Core, mgrVars, connVars, goVars, dialVars, supVars, mainVars
  <1>1. CASE Dial(c)
    <2>1. TypeOK'
      BY <1>1 DEF Dial, TypeOK
    <2>2. Candidate'
      BY <1>1 DEF Dial, Candidate, Handlers, Unused
    <2>3. Handlers'
      BY <1>1 DEF Dial, Handlers, Held, Unused
    <2>4. Sockets'
      BY <1>1 DEF Dial, Sockets, Held, Unused, Dialler
    <2>5. LossIsSignalled'
      BY <1>1 DEF Dial, LossIsSignalled, Unused
    <2>6. Whole' /\ Dialler'
      BY <1>1 DEF Dial, Whole, Dialler
    <2> QED
      BY <2>1, <2>2, <2>3, <2>4, <2>5, <2>6
  <1> QED
    BY <1>1

(* The steps of handleDisconnect.                                              *)
LEMMA DisconnectStep ==
    ASSUME Core, NEW g \in Goroutines,
           DisconnectTake(g) \/ DisconnectCancel(g) \/ DisconnectClose(g)
           \/ DisconnectSignal(g)
    PROVE  Core'
  <1> USE Names
      DEF Core, mgrVars, connVars, goVars, dialVars, supVars, mainVars
  <1>1. CASE DisconnectTake(g)
    <2>1. TypeOK'
      <3>1. gpc' \in [Goroutines -> {"none", "run", "read", "handle", "write",
                                    "failed", "cancel", "close", "signal"}]
        BY <1>1 DEF DisconnectTake, GoTo, Resume, TypeOK
      <3>2. took' \in [Goroutines ->
                      [cancel : Conns \cup {None}, conn : Conns \cup {None},
                       done : Conns \cup {None}]]
        BY <1>1 DEF DisconnectTake, Nothing, TypeOK
      <3>3. own' \in [Goroutines -> Conns \cup {None}]
        BY <1>1 DEF DisconnectTake, TypeOK
      <3>4. connected' \in BOOLEAN /\ conn' = None /\ connCancel' = None
        BY <1>1 DEF DisconnectTake
      <3>5. UNCHANGED <<connDone, closed, ctx, sock, cancelled, done, dial, cand,
                        sup, sdone, backoff, main, mtook>>
        BY <1>1 DEF DisconnectTake
      <3> HIDE <1>1
      <3> QED
        BY <3>1, <3>2, <3>3, <3>4, <3>5 DEF TypeOK
    <2>2. Candidate'
      BY <1>1 DEF DisconnectTake, GoTo, Resume, Nothing, Candidate, TypeOK
    <2>3. Handlers'
      BY <1>1 DEF DisconnectTake, GoTo, Resume, Nothing, Handlers, Held, Whole,
         TypeOK
    <2>4. LossIsSignalled'
      BY <1>1 DEF DisconnectTake, GoTo, Resume, Nothing, LossIsSignalled, Whole,
         TypeOK
    <2>5. Whole' /\ Dialler' /\ Sockets'
      BY <1>1 DEF DisconnectTake, GoTo, Resume, Nothing, Whole, Dialler, Sockets,
         Held
    <2> QED
      BY <2>1, <2>2, <2>3, <2>4, <2>5
  <1>2. CASE DisconnectCancel(g)
    <2>1. TypeOK'
      BY <1>2 DEF DisconnectCancel, GoTo, TypeOK
    <2>2. Candidate'
      BY <1>2 DEF DisconnectCancel, GoTo, Candidate, TypeOK
    <2>3. Handlers'
      BY <1>2 DEF DisconnectCancel, GoTo, Handlers, Held, TypeOK
    <2>4. LossIsSignalled'
      BY <1>2 DEF DisconnectCancel, GoTo, LossIsSignalled, TypeOK
    <2>5. Whole' /\ Dialler' /\ Sockets'
      BY <1>2 DEF DisconnectCancel, GoTo, Whole, Dialler, Sockets, Held
    <2> QED
      BY <2>1, <2>2, <2>3, <2>4, <2>5
  <1>3. CASE DisconnectClose(g)
    <2>1. TypeOK'
      BY <1>3 DEF DisconnectClose, GoTo, CloseSocket, TypeOK
    <2>2. Candidate'
      BY <1>3 DEF DisconnectClose, GoTo, CloseSocket, Candidate, TypeOK
    <2>3. Handlers'
      BY <1>3 DEF DisconnectClose, GoTo, CloseSocket, Handlers, Held, TypeOK
    <2>4. Sockets'
      BY <1>3 DEF DisconnectClose, GoTo, CloseSocket, Sockets, Held, TypeOK
    <2>5. LossIsSignalled'
      BY <1>3 DEF DisconnectClose, GoTo, CloseSocket, LossIsSignalled, TypeOK
    <2>6. Whole' /\ Dialler'
      BY <1>3 DEF DisconnectClose, GoTo, CloseSocket, Whole, Dialler
    <2> QED
      BY <2>1, <2>2, <2>3, <2>4, <2>5, <2>6
  <1>4. CASE DisconnectSignal(g)
    <2>1. TypeOK'
      BY <1>4 DEF DisconnectSignal, GoTo, Resume, Nothing, SignalOnce, TypeOK
    <2>2. Candidate'
      BY <1>4 DEF DisconnectSignal, GoTo, Resume, Nothing, SignalOnce, Candidate,
         TypeOK
    <2>3. Handlers'
      BY <1>4 DEF DisconnectSignal, GoTo, Resume, Nothing, SignalOnce, Handlers,
         Held, TypeOK
    <2>4. Sockets'
      BY <1>4 DEF DisconnectSignal, GoTo, Resume, Nothing, SignalOnce, Sockets,
         Held, Handlers
    <2>5. LossIsSignalled'
      BY <1>4 DEF DisconnectSignal, GoTo, Resume, Nothing, SignalOnce,
         LossIsSignalled, TypeOK, Handlers
    <2>6. Whole' /\ Dialler'
      BY <1>4 DEF DisconnectSignal, GoTo, Resume, Nothing, SignalOnce, Whole,
         Dialler
    <2> QED
      BY <2>1, <2>2, <2>3, <2>4, <2>5, <2>6
  <1> QED
    BY <1>1, <1>2, <1>3, <1>4

(* logSyncLoop takes the connection and is done with it.                       *)
LEMMA SyncStep ==
    ASSUME Core, 
           SyncTakeConn \/ SyncWritten
    PROVE  Core'
  <1> USE Names
      DEF Core, mgrVars, connVars, goVars, dialVars, supVars, mainVars
  <1>1. CASE SyncTakeConn
    <2>1. TypeOK'
      BY <1>1 DEF SyncTakeConn, GoTo, TypeOK
    <2>2. Candidate'
      BY <1>1 DEF SyncTakeConn, GoTo, Candidate, TypeOK, Whole
    <2>3. Handlers'
      BY <1>1 DEF SyncTakeConn, GoTo, Handlers, Held, TypeOK, Whole
    <2>4. LossIsSignalled'
      BY <1>1 DEF SyncTakeConn, GoTo, LossIsSignalled, TypeOK, Whole
    <2>5. Whole' /\ Dialler' /\ Sockets'
      BY <1>1 DEF SyncTakeConn, GoTo, Whole, Dialler, Sockets, Held
    <2> QED
      BY <2>1, <2>2, <2>3, <2>4, <2>5
  <1>2. CASE SyncWritten
    <2>1. TypeOK'
      BY <1>2 DEF SyncWritten, GoTo, TypeOK
    <2>2. Candidate'
      BY <1>2 DEF SyncWritten, GoTo, Candidate, TypeOK
    <2>3. Handlers'
      BY <1>2 DEF SyncWritten, GoTo, Handlers, Held, TypeOK
    <2>4. LossIsSignalled'
      BY <1>2 DEF SyncWritten, GoTo, LossIsSignalled, TypeOK
    <2>5. Whole' /\ Dialler' /\ Sockets'
      BY <1>2 DEF SyncWritten, GoTo, Whole, Dialler, Sockets, Held
    <2> QED
      BY <2>1, <2>2, <2>3, <2>4, <2>5
  <1> QED
    BY <1>1, <1>2

(* The steps of superviseReconnects.                                           *)
LEMMA SupStepInv ==
    ASSUME Core, 
           SupLoop \/ SupLost \/ SupCancelled \/ SupTimer \/ SupFailed \/ SupReconnected
    PROVE  Core'
  <1> USE Names, BackoffAssumption
      DEF BackoffAssumption, Core, mgrVars, connVars, goVars, dialVars, supVars,
         mainVars
  <1>1. CASE SupLoop
    <2>1. TypeOK'
      BY <1>1 DEF SupLoop, SupStep, TypeOK
    <2>2. Whole' /\ Dialler' /\ Candidate' /\ Handlers' /\ Sockets' /\ LossIsSignalled'
      BY <1>1 DEF SupLoop, SupStep, Whole, Dialler, Candidate, Handlers, Held,
         Sockets, LossIsSignalled
    <2> QED
      BY <2>1, <2>2
  <1>2. CASE SupLost
    <2>1. TypeOK'
      BY <1>2 DEF SupLost, SupStep, TypeOK
    <2>2. Sockets'
      BY <1>2 DEF SupLost, SupStep, Sockets, Held, Dialler
    <2>3. Whole' /\ Dialler' /\ Candidate' /\ Handlers' /\ LossIsSignalled'
      BY <1>2 DEF SupLost, SupStep, Whole, Dialler, Candidate, Handlers, Held,
         LossIsSignalled
    <2> QED
      BY <2>1, <2>2, <2>3
  <1>3. CASE SupCancelled
    <2>1. TypeOK'
      BY <1>3 DEF SupCancelled, SupStep, TypeOK
    <2>2. Whole' /\ Dialler' /\ Candidate' /\ Handlers' /\ Sockets' /\ LossIsSignalled'
      BY <1>3 DEF SupCancelled, SupStep, Whole, Dialler, Candidate, Handlers,
         Held, Sockets, LossIsSignalled
    <2> QED
      BY <2>1, <2>2
  <1>4. CASE SupTimer
    <2>1. TypeOK'
      BY <1>4 DEF SupTimer, SupStep, TypeOK
    <2>2. Dialler'
      BY <1>4 DEF SupTimer, SupStep, Dialler, TypeOK
    <2>3. Candidate'
      BY <1>4 DEF SupTimer, SupStep, Candidate, Dialler
    <2>4. Sockets'
      BY <1>4 DEF SupTimer, SupStep, Sockets, Held, Dialler
    <2>5. Whole' /\ Handlers' /\ LossIsSignalled'
      BY <1>4 DEF SupTimer, SupStep, Whole, Handlers, Held, LossIsSignalled
    <2> QED
      BY <2>1, <2>2, <2>3, <2>4, <2>5
  <1>5. CASE SupFailed
    <2>1. TypeOK'
      BY <1>5 DEF SupFailed, SupStep, NextBackoff, TypeOK
    <2>2. Sockets'
      BY <1>5 DEF SupFailed, SupStep, NextBackoff, Sockets, Held, Dialler
    <2>3. Whole' /\ Dialler' /\ Candidate' /\ Handlers' /\ LossIsSignalled'
      BY <1>5 DEF SupFailed, SupStep, NextBackoff, Whole, Dialler, Candidate,
         Handlers, Held, LossIsSignalled
    <2> QED
      BY <2>1, <2>2, <2>3
  <1>6. CASE SupReconnected
    <2>1. TypeOK'
      BY <1>6 DEF SupReconnected, SupStep, TypeOK
    <2>2. Whole' /\ Dialler' /\ Candidate' /\ Handlers' /\ Sockets' /\ LossIsSignalled'
      BY <1>6 DEF SupReconnected, SupStep, Whole, Dialler, Candidate, Handlers,
         Held, Sockets, LossIsSignalled
    <2> QED
      BY <2>1, <2>2
  <1> QED
    BY <1>1, <1>2, <1>3, <1>4, <1>5, <1>6

(* The steps of App.Run.                                                       *)
LEMMA RunStep ==
    ASSUME Core, 
           Connect \/ ConnectFails \/ StartWorkers \/ Signal
    PROVE  Core'
  <1> USE Names
      DEF Core, mgrVars, connVars, goVars, dialVars, supVars, mainVars
  <1>1. CASE Connect
    <2>1. TypeOK'
      BY <1>1 DEF Connect, TypeOK
    <2>2. Candidate'
      BY <1>1 DEF Connect, Candidate, Dialler
    <2>3. Sockets'
      BY <1>1 DEF Connect, Sockets, Held, Dialler, TypeOK
    <2>4. Whole' /\ Dialler' /\ Handlers' /\ LossIsSignalled'
      BY <1>1 DEF Connect, Whole, Dialler, Handlers, Held, LossIsSignalled
    <2> QED
      BY <2>1, <2>2, <2>3, <2>4
  <1>2. CASE ConnectFails
    <2>1. TypeOK'
      BY <1>2 DEF ConnectFails, TypeOK
    <2>2. Sockets'
      BY <1>2 DEF ConnectFails, Sockets, Held, Dialler
    <2>3. Whole' /\ Dialler' /\ Candidate' /\ Handlers' /\ LossIsSignalled'
      BY <1>2 DEF ConnectFails, Whole, Dialler, Candidate, Handlers, Held,
         LossIsSignalled
    <2> QED
      BY <2>1, <2>2, <2>3
  <1>3. CASE StartWorkers
    <2>1. TypeOK'
      BY <1>3 DEF StartWorkers, GoTo, TypeOK
    <2>2. Candidate'
      BY <1>3 DEF StartWorkers, GoTo, Candidate, TypeOK
    <2>3. Handlers'
      BY <1>3 DEF StartWorkers, GoTo, Handlers, Held, TypeOK
    <2>4. Sockets'
      BY <1>3 DEF StartWorkers, GoTo, Sockets, Held, Dialler
    <2>5. LossIsSignalled'
      BY <1>3 DEF StartWorkers, GoTo, LossIsSignalled, TypeOK, Dialler
    <2>6. Whole' /\ Dialler'
      BY <1>3 DEF StartWorkers, GoTo, Whole, Dialler
    <2> QED
      BY <2>1, <2>2, <2>3, <2>4, <2>5, <2>6
  <1>4. CASE Signal
    <2>1. TypeOK'
      BY <1>4 DEF Signal, TypeOK
    <2>2. Whole' /\ Dialler' /\ Candidate' /\ Handlers' /\ Sockets' /\ LossIsSignalled'
      BY <1>4 DEF Signal, Whole, Dialler, Candidate, Handlers, Held, Sockets,
         LossIsSignalled
    <2> QED
      BY <2>1, <2>2
  <1> QED
    BY <1>1, <1>2, <1>3, <1>4

(* The steps of Close.                                                         *)
LEMMA CloseStep ==
    ASSUME Core, 
           Close \/ CloseCancel \/ CloseConn \/ CloseSignal \/ CloseReturns
    PROVE  Core'
  <1> USE Names
      DEF Core, mgrVars, connVars, goVars, dialVars, supVars, mainVars
  <1>1. CASE Close
    <2>1. TypeOK'
      BY <1>1 DEF Close, TypeOK
    <2>2. Whole' /\ Dialler' /\ Candidate' /\ Handlers' /\ Sockets' /\ LossIsSignalled'
      BY <1>1 DEF Close, Whole, Dialler, Candidate, Handlers, Held, Sockets,
         LossIsSignalled
    <2> QED
      BY <2>1, <2>2
  <1>2. CASE CloseCancel
    <2>1. TypeOK'
      BY <1>2 DEF CloseCancel, TypeOK
    <2>2. Whole' /\ Dialler' /\ Candidate' /\ Handlers' /\ Sockets' /\ LossIsSignalled'
      BY <1>2 DEF CloseCancel, Whole, Dialler, Candidate, Handlers, Held, Sockets,
         LossIsSignalled
    <2> QED
      BY <2>1, <2>2
  <1>3. CASE CloseConn
    <2>1. TypeOK'
      BY <1>3 DEF CloseConn, CloseSocket, TypeOK
    <2>2. Sockets'
      BY <1>3 DEF CloseConn, CloseSocket, Sockets, Held, Dialler
    <2>3. Whole' /\ Dialler' /\ Candidate' /\ Handlers' /\ LossIsSignalled'
      BY <1>3 DEF CloseConn, CloseSocket, Whole, Dialler, Candidate, Handlers,
         Held, LossIsSignalled
    <2> QED
      BY <2>1, <2>2, <2>3
  <1>4. CASE CloseSignal
    <2>1. TypeOK'
      BY <1>4 DEF CloseSignal, SignalOnce, TypeOK
    <2>2. Handlers'
      BY <1>4 DEF CloseSignal, SignalOnce, Handlers, Held, Dialler
    <2>3. Sockets'
      BY <1>4 DEF CloseSignal, SignalOnce, Sockets, Held, Dialler
    <2>4. Whole' /\ Dialler' /\ Candidate' /\ LossIsSignalled'
      BY <1>4 DEF CloseSignal, SignalOnce, Whole, Dialler, Candidate,
         LossIsSignalled
    <2> QED
      BY <2>1, <2>2, <2>3, <2>4
  <1>5. CASE CloseReturns
    <2>1. TypeOK'
      BY <1>5 DEF CloseReturns, TypeOK
    <2>2. Whole' /\ Dialler' /\ Candidate' /\ Handlers' /\ Sockets' /\ LossIsSignalled'
      BY <1>5 DEF CloseReturns, Whole, Dialler, Candidate, Handlers, Held,
         Sockets, LossIsSignalled
    <2> QED
      BY <2>1, <2>2
  <1> QED
    BY <1>1, <1>2, <1>3, <1>4, <1>5

(* A connection breaks.                                                        *)
LEMMA BreakStep ==
    ASSUME Core, NEW c \in Conns,
           Break(c)
    PROVE  Core'
  <1> USE Names
      DEF Core, mgrVars, connVars, goVars, dialVars, supVars, mainVars
  <1>1. CASE Break(c)
    <2>1. TypeOK'
      BY <1>1 DEF Break, TypeOK
    <2>2. Whole' /\ Dialler' /\ Candidate' /\ Handlers' /\ Sockets' /\ LossIsSignalled'
      BY <1>1 DEF Break, Whole, Dialler, Candidate, Handlers, Held, Sockets,
         LossIsSignalled
    <2> QED
      BY <2>1, <2>2
  <1> QED
    BY <1>1

(* Of the inductive invariant, what concerns fields and sockets.               *)
LEMMA NextCore == Core /\ [Next]_vars => Core'
  <1> SUFFICES ASSUME Core, [Next]_vars PROVE Core'
    OBVIOUS
  <1>1. CASE UNCHANGED vars
    BY <1>1 DEF vars, mgrVars, connVars, goVars, dialVars, supVars, mainVars, Core,
       TypeOK, Whole, Dialler, Candidate, Handlers, Sockets, Held, LossIsSignalled
  <1>2. ASSUME NEW g \in Goroutines, handleDisconnect(g) PROVE Core'
    BY <1>2, DisconnectStep DEF handleDisconnect
  <1>3. CASE connectOnce
    BY <1>3, ConnectOnceStep, DialStep DEF connectOnce
  <1>4. CASE superviseReconnects
    BY <1>4, SupStepInv DEF superviseReconnects
  <1>5. CASE Run \/ Signal
    BY <1>5, RunStep, CloseStep DEF Run
  <1>6. CASE logSyncLoop
    <2>1. SyncFails \/ SyncCancelled => Core'
      BY LoopStep, Names DEF SyncFails, SyncCancelled, Fails
    <2> QED
      BY <1>2, <1>6, <2>1, SyncStep, Names DEF logSyncLoop
  <1>7. ASSUME NEW c \in Conns, readPump(c) \/ writePump(c) \/ HeartbeatCancelled(c)
        PROVE  Core'
    <2>1. /\ "read" \in Loops /\ "write" \in Loops
          /\ <<"read", c>> \in Goroutines /\ <<"write", c>> \in Goroutines
          /\ "beat" \in Loops => <<"beat", c>> \in Goroutines
      BY LoopsAssumption DEF LoopsAssumption, Goroutines, Pumps
    <2>2. CASE readPump(c)
      <3>1. ReadPumpLoop(c) => Core'
        BY <2>1, LoopStep DEF ReadPumpLoop, ReadsUnlessCancelled
      <3>2. ReadPumpMessage(c) \/ ReadPumpDispatched(c) \/ ReadPumpFails(c) => Core'
        BY <2>1, LoopStep DEF ReadPumpMessage, ReadPumpDispatched, ReadPumpFails,
           Fails
      <3> QED
        BY <1>2, <2>1, <2>2, <3>1, <3>2 DEF readPump
    <2>3. CASE writePump(c)
      <3>1. WritePumpFails(c) \/ WritePumpCancelled(c) => Core'
        BY <2>1, LoopStep DEF WritePumpFails, WritePumpCancelled, Fails
      <3> QED
        BY <1>2, <2>1, <2>3, <3>1 DEF writePump
    <2>4. CASE HeartbeatCancelled(c)
      BY <2>1, <2>4, LoopStep DEF HeartbeatCancelled
    <2> QED
      BY <1>7, <2>2, <2>3, <2>4
  <1>8. ASSUME NEW c \in Conns, Break(c) PROVE Core'
    BY <1>8, BreakStep
  <1> QED
    BY <1>1, <1>3, <1>4, <1>5, <1>6, <1>7, <1>8 DEF Next, Stopped

(* A step that leaves InUse's variables alone, or only moves a goroutine that  *)
(* is not in handleDisconnect and stays out of it.                             *)
LEMMA InUseKept ==
    ASSUME InUse, Core, UNCHANGED <<conn, sock, done, took, dial, cand, mtook>>,
           ctx' = ctx \/ ctx' = "done",
           sup' = "backoff" => conn = None,
           \A g \in Goroutines :
              gpc'[g] \in {"cancel", "close", "signal"} => gpc[g] \in {"cancel", "close", "signal"}
    PROVE  InUse'
  BY DEF InUse, Held, Core, TypeOK

(* The inductive invariant, continued: the connection in use and the candidate *)
(* are out of everybody's hands.                                               *)
LEMMA NextInUse == IInv /\ [Next]_vars => InUse'
  <1> SUFFICES ASSUME IInv, [Next]_vars PROVE InUse'
    OBVIOUS
  <1> USE Names DEF IInv, mgrVars, connVars, goVars, dialVars, supVars, mainVars
  <1>1. CASE UNCHANGED vars
    BY <1>1, InUseKept DEF vars, InUse
  <1>2. ASSUME NEW g \in Goroutines, NEW from, NEW to, GoStep(g, from, to),
               to \notin {"cancel", "close", "signal"}
        PROVE  InUse'
    BY <1>2, InUseKept DEF GoStep, GoTo, Core, TypeOK, InUse
  <1>3. ASSUME NEW g \in Goroutines, handleDisconnect(g) PROVE InUse'
    <2>1. CASE DisconnectTake(g)
      BY <2>1 DEF DisconnectTake, GoTo, Resume, Nothing, InUse, Held, Core, TypeOK, Whole
    <2>2. CASE DisconnectCancel(g)
      BY <2>2, InUseKept DEF DisconnectCancel, GoTo, InUse, Core, TypeOK
    <2>3. CASE DisconnectClose(g)
      <3>1. took[g].conn # cand \/ dial \notin {"auth", "install"}
        BY <2>3 DEF DisconnectClose, InUse
      <3> QED
        BY <2>3, <3>1 DEF DisconnectClose, GoTo, CloseSocket, InUse, Held, Core, TypeOK, Candidate
    <2>4. CASE DisconnectSignal(g)
      <3>1. took[g].done = took[g].conn /\ took[g].conn \in Conns
        BY <2>4 DEF DisconnectSignal, Core, Handlers
      <3>2. conn \in Conns => took[g].conn # conn
        BY <2>4 DEF DisconnectSignal, InUse
      <3> QED
        BY <2>4, <3>1, <3>2 DEF DisconnectSignal, GoTo, Resume, Nothing, SignalOnce, InUse,
           Held, Core, TypeOK
    <2> QED
      BY <1>3, <2>1, <2>2, <2>3, <2>4 DEF handleDisconnect
  <1>4. CASE connectOnce
    <2>1. CASE DialFails \/ Auth
      BY <2>1 DEF DialFails, Auth, InUse, Held
    <2>2. ASSUME NEW c \in Conns, Dial(c) PROVE InUse'
      BY <2>2 DEF Dial, Unused, InUse, Held, Core, TypeOK
    <2>3. CASE AuthFails
      BY <2>3 DEF AuthFails, InUse, Held, Core, Dialler
    <2>4. CASE Install
      <3>1. ctx = "live" => cand \notin done
        BY <2>4 DEF Install, InUse, Core, Sockets, Candidate
      <3>2. sup # "backoff"
        BY <2>4 DEF Install, Core, Dialler
      <3> QED
        BY <2>4, <3>1, <3>2 DEF Install, InUse, Held, Core, TypeOK
    <2>5. CASE StartPumps
      BY <2>5 DEF StartPumps, InUse, Held, Core, TypeOK
    <2> QED
      BY <1>4, <2>1, <2>2, <2>3, <2>4, <2>5 DEF connectOnce
  <1>5. CASE superviseReconnects
    <2>1. CASE SupLoop \/ SupCancelled
      BY <2>1, InUseKept DEF SupLoop, SupCancelled, SupStep
    <2>2. CASE SupLost
      <3>1. ctx = "live" => conn = None
        BY <2>2 DEF SupLost, SupStep, InUse, Core, Dialler, Whole, TypeOK
      <3> QED
        BY <2>2, <3>1, InUseKept DEF SupLost, SupStep, Core, TypeOK, Dialler
    <2>3. CASE SupTimer \/ SupFailed \/ SupReconnected
      BY <2>3 DEF SupTimer, SupFailed, SupReconnected, SupStep, InUse, Held
    <2> QED
      BY <1>5, <2>1, <2>2, <2>3 DEF superviseReconnects
  <1>6. CASE Run \/ Signal
    <2>1. CASE Connect
      <3>1. conn = None
        BY <2>1 DEF Connect, Core, Dialler, Whole
      <3> QED
        BY <2>1, <3>1 DEF Connect, InUse, Held, Core, TypeOK
    <2>2. CASE ConnectFails \/ Signal \/ CloseCancel \/ CloseReturns
      BY <2>2 DEF ConnectFails, Signal, CloseCancel, CloseReturns, InUse, Held
    <2>3. CASE StartWorkers
      BY <2>3 DEF StartWorkers, GoTo, InUse, Held, Core, TypeOK
    <2>4. CASE Close
      BY <2>4 DEF Close, InUse, Held, Core, Candidate
    <2>5. CASE CloseConn
      BY <2>5 DEF CloseConn, CloseSocket, InUse, Held, Core, TypeOK, Candidate
    <2>6. CASE CloseSignal
      BY <2>6 DEF CloseSignal, SignalOnce, InUse, Held, Core, Dialler
    <2> QED
      BY <1>6, <2>1, <2>2, <2>3, <2>4, <2>5, <2>6 DEF Run
  <1>7. CASE logSyncLoop
    <2>1. CASE SyncTakeConn
      BY <2>1, InUseKept DEF SyncTakeConn, GoTo, InUse, Core, TypeOK
    <2>2. CASE SyncWritten
      BY <2>2, InUseKept DEF SyncWritten, GoTo, InUse, Core, TypeOK
    <2>3. CASE SyncFails \/ SyncCancelled
      BY <1>2, <2>3 DEF SyncFails, SyncCancelled, Fails
    <2> QED
      BY <1>3, <1>7, <2>1, <2>2, <2>3 DEF logSyncLoop
  <1>8. ASSUME NEW c \in Conns, readPump(c) \/ writePump(c) \/ HeartbeatCancelled(c)
        PROVE  InUse'
    <2>1. /\ <<"read", c>> \in Goroutines /\ <<"write", c>> \in Goroutines
          /\ "beat" \in Loops => <<"beat", c>> \in Goroutines
      BY LoopsAssumption DEF LoopsAssumption, Goroutines, Pumps
    <2>2. CASE ReadPumpLoop(c) \/ ReadPumpMessage(c) \/ ReadPumpDispatched(c) \/ ReadPumpFails(c)
      BY <1>2, <2>1, <2>2 DEF ReadPumpLoop, ReadPumpMessage, ReadPumpDispatched, ReadPumpFails,
         Fails, ReadsUnlessCancelled
    <2>3. CASE WritePumpFails(c) \/ WritePumpCancelled(c) \/ HeartbeatCancelled(c)
      BY <1>2, <2>1, <2>3 DEF WritePumpFails, WritePumpCancelled, HeartbeatCancelled, Fails
    <2> QED
      BY <1>3, <1>8, <2>1, <2>2, <2>3 DEF readPump, writePump
  <1>9. ASSUME NEW c \in Conns, Break(c) PROVE InUse'
    BY <1>9 DEF Break, InUse, Held, Core, TypeOK
  <1> QED
    BY <1>1, <1>4, <1>5, <1>6, <1>7, <1>8, <1>9 DEF Next, Stopped

LEMMA NextInv == IInv /\ [Next]_vars => IInv'
  BY NextCore, NextInUse DEF IInv

(* The initial state satisfies the strengthened invariant.                     *)
LEMMA InitInv == Init => IInv
  BY InitCore, Names DEF IInv, InUse, Init, Nothing

(* The strengthened invariant holds always, for every set of connections and   *)
(* back-off, however long a goroutine waits before handleDisconnect.           *)
THEOREM InductiveInvariant == Spec => []IInv
  <1>1. Init => IInv
    BY InitInv
  <1>2. IInv /\ [Next]_vars => IInv'
    BY NextInv
  <1> QED
    BY <1>1, <1>2, PTL DEF Spec

(* Every variable keeps its type; the back-off never leaves its bounds.        *)
THEOREM TypeCorrect == Spec => []TypeOK
  <1>1. IInv => TypeOK
    BY DEF IInv, Core
  <1> QED
    BY <1>1, InductiveInvariant, PTL

(* The agent never has two sockets open to the platform (connectOnce,          *)
(* handleDisconnect, Close).                                                   *)
THEOREM OneSocketHolds == Spec => []OneSocket
  <1>1. IInv => OneSocket
    BY DEF IInv, Core, OneSocket, Sockets, TypeOK
  <1> QED
    BY <1>1, InductiveInvariant, PTL

(* m.connected, m.conn, m.connCancel and m.connDone always belong together.    *)
THEOREM WholeHolds == Spec => []Whole
  <1>1. IInv => Whole
    BY DEF IInv, Core
  <1> QED
    BY <1>1, InductiveInvariant, PTL

(* The loss of a connection always reaches the supervisor: connDone is closed, *)
(* or a goroutine that will close it is in handleDisconnect.                   *)
THEOREM LossIsSignalledHolds == Spec => []LossIsSignalled
  <1>1. IInv => LossIsSignalled
    BY DEF IInv, Core
  <1> QED
    BY <1>1, InductiveInvariant, PTL

(* ConnManager implements Link: every step is a step of Link or leaves the     *)
(* connection in use and the sockets alone.                                    *)
THEOREM LinkRefinement == Spec => ImplementsLink
  <1> USE Names
  <1>1. Init => L!Init
    BY DEF Init, L!Init, Pending
  <1>2. ASSUME IInv, [Next]_vars PROVE [L!Next]_<<conn, Pending, sock>>
    <2> USE <1>2 DEF IInv, mgrVars, connVars, goVars, dialVars, supVars, mainVars
    <2>1. CASE UNCHANGED <<conn, Pending, sock>>
      BY <2>1
    <2>2. ASSUME NEW g \in Goroutines, handleDisconnect(g) PROVE [L!Next]_<<conn, Pending, sock>>
      <3>1. CASE DisconnectTake(g)
        BY <3>1 DEF DisconnectTake, L!Next, L!Drop, Pending
      <3>2. CASE DisconnectClose(g)
        <4>1. took[g].conn \in Conns
          BY <3>2 DEF DisconnectClose, Core, Handlers
        <4>2. Pending # took[g].conn /\ Pending' = Pending
          BY <3>2, <4>1 DEF DisconnectClose, InUse, Pending
        <4>3. L!Cut(took[g].conn)
          BY <3>2, <4>1, <4>2 DEF DisconnectClose, CloseSocket, L!Cut, Core, TypeOK
        <4> QED
          BY <4>1, <4>3 DEF L!Next
      <3>3. CASE DisconnectCancel(g) \/ DisconnectSignal(g)
        BY <3>3 DEF DisconnectCancel, DisconnectSignal, Pending
      <3> QED
        BY <2>2, <3>1, <3>2, <3>3 DEF handleDisconnect
    <2>3. CASE connectOnce
      <3>1. ASSUME NEW c \in Conns, Dial(c) PROVE [L!Next]_<<conn, Pending, sock>>
        <4>1. L!Dial(c)
          BY <3>1 DEF Dial, L!Dial, L!Held, Held, Pending, Core, TypeOK, InUse, Sockets, Unused
        <4> QED
          BY <4>1 DEF L!Next
      <3>2. CASE AuthFails
        <4>1. cand \in Conns /\ L!Cut(cand)
          BY <3>2 DEF AuthFails, L!Cut, Pending, Core, Candidate
        <4> QED
          BY <4>1 DEF L!Next
      <3>3. CASE Install
        <4>1. L!Install
          BY <3>3 DEF Install, L!Install, L!Held, Held, Pending, Core, Candidate, InUse
        <4> QED
          BY <4>1 DEF L!Next
      <3>4. CASE DialFails \/ Auth \/ StartPumps
        BY <3>4 DEF DialFails, Auth, StartPumps, Pending
      <3> QED
        BY <2>3, <3>1, <3>2, <3>3, <3>4 DEF connectOnce
    <2>4. CASE CloseConn
      <3>1. CASE mtook.conn = None
        BY <2>4, <3>1 DEF CloseConn, CloseSocket, Pending, Core, TypeOK
      <3>2. CASE mtook.conn \in Conns
        <4>1. Pending # mtook.conn /\ Pending' = Pending
          BY <2>4, <3>2 DEF CloseConn, InUse, Pending
        <4>2. L!Cut(mtook.conn)
          BY <2>4, <3>2, <4>1 DEF CloseConn, CloseSocket, L!Cut, Core, TypeOK
        <4> QED
          BY <3>2, <4>2 DEF L!Next
      <3> QED
        BY <3>1, <3>2 DEF Core, TypeOK
    <2>5. ASSUME NEW c \in Conns, Break(c) PROVE [L!Next]_<<conn, Pending, sock>>
      BY <2>5 DEF Break, L!Next, L!Break, Pending
    <2>6. CASE superviseReconnects
      BY <2>6 DEF superviseReconnects, SupLoop, SupLost, SupCancelled, SupTimer, SupFailed,
         SupReconnected, SupStep, Pending, Core, Dialler
    <2>7. CASE Run \/ Signal
      BY <2>4, <2>7 DEF Run, Signal, Connect, ConnectFails, StartWorkers, Close, CloseCancel,
         CloseSignal, CloseReturns, Pending, Core, Dialler
    <2>8. CASE logSyncLoop
      BY <2>2, <2>8 DEF logSyncLoop, SyncTakeConn, SyncWritten, SyncFails, SyncCancelled, Fails,
         GoStep, Pending
    <2>9. ASSUME NEW c \in Conns, readPump(c) \/ writePump(c) \/ HeartbeatCancelled(c)
          PROVE  [L!Next]_<<conn, Pending, sock>>
      <3>1. <<"read", c>> \in Goroutines /\ <<"write", c>> \in Goroutines
        BY LoopsAssumption DEF LoopsAssumption, Goroutines, Pumps
      <3> QED
        BY <2>2, <2>9, <3>1 DEF readPump, writePump, ReadPumpLoop, ReadPumpMessage,
           ReadPumpDispatched, ReadPumpFails, WritePumpFails, WritePumpCancelled,
           HeartbeatCancelled, Fails, GoStep, Pending
    <2> QED
      BY <1>2, <2>1, <2>3, <2>5, <2>6, <2>7, <2>8, <2>9 DEF Next, Stopped, vars, Pending
  <1> QED
    BY <1>1, <1>2, InductiveInvariant, PTL DEF Spec, ImplementsLink, L!Spec

-------------------------------------------------------------------------------
(* The strengthening of TearsDownItsOwn, one conjunct after the other.          *)

(* How a goroutine moves within its loop.                                       *)
Moves(g, from, to) ==
    \/ from \in {"run", "read", "handle", "write"} /\ to = "none"
    \/ from = "run" /\ to = "read" /\ g \in Pumps /\ ~Cancelled(g[2])
    \/ from = "read" /\ to \in {"handle", "failed"} /\ g \in Pumps
    \/ from = "handle" /\ to = "run" /\ g \in Pumps /\ g[1] = "read"
    \/ from = "write" /\ to = "failed"
    \/ from = "run" /\ to = "failed" /\ g \in Pumps /\ g[1] = "write"

(* While somebody dials, or a connection is in use, none is being taken down.   *)
LEMMA NobodyHandles ==
    ASSUME IInv, PromptInv, ctx # "done",
           connected \/ dial \in {"dial", "auth", "install", "failed"}
    PROVE  \A g \in Goroutines : ~Handling(g)
  <1>1. CASE ctx = "none"
    BY <1>1 DEF IInv, Core, Dialler, PromptInv, AllClosed, Handling
  <1>2. CASE ctx = "live"
    BY <1>2, Names DEF IInv, Core, Handlers, PromptInv, OneHandler, Handling
  <1> QED
    BY <1>1, <1>2 DEF IInv, Core, TypeOK

(* One goroutine at most takes a connection down, and nobody dials meanwhile.   *)
LEMMA NextOneHandler == IInv /\ PromptInv /\ [Next]_vars => OneHandler'
  <1> SUFFICES ASSUME IInv, PromptInv, [Next]_vars PROVE OneHandler'
    OBVIOUS
  <1> USE Names DEF IInv, PromptInv, mgrVars, connVars, goVars, dialVars, supVars, mainVars
  <1>1. CASE UNCHANGED vars
    BY <1>1 DEF vars, OneHandler, Handling, Core, TypeOK
  <1>2. ASSUME NEW g \in Goroutines, NEW from, NEW to, GoStep(g, from, to), Moves(g, from, to)
        PROVE  OneHandler'
    BY <1>2 DEF GoStep, GoTo, Moves, OneHandler, Handling, Core, TypeOK
  <1>3. ASSUME NEW g \in Goroutines, handleDisconnect(g) PROVE OneHandler'
    <2>1. CASE DisconnectTake(g)
        <3> SUFFICES ASSUME ctx = "live" PROVE OneHandler'
          BY <2>1 DEF DisconnectTake, OneHandler
        <3>1. /\ \A h \in Goroutines \ {g} : gpc'[h] = gpc[h] /\ took'[h] = took[h]
              /\ UNCHANGED <<connDone, done, ctx, sup, dial>> /\ ~connected'
              /\ gpc[g] = "failed"
          BY <2>1 DEF DisconnectTake, GoTo, Core, TypeOK
        <3>2. CASE connected
          <4>1. \A h \in Goroutines : ~Handling(h)
            BY <3>2, NobodyHandles
          <4>2. /\ took'[g].conn = connDone /\ connDone \in Conns /\ connDone \notin done
                /\ sup # "backoff" /\ dial \notin {"dial", "auth", "install", "failed"}
            BY <2>1, <3>2 DEF DisconnectTake, Core, TypeOK, Whole, InUse
          <4> QED
            BY <3>1, <4>1, <4>2 DEF OneHandler, Handling
        <3>3. CASE ~connected
          <4>1. ~Handling(g)'
            BY <2>1, <3>3 DEF DisconnectTake, GoTo, Resume, Handling, Core, TypeOK
          <4> QED
            BY <3>1, <3>3, <4>1 DEF OneHandler, Handling
        <3> QED
          BY <3>2, <3>3
    <2>2. CASE DisconnectCancel(g)
      BY <2>2 DEF DisconnectCancel, GoTo, OneHandler, Handling, Core, TypeOK
    <2>3. CASE DisconnectClose(g)
      BY <2>3 DEF DisconnectClose, GoTo, CloseSocket, OneHandler, Handling, Core, TypeOK
    <2>4. CASE DisconnectSignal(g)
      BY <2>4
         DEF DisconnectSignal, GoTo, Resume, Nothing, SignalOnce, OneHandler, Handling,
             Core, TypeOK
    <2> QED
      BY <1>3, <2>1, <2>2, <2>3, <2>4 DEF handleDisconnect
  <1>4. CASE connectOnce
    <2>1. CASE DialFails \/ Auth
      BY <2>1 DEF DialFails, Auth, OneHandler, Handling, Core, TypeOK
    <2>2. ASSUME NEW c \in Conns, Dial(c) PROVE OneHandler'
      BY <2>2 DEF Dial, Unused, OneHandler, Handling, Core, TypeOK
    <2>3. CASE AuthFails
      BY <2>3 DEF AuthFails, OneHandler, Handling, Core, TypeOK
    <2>4. CASE Install
        <3>1. ctx # "done" => \A h \in Goroutines : ~Handling(h)
          BY <2>4, NobodyHandles DEF Install
        <3>2. sup # "backoff" /\ dial' = "pumps" /\ UNCHANGED <<ctx, gpc, sup>>
          BY <2>4 DEF Install, Core, Dialler
        <3> QED
          BY <3>1, <3>2 DEF OneHandler, Handling
    <2>5. CASE StartPumps
      BY <2>5 DEF StartPumps, OneHandler, Handling, Core, TypeOK
    <2> QED
      BY <1>4, <2>1, <2>2, <2>3, <2>4, <2>5 DEF connectOnce
  <1>5. CASE superviseReconnects
    <2>1. CASE SupLoop \/ SupCancelled
      BY <2>1 DEF SupLoop, SupCancelled, SupStep, OneHandler, Handling, Core, TypeOK
    <2>2. CASE SupLost
        BY <2>2 DEF SupLost, SupStep, OneHandler, Handling, Core, Dialler
    <2>3. CASE SupTimer
      BY <2>3 DEF SupTimer, SupStep, OneHandler, Handling, Core, TypeOK
    <2>4. CASE SupFailed \/ SupReconnected
      BY <2>4 DEF SupFailed, SupReconnected, SupStep, OneHandler, Handling, Core, TypeOK
    <2> QED
      BY <1>5, <2>1, <2>2, <2>3, <2>4 DEF superviseReconnects
  <1>6. CASE Run \/ Signal
    <2>1. CASE Connect
        <3>1. connDone = None /\ \A g \in Goroutines : gpc[g] = "none"
          BY <2>1 DEF Connect, Core, Dialler, AllClosed
        <3> QED
          BY <2>1, <3>1 DEF Connect, OneHandler, Handling
    <2>2. CASE ConnectFails \/ Signal \/ CloseCancel \/ CloseReturns
      BY <2>2
         DEF ConnectFails, Signal, CloseCancel, CloseReturns, OneHandler, Handling,
             Core, TypeOK
    <2>3. CASE StartWorkers
      BY <2>3 DEF StartWorkers, GoTo, OneHandler, Handling, Core, TypeOK
    <2>4. CASE Close
      BY <2>4 DEF Close, OneHandler, Handling, Core, TypeOK
    <2>5. CASE CloseConn
      BY <2>5 DEF CloseConn, CloseSocket, OneHandler, Handling, Core, TypeOK
    <2>6. CASE CloseSignal
        <3>1. ctx' = "done"
          BY <2>6 DEF CloseSignal, Core, Dialler
        <3> QED
          BY <3>1 DEF OneHandler
    <2> QED
      BY <1>6, <2>1, <2>2, <2>3, <2>4, <2>5, <2>6 DEF Run
  <1>7. CASE logSyncLoop
    <2>1. CASE SyncTakeConn
      BY <2>1 DEF SyncTakeConn, GoTo, OneHandler, Handling, Core, TypeOK
    <2>2. CASE SyncWritten
      BY <2>2 DEF SyncWritten, GoTo, OneHandler, Handling, Core, TypeOK
    <2>3. CASE SyncFails \/ SyncCancelled
      BY <1>2, <2>3 DEF SyncFails, SyncCancelled, Fails, Moves, Syncer
    <2> QED
      BY <1>3, <1>7, <2>1, <2>2, <2>3 DEF logSyncLoop
  <1>8. ASSUME NEW c \in Conns, readPump(c) \/ writePump(c) \/ HeartbeatCancelled(c)
        PROVE  OneHandler'
    <2>1. /\ <<"read", c>> \in Pumps /\ <<"write", c>> \in Pumps
          /\ "beat" \in Loops => <<"beat", c>> \in Pumps
      BY LoopsAssumption DEF LoopsAssumption, Goroutines, Pumps
    <2>2. CASE ReadPumpLoop(c) \/ ReadPumpMessage(c) \/ ReadPumpDispatched(c) \/ ReadPumpFails(c)
      BY <1>2, <2>1, <2>2 DEF ReadPumpLoop, ReadPumpMessage, ReadPumpDispatched, ReadPumpFails,
         Fails, ReadsUnlessCancelled, Moves
    <2>3. CASE WritePumpFails(c) \/ WritePumpCancelled(c) \/ HeartbeatCancelled(c)
      BY <1>2, <2>1, <2>3 DEF WritePumpFails, WritePumpCancelled, HeartbeatCancelled, Fails, Moves
    <2> QED
      BY <1>3, <1>8, <2>1, <2>2, <2>3 DEF readPump, writePump
  <1>9. ASSUME NEW c \in Conns, Break(c) PROVE OneHandler'
    BY <1>9 DEF Break, OneHandler, Handling, Core, TypeOK
  <1> QED
    BY <1>1, <1>4, <1>5, <1>6, <1>7, <1>8, <1>9 DEF Next, Stopped

(* The pumps of a connection that is over find their context cancelled.         *)
LEMMA NextPumpsLetGo == IInv /\ PromptInv /\ [Next]_vars => PumpsLetGo'
  <1> SUFFICES ASSUME IInv, PromptInv, [Next]_vars PROVE PumpsLetGo'
    OBVIOUS
  <1> USE Names DEF IInv, PromptInv, mgrVars, connVars, goVars, dialVars, supVars, mainVars
  <1>1. CASE UNCHANGED vars
    BY <1>1 DEF vars, PumpsLetGo, LetGo, Core, TypeOK
  <1>2. ASSUME NEW g \in Goroutines, NEW from, NEW to, GoStep(g, from, to), Moves(g, from, to)
        PROVE  PumpsLetGo'
    BY <1>2 DEF GoStep, GoTo, Moves, PumpsLetGo, LetGo, Core, TypeOK
  <1>3. ASSUME NEW g \in Goroutines, handleDisconnect(g) PROVE PumpsLetGo'
    <2>1. CASE DisconnectTake(g)
        <3>1. /\ \A h \in Goroutines \ {g} : gpc'[h] = gpc[h] /\ took'[h] = took[h]
              /\ UNCHANGED <<connDone, cancelled, dial, cand>> /\ gpc[g] = "failed"
              /\ \A h \in Pumps : own'[h] = own[h]
          BY <2>1 DEF DisconnectTake, GoTo, Core, TypeOK
        <3>2. conn # None => gpc'[g] = "cancel" /\ took'[g].cancel = conn
          BY <2>1 DEF DisconnectTake, GoTo, Core, TypeOK, Whole
        <3>3. \A c \in Conns : LetGo(c) => LetGo(c)'
          BY <3>1, <3>2 DEF LetGo
        <3>4. /\ \A h \in Pumps : own[h] \in Conns /\ (gpc'[h] # "none" => gpc[h] # "none")
              /\ connDone # None => connDone \in Conns
          BY <3>1 DEF Core, Handlers, TypeOK
        <3> QED
          BY <3>1, <3>3, <3>4 DEF PumpsLetGo
    <2>2. CASE DisconnectCancel(g)
        <3>1. /\ \A h \in Goroutines \ {g} : gpc'[h] = gpc[h]
              /\ UNCHANGED <<conn, connDone, took, own, dial, cand>> /\ gpc[g] = "cancel"
              /\ cancelled' = cancelled \cup ({took[g].cancel} \ {None})
          BY <2>2 DEF DisconnectCancel, GoTo, Core, TypeOK
        <3>2. \A c \in Conns : LetGo(c) => LetGo(c)'
          BY <3>1 DEF LetGo
        <3>3. /\ \A h \in Pumps : own[h] \in Conns /\ (gpc'[h] # "none" => gpc[h] # "none")
              /\ connDone # None => connDone \in Conns
          BY <3>1 DEF Core, Handlers, TypeOK
        <3> QED
          BY <3>1, <3>2, <3>3 DEF PumpsLetGo
    <2>3. CASE DisconnectClose(g)
      BY <2>3 DEF DisconnectClose, GoTo, CloseSocket, PumpsLetGo, LetGo, Core, TypeOK
    <2>4. CASE DisconnectSignal(g)
      BY <2>4
         DEF DisconnectSignal, GoTo, Resume, Nothing, SignalOnce, PumpsLetGo, LetGo,
             Core, TypeOK
    <2> QED
      BY <1>3, <2>1, <2>2, <2>3, <2>4 DEF handleDisconnect
  <1>4. CASE connectOnce
    <2>1. CASE DialFails \/ Auth
      BY <2>1 DEF DialFails, Auth, PumpsLetGo, LetGo, Core, TypeOK
    <2>2. ASSUME NEW c \in Conns, Dial(c) PROVE PumpsLetGo'
      BY <2>2 DEF Dial, Unused, PumpsLetGo, LetGo, Core, TypeOK
    <2>3. CASE AuthFails
      BY <2>3 DEF AuthFails, PumpsLetGo, LetGo, Core, TypeOK
    <2>4. CASE Install
        <3>1. /\ conn = None /\ cand \in Conns /\ conn' = cand /\ connDone' = cand
              /\ UNCHANGED <<cancelled, gpc, took, own, cand>>
          BY <2>4 DEF Install, InUse, Core, TypeOK, Candidate
        <3>2. \A c \in Conns : LetGo(c) => LetGo(c)'
          BY <3>1 DEF LetGo
        <3>3. LetGo(connDone)' /\ \A h \in Pumps : own[h] \in Conns
          BY <3>1 DEF LetGo, Core, Handlers
        <3> QED
          BY <3>1, <3>2, <3>3 DEF PumpsLetGo
    <2>5. CASE StartPumps
        <3>1. /\ UNCHANGED <<conn, connDone, cancelled, took, own>> /\ dial' = "ok"
              /\ cand = connDone /\ cand # None /\ gpc'[Syncer] = gpc[Syncer]
              /\ \A h \in Pumps : gpc'[h] = IF own[h] = cand THEN "run" ELSE gpc[h]
          BY <2>5 DEF StartPumps, Core, Candidate, PumpsLetGo
        <3>2. \A h \in Pumps : own[h] = cand => gpc[h] = "none"
          BY <2>5 DEF StartPumps, Core, Candidate, Handlers
        <3>3. \A c \in Conns : LetGo(c) => LetGo(c)'
          <4>1. \A h \in Goroutines : gpc[h] = "cancel" => gpc'[h] = "cancel"
            BY <3>1, <3>2
          <4> QED
            BY <3>1, <4>1 DEF LetGo
        <3>4. connDone \in Conns /\ \A h \in Pumps : own[h] \in Conns
          BY <3>1 DEF Core, Handlers, TypeOK
        <3> QED
          BY <3>1, <3>3, <3>4 DEF PumpsLetGo
    <2> QED
      BY <1>4, <2>1, <2>2, <2>3, <2>4, <2>5 DEF connectOnce
  <1>5. CASE superviseReconnects
    <2>1. CASE SupLoop \/ SupCancelled
      BY <2>1 DEF SupLoop, SupCancelled, SupStep, PumpsLetGo, LetGo, Core, TypeOK
    <2>2. CASE SupLost
      BY <2>2 DEF SupLost, SupStep, PumpsLetGo, LetGo, Core, TypeOK
    <2>3. CASE SupTimer
      BY <2>3 DEF SupTimer, SupStep, PumpsLetGo, LetGo, Core, TypeOK
    <2>4. CASE SupFailed \/ SupReconnected
      BY <2>4 DEF SupFailed, SupReconnected, SupStep, PumpsLetGo, LetGo, Core, TypeOK
    <2> QED
      BY <1>5, <2>1, <2>2, <2>3, <2>4 DEF superviseReconnects
  <1>6. CASE Run \/ Signal
    <2>1. CASE Connect
      BY <2>1 DEF Connect, PumpsLetGo, LetGo, Core, TypeOK
    <2>2. CASE ConnectFails \/ Signal \/ CloseCancel \/ CloseReturns
      BY <2>2 DEF ConnectFails, Signal, CloseCancel, CloseReturns, PumpsLetGo, LetGo, Core, TypeOK
    <2>3. CASE StartWorkers
        <3>1. gpc[Syncer] = "none" /\ \A g \in Goroutines \ {Syncer} : gpc'[g] = gpc[g]
          BY <2>3 DEF StartWorkers, GoTo, Core, Dialler, TypeOK
        <3> QED
          BY <2>3, <3>1 DEF StartWorkers, PumpsLetGo, LetGo
    <2>4. CASE Close
      BY <2>4 DEF Close, PumpsLetGo, LetGo, Core, TypeOK
    <2>5. CASE CloseConn
      BY <2>5 DEF CloseConn, CloseSocket, PumpsLetGo, LetGo, Core, TypeOK
    <2>6. CASE CloseSignal
      BY <2>6 DEF CloseSignal, SignalOnce, PumpsLetGo, LetGo, Core, TypeOK
    <2> QED
      BY <1>6, <2>1, <2>2, <2>3, <2>4, <2>5, <2>6 DEF Run
  <1>7. CASE logSyncLoop
    <2>1. CASE SyncTakeConn
      BY <2>1 DEF SyncTakeConn, GoTo, PumpsLetGo, LetGo, Core, TypeOK
    <2>2. CASE SyncWritten
      BY <2>2 DEF SyncWritten, GoTo, PumpsLetGo, LetGo, Core, TypeOK
    <2>3. CASE SyncFails \/ SyncCancelled
      BY <1>2, <2>3 DEF SyncFails, SyncCancelled, Fails, Moves, Syncer
    <2> QED
      BY <1>3, <1>7, <2>1, <2>2, <2>3 DEF logSyncLoop
  <1>8. ASSUME NEW c \in Conns, readPump(c) \/ writePump(c) \/ HeartbeatCancelled(c)
        PROVE  PumpsLetGo'
    <2>1. /\ <<"read", c>> \in Pumps /\ <<"write", c>> \in Pumps
          /\ "beat" \in Loops => <<"beat", c>> \in Pumps
      BY LoopsAssumption DEF LoopsAssumption, Goroutines, Pumps
    <2>2. CASE ReadPumpLoop(c) \/ ReadPumpMessage(c) \/ ReadPumpDispatched(c) \/ ReadPumpFails(c)
      BY <1>2, <2>1, <2>2 DEF ReadPumpLoop, ReadPumpMessage, ReadPumpDispatched, ReadPumpFails,
         Fails, ReadsUnlessCancelled, Moves
    <2>3. CASE WritePumpFails(c) \/ WritePumpCancelled(c) \/ HeartbeatCancelled(c)
      BY <1>2, <2>1, <2>3 DEF WritePumpFails, WritePumpCancelled, HeartbeatCancelled, Fails, Moves
    <2> QED
      BY <1>3, <1>8, <2>1, <2>2, <2>3 DEF readPump, writePump
  <1>9. ASSUME NEW c \in Conns, Break(c) PROVE PumpsLetGo'
    BY <1>9 DEF Break, PumpsLetGo, LetGo, Core, TypeOK
  <1> QED
    BY <1>1, <1>4, <1>5, <1>6, <1>7, <1>8, <1>9 DEF Next, Stopped

(* No socket is open before and between connections.                           *)
LEMMA NextAllClosed == IInv /\ PromptInv /\ [Next]_vars => AllClosed'
  <1> SUFFICES ASSUME IInv, PromptInv, [Next]_vars PROVE AllClosed'
    OBVIOUS
  <1> USE Names DEF IInv, PromptInv, mgrVars, connVars, goVars, dialVars, supVars, mainVars
  <1>1. CASE UNCHANGED vars
    BY <1>1 DEF vars, AllClosed, Held, Core, TypeOK
  <1>2. ASSUME NEW g \in Goroutines, NEW from, NEW to, GoStep(g, from, to), Moves(g, from, to)
        PROVE  AllClosed'
      <2>1. /\ \A h \in Goroutines \ {g} : gpc'[h] = gpc[h]
            /\ gpc[g] = from /\ gpc'[g] = to /\ from # "none"
            /\ UNCHANGED <<sup, dial, sock, conn, cand, own, main>>
        BY <1>2 DEF GoStep, GoTo, Moves, Core, TypeOK
      <2>2. \A h \in Pumps : gpc'[h] # "none" => gpc[h] # "none"
        BY <2>1
      <2>3. gpc'[Syncer] \in {"write", "failed"} => gpc[Syncer] \in {"write", "failed"}
        BY <1>2, <2>1 DEF Moves
      <2>4. gpc'[Syncer] # "read"
        BY <1>2, <2>1 DEF Moves, AllClosed
      <2>5. main # "start"
        BY <2>1 DEF AllClosed
      <2> QED
        BY <2>1, <2>2, <2>3, <2>4, <2>5 DEF AllClosed, Held
  <1>3. ASSUME NEW g \in Goroutines, handleDisconnect(g) PROVE AllClosed'
    <2>1. CASE DisconnectTake(g)
      BY <2>1 DEF DisconnectTake, GoTo, Resume, Nothing, AllClosed, Held, Core, TypeOK
    <2>2. CASE DisconnectCancel(g)
      BY <2>2 DEF DisconnectCancel, GoTo, AllClosed, Held, Core, TypeOK
    <2>3. CASE DisconnectClose(g)
        <3>1. /\ \A h \in Goroutines \ {g} : gpc'[h] = gpc[h]
              /\ gpc[g] = "close" /\ gpc'[g] = "signal" /\ main # "start"
              /\ UNCHANGED <<sup, dial, conn, cand, own, main>>
          BY <2>3 DEF DisconnectClose, GoTo, Core, TypeOK, AllClosed
        <3>2. \A c \in Conns : sock'[c] = IF c = took[g].conn THEN "closed" ELSE sock[c]
          BY <2>3 DEF DisconnectClose, CloseSocket
        <3>3. /\ \A h \in Pumps : own[h] \in Conns /\ (gpc'[h] # "none" => gpc[h] # "none")
              /\ conn # None => conn \in Conns
              /\ dial \in {"auth", "install", "pumps"} => cand \in Conns
          BY <3>1 DEF Core, Handlers, Candidate, TypeOK
        <3>4. gpc'[Syncer] \in {"write", "failed", "read"} =>
                 gpc[Syncer] \in {"write", "failed", "read"}
          BY <3>1
        <3> QED
          BY <3>1, <3>2, <3>3, <3>4 DEF AllClosed, Held
    <2>4. CASE DisconnectSignal(g)
      BY <2>4 DEF DisconnectSignal, GoTo, Resume, Nothing, SignalOnce, AllClosed, Held, Core, TypeOK
    <2> QED
      BY <1>3, <2>1, <2>2, <2>3, <2>4 DEF handleDisconnect
  <1>4. CASE connectOnce
    <2>1. CASE DialFails \/ Auth
      BY <2>1 DEF DialFails, Auth, AllClosed, Held, Core, TypeOK
    <2>2. ASSUME NEW c \in Conns, Dial(c) PROVE AllClosed'
        <3>1. /\ sup # "backoff" /\ main # "start" /\ conn = None /\ dial' = "auth" /\ cand' = c
              /\ UNCHANGED <<sup, main, conn, gpc, own>>
              /\ \A d \in Conns : sock'[d] = IF d = c THEN "open" ELSE sock[d]
          BY <2>2 DEF Dial, Core, Dialler, InUse, TypeOK
        <3>2. \A h \in Pumps : own[h] \in Conns
          BY DEF Core, Handlers
        <3> QED
          BY <2>2, <3>1, <3>2 DEF AllClosed, Held
    <2>3. CASE AuthFails
        <3>1. /\ dial = "auth" /\ dial' = "failed" /\ cand \in Conns
              /\ UNCHANGED <<sup, main, conn, gpc, own>>
              /\ \A d \in Conns : sock'[d] = IF d = cand THEN "closed" ELSE sock[d]
          BY <2>3 DEF AuthFails, Core, Candidate, TypeOK
        <3>2. \A d \in Conns : ~Held(d)'
          BY <3>1 DEF Core, Sockets, Held
        <3>3. \A h \in Pumps : own[h] \in Conns
          BY DEF Core, Handlers
        <3>4. conn # None => conn \in Conns
          BY DEF Core, TypeOK
        <3> QED
          BY <3>1, <3>2, <3>3, <3>4 DEF AllClosed
    <2>4. CASE Install
      BY <2>4 DEF Install, AllClosed, Held, Core, TypeOK
    <2>5. CASE StartPumps
        <3>1. /\ dial = "pumps" /\ dial' = "ok" /\ UNCHANGED <<sup, main, conn, sock, own>>
              /\ main # "start" /\ gpc'[Syncer] = gpc[Syncer]
              /\ \A h \in Pumps : gpc'[h] = IF own[h] = cand THEN "run" ELSE gpc[h]
          BY <2>5 DEF StartPumps, Core, Dialler
        <3> QED
          BY <3>1 DEF AllClosed, Held
    <2> QED
      BY <1>4, <2>1, <2>2, <2>3, <2>4, <2>5 DEF connectOnce
  <1>5. CASE superviseReconnects
    <2>1. CASE SupLoop \/ SupCancelled
      BY <2>1 DEF SupLoop, SupCancelled, SupStep, AllClosed, Held, Core, TypeOK
    <2>2. CASE SupLost
        <3>1. sup' = "backoff" => \A c \in Conns : ~Held(c)
          BY <2>2 DEF SupLost, SupStep, Core, Sockets, Dialler, TypeOK
        <3> QED
          BY <2>2, <3>1 DEF SupLost, SupStep, AllClosed, Held
    <2>3. CASE SupTimer
      BY <2>3 DEF SupTimer, SupStep, AllClosed, Held, Core, TypeOK
    <2>4. CASE SupFailed \/ SupReconnected
      BY <2>4 DEF SupFailed, SupReconnected, SupStep, AllClosed, Held, Core, TypeOK
    <2> QED
      BY <1>5, <2>1, <2>2, <2>3, <2>4 DEF superviseReconnects
  <1>6. CASE Run \/ Signal
    <2>1. CASE Connect
        <3>1. \A c \in Conns : ~Held(c)
          BY <2>1 DEF Connect, Core, Dialler, Sockets
        <3> QED
          BY <2>1, <3>1 DEF Connect, AllClosed, Held
    <2>2. CASE ConnectFails \/ Signal \/ CloseCancel \/ CloseReturns
      BY <2>2 DEF ConnectFails, Signal, CloseCancel, CloseReturns, AllClosed, Held, Core, TypeOK
    <2>3. CASE StartWorkers
      BY <2>3 DEF StartWorkers, GoTo, AllClosed, Held, Core, TypeOK
    <2>4. CASE Close
      BY <2>4 DEF Close, AllClosed, Held, Core, TypeOK
    <2>5. CASE CloseConn
        <3>1. \A c \in Conns : sock'[c] = IF c = mtook.conn THEN "closed" ELSE sock[c]
          BY <2>5 DEF CloseConn, CloseSocket
        <3>2. UNCHANGED <<sup, dial, conn, cand, own, gpc>> /\ main' # "start"
          BY <2>5 DEF CloseConn
        <3>3. /\ \A h \in Pumps : own[h] \in Conns
              /\ conn # None => conn \in Conns
              /\ dial \in {"auth", "install", "pumps"} => cand \in Conns
          BY DEF Core, Handlers, Candidate, TypeOK
        <3> QED
          BY <3>1, <3>2, <3>3 DEF AllClosed, Held
    <2>6. CASE CloseSignal
      BY <2>6 DEF CloseSignal, SignalOnce, AllClosed, Held, Core, TypeOK
    <2> QED
      BY <1>6, <2>1, <2>2, <2>3, <2>4, <2>5, <2>6 DEF Run
  <1>7. CASE logSyncLoop
    <2>1. CASE SyncTakeConn
      BY <2>1 DEF SyncTakeConn, GoTo, AllClosed, Held, Core, TypeOK
    <2>2. CASE SyncWritten
      BY <2>2 DEF SyncWritten, GoTo, AllClosed, Held, Core, TypeOK
    <2>3. CASE SyncFails \/ SyncCancelled
      BY <1>2, <2>3 DEF SyncFails, SyncCancelled, Fails, Moves, Syncer
    <2> QED
      BY <1>3, <1>7, <2>1, <2>2, <2>3 DEF logSyncLoop
  <1>8. ASSUME NEW c \in Conns, readPump(c) \/ writePump(c) \/ HeartbeatCancelled(c)
        PROVE  AllClosed'
    <2>1. /\ <<"read", c>> \in Pumps /\ <<"write", c>> \in Pumps
          /\ "beat" \in Loops => <<"beat", c>> \in Pumps
      BY LoopsAssumption DEF LoopsAssumption, Goroutines, Pumps
    <2>2. CASE ReadPumpLoop(c) \/ ReadPumpMessage(c) \/ ReadPumpDispatched(c) \/ ReadPumpFails(c)
      BY <1>2, <2>1, <2>2 DEF ReadPumpLoop, ReadPumpMessage, ReadPumpDispatched, ReadPumpFails,
         Fails, ReadsUnlessCancelled, Moves
    <2>3. CASE WritePumpFails(c) \/ WritePumpCancelled(c) \/ HeartbeatCancelled(c)
      BY <1>2, <2>1, <2>3 DEF WritePumpFails, WritePumpCancelled, HeartbeatCancelled, Fails, Moves
    <2> QED
      BY <1>3, <1>8, <2>1, <2>2, <2>3 DEF readPump, writePump
  <1>9. ASSUME NEW c \in Conns, Break(c) PROVE AllClosed'
    BY <1>9 DEF Break, AllClosed, Held, Core, TypeOK
  <1> QED
    BY <1>1, <1>4, <1>5, <1>6, <1>7, <1>8, <1>9 DEF Next, Stopped

(* With prompt goroutines, who may find its connection dead has the one in use. *)
LEMMA NextTimely == IInv /\ PromptInv /\ Prompt /\ [Next]_vars => Timely'
  <1> SUFFICES ASSUME IInv, PromptInv, Prompt, [Next]_vars PROVE Timely'
    OBVIOUS
  <1> USE Names DEF IInv, PromptInv, mgrVars, connVars, goVars, dialVars, supVars, mainVars
  <1>1. CASE UNCHANGED vars
    BY <1>1 DEF vars, Timely, Using, Core, TypeOK
  <1>2. ASSUME NEW g \in Goroutines, NEW from, NEW to, GoStep(g, from, to), Moves(g, from, to)
        PROVE  Timely'
      <2> SUFFICES ASSUME connected \/ dial \in {"dial", "auth", "install"},
                          NEW h \in Goroutines, Using(h)'
                   PROVE  own[h] = conn
        BY <1>2 DEF GoStep, Timely
      <2>1. /\ \A k \in Goroutines \ {g} : gpc'[k] = gpc[k]
            /\ gpc[g] = from /\ gpc'[g] = to
        BY <1>2 DEF GoStep, GoTo, Core, TypeOK
      <2>2. CASE Using(h)
        BY <2>2 DEF Timely
      <2>3. CASE ~Using(h)
        <3>1. h = g /\ g \in Pumps /\ ~Cancelled(own[g]) /\ gpc[g] # "none"
          BY <1>2, <2>1, <2>3 DEF Using, Moves, Core, Handlers
        <3>2. \A k \in Goroutines : ~Handling(k)
          BY <3>1, NobodyHandles DEF Cancelled
        <3> QED
          BY <3>1, <3>2 DEF PumpsLetGo, LetGo, Cancelled, Handling
      <2> QED
        BY <2>2, <2>3
  <1>3. ASSUME NEW g \in Goroutines, handleDisconnect(g) PROVE Timely'
    <2>1. CASE DisconnectTake(g)
        <3>1. ~connected' /\ conn' = None /\ dial' = dial
          BY <2>1 DEF DisconnectTake
        <3>2. CASE connected
          BY <3>1, <3>2 DEF Timely, InUse, Core, Whole
        <3>3. CASE ~connected
          <4>1. /\ ~Using(g)'
                /\ \A h \in Goroutines \ {g} : (Using(h)' => Using(h)) /\ own'[h] = own[h]
            BY <2>1, <3>3 DEF DisconnectTake, GoTo, Resume, Using, Syncer, Core, TypeOK
          <4>2. conn' = conn
            BY <3>1, <3>3 DEF Core, Whole
          <4> QED
            BY <3>1, <4>1, <4>2 DEF Timely
        <3> QED
          BY <3>2, <3>3
    <2>2. CASE DisconnectCancel(g)
      BY <2>2 DEF DisconnectCancel, GoTo, Timely, Using, Core, TypeOK
    <2>3. CASE DisconnectClose(g)
      BY <2>3 DEF DisconnectClose, GoTo, CloseSocket, Timely, Using, Core, TypeOK
    <2>4. CASE DisconnectSignal(g)
        <3>1. \A h \in Goroutines : Using(h)' => Using(h)
          BY <2>4 DEF DisconnectSignal, GoTo, Resume, Using, Syncer, Core, TypeOK
        <3> QED
          BY <2>4, <3>1 DEF DisconnectSignal, Timely
    <2> QED
      BY <1>3, <2>1, <2>2, <2>3, <2>4 DEF handleDisconnect
  <1>4. CASE connectOnce
    <2>1. CASE DialFails \/ Auth
      BY <2>1 DEF DialFails, Auth, Timely, Using, Core, TypeOK
    <2>2. ASSUME NEW c \in Conns, Dial(c) PROVE Timely'
      BY <2>2 DEF Dial, Unused, Timely, Using, Core, TypeOK
    <2>3. CASE AuthFails
      BY <2>3 DEF AuthFails, Timely, Using, Core, TypeOK
    <2>4. CASE Install
        <3>1. \A h \in Goroutines : Using(h) => own[h] = None
          BY <2>4 DEF Install, Timely, InUse
        <3>2. \A h \in Goroutines : ~Using(h)
          <4>1. \A h \in Pumps : own[h] \in Conns
            BY DEF Core, Handlers
          <4>2. Using(Syncer) => own[Syncer] \in Conns
            BY DEF AllClosed, Using, Syncer
          <4> QED
            BY <3>1, <4>1, <4>2
        <3> QED
          BY <2>4, <3>2 DEF Install, Timely, Using
    <2>5. CASE StartPumps
        <3> SUFFICES ASSUME connected, NEW h \in Goroutines, Using(h)' PROVE own[h] = conn
          BY <2>5 DEF StartPumps, Timely
        <3>1. CASE Using(h)
          BY <3>1 DEF Timely
        <3>2. CASE ~Using(h)
          <4>1. own[h] = cand /\ cand = connDone
            BY <2>5, <3>2 DEF StartPumps, Using, PumpsLetGo
          <4> QED
            BY <4>1 DEF Core, Whole
        <3> QED
          BY <3>1, <3>2
    <2> QED
      BY <1>4, <2>1, <2>2, <2>3, <2>4, <2>5 DEF connectOnce
  <1>5. CASE superviseReconnects
    <2>1. CASE SupLoop \/ SupCancelled
      BY <2>1 DEF SupLoop, SupCancelled, SupStep, Timely, Using, Core, TypeOK
    <2>2. CASE SupLost
      BY <2>2 DEF SupLost, SupStep, Timely, Using, Core, TypeOK
    <2>3. CASE SupTimer
        <3>1. sup = "backoff" /\ UNCHANGED <<gpc, own, sock>> /\ \A g \in Goroutines : ~Lagging(g)
          BY <2>3 DEF SupTimer, SupStep
        <3>2. \A g \in Goroutines : Using(g) =>
                 gpc[g] # "none" /\ gpc[g] # "failed" /\ sock[own[g]] # "closed"
          BY <3>1 DEF Using, Lagging
        <3>3. \A g \in Goroutines : Using(g) => own[g] \in Conns /\ sock[own[g]] # "none"
          <4>1. \A g \in Pumps : Using(g) => own[g] \in Conns /\ sock[own[g]] # "none"
            BY <3>2 DEF Core, Handlers, AllClosed
          <4>2. Using(Syncer) => own[Syncer] \in Conns /\ sock[own[Syncer]] # "none"
            BY DEF AllClosed, Using, Syncer
          <4> QED
            BY <4>1, <4>2
        <3>4. \A g \in Goroutines : ~Using(g)
          BY <3>1, <3>2, <3>3 DEF AllClosed, Held, Core, TypeOK
        <3> QED
          BY <3>1, <3>4 DEF Timely, Using
    <2>4. CASE SupFailed \/ SupReconnected
      BY <2>4 DEF SupFailed, SupReconnected, SupStep, Timely, Using, Core, TypeOK
    <2> QED
      BY <1>5, <2>1, <2>2, <2>3, <2>4 DEF superviseReconnects
  <1>6. CASE Run \/ Signal
    <2>1. CASE Connect
        <3>1. \A g \in Goroutines : gpc'[g] = "none"
          BY <2>1 DEF Connect, AllClosed
        <3> QED
          BY <3>1 DEF Timely, Using
    <2>2. CASE ConnectFails \/ Signal \/ CloseCancel \/ CloseReturns
      BY <2>2 DEF ConnectFails, Signal, CloseCancel, CloseReturns, Timely, Using, Core, TypeOK
    <2>3. CASE StartWorkers
        <3>1. \A h \in Goroutines : Using(h)' => Using(h)
          BY <2>3 DEF StartWorkers, GoTo, Using, Syncer, Core, TypeOK
        <3> QED
          BY <2>3, <3>1 DEF StartWorkers, Timely
    <2>4. CASE Close
      BY <2>4 DEF Close, Timely, Using, Core, TypeOK
    <2>5. CASE CloseConn
      BY <2>5 DEF CloseConn, CloseSocket, Timely, Using, Core, TypeOK
    <2>6. CASE CloseSignal
      BY <2>6 DEF CloseSignal, SignalOnce, Timely, Using, Core, TypeOK
    <2> QED
      BY <1>6, <2>1, <2>2, <2>3, <2>4, <2>5, <2>6 DEF Run
  <1>7. CASE logSyncLoop
    <2>1. CASE SyncTakeConn
      BY <2>1 DEF SyncTakeConn, GoTo, Timely, Using, Core, TypeOK
    <2>2. CASE SyncWritten
        <3>1. \A h \in Goroutines : Using(h)' => Using(h) /\ h # Syncer
          BY <2>2 DEF SyncWritten, GoTo, Using, Syncer, Core, TypeOK
        <3> QED
          BY <2>2, <3>1 DEF SyncWritten, Timely, Core, TypeOK
    <2>3. CASE SyncFails \/ SyncCancelled
      BY <1>2, <2>3 DEF SyncFails, SyncCancelled, Fails, Moves, Syncer
    <2> QED
      BY <1>3, <1>7, <2>1, <2>2, <2>3 DEF logSyncLoop
  <1>8. ASSUME NEW c \in Conns, readPump(c) \/ writePump(c) \/ HeartbeatCancelled(c)
        PROVE  Timely'
    <2>1. /\ <<"read", c>> \in Pumps /\ <<"write", c>> \in Pumps
          /\ "beat" \in Loops => <<"beat", c>> \in Pumps
      BY LoopsAssumption DEF LoopsAssumption, Goroutines, Pumps
    <2>2. CASE ReadPumpLoop(c) \/ ReadPumpMessage(c) \/ ReadPumpDispatched(c) \/ ReadPumpFails(c)
      BY <1>2, <2>1, <2>2 DEF ReadPumpLoop, ReadPumpMessage, ReadPumpDispatched, ReadPumpFails,
         Fails, ReadsUnlessCancelled, Moves
    <2>3. CASE WritePumpFails(c) \/ WritePumpCancelled(c) \/ HeartbeatCancelled(c)
      BY <1>2, <2>1, <2>3 DEF WritePumpFails, WritePumpCancelled, HeartbeatCancelled, Fails, Moves
    <2> QED
      BY <1>3, <1>8, <2>1, <2>2, <2>3 DEF readPump, writePump
  <1>9. ASSUME NEW c \in Conns, Break(c) PROVE Timely'
    BY <1>9 DEF Break, Timely, Using, Core, TypeOK
  <1> QED
    BY <1>1, <1>4, <1>5, <1>6, <1>7, <1>8, <1>9 DEF Next, Stopped

LEMMA NextPromptInv == IInv /\ PromptInv /\ [Next]_vars => PromptInv'
  BY NextOneHandler, NextPumpsLetGo, NextAllClosed, NextTimely DEF PromptInv

LEMMA InitPromptInv == Init => PromptInv
  <1> SUFFICES ASSUME Init PROVE PromptInv
    OBVIOUS
  <1> USE Names DEF Init
  <1>1. OneHandler /\ PumpsLetGo /\ AllClosed
    BY DEF OneHandler, Handling, PumpsLetGo, AllClosed
  <1>2. Timely
    BY DEF Timely, Using
  <1> QED
    BY <1>1, <1>2 DEF PromptInv

(* If goroutines are prompt, a connection in use is only torn down by one that  *)
(* used it: handleDisconnect takes down whatever is current, and nobody is late *)
(* when there is another.                                                      *)
THEOREM TearsDownItsOwnHolds == ASSUME Prompt PROVE Spec => TearsDownItsOwn
  <1>1. Spec => []PromptInv
    BY InductiveInvariant, InitPromptInv, NextPromptInv, PTL DEF Spec
  <1>2. IInv /\ PromptInv =>
           \A g \in Goroutines : DisconnectTake(g) /\ connected => conn = own[g]
    BY Prompt DEF PromptInv, Timely, Using, DisconnectTake
  <1>3. IInv /\ PromptInv /\ [Next]_vars =>
           [\A g \in Goroutines : DisconnectTake(g) /\ connected => conn = own[g]]_vars
    BY <1>2
  <1> QED
    BY <1>1, <1>3, InductiveInvariant, PTL DEF Spec, TearsDownItsOwn
===============================================================================
