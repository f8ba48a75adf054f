------------------------------ MODULE MCBotLive -------------------------------
(* BotManager with a bound on what the platform sends, so that its liveness    *)
(* can be checked with two bots: while StopAll goes from one to the other, the *)
(* read pump goes on starting them.                                            *)
EXTENDS MCBotManager

First(S) == CHOOSE x \in S : TRUE
Takes(w, b) == At(w, "idle") /\ ~At(w, "idle")' /\ bot'[w] = b

(* Of two bots, or incarnations, that nothing tells apart yet, the first is    *)
(* used first: this names them, and excludes nothing.                          *)
BotsInTurn ==
    \A w \in Handlers, b \in Bots \ {First(Bots)} :
        Takes(w, b) => reported[First(Bots)] # "none"
ProcsInTurn ==
    \A p \in Procs \ {First(Procs)} :
        os[p] # os'[p] => os[First(Procs)] # "none"

(* The bound: a command comes only as long as an incarnation is left to start, *)
(* and a start gets as far as its process.                                     *)
NoVainCommand ==
    \A w \in Handlers, b \in Bots :
        Takes(w, b) => \E p \in Procs : os[p] = "none"
NoEarlyFailure == \A w \in Handlers : ~At(w, "start.fail")'

(* A constraint on steps.  It leaves each worker that must go on a step to     *)
(* take: with one read pump no start loses its slot to another.                *)
Bound == BotsInTurn /\ ProcsInTurn /\ NoVainCommand /\ NoEarlyFailure
===============================================================================
