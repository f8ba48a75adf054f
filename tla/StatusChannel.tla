---------------------------- MODULE StatusChannel -----------------------------
(* What SendBotStatus promises its callers: statuses that are accepted reach   *)
(* the platform in the order they were accepted, each at most once; any of     *)
(* them may be lost on the way.  StatusQueue implements it.                    *)
EXTENDS Naturals, Sequences

CONSTANTS Messages, Bots, None

VARIABLES
    inFlight,  \* accepted, neither received nor lost
    view       \* the last status of each bot the platform has received

Init == inFlight = <<>> /\ view = [b \in Bots |-> None]

Received(m) == [b \in Bots |-> IF b = m.bot THEN m.status ELSE view[b]]

Accept(m) ==
    /\ inFlight' = Append(inFlight, m)
    /\ UNCHANGED view

Deliver ==
    /\ inFlight # <<>>
    /\ inFlight' = Tail(inFlight)
    /\ view' = Received(Head(inFlight))

LoseFirst ==
    /\ inFlight # <<>>
    /\ inFlight' = Tail(inFlight)
    /\ UNCHANGED view

LoseSecond ==
    /\ Len(inFlight) > 1
    /\ inFlight' = <<Head(inFlight)>> \o Tail(Tail(inFlight))
    /\ UNCHANGED view

Next == Deliver \/ LoseFirst \/ LoseSecond \/ \E m \in Messages : Accept(m)

Spec == Init /\ [][Next]_<<inFlight, view>>
===============================================================================
