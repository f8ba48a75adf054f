-------------------------------- MODULE Link ---------------------------------
(* What the connection manager promises the code that uses its connections:    *)
(* there is at most one open socket, a connection comes into use once, when it *)
(* has been dialled for that, and one that was let go or closed never comes    *)
(* back.  ConnManager implements it and StatusQueue builds on it.              *)
CONSTANTS Conns, None

VARIABLES
    conn,   \* the connection in use, or None
    cand,   \* the one dialled and not yet in use, or None
    sock    \* of each connection: "none", "open", "broken" or "closed"

Held(c) == sock[c] \in {"open", "broken"}

Init ==
    /\ conn = None /\ cand = None
    /\ sock = [c \in Conns |-> "none"]

Dial(c) ==
    /\ conn = None
    /\ \A d \in Conns : ~Held(d)
    /\ cand' = c
    /\ sock' = [sock EXCEPT ![c] = "open"]
    /\ UNCHANGED conn

Install ==
    /\ cand # None /\ conn = None /\ Held(cand)
    /\ conn' = cand /\ cand' = None
    /\ UNCHANGED sock

Drop ==
    /\ conn' = None
    /\ UNCHANGED <<cand, sock>>

Cut(c) ==
    /\ sock' = [sock EXCEPT ![c] = "closed"]
    /\ cand' = IF cand = c THEN None ELSE cand
    /\ UNCHANGED conn

Break(c) ==
    /\ sock[c] = "open"
    /\ sock' = [sock EXCEPT ![c] = "broken"]
    /\ UNCHANGED <<conn, cand>>

Next == Install \/ Drop \/ \E c \in Conns : Dial(c) \/ Cut(c) \/ Break(c)

Spec == Init /\ [][Next]_<<conn, cand, sock>>
===============================================================================
