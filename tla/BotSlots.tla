------------------------------- MODULE BotSlots -------------------------------
(* What the process manager promises about m.processes, without its            *)
(* goroutines: every bot has one slot, and a Python process that was started   *)
(* for the bot may take the slot once, if it is free, and leaves it dead.      *)

CONSTANTS Bots, Procs, None

VARIABLES
    slot,   \* the incarnation registered for a bot, or None
    life,   \* of an incarnation: "none", "alive" or "exited"
    home,   \* the bot an incarnation was started for
    used    \* the incarnations that have had a slot

vars == <<slot, life, home, used>>

Init == /\ slot = [b \in Bots |-> None]
        /\ life = [p \in Procs |-> "none"]
        /\ home = [p \in Procs |-> None]
        /\ used = {}

Launch(b, p) ==
    /\ life[p] = "none"
    /\ life' = [life EXCEPT ![p] = "alive"]
    /\ home' = [home EXCEPT ![p] = b]
    /\ UNCHANGED <<slot, used>>

Take(b, p) ==
    /\ slot[b] = None /\ home[p] = b /\ life[p] # "none" /\ p \notin used
    /\ slot' = [slot EXCEPT ![b] = p]
    /\ used' = used \cup {p}
    /\ UNCHANGED <<life, home>>

Die(p) ==
    /\ life[p] = "alive"
    /\ life' = [life EXCEPT ![p] = "exited"]
    /\ UNCHANGED <<slot, home, used>>

Leave(b) ==
    /\ slot[b] # None /\ life[slot[b]] = "exited"
    /\ slot' = [slot EXCEPT ![b] = None]
    /\ UNCHANGED <<life, home, used>>

Next == \/ \E b \in Bots, p \in Procs : Launch(b, p) \/ Take(b, p)
        \/ \E p \in Procs : Die(p)
        \/ \E b \in Bots : Leave(b)

Spec == Init /\ [][Next]_vars
===============================================================================
