---------------------------- MODULE MCBotManager ------------------------------
(* Small instances of BotManager for TLC.  Bots, configurations, incarnations  *)
(* and handlers are interchangeable: no definition names one of them.          *)
EXTENDS BotManager, TLC

Symmetry == Permutations(Procs) \cup Permutations(Handlers)
                \cup Permutations(Bots) \cup Permutations(ValidConfigs)
===============================================================================
