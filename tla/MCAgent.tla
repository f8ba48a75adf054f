------------------------------- MODULE MCAgent --------------------------------
(* Small instances of Agent for TLC.                                           *)
EXTENDS Agent, TLC

(* Every command line, but with an empty value for no flag, one, or all.       *)
AllInvocations == CommandLine

Symmetry == Permutations(Bots) \cup Permutations(Procs) \cup Permutations(Pumps)
===============================================================================
