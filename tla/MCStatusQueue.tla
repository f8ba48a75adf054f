---------------------------- MODULE MCStatusQueue -----------------------------
(* Small instances of StatusQueue for TLC.                                     *)
EXTENDS StatusQueue, TLC

Symmetry == Permutations(Conns) \cup Permutations(Procs)
===============================================================================
