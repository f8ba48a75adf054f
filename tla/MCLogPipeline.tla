---------------------------- MODULE MCLogPipeline -----------------------------
(* Small instances of LogPipeline for TLC.                                     *)
EXTENDS LogPipeline, TLC

CONSTANTS l1, l2, l3, l4, old, bad

FoundNothing == <<>>
FoundOld == <<old>>
FoundBadAndOld == <<bad, old>>

Symmetry == Permutations(Logs \ {old, bad})
===============================================================================
