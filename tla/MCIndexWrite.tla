---------------------------- MODULE MCIndexWrite ----------------------------
(* Model-checking instances of IndexWrite. *)
EXTENDS IndexWrite, TLC

CONSTANTS r1, r2, r3, x, y, u, v

(* Two copies of a session that differ, and one that has no turns.          *)
MCCopiedBlocks == r1 :> <<x>> @@ r2 :> <<x, y>> @@ r3 :> <<>>
MCCopiedUsage  == r1 :> <<u>> @@ r2 :> <<v, u>> @@ r3 :> <<>>

MCSymmetry == Permutations(Writers)
=============================================================================
