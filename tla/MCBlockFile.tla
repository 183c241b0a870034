----------------------------- MODULE MCBlockFile -----------------------------
(* TLC instance of BlockFile: items of one and of two cells under two keys *)
(* whose hashes collide, so that a marker alone does not tell whose row it *)
(* delimits.                                                               *)
EXTENDS BlockFile, TLC

CONSTANTS a, b, short, long

MCKeys == {a, b}
MCHash == (a :> 7) @@ (b :> 7)
MCSize == (short :> 1) @@ (long :> 2)

(* With one hash the keys play the same part.                              *)
Symm == Permutations(Keys)
=============================================================================
