----------------------------- MODULE MCMapLoader -----------------------------
(* TLC instance of MapLoader: k1 and k2 share a data file, k3 has its own. *)
EXTENDS MapLoader, TLC

CONSTANTS k1, k2, k3, f1, f2

MCKeys == {k1, k2, k3}
MCFiles == {f1, f2}
MCFileOf == (k1 :> f1) @@ (k2 :> f1) @@ (k3 :> f2)

(* Values are only compared; k1 and k2 play the same part.                 *)
Symm == Permutations(Values) \cup Permutations({k1, k2})
=============================================================================
