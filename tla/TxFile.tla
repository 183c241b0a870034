-------------------------------- MODULE TxFile -------------------------------
(***************************************************************************)
(* What one block file promises to the container that keeps it: two        *)
(* versions of a small map.  Every write goes to the saved one; commit and *)
(* rollback move a whole version over the other.                           *)
(***************************************************************************)
CONSTANTS
    Keys,       \* the keys that can be stored in the file
    Values,     \* the items
    NoValue     \* not stored

VARIABLES saved, committed

vars == <<saved, committed>>

Init ==
    /\ saved = [k \in Keys |-> NoValue]
    /\ committed = saved

(* Items is a function from some of the keys to values.                    *)
Write(items) ==
    /\ saved' = [k \in Keys |-> IF k \in DOMAIN items THEN items[k]
                                                     ELSE saved[k]]
    /\ UNCHANGED committed

Erase(keys) ==
    /\ saved' = [k \in Keys |-> IF k \in keys THEN NoValue ELSE saved[k]]
    /\ UNCHANGED committed

Commit ==
    /\ committed' = saved
    /\ UNCHANGED saved

Rollback ==
    /\ saved' = committed
    /\ UNCHANGED committed

Next ==
    \/ \E keys \in SUBSET Keys :
           \/ Erase(keys)
           \/ \E items \in [keys -> Values] : Write(items)
    \/ Commit
    \/ Rollback

Spec == Init /\ [][Next]_vars
=============================================================================
