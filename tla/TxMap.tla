-------------------------------- MODULE TxMap --------------------------------
(***************************************************************************)
(* What a transactional associative container of libsystemutility          *)
(* (map_loader) promises to the code that holds it: three versions of one  *)
(* map, each overtaking the next one only by an explicit call.             *)
(*   view       what at(), keys() and contains() answer                    *)
(*   saved      what the open transaction would commit                     *)
(*   committed  what another process, or this one after a crash, finds     *)
(***************************************************************************)
CONSTANTS
    Keys,       \* the keys of the map
    Values,     \* the values a key can have
    NoValue     \* what a key that is not in the map has instead

VARIABLES view, saved, committed

vars == <<view, saved, committed>>

Contents == [Keys -> Values \cup {NoValue}]

EmptyMap == [k \in Keys |-> NoValue]

TypeOK ==
    /\ view \in Contents
    /\ saved \in Contents
    /\ committed \in Contents

Init ==
    /\ view = EmptyMap
    /\ saved = EmptyMap
    /\ committed = EmptyMap

(* Only an absent key can be inserted; only a present one can be changed   *)
(* or erased.                                                              *)
Insert(k, v) ==
    /\ view[k] = NoValue
    /\ view' = [view EXCEPT ![k] = v]
    /\ UNCHANGED <<saved, committed>>

Assign(k, v) ==
    /\ view[k] # NoValue
    /\ view' = [view EXCEPT ![k] = v]
    /\ UNCHANGED <<saved, committed>>

Erase(k) ==
    /\ view[k] # NoValue
    /\ view' = [view EXCEPT ![k] = NoValue]
    /\ UNCHANGED <<saved, committed>>

Clear ==
    /\ view' = EmptyMap
    /\ UNCHANGED <<saved, committed>>

Save ==
    /\ saved' = view
    /\ UNCHANGED <<view, committed>>

Commit ==
    /\ committed' = saved
    /\ UNCHANGED <<view, saved>>

(* discard(), a save() that fails, and a crash.                            *)
Rollback ==
    /\ view' = committed
    /\ saved' = committed
    /\ UNCHANGED committed

(* The owner destroys the container, which commits, and opens it again.    *)
Reopen ==
    /\ committed' = saved
    /\ view' = saved
    /\ UNCHANGED saved

Next ==
    \/ \E k \in Keys, v \in Values : Insert(k, v) \/ Assign(k, v)
    \/ \E k \in Keys : Erase(k)
    \/ Clear
    \/ Save
    \/ Commit
    \/ Rollback
    \/ Reopen

Spec == Init /\ [][Next]_vars
=============================================================================
