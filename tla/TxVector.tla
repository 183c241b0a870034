------------------------------- MODULE TxVector -------------------------------
(***************************************************************************)
(* What vector_loader promises to the code that holds it: three versions   *)
(* of one vector, each overtaking the next only by an explicit call.       *)
(*   view       what at() and size() answer                                *)
(*   saved      what the open transaction would commit                     *)
(*   committed  what another process, or this one after a crash, finds     *)
(* A vector is a function whose items lie at the positions below its size. *)
(***************************************************************************)
EXTENDS Naturals

CONSTANTS
    Positions,  \* 0 .. the largest position
    Values,
    NoValue     \* what a position behind the end has

VARIABLES view, saved, committed

vars == <<view, saved, committed>>

Empty == [i \in Positions |-> NoValue]

HasSize(vector, size) ==
    \A i \in Positions : vector[i] # NoValue <=> i < size

Init ==
    /\ view = Empty
    /\ saved = Empty
    /\ committed = Empty

PushBack(v) ==
    \E size \in Positions :
        /\ HasSize(view, size)
        /\ view' = [view EXCEPT ![size] = v]
        /\ UNCHANGED <<saved, committed>>

PopBack ==
    \E last \in Positions :
        /\ HasSize(view, last + 1)
        /\ view' = [view EXCEPT ![last] = NoValue]
        /\ UNCHANGED <<saved, committed>>

Assign(i, v) ==
    /\ view[i] # NoValue
    /\ view' = [view EXCEPT ![i] = v]
    /\ UNCHANGED <<saved, committed>>

Clear ==
    /\ view' = Empty
    /\ UNCHANGED <<saved, committed>>

Save ==
    /\ saved' = view
    /\ UNCHANGED <<view, committed>>

Commit ==
    /\ committed' = saved
    /\ UNCHANGED <<view, saved>>

(* discard(), a save() that fails, and a crash.                            *)
Rollback ==
    /\ view' = committed
    /\ saved' = committed
    /\ UNCHANGED committed

(* The owner destroys the container, which commits, and opens it again.    *)
Reopen ==
    /\ committed' = saved
    /\ view' = saved
    /\ UNCHANGED saved

Next ==
    \/ \E v \in Values : PushBack(v)
    \/ PopBack
    \/ \E i \in Positions, v \in Values : Assign(i, v)
    \/ Clear
    \/ Save
    \/ Commit
    \/ Rollback
    \/ Reopen

Spec == Init /\ [][Next]_vars
=============================================================================
