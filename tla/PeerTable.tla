------------------------------ MODULE PeerTable ------------------------------
(***************************************************************************)
(* What communication_state (libp2psocket) promises to p2pstate_ex: a      *)
(* table with one entry per address, which knows the connection behind the *)
(* address, the node behind the connection, whether the address is still   *)
(* to be opened and whether the entry waits for its removal.               *)
(***************************************************************************)
EXTENDS Naturals

CONSTANTS
    Addresses,  \* address_key(): the remote end, or the local if listening
    PeerIds,    \* what the socket calls a connection
    NodeIds,    \* what a node calls itself
    None,       \* no entry, no connection, no node, no removal
    Removals    \* what a caller of remove_later() can ask for

VARIABLE table

Waiting == [steps : Nat, send_drop : BOOLEAN, must_notify : BOOLEAN]

Entries == [peer : PeerIds \cup {None}, node : NodeIds \cup {None},
            todo : BOOLEAN, removal : Waiting \cup {None}]

TypeOK == table \in [Addresses -> Entries \cup {None}]

Init == table = [a \in Addresses |-> None]

Passive == [peer |-> None, node |-> None, todo |-> TRUE, removal |-> None]

Present(t) == {a \in Addresses : t[a] # None}

(* Removed by the next remove_pending(); without a connection behind it,   *)
(* such an entry counts as gone already.                                   *)
Due(t) ==
    {a \in Present(t) : t[a].removal # None /\ t[a].removal.steps = 0}

Free(t, a) == a \notin Present(t) \/ (a \in Due(t) /\ t[a].peer = None)

AddressesOf(t, p) == {a \in Present(t) : t[a].peer = p}

-----------------------------------------------------------------------------
(* The operations, as functions of the table.                              *)

WithPassive(t, a) == IF Free(t, a) THEN [t EXCEPT ![a] = Passive] ELSE t

(* An entry that has another connection is taken over, with the removal it *)
(* may be waiting for.                                                     *)
WithActive(t, a, p) ==
    [t EXCEPT ![a] = [peer |-> p, node |-> None, todo |-> FALSE,
                      removal |-> IF Free(t, a) THEN None ELSE @.removal]]

WithNode(t, p, n) ==
    [a \in Addresses |-> IF a \in AddressesOf(t, p)
                         THEN [t[a] EXCEPT !.node = n] ELSE t[a]]

WithRemoval(t, as, removal) ==
    [a \in Addresses |-> IF a \in as
                         THEN [t[a] EXCEPT !.removal = removal] ELSE t[a]]

(* remove_later(address) with only_if_passive.                             *)
PassiveAt(t, a) == {b \in Present(t) \cap {a} : t[b].peer = None}

Attempted(t, as) ==
    [a \in Addresses |-> IF a \in as \cap Present(t)
                         THEN [t[a] EXCEPT !.todo = FALSE] ELSE t[a]]

(* One tick of every removal's clock.                                      *)
Tick(removal) ==
    IF removal # None /\ removal.steps # 0
    THEN [removal EXCEPT !.steps = @ - 1] ELSE removal

Stepped(t) ==
    [a \in Addresses |-> IF a \in Present(t)
                         THEN [t[a] EXCEPT !.removal = Tick(@)] ELSE None]

Swept(t) == [a \in Addresses |-> IF a \in Due(t) THEN None ELSE t[a]]

-----------------------------------------------------------------------------
(* A connection is known under one address.                                *)
AddActive(a, p) ==
    /\ AddressesOf(table, p) \subseteq {a}
    /\ table' = WithActive(table, a, p)

Next ==
    \/ \E a \in Addresses :
           \/ table' = WithPassive(table, a)
           \/ table' = Attempted(table, {a})
           \/ \E p \in PeerIds : AddActive(a, p)
           \/ \E removal \in Removals :
                  table' = WithRemoval(table, PassiveAt(table, a), removal)
    \/ \E p \in PeerIds :
           \/ \E n \in NodeIds : table' = WithNode(table, p, n)
           \/ \E removal \in Removals \cup {None} :
                  table' = WithRemoval(table, AddressesOf(table, p), removal)
    \/ table' = Stepped(table)
    \/ table' = Swept(table)

Spec == Init /\ [][Next]_table
=============================================================================
