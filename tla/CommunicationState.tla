------------------------- MODULE CommunicationState -------------------------
(***************************************************************************)
(* communication_state<peer_state> (libp2psocket): the peers a node knows, *)
(* in a vector, with three maps, two sets and the pending removals that    *)
(* all refer to them by their place in the vector.  Removing an entry      *)
(* moves every place above it.                                             *)
(*                                                                         *)
(* An address stands for its address_key(); those in Listening have no     *)
(* remote end.  The payload of an entry other than its node id is left     *)
(* out.                                                                    *)
(***************************************************************************)
EXTENDS Naturals, Sequences, FiniteSets, Functions

CONSTANTS
    Addresses,  \* address_key(): the remote end, or the local if listening
    Listening,  \* the addresses of type e_type::listen
    PeerIds,    \* what the socket calls a connection
    NodeIds,    \* what a node calls itself
    None,       \* no connection; the empty node id
    Removals    \* what the callers pass to remove_later()

ASSUME AddressesAssumption == IsFiniteSet(Addresses)
ASSUME ListeningAssumption == Listening \subseteq Addresses
ASSUME NoneAssumption == None \notin PeerIds \cup NodeIds

(* to_remove_info                                                          *)
Waiting == [steps : Nat, send_drop : BOOLEAN, must_notify : BOOLEAN]

ASSUME RemovalsAssumption == Removals \subseteq Waiting /\ None \notin Waiting

VARIABLES
    peers,              \* the entries
    map_by_address, map_by_peer_id, map_by_key,
    set_to_listen, set_to_connect,
    map_to_remove       \* the removal each place waits for

maps == <<map_by_address, map_by_peer_id, map_by_key>>
todo == <<set_to_listen, set_to_connect>>
vars == <<peers, map_by_address, map_by_peer_id, map_by_key, set_to_listen,
          set_to_connect, map_to_remove>>

Items == [address : Addresses, peer : PeerIds \cup {None},
          node : NodeIds \cup {None}]

Places == DOMAIN peers

(* The places lie in the vector: operator[] is not checked.                *)
TypeOK ==
    /\ peers \in Seq(Items)
    /\ DOMAIN map_by_address \subseteq Addresses
    /\ DOMAIN map_by_peer_id \subseteq PeerIds
    /\ DOMAIN map_by_key \subseteq NodeIds \cup {None}
    /\ \A map \in {map_by_address, map_by_peer_id, map_by_key} :
           Range(map) \subseteq Places
    /\ set_to_listen \subseteq Places /\ set_to_connect \subseteq Places
    /\ DOMAIN map_to_remove \subseteq Places
    /\ \A i \in DOMAIN map_to_remove : map_to_remove[i] \in Waiting

Empty == [x \in {} |-> 0]

Init ==
    /\ peers = <<>>
    /\ map_by_address = Empty /\ map_by_peer_id = Empty
    /\ map_by_key = Empty
    /\ set_to_listen = {} /\ set_to_connect = {}
    /\ map_to_remove = Empty

-----------------------------------------------------------------------------
(* map[x] = y and map.erase(x)                                             *)
Put(map, x, y) ==
    [z \in DOMAIN map \cup {x} |-> IF z = x THEN y ELSE map[z]]

Erase(map, x) == Restrict(map, DOMAIN map \ {x})

IsActive(i) == peers[i].peer # None

Due == {i \in DOMAIN map_to_remove : map_to_remove[i].steps = 0}

Known(a) == a \in DOMAIN map_by_address

(* Where add_passive() finds or puts the address.                          *)
PlaceOf(a) == IF Known(a) THEN map_by_address[a] ELSE Len(peers) + 1

(* A passive entry that waits for its removal is used again.               *)
Revives(a) == Known(a) /\ PlaceOf(a) \in Due /\ ~IsActive(PlaceOf(a))

IsFresh(a) == ~Known(a) \/ Revives(a)

(* What add_passive() makes of the vector, the keys and the removals.      *)
PassiveItem(a) == [address |-> a, peer |-> None, node |-> None]

PeersWith(a) ==
    IF Revives(a) THEN [peers EXCEPT ![PlaceOf(a)] = PassiveItem(a)]
    ELSE IF Known(a) THEN peers
    ELSE Append(peers, PassiveItem(a))

AddressesWith(a) == Put(map_by_address, a, PlaceOf(a))

KeysWith(a) ==
    IF Revives(a)
    THEN Put(Erase(map_by_key, peers[PlaceOf(a)].node), None, PlaceOf(a))
    ELSE IF Known(a) THEN map_by_key
    ELSE Put(map_by_key, None, PlaceOf(a))

(* Mutant: a revived entry keeps its pending removal.                      *)
RemovalsWith_NotRevived(a) == map_to_remove

RemovalsWith(a) ==
    IF Revives(a) THEN Erase(map_to_remove, PlaceOf(a)) ELSE map_to_remove

AddPassive(a) ==
    /\ peers' = PeersWith(a)
    /\ map_by_address' = AddressesWith(a)
    /\ map_by_key' = KeysWith(a)
    /\ map_to_remove' = RemovalsWith(a)
    /\ set_to_listen' = set_to_listen \cup
           (IF IsFresh(a) /\ a \in Listening THEN {PlaceOf(a)} ELSE {})
    /\ set_to_connect' = set_to_connect \cup
           (IF IsFresh(a) /\ a \notin Listening THEN {PlaceOf(a)} ELSE {})
    /\ UNCHANGED map_by_peer_id

(* The socket gives every connection an id of its own.                     *)
IsNew(p, a) == p \in DOMAIN map_by_peer_id => peers[map_by_peer_id[p]].address = a

(* Mutant: the connection that had the address keeps its place.            *)
PeerIdsWith_KeepsOld(a, p) == Put(map_by_peer_id, p, PlaceOf(a))

PeerIdsWith(a, p) ==
    Put(Erase(map_by_peer_id, PeersWith(a)[PlaceOf(a)].peer), p, PlaceOf(a))

(* The entry, new, passive or of another connection, belongs to p now; its *)
(* node is not known yet.                                                  *)
AddActive(a, p) ==
    /\ IsNew(p, a)
    /\ peers' = [PeersWith(a) EXCEPT ![PlaceOf(a)].peer = p,
                                     ![PlaceOf(a)].node = None]
    /\ map_by_address' = AddressesWith(a)
    /\ map_by_peer_id' = PeerIdsWith(a, p)
    /\ LET node == PeersWith(a)[PlaceOf(a)].node IN
       map_by_key' = Put(IF node # None THEN Erase(KeysWith(a), node)
                                        ELSE KeysWith(a), None, PlaceOf(a))
    /\ map_to_remove' = RemovalsWith(a)
    /\ set_to_listen' = set_to_listen \ {PlaceOf(a)}
    /\ set_to_connect' = set_to_connect \ {PlaceOf(a)}

(* set_active_value(): the key of the old value is forgotten, even if      *)
(* another entry has it too.                                               *)
SetActiveValue(p, n) ==
    /\ p \in DOMAIN map_by_peer_id
    /\ LET i == map_by_peer_id[p]
           old == peers[i].node
       IN  /\ peers' = [peers EXCEPT ![i].node = n]
           /\ map_by_key' = Put(IF old # n THEN Erase(map_by_key, old)
                                           ELSE map_by_key, n, i)
    /\ UNCHANGED <<map_by_address, map_by_peer_id, todo, map_to_remove>>

-----------------------------------------------------------------------------
(* Removal.                                                                *)

DoStep ==
    /\ map_to_remove' = [i \in DOMAIN map_to_remove |->
           [map_to_remove[i] EXCEPT !.steps = IF @ = 0 THEN 0 ELSE @ - 1]]
    /\ UNCHANGED <<peers, maps, todo>>

(* remove_later(address), which is called with only_if_passive.            *)
RemoveAddressLater(a, removal) ==
    /\ Known(a)
    /\ ~IsActive(PlaceOf(a))
    /\ ~removal.send_drop
    /\ map_to_remove' = Put(map_to_remove, PlaceOf(a), removal)
    /\ UNCHANGED <<peers, maps, todo>>

RemovePeerLater(p, removal) ==
    /\ p \in DOMAIN map_by_peer_id
    /\ map_to_remove' = Put(map_to_remove, map_by_peer_id[p], removal)
    /\ UNCHANGED <<peers, maps, todo>>

UndoRemove(p) ==
    /\ p \in DOMAIN map_by_peer_id
    /\ map_to_remove' = Erase(map_to_remove, map_by_peer_id[p])
    /\ UNCHANGED <<peers, maps, todo>>

RemoveFromTodoList(a) ==
    /\ Known(a)
    /\ set_to_listen' = set_to_listen \ {PlaceOf(a)}
    /\ set_to_connect' = set_to_connect \ {PlaceOf(a)}
    /\ UNCHANGED <<peers, maps, map_to_remove>>

(* Where remove_pending() leaves place i: the removals are made from the   *)
(* last place to the first, each moving those above it down by one.        *)
Moved(i) == i - Cardinality({j \in Due : j < i})

Kept == Places \ Due

(* Mutant: what leads to a removed place stays and leads elsewhere.        *)
MovedMap_KeepsRemoved(map) == [x \in DOMAIN map |-> Moved(map[x])]

(* remove_from_map() and remove_from_set(), for all removed places.        *)
MovedMap(map) ==
    [x \in {y \in DOMAIN map : map[y] \notin Due} |-> Moved(map[x])]

(* Mutant: the same of a set.                                              *)
MovedSet_KeepsRemoved(set) == {Moved(i) : i \in set}

MovedSet(set) == {Moved(i) : i \in set \ Due}

(* Mutant: the pending removals keep the places they were made for.        *)
MovedRemovals_Stay == Restrict(map_to_remove, DOMAIN map_to_remove \ Due)

MovedRemovals ==
    LET waiting == DOMAIN map_to_remove \ Due IN
    [j \in {Moved(i) : i \in waiting} |->
        map_to_remove[CHOOSE i \in waiting : Moved(i) = j]]

RemovePending ==
    /\ peers' = [j \in 1..Cardinality(Kept) |->
                    peers[CHOOSE i \in Kept : Moved(i) = j]]
    /\ map_by_address' = MovedMap(map_by_address)
    /\ map_by_peer_id' = MovedMap(map_by_peer_id)
    /\ map_by_key' = MovedMap(map_by_key)
    /\ set_to_listen' = MovedSet(set_to_listen)
    /\ set_to_connect' = MovedSet(set_to_connect)
    /\ map_to_remove' = MovedRemovals

-----------------------------------------------------------------------------
Next ==
    \/ \E a \in Addresses :
           \/ AddPassive(a)
           \/ RemoveFromTodoList(a)
           \/ \E p \in PeerIds : AddActive(a, p)
           \/ \E removal \in Removals : RemoveAddressLater(a, removal)
    \/ \E p \in PeerIds :
           \/ \E n \in NodeIds : SetActiveValue(p, n)
           \/ \E removal \in Removals : RemovePeerLater(p, removal)
           \/ UndoRemove(p)
    \/ DoStep
    \/ RemovePending

Spec == Init /\ [][Next]_vars

-----------------------------------------------------------------------------
(* Properties.                                                             *)

(* Every place is reached through the address and the connection of the    *)
(* entry that is there, and through nothing else; a key leads to an entry  *)
(* that has it.  add_active() asserts that it finds the old connection.    *)
MapsAgree ==
    /\ \A i \in Places :
           /\ Known(peers[i].address)
           /\ map_by_address[peers[i].address] = i
           /\ IsActive(i) => /\ peers[i].peer \in DOMAIN map_by_peer_id
                             /\ map_by_peer_id[peers[i].peer] = i
    /\ \A a \in DOMAIN map_by_address : peers[map_by_address[a]].address = a
    /\ \A p \in DOMAIN map_by_peer_id : peers[map_by_peer_id[p]].peer = p
    /\ \A n \in DOMAIN map_by_key : peers[map_by_key[n]].node = n

(* What is still to be opened is not open already, and is opened the way   *)
(* its address asks for.                                                   *)
TodoIsPassive ==
    /\ \A i \in set_to_listen :
           i \in Places /\ ~IsActive(i) /\ peers[i].address \in Listening
    /\ \A i \in set_to_connect :
           i \in Places /\ ~IsActive(i) /\ peers[i].address \notin Listening

(* remove_pending() takes the connection of every entry it sends a drop    *)
(* to, and get_peer() terminates the process if there is none.             *)
DropsHaveConnection ==
    \A i \in DOMAIN map_to_remove :
        map_to_remove[i].send_drop => i \in Places /\ IsActive(i)

(* The vector and everything that points into it are together a PeerTable: *)
(* no operation, and above all no removal of several entries at once,      *)
(* gives an entry the connection, the removal or the pending attempt of    *)
(* its neighbour.                                                          *)
AbsEntry(i) ==
    [peer |-> peers[i].peer, node |-> peers[i].node,
     todo |-> i \in set_to_listen \cup set_to_connect,
     removal |-> IF i \in DOMAIN map_to_remove THEN map_to_remove[i] ELSE None]

AbsTable ==
    [a \in Addresses |-> IF Known(a) THEN AbsEntry(PlaceOf(a)) ELSE None]

Abs == INSTANCE PeerTable WITH table <- AbsTable

(* An entry can be told from its absence.                                  *)
ASSUME EntriesAssumption == None \notin Abs!Entries

ImplementsPeerTable == Abs!Spec
=============================================================================
