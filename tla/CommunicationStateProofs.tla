----------------------- MODULE CommunicationStateProofs -----------------------
(***************************************************************************)
(* Proofs about CommunicationState, for any addresses, connections, nodes  *)
(* and removals, and any number of entries; and, at the end, about         *)
(* DroppedNodes, the other part of the state of p2pstate.cpp.              *)
(***************************************************************************)
EXTENDS CommunicationState, FiniteSetTheorems, SequenceTheorems, TLAPS

(* The inductive invariant: the maps, the sets and the pending removals    *)
(* agree with the vector only together.                                    *)
IInv ==
    /\ TypeOK
    /\ MapsAgree
    /\ TodoIsPassive
    /\ DropsHaveConnection

-----------------------------------------------------------------------------
(* Where remove_pending() moves the entries it keeps: onto the places from *)
(* 1 to their number, each to a place of its own.  A place that is kept    *)
(* moves to its rank among those that are.                                 *)

UpTo(i) == {j \in Kept : j <= i}

LEMMA PlacesAreFinite ==
    ASSUME TypeOK
    PROVE  /\ Len(peers) \in Nat /\ Places = 1..Len(peers)
           /\ Due \subseteq Places /\ Kept \subseteq Places
           /\ IsFiniteSet(Due) /\ IsFiniteSet(Kept)
<1>1. Len(peers) \in Nat /\ Places = 1..Len(peers)
  BY LenProperties DEF TypeOK, Places
<1>2. Due \subseteq Places /\ Kept \subseteq Places
  BY DEF TypeOK, Due, Kept
<1>3. IsFiniteSet(Places)
  BY <1>1, FS_Interval
<1>4. IsFiniteSet(Due) /\ IsFiniteSet(Kept)
  BY <1>2, <1>3, FS_Subset
<1> QED BY <1>1, <1>2, <1>4

LEMMA MovedIsRank ==
    ASSUME TypeOK, NEW i \in Kept
    PROVE  /\ Moved(i) = Cardinality(UpTo(i))
           /\ IsFiniteSet(UpTo(i)) /\ Moved(i) \in Nat
<1> DEFINE Below == {j \in Due : j < i}
<1>1. i \in 1..Len(peers) /\ i \notin Due /\ Len(peers) \in Nat
  BY PlacesAreFinite DEF Kept
<1>2. /\ Below \in SUBSET Due /\ UpTo(i) \in SUBSET Kept
      /\ IsFiniteSet(Due) /\ IsFiniteSet(Kept)
  BY PlacesAreFinite DEF UpTo
<1>3. IsFiniteSet(Below) /\ IsFiniteSet(UpTo(i))
  BY <1>2, FS_Subset
<1>4. Cardinality(Below) \in Nat /\ Cardinality(UpTo(i)) \in Nat
  BY <1>3, FS_CardinalityType
<1>5. Below \cup UpTo(i) = 1..i
  BY <1>1, PlacesAreFinite DEF UpTo, Kept
<1>6. Below \cap UpTo(i) = {}
  BY DEF UpTo, Kept
<1>7. Cardinality(1..i) = i
  BY <1>1, FS_Interval
<1>8. Cardinality({}) = 0
  BY FS_EmptySet
<1>9. Cardinality(Below \cup UpTo(i))
          = Cardinality(Below) + Cardinality(UpTo(i))
                - Cardinality(Below \cap UpTo(i))
  BY <1>3, FS_Union
<1>10. i = Cardinality(Below) + Cardinality(UpTo(i)) - 0
  BY <1>5, <1>6, <1>7, <1>8, <1>9
<1>11. Moved(i) = i - Cardinality(Below)
  BY DEF Moved
<1> HIDE DEF Below
<1> QED BY <1>1, <1>3, <1>4, <1>10, <1>11

LEMMA MovedIsMonotone ==
    ASSUME TypeOK, NEW i \in Kept, NEW k \in Kept, i < k
    PROVE  Moved(i) < Moved(k)
<1>1. i \in Nat /\ k \in Nat
  BY PlacesAreFinite
<1>2. UpTo(i) \cup {k} \in SUBSET UpTo(k) /\ k \notin UpTo(i)
  <2>1. \A j \in Kept : j \in Nat
    BY PlacesAreFinite
  <2>2. ASSUME NEW j \in UpTo(i)
        PROVE  j \in UpTo(k) /\ j # k
    BY <1>1, <2>1 DEF UpTo
  <2>3. k \in UpTo(k)
    BY <1>1 DEF UpTo
  <2> QED BY <2>2, <2>3
<1>3. /\ IsFiniteSet(UpTo(i)) /\ IsFiniteSet(UpTo(k))
      /\ Moved(i) = Cardinality(UpTo(i)) /\ Moved(k) = Cardinality(UpTo(k))
      /\ Moved(i) \in Nat /\ Moved(k) \in Nat
  BY MovedIsRank
<1>4. Cardinality(UpTo(i) \cup {k}) = Cardinality(UpTo(i)) + 1
  BY <1>2, <1>3, FS_AddElement
<1>5. Cardinality(UpTo(i) \cup {k}) <= Cardinality(UpTo(k))
  BY <1>2, <1>3, FS_Subset
<1> QED BY <1>3, <1>4, <1>5

LEMMA MovedIsBijection ==
    ASSUME TypeOK
    PROVE  /\ Cardinality(Kept) \in Nat
           /\ \A i \in Kept : Moved(i) \in 1..Cardinality(Kept)
           /\ \A i, k \in Kept : Moved(i) = Moved(k) => i = k
           /\ \A j \in 1..Cardinality(Kept) : \E i \in Kept : Moved(i) = j
<1> DEFINE n == Cardinality(Kept)
           f == [i \in Kept |-> Moved(i)]
<1>1. IsFiniteSet(Kept) /\ n \in Nat /\ \A i \in Kept : i \in Nat
  BY PlacesAreFinite, FS_CardinalityType
<1>2. ASSUME NEW i \in Kept
      PROVE  Moved(i) \in 1..n
  <2>1. Moved(i) = Cardinality(UpTo(i)) /\ Moved(i) \in Nat
    BY MovedIsRank
  <2>2. UpTo(i) \in SUBSET Kept /\ i \in UpTo(i)
    BY <1>1 DEF UpTo
  <2>3. Cardinality(UpTo(i)) <= n
    BY <1>1, <2>2, FS_Subset
  <2>4. Cardinality(UpTo(i)) # 0
    BY <2>2, MovedIsRank, FS_EmptySet
  <2> QED BY <1>1, <2>1, <2>3, <2>4
<1>3. ASSUME NEW i \in Kept, NEW k \in Kept, Moved(i) = Moved(k)
      PROVE  i = k
  <2>1. Moved(i) \in Nat /\ Moved(k) \in Nat /\ i \in Nat /\ k \in Nat
    BY <1>1, MovedIsRank
  <2>2. ~(i < k) /\ ~(k < i)
    BY <1>3, <2>1, MovedIsMonotone
  <2> QED BY <2>1, <2>2
<1> HIDE DEF n
<1>4. f \in [Kept -> 1..n]
  BY <1>2
<1>5. f \in Injection(Kept, 1..n)
  BY <1>3, <1>4 DEF Injection, IsInjective
<1>6. IsFiniteSet(1..n) /\ Cardinality(1..n) = n
  BY <1>1, FS_Interval
<1>7. f \in Surjection(Kept, 1..n)
  BY <1>1, <1>5, <1>6, FS_Injection DEF n
<1>8. \A j \in 1..n : \E i \in Kept : Moved(i) = j
  BY <1>7 DEF Surjection
<1> QED BY <1>1, <1>2, <1>3, <1>8 DEF n

-----------------------------------------------------------------------------
(* What the invariant says of one entry, and of the table it stands for.   *)

LEMMA EntryFacts ==
    ASSUME IInv, NEW i \in Places
    PROVE  /\ peers[i].address \in DOMAIN map_by_address
           /\ peers[i].address \in Addresses
           /\ map_by_address[peers[i].address] = i
           /\ peers[i] \in Items
           /\ peers[i].peer \in PeerIds \cup {None}
           /\ peers[i].node \in NodeIds \cup {None}
           /\ i \in DOMAIN map_to_remove => map_to_remove[i] \in Waiting
<1>1. peers[i] \in Items
  BY PlacesAreFinite, ElementOfSeq DEF IInv, TypeOK
<1>2. /\ peers[i].address \in Addresses
      /\ peers[i].peer \in PeerIds \cup {None}
      /\ peers[i].node \in NodeIds \cup {None}
  BY <1>1 DEF Items
<1>3. i \in DOMAIN map_to_remove => map_to_remove[i] \in Waiting
  BY DEF IInv, TypeOK
<1> QED BY <1>1, <1>2, <1>3 DEF IInv, MapsAgree, Known

LEMMA MapFacts ==
    ASSUME IInv
    PROVE  /\ \A a \in DOMAIN map_by_address :
                  /\ a \in Addresses /\ map_by_address[a] \in Places
                  /\ peers[map_by_address[a]].address = a
           /\ \A p \in DOMAIN map_by_peer_id :
                  /\ p \in PeerIds /\ map_by_peer_id[p] \in Places
                  /\ peers[map_by_peer_id[p]].peer = p
           /\ \A n \in DOMAIN map_by_key :
                  /\ n \in NodeIds \cup {None} /\ map_by_key[n] \in Places
                  /\ peers[map_by_key[n]].node = n
BY DEF IInv, TypeOK, MapsAgree, Range

LEMMA AbsEntryType ==
    ASSUME IInv, NEW i \in Places
    PROVE  /\ AbsEntry(i) \in Abs!Entries /\ AbsEntry(i) # None
           /\ AbsEntry(i).peer = peers[i].peer
           /\ AbsEntry(i).node = peers[i].node
           /\ AbsEntry(i).todo = (i \in set_to_listen \cup set_to_connect)
           /\ i \in DOMAIN map_to_remove
                  => AbsEntry(i).removal = map_to_remove[i]
           /\ i \notin DOMAIN map_to_remove => AbsEntry(i).removal = None
<1>1. /\ peers[i].peer \in PeerIds \cup {None}
      /\ peers[i].node \in NodeIds \cup {None}
      /\ i \in DOMAIN map_to_remove => map_to_remove[i] \in Waiting
  BY EntryFacts
<1>2. AbsEntry(i) \in Abs!Entries
  BY <1>1 DEF AbsEntry, Abs!Entries, Abs!Waiting, Waiting
<1> QED BY <1>2, EntriesAssumption DEF AbsEntry

LEMMA AbsTableFacts ==
    ASSUME IInv
    PROVE  /\ AbsTable \in [Addresses -> Abs!Entries \cup {None}]
           /\ \A a \in Addresses :
                  AbsTable[a] = IF Known(a) THEN AbsEntry(map_by_address[a])
                                ELSE None
           /\ Abs!Present(AbsTable) = DOMAIN map_by_address
           /\ \A a \in Addresses :
                  a \in Abs!Due(AbsTable)
                      <=> Known(a) /\ map_by_address[a] \in Due
<1>1. \A a \in Addresses :
          AbsTable[a] = IF Known(a) THEN AbsEntry(map_by_address[a]) ELSE None
  BY DEF AbsTable, PlaceOf
<1>2. ASSUME NEW a \in DOMAIN map_by_address
      PROVE  /\ a \in Addresses /\ AbsTable[a] \in Abs!Entries
             /\ AbsTable[a] # None
             /\ AbsTable[a] = AbsEntry(map_by_address[a])
             /\ map_by_address[a] \in Places
  BY <1>1, MapFacts, AbsEntryType DEF Known
<1>3. AbsTable \in [Addresses -> Abs!Entries \cup {None}]
  BY <1>1, <1>2 DEF AbsTable, Known
<1>4. Abs!Present(AbsTable) = DOMAIN map_by_address
  BY <1>1, <1>2 DEF Abs!Present, Known
<1>5. ASSUME NEW a \in Addresses
      PROVE  a \in Abs!Due(AbsTable)
                 <=> Known(a) /\ map_by_address[a] \in Due
  <2>1. CASE Known(a)
    <3>1. map_by_address[a] \in Places
          /\ AbsTable[a] = AbsEntry(map_by_address[a])
      BY <1>2, <2>1 DEF Known
    <3>2. AbsTable[a].removal # None
              <=> map_by_address[a] \in DOMAIN map_to_remove
      BY <3>1, AbsEntryType, EntryFacts, RemovalsAssumption
    <3>3. map_by_address[a] \in DOMAIN map_to_remove
              => AbsTable[a].removal = map_to_remove[map_by_address[a]]
      BY <3>1, AbsEntryType
    <3> QED BY <1>4, <2>1, <3>2, <3>3 DEF Abs!Due, Due, Known
  <2>2. CASE ~Known(a)
    BY <1>4, <2>2 DEF Abs!Due, Known
  <2> QED BY <2>1, <2>2
<1> QED BY <1>1, <1>3, <1>4, <1>5

(* A table is what it is at each address.                                  *)
LEMMA TablesEqual ==
    ASSUME NEW t, NEW u, t = [a \in Addresses |-> t[a]],
           u = [a \in Addresses |-> u[a]],
           \A a \in Addresses : t[a] = u[a]
    PROVE  t = u
<1>1. [a \in Addresses |-> t[a]] = [a \in Addresses |-> u[a]]
  OBVIOUS
<1> QED BY <1>1

LEMMA AbsTableNext ==
    /\ AbsTable' = [a \in Addresses |-> AbsTable'[a]]
    /\ \A a \in Addresses :
           AbsTable'[a] = IF a \in DOMAIN map_by_address'
                          THEN AbsEntry(map_by_address[a])' ELSE None
BY DEF AbsTable, Known, PlaceOf

-----------------------------------------------------------------------------
(* remove_pending(): every entry that is kept takes all that refers to it  *)
(* along to its new place.                                                 *)

LEMMA MovedMapAt ==
    ASSUME NEW map
    PROVE  /\ DOMAIN MovedMap(map) = {x \in DOMAIN map : map[x] \notin Due}
           /\ \A x \in DOMAIN MovedMap(map) :
                  MovedMap(map)[x] = Moved(map[x])
BY DEF MovedMap

LEMMA MovedSetAt ==
    ASSUME TypeOK, NEW set, set \subseteq Places
    PROVE  /\ \A i \in Kept : Moved(i) \in MovedSet(set) <=> i \in set
           /\ \A k \in MovedSet(set) :
                  \E i \in Kept : i \in set /\ k = Moved(i)
<1>1. \A k : k \in MovedSet(set) <=> \E i \in Kept : i \in set /\ k = Moved(i)
  BY DEF MovedSet, Kept
<1>2. \A i, k \in Kept : Moved(i) = Moved(k) => i = k
  BY MovedIsBijection
<1> QED BY <1>1, <1>2

LEMMA RemovePendingMoves ==
    ASSUME IInv, RemovePending
    PROVE  /\ peers' \in Seq(Items)
           /\ DOMAIN peers' = 1..Cardinality(Kept)
           /\ \A i \in Kept : /\ Moved(i) \in DOMAIN peers'
                              /\ peers'[Moved(i)] = peers[i]
                              /\ Moved(i) \in set_to_listen'
                                     <=> i \in set_to_listen
                              /\ Moved(i) \in set_to_connect'
                                     <=> i \in set_to_connect
                              /\ Moved(i) \in DOMAIN map_to_remove'
                                     <=> i \in DOMAIN map_to_remove
                              /\ i \in DOMAIN map_to_remove =>
                                     map_to_remove'[Moved(i)]
                                         = map_to_remove[i]
           /\ \A k \in DOMAIN peers' \cup set_to_listen' \cup set_to_connect'
                       \cup DOMAIN map_to_remove' :
                  \E i \in Kept : k = Moved(i)
<1> DEFINE n == Cardinality(Kept)
           new == [j \in 1..n |-> peers[CHOOSE i \in Kept : Moved(i) = j]]
           waiting == DOMAIN map_to_remove \ Due
           later == [j \in {Moved(i) : i \in waiting} |->
                       map_to_remove[CHOOSE i \in waiting : Moved(i) = j]]
<1>1. TypeOK
  BY DEF IInv
<1>2. /\ n \in Nat /\ \A i \in Kept : Moved(i) \in 1..n
      /\ \A i, k \in Kept : Moved(i) = Moved(k) => i = k
      /\ \A j \in 1..n : \E i \in Kept : Moved(i) = j
  BY <1>1, MovedIsBijection
<1>3. peers' = new /\ map_to_remove' = later
  BY DEF RemovePending, MovedRemovals
<1>4. \A i \in Kept : (CHOOSE k \in Kept : Moved(k) = Moved(i)) = i
  BY <1>2
<1>5. \A i \in Kept : new[Moved(i)] = peers[i]
  BY <1>2, <1>4
<1>6. waiting \subseteq Kept
  BY <1>1 DEF TypeOK, Kept
<1>7. \A i \in waiting : (CHOOSE k \in waiting : Moved(k) = Moved(i)) = i
  BY <1>2, <1>6
<1>8. /\ \A i \in waiting : later[Moved(i)] = map_to_remove[i]
      /\ \A k : k \in DOMAIN later <=> \E i \in waiting : k = Moved(i)
  BY <1>7
<1>9. new \in Seq(Items)
  <2>1. \A j \in 1..n : new[j] \in Items
    BY <1>2, <1>4, <1>5, EntryFacts DEF Kept
  <2>2. new \in [1..n -> Items]
    BY <2>1
  <2> HIDE DEF new, n
  <2> QED BY <1>2, <2>2, SeqDef
<1>10. DOMAIN new = 1..n
  OBVIOUS
<1> HIDE DEF new, later, n
<1>11. /\ set_to_listen' = MovedSet(set_to_listen)
       /\ set_to_connect' = MovedSet(set_to_connect)
       /\ set_to_listen \subseteq Places /\ set_to_connect \subseteq Places
  BY <1>1 DEF RemovePending, TypeOK
<1>12. ASSUME NEW i \in Kept
       PROVE  Moved(i) \in DOMAIN later <=> i \in DOMAIN map_to_remove
  BY <1>2, <1>6, <1>8 DEF Kept
<1>13. /\ \A i \in Kept : /\ Moved(i) \in set_to_listen'
                                 <=> i \in set_to_listen
                          /\ Moved(i) \in set_to_connect'
                                 <=> i \in set_to_connect
       /\ \A k \in set_to_listen' \cup set_to_connect' :
              \E i \in Kept : k = Moved(i)
  BY <1>1, <1>11, MovedSetAt
<1>14. /\ \A i \in Kept :
              i \in DOMAIN map_to_remove => later[Moved(i)] = map_to_remove[i]
       /\ \A k \in DOMAIN new \cup DOMAIN later : \E i \in Kept : k = Moved(i)
  BY <1>2, <1>6, <1>8, <1>10 DEF Kept
<1> QED BY <1>2, <1>3, <1>5, <1>9, <1>10, <1>12, <1>13, <1>14 DEF n

LEMMA RemovePendingStep ==
    ASSUME IInv, RemovePending
    PROVE  IInv' /\ AbsTable' = Abs!Swept(AbsTable)
<1> DEFINE n == Cardinality(Kept)
<1>1. /\ peers' \in Seq(Items) /\ DOMAIN peers' = 1..n
      /\ \A i \in Kept : Moved(i) \in 1..n /\ peers'[Moved(i)] = peers[i]
      /\ \A k \in DOMAIN peers' \cup set_to_listen' \cup set_to_connect'
                  \cup DOMAIN map_to_remove' : \E i \in Kept : k = Moved(i)
  BY RemovePendingMoves
<1>2. \A i \in Kept :
          /\ Moved(i) \in set_to_listen' <=> i \in set_to_listen
          /\ Moved(i) \in set_to_connect' <=> i \in set_to_connect
          /\ Moved(i) \in DOMAIN map_to_remove'
                 <=> i \in DOMAIN map_to_remove
          /\ i \in DOMAIN map_to_remove =>
                 map_to_remove'[Moved(i)] = map_to_remove[i]
  BY RemovePendingMoves
<1>3. /\ map_by_address' = MovedMap(map_by_address)
      /\ map_by_peer_id' = MovedMap(map_by_peer_id)
      /\ map_by_key' = MovedMap(map_by_key)
  BY DEF RemovePending
<1>4. /\ \A x \in DOMAIN map_by_address' :
             /\ x \in DOMAIN map_by_address /\ map_by_address[x] \in Kept
             /\ map_by_address'[x] = Moved(map_by_address[x])
      /\ \A x \in DOMAIN map_by_peer_id' :
             /\ x \in DOMAIN map_by_peer_id /\ map_by_peer_id[x] \in Kept
             /\ map_by_peer_id'[x] = Moved(map_by_peer_id[x])
      /\ \A x \in DOMAIN map_by_key' :
             /\ x \in DOMAIN map_by_key /\ map_by_key[x] \in Kept
             /\ map_by_key'[x] = Moved(map_by_key[x])
  BY <1>3, MovedMapAt, MapFacts DEF Kept
<1>5. /\ \A x \in DOMAIN map_by_address :
             map_by_address[x] \notin Due => x \in DOMAIN map_by_address'
      /\ \A x \in DOMAIN map_by_peer_id :
             map_by_peer_id[x] \notin Due => x \in DOMAIN map_by_peer_id'
  BY <1>3, MovedMapAt
<1> HIDE DEF n
<1>6. TypeOK'
  <2>1. /\ DOMAIN map_by_address' \subseteq Addresses
        /\ DOMAIN map_by_peer_id' \subseteq PeerIds
        /\ DOMAIN map_by_key' \subseteq NodeIds \cup {None}
    BY <1>4, MapFacts
  <2>2. \A map \in {map_by_address', map_by_peer_id', map_by_key'} :
            Range(map) \subseteq 1..n
    BY <1>1, <1>4 DEF Range
  <2>3. /\ set_to_listen' \subseteq 1..n /\ set_to_connect' \subseteq 1..n
        /\ DOMAIN map_to_remove' \subseteq 1..n
    BY <1>1
  <2>4. \A k \in DOMAIN map_to_remove' : map_to_remove'[k] \in Waiting
    BY <1>1, <1>2 DEF IInv, TypeOK
  <2> QED BY <1>1, <2>1, <2>2, <2>3, <2>4 DEF TypeOK, Places
<1>7. MapsAgree'
  <2>1. ASSUME NEW k \in 1..n
        PROVE  /\ peers'[k].address \in DOMAIN map_by_address'
               /\ map_by_address'[peers'[k].address] = k
               /\ peers'[k].peer # None =>
                      /\ peers'[k].peer \in DOMAIN map_by_peer_id'
                      /\ map_by_peer_id'[peers'[k].peer] = k
    <3>1. PICK i \in Kept : k = Moved(i)
      BY <1>1
    <3>2. /\ peers'[k] = peers[i] /\ i \in Places /\ i \notin Due
      BY <1>1, <3>1 DEF Kept
    <3>3. /\ peers[i].address \in DOMAIN map_by_address
          /\ map_by_address[peers[i].address] = i
          /\ peers[i].peer # None =>
                 /\ peers[i].peer \in DOMAIN map_by_peer_id
                 /\ map_by_peer_id[peers[i].peer] = i
      BY <3>2 DEF IInv, MapsAgree, Known, IsActive
    <3> QED BY <1>4, <1>5, <3>1, <3>2, <3>3
  <2>2. /\ \A a \in DOMAIN map_by_address' :
               peers'[map_by_address'[a]].address = a
        /\ \A p \in DOMAIN map_by_peer_id' :
               peers'[map_by_peer_id'[p]].peer = p
        /\ \A m \in DOMAIN map_by_key' : peers'[map_by_key'[m]].node = m
    BY <1>1, <1>4, MapFacts
  <2> QED BY <1>1, <2>1, <2>2 DEF MapsAgree, Places, Known, IsActive
<1>8. TodoIsPassive'
  <2>1. ASSUME NEW k \in set_to_listen'
        PROVE  /\ k \in 1..n /\ peers'[k].peer = None
               /\ peers'[k].address \in Listening
    <3>1. PICK i \in Kept : k = Moved(i)
      BY <1>1
    <3> QED BY <1>1, <1>2, <3>1 DEF IInv, TodoIsPassive, IsActive
  <2>2. ASSUME NEW k \in set_to_connect'
        PROVE  /\ k \in 1..n /\ peers'[k].peer = None
               /\ peers'[k].address \notin Listening
    <3>1. PICK i \in Kept : k = Moved(i)
      BY <1>1
    <3> QED BY <1>1, <1>2, <3>1 DEF IInv, TodoIsPassive, IsActive
  <2> QED BY <1>1, <2>1, <2>2 DEF TodoIsPassive, Places, IsActive
<1>9. DropsHaveConnection'
  <2>1. ASSUME NEW k \in DOMAIN map_to_remove', map_to_remove'[k].send_drop
        PROVE  k \in 1..n /\ peers'[k].peer # None
    <3>1. PICK i \in Kept : k = Moved(i)
      BY <1>1
    <3> QED BY <1>1, <1>2, <2>1, <3>1
            DEF IInv, DropsHaveConnection, IsActive
  <2> QED BY <1>1, <2>1 DEF DropsHaveConnection, Places, IsActive
<1>10. ASSUME NEW a \in Addresses
       PROVE  AbsTable'[a] = Abs!Swept(AbsTable)[a]
  <2>1. Abs!Swept(AbsTable)[a]
            = IF Known(a) /\ map_by_address[a] \notin Due
              THEN AbsEntry(map_by_address[a]) ELSE None
    BY AbsTableFacts DEF Abs!Swept
  <2>2. AbsTable'[a] = IF a \in DOMAIN map_by_address'
                       THEN AbsEntry(map_by_address[a])' ELSE None
    BY AbsTableNext
  <2>3. CASE a \in DOMAIN map_by_address'
    <3> DEFINE i == map_by_address[a]
    <3>1. /\ Known(a) /\ i \in Kept /\ i \notin Due
          /\ map_by_address'[a] = Moved(i)
      BY <1>4, <2>3 DEF Known, Kept
    <3>2. AbsEntry(map_by_address[a])' = AbsEntry(i)
      BY <1>1, <1>2, <3>1 DEF AbsEntry
    <3> QED BY <2>1, <2>2, <2>3, <3>1, <3>2
  <2>4. CASE a \notin DOMAIN map_by_address'
    BY <1>5, <2>1, <2>2, <2>4 DEF Known
  <2> QED BY <2>3, <2>4
<1>11. AbsTable' = Abs!Swept(AbsTable)
  <2>1. Abs!Swept(AbsTable) = [a \in Addresses |-> Abs!Swept(AbsTable)[a]]
    BY DEF Abs!Swept
  <2> QED BY <1>10, <2>1, AbsTableNext, TablesEqual
<1> QED BY <1>6, <1>7, <1>8, <1>9, <1>11 DEF IInv

-----------------------------------------------------------------------------
(* The operations that leave the vector and the maps alone.                *)

LEMMA EraseAt ==
    ASSUME NEW map, NEW x
    PROVE  /\ DOMAIN Erase(map, x) = DOMAIN map \ {x}
           /\ \A z \in DOMAIN map \ {x} : Erase(map, x)[z] = map[z]
BY DEF Erase, Restrict

LEMMA MapsStayIInv ==
    ASSUME IInv, UNCHANGED <<peers, maps>>,
           set_to_listen' \subseteq set_to_listen,
           set_to_connect' \subseteq set_to_connect,
           \A i \in DOMAIN map_to_remove' :
               /\ i \in Places /\ map_to_remove'[i] \in Waiting
               /\ map_to_remove'[i].send_drop => IsActive(i)
    PROVE  IInv'
<1>1. /\ peers' = peers /\ map_by_address' = map_by_address
      /\ map_by_peer_id' = map_by_peer_id /\ map_by_key' = map_by_key
  BY DEF maps
<1>2. TypeOK'
  BY <1>1 DEF IInv, TypeOK, Places
<1>3. MapsAgree'
  BY <1>1 DEF IInv, MapsAgree, Places, Known, IsActive
<1>4. TodoIsPassive'
  BY <1>1 DEF IInv, TodoIsPassive, Places, IsActive
<1>5. DropsHaveConnection'
  BY <1>1 DEF DropsHaveConnection, Places, IsActive
<1> QED BY <1>2, <1>3, <1>4, <1>5 DEF IInv

(* The removal changes of the entries at some addresses.                   *)
LEMMA RemovalStep ==
    ASSUME IInv, UNCHANGED <<peers, maps, todo>>,
           NEW as \in SUBSET DOMAIN map_by_address,
           NEW r \in Waiting \cup {None},
           \A a \in DOMAIN map_by_address :
               LET i == map_by_address[a]
               IN  IF a \in as
                   THEN /\ i \in DOMAIN map_to_remove' <=> r # None
                        /\ r # None => map_to_remove'[i] = r
                   ELSE /\ i \in DOMAIN map_to_remove'
                               <=> i \in DOMAIN map_to_remove
                        /\ i \in DOMAIN map_to_remove
                               => map_to_remove'[i] = map_to_remove[i]
    PROVE  AbsTable' = Abs!WithRemoval(AbsTable, as, r)
<1>1. /\ peers' = peers /\ map_by_address' = map_by_address
      /\ set_to_listen' = set_to_listen /\ set_to_connect' = set_to_connect
  BY DEF maps, todo
<1>2. ASSUME NEW a \in Addresses
      PROVE  AbsTable'[a] = Abs!WithRemoval(AbsTable, as, r)[a]
  <2>1. /\ Abs!WithRemoval(AbsTable, as, r)[a]
               = IF a \in as THEN [AbsTable[a] EXCEPT !.removal = r]
                 ELSE AbsTable[a]
        /\ AbsTable[a] = IF Known(a) THEN AbsEntry(map_by_address[a])
                         ELSE None
    BY AbsTableFacts DEF Abs!WithRemoval
  <2>2. AbsTable'[a] = IF a \in DOMAIN map_by_address
                       THEN AbsEntry(map_by_address[a])' ELSE None
    BY <1>1, AbsTableNext
  <2>3. CASE a \in as
    <3> DEFINE i == map_by_address[a]
    <3>0. (IF i \in DOMAIN map_to_remove' THEN map_to_remove'[i] ELSE None)
              = r
      BY <2>3
    <3>1. AbsEntry(map_by_address[a])'
              = [AbsEntry(map_by_address[a]) EXCEPT !.removal = r]
      BY <1>1, <3>0 DEF AbsEntry
    <3> QED BY <2>1, <2>2, <2>3, <3>1 DEF Known
  <2>4. CASE a \in DOMAIN map_by_address /\ a \notin as
    <3>1. AbsEntry(map_by_address[a])' = AbsEntry(map_by_address[a])
      BY <1>1, <2>4 DEF AbsEntry
    <3> QED BY <2>1, <2>2, <2>4, <3>1 DEF Known
  <2>5. CASE a \notin DOMAIN map_by_address
    BY <2>1, <2>2, <2>5 DEF Known
  <2> QED BY <2>3, <2>4, <2>5
<1>3. Abs!WithRemoval(AbsTable, as, r)
          = [a \in Addresses |-> Abs!WithRemoval(AbsTable, as, r)[a]]
  BY DEF Abs!WithRemoval
<1> QED BY <1>2, <1>3, AbsTableNext, TablesEqual

(* The addresses of a connection, or of an entry without one.              *)
LEMMA AbsAddresses ==
    ASSUME IInv
    PROVE  /\ \A p \in PeerIds, a \in Addresses :
                  a \in Abs!AddressesOf(AbsTable, p)
                      <=> /\ Known(a) /\ p \in DOMAIN map_by_peer_id
                          /\ map_by_address[a] = map_by_peer_id[p]
           /\ \A p : Abs!AddressesOf(AbsTable, p)
                         \subseteq DOMAIN map_by_address
           /\ \A a, b \in Addresses :
                  b \in Abs!PassiveAt(AbsTable, a)
                      <=> b = a /\ Known(a) /\ ~IsActive(map_by_address[a])
<1>1. \A a \in DOMAIN map_by_address :
          /\ a \in Abs!Present(AbsTable) /\ map_by_address[a] \in Places
          /\ AbsTable[a].peer = peers[map_by_address[a]].peer
  BY AbsTableFacts, MapFacts, AbsEntryType DEF Known
<1>2. Abs!Present(AbsTable) = DOMAIN map_by_address
  BY AbsTableFacts
<1>3. ASSUME NEW p \in PeerIds, NEW a \in Addresses
      PROVE  a \in Abs!AddressesOf(AbsTable, p)
                 <=> /\ Known(a) /\ p \in DOMAIN map_by_peer_id
                     /\ map_by_address[a] = map_by_peer_id[p]
  <2>1. p # None
    BY NoneAssumption
  <2>2. \A i \in Places : peers[i].peer = p
            => p \in DOMAIN map_by_peer_id /\ map_by_peer_id[p] = i
    BY <2>1 DEF IInv, MapsAgree, IsActive
  <2>3. p \in DOMAIN map_by_peer_id => peers[map_by_peer_id[p]].peer = p
    BY MapFacts
  <2> QED BY <1>1, <1>2, <2>2, <2>3 DEF Abs!AddressesOf, Known
<1>4. \A p : Abs!AddressesOf(AbsTable, p) \subseteq DOMAIN map_by_address
  BY <1>2 DEF Abs!AddressesOf
<1>5. \A a, b \in Addresses :
          b \in Abs!PassiveAt(AbsTable, a)
              <=> b = a /\ Known(a) /\ ~IsActive(map_by_address[a])
  BY <1>1, <1>2 DEF Abs!PassiveAt, Known, IsActive
<1> QED BY <1>3, <1>4, <1>5

(* remove_later() of the entry at place i, which is what as stands for.     *)
LEMMA PutRemovalStep ==
    ASSUME IInv, NEW i \in Places, NEW r \in Removals,
           r.send_drop => IsActive(i),
           map_to_remove' = Put(map_to_remove, i, r),
           UNCHANGED <<peers, maps, todo>>,
           NEW as \in SUBSET DOMAIN map_by_address,
           \A a \in DOMAIN map_by_address : a \in as <=> map_by_address[a] = i
    PROVE  IInv' /\ AbsTable' = Abs!WithRemoval(AbsTable, as, r)
<1>1. r \in Waiting /\ r # None
  BY RemovalsAssumption
<1>2. DOMAIN map_to_remove' = DOMAIN map_to_remove \cup {i}
  BY DEF Put
<1>3. map_to_remove'[i] = r
  BY DEF Put
<1>4. \A k \in DOMAIN map_to_remove \ {i} :
          map_to_remove'[k] = map_to_remove[k]
  BY DEF Put
<1>5. IInv'
  <2>1. \A k \in DOMAIN map_to_remove' :
            /\ k \in Places /\ map_to_remove'[k] \in Waiting
            /\ map_to_remove'[k].send_drop => IsActive(k)
    BY <1>1, <1>2, <1>3, <1>4 DEF IInv, TypeOK, DropsHaveConnection
  <2> QED BY <2>1, MapsStayIInv DEF todo
<1>6. AbsTable' = Abs!WithRemoval(AbsTable, as, r)
  <2>1. \A a \in DOMAIN map_by_address :
            LET k == map_by_address[a]
            IN  IF a \in as
                THEN /\ k \in DOMAIN map_to_remove' <=> r # None
                     /\ r # None => map_to_remove'[k] = r
                ELSE /\ k \in DOMAIN map_to_remove'
                            <=> k \in DOMAIN map_to_remove
                     /\ k \in DOMAIN map_to_remove
                            => map_to_remove'[k] = map_to_remove[k]
    BY <1>1, <1>2, <1>3, <1>4
  <2> QED BY <1>1, <2>1, RemovalStep
<1> QED BY <1>5, <1>6

LEMMA RemoveAddressLaterStep ==
    ASSUME IInv, NEW a \in Addresses, NEW r \in Removals,
           RemoveAddressLater(a, r)
    PROVE  /\ IInv'
           /\ AbsTable' = Abs!WithRemoval(AbsTable,
                                          Abs!PassiveAt(AbsTable, a), r)
<1> DEFINE i == map_by_address[a]
           as == Abs!PassiveAt(AbsTable, a)
<1>1. /\ a \in DOMAIN map_by_address /\ ~IsActive(i) /\ ~r.send_drop
      /\ map_to_remove' = Put(map_to_remove, i, r)
      /\ UNCHANGED <<peers, maps, todo>>
  BY DEF RemoveAddressLater, Known, PlaceOf
<1>2. i \in Places /\ \A b \in DOMAIN map_by_address :
                          b # a => map_by_address[b] # i
  BY <1>1, MapFacts
<1>3. as = {a}
  <2>1. \A b \in as : b \in Addresses
    BY AbsTableFacts, MapFacts DEF Abs!PassiveAt
  <2> QED BY <1>1, <2>1, AbsAddresses DEF Known
<1> HIDE DEF as, i
<1> QED BY <1>1, <1>2, <1>3, PutRemovalStep DEF as, i

LEMMA RemovePeerLaterStep ==
    ASSUME IInv, NEW p \in PeerIds, NEW r \in Removals,
           RemovePeerLater(p, r)
    PROVE  /\ IInv'
           /\ AbsTable' = Abs!WithRemoval(AbsTable,
                                          Abs!AddressesOf(AbsTable, p), r)
<1> DEFINE i == map_by_peer_id[p]
           as == Abs!AddressesOf(AbsTable, p)
<1>1. /\ p \in DOMAIN map_by_peer_id
      /\ map_to_remove' = Put(map_to_remove, i, r)
      /\ UNCHANGED <<peers, maps, todo>>
  BY DEF RemovePeerLater
<1>2. i \in Places /\ IsActive(i)
  BY <1>1, NoneAssumption, MapFacts DEF IsActive
<1>3. /\ as \in SUBSET DOMAIN map_by_address
      /\ \A a \in DOMAIN map_by_address : a \in as <=> map_by_address[a] = i
  BY <1>1, AbsAddresses, MapFacts DEF Known
<1> HIDE DEF as, i
<1> QED BY <1>1, <1>2, <1>3, PutRemovalStep DEF as

LEMMA UndoRemoveStep ==
    ASSUME IInv, NEW p \in PeerIds, UndoRemove(p)
    PROVE  /\ IInv'
           /\ AbsTable' = Abs!WithRemoval(AbsTable,
                                          Abs!AddressesOf(AbsTable, p), None)
<1> DEFINE i == map_by_peer_id[p]
           as == Abs!AddressesOf(AbsTable, p)
<1>1. /\ p \in DOMAIN map_by_peer_id
      /\ map_to_remove' = Erase(map_to_remove, i)
      /\ UNCHANGED <<peers, maps, todo>>
  BY DEF UndoRemove
<1>2. /\ as \in SUBSET DOMAIN map_by_address
      /\ \A a \in DOMAIN map_by_address : a \in as <=> map_by_address[a] = i
  BY <1>1, AbsAddresses, MapFacts DEF Known
<1>3. /\ DOMAIN map_to_remove' = DOMAIN map_to_remove \ {i}
      /\ \A k \in DOMAIN map_to_remove \ {i} :
             map_to_remove'[k] = map_to_remove[k]
  BY <1>1, EraseAt
<1>4. IInv'
  <2>1. \A k \in DOMAIN map_to_remove' :
            /\ k \in Places /\ map_to_remove'[k] \in Waiting
            /\ map_to_remove'[k].send_drop => IsActive(k)
    BY <1>3 DEF IInv, TypeOK, DropsHaveConnection
  <2> QED BY <1>1, <2>1, MapsStayIInv DEF todo
<1> HIDE DEF as
<1>5. AbsTable' = Abs!WithRemoval(AbsTable, as, None)
  BY <1>1, <1>2, <1>3, RemovalStep
<1> QED BY <1>4, <1>5 DEF as

(* remove_from_todo_list(), of an address the table has.                   *)
LEMMA RemoveFromTodoListStep ==
    ASSUME IInv, NEW a \in Addresses, RemoveFromTodoList(a)
    PROVE  IInv' /\ AbsTable' = Abs!Attempted(AbsTable, {a})
<1> DEFINE i == map_by_address[a]
<1>1. /\ a \in DOMAIN map_by_address /\ i \in Places
      /\ set_to_listen' = set_to_listen \ {i}
      /\ set_to_connect' = set_to_connect \ {i}
      /\ peers' = peers /\ map_by_address' = map_by_address
      /\ map_to_remove' = map_to_remove /\ UNCHANGED <<peers, maps>>
  BY MapFacts DEF RemoveFromTodoList, Known, PlaceOf, maps
<1>2. \A b \in DOMAIN map_by_address : b # a => map_by_address[b] # i
  BY <1>1, MapFacts
<1>3. IInv'
  BY <1>1, MapsStayIInv DEF IInv, TypeOK, DropsHaveConnection
<1>4. ASSUME NEW b \in Addresses
      PROVE  AbsTable'[b] = Abs!Attempted(AbsTable, {a})[b]
  <2>1. /\ Abs!Attempted(AbsTable, {a})[b]
               = IF b = a THEN [AbsTable[b] EXCEPT !.todo = FALSE]
                 ELSE AbsTable[b]
        /\ AbsTable[b] = IF b \in DOMAIN map_by_address
                         THEN AbsEntry(map_by_address[b]) ELSE None
    BY <1>1, AbsTableFacts DEF Abs!Attempted, Known
  <2>2. AbsTable'[b] = IF b \in DOMAIN map_by_address
                       THEN AbsEntry(map_by_address[b])' ELSE None
    BY <1>1, AbsTableNext
  <2>3. CASE b = a
    <3>1. (i \in set_to_listen' \cup set_to_connect') = FALSE
      BY <1>1
    <3>2. AbsEntry(map_by_address[b])'
              = [peer |-> peers[i].peer, node |-> peers[i].node,
                 todo |-> FALSE,
                 removal |-> IF i \in DOMAIN map_to_remove
                             THEN map_to_remove[i] ELSE None]
      BY <1>1, <2>3, <3>1 DEF AbsEntry
    <3>3. ASSUME NEW e \in Abs!Entries, NEW v
          PROVE  [e EXCEPT !.todo = v]
                     = [peer |-> e.peer, node |-> e.node, todo |-> v,
                        removal |-> e.removal]
      BY DEF Abs!Entries
    <3>4. /\ AbsEntry(i) \in Abs!Entries
          /\ AbsEntry(i).peer = peers[i].peer
          /\ AbsEntry(i).node = peers[i].node
          /\ AbsEntry(i).removal = IF i \in DOMAIN map_to_remove
                                   THEN map_to_remove[i] ELSE None
      BY <1>1, AbsEntryType
    <3>5. [AbsEntry(map_by_address[b]) EXCEPT !.todo = FALSE]
              = [peer |-> peers[i].peer, node |-> peers[i].node,
                 todo |-> FALSE,
                 removal |-> IF i \in DOMAIN map_to_remove
                             THEN map_to_remove[i] ELSE None]
      BY <2>3, <3>3, <3>4
    <3> QED BY <1>1, <2>1, <2>2, <2>3, <3>2, <3>5
  <2>4. CASE b # a /\ b \in DOMAIN map_by_address
    <3>1. map_by_address[b] # i
      BY <1>2, <2>4
    <3>2. AbsEntry(map_by_address[b])' = AbsEntry(map_by_address[b])
      BY <1>1, <3>1 DEF AbsEntry
    <3> QED BY <2>1, <2>2, <2>4, <3>2
  <2>5. CASE b # a /\ b \notin DOMAIN map_by_address
    BY <2>1, <2>2, <2>5
  <2> QED BY <2>3, <2>4, <2>5
<1>5. Abs!Attempted(AbsTable, {a})
          = [b \in Addresses |-> Abs!Attempted(AbsTable, {a})[b]]
  BY DEF Abs!Attempted
<1> QED BY <1>3, <1>4, <1>5, AbsTableNext, TablesEqual

(* do_step().                                                              *)
LEMMA StepOfRemoval ==
    ASSUME NEW r \in Waiting
    PROVE  /\ [r EXCEPT !.steps = IF @ = 0 THEN 0 ELSE @ - 1] \in Waiting
           /\ [r EXCEPT !.steps = IF @ = 0 THEN 0 ELSE @ - 1].send_drop
                  = r.send_drop
           /\ Abs!Tick(r) = [r EXCEPT !.steps = IF @ = 0 THEN 0 ELSE @ - 1]
<1>1. r # None
  BY RemovalsAssumption
<1>2. r.steps = 0 => [r EXCEPT !.steps = 0] = r
  BY DEF Waiting
<1> QED BY <1>1, <1>2 DEF Waiting, Abs!Tick

LEMMA DoStepStep ==
    ASSUME IInv, DoStep
    PROVE  IInv' /\ AbsTable' = Abs!Stepped(AbsTable)
<1>1. /\ peers' = peers /\ map_by_address' = map_by_address
      /\ set_to_listen' = set_to_listen /\ set_to_connect' = set_to_connect
      /\ UNCHANGED <<peers, maps>>
  BY DEF DoStep, maps, todo
<1>2. /\ DOMAIN map_to_remove' = DOMAIN map_to_remove
      /\ \A i \in DOMAIN map_to_remove :
             /\ map_to_remove[i] \in Waiting
             /\ map_to_remove'[i] = [map_to_remove[i] EXCEPT !.steps =
                                         IF @ = 0 THEN 0 ELSE @ - 1]
  BY DEF DoStep, IInv, TypeOK
<1>3. \A i \in DOMAIN map_to_remove :
          /\ map_to_remove'[i] \in Waiting
          /\ map_to_remove'[i].send_drop = map_to_remove[i].send_drop
          /\ map_to_remove'[i] = Abs!Tick(map_to_remove[i])
  BY <1>2, StepOfRemoval
<1>4. IInv'
  BY <1>1, <1>2, <1>3, MapsStayIInv DEF IInv, TypeOK, DropsHaveConnection
<1>5. ASSUME NEW a \in Addresses
      PROVE  AbsTable'[a] = Abs!Stepped(AbsTable)[a]
  <2>1. /\ Abs!Stepped(AbsTable)[a]
               = IF a \in DOMAIN map_by_address
                 THEN [AbsTable[a] EXCEPT !.removal = Abs!Tick(@)] ELSE None
        /\ AbsTable[a] = IF a \in DOMAIN map_by_address
                         THEN AbsEntry(map_by_address[a]) ELSE None
    BY AbsTableFacts DEF Abs!Stepped, Known
  <2>2. AbsTable'[a] = IF a \in DOMAIN map_by_address
                       THEN AbsEntry(map_by_address[a])' ELSE None
    BY <1>1, AbsTableNext
  <2>3. CASE a \in DOMAIN map_by_address
    <3> DEFINE i == map_by_address[a]
    <3>1. AbsEntry(i).removal = IF i \in DOMAIN map_to_remove
                                THEN map_to_remove[i] ELSE None
      BY DEF AbsEntry
    <3>2. (IF i \in DOMAIN map_to_remove' THEN map_to_remove'[i] ELSE None)
              = Abs!Tick(AbsEntry(i).removal)
      BY <1>2, <1>3, <3>1 DEF Abs!Tick
    <3>3. AbsEntry(map_by_address[a])'
              = [AbsEntry(i) EXCEPT !.removal = Abs!Tick(AbsEntry(i).removal)]
      BY <1>1, <3>2 DEF AbsEntry
    <3> QED BY <2>1, <2>2, <2>3, <3>3
  <2> QED BY <2>1, <2>2, <2>3
<1>6. Abs!Stepped(AbsTable)
          = [a \in Addresses |-> Abs!Stepped(AbsTable)[a]]
  BY DEF Abs!Stepped
<1> QED BY <1>4, <1>5, <1>6, AbsTableNext, TablesEqual

-----------------------------------------------------------------------------
(* The place where add_passive() finds or puts an address, and what it     *)
(* makes of the vector, the keys and the removals.                         *)

LEMMA PlaceFacts ==
    ASSUME IInv, NEW a \in Addresses
    PROVE  /\ PlaceOf(a) \in Places <=> Known(a)
           /\ Known(a) => /\ map_by_address[a] = PlaceOf(a)
                          /\ peers[PlaceOf(a)].address = a
           /\ ~Known(a) => PlaceOf(a) = Len(peers) + 1
           /\ \A b \in DOMAIN map_by_address \ {a} :
                  map_by_address[b] # PlaceOf(a)
           /\ \A j \in Places \ {PlaceOf(a)} : peers[j].address # a
           /\ IsFresh(a) => \A p \in DOMAIN map_by_peer_id :
                                map_by_peer_id[p] # PlaceOf(a)
<1>1. Places = 1..Len(peers) /\ Len(peers) \in Nat
  BY PlacesAreFinite DEF IInv
<1>2. CASE Known(a)
  <2>1. /\ PlaceOf(a) = map_by_address[a] /\ PlaceOf(a) \in Places
        /\ peers[PlaceOf(a)].address = a
    BY <1>2, MapFacts DEF PlaceOf, Known
  <2>2. \A b \in DOMAIN map_by_address \ {a} : map_by_address[b] # PlaceOf(a)
    BY <2>1, MapFacts
  <2>3. \A j \in Places \ {PlaceOf(a)} : peers[j].address # a
    BY <2>1, EntryFacts
  <2>4. IsFresh(a) => \A p \in DOMAIN map_by_peer_id :
                          map_by_peer_id[p] # PlaceOf(a)
    BY <1>2, MapFacts, NoneAssumption DEF IsFresh, Revives, IsActive
  <2> QED BY <1>2, <2>1, <2>2, <2>3, <2>4
<1>3. CASE ~Known(a)
  <2>1. PlaceOf(a) = Len(peers) + 1 /\ PlaceOf(a) \notin Places
    BY <1>1, <1>3 DEF PlaceOf
  <2>2. \A j \in Places : peers[j].address # a
    BY <1>3, EntryFacts DEF Known
  <2> QED BY <1>3, <2>1, <2>2, MapFacts
<1> QED BY <1>2, <1>3

LEMMA PeersWithFacts ==
    ASSUME IInv, NEW a \in Addresses
    PROVE  /\ PeersWith(a) \in Seq(Items)
           /\ DOMAIN PeersWith(a) = Places \cup {PlaceOf(a)}
           /\ \A j \in Places \ {PlaceOf(a)} : PeersWith(a)[j] = peers[j]
           /\ IsFresh(a) => PeersWith(a)[PlaceOf(a)] = PassiveItem(a)
           /\ ~IsFresh(a) => /\ PeersWith(a)[PlaceOf(a)] = peers[PlaceOf(a)]
                             /\ Known(a)
<1> DEFINE i == PlaceOf(a)
           e == PassiveItem(a)
<1>1. e \in Items
  BY DEF PassiveItem, Items
<1>2. peers \in Seq(Items) /\ Places = 1..Len(peers) /\ Len(peers) \in Nat
  BY PlacesAreFinite DEF IInv, TypeOK
<1>3. Known(a) <=> i \in Places
  BY PlaceFacts
<1> HIDE DEF i, e
<1>4. CASE Revives(a)
  <2>1. i \in Places /\ IsFresh(a) /\ PeersWith(a) = [peers EXCEPT ![i] = e]
    BY <1>3, <1>4 DEF Revives, IsFresh, PeersWith, i, e
  <2>2. PeersWith(a) \in Seq(Items)
    BY <1>1, <1>2, <2>1, ExceptSeq
  <2>3. /\ DOMAIN PeersWith(a) = Places /\ PeersWith(a)[i] = e
        /\ \A j \in Places \ {i} : PeersWith(a)[j] = peers[j]
    BY <2>1 DEF Places
  <2> QED BY <2>1, <2>2, <2>3 DEF i, e
<1>5. CASE ~Revives(a) /\ Known(a)
  BY <1>2, <1>3, <1>5 DEF IsFresh, PeersWith, Places, i
<1>6. CASE ~Known(a)
  <2>1. /\ i = Len(peers) + 1 /\ IsFresh(a) /\ ~Revives(a)
        /\ PeersWith(a) = Append(peers, e)
    BY <1>6, PlaceFacts DEF Revives, IsFresh, PeersWith, i, e
  <2>2. /\ PeersWith(a) \in Seq(Items) /\ PeersWith(a)[i] = e
        /\ \A j \in 1..Len(peers) : PeersWith(a)[j] = peers[j]
        /\ Len(PeersWith(a)) = Len(peers) + 1
    BY <1>1, <1>2, <2>1, AppendProperties
  <2>3. DOMAIN PeersWith(a) = 1..(Len(peers) + 1)
    BY <2>2, LenProperties
  <2>4. 1..(Len(peers) + 1) = Places \cup {i}
    BY <1>2, <2>1
  <2> QED BY <1>2, <2>1, <2>2, <2>3, <2>4 DEF i, e
<1> QED BY <1>4, <1>5, <1>6

LEMMA KeysWithFacts ==
    ASSUME IInv, NEW a \in Addresses, NEW n \in DOMAIN KeysWith(a)
    PROVE  /\ n \in NodeIds \cup {None}
           /\ KeysWith(a)[n] \in Places \cup {PlaceOf(a)}
           /\ PeersWith(a)[KeysWith(a)[n]].node = n
<1> DEFINE i == PlaceOf(a)
<1>1. PassiveItem(a).node = None
  BY DEF PassiveItem
<1>2. /\ \A j \in Places \ {i} : PeersWith(a)[j] = peers[j]
      /\ IsFresh(a) => PeersWith(a)[i].node = None
      /\ ~IsFresh(a) => PeersWith(a)[i] = peers[i]
  BY <1>1, PeersWithFacts
<1>3. \A m \in DOMAIN map_by_key :
          /\ m \in NodeIds \cup {None} /\ map_by_key[m] \in Places
          /\ peers[map_by_key[m]].node = m
  BY MapFacts
<1> HIDE DEF i
<1>4. CASE Revives(a)
  <2>1. KeysWith(a) = Put(Erase(map_by_key, peers[i].node), None, i)
    BY <1>4 DEF KeysWith, i
  <2>2. CASE n = None
    BY <1>2, <1>4, <2>1, <2>2 DEF Put, IsFresh, i
  <2>3. CASE n # None
    <3>1. /\ n \in DOMAIN map_by_key /\ n # peers[i].node
          /\ KeysWith(a)[n] = map_by_key[n]
      BY <2>1, <2>3 DEF Put, Erase, Restrict
    <3>2. map_by_key[n] \in Places \ {i}
      BY <1>3, <3>1
    <3> QED BY <1>2, <1>3, <3>1, <3>2
  <2> QED BY <2>2, <2>3
<1>5. CASE ~Revives(a) /\ Known(a)
  BY <1>2, <1>3, <1>5 DEF KeysWith, IsFresh
<1>6. CASE ~Known(a)
  <2>1. KeysWith(a) = Put(map_by_key, None, i) /\ i \notin Places
    BY <1>6, PlaceFacts DEF KeysWith, Revives, i
  <2>2. CASE n = None
    BY <1>2, <1>6, <2>1, <2>2 DEF Put, IsFresh, i
  <2>3. CASE n # None
    BY <1>2, <1>3, <2>1, <2>3 DEF Put
  <2> QED BY <2>2, <2>3
<1> QED BY <1>4, <1>5, <1>6

LEMMA RemovalsWithFacts ==
    ASSUME IInv, NEW a \in Addresses
    PROVE  /\ \A j : j # PlaceOf(a) =>
                  /\ j \in DOMAIN RemovalsWith(a)
                         <=> j \in DOMAIN map_to_remove
                  /\ j \in DOMAIN map_to_remove =>
                         RemovalsWith(a)[j] = map_to_remove[j]
           /\ IsFresh(a) => PlaceOf(a) \notin DOMAIN RemovalsWith(a)
           /\ ~IsFresh(a) => RemovalsWith(a) = map_to_remove
           /\ DOMAIN RemovalsWith(a) \subseteq Places
           /\ \A j \in DOMAIN RemovalsWith(a) :
                  RemovalsWith(a)[j] = map_to_remove[j]
<1>1. DOMAIN map_to_remove \subseteq Places
  BY DEF IInv, TypeOK
<1>2. CASE Revives(a)
  BY <1>1, <1>2 DEF RemovalsWith, IsFresh, Erase, Restrict
<1>3. CASE ~Revives(a)
  BY <1>1, <1>3, PlaceFacts DEF RemovalsWith, IsFresh
<1> QED BY <1>2, <1>3

(* A fresh entry is one that the table counts as absent or as gone.        *)
LEMMA FreshIsFree ==
    ASSUME IInv, NEW a \in Addresses
    PROVE  Abs!Free(AbsTable, a) <=> IsFresh(a)
<1>1. CASE Known(a)
  <2>1. /\ map_by_address[a] = PlaceOf(a) /\ PlaceOf(a) \in Places
        /\ a \in Abs!Present(AbsTable)
    BY <1>1, PlaceFacts, AbsTableFacts DEF Known
  <2>2. AbsTable[a].peer = peers[PlaceOf(a)].peer
    BY <1>1, <2>1, AbsTableFacts, AbsEntryType
  <2>3. a \in Abs!Due(AbsTable) <=> PlaceOf(a) \in Due
    BY <1>1, <2>1, AbsTableFacts
  <2> QED BY <1>1, <2>1, <2>2, <2>3
          DEF Abs!Free, IsFresh, Revives, IsActive
<1>2. CASE ~Known(a)
  BY <1>2, AbsTableFacts DEF Abs!Free, IsFresh, Known
<1> QED BY <1>1, <1>2

(* What an operation leaves alone that works on the entry of one address,  *)
(* at the place where add_passive() finds or puts it.                      *)
OthersStay(a) ==
    /\ DOMAIN peers' = Places \cup {PlaceOf(a)}
    /\ map_by_address' = AddressesWith(a)
    /\ \A j \in Places \ {PlaceOf(a)} :
           /\ peers'[j] = peers[j]
           /\ j \in set_to_listen' <=> j \in set_to_listen
           /\ j \in set_to_connect' <=> j \in set_to_connect
           /\ j \in DOMAIN map_to_remove' <=> j \in DOMAIN map_to_remove
           /\ j \in DOMAIN map_to_remove =>
                  map_to_remove'[j] = map_to_remove[j]

LEMMA AddressesWithFacts ==
    ASSUME IInv, NEW a \in Addresses, OthersStay(a)
    PROVE  /\ DOMAIN map_by_address' = DOMAIN map_by_address \cup {a}
           /\ map_by_address'[a] = PlaceOf(a)
           /\ \A b \in DOMAIN map_by_address \ {a} :
                  /\ map_by_address'[b] = map_by_address[b]
                  /\ map_by_address[b] \in Places \ {PlaceOf(a)}
<1>1. \A b \in DOMAIN map_by_address \ {a} :
          map_by_address[b] \in Places \ {PlaceOf(a)}
  BY PlaceFacts, MapFacts
<1>2. /\ DOMAIN map_by_address' = DOMAIN map_by_address \cup {a}
      /\ map_by_address'[a] = PlaceOf(a)
      /\ \A b \in DOMAIN map_by_address \ {a} :
             map_by_address'[b] = map_by_address[b]
  BY DEF OthersStay, AddressesWith, Put
<1> QED BY <1>1, <1>2

LEMMA OthersInTable ==
    ASSUME IInv, NEW a \in Addresses, OthersStay(a)
    PROVE  /\ \A b \in Addresses \ {a} : AbsTable'[b] = AbsTable[b]
           /\ AbsTable'[a] =
                  [peer |-> peers'[PlaceOf(a)].peer,
                   node |-> peers'[PlaceOf(a)].node,
                   todo |-> PlaceOf(a) \in set_to_listen' \cup set_to_connect',
                   removal |-> IF PlaceOf(a) \in DOMAIN map_to_remove'
                               THEN map_to_remove'[PlaceOf(a)] ELSE None]
<1> DEFINE i == PlaceOf(a)
<1>1. /\ DOMAIN map_by_address' = DOMAIN map_by_address \cup {a}
      /\ map_by_address'[a] = i
      /\ \A b \in DOMAIN map_by_address \ {a} :
             /\ map_by_address'[b] = map_by_address[b]
             /\ map_by_address[b] \in Places \ {i}
  BY AddressesWithFacts
<1>2. ASSUME NEW b \in Addresses
      PROVE  AbsTable'[b] = IF b \in DOMAIN map_by_address'
                            THEN AbsEntry(map_by_address[b])' ELSE None
  BY AbsTableNext
<1>3. ASSUME NEW b \in Addresses \ {a}
      PROVE  AbsTable'[b] = AbsTable[b]
  <2>1. AbsTable[b] = IF b \in DOMAIN map_by_address
                      THEN AbsEntry(map_by_address[b]) ELSE None
    BY AbsTableFacts DEF Known
  <2>2. CASE b \in DOMAIN map_by_address
    <3> DEFINE j == map_by_address[b]
    <3>1. j \in Places \ {i} /\ map_by_address'[b] = j
      BY <1>1, <2>2
    <3>2. AbsEntry(map_by_address[b])' = AbsEntry(j)
      BY <3>1 DEF AbsEntry, OthersStay
    <3> QED BY <1>1, <1>2, <2>1, <2>2, <3>2
  <2>3. CASE b \notin DOMAIN map_by_address
    BY <1>1, <1>2, <2>1, <2>3
  <2> QED BY <2>2, <2>3
<1>4. AbsTable'[a] = AbsEntry(map_by_address[a])'
  BY <1>1, <1>2
<1> QED BY <1>1, <1>3, <1>4 DEF AbsEntry

(* The parts of the invariant that depend on the other entries only by     *)
(* their places.                                                           *)
LEMMA OthersKeepIInv ==
    ASSUME IInv, NEW a \in Addresses, OthersStay(a),
           peers' \in Seq(Items), peers'[PlaceOf(a)].address = a,
           DOMAIN map_by_peer_id' \subseteq PeerIds,
           \A p \in DOMAIN map_by_peer_id' :
               /\ map_by_peer_id'[p] \in Places \cup {PlaceOf(a)}
               /\ peers'[map_by_peer_id'[p]].peer = p,
           \A j \in Places \cup {PlaceOf(a)} :
               peers'[j].peer # None =>
                   /\ peers'[j].peer \in DOMAIN map_by_peer_id'
                   /\ map_by_peer_id'[peers'[j].peer] = j,
           \A n \in DOMAIN map_by_key' :
               /\ n \in NodeIds \cup {None}
               /\ map_by_key'[n] \in Places \cup {PlaceOf(a)}
               /\ peers'[map_by_key'[n]].node = n,
           PlaceOf(a) \in set_to_listen'
               => peers'[PlaceOf(a)].peer = None /\ a \in Listening,
           PlaceOf(a) \in set_to_connect'
               => peers'[PlaceOf(a)].peer = None /\ a \notin Listening,
           set_to_listen' \subseteq Places \cup {PlaceOf(a)},
           set_to_connect' \subseteq Places \cup {PlaceOf(a)},
           DOMAIN map_to_remove' \subseteq Places \cup {PlaceOf(a)},
           PlaceOf(a) \in DOMAIN map_to_remove' =>
               /\ map_to_remove'[PlaceOf(a)] \in Waiting
               /\ map_to_remove'[PlaceOf(a)].send_drop
                      => peers'[PlaceOf(a)].peer # None
    PROVE  IInv'
<1> DEFINE i == PlaceOf(a)
<1>1. /\ DOMAIN map_by_address' = DOMAIN map_by_address \cup {a}
      /\ map_by_address'[a] = i
      /\ \A b \in DOMAIN map_by_address \ {a} :
             /\ map_by_address'[b] = map_by_address[b]
             /\ map_by_address[b] \in Places \ {i}
  BY AddressesWithFacts
<1>2. /\ Places' = Places \cup {i}
      /\ \A j \in Places \ {i} :
             /\ peers'[j] = peers[j]
             /\ j \in set_to_listen' <=> j \in set_to_listen
             /\ j \in set_to_connect' <=> j \in set_to_connect
             /\ j \in DOMAIN map_to_remove' <=> j \in DOMAIN map_to_remove
             /\ j \in DOMAIN map_to_remove =>
                    map_to_remove'[j] = map_to_remove[j]
  BY DEF OthersStay, Places
<1> HIDE DEF i
<1>3. \A b \in DOMAIN map_by_address' :
          /\ b \in Addresses /\ map_by_address'[b] \in Places'
          /\ peers'[map_by_address'[b]].address = b
  <2>1. \A b \in DOMAIN map_by_address :
            b \in Addresses /\ peers[map_by_address[b]].address = b
    BY MapFacts
  <2> QED BY <1>1, <1>2, <2>1 DEF i
<1>4. \A j \in Places' : /\ peers'[j].address \in DOMAIN map_by_address'
                         /\ map_by_address'[peers'[j].address] = j
  <2>1. ASSUME NEW j \in Places \ {i}
        PROVE  /\ peers'[j].address \in DOMAIN map_by_address'
               /\ map_by_address'[peers'[j].address] = j
    <3>1. /\ peers[j].address \in DOMAIN map_by_address
          /\ map_by_address[peers[j].address] = j /\ peers[j].address # a
      BY EntryFacts, PlaceFacts DEF i
    <3> QED BY <1>1, <1>2, <3>1
  <2> QED BY <1>1, <1>2, <2>1 DEF i
<1>5. TypeOK'
  <2>1. \A map \in {map_by_address', map_by_peer_id', map_by_key'} :
            Range(map) \subseteq Places'
    BY <1>2, <1>3 DEF Range, i
  <2>2. /\ DOMAIN map_by_address' \subseteq Addresses
        /\ DOMAIN map_by_key' \subseteq NodeIds \cup {None}
    BY <1>3
  <2>3. \A j \in DOMAIN map_to_remove' : map_to_remove'[j] \in Waiting
    BY <1>2 DEF IInv, TypeOK, i
  <2> QED BY <1>2, <2>1, <2>2, <2>3 DEF TypeOK, i
<1>6. MapsAgree'
  BY <1>2, <1>3, <1>4 DEF MapsAgree, Known, IsActive, i
<1>7. TodoIsPassive'
  <2>1. ASSUME NEW j \in set_to_listen'
        PROVE  /\ j \in Places' /\ peers'[j].peer = None
               /\ peers'[j].address \in Listening
    BY <1>2 DEF IInv, TodoIsPassive, IsActive, i
  <2>2. ASSUME NEW j \in set_to_connect'
        PROVE  /\ j \in Places' /\ peers'[j].peer = None
               /\ peers'[j].address \notin Listening
    BY <1>2 DEF IInv, TodoIsPassive, IsActive, i
  <2> QED BY <2>1, <2>2 DEF TodoIsPassive, IsActive
<1>8. DropsHaveConnection'
  <2>1. ASSUME NEW j \in DOMAIN map_to_remove', map_to_remove'[j].send_drop
        PROVE  j \in Places' /\ peers'[j].peer # None
    BY <1>2, <2>1 DEF IInv, DropsHaveConnection, IsActive, i
  <2> QED BY <2>1 DEF DropsHaveConnection, IsActive
<1> QED BY <1>5, <1>6, <1>7, <1>8 DEF IInv

LEMMA AddPassiveStep ==
    ASSUME IInv, NEW a \in Addresses, AddPassive(a)
    PROVE  IInv' /\ AbsTable' = Abs!WithPassive(AbsTable, a)
<1> DEFINE i == PlaceOf(a)
<1>1. /\ peers' = PeersWith(a) /\ map_by_address' = AddressesWith(a)
      /\ map_by_key' = KeysWith(a) /\ map_to_remove' = RemovalsWith(a)
      /\ map_by_peer_id' = map_by_peer_id
  BY DEF AddPassive
<1>2. /\ DOMAIN peers' = Places \cup {i} /\ peers' \in Seq(Items)
      /\ \A j \in Places \ {i} : peers'[j] = peers[j]
      /\ IsFresh(a) => peers'[i] = PassiveItem(a)
      /\ ~IsFresh(a) => peers'[i] = peers[i] /\ Known(a)
  BY <1>1, PeersWithFacts
<1>3. /\ \A j : j # i => /\ j \in DOMAIN map_to_remove'
                                <=> j \in DOMAIN map_to_remove
                         /\ j \in DOMAIN map_to_remove =>
                                map_to_remove'[j] = map_to_remove[j]
      /\ IsFresh(a) => i \notin DOMAIN map_to_remove'
      /\ ~IsFresh(a) => map_to_remove' = map_to_remove
      /\ DOMAIN map_to_remove' \subseteq Places
  BY <1>1, RemovalsWithFacts
<1>4. /\ set_to_listen' = set_to_listen \cup
             (IF IsFresh(a) /\ a \in Listening THEN {i} ELSE {})
      /\ set_to_connect' = set_to_connect \cup
             (IF IsFresh(a) /\ a \notin Listening THEN {i} ELSE {})
  BY DEF AddPassive
<1>5. /\ i \in Places <=> Known(a)
      /\ Known(a) => map_by_address[a] = i /\ peers[i].address = a
      /\ IsFresh(a) => \A p \in DOMAIN map_by_peer_id : map_by_peer_id[p] # i
  BY PlaceFacts
<1>6. /\ PassiveItem(a).address = a /\ PassiveItem(a).peer = None
      /\ PassiveItem(a).node = None
  BY DEF PassiveItem
<1>7. /\ set_to_listen \subseteq Places /\ set_to_connect \subseteq Places
      /\ DOMAIN map_by_peer_id \subseteq PeerIds
      /\ \A j \in DOMAIN map_to_remove : map_to_remove[j] \in Waiting
  BY DEF IInv, TypeOK
<1> HIDE DEF i
<1>8. OthersStay(a)
  BY <1>1, <1>2, <1>3, <1>4 DEF OthersStay, i
<1>9. \A p \in DOMAIN map_by_peer_id' :
          /\ map_by_peer_id'[p] \in Places \cup {i}
          /\ peers'[map_by_peer_id'[p]].peer = p
  BY <1>1, <1>2, <1>5, MapFacts
<1>10. ASSUME NEW j \in Places \cup {i}, peers'[j].peer # None
       PROVE  /\ peers'[j].peer \in DOMAIN map_by_peer_id'
              /\ map_by_peer_id'[peers'[j].peer] = j
  <2>1. j \in Places /\ peers'[j] = peers[j]
    BY <1>2, <1>5, <1>6, <1>10
  <2> QED BY <1>1, <1>10, <2>1 DEF IInv, MapsAgree, IsActive
<1>11. \A n \in DOMAIN map_by_key' :
           /\ n \in NodeIds \cup {None}
           /\ map_by_key'[n] \in Places \cup {i}
           /\ peers'[map_by_key'[n]].node = n
  BY <1>1, KeysWithFacts DEF i
<1>12. /\ i \in set_to_listen' => peers'[i].peer = None /\ a \in Listening
       /\ i \in set_to_connect' => peers'[i].peer = None /\ a \notin Listening
  BY <1>2, <1>4, <1>5, <1>6, <1>7 DEF IInv, TodoIsPassive, IsActive
<1>13. i \in DOMAIN map_to_remove' =>
           /\ map_to_remove'[i] \in Waiting
           /\ map_to_remove'[i].send_drop => peers'[i].peer # None
  BY <1>2, <1>3, <1>7 DEF IInv, DropsHaveConnection, IsActive
<1>14. peers'[i].address = a
  BY <1>2, <1>5, <1>6
<1>15. IInv'
  BY <1>1, <1>2, <1>3, <1>4, <1>7, <1>8, <1>9, <1>10, <1>11, <1>12, <1>13,
     <1>14, OthersKeepIInv DEF i
<1>16. AbsTable'[a] = Abs!WithPassive(AbsTable, a)[a]
  <2>1. AbsTable'[a] =
            [peer |-> peers'[i].peer, node |-> peers'[i].node,
             todo |-> i \in set_to_listen' \cup set_to_connect',
             removal |-> IF i \in DOMAIN map_to_remove'
                         THEN map_to_remove'[i] ELSE None]
    BY <1>8, OthersInTable DEF i
  <2>2. CASE IsFresh(a)
    <3>1. Abs!WithPassive(AbsTable, a)[a] = Abs!Passive
      BY <2>2, FreshIsFree, AbsTableFacts DEF Abs!WithPassive
    <3>2. (i \in set_to_listen' \cup set_to_connect') = TRUE
      BY <1>4, <2>2
    <3>3. /\ peers'[i].peer = None /\ peers'[i].node = None
          /\ i \notin DOMAIN map_to_remove'
      BY <1>2, <1>3, <1>6, <2>2
    <3> QED BY <2>1, <3>1, <3>2, <3>3 DEF Abs!Passive
  <2>3. CASE ~IsFresh(a)
    <3>1. Abs!WithPassive(AbsTable, a)[a] = AbsEntry(map_by_address[a])
      BY <1>2, <2>3, FreshIsFree, AbsTableFacts DEF Abs!WithPassive
    <3>2. AbsEntry(map_by_address[a]) = AbsEntry(i) /\ peers'[i] = peers[i]
          /\ set_to_listen' = set_to_listen
          /\ set_to_connect' = set_to_connect
          /\ map_to_remove' = map_to_remove
      BY <1>2, <1>3, <1>4, <1>5, <2>3
    <3> QED BY <2>1, <3>1, <3>2 DEF AbsEntry
  <2> QED BY <2>2, <2>3
<1>17. \A b \in Addresses \ {a} :
           AbsTable'[b] = Abs!WithPassive(AbsTable, a)[b]
  BY <1>8, OthersInTable, AbsTableFacts DEF Abs!WithPassive
<1>18. Abs!WithPassive(AbsTable, a)
           = [b \in Addresses |-> Abs!WithPassive(AbsTable, a)[b]]
  BY AbsTableFacts DEF Abs!WithPassive
<1> QED BY <1>15, <1>16, <1>17, <1>18, AbsTableNext, TablesEqual

LEMMA AddActiveStep ==
    ASSUME IInv, NEW a \in Addresses, NEW p \in PeerIds, AddActive(a, p)
    PROVE  /\ IInv'
           /\ Abs!AddressesOf(AbsTable, p) \subseteq {a}
           /\ AbsTable' = Abs!WithActive(AbsTable, a, p)
<1> DEFINE i == PlaceOf(a)
           with == PeersWith(a)
           keys == IF with[i].node # None
                   THEN Erase(KeysWith(a), with[i].node) ELSE KeysWith(a)
<1>1. /\ IsNew(p, a) /\ map_by_address' = AddressesWith(a)
      /\ peers' = [with EXCEPT ![i].peer = p, ![i].node = None]
      /\ map_by_peer_id' = Put(Erase(map_by_peer_id, with[i].peer), p, i)
      /\ map_by_key' = Put(keys, None, i)
      /\ map_to_remove' = RemovalsWith(a)
      /\ set_to_listen' = set_to_listen \ {i}
      /\ set_to_connect' = set_to_connect \ {i}
  BY DEF AddActive, PeerIdsWith
<1>2. /\ with \in Seq(Items) /\ DOMAIN with = Places \cup {i}
      /\ \A j \in Places \ {i} : with[j] = peers[j]
      /\ IsFresh(a) => with[i] = PassiveItem(a)
      /\ ~IsFresh(a) => with[i] = peers[i] /\ Known(a)
  BY PeersWithFacts
<1>3. /\ \A j : j # i => /\ j \in DOMAIN map_to_remove'
                                <=> j \in DOMAIN map_to_remove
                         /\ j \in DOMAIN map_to_remove =>
                                map_to_remove'[j] = map_to_remove[j]
      /\ IsFresh(a) => i \notin DOMAIN map_to_remove'
      /\ ~IsFresh(a) => map_to_remove' = map_to_remove
      /\ DOMAIN map_to_remove' \subseteq Places
  BY <1>1, RemovalsWithFacts
<1>4. /\ i \in Places <=> Known(a)
      /\ Known(a) => map_by_address[a] = i /\ peers[i].address = a
      /\ IsFresh(a) => \A q \in DOMAIN map_by_peer_id : map_by_peer_id[q] # i
      /\ \A j \in Places \ {i} : peers[j].address # a
  BY PlaceFacts
<1>5. /\ PassiveItem(a).address = a /\ PassiveItem(a).peer = None
      /\ PassiveItem(a).node = None
  BY DEF PassiveItem
<1>6. /\ set_to_listen \subseteq Places /\ set_to_connect \subseteq Places
      /\ DOMAIN map_by_peer_id \subseteq PeerIds
      /\ \A j \in DOMAIN map_to_remove : map_to_remove[j] \in Waiting
      /\ p # None
  BY NoneAssumption DEF IInv, TypeOK
<1>7. \A n \in DOMAIN KeysWith(a) :
          /\ n \in NodeIds \cup {None}
          /\ KeysWith(a)[n] \in Places \cup {i}
          /\ with[KeysWith(a)[n]].node = n
  BY KeysWithFacts
<1>8. \A q \in DOMAIN map_by_peer_id :
          map_by_peer_id[q] \in Places /\ peers[map_by_peer_id[q]].peer = q
  BY MapFacts
<1>9. p \in DOMAIN map_by_peer_id => map_by_peer_id[p] = i
  BY <1>1, <1>4, <1>8 DEF IsNew
<1> HIDE DEF i, with
<1>10. with[i] \in Items /\ with[i].address = a
  <2>1. with[i] \in Items
    <3>1. DOMAIN with = 1..Len(with)
      BY <1>2, LenProperties
    <3> QED BY <1>2, <3>1, ElementOfSeq
  <2> QED BY <1>2, <1>4, <1>5, <2>1
<1>11. /\ peers' \in Seq(Items) /\ DOMAIN peers' = Places \cup {i}
       /\ \A j \in Places \ {i} : peers'[j] = peers[j] /\ peers'[j] = with[j]
       /\ peers'[i].address = a /\ peers'[i].peer = p
       /\ peers'[i].node = None
  <2> DEFINE e == [with[i] EXCEPT !.peer = p, !.node = None]
  <2>1. e \in Items /\ e.address = a /\ e.peer = p /\ e.node = None
    BY <1>10 DEF Items
  <2>2. peers' = [with EXCEPT ![i] = e]
    BY <1>1
  <2> HIDE DEF e
  <2>3. i \in 1..Len(with)
    BY <1>2, LenProperties
  <2>4. peers' \in Seq(Items)
    BY <1>2, <2>1, <2>2, <2>3, ExceptSeq
  <2> QED BY <1>2, <2>1, <2>2, <2>4
<1>12. OthersStay(a)
  BY <1>1, <1>3, <1>11 DEF OthersStay, i
<1>13. ASSUME NEW q \in DOMAIN map_by_peer_id'
       PROVE  /\ q \in PeerIds /\ map_by_peer_id'[q] \in Places \cup {i}
              /\ peers'[map_by_peer_id'[q]].peer = q
  <2>1. CASE q = p
    BY <1>1, <1>11, <2>1 DEF Put
  <2>2. CASE q # p
    <3>1. /\ q \in DOMAIN map_by_peer_id /\ q # with[i].peer
          /\ map_by_peer_id'[q] = map_by_peer_id[q]
      BY <1>1, <2>2 DEF Put, Erase, Restrict
    <3>2. map_by_peer_id[q] \in Places \ {i}
      BY <1>2, <1>4, <1>8, <3>1
    <3> QED BY <1>6, <1>8, <1>11, <3>1, <3>2
  <2> QED BY <2>1, <2>2
<1>14. ASSUME NEW j \in Places \cup {i}, peers'[j].peer # None
       PROVE  /\ peers'[j].peer \in DOMAIN map_by_peer_id'
              /\ map_by_peer_id'[peers'[j].peer] = j
  <2>1. CASE j = i
    BY <1>1, <1>11, <2>1 DEF Put
  <2>2. CASE j # i
    <3> DEFINE q == peers[j].peer
    <3>1. j \in Places /\ peers'[j].peer = q /\ q # None
      BY <1>11, <1>14, <2>2
    <3>2. q \in DOMAIN map_by_peer_id /\ map_by_peer_id[q] = j
      BY <3>1 DEF IInv, MapsAgree, IsActive
    <3>3. q # p
      BY <1>9, <2>2, <3>2
    <3>4. q # with[i].peer
      <4>1. CASE IsFresh(a)
        BY <1>2, <1>5, <3>1, <4>1
      <4>2. CASE ~IsFresh(a)
        <5>1. i \in Places /\ with[i] = peers[i]
          BY <1>2, <1>4, <4>2
        <5>2. peers[i].peer # None => map_by_peer_id[peers[i].peer] = i
          BY <5>1 DEF IInv, MapsAgree, IsActive
        <5> QED BY <2>2, <3>1, <3>2, <5>1, <5>2
      <4> QED BY <4>1, <4>2
    <3> HIDE DEF q
    <3>5. /\ q \in DOMAIN map_by_peer_id'
          /\ map_by_peer_id'[q] = map_by_peer_id[q]
      BY <1>1, <3>2, <3>3, <3>4 DEF Put, Erase, Restrict
    <3> QED BY <3>1, <3>2, <3>5
  <2> QED BY <2>1, <2>2
<1>15. ASSUME NEW n \in DOMAIN map_by_key'
       PROVE  /\ n \in NodeIds \cup {None}
              /\ map_by_key'[n] \in Places \cup {i}
              /\ peers'[map_by_key'[n]].node = n
  <2>1. CASE n = None
    BY <1>1, <1>11, <2>1 DEF Put
  <2>2. CASE n # None
    <3>1. /\ n \in DOMAIN KeysWith(a) /\ n # with[i].node
          /\ map_by_key'[n] = KeysWith(a)[n]
      BY <1>1, <2>2 DEF Put, Erase, Restrict
    <3>2. KeysWith(a)[n] \in Places \ {i}
      BY <1>7, <3>1
    <3> QED BY <1>7, <1>11, <3>1, <3>2
  <2> QED BY <2>1, <2>2
<1>16. i \in DOMAIN map_to_remove' =>
           /\ map_to_remove'[i] \in Waiting
           /\ map_to_remove'[i].send_drop => peers'[i].peer # None
  BY <1>3, <1>6, <1>11
<1>17. IInv'
  BY <1>1, <1>3, <1>6, <1>11, <1>12, <1>13, <1>14, <1>15, <1>16,
     OthersKeepIInv DEF i
<1>18. Abs!AddressesOf(AbsTable, p) \subseteq {a}
  BY <1>9, <1>4, AbsAddresses, MapFacts, PlaceFacts DEF Known, i
<1>19. AbsTable'[a] = Abs!WithActive(AbsTable, a, p)[a]
  <2>1. AbsTable'[a] =
            [peer |-> peers'[i].peer, node |-> peers'[i].node,
             todo |-> i \in set_to_listen' \cup set_to_connect',
             removal |-> IF i \in DOMAIN map_to_remove'
                         THEN map_to_remove'[i] ELSE None]
    BY <1>12, OthersInTable DEF i
  <2>2. (i \in set_to_listen' \cup set_to_connect') = FALSE
    BY <1>1
  <2>3. Abs!WithActive(AbsTable, a, p)[a] =
            [peer |-> p, node |-> None, todo |-> FALSE,
             removal |-> IF IsFresh(a) THEN None ELSE AbsTable[a].removal]
    BY AbsTableFacts, FreshIsFree DEF Abs!WithActive
  <2>4. (IF i \in DOMAIN map_to_remove' THEN map_to_remove'[i] ELSE None)
            = IF IsFresh(a) THEN None ELSE AbsTable[a].removal
    <3>1. CASE IsFresh(a)
      BY <1>3, <3>1
    <3>2. CASE ~IsFresh(a)
      <4>1. AbsTable[a] = AbsEntry(i) /\ map_to_remove' = map_to_remove
        BY <1>2, <1>3, <1>4, <3>2, AbsTableFacts
      <4> QED BY <3>2, <4>1 DEF AbsEntry
    <3> QED BY <3>1, <3>2
  <2> QED BY <1>11, <2>1, <2>2, <2>3, <2>4
<1>20. \A b \in Addresses \ {a} :
           AbsTable'[b] = Abs!WithActive(AbsTable, a, p)[b]
  BY <1>12, OthersInTable, AbsTableFacts DEF Abs!WithActive
<1>21. Abs!WithActive(AbsTable, a, p)
           = [b \in Addresses |-> Abs!WithActive(AbsTable, a, p)[b]]
  BY AbsTableFacts DEF Abs!WithActive
<1> QED BY <1>17, <1>18, <1>19, <1>20, <1>21, AbsTableNext, TablesEqual

LEMMA SetActiveValueStep ==
    ASSUME IInv, NEW p \in PeerIds, NEW n \in NodeIds, SetActiveValue(p, n)
    PROVE  IInv' /\ AbsTable' = Abs!WithNode(AbsTable, p, n)
<1> DEFINE i == map_by_peer_id[p]
           old == peers[i].node
           keys == IF old # n THEN Erase(map_by_key, old) ELSE map_by_key
           e == [peers[i] EXCEPT !.node = n]
<1>1. /\ p \in DOMAIN map_by_peer_id
      /\ peers' = [peers EXCEPT ![i] = e]
      /\ map_by_key' = Put(keys, n, i)
      /\ map_by_address' = map_by_address
      /\ map_by_peer_id' = map_by_peer_id
      /\ set_to_listen' = set_to_listen /\ set_to_connect' = set_to_connect
      /\ map_to_remove' = map_to_remove
  BY DEF SetActiveValue, todo
<1>2. i \in Places /\ peers[i] \in Items /\ peers \in Seq(Items)
  BY <1>1, MapFacts, EntryFacts DEF IInv, TypeOK
<1>3. /\ e \in Items /\ e.address = peers[i].address
      /\ e.peer = peers[i].peer /\ e.node = n
  BY <1>2 DEF Items
<1> HIDE DEF i, e
<1>4. /\ peers' \in Seq(Items) /\ DOMAIN peers' = Places /\ peers'[i] = e
      /\ \A j \in Places \ {i} : peers'[j] = peers[j]
  <2>1. i \in 1..Len(peers)
    BY <1>2, PlacesAreFinite DEF IInv
  <2> QED BY <1>1, <1>2, <1>3, <2>1, ExceptSeq DEF Places
<1>5. \A j \in Places : /\ peers'[j].address = peers[j].address
                        /\ peers'[j].peer = peers[j].peer
                        /\ j # i => peers'[j].node = peers[j].node
  BY <1>3, <1>4
<1>6. ASSUME NEW m \in DOMAIN map_by_key'
      PROVE  /\ m \in NodeIds \cup {None} /\ map_by_key'[m] \in Places
             /\ peers'[map_by_key'[m]].node = m
  <2>1. CASE m = n
    BY <1>1, <1>2, <1>3, <1>4, <2>1 DEF Put
  <2>2. CASE m # n
    <3>1. /\ m \in DOMAIN map_by_key /\ m # old
          /\ map_by_key'[m] = map_by_key[m]
      BY <1>1, <2>2 DEF Put, Erase, Restrict
    <3>2. /\ m \in NodeIds \cup {None} /\ map_by_key[m] \in Places
          /\ peers[map_by_key[m]].node = m
      BY <3>1, MapFacts
    <3>3. map_by_key[m] # i
      BY <3>1, <3>2
    <3> QED BY <1>5, <3>1, <3>2, <3>3
  <2> QED BY <2>1, <2>2
<1>7. TypeOK'
  <2>1. Range(map_by_key') \subseteq Places
    BY <1>6 DEF Range
  <2>2. DOMAIN map_by_key' \subseteq NodeIds \cup {None}
    BY <1>6
  <2> QED BY <1>1, <1>4, <2>1, <2>2 DEF IInv, TypeOK, Places
<1>8. MapsAgree'
  <2>1. /\ \A a \in DOMAIN map_by_address :
               peers'[map_by_address[a]].address = a
        /\ \A q \in DOMAIN map_by_peer_id : peers'[map_by_peer_id[q]].peer = q
    BY <1>5, MapFacts
  <2>2. \A j \in Places :
            /\ peers'[j].address \in DOMAIN map_by_address
            /\ map_by_address[peers'[j].address] = j
            /\ peers'[j].peer # None =>
                   /\ peers'[j].peer \in DOMAIN map_by_peer_id
                   /\ map_by_peer_id[peers'[j].peer] = j
    BY <1>5 DEF IInv, MapsAgree, Known, IsActive
  <2> QED BY <1>1, <1>4, <1>6, <2>1, <2>2
          DEF MapsAgree, Places, Known, IsActive
<1>9. TodoIsPassive'
  BY <1>1, <1>4, <1>5 DEF IInv, TodoIsPassive, Places, IsActive
<1>10. DropsHaveConnection'
  BY <1>1, <1>4, <1>5 DEF IInv, DropsHaveConnection, Places, IsActive
<1>11. ASSUME NEW a \in Addresses
       PROVE  AbsTable'[a] = Abs!WithNode(AbsTable, p, n)[a]
  <2>1. /\ Abs!WithNode(AbsTable, p, n)[a]
               = IF a \in Abs!AddressesOf(AbsTable, p)
                 THEN [AbsTable[a] EXCEPT !.node = n] ELSE AbsTable[a]
        /\ AbsTable[a] = IF a \in DOMAIN map_by_address
                         THEN AbsEntry(map_by_address[a]) ELSE None
    BY AbsTableFacts DEF Abs!WithNode, Known
  <2>2. AbsTable'[a] = IF a \in DOMAIN map_by_address
                       THEN AbsEntry(map_by_address[a])' ELSE None
    BY <1>1, AbsTableNext
  <2>3. a \in Abs!AddressesOf(AbsTable, p)
            <=> a \in DOMAIN map_by_address /\ map_by_address[a] = i
    BY <1>1, AbsAddresses DEF Known, i
  <2>4. CASE a \in DOMAIN map_by_address /\ map_by_address[a] = i
    <3>1. AbsEntry(map_by_address[a])'
              = [AbsEntry(map_by_address[a]) EXCEPT !.node = n]
      BY <1>1, <1>3, <1>4, <2>4 DEF AbsEntry
    <3> QED BY <2>1, <2>2, <2>3, <2>4, <3>1
  <2>5. CASE a \in DOMAIN map_by_address /\ map_by_address[a] # i
    <3>1. map_by_address[a] \in Places \ {i}
      BY <2>5, MapFacts
    <3>2. AbsEntry(map_by_address[a])' = AbsEntry(map_by_address[a])
      BY <1>1, <1>4, <3>1 DEF AbsEntry
    <3> QED BY <2>1, <2>2, <2>3, <2>5, <3>2
  <2>6. CASE a \notin DOMAIN map_by_address
    BY <2>1, <2>2, <2>3, <2>6
  <2> QED BY <2>4, <2>5, <2>6
<1>12. Abs!WithNode(AbsTable, p, n)
           = [a \in Addresses |-> Abs!WithNode(AbsTable, p, n)[a]]
  BY DEF Abs!WithNode
<1>13. AbsTable' = Abs!WithNode(AbsTable, p, n)
  BY <1>11, <1>12, AbsTableNext, TablesEqual
<1> QED BY <1>7, <1>8, <1>9, <1>10, <1>13 DEF IInv

-----------------------------------------------------------------------------
(* The invariant, and the implementation of the table.                     *)

LEMMA InitStep ==
    ASSUME Init
    PROVE  IInv /\ Abs!Init
<1>1. peers \in Seq(Items) /\ Places = {}
  BY EmptySeq DEF Init, Places
<1>2. /\ DOMAIN map_by_address = {} /\ DOMAIN map_by_peer_id = {}
      /\ DOMAIN map_by_key = {} /\ DOMAIN map_to_remove = {}
      /\ set_to_listen = {} /\ set_to_connect = {}
  BY DEF Init, Empty
<1>3. IInv
  BY <1>1, <1>2
     DEF IInv, TypeOK, MapsAgree, TodoIsPassive, DropsHaveConnection, Range
<1>4. Abs!Init
  BY <1>2 DEF Abs!Init, AbsTable, Known
<1> QED BY <1>3, <1>4

LEMMA NextStep ==
    ASSUME IInv, Next
    PROVE  IInv' /\ Abs!Next
<1>1. ASSUME NEW a \in Addresses, AddPassive(a)
      PROVE  IInv' /\ Abs!Next
  BY <1>1, AddPassiveStep DEF Abs!Next
<1>2. ASSUME NEW a \in Addresses, RemoveFromTodoList(a)
      PROVE  IInv' /\ Abs!Next
  BY <1>2, RemoveFromTodoListStep DEF Abs!Next
<1>3. ASSUME NEW a \in Addresses, NEW p \in PeerIds, AddActive(a, p)
      PROVE  IInv' /\ Abs!Next
  BY <1>3, AddActiveStep DEF Abs!Next, Abs!AddActive
<1>4. ASSUME NEW a \in Addresses, NEW r \in Removals,
             RemoveAddressLater(a, r)
      PROVE  IInv' /\ Abs!Next
  BY <1>4, RemoveAddressLaterStep DEF Abs!Next
<1>5. ASSUME NEW p \in PeerIds, NEW n \in NodeIds, SetActiveValue(p, n)
      PROVE  IInv' /\ Abs!Next
  BY <1>5, SetActiveValueStep DEF Abs!Next
<1>6. ASSUME NEW p \in PeerIds, NEW r \in Removals, RemovePeerLater(p, r)
      PROVE  IInv' /\ Abs!Next
  BY <1>6, RemovePeerLaterStep DEF Abs!Next
<1>7. ASSUME NEW p \in PeerIds, UndoRemove(p)
      PROVE  IInv' /\ Abs!Next
  BY <1>7, UndoRemoveStep DEF Abs!Next
<1>8. CASE DoStep
  BY <1>8, DoStepStep DEF Abs!Next
<1>9. CASE RemovePending
  BY <1>9, RemovePendingStep DEF Abs!Next
<1> QED BY <1>1, <1>2, <1>3, <1>4, <1>5, <1>6, <1>7, <1>8, <1>9 DEF Next

LEMMA Stutter ==
    ASSUME IInv, UNCHANGED vars
    PROVE  IInv' /\ AbsTable' = AbsTable
<1>1. IInv'
  BY DEF IInv, vars, TypeOK, MapsAgree, TodoIsPassive, DropsHaveConnection,
         Places, Known, IsActive
<1>2. AbsTable' = AbsTable
  BY DEF vars, AbsTable, AbsEntry, Known, PlaceOf
<1> QED BY <1>1, <1>2

LEMMA Inductive == Spec => []IInv
<1>1. Init => IInv
  BY InitStep
<1>2. IInv /\ [Next]_vars => IInv'
  BY NextStep, Stutter
<1> QED BY <1>1, <1>2, PTL DEF Spec

(* The places that the maps, the sets and the pending removals hold lie in *)
(* the vector, whose operator[] is not checked (p2pstate.cpp).             *)
THEOREM TypeCorrect == Spec => []TypeOK
<1>1. IInv => TypeOK
  BY DEF IInv
<1> QED BY <1>1, Inductive, PTL

(* However entries are added, taken over and removed, several at a time,   *)
(* the address, the connection and the node of an entry lead to its place, *)
(* and a place in them leads to an entry that has them.                    *)
THEOREM MapsSafety == Spec => []MapsAgree
<1>1. IInv => MapsAgree
  BY DEF IInv
<1> QED BY <1>1, Inductive, PTL

(* No connection is opened to a peer that is connected already, and none   *)
(* the wrong way; remove_pending() finds the connection of every entry it  *)
(* sends a drop to, where get_peer() would terminate the process.          *)
THEOREM UseSafety == Spec => [](TodoIsPassive /\ DropsHaveConnection)
<1>1. IInv => TodoIsPassive /\ DropsHaveConnection
  BY DEF IInv
<1> QED BY <1>1, Inductive, PTL

(* The vector with all that refers to it by place is a table with one      *)
(* entry per address: every operation has on each entry the effect the     *)
(* table gives it, whatever places remove_pending() moves.                 *)
THEOREM Implementation == Spec => ImplementsPeerTable
<1>1. Init => Abs!Init
  BY InitStep
<1>2. IInv /\ [Next]_vars => [Abs!Next]_AbsTable
  BY NextStep, Stutter
<1> QED BY <1>1, <1>2, Inductive, PTL DEF Spec, ImplementsPeerTable, Abs!Spec

-----------------------------------------------------------------------------
(* The nodes that were dropped, which p2pstate_ex keeps beside the vector. *)
(* Nothing of the vector takes part: these are proofs about DroppedNodes,  *)
(* for any nodes, any MaxLimit and any packets.                            *)

CONSTANTS MaxLimit, MaxRepeat, NotDropped

VARIABLES droped_nodes, missed

Dropped == INSTANCE DroppedNodes

(* The inductive invariant.  MissedBefore is the strengthening: when an    *)
(* entry's limit grows, all it skipped is part of what was missed before,  *)
(* and skipped <= limit bounds it.                                         *)
BackOffInv ==
    /\ Dropped!TypeOK
    /\ Dropped!SkippedWithinLimit
    /\ \A n \in NodeIds : ~Dropped!IsDropped(n) => missed[n] = 0
    /\ Dropped!MissedBefore

(* What BackOffInv says of one node, by its entry and its count.           *)
OneSound(entry, count) ==
    /\ entry \in Dropped!Entries \cup {NotDropped} /\ count \in Nat
    /\ entry = NotDropped => count = 0
    /\ entry # NotDropped =>
           /\ entry.skipped <= entry.limit /\ entry.limit < 10 * MaxLimit
           /\ entry.limit < MaxLimit =>
                  9 * count < entry.limit + 9 * entry.skipped

LEMMA BackOffByNode ==
    ASSUME NEW entries, NEW counts,
           droped_nodes' = [n \in NodeIds |-> entries[n]],
           missed' = [n \in NodeIds |-> counts[n]],
           \A n \in NodeIds : OneSound(entries[n], counts[n])
    PROVE  BackOffInv'
<1>1. \A n \in NodeIds : OneSound(droped_nodes'[n], missed'[n])
  OBVIOUS
<1>2. Dropped!TypeOK'
  <2>1. \A n \in NodeIds : /\ entries[n] \in Dropped!Entries \cup {NotDropped}
                           /\ counts[n] \in Nat
    BY DEF OneSound
  <2> QED BY <2>1 DEF Dropped!TypeOK
<1>3. Dropped!SkippedWithinLimit'
  BY <1>1 DEF Dropped!SkippedWithinLimit, Dropped!IsDropped, OneSound
<1>4. \A n \in NodeIds : (~Dropped!IsDropped(n))' => missed'[n] = 0
  BY <1>1 DEF Dropped!IsDropped, OneSound
<1>5. Dropped!MissedBefore'
  BY <1>1 DEF Dropped!MissedBefore, Dropped!IsDropped, OneSound
<1> QED BY <1>2, <1>3, <1>4, <1>5 DEF BackOffInv

LEMMA NodeOfBackOff ==
    ASSUME BackOffInv, NEW n \in NodeIds
    PROVE  OneSound(droped_nodes[n], missed[n])
BY DEF BackOffInv, Dropped!TypeOK, Dropped!SkippedWithinLimit,
       Dropped!IsDropped, Dropped!MissedBefore, OneSound

LEMMA BackOffInit ==
    ASSUME Dropped!Parameters, Dropped!Init
    PROVE  BackOffInv
<1>1. /\ Dropped!TypeOK
      /\ \A n \in NodeIds : ~Dropped!IsDropped(n) /\ missed[n] = 0
  BY DEF Dropped!Init, Dropped!TypeOK, Dropped!IsDropped
<1> QED BY <1>1
        DEF BackOffInv, Dropped!SkippedWithinLimit, Dropped!MissedBefore

-----------------------------------------------------------------------------
(* What each call does to one node's entry.                                *)

LEMMA FreshSound ==
    ASSUME Dropped!Parameters
    PROVE  OneSound([limit |-> 1, skipped |-> 0], 0)
<1>1. [limit |-> 1, skipped |-> 0] \in Dropped!Entries BY DEF Dropped!Entries
<1> QED BY <1>1 DEF Dropped!Parameters, OneSound

LEMMA LongerSound ==
    ASSUME Dropped!Parameters, NEW entry \in Dropped!Entries,
           NEW count \in Nat, OneSound(entry, count)
    PROVE  OneSound(Dropped!Longer(entry), count)
<1>1. entry # NotDropped /\ entry.limit \in Nat /\ entry.skipped \in Nat
  BY DEF Dropped!Parameters, Dropped!Entries
<1>2. CASE entry.skipped < entry.limit
  BY <1>2 DEF Dropped!Longer
<1>3. CASE ~(entry.skipped < entry.limit)
  <2> DEFINE limit == IF entry.limit < MaxLimit THEN 10 * entry.limit
                      ELSE entry.limit
  <2>1. Dropped!Longer(entry) = [limit |-> limit, skipped |-> 0]
    BY <1>3 DEF Dropped!Longer
  <2>2. entry.skipped = entry.limit /\ entry.limit < 10 * MaxLimit
    BY <1>1, <1>3 DEF OneSound
  <2>3. limit \in Nat /\ limit < 10 * MaxLimit
    BY <1>1, <2>2 DEF Dropped!Parameters
  <2>4. limit < MaxLimit => 9 * count < limit
    BY <1>1, <2>2 DEF Dropped!Parameters, OneSound
  <2>5. Dropped!Longer(entry) \in Dropped!Entries
    BY <2>1, <2>3 DEF Dropped!Entries
  <2> HIDE DEF limit
  <2>6. /\ Dropped!Longer(entry).limit = limit
        /\ Dropped!Longer(entry).skipped = 0
    BY <2>1
  <2> QED BY <2>3, <2>4, <2>5, <2>6 DEF OneSound, Dropped!Parameters
<1> QED BY <1>2, <1>3

(* An entry that counts k more skips, and is not offered.                  *)
LEMMA SkippedSound ==
    ASSUME Dropped!Parameters, NEW entry \in Dropped!Entries,
           NEW count \in Nat, OneSound(entry, count), NEW k \in Nat,
           entry.skipped + k <= entry.limit
    PROVE  /\ OneSound([entry EXCEPT !.skipped = @ + k], count + k)
           /\ OneSound([entry EXCEPT !.skipped = @ + k], 0)
<1> DEFINE next == [entry EXCEPT !.skipped = @ + k]
<1>1. entry # NotDropped /\ entry.limit \in Nat /\ entry.skipped \in Nat
  BY DEF Dropped!Parameters, Dropped!Entries
<1>2. /\ next \in Dropped!Entries /\ next # NotDropped
      /\ next.limit = entry.limit /\ next.skipped = entry.skipped + k
  BY <1>1 DEF Dropped!Entries, Dropped!Parameters
<1> HIDE DEF next
<1>3. /\ entry.limit < 10 * MaxLimit
      /\ entry.limit < MaxLimit =>
             9 * count < entry.limit + 9 * entry.skipped
  BY <1>1 DEF OneSound
<1>4. /\ entry.limit < MaxLimit =>
             9 * (count + k) < entry.limit + 9 * (entry.skipped + k)
      /\ entry.limit < MaxLimit =>
             9 * 0 < entry.limit + 9 * (entry.skipped + k)
      /\ count + k \in Nat
  BY <1>1, <1>3
<1>5. OneSound(next, count + k) /\ OneSound(next, 0)
  BY <1>2, <1>3, <1>4 DEF OneSound
<1> QED BY <1>5 DEF next

LEMMA JoinStep ==
    ASSUME Dropped!Parameters, BackOffInv, NEW n \in NodeIds,
           Dropped!process_node_join(n)
    PROVE  BackOffInv'
<1>1. ASSUME NEW m \in NodeIds PROVE OneSound(droped_nodes'[m], missed'[m])
  <2>1. CASE m = n
    BY <2>1 DEF Dropped!process_node_join, BackOffInv, Dropped!TypeOK, OneSound
  <2>2. CASE m # n
    BY <2>2, NodeOfBackOff
    DEF Dropped!process_node_join, BackOffInv, Dropped!TypeOK
  <2> QED BY <2>1, <2>2
<1>2. /\ droped_nodes' = [m \in NodeIds |-> droped_nodes'[m]]
      /\ missed' = [m \in NodeIds |-> missed'[m]]
  BY DEF Dropped!process_node_join, BackOffInv, Dropped!TypeOK
<1> QED BY <1>1, <1>2, BackOffByNode

LEMMA DropStep ==
    ASSUME Dropped!Parameters, BackOffInv, NEW n \in NodeIds,
           Dropped!process_node_drop(n)
    PROVE  BackOffInv'
<1>1. ASSUME NEW m \in NodeIds PROVE OneSound(droped_nodes'[m], missed'[m])
  <2>1. missed'[m] = missed[m] /\ OneSound(droped_nodes[m], missed[m])
    BY NodeOfBackOff DEF Dropped!process_node_drop
  <2>2. CASE m # n
    BY <2>1, <2>2 DEF Dropped!process_node_drop, BackOffInv, Dropped!TypeOK
  <2>3. CASE m = n /\ ~Dropped!IsDropped(n)
    BY <2>1, <2>3, FreshSound
    DEF Dropped!process_node_drop, BackOffInv, Dropped!TypeOK,
        Dropped!IsDropped, OneSound
  <2>4. CASE m = n /\ Dropped!IsDropped(n)
    BY <2>1, <2>4, LongerSound
    DEF Dropped!process_node_drop, BackOffInv, Dropped!TypeOK,
        Dropped!IsDropped
  <2> QED BY <2>2, <2>3, <2>4
<1>2. /\ droped_nodes' = [m \in NodeIds |-> droped_nodes'[m]]
      /\ missed' = [m \in NodeIds |-> missed'[m]]
  BY DEF Dropped!process_node_drop, BackOffInv, Dropped!TypeOK
<1> QED BY <1>1, <1>2, BackOffByNode

LEMMA FilterStep ==
    ASSUME Dropped!Parameters, BackOffInv,
           NEW times \in [NodeIds -> 0..MaxRepeat], NEW contacts,
           Dropped!filter_introduce_candidates(times, contacts)
    PROVE  BackOffInv'
<1>1. ASSUME NEW n \in NodeIds PROVE OneSound(droped_nodes'[n], missed'[n])
  <2>1. times[n] \in Nat /\ missed[n] \in Nat
    BY DEF Dropped!Parameters, BackOffInv, Dropped!TypeOK
  <2>2. OneSound(droped_nodes[n], missed[n])
    BY NodeOfBackOff
  <2>3. CASE n \in contacts
    BY <2>2, <2>3 DEF Dropped!filter_introduce_candidates
  <2>4. CASE n \notin contacts /\ ~Dropped!IsDropped(n)
    <3>1. droped_nodes'[n] = NotDropped /\ missed[n] = 0
      BY <2>2, <2>4
      DEF Dropped!filter_introduce_candidates, Dropped!IsDropped, OneSound
    <3>2. Dropped!Left(n) = 0
      BY <2>4 DEF Dropped!Left
    <3>3. missed'[n] = 0
      BY <2>1, <2>4, <3>1, <3>2 DEF Dropped!filter_introduce_candidates
    <3> QED BY <3>1, <3>3 DEF OneSound
  <2>5. CASE n \notin contacts /\ Dropped!IsDropped(n)
    <3> DEFINE entry == droped_nodes[n]
    <3>1. /\ entry \in Dropped!Entries
          /\ entry.limit \in Nat /\ entry.skipped \in Nat
          /\ entry.skipped <= entry.limit
      BY <2>2, <2>5 DEF Dropped!IsDropped, OneSound, Dropped!Entries
    <3>2. Dropped!Left(n) = entry.limit - entry.skipped
      BY <2>5 DEF Dropped!Left
    <3>3. /\ Dropped!Skips(n, times[n]) \in Nat
          /\ entry.skipped + Dropped!Skips(n, times[n]) <= entry.limit
          /\ times[n] <= Dropped!Left(n) =>
                 Dropped!Skips(n, times[n]) = times[n]
      BY <2>1, <3>1, <3>2 DEF Dropped!Skips
    <3>4. droped_nodes'[n] =
              [entry EXCEPT !.skipped = @ + Dropped!Skips(n, times[n])]
      BY <2>5 DEF Dropped!filter_introduce_candidates
    <3>5. missed'[n] = IF times[n] > Dropped!Left(n) THEN 0
                       ELSE missed[n] + Dropped!Skips(n, times[n])
      BY <2>1, <2>5, <3>1, <3>2, <3>3 DEF Dropped!filter_introduce_candidates
    <3> DEFINE k == Dropped!Skips(n, times[n])
               next == [entry EXCEPT !.skipped = @ + k]
    <3>6. /\ OneSound(entry, missed[n])
          /\ k \in Nat /\ entry.skipped + k <= entry.limit
      BY <2>2, <3>3
    <3> HIDE DEF k, entry
    <3>7. OneSound(next, missed[n] + k) /\ OneSound(next, 0)
      BY <2>1, <3>1, <3>6, SkippedSound
    <3>8. droped_nodes'[n] = next
      BY <3>4 DEF k
    <3>9. missed'[n] = 0 \/ missed'[n] = missed[n] + k
      BY <3>5 DEF k
    <3> QED BY <3>7, <3>8, <3>9
  <2> QED BY <2>3, <2>4, <2>5
<1>2. /\ droped_nodes' = [m \in NodeIds |-> droped_nodes'[m]]
      /\ missed' = [m \in NodeIds |-> missed'[m]]
  BY DEF Dropped!filter_introduce_candidates
<1> QED BY <1>1, <1>2, BackOffByNode

-----------------------------------------------------------------------------
LEMMA BackOffNext ==
    ASSUME Dropped!Parameters, BackOffInv, [Dropped!Next]_(Dropped!vars)
    PROVE  BackOffInv'
<1>1. ASSUME NEW n \in NodeIds, Dropped!process_node_join(n) PROVE BackOffInv'
  BY <1>1, JoinStep
<1>2. ASSUME NEW n \in NodeIds, Dropped!process_node_drop(n) PROVE BackOffInv'
  BY <1>2, DropStep
<1>3. ASSUME NEW times \in [NodeIds -> 0..MaxRepeat], NEW contacts,
             Dropped!filter_introduce_candidates(times, contacts)
      PROVE  BackOffInv'
  BY <1>3, FilterStep
<1>4. CASE UNCHANGED Dropped!vars
  BY <1>4 DEF Dropped!vars, BackOffInv, Dropped!TypeOK,
              Dropped!SkippedWithinLimit, Dropped!IsDropped,
              Dropped!MissedBefore
<1> QED BY <1>1, <1>2, <1>3, <1>4 DEF Dropped!Next

LEMMA BackOffAddsUpHolds == BackOffInv => Dropped!BackOffAddsUp
<1> SUFFICES ASSUME BackOffInv, NEW n \in NodeIds
             PROVE  /\ ~Dropped!IsDropped(n) => missed[n] = 0
                    /\ Dropped!IsDropped(n) /\ droped_nodes[n].limit < MaxLimit
                           => 9 * missed[n] < 10 * droped_nodes[n].limit
  BY DEF Dropped!BackOffAddsUp
<1>1. ~Dropped!IsDropped(n) => missed[n] = 0
  BY DEF BackOffInv
<1>2. ASSUME Dropped!IsDropped(n), droped_nodes[n].limit < MaxLimit
      PROVE  9 * missed[n] < 10 * droped_nodes[n].limit
  <2>1. /\ droped_nodes[n].limit \in Nat /\ droped_nodes[n].skipped \in Nat
        /\ missed[n] \in Nat
    BY <1>2 DEF BackOffInv, Dropped!TypeOK, Dropped!IsDropped, Dropped!Entries
  <2>2. droped_nodes[n].skipped <= droped_nodes[n].limit
    BY <1>2 DEF BackOffInv, Dropped!SkippedWithinLimit
  <2>3. 9 * missed[n] < droped_nodes[n].limit + 9 * droped_nodes[n].skipped
    BY <1>2 DEF BackOffInv, Dropped!MissedBefore
  <2> QED BY <2>1, <2>2, <2>3
<1> QED BY <1>1, <1>2

(* Whatever drops, joins and packets come in whatever order, a node is     *)
(* offered again: its count of skips never passes its limit, the limit is  *)
(* bounded, and below the bound what it missed in a row is less than ten   *)
(* ninths of it.                                                           *)
THEOREM BackOffSafety ==
    ASSUME Dropped!Parameters
    PROVE  Dropped!Spec => [](/\ Dropped!TypeOK
                              /\ Dropped!SkippedWithinLimit
                              /\ Dropped!BackOffAddsUp)
<1>1. Dropped!Init => BackOffInv BY BackOffInit
<1>2. BackOffInv /\ [Dropped!Next]_(Dropped!vars) => BackOffInv' BY BackOffNext
<1>3. BackOffInv => /\ Dropped!TypeOK
                    /\ Dropped!SkippedWithinLimit
                    /\ Dropped!BackOffAddsUp
  BY BackOffAddsUpHolds DEF BackOffInv
<1> QED BY <1>1, <1>2, <1>3, PTL DEF Dropped!Spec
=============================================================================
