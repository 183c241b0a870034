--------------------------- MODULE P2PSocketProofs ---------------------------
(***************************************************************************)
(* Proofs about P2PSocket, for any addresses, connections and nodes.       *)
(***************************************************************************)
EXTENDS P2PSocket, TLAPS

(* What an entry of the table is, by the connection behind it.             *)

(* No remote connection: an address to open or listen on.                  *)
IsLocal(e) ==
    /\ e.node = None
    /\ e.removal # None => ~e.removal.send_drop

(* A remote connection is on the clock, and dropped when its time is over, *)
(* unless its end was received already.                                    *)
IsTimed(e) ==
    /\ e.removal # None
    /\ IF e.peer \in open THEN e.removal.send_drop
                          ELSE e.removal = Removal(0, FALSE, FALSE)

(* The end of a node that the user believes to have joined is reported.    *)
IsReported(e) ==
    e.node # None =>
        /\ e.node = NodeOf[e.peer]
        /\ \/ e.removal.must_notify
           \/ /\ e.removal.steps = 0
              /\ user[e.node] # "joined"
              /\ waiting => e.node \in Contacts

Sound(a, e) ==
    /\ e.todo => e.peer = None
    /\ a # Own => e.peer # Listener
    /\ a = Own => e.peer \notin Remotes
    /\ e.peer \notin Remotes => IsLocal(e)
    /\ e.peer \in Remotes => /\ e.peer \notin overtaken
                             /\ IsTimed(e)
                             /\ IsReported(e)

EntriesAreSound == \A a \in T!Present(table) : Sound(a, table[a])

OneAddress ==
    \A a, b \in T!Present(table) :
        table[a].peer = table[b].peer /\ table[a].peer # None => a = b

(* What leads to an entry, if its connection was not overtaken.            *)
ContactsHaveEntry ==
    \A n \in Contacts :
        /\ NodeOf[kbucket[n]] = n
        /\ \/ kbucket[n] \in overtaken
           \/ \E a \in T!Present(table) :
                  table[a].peer = kbucket[n] /\ table[a].node = n

OpenHaveEntry ==
    \A p \in open :
        \/ p \in overtaken
        \/ \E a \in T!Present(table) : table[a].peer = p

(* What is left for the user to be told is no contact again.               *)
NotifiedAreNoContacts == notify_removed_peers \cap Contacts = {}

(* An unknown contact is one whose removal is due, and prepare_wait() does *)
(* not leave those to receive().                                           *)
ContactsAreKnownSoon ==
    \A n \in Contacts :
        \/ user[n] # "away"
        \/ kbucket[n] \in overtaken
        \/ ~waiting /\ \E a \in T!Due(table) : table[a].node = n

(* The inductive invariant.                                                *)
IInv ==
    /\ TypeOK
    /\ EntriesAreSound
    /\ OneAddress
    /\ ContactsHaveEntry
    /\ OpenHaveEntry
    /\ NotifiedAreNoContacts
    /\ ContactsAreKnownSoon
    /\ ContactsAreVerified
    /\ JoinedAreContacts

-----------------------------------------------------------------------------
(* The operations on the table, address by address.                        *)

Table == [Addresses -> T!Entries \cup {None}]

LEMMA EntryFields ==
    ASSUME NEW t \in Table, NEW a \in T!Present(t)
    PROVE  /\ a \in Addresses /\ t[a] # None /\ t[a] \in T!Entries
           /\ t[a].peer \in PeerIds \cup {None}
           /\ t[a].node \in NodeIds \cup {None}
           /\ t[a].todo \in BOOLEAN
           /\ t[a].removal \in T!Waiting \cup {None}
BY DEF Table, T!Present, T!Entries

LEMMA RemovalFields ==
    ASSUME NEW r \in T!Waiting
    PROVE  /\ r # None /\ r.steps \in Nat
           /\ r.send_drop \in BOOLEAN /\ r.must_notify \in BOOLEAN
BY RecordAssumption DEF T!Waiting

LEMMA RemovalValue ==
    ASSUME NEW n \in Nat, NEW d \in BOOLEAN, NEW m \in BOOLEAN
    PROVE  /\ Removal(n, d, m) \in T!Waiting
           /\ Removal(n, d, m) # None
           /\ Removal(n, d, m).steps = n
           /\ Removal(n, d, m).send_drop = d
           /\ Removal(n, d, m).must_notify = m
BY RecordAssumption DEF Removal, T!Waiting

LEMMA PassiveEntry ==
    /\ T!Passive \in T!Entries /\ T!Passive # None
    /\ T!Passive.peer = None /\ T!Passive.node = None
    /\ T!Passive.removal = None
<1>1. T!Passive \in T!Entries
  BY DEF T!Passive, T!Entries
<1>2. /\ T!Passive.peer = None /\ T!Passive.node = None
      /\ T!Passive.removal = None
  BY DEF T!Passive
<1> QED BY <1>1, <1>2, RecordAssumption

(* WithRemoval() is called with addresses that are present.                *)
LEMMA WithRemovalAt ==
    ASSUME NEW t \in Table, NEW as \in SUBSET T!Present(t),
           NEW r \in T!Waiting \cup {None}
    PROVE  /\ T!WithRemoval(t, as, r) \in Table
           /\ T!Present(T!WithRemoval(t, as, r)) = T!Present(t)
           /\ \A a \in Addresses \ as : T!WithRemoval(t, as, r)[a] = t[a]
           /\ \A a \in as :
                  LET e == T!WithRemoval(t, as, r)[a]
                  IN  /\ e.peer = t[a].peer /\ e.node = t[a].node
                      /\ e.todo = t[a].todo /\ e.removal = r
<1> DEFINE u == T!WithRemoval(t, as, r)
<1>1. \A a \in as : /\ a \in Addresses /\ t[a] \in T!Entries
                    /\ [t[a] EXCEPT !.removal = r] \in T!Entries
  BY DEF Table, T!Present, T!Entries
<1>2. \A a \in Addresses :
          u[a] = IF a \in as THEN [t[a] EXCEPT !.removal = r] ELSE t[a]
  BY DEF T!WithRemoval
<1>3. u \in Table
  BY <1>1 DEF T!WithRemoval, Table
<1>4. \A a \in as : /\ u[a].peer = t[a].peer /\ u[a].node = t[a].node
                    /\ u[a].todo = t[a].todo /\ u[a].removal = r
  BY <1>1, <1>2 DEF T!Entries
<1>5. \A a \in as : u[a] # None
  BY <1>1, <1>2, RecordAssumption
<1>6. T!Present(u) = T!Present(t)
  BY <1>1, <1>2, <1>5 DEF T!Present
<1> QED BY <1>2, <1>3, <1>4, <1>6

LEMMA AttemptedAt ==
    ASSUME NEW t \in Table, NEW as \in SUBSET T!Present(t)
    PROVE  /\ T!Attempted(t, as) \in Table
           /\ T!Present(T!Attempted(t, as)) = T!Present(t)
           /\ \A a \in Addresses \ as : T!Attempted(t, as)[a] = t[a]
           /\ \A a \in as :
                  LET e == T!Attempted(t, as)[a]
                  IN  /\ e.peer = t[a].peer /\ e.node = t[a].node
                      /\ e.todo = FALSE /\ e.removal = t[a].removal
<1> DEFINE u == T!Attempted(t, as)
<1>1. \A a \in as : /\ a \in Addresses /\ t[a] \in T!Entries
                    /\ [t[a] EXCEPT !.todo = FALSE] \in T!Entries
  BY DEF Table, T!Present, T!Entries
<1>2. \A a \in Addresses :
          u[a] = IF a \in as THEN [t[a] EXCEPT !.todo = FALSE] ELSE t[a]
  BY DEF T!Attempted
<1>3. u \in Table
  BY <1>1 DEF T!Attempted, Table
<1>4. \A a \in as : /\ u[a].peer = t[a].peer /\ u[a].node = t[a].node
                    /\ u[a].todo = FALSE /\ u[a].removal = t[a].removal
  BY <1>1, <1>2 DEF T!Entries
<1>5. \A a \in as : u[a] # None
  BY <1>1, <1>2, RecordAssumption
<1>6. T!Present(u) = T!Present(t)
  BY <1>1, <1>2, <1>5 DEF T!Present
<1> QED BY <1>2, <1>3, <1>4, <1>6

LEMMA WithPassiveAt ==
    ASSUME NEW t \in Table, NEW a \in Addresses
    PROVE  /\ T!WithPassive(t, a) \in Table
           /\ \A b \in Addresses :
                  \/ T!WithPassive(t, a)[b] = t[b]
                  \/ /\ b = a /\ T!Free(t, a)
                     /\ T!WithPassive(t, a)[b] = T!Passive
BY PassiveEntry DEF Table, T!WithPassive

LEMMA WithActiveAt ==
    ASSUME NEW t \in Table, NEW a \in Addresses, NEW p \in PeerIds
    PROVE  /\ T!WithActive(t, a, p) \in Table
           /\ \A b \in Addresses \ {a} : T!WithActive(t, a, p)[b] = t[b]
           /\ T!WithActive(t, a, p)[a] # None
           /\ T!WithActive(t, a, p)[a].peer = p
           /\ T!WithActive(t, a, p)[a].node = None
           /\ ~T!WithActive(t, a, p)[a].todo
           /\ T!Free(t, a) => T!WithActive(t, a, p)[a].removal = None
           /\ ~T!Free(t, a) =>
                  T!WithActive(t, a, p)[a].removal = t[a].removal
<1> DEFINE r == IF T!Free(t, a) THEN None ELSE t[a].removal
           e == [peer |-> p, node |-> None, todo |-> FALSE, removal |-> r]
<1>1. r \in T!Waiting \cup {None}
  BY EntryFields DEF T!Free
<1>2. e \in T!Entries
  BY <1>1 DEF T!Entries
<1>3. T!WithActive(t, a, p) = [t EXCEPT ![a] = e]
  BY DEF T!WithActive, Table
<1>4. T!WithActive(t, a, p)[a] = e
  BY <1>3 DEF Table
<1>5. e # None
  BY <1>2, RecordAssumption
<1>6. e.peer = p /\ e.node = None /\ e.todo = FALSE /\ e.removal = r
  OBVIOUS
<1> HIDE DEF e
<1>7. T!WithActive(t, a, p) \in Table
  BY <1>2, <1>3 DEF Table
<1>8. \A b \in Addresses \ {a} : T!WithActive(t, a, p)[b] = t[b]
  BY <1>3 DEF Table
<1> QED BY <1>4, <1>5, <1>6, <1>7, <1>8

-----------------------------------------------------------------------------
(* What becomes of a table while its remote connections are left alone: an *)
(* address without one keeps its entry, or gets one, without one.          *)

IsRemote(e) == e # None /\ e.peer \in Remotes

IsLocalAt(a, e) ==
    e # None => /\ e.peer \notin Remotes
                /\ e.todo => e.peer = None
                /\ a # Own => e.peer # Listener
                /\ IsLocal(e)

SameRemotes(t, u) ==
    /\ u \in Table
    /\ \A a \in Addresses :
           /\ t[a] # None => u[a] # None
           /\ IF IsRemote(t[a]) THEN u[a] = t[a] ELSE IsLocalAt(a, u[a])

Locals(t) == {a \in T!Present(t) : t[a].peer \notin Remotes}

LEMMA LocalsStay ==
    ASSUME NEW t \in Table, NEW u, SameRemotes(t, u)
    PROVE  Locals(t) \subseteq Locals(u)
BY DEF Locals, SameRemotes, IsRemote, IsLocalAt, T!Present

LEMMA PassiveIsLocal ==
    ASSUME NEW a \in Addresses
    PROVE  IsLocalAt(a, T!Passive) /\ T!Passive # None
BY PassiveEntry, PeerAssumption DEF IsLocalAt, IsLocal, Remotes

LEMMA FreeIsNotRemote ==
    ASSUME NEW t \in Table, NEW a \in Addresses, T!Free(t, a)
    PROVE  ~IsRemote(t[a])
BY PeerAssumption DEF T!Free, T!Present, IsRemote, Remotes

LEMMA WithPassiveKeepsRemotes ==
    ASSUME NEW t \in Table, NEW u, SameRemotes(t, u), NEW a \in Addresses
    PROVE  SameRemotes(t, T!WithPassive(u, a))
<1> DEFINE w == T!WithPassive(u, a)
<1>1. u \in Table BY DEF SameRemotes
<1>2. /\ w \in Table
      /\ \A b \in Addresses :
             \/ w[b] = u[b]
             \/ b = a /\ T!Free(u, a) /\ w[b] = T!Passive
  BY <1>1, WithPassiveAt
<1> HIDE DEF w
<1>3. ASSUME NEW b \in Addresses
      PROVE  /\ t[b] # None => w[b] # None
             /\ IF IsRemote(t[b]) THEN w[b] = t[b] ELSE IsLocalAt(b, w[b])
  <2>1. CASE w[b] = u[b]
    BY <2>1 DEF SameRemotes
  <2>2. CASE b = a /\ T!Free(u, a) /\ w[b] = T!Passive
    <3>1. ~IsRemote(u[b])
      BY <1>1, <2>2, FreeIsNotRemote
    <3>2. ~IsRemote(t[b])
      BY <3>1 DEF SameRemotes
    <3> QED BY <2>2, <3>2, PassiveIsLocal
  <2> QED BY <1>2, <2>1, <2>2
<1> QED BY <1>2, <1>3 DEF SameRemotes, w

LEMMA WithPassivesKeepsRemotes ==
    ASSUME NEW t \in Table, NEW u, SameRemotes(t, u),
           NEW as \in SUBSET Addresses
    PROVE  SameRemotes(t, WithPassives(u, as))
<1> DEFINE w == WithPassives(u, as)
<1>1. u \in Table BY DEF SameRemotes
<1>2. \A b \in Addresses :
          w[b] = IF b \in as THEN T!WithPassive(u, b)[b] ELSE u[b]
  BY DEF WithPassives
<1>3. \A b \in Addresses : /\ SameRemotes(t, T!WithPassive(u, b))
                           /\ T!WithPassive(u, b) \in Table
  BY <1>1, WithPassiveKeepsRemotes, WithPassiveAt
<1>4. w \in Table
  BY <1>1, <1>3 DEF Table, WithPassives
<1> HIDE DEF w
<1>5. ASSUME NEW b \in Addresses
      PROVE  /\ t[b] # None => w[b] # None
             /\ IF IsRemote(t[b]) THEN w[b] = t[b] ELSE IsLocalAt(b, w[b])
  BY <1>2, <1>3 DEF SameRemotes
<1> QED BY <1>4, <1>5 DEF SameRemotes, w

LEMMA ListenerKeepsRemotes ==
    ASSUME NEW t \in Table, NEW u, SameRemotes(t, u), ~IsRemote(t[Own])
    PROVE  SameRemotes(t, T!WithActive(u, Own, Listener))
<1> DEFINE w == T!WithActive(u, Own, Listener)
<1>1. u \in Table /\ Own \in Addresses /\ Listener \in PeerIds
  BY AddressAssumption, PeerAssumption DEF SameRemotes
<1>2. w \in Table /\ \A b \in Addresses \ {Own} : w[b] = u[b]
  BY <1>1, WithActiveAt
<1>3. /\ w[Own] # None /\ w[Own].peer = Listener
      /\ w[Own].node = None /\ ~w[Own].todo
      /\ T!Free(u, Own) => w[Own].removal = None
      /\ ~T!Free(u, Own) => w[Own].removal = u[Own].removal
  BY <1>1, WithActiveAt
<1> HIDE DEF w
<1>4. IsLocalAt(Own, u[Own])
  BY <1>1 DEF SameRemotes
<1>5. IsLocalAt(Own, w[Own])
  <2>1. w[Own].removal # None => ~w[Own].removal.send_drop
    BY <1>1, <1>3, <1>4 DEF T!Free, T!Present, IsLocalAt, IsLocal
  <2> QED BY <1>3, <2>1 DEF IsLocalAt, IsLocal, Remotes
<1> QED BY <1>1, <1>2, <1>3, <1>5 DEF SameRemotes, w

LEMMA AttemptedKeepsRemotes ==
    ASSUME NEW t \in Table, NEW u, SameRemotes(t, u),
           NEW as \in SUBSET Locals(u)
    PROVE  SameRemotes(t, T!Attempted(u, as))
<1> DEFINE w == T!Attempted(u, as)
<1>1. u \in Table /\ as \in SUBSET T!Present(u)
  BY DEF SameRemotes, Locals
<1>2. /\ w \in Table /\ T!Present(w) = T!Present(u)
      /\ \A a \in Addresses \ as : w[a] = u[a]
      /\ \A a \in as : /\ w[a].peer = u[a].peer /\ w[a].node = u[a].node
                       /\ w[a].todo = FALSE /\ w[a].removal = u[a].removal
  BY <1>1, AttemptedAt
<1> HIDE DEF w
<1>3. ASSUME NEW b \in Addresses
      PROVE  /\ t[b] # None => w[b] # None
             /\ IF IsRemote(t[b]) THEN w[b] = t[b] ELSE IsLocalAt(b, w[b])
  <2>1. CASE b \notin as
    BY <1>2, <2>1 DEF SameRemotes
  <2>2. CASE b \in as
    <3>1. u[b] # None /\ w[b] # None /\ u[b].peer \notin Remotes
      BY <1>2, <2>2 DEF Locals, T!Present
    <3>2. ~IsRemote(t[b]) /\ IsLocalAt(b, u[b])
      BY <3>1 DEF SameRemotes, IsRemote
    <3> QED BY <1>2, <2>2, <3>1, <3>2 DEF IsLocalAt, IsLocal
  <2> QED BY <2>1, <2>2
<1> QED BY <1>2, <1>3 DEF SameRemotes, w

LEMMA WithRemovalKeepsRemotes ==
    ASSUME NEW t \in Table, NEW u, SameRemotes(t, u),
           NEW as \in SUBSET Locals(u),
           NEW r \in T!Waiting, ~r.send_drop
    PROVE  SameRemotes(t, T!WithRemoval(u, as, r))
<1> DEFINE w == T!WithRemoval(u, as, r)
<1>1. /\ u \in Table /\ as \in SUBSET T!Present(u)
      /\ r \in T!Waiting \cup {None}
  BY DEF SameRemotes, Locals
<1>2. /\ w \in Table /\ T!Present(w) = T!Present(u)
      /\ \A a \in Addresses \ as : w[a] = u[a]
      /\ \A a \in as : /\ w[a].peer = u[a].peer /\ w[a].node = u[a].node
                       /\ w[a].todo = u[a].todo /\ w[a].removal = r
  BY <1>1, WithRemovalAt
<1> HIDE DEF w
<1>3. ASSUME NEW b \in Addresses
      PROVE  /\ t[b] # None => w[b] # None
             /\ IF IsRemote(t[b]) THEN w[b] = t[b] ELSE IsLocalAt(b, w[b])
  <2>1. CASE b \notin as
    BY <1>2, <2>1 DEF SameRemotes
  <2>2. CASE b \in as
    <3>1. u[b] # None /\ w[b] # None /\ u[b].peer \notin Remotes
      BY <1>2, <2>2 DEF Locals, T!Present
    <3>2. ~IsRemote(t[b]) /\ IsLocalAt(b, u[b])
      BY <3>1 DEF SameRemotes, IsRemote
    <3> QED BY <1>2, <2>2, <3>1, <3>2 DEF IsLocalAt, IsLocal
  <2> QED BY <2>1, <2>2
<1> QED BY <1>2, <1>3 DEF SameRemotes, w

LEMMA SweptAt ==
    ASSUME NEW t \in Table
    PROVE  /\ T!Swept(t) \in Table
           /\ \A a \in Addresses :
                  T!Swept(t)[a] = IF a \in T!Due(t) THEN None ELSE t[a]
BY DEF Table, T!Swept

-----------------------------------------------------------------------------
(* What the invariant says of the table as a whole.                        *)

LEMMA TableSound ==
    ASSUME IInv
    PROVE  /\ table \in Table
           /\ T!Swept(table) \in Table
           /\ SameRemotes(table, table)
           /\ SameRemotes(T!Swept(table), T!Swept(table))
           /\ ~IsRemote(table[Own])
           /\ ~IsRemote(T!Swept(table)[Own])
<1>1. table \in Table
  BY DEF IInv, TypeOK, T!TypeOK, Table
<1>2. /\ T!Swept(table) \in Table
      /\ \A a \in Addresses :
             T!Swept(table)[a] = IF a \in T!Due(table) THEN None ELSE table[a]
  BY <1>1, SweptAt
<1>3. ASSUME NEW a \in Addresses, ~IsRemote(table[a])
      PROVE  IsLocalAt(a, table[a])
  BY <1>3 DEF IInv, EntriesAreSound, Sound, T!Present, IsRemote, IsLocalAt
<1>4. ~IsRemote(table[Own])
  BY AddressAssumption
     DEF IInv, EntriesAreSound, Sound, T!Present, IsRemote
<1>5. SameRemotes(table, table)
  BY <1>1, <1>3 DEF SameRemotes
<1>6. ~IsRemote(None) /\ \A a \in Addresses : IsLocalAt(a, None)
  BY DEF IsRemote, IsLocalAt
<1>7. ASSUME NEW a \in Addresses, ~IsRemote(T!Swept(table)[a])
      PROVE  IsLocalAt(a, T!Swept(table)[a])
  BY <1>2, <1>3, <1>6, <1>7
<1>8. SameRemotes(T!Swept(table), T!Swept(table))
  BY <1>2, <1>7 DEF SameRemotes
<1>9. ~IsRemote(T!Swept(table)[Own])
  BY <1>2, <1>4, <1>6, AddressAssumption
<1> QED BY <1>1, <1>2, <1>4, <1>5, <1>8, <1>9

(* The entries a step leaves without a remote connection are sound.        *)
LEMMA LocalIsSound ==
    ASSUME NEW a \in Addresses, table'[a] # None, IsLocalAt(a, table'[a])
    PROVE  Sound(a, table[a])'
BY DEF IsLocalAt, Sound

(* A connection is at one address if each remote connection is.            *)
LEMMA OneAddressFromRemotes ==
    ASSUME table' \in Table, EntriesAreSound',
           \A a, b \in T!Present(table)' :
               table'[a].peer = table'[b].peer /\ table'[a].peer \in Remotes
                   => a = b
    PROVE  OneAddress'
<1> SUFFICES ASSUME NEW a \in T!Present(table)', NEW b \in T!Present(table)',
                    table'[a].peer = table'[b].peer, table'[a].peer # None
             PROVE  a = b
  BY DEF OneAddress
<1>1. /\ a \in T!Present(table') /\ b \in T!Present(table')
      /\ a \in Addresses /\ b \in Addresses
  BY DEF T!Present
<1>2. CASE table'[a].peer \in Remotes
  BY <1>2
<1>3. CASE table'[a].peer \notin Remotes
  <2>1. table'[a].peer = Listener
    BY <1>1, <1>3, EntryFields DEF Remotes
  <2>2. a = Own /\ b = Own
    BY <2>1 DEF EntriesAreSound, Sound
  <2> QED BY <2>2
<1> QED BY <1>2, <1>3

-----------------------------------------------------------------------------
(* The steps that begin with remove_pending().                             *)

LEMMA SweepStep ==
    ASSUME IInv, Sweep, SameRemotes(T!Swept(table), table'),
           waiting' \in BOOLEAN
    PROVE  IInv'
<1> DEFINE Kept(a) == /\ a \in T!Present(table) /\ a \notin T!Due(table)
                      /\ table[a].peer \in Remotes
<1> USE DEF IInv
<1>1. table \in Table /\ table' \in Table
  BY TableSound DEF SameRemotes
<1>2. /\ kbucket' = KbucketAfterSweep /\ verified_peers' = VerifiedAfterSweep
      /\ notify_removed_peers' = notify_removed_peers \cup Notified
      /\ open' = open \ Dropped
      /\ external_ip_address' = external_ip_address
      /\ user' = user /\ overtaken' = overtaken
  BY DEF Sweep
<1>3. ASSUME NEW a \in Addresses
      PROVE  IF Kept(a) THEN a \in T!Present(table') /\ table'[a] = table[a]
             ELSE IsLocalAt(a, table'[a])
  <2>1. T!Swept(table)[a] = IF a \in T!Due(table) THEN None ELSE table[a]
    BY <1>1, SweptAt
  <2>2. IsRemote(T!Swept(table)[a]) <=> Kept(a)
    BY <2>1 DEF IsRemote, T!Present
  <2> QED BY <2>1, <2>2 DEF SameRemotes, IsRemote, T!Present
<1>4. ASSUME NEW a \in T!Present(table'), ~Kept(a)
      PROVE  table'[a].peer \notin Remotes
  BY <1>3, <1>4 DEF IsLocalAt, T!Present
<1>5. ASSUME NEW a, Kept(a)
      PROVE  /\ a \in Addresses /\ Sound(a, table[a])
             /\ table[a].peer \notin Dropped
             /\ table[a].node # None => table[a].removal.must_notify
  <2>1. a \in Addresses /\ Sound(a, table[a])
    BY <1>5 DEF EntriesAreSound, T!Present
  <2>2. table[a].peer \notin Dropped
    BY <1>5, PeerAssumption
       DEF OneAddress, Dropped, Swept, T!Due, Remotes
  <2>3. table[a].removal # None /\ table[a].removal.steps # 0
    BY <1>5, <2>1 DEF Sound, IsTimed, T!Due
  <2> QED BY <1>5, <2>1, <2>2, <2>3 DEF Sound, IsReported
<1>6. Notified \subseteq SweptNodes /\ SweptNodes \subseteq NodeIds
  <2>1. ASSUME NEW n \in Notified PROVE n \in SweptNodes
    <3>1. PICK a \in DueToNotify : n = table[a].node /\ n # None
      BY DEF Notified
    <3> QED BY <3>1 DEF DueToNotify, SweptNodes
  <2>2. ASSUME NEW n \in SweptNodes PROVE n \in NodeIds
    <3>1. PICK a \in Swept : n = table[a].node /\ n # None
      BY DEF SweptNodes
    <3>2. a \in T!Present(table)
      BY DEF Swept, T!Due
    <3> QED BY <1>1, <3>1, <3>2, EntryFields
  <2> QED BY <2>1, <2>2
<1>7. \A n \in NodeIds :
          /\ kbucket'[n] = IF n \in SweptNodes THEN None ELSE kbucket[n]
          /\ n \in Contacts' <=> n \in Contacts /\ n \notin SweptNodes
  BY <1>2 DEF KbucketAfterSweep, Contacts
<1>8. \A n \in Contacts : /\ n \in NodeIds /\ kbucket[n] \in Remotes
                          /\ kbucket[n] # None
  BY DEF Contacts, TypeOK
<1>9. TypeOK'
  <2>1. T!TypeOK'
    BY <1>1 DEF Table, T!TypeOK
  <2>2. kbucket' \in [NodeIds -> Remotes \cup {None}]
    BY <1>2 DEF KbucketAfterSweep, TypeOK
  <2> QED BY <1>2, <1>6, <2>1, <2>2 DEF TypeOK, VerifiedAfterSweep
<1>10. EntriesAreSound'
  <2>1. ASSUME NEW a \in T!Present(table')
        PROVE  Sound(a, table[a])'
    <3>1. CASE Kept(a)
      <4>1. table'[a] = table[a] /\ Sound(a, table[a])
        BY <1>3, <1>5, <3>1
      <4>2. table[a].peer \in open' <=> table[a].peer \in open
        BY <1>2, <1>5, <3>1
      <4>3. IsTimed(table[a])' /\ IsReported(table[a])'
        BY <1>5, <3>1, <4>1, <4>2 DEF Sound, IsTimed, IsReported
      <4> QED BY <1>2, <3>1, <4>1, <4>3 DEF Sound
    <3>2. CASE ~Kept(a)
      BY <1>3, <3>2, LocalIsSound DEF T!Present
    <3> QED BY <3>1, <3>2
  <2> QED BY <2>1 DEF EntriesAreSound, T!Present
<1>11. OneAddress'
  <2>1. ASSUME NEW a \in T!Present(table'), NEW b \in T!Present(table'),
               table'[a].peer = table'[b].peer, table'[a].peer \in Remotes
        PROVE  a = b
    <3>1. Kept(a) /\ Kept(b)
      BY <1>4, <2>1
    <3>2. table'[a] = table[a] /\ table'[b] = table[b]
      BY <1>3, <1>5, <3>1
    <3> QED BY <2>1, <3>1, <3>2, PeerAssumption DEF OneAddress, Remotes
  <2> QED BY <1>1, <1>10, <2>1, OneAddressFromRemotes DEF T!Present
<1>12. ContactsHaveEntry'
  <2>1. ASSUME NEW n \in Contacts'
        PROVE  /\ NodeOf[kbucket'[n]] = n
               /\ \/ kbucket'[n] \in overtaken'
                  \/ \E a \in T!Present(table') :
                         /\ table'[a].peer = kbucket'[n]
                         /\ table'[a].node = n
    <3>1. /\ n \in NodeIds /\ n \in Contacts /\ n \notin SweptNodes
          /\ kbucket'[n] = kbucket[n] /\ kbucket[n] \in Remotes
      BY <1>7, <1>8 DEF Contacts
    <3>2. NodeOf[kbucket[n]] = n
      BY <3>1 DEF ContactsHaveEntry
    <3>3. CASE kbucket[n] \in overtaken
      BY <1>2, <3>1, <3>2, <3>3
    <3>4. CASE kbucket[n] \notin overtaken
      <4>1. PICK a \in T!Present(table) :
                table[a].peer = kbucket[n] /\ table[a].node = n
        BY <3>1, <3>4 DEF ContactsHaveEntry
      <4>2. n # None
        BY <3>1, PeerAssumption
      <4>3. Kept(a)
        BY <3>1, <4>1, <4>2 DEF SweptNodes, Swept
      <4> QED BY <1>3, <1>5, <3>1, <3>2, <4>1, <4>3
    <3> QED BY <3>3, <3>4
  <2> QED BY <2>1 DEF ContactsHaveEntry, T!Present
<1>13. OpenHaveEntry'
  <2>1. ASSUME NEW p \in open', p \notin overtaken'
        PROVE  \E a \in T!Present(table') : table'[a].peer = p
    <3>1. p \in open /\ p \notin Dropped /\ p \in Remotes
      BY <1>2 DEF TypeOK
    <3>2. PICK a \in T!Present(table) : table[a].peer = p
      BY <1>2, <2>1, <3>1 DEF OpenHaveEntry
    <3>3. Kept(a)
      BY <3>1, <3>2
         DEF EntriesAreSound, Sound, IsTimed, Dropped, Swept
    <3> QED BY <1>3, <1>5, <3>2, <3>3
  <2> QED BY <2>1 DEF OpenHaveEntry, T!Present
<1>14. NotifiedAreNoContacts'
  BY <1>2, <1>6, <1>7 DEF NotifiedAreNoContacts, Contacts
<1>15. ContactsAreKnownSoon'
  <2>1. ASSUME NEW n \in Contacts', user'[n] = "away",
               kbucket'[n] \notin overtaken'
        PROVE  FALSE
    <3>1. /\ n \in NodeIds /\ n \in Contacts /\ n \notin SweptNodes
          /\ kbucket'[n] = kbucket[n]
      BY <1>7 DEF Contacts
    <3>2. PICK a \in T!Due(table) : table[a].node = n
      BY <1>2, <2>1, <3>1 DEF ContactsAreKnownSoon
    <3>3. n # None
      BY <3>1, PeerAssumption
    <3> QED BY <3>1, <3>2, <3>3 DEF SweptNodes, Swept
  <2> QED BY <2>1 DEF ContactsAreKnownSoon
<1>16. ContactsAreVerified'
  BY <1>2, <1>7 DEF ContactsAreVerified, VerifiedAfterSweep, Contacts
<1>17. JoinedAreContacts'
  <2>1. ASSUME NEW n \in NodeIds, user'[n] = "joined",
               n \notin Contacts', n \notin notify_removed_peers'
        PROVE  FALSE
    <3>1. user[n] = "joined" /\ n \in Contacts /\ n \in SweptNodes
      BY <1>2, <1>7, <2>1 DEF JoinedAreContacts
    <3>2. PICK a \in T!Due(table) : table[a].node = n /\ n # None
      BY <3>1 DEF SweptNodes, Swept
    <3>3. Sound(a, table[a]) /\ table[a].removal # None
      BY <3>2 DEF EntriesAreSound, T!Due
    <3>4. table[a].removal.must_notify
      BY <3>1, <3>2, <3>3 DEF Sound, IsLocal, IsReported
    <3>5. n \in Notified
      BY <3>2, <3>4 DEF Notified, DueToNotify, Swept
    <3> QED BY <1>2, <2>1, <3>5
  <2> QED BY <2>1 DEF JoinedAreContacts
<1> QED BY <1>9, <1>10, <1>11, <1>12, <1>13, <1>14, <1>15, <1>16, <1>17

LEMMA ToConnectIsLocal ==
    ASSUME IInv
    PROVE  /\ ToConnect(T!Swept(table)) \subseteq Locals(T!Swept(table))
           /\ ToListen(T!Swept(table)) \subseteq Locals(T!Swept(table))
<1>1. \A a \in Addresses :
          T!Swept(table)[a] = IF a \in T!Due(table) THEN None ELSE table[a]
  BY TableSound, SweptAt
<1>2. ASSUME NEW a \in T!Present(T!Swept(table)), T!Swept(table)[a].todo
      PROVE  T!Swept(table)[a].peer = None
  <2>1. T!Swept(table)[a] = table[a] /\ a \in T!Present(table)
    BY <1>1 DEF T!Present
  <2> QED BY <1>2, <2>1 DEF IInv, EntriesAreSound, Sound
<1> QED BY <1>2, PeerAssumption DEF ToConnect, ToListen, Locals, Remotes

LEMMA ConnectingKeepsRemotes ==
    ASSUME NEW t \in Table, NEW u, SameRemotes(t, u),
           NEW as \in SUBSET Locals(t)
    PROVE  SameRemotes(t, Connecting(u, as))
<1> DEFINE v == T!Attempted(u, as)
           r == Removal(OpenSteps, FALSE, FALSE)
<1>1. as \in SUBSET Locals(u)
  BY LocalsStay
<1>2. SameRemotes(t, v)
  BY <1>1, AttemptedKeepsRemotes
<1>3. as \in SUBSET Locals(v)
  BY <1>2, LocalsStay
<1>4. r \in T!Waiting /\ ~r.send_drop
  BY RemovalValue, NumberAssumption
<1> HIDE DEF v, r
<1>5. SameRemotes(t, T!WithRemoval(v, as, r))
  BY <1>2, <1>3, <1>4, WithRemovalKeepsRemotes
<1> QED BY <1>5 DEF Connecting, v, r

LEMMA ListeningKeepsRemotes ==
    ASSUME NEW t \in Table, SameRemotes(t, t), ~IsRemote(t[Own])
    PROVE  SameRemotes(t, Listening(t))
BY ListenerKeepsRemotes DEF Listening

LEMMA AddedKeepsRemotes ==
    ASSUME NEW t \in Table, NEW u, SameRemotes(t, u), NEW again \in BOOLEAN
    PROVE  SameRemotes(t, Added(u, again))
<1>1. Configured \in SUBSET Addresses
  BY AddressAssumption
<1> QED BY <1>1, WithPassivesKeepsRemotes DEF Added

LEMMA RemoveIfConfiguredKeepsRemotes ==
    ASSUME NEW t \in Table, NEW u, SameRemotes(t, u), NEW a \in Addresses
    PROVE  SameRemotes(t, RemoveIfConfigured(u, a))
<1> DEFINE r == Removal(0, FALSE, FALSE)
<1>1. T!PassiveAt(u, a) \in SUBSET Locals(u)
  BY PeerAssumption DEF T!PassiveAt, Locals, Remotes
<1>2. r \in T!Waiting /\ ~r.send_drop
  BY RemovalValue
<1> HIDE DEF r
<1>3. SameRemotes(t, T!WithRemoval(u, T!PassiveAt(u, a), r))
  BY <1>1, <1>2, WithRemovalKeepsRemotes
<1> QED BY <1>3 DEF RemoveIfConfigured, r

LEMMA PrepareWaitStep ==
    ASSUME IInv, PrepareWait
    PROVE  IInv'
<1> DEFINE s == T!Swept(table)
<1>1. PICK again \in BOOLEAN :
          table' = Connecting(Added(Listening(s), again), ToConnect(s))
  BY DEF PrepareWait
<1>2. /\ s \in Table /\ SameRemotes(s, s) /\ ~IsRemote(s[Own])
      /\ ToConnect(s) \in SUBSET Locals(s)
  BY TableSound, ToConnectIsLocal
<1> HIDE DEF s
<1>3. SameRemotes(s, Added(Listening(s), again))
  BY <1>2, ListeningKeepsRemotes, AddedKeepsRemotes
<1>4. SameRemotes(s, table')
  BY <1>1, <1>2, <1>3, ConnectingKeepsRemotes
<1> QED BY <1>4, SweepStep DEF PrepareWait, s

LEMMA ListenFailsStep ==
    ASSUME IInv, ListenFails
    PROVE  IInv'
<1> DEFINE s == T!Swept(table)
<1>1. table' = T!Attempted(s, {Own}) /\ ToListen(s) # {}
  BY DEF ListenFails
<1>2. /\ s \in Table /\ SameRemotes(s, s)
      /\ ToListen(s) \in SUBSET Locals(s)
  BY TableSound, ToConnectIsLocal
<1> HIDE DEF s
<1>3. {Own} \in SUBSET Locals(s)
  BY <1>1, <1>2 DEF ToListen
<1>4. SameRemotes(s, table')
  BY <1>1, <1>2, <1>3, AttemptedKeepsRemotes
<1> QED BY <1>4, SweepStep DEF ListenFails, s

LEMMA OpenFailsStep ==
    ASSUME IInv, NEW a \in Addresses, OpenFails(a)
    PROVE  IInv'
<1> DEFINE s == T!Swept(table)
           v(again, before) ==
               Connecting(Added(Listening(s), again), before)
<1>1. PICK again \in BOOLEAN, before \in SUBSET (ToConnect(s) \ {a}) :
          table' = RemoveIfConfigured(
                       T!Attempted(v(again, before), {a}), a)
  BY DEF OpenFails
<1>2. /\ s \in Table /\ SameRemotes(s, s) /\ ~IsRemote(s[Own])
      /\ before \in SUBSET Locals(s) /\ {a} \in SUBSET Locals(s)
  BY TableSound, ToConnectIsLocal DEF OpenFails
<1> HIDE DEF s
<1>3. SameRemotes(s, v(again, before))
  <2>1. SameRemotes(s, Added(Listening(s), again))
    BY <1>2, ListeningKeepsRemotes, AddedKeepsRemotes
  <2> QED BY <1>2, <2>1, ConnectingKeepsRemotes
<1> HIDE DEF v
<1>4. SameRemotes(s, T!Attempted(v(again, before), {a}))
  <2>1. {a} \in SUBSET Locals(v(again, before))
    BY <1>2, <1>3, LocalsStay
  <2> QED BY <1>2, <1>3, <2>1, AttemptedKeepsRemotes
<1>5. SameRemotes(s, table')
  BY <1>1, <1>2, <1>4, RemoveIfConfiguredKeepsRemotes
<1> QED BY <1>5, SweepStep DEF OpenFails, s

-----------------------------------------------------------------------------
(* The steps that neither sweep nor touch a remote connection.             *)

LEMMA LocalStep ==
    ASSUME IInv, SameRemotes(table, table'), waiting' = FALSE,
           UNCHANGED <<kbucket, notify_removed_peers, open, user, overtaken>>,
           external_ip_address' \in Routes \cup {None},
           verified_peers \subseteq verified_peers',
           verified_peers' \subseteq open
    PROVE  IInv'
<1> USE DEF IInv
<1>1. table \in Table /\ table' \in Table
  BY TableSound DEF SameRemotes
<1>2. /\ kbucket' = kbucket /\ notify_removed_peers' = notify_removed_peers
      /\ open' = open /\ user' = user /\ overtaken' = overtaken
  OBVIOUS
<1>3. \A a \in Addresses :
          IF IsRemote(table[a])
          THEN a \in T!Present(table') /\ table'[a] = table[a]
          ELSE IsLocalAt(a, table'[a])
  BY DEF SameRemotes, IsRemote, T!Present
<1>4. \A a \in T!Present(table') :
          table'[a].peer \in Remotes => table'[a] = table[a]
                                        /\ a \in T!Present(table)
  BY <1>3 DEF IsLocalAt, T!Present, IsRemote
<1>5. \A a \in T!Present(table) :
          table[a].peer \in Remotes => table'[a] = table[a]
                                       /\ a \in T!Present(table')
  BY <1>3 DEF T!Present, IsRemote
<1>6. Contacts' = Contacts /\ \A n \in Contacts : kbucket[n] \in Remotes
  BY <1>2 DEF Contacts, TypeOK
<1>7. TypeOK'
  <2>1. T!TypeOK'
    BY <1>1 DEF Table, T!TypeOK
  <2> QED BY <1>2, <2>1 DEF TypeOK
<1>8. EntriesAreSound'
  <2>1. ASSUME NEW a \in T!Present(table')
        PROVE  Sound(a, table[a])'
    <3>1. CASE IsRemote(table[a])
      <4>1. table'[a] = table[a] /\ Sound(a, table[a])
        BY <1>3, <3>1 DEF EntriesAreSound, T!Present, IsRemote
      <4>2. IsTimed(table[a])' /\ IsReported(table[a])'
        BY <1>2, <3>1, <4>1 DEF Sound, IsTimed, IsReported, IsRemote
      <4> QED BY <1>2, <3>1, <4>1, <4>2 DEF Sound, IsRemote
    <3>2. CASE ~IsRemote(table[a])
      BY <1>3, <3>2, LocalIsSound DEF T!Present
    <3> QED BY <3>1, <3>2
  <2> QED BY <2>1 DEF EntriesAreSound, T!Present
<1>9. OneAddress'
  <2>1. ASSUME NEW a \in T!Present(table'), NEW b \in T!Present(table'),
               table'[a].peer = table'[b].peer, table'[a].peer \in Remotes
        PROVE  a = b
    BY <1>4, <2>1, PeerAssumption DEF OneAddress, Remotes
  <2> QED BY <1>1, <1>8, <2>1, OneAddressFromRemotes DEF T!Present
<1>10. ContactsHaveEntry'
  BY <1>2, <1>5, <1>6 DEF ContactsHaveEntry, T!Present
<1>11. OpenHaveEntry'
  BY <1>2, <1>5 DEF OpenHaveEntry, T!Present, TypeOK
<1>12. NotifiedAreNoContacts'
  BY <1>2, <1>6 DEF NotifiedAreNoContacts
<1>13. ContactsAreKnownSoon'
  <2>1. ASSUME NEW n \in Contacts, NEW a \in T!Due(table), table[a].node = n
        PROVE  a \in T!Due(table') /\ table'[a].node = n
    <3>1. a \in T!Present(table) /\ n # None
      BY PeerAssumption DEF T!Due, Contacts
    <3>2. table[a].peer \in Remotes
      BY <2>1, <3>1 DEF EntriesAreSound, Sound, IsLocal
    <3> QED BY <1>5, <2>1, <3>1, <3>2 DEF T!Due
  <2> QED BY <1>2, <1>6, <2>1 DEF ContactsAreKnownSoon, T!Due, T!Present
<1>14. ContactsAreVerified' /\ JoinedAreContacts'
  BY <1>2, <1>6 DEF ContactsAreVerified, JoinedAreContacts
<1> QED BY <1>7, <1>8, <1>9, <1>10, <1>11, <1>12, <1>13, <1>14

(* A packet that changes no entry of the table.                            *)
LEMMA QuietStep ==
    ASSUME IInv, table' = table, waiting' = FALSE,
           UNCHANGED <<kbucket, notify_removed_peers, open, user, overtaken>>,
           external_ip_address' \in Routes \cup {None},
           verified_peers \subseteq verified_peers',
           verified_peers' \subseteq open
    PROVE  IInv'
BY TableSound, LocalStep

LEMMA VerifiedWithOpen ==
    ASSUME IInv, NEW p \in open, NEW signed \in BOOLEAN
    PROVE  /\ verified_peers \subseteq VerifiedWith(p, signed)
           /\ VerifiedWith(p, signed) \subseteq open
           /\ external_ip_address \in Routes \cup {None}
           /\ p \in Remotes => ExternalWith(p) \in Routes \cup {None}
BY PeerAssumption
   DEF IInv, TypeOK, ContactsAreVerified, VerifiedWith, ExternalWith, Remotes

LEMMA ReceiveQuietlyStep ==
    ASSUME IInv, NEW p \in Remotes, NEW signed \in BOOLEAN,
           \/ ReceivePingOnOtherRoute(p, signed)
           \/ ReceivePingNoContact(p, signed)
           \/ ReceiveOther(p)
    PROVE  IInv'
<1>1. p \in open
  BY DEF ReceivePingOnOtherRoute, ReceivePingNoContact, ReceiveOther
<1>2. verified_peers \subseteq open
  BY DEF IInv, ContactsAreVerified
<1>3. CASE ReceivePingOnOtherRoute(p, signed)
  BY <1>1, <1>3, VerifiedWithOpen, QuietStep
     DEF ReceivePingOnOtherRoute, Receives, knowledge
<1>4. CASE ReceivePingNoContact(p, signed)
  BY <1>1, <1>4, VerifiedWithOpen, QuietStep
     DEF ReceivePingNoContact, Receives
<1>5. CASE ReceiveOther(p)
  BY <1>1, <1>2, <1>5, VerifiedWithOpen, QuietStep
     DEF ReceiveOther, Receives, knowledge
<1> QED BY <1>3, <1>4, <1>5

LEMMA ReceiveOpenErrorStep ==
    ASSUME IInv, NEW a \in Addresses, ReceiveOpenError(a)
    PROVE  IInv'
<1>1. SameRemotes(table, RemoveIfConfigured(table, a))
  BY TableSound, RemoveIfConfiguredKeepsRemotes
<1>2. /\ verified_peers \subseteq open
      /\ external_ip_address \in Routes \cup {None}
  BY DEF IInv, TypeOK, ContactsAreVerified
<1> QED BY <1>1, <1>2, LocalStep DEF ReceiveOpenError, Receives, knowledge

LEMMA ReceiveOpenConnectionWithStep ==
    ASSUME IInv, NEW p \in Remotes, NEW a \in Addresses,
           ReceiveOpenConnectionWith(p, a)
    PROVE  IInv'
<1>1. SameRemotes(table, T!WithPassive(table, a))
  BY TableSound, WithPassiveKeepsRemotes
<1>2. /\ verified_peers \subseteq open
      /\ external_ip_address \in Routes \cup {None}
  BY DEF IInv, TypeOK, ContactsAreVerified
<1> QED BY <1>1, <1>2, LocalStep
        DEF ReceiveOpenConnectionWith, Receives, knowledge

-----------------------------------------------------------------------------
(* The steps that change only what removal the entries wait for.           *)

Reclocked ==
    /\ table' \in Table
    /\ T!Present(table') = T!Present(table)
    /\ \A a \in T!Present(table) : /\ table'[a].peer = table[a].peer
                                   /\ table'[a].node = table[a].node
                                   /\ table'[a].todo = table[a].todo

LEMMA ReclockedFrame ==
    ASSUME IInv, Reclocked,
           UNCHANGED <<kbucket, overtaken>>, open' \subseteq open
    PROVE  /\ T!TypeOK'
           /\ Contacts' = Contacts
           /\ OneAddress'
           /\ ContactsHaveEntry'
           /\ OpenHaveEntry'
<1>1. T!TypeOK'
  BY DEF Reclocked, Table, T!TypeOK
<1>2. Contacts' = Contacts
  BY DEF Contacts
<1>3. OneAddress'
  BY DEF IInv, OneAddress, Reclocked
<1>4. ContactsHaveEntry'
  BY <1>2 DEF IInv, ContactsHaveEntry, Reclocked
<1>5. OpenHaveEntry'
  BY DEF IInv, OpenHaveEntry, Reclocked
<1> QED BY <1>1, <1>2, <1>3, <1>4, <1>5

LEMMA LaterAt ==
    ASSUME IInv, NEW p \in Remotes, NEW r \in T!Waiting,
           table' = Later(table, p, r)
    PROVE  /\ Reclocked
           /\ \A a \in T!Present(table) :
                  IF table[a].peer = p THEN table'[a].removal = r
                  ELSE table'[a] = table[a]
<1>1. /\ table \in Table
      /\ T!AddressesOf(table, p) \in SUBSET T!Present(table)
      /\ T!Present(table) \subseteq Addresses
      /\ r \in T!Waiting \cup {None}
  BY TableSound DEF T!AddressesOf, T!Present
<1>2. \A a \in T!Present(table) :
          a \in T!AddressesOf(table, p) <=> table[a].peer = p
  BY DEF T!AddressesOf
<1> DEFINE as == T!AddressesOf(table, p)
           u == T!WithRemoval(table, as, r)
<1> HIDE DEF as
<1>3. table' = u /\ as \in SUBSET T!Present(table)
  BY <1>1 DEF Later, as
<1>4. /\ u \in Table /\ T!Present(u) = T!Present(table)
      /\ \A a \in Addresses \ as : u[a] = table[a]
      /\ \A a \in as : /\ u[a].peer = table[a].peer
                       /\ u[a].node = table[a].node
                       /\ u[a].todo = table[a].todo
                       /\ u[a].removal = r
  BY <1>1, <1>3, WithRemovalAt
<1> HIDE DEF u
<1> QED BY <1>1, <1>2, <1>3, <1>4 DEF Reclocked, as

(* The node an entry is known by.                                          *)
LEMMA KnownBy ==
    ASSUME IInv, NEW a \in T!Present(table), table[a].peer # None
    PROVE  /\ T!AddressesOf(table, table[a].peer) = {a}
           /\ NodeKnownBy(table[a].peer) = table[a].node
           /\ EntryOf(table[a].peer) = table[a]
<1>1. T!AddressesOf(table, table[a].peer) = {a}
  BY DEF IInv, OneAddress, T!AddressesOf
<1> QED BY <1>1 DEF NodeKnownBy, EntryOf

LEMMA NotifyStep ==
    ASSUME IInv, NEW n \in NodeIds, Notify(n)
    PROVE  IInv'
<1> USE DEF IInv
<1>1. /\ table' = table /\ kbucket' = kbucket /\ open' = open
      /\ external_ip_address' = external_ip_address
      /\ verified_peers' = verified_peers /\ overtaken' = overtaken
      /\ notify_removed_peers' = notify_removed_peers \ {n}
      /\ user' = [user EXCEPT ![n] = "away"]
      /\ waiting /\ waiting' = FALSE /\ n \in notify_removed_peers
  BY DEF Notify, knowledge
<1>2. TypeOK'
  BY <1>1 DEF TypeOK, T!TypeOK, Beliefs
<1>3. \A m \in NodeIds : user'[m] = IF m = n THEN "away" ELSE user[m]
  BY <1>1 DEF TypeOK
<1>4. Contacts' = Contacts
  BY <1>1 DEF Contacts
<1>5. EntriesAreSound'
  <2>1. ASSUME NEW a \in T!Present(table)
        PROVE  Sound(a, table[a])'
    <3>1. Sound(a, table[a])
      BY DEF EntriesAreSound
    <3>2. table[a].node \in NodeIds \cup {None}
      BY TableSound, EntryFields
    <3>3. IsTimed(table[a])' <=> IsTimed(table[a])
      BY <1>1 DEF IsTimed
    <3>4. ASSUME table[a].node # None, user[table[a].node] # "joined"
          PROVE  user'[table[a].node] # "joined"
      BY <1>3, <3>2, <3>4
    <3>5. IsReported(table[a]) => IsReported(table[a])'
      BY <1>1, <3>4 DEF IsReported
    <3> QED BY <1>1, <3>1, <3>3, <3>5 DEF Sound, IsLocal
  <2> QED BY <1>1, <2>1 DEF EntriesAreSound
<1>6. OneAddress' /\ ContactsHaveEntry' /\ OpenHaveEntry'
  BY <1>1, <1>4 DEF OneAddress, ContactsHaveEntry, OpenHaveEntry
<1>7. n \notin Contacts
  BY <1>1 DEF NotifiedAreNoContacts
<1>8. NotifiedAreNoContacts' /\ ContactsAreVerified'
  BY <1>1, <1>4 DEF NotifiedAreNoContacts, ContactsAreVerified
<1>9. ContactsAreKnownSoon' /\ JoinedAreContacts'
  BY <1>1, <1>3, <1>4, <1>7
     DEF ContactsAreKnownSoon, JoinedAreContacts, Contacts
<1> QED BY <1>2, <1>5, <1>6, <1>8, <1>9

(* The end of a connection, or a protocol error on it.                     *)
LEMMA UserLosesStep ==
    ASSUME IInv, NEW p \in open, NEW drop \in BOOLEAN,
           waiting, waiting' = FALSE,
           table' = Later(table, p, Removal(0, drop, FALSE)), UserLoses(p),
           open' = IF drop THEN open ELSE open \ {p},
           verified_peers' = IF drop THEN verified_peers
                             ELSE verified_peers \ {p},
           UNCHANGED <<kbucket, external_ip_address, notify_removed_peers,
                       overtaken>>
    PROVE  IInv'
<1> USE DEF IInv
<1> DEFINE r == Removal(0, drop, FALSE)
<1>1. r \in T!Waiting /\ r # None /\ r.steps = 0 /\ r.send_drop = drop
  BY RemovalValue
<1>2. p \in Remotes
  BY DEF TypeOK
<1>3. /\ Reclocked
      /\ \A a \in T!Present(table) :
             IF table[a].peer = p THEN table'[a].removal = r
             ELSE table'[a] = table[a]
  BY <1>1, <1>2, LaterAt
<1>4. /\ T!TypeOK' /\ Contacts' = Contacts
      /\ OneAddress' /\ ContactsHaveEntry' /\ OpenHaveEntry'
  BY <1>3, ReclockedFrame
<1>5. \A n \in NodeIds :
          user'[n] = IF n = NodeKnownBy(p) THEN "away" ELSE user[n]
  BY DEF UserLoses
<1>6. TypeOK'
  <2>1. user' \in [NodeIds -> Beliefs]
    BY DEF UserLoses, TypeOK, Beliefs
  <2> QED BY <1>4, <2>1 DEF TypeOK
<1>7. EntriesAreSound'
  <2>1. ASSUME NEW a \in T!Present(table)
        PROVE  Sound(a, table[a])'
    <3>1. /\ Sound(a, table[a])
          /\ table'[a].peer = table[a].peer
          /\ table'[a].node = table[a].node
          /\ table'[a].todo = table[a].todo
      BY <1>3 DEF EntriesAreSound, Reclocked
    <3>2. table[a].node \in NodeIds \cup {None} /\ p # None
      BY <1>2, TableSound, EntryFields, PeerAssumption DEF Remotes
    <3>3. CASE table[a].peer = p
      <4>1. table'[a].removal = r
        BY <1>3, <3>3
      <4>2. IsTimed(table[a])'
        BY <1>1, <3>1, <3>3, <4>1 DEF IsTimed
      <4>3. NodeKnownBy(p) = table[a].node
        BY <3>2, <3>3, KnownBy
      <4>4. IsReported(table[a])'
        BY <1>1, <1>2, <1>5, <3>1, <3>2, <3>3, <4>1, <4>3
           DEF IsReported, Sound
      <4> QED BY <1>2, <3>1, <3>3, <4>2, <4>4 DEF Sound
    <3>4. CASE table[a].peer # p
      <4>1. table'[a] = table[a]
        BY <1>3, <3>4
      <4>2. table[a].peer \in Remotes
                => IsTimed(table[a])' /\ IsReported(table[a])'
        BY <1>5, <3>1, <3>2, <3>4, <4>1 DEF Sound, IsTimed, IsReported
      <4> QED BY <3>1, <4>1, <4>2 DEF Sound, IsLocal
    <3> QED BY <3>3, <3>4
  <2> QED BY <1>3, <2>1 DEF EntriesAreSound, Reclocked
<1>8. NotifiedAreNoContacts' /\ ContactsAreVerified'
  BY <1>4 DEF NotifiedAreNoContacts, ContactsAreVerified
<1>9. ContactsAreKnownSoon'
  <2>1. ASSUME NEW n \in Contacts, user'[n] = "away",
               kbucket[n] \notin overtaken
        PROVE  \E a \in T!Due(table') : table'[a].node = n
    <3>1. n \in NodeIds /\ n # None
      BY PeerAssumption DEF Contacts
    <3>2. n = NodeKnownBy(p)
      BY <1>5, <2>1, <3>1 DEF ContactsAreKnownSoon
    <3>3. T!AddressesOf(table, p) # {}
      BY <3>1, <3>2 DEF NodeKnownBy
    <3>4. PICK a \in T!Present(table) : table[a].peer = p
      BY <3>3 DEF T!AddressesOf
    <3>5. table[a].node = n
      BY <1>2, <3>2, <3>4, KnownBy, PeerAssumption DEF Remotes
    <3> QED BY <1>1, <1>3, <3>4, <3>5 DEF Reclocked, T!Due
  <2> QED BY <1>4, <2>1 DEF ContactsAreKnownSoon
<1>10. JoinedAreContacts'
  BY <1>4, <1>5 DEF JoinedAreContacts
<1> QED BY <1>4, <1>6, <1>7, <1>8, <1>9, <1>10

LEMMA ReceiveDropStep ==
    ASSUME IInv, NEW p \in Remotes, ReceiveDrop(p)
    PROVE  IInv'
BY UserLosesStep DEF ReceiveDrop, Receives, TableAfterDrop, knowledge

LEMMA ReceiveProtocolErrorStep ==
    ASSUME IInv, NEW p \in Remotes, ReceiveProtocolError(p)
    PROVE  IInv'
BY UserLosesStep DEF ReceiveProtocolError, Receives, knowledge

LEMMA SendDropStep ==
    ASSUME IInv, NEW n \in NodeIds, SendDrop(n)
    PROVE  IInv'
<1> USE DEF IInv
<1> DEFINE r == Removal(0, TRUE, FALSE)
           p == kbucket[n]
           belief == IF waiting THEN "retracted" ELSE "away"
<1>1. /\ user[n] = "joined" /\ n \in Contacts
      /\ table' = Later(table, p, r)
      /\ user' = [user EXCEPT ![n] = belief]
      /\ UNCHANGED <<kbucket, external_ip_address, verified_peers,
                     notify_removed_peers, open, waiting, overtaken>>
  BY DEF SendDrop, knowledge
<1>2. p \in Remotes /\ p # None
  BY <1>1, PeerAssumption DEF TypeOK, Contacts, Remotes
<1>3. r \in T!Waiting /\ r # None /\ r.steps = 0 /\ r.send_drop
  BY RemovalValue
<1> HIDE DEF r, p
<1>4. /\ Reclocked
      /\ \A a \in T!Present(table) :
             IF table[a].peer = p THEN table'[a].removal = r
             ELSE table'[a] = table[a]
  BY <1>1, <1>2, <1>3, LaterAt
<1>5. /\ T!TypeOK' /\ Contacts' = Contacts
      /\ OneAddress' /\ ContactsHaveEntry' /\ OpenHaveEntry'
  BY <1>1, <1>4, ReclockedFrame
<1>6. \A m \in NodeIds : user'[m] = IF m = n THEN belief ELSE user[m]
  BY <1>1 DEF TypeOK
<1>7. TypeOK'
  <2>1. user' \in [NodeIds -> Beliefs]
    BY <1>1 DEF TypeOK, Beliefs
  <2> QED BY <1>1, <1>5, <2>1 DEF TypeOK
<1>8. ASSUME NEW a \in T!Present(table), table[a].peer = p
      PROVE  table[a].node = n /\ p \in open
  <2>1. Sound(a, table[a]) /\ p \notin overtaken
    BY <1>2, <1>8 DEF EntriesAreSound, Sound
  <2>2. PICK b \in T!Present(table) : table[b].peer = p /\ table[b].node = n
    BY <1>1, <2>1 DEF ContactsHaveEntry, p
  <2>3. table[a].node = n /\ n # None
    BY <1>2, <1>8, <2>2, PeerAssumption DEF OneAddress
  <2>4. IsTimed(table[a]) /\ IsReported(table[a])
    BY <1>2, <1>8, <2>1 DEF Sound
  <2>5. table[a].removal.must_notify
    BY <1>1, <2>3, <2>4 DEF IsReported
  <2> QED BY <1>8, <2>3, <2>4, <2>5, RemovalValue DEF IsTimed
<1>9. EntriesAreSound'
  <2>1. ASSUME NEW a \in T!Present(table)
        PROVE  Sound(a, table[a])'
    <3>1. /\ Sound(a, table[a])
          /\ table'[a].peer = table[a].peer
          /\ table'[a].node = table[a].node
          /\ table'[a].todo = table[a].todo
      BY <1>4 DEF EntriesAreSound, Reclocked
    <3>2. table[a].node \in NodeIds \cup {None}
      BY TableSound, EntryFields
    <3>3. CASE table[a].peer = p
      <4>1. table'[a].removal = r /\ table[a].node = n /\ p \in open
        BY <1>4, <1>8, <3>3
      <4>2. IsTimed(table[a])'
        BY <1>1, <1>3, <3>1, <3>3, <4>1 DEF IsTimed
      <4>3. IsReported(table[a])'
        BY <1>1, <1>2, <1>3, <1>5, <1>6, <3>1, <3>3, <4>1
           DEF IsReported, Sound
      <4> QED BY <1>1, <1>2, <3>1, <3>3, <4>2, <4>3 DEF Sound
    <3>4. CASE table[a].peer # p
      <4>1. table'[a] = table[a]
        BY <1>4, <3>4
      <4>2. table[a].peer \in Remotes
                => IsTimed(table[a])' /\ IsReported(table[a])'
        BY <1>1, <1>5, <1>6, <3>1, <3>2, <4>1
           DEF Sound, IsTimed, IsReported
      <4> QED BY <1>1, <3>1, <4>1, <4>2 DEF Sound, IsLocal
    <3> QED BY <3>3, <3>4
  <2> QED BY <1>4, <2>1 DEF EntriesAreSound, Reclocked
<1>10. NotifiedAreNoContacts' /\ ContactsAreVerified'
  BY <1>1, <1>5 DEF NotifiedAreNoContacts, ContactsAreVerified
<1>11. \A a \in T!Due(table) : a \in T!Due(table')
                               /\ table'[a].node = table[a].node
  BY <1>3, <1>4 DEF Reclocked, T!Due
<1>12. ContactsAreKnownSoon'
  <2>1. ASSUME NEW m \in Contacts, user'[m] = "away",
               kbucket[m] \notin overtaken
        PROVE  ~waiting /\ \E a \in T!Due(table') : table'[a].node = m
    <3>1. m \in NodeIds
      BY DEF Contacts
    <3>2. CASE m # n
      BY <1>6, <1>11, <2>1, <3>1, <3>2 DEF ContactsAreKnownSoon
    <3>3. CASE m = n
      <4>1. ~waiting
        BY <1>6, <2>1, <3>1, <3>3
      <4>2. PICK a \in T!Present(table) :
                table[a].peer = p /\ table[a].node = n
        BY <2>1, <3>3 DEF ContactsHaveEntry, p
      <4>3. a \in T!Due(table') /\ table'[a].node = n
        BY <1>3, <1>4, <4>2 DEF Reclocked, T!Due
      <4> QED BY <3>3, <4>1, <4>3
    <3> QED BY <3>2, <3>3
  <2> QED BY <1>1, <1>5, <2>1 DEF ContactsAreKnownSoon
<1>13. JoinedAreContacts'
  BY <1>1, <1>5, <1>6 DEF JoinedAreContacts
<1> QED BY <1>5, <1>7, <1>9, <1>10, <1>12, <1>13

(* One tick of a removal's clock.                                          *)
LEMMA TickAt ==
    ASSUME NEW r \in T!Waiting
    PROVE  /\ T!Tick(r) \in T!Waiting /\ T!Tick(r) # None
           /\ T!Tick(r).send_drop = r.send_drop
           /\ T!Tick(r).must_notify = r.must_notify
           /\ r.steps = 0 => T!Tick(r) = r
<1>1. r # None /\ r.steps \in Nat
  BY RemovalFields
<1>2. r.steps # 0 => r.steps - 1 \in Nat
  BY <1>1
<1>3. T!Tick(r) \in T!Waiting
  BY <1>1, <1>2 DEF T!Tick, T!Waiting
<1>4. /\ T!Tick(r).send_drop = r.send_drop
      /\ T!Tick(r).must_notify = r.must_notify
      /\ r.steps = 0 => T!Tick(r) = r
  BY <1>1 DEF T!Tick, T!Waiting
<1> QED BY <1>3, <1>4, RemovalFields

LEMMA SteppedAt ==
    ASSUME NEW t \in Table
    PROVE  /\ T!Stepped(t) \in Table
           /\ T!Present(T!Stepped(t)) = T!Present(t)
           /\ \A a \in T!Present(t) :
                  LET e == T!Stepped(t)[a]
                  IN  /\ e.peer = t[a].peer /\ e.node = t[a].node
                      /\ e.todo = t[a].todo
                      /\ e.removal = T!Tick(t[a].removal)
<1> DEFINE u == T!Stepped(t)
<1>1. ASSUME NEW a \in T!Present(t)
      PROVE  T!Tick(t[a].removal) \in T!Waiting \cup {None}
  <2>1. t[a].removal \in T!Waiting \cup {None}
    BY EntryFields
  <2>2. T!Tick(None) = None
    BY DEF T!Tick
  <2> QED BY <2>1, <2>2, TickAt
<1>2. \A a \in Addresses :
          u[a] = IF a \in T!Present(t)
                 THEN [t[a] EXCEPT !.removal = T!Tick(t[a].removal)] ELSE None
  BY DEF T!Stepped
<1>3. \A a \in T!Present(t) : t[a] \in T!Entries /\ a \in Addresses
  BY EntryFields
<1>4. ASSUME NEW a \in T!Present(t)
      PROVE  [t[a] EXCEPT !.removal = T!Tick(t[a].removal)] \in T!Entries
  BY <1>1, <1>3 DEF T!Entries
<1>5. u \in Table
  BY <1>4 DEF T!Stepped, Table
<1>6. ASSUME NEW a \in T!Present(t)
      PROVE  /\ u[a].peer = t[a].peer /\ u[a].node = t[a].node
             /\ u[a].todo = t[a].todo
             /\ u[a].removal = T!Tick(t[a].removal)
             /\ u[a] # None
  <2>1. u[a] = [t[a] EXCEPT !.removal = T!Tick(t[a].removal)]
    BY <1>2, <1>3
  <2>2. /\ u[a].peer = t[a].peer /\ u[a].node = t[a].node
        /\ u[a].todo = t[a].todo
        /\ u[a].removal = T!Tick(t[a].removal)
    BY <1>3, <2>1 DEF T!Entries
  <2>3. u[a] # None
    BY <1>4, <2>1, RecordAssumption
  <2> QED BY <2>2, <2>3
<1>7. T!Present(u) = T!Present(t)
  BY <1>2, <1>6 DEF T!Present
<1> QED BY <1>5, <1>6, <1>7

LEMMA TimerActionStep ==
    ASSUME IInv, TimerAction
    PROVE  IInv'
<1> USE DEF IInv
<1>1. /\ table' = T!Stepped(table)
      /\ UNCHANGED <<kbucket, external_ip_address, verified_peers,
                     notify_removed_peers, open, waiting, user, overtaken>>
  BY DEF TimerAction, knowledge
<1>2. /\ Reclocked
      /\ \A a \in T!Present(table) :
             table'[a].removal = T!Tick(table[a].removal)
  BY <1>1, TableSound, SteppedAt DEF Reclocked
<1>3. /\ T!TypeOK' /\ Contacts' = Contacts
      /\ OneAddress' /\ ContactsHaveEntry' /\ OpenHaveEntry'
  BY <1>1, <1>2, ReclockedFrame
<1>4. TypeOK'
  BY <1>1, <1>3 DEF TypeOK
<1>5. ASSUME NEW a \in T!Present(table)
      PROVE  LET r == table[a].removal
                 s == table'[a].removal
             IN  /\ s = None <=> r = None
                 /\ r # None => /\ s.send_drop = r.send_drop
                                /\ s.must_notify = r.must_notify
                                /\ r.steps = 0 => s = r
  <2>1. table[a].removal \in T!Waiting \cup {None}
    BY TableSound, EntryFields
  <2>2. T!Tick(None) = None
    BY DEF T!Tick
  <2> QED BY <1>2, <2>1, <2>2, TickAt
<1>6. EntriesAreSound'
  <2>1. ASSUME NEW a \in T!Present(table)
        PROVE  Sound(a, table[a])'
    <3>1. /\ Sound(a, table[a])
          /\ table'[a].peer = table[a].peer
          /\ table'[a].node = table[a].node
          /\ table'[a].todo = table[a].todo
      BY <1>2 DEF EntriesAreSound, Reclocked
    <3>2. IsLocal(table[a]) => IsLocal(table[a])'
      BY <1>5, <3>1 DEF IsLocal
    <3>3. IsTimed(table[a]) => IsTimed(table[a])'
      <4>1. /\ Removal(0, FALSE, FALSE).steps = 0
            /\ Removal(0, FALSE, FALSE) # None
        BY RemovalValue
      <4> HIDE DEF IInv
      <4> QED BY <1>1, <1>5, <3>1, <4>1 DEF IsTimed
    <3>4. IsTimed(table[a]) /\ IsReported(table[a])
              => IsReported(table[a])'
      BY <1>1, <1>3, <1>5, <3>1 DEF IsReported, IsTimed
    <3> QED BY <1>1, <3>1, <3>2, <3>3, <3>4 DEF Sound
  <2> QED BY <1>2, <2>1 DEF EntriesAreSound, Reclocked
<1>7. NotifiedAreNoContacts' /\ ContactsAreVerified' /\ JoinedAreContacts'
  BY <1>1, <1>3
     DEF NotifiedAreNoContacts, ContactsAreVerified, JoinedAreContacts
<1>8. \A a \in T!Due(table) : a \in T!Due(table')
                              /\ table'[a].node = table[a].node
  BY <1>2, <1>5 DEF Reclocked, T!Due
<1>9. ContactsAreKnownSoon'
  BY <1>1, <1>3, <1>8 DEF ContactsAreKnownSoon
<1> QED BY <1>3, <1>4, <1>6, <1>7, <1>9

-----------------------------------------------------------------------------
(* The ping of a contact.                                                  *)

LEMMA WithNodeAt ==
    ASSUME NEW t \in Table, NEW p, NEW n \in NodeIds
    PROVE  /\ T!WithNode(t, p, n) \in Table
           /\ T!Present(T!WithNode(t, p, n)) = T!Present(t)
           /\ \A a \in T!Present(t) :
                  LET e == T!WithNode(t, p, n)[a]
                  IN  IF t[a].peer = p
                      THEN /\ e.peer = p /\ e.node = n
                           /\ e.todo = t[a].todo
                           /\ e.removal = t[a].removal
                      ELSE e = t[a]
<1> DEFINE u == T!WithNode(t, p, n)
<1>1. \A a \in T!Present(t) : /\ a \in Addresses /\ t[a] \in T!Entries
                              /\ [t[a] EXCEPT !.node = n] \in T!Entries
  BY DEF Table, T!Present, T!Entries
<1>2. \A a \in Addresses :
          u[a] = IF a \in T!Present(t) /\ t[a].peer = p
                 THEN [t[a] EXCEPT !.node = n] ELSE t[a]
  BY DEF T!WithNode, T!AddressesOf
<1>3. u \in Table
  <2>1. \A a \in Addresses : t[a] \in T!Entries \cup {None}
    BY DEF Table
  <2> QED BY <1>1, <2>1 DEF T!WithNode, T!AddressesOf, Table
<1>4. ASSUME NEW a \in T!Present(t)
      PROVE  /\ u[a] # None
             /\ IF t[a].peer = p
                THEN /\ u[a].peer = p /\ u[a].node = n
                     /\ u[a].todo = t[a].todo
                     /\ u[a].removal = t[a].removal
                ELSE u[a] = t[a]
  <2>1. CASE t[a].peer = p
    <3>1. u[a] = [t[a] EXCEPT !.node = n] /\ t[a] \in T!Entries
      BY <1>1, <1>2, <2>1
    <3>2. u[a] # None
      BY <1>1, <3>1, RecordAssumption
    <3>3. /\ u[a].peer = p /\ u[a].node = n /\ u[a].todo = t[a].todo
          /\ u[a].removal = t[a].removal
      BY <2>1, <3>1 DEF T!Entries
    <3> QED BY <2>1, <3>2, <3>3
  <2>2. CASE t[a].peer # p
    BY <1>1, <1>2, <2>2 DEF T!Present
  <2> QED BY <2>1, <2>2
<1>5. T!Present(u) = T!Present(t)
  BY <1>2, <1>4 DEF T!Present
<1> QED BY <1>3, <1>4, <1>5

LEMMA TableAfterPingAt ==
    ASSUME IInv, NEW p \in Remotes, NEW n \in NodeIds,
           table' = TableAfterPing(p, n)
    PROVE  /\ table' \in Table
           /\ T!Present(table') = T!Present(table)
           /\ \A a \in T!Present(table) :
                  IF table[a].peer = p
                  THEN /\ table'[a].peer = p /\ table'[a].node = n
                       /\ table'[a].todo = table[a].todo
                       /\ table'[a].removal = Removal(SilentSteps, TRUE, TRUE)
                  ELSE table'[a] = table[a]
<1> DEFINE r == Removal(SilentSteps, TRUE, TRUE)
           u == T!WithRemoval(table, T!AddressesOf(table, p), r)
           w == T!WithNode(u, p, n)
<1>1. table' = w /\ table \in Table
  BY TableSound DEF TableAfterPing, Later
<1>2. /\ T!AddressesOf(table, p) \in SUBSET T!Present(table)
      /\ T!Present(table) \subseteq Addresses
      /\ r \in T!Waiting \cup {None}
  BY RemovalValue, NumberAssumption DEF T!AddressesOf, T!Present
<1> HIDE DEF r
<1>3. /\ u \in Table /\ T!Present(u) = T!Present(table)
      /\ \A a \in Addresses \ T!AddressesOf(table, p) : u[a] = table[a]
      /\ \A a \in T!AddressesOf(table, p) :
             /\ u[a].peer = table[a].peer /\ u[a].node = table[a].node
             /\ u[a].todo = table[a].todo /\ u[a].removal = r
  BY <1>1, <1>2, WithRemovalAt
<1>4. \A a \in T!Present(table) :
          IF table[a].peer = p
          THEN u[a].peer = p /\ u[a].todo = table[a].todo /\ u[a].removal = r
          ELSE u[a] = table[a]
  BY <1>2, <1>3 DEF T!AddressesOf
<1> HIDE DEF u
<1>5. /\ w \in Table /\ T!Present(w) = T!Present(u)
      /\ \A a \in T!Present(u) :
             IF u[a].peer = p
             THEN /\ w[a].peer = p /\ w[a].node = n
                  /\ w[a].todo = u[a].todo /\ w[a].removal = u[a].removal
             ELSE w[a] = u[a]
  BY <1>3, WithNodeAt
<1> HIDE DEF w
<1> QED BY <1>1, <1>3, <1>4, <1>5 DEF r

LEMMA ReceivePingStep ==
    ASSUME IInv, NEW p \in Remotes, NEW signed \in BOOLEAN,
           ReceivePing(p, signed)
    PROVE  IInv'
<1> USE DEF IInv
<1> DEFINE n == NodeOf[p]
           r == Removal(SilentSteps, TRUE, TRUE)
<1>1. /\ waiting /\ waiting' = FALSE /\ notify_removed_peers = {}
      /\ notify_removed_peers' = notify_removed_peers
      /\ p \in open /\ (signed \/ p \in verified_peers)
      /\ external_ip_address' = ExternalWith(p)
      /\ verified_peers' = VerifiedWith(p, signed)
      /\ open' = open /\ overtaken' = overtaken
      /\ kbucket' = IF n \in Contacts THEN kbucket
                    ELSE [kbucket EXCEPT ![n] = p]
      /\ user' = IF n \in Contacts THEN user
                 ELSE [user EXCEPT ![n] = "joined"]
      /\ table' = TableAfterPing(p, n)
  BY DEF ReceivePing, Receives, ContactStatus, KbucketAfterPing
<1>2. n \in NodeIds /\ n # None /\ p # None
  BY PeerAssumption DEF Remotes
<1> HIDE DEF n
<1>3. /\ table' \in Table /\ T!Present(table') = T!Present(table)
      /\ \A a \in T!Present(table) :
             IF table[a].peer = p
             THEN /\ table'[a].peer = p /\ table'[a].node = n
                  /\ table'[a].todo = table[a].todo /\ table'[a].removal = r
             ELSE table'[a] = table[a]
  BY <1>1, <1>2, TableAfterPingAt
<1>4. r # None /\ r.send_drop /\ r.must_notify
  BY RemovalValue, NumberAssumption
<1> HIDE DEF r
<1>5. \A a \in T!Present(table) : table'[a].peer = table[a].peer
                                  /\ table'[a].todo = table[a].todo
  BY <1>3
<1>6. \A m \in NodeIds :
          /\ kbucket'[m] = IF m = n /\ n \notin Contacts THEN p ELSE kbucket[m]
          /\ user'[m] = IF m = n /\ n \notin Contacts THEN "joined"
                        ELSE user[m]
  BY <1>1 DEF TypeOK
<1>7. Contacts' = Contacts \cup {n}
  BY <1>2, <1>6 DEF Contacts
<1>8. TypeOK'
  <2>1. T!TypeOK'
    BY <1>3 DEF Table, T!TypeOK
  <2>2. kbucket' \in [NodeIds -> Remotes \cup {None}]
    BY <1>1 DEF TypeOK
  <2>3. user' \in [NodeIds -> Beliefs]
    BY <1>1 DEF TypeOK, Beliefs
  <2>4. /\ external_ip_address' \in Routes \cup {None}
        /\ verified_peers' \subseteq open
    BY <1>1, VerifiedWithOpen
  <2> QED BY <1>1, <2>1, <2>2, <2>3, <2>4 DEF TypeOK
<1>9. EntriesAreSound'
  <2>1. ASSUME NEW a \in T!Present(table)
        PROVE  Sound(a, table[a])'
    <3>1. /\ Sound(a, table[a])
          /\ table'[a].peer = table[a].peer
          /\ table'[a].todo = table[a].todo
      BY <1>5 DEF EntriesAreSound
    <3>2. CASE table[a].peer = p
      <4>1. table'[a].removal = r /\ table'[a].node = n
        BY <1>3, <3>2
      <4>2. IsTimed(table[a])' /\ IsReported(table[a])'
        BY <1>1, <1>4, <3>1, <3>2, <4>1 DEF IsTimed, IsReported, n
      <4> QED BY <1>1, <3>1, <3>2, <4>2 DEF Sound
    <3>3. CASE table[a].peer # p
      <4>1. table'[a] = table[a] /\ table[a].node \in NodeIds \cup {None}
        BY <1>3, <3>3, TableSound, EntryFields
      <4>2. IsTimed(table[a]) => IsTimed(table[a])'
        BY <1>1, <4>1 DEF IsTimed
      <4>3. ASSUME table[a].node # None, user[table[a].node] # "joined",
                   table[a].node \in Contacts
            PROVE  user'[table[a].node] # "joined"
        BY <1>6, <4>1, <4>3
      <4>4. IsReported(table[a]) => IsReported(table[a])'
        BY <1>1, <4>1, <4>3 DEF IsReported
      <4> QED BY <1>1, <3>1, <4>1, <4>2, <4>4 DEF Sound, IsLocal
    <3> QED BY <3>2, <3>3
  <2> QED BY <1>3, <2>1 DEF EntriesAreSound
<1>10. OneAddress'
  BY <1>3, <1>5 DEF OneAddress
<1>11. ContactsHaveEntry'
  <2>1. ASSUME NEW m \in Contacts', kbucket'[m] \notin overtaken
        PROVE  \E a \in T!Present(table') :
                   table'[a].peer = kbucket'[m] /\ table'[a].node = m
    <3>1. CASE m = n /\ n \notin Contacts
      <4>1. kbucket'[m] = p
        BY <1>2, <1>6, <3>1
      <4>2. PICK a \in T!Present(table) : table[a].peer = p
        BY <1>1, <2>1, <4>1 DEF OpenHaveEntry
      <4> QED BY <1>3, <3>1, <4>1, <4>2
    <3>2. CASE ~(m = n /\ n \notin Contacts)
      <4>1. m \in Contacts /\ m \in NodeIds /\ kbucket'[m] = kbucket[m]
        BY <1>6, <1>7, <3>2 DEF Contacts
      <4>2. PICK a \in T!Present(table) :
                table[a].peer = kbucket[m] /\ table[a].node = m
        BY <2>1, <4>1 DEF ContactsHaveEntry
      <4>3. NodeOf[kbucket[m]] = m
        BY <4>1 DEF ContactsHaveEntry
      <4> QED BY <1>3, <4>1, <4>2, <4>3 DEF n
    <3> QED BY <3>1, <3>2
  <2>2. ASSUME NEW m \in Contacts'
        PROVE  NodeOf[kbucket'[m]] = m
    BY <1>6, <1>7 DEF ContactsHaveEntry, Contacts, n
  <2> QED BY <1>1, <2>1, <2>2 DEF ContactsHaveEntry, T!Present
<1>12. OpenHaveEntry'
  BY <1>1, <1>3, <1>5 DEF OpenHaveEntry
<1>13. NotifiedAreNoContacts'
  BY <1>1 DEF NotifiedAreNoContacts
<1>14. ContactsAreKnownSoon'
  <2>1. ASSUME NEW m \in Contacts'
        PROVE  user'[m] # "away" \/ kbucket'[m] \in overtaken
    BY <1>1, <1>6, <1>7 DEF ContactsAreKnownSoon, Contacts
  <2> QED BY <1>1, <2>1 DEF ContactsAreKnownSoon
<1>15. ContactsAreVerified'
  <2>1. /\ verified_peers \subseteq verified_peers'
        /\ verified_peers' \subseteq open
    BY <1>1, VerifiedWithOpen
  <2>2. p \in verified_peers'
    BY <1>1 DEF VerifiedWith
  <2>3. ASSUME NEW m \in Contacts', kbucket'[m] \in open
        PROVE  kbucket'[m] \in verified_peers'
    BY <1>6, <1>7, <2>1, <2>2, <2>3 DEF ContactsAreVerified, Contacts
  <2> QED BY <1>1, <2>1, <2>3 DEF ContactsAreVerified
<1>16. JoinedAreContacts'
  BY <1>1, <1>6, <1>7 DEF JoinedAreContacts
<1> QED BY <1>8, <1>9, <1>10, <1>11, <1>12, <1>13, <1>14, <1>15, <1>16

-----------------------------------------------------------------------------
(* A connection comes up.                                                  *)

LEMMA TableAfterJoinAt ==
    ASSUME IInv, NEW p \in Remotes, NEW a \in Addresses, a # Own,
           T!AddressesOf(table, p) = {},
           table' = TableAfterJoin(p, a)
    PROVE  /\ table' \in Table
           /\ table'[a] # None /\ table'[a].peer = p
           /\ table'[a].node = None /\ ~table'[a].todo
           /\ table'[a].removal = Removal(SilentSteps, TRUE, FALSE)
           /\ \A b \in Addresses \ {a} :
                  \/ table'[b] = table[b]
                  \/ b = Own /\ table'[b] = T!Passive
<1> DEFINE r == Removal(SilentSteps, TRUE, FALSE)
           u == T!WithActive(table, a, p)
           v == T!WithRemoval(u, {a}, r)
           w == T!WithPassive(v, Own)
<1>1. table \in Table /\ p \in PeerIds /\ Own \in Addresses
  BY TableSound, AddressAssumption DEF Remotes
<1>2. r \in T!Waiting \cup {None}
  BY RemovalValue, NumberAssumption
<1>3. u \in Table /\ \A b \in Addresses \ {a} : u[b] = table[b]
  BY <1>1, WithActiveAt
<1>4. u[a] # None /\ u[a].peer = p /\ u[a].node = None /\ ~u[a].todo
  BY <1>1, WithActiveAt
<1> HIDE DEF u
<1>5. T!AddressesOf(u, p) = {a}
  BY <1>3, <1>4 DEF T!AddressesOf, T!Present
<1>6. {a} \in SUBSET T!Present(u)
  BY <1>4 DEF T!Present
<1>7. /\ v \in Table /\ T!Present(v) = T!Present(u)
      /\ \A b \in Addresses \ {a} : v[b] = u[b]
      /\ \A b \in {a} : /\ v[b].peer = u[b].peer /\ v[b].node = u[b].node
                        /\ v[b].todo = u[b].todo /\ v[b].removal = r
  BY <1>2, <1>3, <1>6, WithRemovalAt
<1>8. table' = w
  BY <1>5 DEF TableAfterJoin, Later, u
<1> HIDE DEF v
<1>9. /\ w \in Table
      /\ \A b \in Addresses :
             \/ w[b] = v[b]
             \/ b = Own /\ T!Free(v, Own) /\ w[b] = T!Passive
  BY <1>1, <1>7, WithPassiveAt
<1> HIDE DEF w, r
<1>10. w[a] = v[a]
  BY <1>9
<1>11. v[a] # None
  BY <1>6, <1>7 DEF T!Present
<1> QED BY <1>3, <1>4, <1>7, <1>8, <1>9, <1>10, <1>11 DEF r

LEMMA ReceiveJoinStep ==
    ASSUME IInv, NEW p \in Remotes, NEW a \in Addresses, ReceiveJoin(p, a)
    PROVE  IInv'
<1> USE DEF IInv
<1> DEFINE r == Removal(SilentSteps, TRUE, FALSE)
           Old == IF table[a] = None THEN {} ELSE {table[a].peer} \ {None}
<1>1. /\ waiting /\ waiting' = FALSE /\ notify_removed_peers = {}
      /\ notify_removed_peers' = notify_removed_peers
      /\ p \notin open /\ p \notin verified_peers
      /\ T!AddressesOf(table, p) = {}
      /\ \A n \in NodeIds : kbucket[n] # p
      /\ a \in RemoteOf[p]
      /\ open' = open \cup {p} /\ table' = TableAfterJoin(p, a)
      /\ overtaken' = (overtaken \ {p}) \cup Old
      /\ kbucket' = kbucket /\ external_ip_address' = external_ip_address
      /\ verified_peers' = verified_peers /\ user' = user
  BY DEF ReceiveJoin, Receives, Unused, knowledge
<1> HIDE DEF Old
<1>2. a # Own /\ p # None /\ table \in Table
  BY <1>1, PeerAssumption, TableSound DEF Remotes
<1>3. /\ table' \in Table /\ a \in T!Present(table')
      /\ table'[a].peer = p /\ table'[a].node = None /\ ~table'[a].todo
      /\ table'[a].removal = r
      /\ \A b \in Addresses \ {a} :
             \/ table'[b] = table[b]
             \/ b = Own /\ table'[b] = T!Passive
  BY <1>1, <1>2, TableAfterJoinAt DEF T!Present
<1>4. r # None /\ r.send_drop
  BY RemovalValue, NumberAssumption
<1> HIDE DEF r
<1>5. \A b \in T!Present(table) : table[b].peer # p
  BY <1>1 DEF T!AddressesOf
<1>6. ASSUME NEW b \in T!Present(table), b # a, table[b].peer \in Remotes
      PROVE  b \in T!Present(table') /\ table'[b] = table[b]
  <2>1. b \in Addresses /\ b # Own
    BY <1>6 DEF EntriesAreSound, Sound, T!Present
  <2> QED BY <1>3, <1>6, <2>1 DEF T!Present
<1>7. ASSUME NEW b \in T!Present(table'), b # a, table'[b].peer \in Remotes
      PROVE  b \in T!Present(table) /\ table'[b] = table[b]
  <2>1. b \in Addresses /\ table'[b] # None
    BY DEF T!Present
  <2>2. T!Passive.peer \notin Remotes
    BY PassiveEntry, PeerAssumption DEF Remotes
  <2> QED BY <1>3, <1>7, <2>1, <2>2 DEF T!Present
<1>8. ASSUME NEW q \in Old
      PROVE  /\ a \in T!Present(table) /\ table[a].peer = q
             /\ q \in Remotes /\ q # p /\ q # None
  <2>1. a \in T!Present(table) /\ table[a].peer = q /\ q # None
    BY DEF Old, T!Present
  <2>2. q # Listener
    BY <1>2, <2>1 DEF EntriesAreSound, Sound
  <2> QED BY <1>2, <1>5, <2>1, <2>2, EntryFields DEF Remotes
<1>9. Contacts' = Contacts /\ \A n \in Contacts : kbucket[n] \in Remotes
  BY <1>1 DEF Contacts, TypeOK
<1>10. TypeOK'
  <2>1. T!TypeOK'
    BY <1>3 DEF Table, T!TypeOK
  <2> QED BY <1>1, <1>8, <2>1 DEF TypeOK
<1>11. EntriesAreSound'
  <2>1. ASSUME NEW b \in T!Present(table')
        PROVE  Sound(b, table[b])'
    <3>1. CASE b = a
      <4>1. p \notin overtaken' /\ p \in open'
        BY <1>1, <1>8
      <4>2. IsTimed(table[b])' /\ IsReported(table[b])'
        BY <1>3, <1>4, <3>1, <4>1 DEF IsTimed, IsReported
      <4>3. p # Listener
        BY DEF Remotes
      <4> QED BY <1>2, <1>3, <3>1, <4>1, <4>2, <4>3 DEF Sound
    <3>2. CASE b # a /\ table'[b].peer \in Remotes
      <4>1. b \in T!Present(table) /\ table'[b] = table[b]
        BY <1>7, <3>2
      <4>2. Sound(b, table[b]) /\ table[b].peer \in Remotes
        BY <3>2, <4>1 DEF EntriesAreSound
      <4>3. table[b].peer \notin Old
        BY <1>8, <3>2, <4>1 DEF OneAddress
      <4>4. table[b].peer \notin overtaken' /\ table[b].peer # p
        BY <1>1, <1>5, <4>1, <4>2, <4>3 DEF Sound
      <4>5. IsTimed(table[b])'
        BY <1>1, <4>1, <4>2, <4>4 DEF Sound, IsTimed
      <4>6. IsReported(table[b])'
        BY <1>1, <4>1, <4>2 DEF Sound, IsReported
      <4> QED BY <4>1, <4>2, <4>4, <4>5, <4>6 DEF Sound
    <3>3. CASE b # a /\ table'[b].peer \notin Remotes
      <4>1. b \in Addresses /\ table'[b] # None
        BY DEF T!Present
      <4>2. IsLocalAt(b, table'[b])
        <5>1. CASE table'[b] = table[b]
          BY <3>3, <4>1, <5>1
             DEF EntriesAreSound, Sound, IsLocalAt, T!Present
        <5>2. CASE table'[b] = T!Passive
          BY <4>1, <5>2, PassiveIsLocal
        <5> QED BY <1>3, <3>3, <4>1, <5>1, <5>2
      <4> QED BY <4>1, <4>2, LocalIsSound
    <3> QED BY <3>1, <3>2, <3>3
  <2> QED BY <2>1 DEF EntriesAreSound, T!Present
<1>12. OneAddress'
  <2>1. ASSUME NEW b \in T!Present(table'), NEW c \in T!Present(table'),
               table'[b].peer = table'[c].peer, table'[b].peer \in Remotes
        PROVE  b = c
    <3>1. CASE b = a /\ c = a
      BY <3>1
    <3>2. CASE b = a /\ c # a
      BY <1>3, <1>5, <1>7, <2>1, <3>2
    <3>3. CASE b # a /\ c = a
      BY <1>3, <1>5, <1>7, <2>1, <3>3
    <3>4. CASE b # a /\ c # a
      BY <1>7, <2>1, <3>4, PeerAssumption DEF OneAddress, Remotes
    <3> QED BY <3>1, <3>2, <3>3, <3>4
  <2> QED BY <1>3, <1>11, <2>1, OneAddressFromRemotes DEF T!Present
<1>13. ASSUME NEW q \in Remotes, q # p, q \notin overtaken',
              NEW b \in T!Present(table), table[b].peer = q
       PROVE  b \in T!Present(table') /\ table'[b] = table[b]
  <2>1. b # a
    BY <1>1, <1>13, PeerAssumption DEF Old, T!Present, Remotes
  <2> QED BY <1>6, <1>13, <2>1
<1>14. ContactsHaveEntry'
  <2>1. ASSUME NEW n \in Contacts, kbucket[n] \notin overtaken'
        PROVE  \E b \in T!Present(table') :
                   table'[b].peer = kbucket[n] /\ table'[b].node = n
    <3>1. kbucket[n] # p /\ kbucket[n] \notin overtaken
      BY <1>1, <2>1 DEF Contacts
    <3>2. PICK b \in T!Present(table) :
              table[b].peer = kbucket[n] /\ table[b].node = n
      BY <3>1 DEF ContactsHaveEntry
    <3> QED BY <1>9, <1>13, <2>1, <3>1, <3>2
  <2> QED BY <1>1, <1>9, <2>1 DEF ContactsHaveEntry, T!Present
<1>15. OpenHaveEntry'
  <2>1. ASSUME NEW q \in open', q \notin overtaken'
        PROVE  \E b \in T!Present(table') : table'[b].peer = q
    <3>1. CASE q = p
      BY <1>3, <3>1
    <3>2. CASE q # p
      <4>1. q \in open /\ q \notin overtaken /\ q \in Remotes
        BY <1>1, <2>1, <3>2 DEF TypeOK
      <4>2. PICK b \in T!Present(table) : table[b].peer = q
        BY <4>1 DEF OpenHaveEntry
      <4> QED BY <1>13, <2>1, <3>2, <4>1, <4>2
    <3> QED BY <3>1, <3>2
  <2> QED BY <2>1 DEF OpenHaveEntry, T!Present
<1>16. NotifiedAreNoContacts'
  BY <1>1 DEF NotifiedAreNoContacts
<1>17. ContactsAreKnownSoon'
  <2>1. ASSUME NEW n \in Contacts
        PROVE  user[n] # "away" \/ kbucket[n] \in overtaken'
    BY <1>1 DEF ContactsAreKnownSoon, Contacts
  <2> QED BY <1>1, <1>9, <2>1 DEF ContactsAreKnownSoon
<1>18. ContactsAreVerified' /\ JoinedAreContacts'
  BY <1>1, <1>9 DEF ContactsAreVerified, JoinedAreContacts, Contacts
<1> QED BY <1>10, <1>11, <1>12, <1>14, <1>15, <1>16, <1>17, <1>18

-----------------------------------------------------------------------------
(* The invariant holds at first and is preserved by every step.            *)

LEMMA InitIInv ==
    ASSUME Init
    PROVE  IInv
<1> USE DEF Init
<1>1. Contacts = {}
  BY DEF Contacts
<1>2. ASSUME NEW a \in T!Present(table)
      PROVE  a \in Addresses /\ table[a] = T!Passive
  BY DEF T!Present
<1>3. TypeOK
  <2>1. T!TypeOK
    BY PassiveEntry DEF T!TypeOK
  <2> QED BY <2>1 DEF TypeOK, Beliefs
<1>4. EntriesAreSound
  BY <1>2, PassiveIsLocal DEF EntriesAreSound, Sound, IsLocalAt
<1>5. OneAddress
  BY <1>2, PassiveEntry DEF OneAddress
<1>6. ContactsHaveEntry /\ OpenHaveEntry /\ NotifiedAreNoContacts
  BY <1>1 DEF ContactsHaveEntry, OpenHaveEntry, NotifiedAreNoContacts
<1>7. ContactsAreKnownSoon /\ ContactsAreVerified /\ JoinedAreContacts
  BY <1>1 DEF ContactsAreKnownSoon, ContactsAreVerified, JoinedAreContacts
<1> QED BY <1>3, <1>4, <1>5, <1>6, <1>7 DEF IInv

LEMMA StutterIInv ==
    ASSUME IInv, UNCHANGED vars
    PROVE  IInv'
<1>1. /\ table' = table /\ kbucket' = kbucket /\ open' = open
      /\ external_ip_address' = external_ip_address
      /\ verified_peers' = verified_peers /\ overtaken' = overtaken
      /\ notify_removed_peers' = notify_removed_peers
      /\ waiting' = waiting /\ user' = user
  BY DEF vars
<1>2. Contacts' = Contacts
  BY <1>1 DEF Contacts
<1> QED
  BY <1>1, <1>2
     DEF IInv, TypeOK, T!TypeOK, EntriesAreSound, Sound, IsLocal, IsTimed,
         IsReported, OneAddress, ContactsHaveEntry, OpenHaveEntry,
         NotifiedAreNoContacts, ContactsAreKnownSoon, ContactsAreVerified,
         JoinedAreContacts

LEMMA NextIInv ==
    ASSUME IInv, [Next]_vars
    PROVE  IInv'
<1>1. CASE PrepareWait
  BY <1>1, PrepareWaitStep
<1>2. CASE ListenFails
  BY <1>2, ListenFailsStep
<1>3. CASE TimerAction
  BY <1>3, TimerActionStep
<1>4. CASE \E n \in NodeIds : Notify(n) \/ SendDrop(n)
  BY <1>4, NotifyStep, SendDropStep
<1>5. CASE \E a \in Addresses : OpenFails(a) \/ ReceiveOpenError(a)
  BY <1>5, OpenFailsStep, ReceiveOpenErrorStep
<1>6. ASSUME NEW p \in Remotes,
             ReceiveDrop(p) \/ ReceiveProtocolError(p) \/ ReceiveOther(p)
      PROVE  IInv'
  BY <1>6, ReceiveDropStep, ReceiveProtocolErrorStep, ReceiveQuietlyStep
<1>7. ASSUME NEW p \in Remotes, NEW a \in Addresses,
             ReceiveJoin(p, a) \/ ReceiveOpenConnectionWith(p, a)
      PROVE  IInv'
  BY <1>7, ReceiveJoinStep, ReceiveOpenConnectionWithStep
<1>8. ASSUME NEW p \in Remotes, NEW signed \in BOOLEAN,
             \/ ReceivePing(p, signed)
             \/ ReceivePingNoContact(p, signed)
             \/ ReceivePingOnOtherRoute(p, signed)
      PROVE  IInv'
  BY <1>8, ReceivePingStep, ReceiveQuietlyStep
<1>9. CASE UNCHANGED vars
  BY <1>9, StutterIInv
<1> QED BY <1>1, <1>2, <1>3, <1>4, <1>5, <1>6, <1>7, <1>8, <1>9 DEF Next

LEMMA Inductive == Spec => []IInv
<1>1. Init => IInv
  BY InitIInv
<1>2. IInv /\ [Next]_vars => IInv'
  BY NextIInv
<1> QED BY <1>1, <1>2, PTL DEF Spec

-----------------------------------------------------------------------------
(* What the invariant says of a connection.                                *)

LEMMA EntryOfConnection ==
    ASSUME IInv, NEW p \in Remotes \ overtaken,
           p \in open \/ \E n \in Contacts : kbucket[n] = p
    PROVE  /\ T!AddressesOf(table, p) # {}
           /\ EntryOf(p).removal # None
           /\ p \in open \/ IsDue(p)
           /\ \A n \in Contacts : kbucket[n] = p => EntryOf(p).node = n
<1>1. PICK a \in T!Present(table) : table[a].peer = p
  BY DEF IInv, ContactsHaveEntry, OpenHaveEntry
<1>2. p # None
  BY PeerAssumption DEF Remotes
<1>3. T!AddressesOf(table, p) = {a} /\ EntryOf(p) = table[a]
  BY <1>1, <1>2, KnownBy
<1>4. IsTimed(table[a])
  BY <1>1 DEF IInv, EntriesAreSound, Sound
<1>5. p \in open \/ IsDue(p)
  <2>1. Removal(0, FALSE, FALSE).steps = 0
    BY RemovalValue
  <2>2. p \notin open => table[a].removal # None
                         /\ table[a].removal.steps = 0
    BY <1>1, <1>4, <2>1 DEF IsTimed
  <2> QED BY <1>3, <2>2 DEF IsDue
<1>6. ASSUME NEW n \in Contacts, kbucket[n] = p
      PROVE  table[a].node = n
  BY <1>1, <1>2, <1>6 DEF IInv, ContactsHaveEntry, OneAddress
<1> QED BY <1>3, <1>4, <1>5, <1>6 DEF IsTimed

(* The state of the socket is well typed: no handler, with no sequence of  *)
(* packets, failures and timeouts, leaves the types.                       *)
THEOREM TypeCorrect == Spec => []TypeOK
<1>1. IInv => TypeOK
  BY DEF IInv
<1> QED BY <1>1, Inductive, PTL

(* A contact leads to a connection the table knows to be this node's and   *)
(* the socket still has, or that is removed next, however receive(),       *)
(* prepare_wait() and timer_action() interleave; and no contact, and no id *)
(* that is used again, is verified without a signed ping.                  *)
THEOREM ContactSafety ==
    Spec => [](ContactsAreConnected /\ ContactsAreVerified)
<1>1. ASSUME IInv
      PROVE  ContactsAreConnected /\ ContactsAreVerified
  <2>1. ASSUME NEW n \in Contacts, kbucket[n] \notin overtaken
        PROVE  /\ T!AddressesOf(table, kbucket[n]) # {}
               /\ EntryOf(kbucket[n]).node = n
               /\ kbucket[n] \in open \/ IsDue(kbucket[n])
    <3>1. kbucket[n] \in Remotes \ overtaken
      BY <1>1, <2>1 DEF IInv, TypeOK, Contacts
    <3> QED BY <1>1, <3>1, EntryOfConnection
  <2> QED BY <1>1, <2>1 DEF ContactsAreConnected, IInv
<1> QED BY <1>1, Inductive, PTL

(* Every connection is on the clock, unless it has lost its address to     *)
(* another, and the drops of prepare_wait() go to connections the socket   *)
(* has.                                                                    *)
THEOREM ExpirySafety ==
    Spec => [](ConnectionsExpire /\ DropsReachConnections)
<1>1. ASSUME IInv
      PROVE  ConnectionsExpire /\ DropsReachConnections
  <2>1. ConnectionsExpire
    <3>1. open \subseteq Remotes
      BY <1>1 DEF IInv, TypeOK
    <3> QED BY <1>1, <3>1, EntryOfConnection DEF ConnectionsExpire
  <2>2. ASSUME NEW a \in T!Present(table), table[a].removal # None,
               table[a].removal.send_drop
        PROVE  table[a].peer \in open
    <3>1. Sound(a, table[a])
      BY <1>1 DEF IInv, EntriesAreSound
    <3>2. table[a].peer \in Remotes /\ IsTimed(table[a])
      BY <2>2, <3>1 DEF Sound, IsLocal
    <3> QED BY <2>2, <3>2, RemovalValue DEF IsTimed
  <2> QED BY <2>1, <2>2 DEF DropsReachConnections
<1> QED BY <1>1, Inductive, PTL

(* The user loses no node silently, and hears of every contact: a contact  *)
(* it does not know of is removed next, or lost its address.               *)
THEOREM UserSafety == Spec => [](JoinedAreContacts /\ ContactsAreKnown)
<1>1. IInv => JoinedAreContacts /\ ContactsAreKnown
  BY DEF IInv, ContactsAreKnownSoon, ContactsAreKnown
<1> QED BY <1>1, Inductive, PTL
=============================================================================
