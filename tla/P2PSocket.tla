------------------------------ MODULE P2PSocket ------------------------------
(***************************************************************************)
(* p2psocket with its p2pstate_ex (libp2psocket): one node that keeps      *)
(* connections to other nodes, finds out who they are by signed pings,     *)
(* and tells its user which nodes have joined and which are gone.          *)
(*                                                                         *)
(* The socket below is external: connections come up, carry packets and    *)
(* break at any time.  communication_state is the table it implements      *)
(* (PeerTable).  receive() handles one packet in a step; the packets that  *)
(* change no state here (Pong, FindNode, NodeDetails, IntroduceTo, Other,  *)
(* a ping that is refused) are one action.                                 *)
(***************************************************************************)
EXTENDS Naturals, FiniteSets

CONSTANTS
    Addresses,      \* address_key(): the remote end, or the local if listening
    Own,            \* the address to listen on
    Configured,     \* connect_to_addresses
    First,          \* the first of them, or None
    PeerIds,        \* what the socket calls a connection
    Listener,       \* what it calls the listening one
    NodeIds,        \* what other nodes call themselves
    NodeOf,         \* the node behind a connection
    RemoteOf,       \* the addresses a connection may come from
    Routes,         \* what this node may look like from outside
    RouteOf,        \* what it looks like at the other end of a connection
    Slot, K,        \* kbucket: the slot of a node, the contacts a slot holds
    SilentSteps,    \* ticks a connection may be silent; 10 in the code
    OpenSteps,      \* ticks an attempt to connect may take; 30 in the code
    DiscoveryServer,
    None            \* no entry, connection, node, removal or address

ASSUME AddressAssumption ==
    /\ Own \in Addresses
    /\ Configured \subseteq Addresses \ {Own}
    /\ First \in Configured \cup {None}
    /\ DiscoveryServer => Configured = {}

ASSUME PeerAssumption ==
    /\ Listener \in PeerIds
    /\ NodeOf \in [PeerIds \ {Listener} -> NodeIds]
    /\ RemoteOf \in [PeerIds \ {Listener} -> SUBSET (Addresses \ {Own})]
    /\ RouteOf \in [PeerIds \ {Listener} -> Routes]
    /\ None \notin Addresses \cup PeerIds \cup NodeIds \cup Routes

ASSUME NumberAssumption ==
    /\ K \in Nat \ {0} /\ SilentSteps \in Nat \ {0} /\ OpenSteps \in Nat \ {0}
    /\ Slot \in [NodeIds -> Nat]

VARIABLES
    table,          \* program_state
    kbucket,        \* the connection of each contact
    external_ip_address,
    verified_peers,
    notify_removed_peers,
    open,           \* the connections the socket has
    waiting,        \* between prepare_wait() and the receive() it announces
    user,           \* what the user was told of each node
    overtaken       \* connections whose address another one has taken over

knowledge == <<kbucket, external_ip_address>>
vars == <<table, kbucket, external_ip_address, verified_peers,
          notify_removed_peers, open, waiting, user, overtaken>>

Removal(steps, send_drop, must_notify) ==
    [steps |-> steps, send_drop |-> send_drop, must_notify |-> must_notify]

Removals ==
    [steps : 0..(SilentSteps + OpenSteps), send_drop : BOOLEAN,
     must_notify : BOOLEAN]

T == INSTANCE PeerTable

(* An entry, and a removal, can be told from its absence.                  *)
ASSUME RecordAssumption == None \notin T!Entries \cup T!Waiting

Remotes == PeerIds \ {Listener}

(* What the user believes of a node.  Retracted: it dropped the node while *)
(* a packet was announced already.                                         *)
Beliefs == {"away", "joined", "retracted"}

TypeOK ==
    /\ T!TypeOK
    /\ kbucket \in [NodeIds -> Remotes \cup {None}]
    /\ external_ip_address \in Routes \cup {None}
    /\ verified_peers \subseteq Remotes
    /\ notify_removed_peers \subseteq NodeIds
    /\ open \subseteq Remotes
    /\ waiting \in BOOLEAN
    /\ user \in [NodeIds -> Beliefs]
    /\ overtaken \subseteq Remotes

(* The constructor, with an address to bind to.                            *)
Init ==
    /\ table = [a \in Addresses |-> IF a \in {Own} \cup Configured
                                    THEN T!Passive ELSE None]
    /\ kbucket = [n \in NodeIds |-> None]
    /\ external_ip_address = None
    /\ verified_peers = {} /\ notify_removed_peers = {}
    /\ open = {} /\ waiting = FALSE
    /\ user = [n \in NodeIds |-> "away"]
    /\ overtaken = {}

-----------------------------------------------------------------------------
(* p2pstate_ex.                                                            *)

(* remove_later(peer) and add_passive() of several addresses.              *)
Later(t, p, removal) == T!WithRemoval(t, T!AddressesOf(t, p), removal)

WithPassives(t, as) ==
    [a \in Addresses |-> IF a \in as THEN T!WithPassive(t, a)[a] ELSE t[a]]

(* get_nodeid()                                                            *)
NodeKnownBy(p) ==
    IF T!AddressesOf(table, p) = {} THEN None
    ELSE table[CHOOSE a \in T!AddressesOf(table, p) : TRUE].node

Contacts == {n \in NodeIds : kbucket[n] # None}

HasRoom(n) == Cardinality({m \in Contacts : Slot[m] = Slot[n]}) < K

(* The answer of add_contact().                                            *)
ContactStatus(n) ==
    IF n \in Contacts THEN "existing_contact"
    ELSE IF HasRoom(n) THEN "new_contact"
    ELSE "no_contact"

-----------------------------------------------------------------------------
(* prepare_wait()                                                          *)

Swept == T!Due(table)

SweptNodes == {table[a].node : a \in Swept} \ {None}

(* Mutant: only a removal the user is told of cleans the kbucket.          *)
KbucketAfterSweep_OnlyNotified ==
    [n \in NodeIds |->
        IF \E a \in Swept : table[a].node = n /\ table[a].removal.must_notify
        THEN None ELSE kbucket[n]]

KbucketAfterSweep ==
    [n \in NodeIds |-> IF n \in SweptNodes THEN None ELSE kbucket[n]]

Dropped == {table[a].peer : a \in {b \in Swept : table[b].removal.send_drop}}

(* Mutant: the connections that are dropped stay verified.                 *)
VerifiedAfterSweep_All == verified_peers

VerifiedAfterSweep == verified_peers \ Dropped

DueToNotify == {a \in Swept : table[a].removal.must_notify}

(* Mutant: the connection's id instead of the node's.                      *)
Notified_Connections == {table[a].peer : a \in DueToNotify}

Notified == {table[a].node : a \in DueToNotify} \ {None}

(* remove_pending(), the notifications and the drops that follow from it.  *)
Sweep ==
    /\ kbucket' = KbucketAfterSweep
    /\ verified_peers' = VerifiedAfterSweep
    /\ notify_removed_peers' = notify_removed_peers \cup Notified
    /\ open' = open \ Dropped
    /\ UNCHANGED <<external_ip_address, user, overtaken>>

ToListen(t) == {a \in T!Present(t) \cap {Own} : t[a].todo}

ToConnect(t) == {a \in T!Present(t) \ {Own} : t[a].todo}

Listening(t) ==
    IF ToListen(t) = {} THEN t ELSE T!WithActive(t, Own, Listener)

(* The configured addresses are added again when one of two timers has     *)
(* run out, which is external; what is added is connected to next time.    *)
Added(t, again) == IF again THEN WithPassives(t, Configured) ELSE t

(* An attempt that is made is given some time.                             *)
Connecting(t, as) ==
    T!WithRemoval(T!Attempted(t, as), as, Removal(OpenSteps, FALSE, FALSE))

PrepareWait ==
    /\ \E again \in BOOLEAN :
           table' = Connecting(Added(Listening(T!Swept(table)), again),
                               ToConnect(T!Swept(table)))
    /\ waiting' = TRUE
    /\ Sweep

(* listen() throws.                                                        *)
ListenFails ==
    /\ ToListen(T!Swept(table)) # {}
    /\ table' = T!Attempted(T!Swept(table), {Own})
    /\ waiting' = FALSE
    /\ Sweep

(* open() throws at address a, after some others.                          *)
RemoveIfConfigured(t, a) ==
    IF a \in Configured
    THEN T!WithRemoval(t, T!PassiveAt(t, a), Removal(0, FALSE, FALSE)) ELSE t

OpenFails(a) ==
    /\ a \in ToConnect(T!Swept(table))
    /\ \E again \in BOOLEAN,
          before \in SUBSET (ToConnect(T!Swept(table)) \ {a}) :
           table' = RemoveIfConfigured(
                        T!Attempted(Connecting(Added(Listening(T!Swept(table)),
                                                     again), before), {a}), a)
    /\ waiting' = FALSE
    /\ Sweep

-----------------------------------------------------------------------------
(* receive(): what is to be notified comes before what the socket has.     *)

Notify(n) ==
    /\ waiting
    /\ n \in notify_removed_peers
    /\ notify_removed_peers' = notify_removed_peers \ {n}
    /\ user' = [user EXCEPT ![n] = "away"]
    /\ waiting' = FALSE
    /\ UNCHANGED <<table, knowledge, verified_peers, open, overtaken>>

Receives ==
    /\ waiting
    /\ notify_removed_peers = {}
    /\ waiting' = FALSE
    /\ UNCHANGED notify_removed_peers

(* The user is told that a connection's node is gone, if it is known.      *)
UserLoses(p) ==
    user' = [n \in NodeIds |-> IF n = NodeKnownBy(p) THEN "away" ELSE user[n]]

(* No trace is left of an earlier connection with this id.                 *)
Unused(p) ==
    /\ p \in Remotes \ (open \cup verified_peers)
    /\ T!AddressesOf(table, p) = {}
    /\ \A n \in NodeIds : kbucket[n] # p

(* Mutant: the connection gets no time limit for its first ping.           *)
TableAfterJoin_NoLimit(p, a) == T!WithPassive(T!WithActive(table, a, p), Own)

TableAfterJoin(p, a) ==
    T!WithPassive(Later(T!WithActive(table, a, p), p,
                        Removal(SilentSteps, TRUE, FALSE)), Own)

(* The old connection from the address, if there is one, is forgotten.     *)
ReceiveJoin(p, a) ==
    /\ Receives
    /\ Unused(p)
    /\ a \in RemoteOf[p]
    /\ open' = open \cup {p}
    /\ table' = TableAfterJoin(p, a)
    /\ overtaken' = (overtaken \ {p}) \cup
           (IF table[a] = None THEN {} ELSE {table[a].peer} \ {None})
    /\ UNCHANGED <<knowledge, verified_peers, user>>

(* Mutant: a drop is answered with a drop.                                 *)
TableAfterDrop_Answered(p) == Later(table, p, Removal(0, TRUE, FALSE))

(* Mutant: what is left of the connection waits for its silence to end.    *)
TableAfterDrop_Stays(p) == table

TableAfterDrop(p) == Later(table, p, Removal(0, FALSE, FALSE))

ReceiveDrop(p) ==
    /\ Receives
    /\ p \in open
    /\ open' = open \ {p}
    /\ verified_peers' = verified_peers \ {p}
    /\ table' = TableAfterDrop(p)
    /\ UserLoses(p)
    /\ UNCHANGED <<knowledge, overtaken>>

(* The user takes a protocol error for the end of the connection: the drop *)
(* that prepare_wait() sends is not reported.                              *)
ReceiveProtocolError(p) ==
    /\ Receives
    /\ p \in open
    /\ table' = Later(table, p, Removal(0, TRUE, FALSE))
    /\ UserLoses(p)
    /\ UNCHANGED <<knowledge, verified_peers, open, overtaken>>

(* socket_open_error, socket_open_refused                                  *)
ReceiveOpenError(a) ==
    /\ Receives
    /\ T!PassiveAt(table, a) # {}
    /\ table' = RemoveIfConfigured(table, a)
    /\ UNCHANGED <<knowledge, verified_peers, open, user, overtaken>>

(* A ping counts if it is signed, or comes from a connection that has      *)
(* signed before.                                                          *)
VerifiedWith(p, signed) ==
    IF signed THEN verified_peers \cup {p} ELSE verified_peers

(* The address this node is seen under is taken from the first ping, from  *)
(* any if there are no contacts, and from the first configured address:    *)
(* the connection's own, whoever has its entry by now.                     *)
CanReset(p) ==
    \/ external_ip_address = None
    \/ Contacts = {}
    \/ First \in RemoteOf[p]

ExternalWith(p) == IF CanReset(p) THEN RouteOf[p] ELSE external_ip_address

OnOtherRoute(p) == ExternalWith(p) # RouteOf[p]

ReceivePingOnOtherRoute(p, signed) ==
    /\ Receives
    /\ p \in open
    /\ signed \/ p \in verified_peers
    /\ OnOtherRoute(p)
    /\ verified_peers' = VerifiedWith(p, signed)
    /\ UNCHANGED <<table, knowledge, open, user, overtaken>>

(* Mutant: the user is not told when the node falls silent.                *)
TableAfterPing_Silently(p, n) ==
    T!WithNode(Later(table, p, Removal(SilentSteps, TRUE, FALSE)), p, n)

(* Mutant: a ping ends the wait for the removal (undo_remove).             *)
TableAfterPing_Forever(p, n) == T!WithNode(Later(table, p, None), p, n)

TableAfterPing(p, n) ==
    T!WithNode(Later(table, p, Removal(SilentSteps, TRUE, TRUE)), p, n)

KbucketAfterPing(p, n) ==
    IF n \in Contacts THEN kbucket ELSE [kbucket EXCEPT ![n] = p]

(* A ping that makes or finds a contact.                                   *)
ReceivePing(p, signed) ==
    LET n == NodeOf[p] IN
    /\ Receives
    /\ p \in open
    /\ signed \/ p \in verified_peers
    /\ ContactStatus(n) # "no_contact"
    /\ ~OnOtherRoute(p)
    /\ external_ip_address' = ExternalWith(p)
    /\ verified_peers' = VerifiedWith(p, signed)
    /\ kbucket' = KbucketAfterPing(p, n)
    /\ table' = TableAfterPing(p, n)
    /\ user' = IF ContactStatus(n) = "new_contact"
               THEN [user EXCEPT ![n] = "joined"] ELSE user
    /\ UNCHANGED <<open, overtaken>>

(* A ping of a node the kbucket has no room for.                           *)
ReceivePingNoContact(p, signed) ==
    /\ Receives
    /\ p \in open
    /\ signed \/ p \in verified_peers
    /\ ContactStatus(NodeOf[p]) = "no_contact"
    /\ ~OnOtherRoute(p)
    /\ external_ip_address' = ExternalWith(p)
    /\ verified_peers' = VerifiedWith(p, signed)
    /\ UNCHANGED <<table, kbucket, open, user, overtaken>>

ReceiveOpenConnectionWith(p, a) ==
    /\ Receives
    /\ p \in open
    /\ ~DiscoveryServer
    /\ a # Own
    /\ table' = T!WithPassive(table, a)
    /\ UNCHANGED <<knowledge, verified_peers, open, user, overtaken>>

ReceiveOther(p) ==
    /\ Receives
    /\ p \in open
    /\ UNCHANGED <<table, knowledge, verified_peers, open, user, overtaken>>

-----------------------------------------------------------------------------
(* The user's other calls: send() of a drop, and timer_action().           *)

SendDrop(n) ==
    /\ user[n] = "joined"
    /\ n \in Contacts
    /\ table' = Later(table, kbucket[n], Removal(0, TRUE, FALSE))
    /\ user' = [user EXCEPT ![n] = IF waiting THEN "retracted" ELSE "away"]
    /\ UNCHANGED <<knowledge, verified_peers, notify_removed_peers, open,
                   waiting, overtaken>>

TimerAction ==
    /\ table' = T!Stepped(table)
    /\ UNCHANGED <<knowledge, verified_peers, notify_removed_peers, open,
                   waiting, user, overtaken>>

-----------------------------------------------------------------------------
Next ==
    \/ PrepareWait
    \/ ListenFails
    \/ TimerAction
    \/ \E n \in NodeIds : Notify(n) \/ SendDrop(n)
    \/ \E a \in Addresses : OpenFails(a) \/ ReceiveOpenError(a)
    \/ \E p \in Remotes :
           \/ ReceiveDrop(p)
           \/ ReceiveProtocolError(p)
           \/ ReceiveOther(p)
           \/ \E a \in Addresses :
                  ReceiveJoin(p, a) \/ ReceiveOpenConnectionWith(p, a)
           \/ \E signed \in BOOLEAN :
                  \/ ReceivePing(p, signed)
                  \/ ReceivePingNoContact(p, signed)
                  \/ ReceivePingOnOtherRoute(p, signed)

(* The user's loop waits and keeps the timer running.  Nothing is assumed  *)
(* of the socket, nor that there is anything to receive.                   *)
Spec == Init /\ [][Next]_vars /\ WF_vars(PrepareWait) /\ WF_vars(TimerAction)

-----------------------------------------------------------------------------
(* Properties.                                                             *)

EntryOf(p) == table[CHOOSE a \in T!AddressesOf(table, p) : TRUE]

IsDue(p) ==
    /\ T!AddressesOf(table, p) # {}
    /\ EntryOf(p).removal # None /\ EntryOf(p).removal.steps = 0

(* A contact leads to a connection that the table knows to be this node's, *)
(* and that the socket has unless the end of it was just received.  Only a *)
(* connection that lost its address to another one is an exception.        *)
ContactsAreConnected ==
    \A n \in Contacts :
        LET p == kbucket[n] IN
        p \notin overtaken => /\ T!AddressesOf(table, p) # {}
                              /\ EntryOf(p).node = n
                              /\ p \in open \/ IsDue(p)

(* A connection, before it proves who it is and after, is dropped when it  *)
(* is silent for long enough: no path through the handlers leaves one      *)
(* without a pending removal.                                              *)
ConnectionsExpire ==
    \A p \in open \ overtaken :
        T!AddressesOf(table, p) # {} /\ EntryOf(p).removal # None

(* prepare_wait() sends its drops to connections the socket has.           *)
DropsReachConnections ==
    \A a \in T!Present(table) :
        table[a].removal # None /\ table[a].removal.send_drop
            => table[a].peer \in open

(* Who was never verified is no contact, and a connection does not leave   *)
(* its verification to whoever gets its id.                                *)
ContactsAreVerified ==
    /\ verified_peers \subseteq open
    /\ \A n \in Contacts : kbucket[n] \in open => kbucket[n] \in verified_peers

(* A node the user was told of is a contact, or the user will be told: it  *)
(* never loses one silently.                                               *)
JoinedAreContacts ==
    \A n \in NodeIds :
        user[n] = "joined" => n \in Contacts \cup notify_removed_peers

(* A contact the user does not know of is about to be removed, so that its *)
(* next ping reports it: the one exception is a drop by the user that came *)
(* between prepare_wait() and a ping, which undoes it.                     *)
ContactsAreKnown ==
    \A n \in Contacts :
        \/ user[n] # "away"
        \/ \E a \in T!Due(table) : table[a].node = n
        \/ kbucket[n] \in overtaken

(* A ping that counts; an unsigned one has the effect of a signed one.     *)
Answers(p) == ReceivePing(p, TRUE)

(* A node that stays joined for the user keeps sending pings that count;   *)
(* one that does not is dropped and noted for the user.                    *)
JoinedKeepPinging ==
    \A n \in NodeIds :
        \/ []<>(\/ user[n] # "joined"
                \/ n \in notify_removed_peers
                \/ kbucket[n] \in overtaken)
        \/ []<><<\E p \in {x \in Remotes : NodeOf[x] = n} : Answers(p)>>_vars

(* p2pstate.hpp says that remove_pending() "has to take care of kbucket     *)
(* clean up": after prepare_wait(), no contact leads to a connection that   *)
(* is gone.                                                                *)
KbucketIsCleanedUp ==
    waiting => \A n \in Contacts : kbucket[n] \in open
=============================================================================
