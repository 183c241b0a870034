---------------------------- MODULE SessionManager ----------------------------
(***************************************************************************)
(* session_manager<nodeid_session_header> (libsessionutility): a session   *)
(* with each node, which is a vector of actions to be done one after the   *)
(* other.  An action is started by initiate(), is offered every packet of  *)
(* the session's peer, and completes or fails in either call.              *)
(*                                                                         *)
(* The actions belong to the owner.  Of them the model keeps the flags     *)
(* session_action has, and assumes what its members suggest: one that was  *)
(* not started expects no packet (expected_next_package_type is -1), and a *)
(* call that neither starts nor completes an action leaves the header.     *)
(* Time is what is left until wait_for_contact.                            *)
(***************************************************************************)
EXTENDS Naturals, FiniteSets, Sequences, SequencesExt

CONSTANTS
    Nodes,      \* nodeid
    Addresses,  \* address
    PeerIds,    \* peerid of a connection
    NoPeer,     \* the empty peerid, of a node not connected to yet
    Headers,    \* the headers the owner adds sessions with
    Types,      \* the classes of actions
    Permanent,  \* those whose permanent() is true
    Requests,   \* the vectors of actions the owner adds
    Waits,      \* its wait_durations
    MaxActions, \* bound on the actions of a session
    None        \* no session

ASSUME HeadersAssumption ==
    Headers \subseteq [nodeid : Nodes, address : Addresses,
                       peerid : PeerIds \cup {NoPeer}]
ASSUME RequestsAssumption == Requests \subseteq Seq(Types)
ASSUME WaitsAssumption == Waits \subseteq Nat
ASSUME MaxActionsAssumption == MaxActions \in Nat

VARIABLE session    \* m_pimpl->sessions, by node

vars == session

(* `starts' is how often initiate() was called, up to twice; initiated is  *)
(* starts > 0.                                                             *)
Actions == [type : Types, starts : 0..2, completed : BOOLEAN,
            errored : BOOLEAN]

Sessions == [peerid : PeerIds \cup {NoPeer}, address : Addresses,
             wait : Waits, left : Nat, actions : Seq(Actions)]

(* A session that modify() has erased because its new peerid is taken: the *)
(* node has none, but what an assertion would see is kept.                 *)
Losses == [from : PeerIds \cup {NoPeer}, to : PeerIds \cup {NoPeer}]

(* A session can be told from none, and none from a lost one.              *)
ASSUME SessionsAssumption == None \notin Sessions \cup Losses

Present == {n \in Nodes : session[n] \notin Losses \cup {None}}

TypeOK ==
    /\ session \in [Nodes -> Sessions \cup Losses \cup {None}]
    /\ \A n \in Present : /\ session[n].left <= session[n].wait
                          /\ Len(session[n].actions) <= MaxActions

(* The elements of a sequence at some of its places, in their order.       *)
Rank(places, i) == Cardinality({k \in places : k <= i})

Selected(seq, places) ==
    [j \in 1..Cardinality(places) |->
        seq[CHOOSE i \in places : Rank(places, i) = j]]

Init == session = [n \in Nodes |-> None]

New(type) ==
    [type |-> type, starts |-> 0, completed |-> FALSE, errored |-> FALSE]

IsPermanent(action) == action.type \in Permanent

(* What initiate() and process() of an action set in it.  An exception has *)
(* the effect of an error: the guard ends the session.                     *)
Outcomes == [completed : BOOLEAN, errored : BOOLEAN]

Called(starts) == IF starts = 2 THEN 2 ELSE starts + 1

(* session_action::initiate()                                              *)
Initiate(action, outcome) ==
    [action EXCEPT !.starts = Called(@),
                   !.completed = @ \/ outcome.completed,
                   !.errored = outcome.errored]

(* session_action::process(), of an action that accepts the packet         *)
Answer(action, outcome) ==
    [action EXCEPT !.completed = @ \/ outcome.completed,
                   !.errored = outcome.errored]

(* Mutant: completed actions are not removed.                              *)
Stays_All(action) == TRUE

(* Mutant: permanent actions are removed like the others.                  *)
Stays_Pending(action) == ~action.completed

Stays(action) == ~action.completed \/ IsPermanent(action)

Kept(actions) ==
    Selected(actions, {i \in DOMAIN actions : Stays(actions[i])})

(* modify() puts the session back; if it has got the peerid of another one *)
(* it does not fit into the unique index any more and is erased.           *)
Modified(n, from, s) ==
    IF \E m \in Present \ {n} : session[m].peerid = s.peerid
    THEN [from |-> from, to |-> s.peerid] ELSE s

-----------------------------------------------------------------------------
(* add().                                                                  *)

(* Mutant: looks for the nodeid only.                                      *)
Found_ByNode(h) == h.nodeid

(* insert() finds a session with the same peerid, else one with the same   *)
(* nodeid, or makes a new one.                                             *)
Found(h) ==
    LET same == {n \in Present : session[n].peerid = h.peerid} IN
    IF same # {} THEN CHOOSE n \in same : TRUE ELSE h.nodeid

KeysSame(n, h) == n = h.nodeid /\ session[n].address = h.address

NewSession(h, w) ==
    [peerid |-> h.peerid, address |-> h.address, wait |-> w, left |-> 0,
     actions |-> <<>>]

Standing(actions) == {a.type : a \in {b \in ToSet(actions) : IsPermanent(b)}}

(* Mutant: looks at the first action instead of the last.                  *)
PreviousCompleted_First(actions) == actions = <<>> \/ Head(actions).completed

PreviousCompleted(actions) == actions = <<>> \/ Last(actions).completed

(* Mutant: the deadline is set before wait_duration is reduced.            *)
Contacted_OldWait(s, w, peerid) ==
    [s EXCEPT !.peerid = peerid, !.wait = IF @ > w THEN w ELSE @,
              !.left = s.wait]

Contacted(s, w, peerid) ==
    LET wait == IF s.wait > w THEN w ELSE s.wait IN
    [s EXCEPT !.peerid = peerid, !.wait = wait, !.left = wait]

(* What the loop of add() keeps: the actions of the session, the permanent *)
(* types among them, previous_completed, update_last_contacted, errored.   *)
Adding(actions) ==
    [actions |-> actions, existing |-> Standing(actions),
     previous |-> PreviousCompleted(actions), contacted |-> FALSE,
     errored |-> FALSE]

(* Mutant: only what the session had before add() counts as existing.      *)
Existing_Before(loop, type) == loop.existing

Existing(loop, type) == loop.existing \cup ({type} \cap Permanent)

(* One turn of it, with an action of the vector: initiated when all before *)
(* it are completed, and put into the session unless it is done with.      *)
AddTurn(loop, type, outcome) ==
    LET action == IF loop.previous THEN Initiate(New(type), outcome)
                  ELSE New(type)
    IN  IF loop.errored \/ type \in loop.existing THEN loop
        ELSE [actions |-> IF action.errored \/ ~Stays(action)
                          THEN loop.actions ELSE Append(loop.actions, action),
              existing |-> Existing(loop, type),
              previous |-> action.completed,
              contacted |-> loop.contacted \/ loop.previous,
              errored |-> action.errored]

AddLoop(actions, request, outcomes) ==
    LET run[k \in 0..Len(request)] ==
            IF k = 0 THEN Adding(actions)
            ELSE AddTurn(run[k - 1], request[k], outcomes[k])
    IN  run[Len(request)]

(* What becomes of session s of node n when the loop is left.  An          *)
(* initiate() may connect and set the peerid of the header.                *)
AddLeaves(n, s, w, loop) ==
    LET t == [s EXCEPT !.actions = loop.actions] IN
    IF Len(loop.actions) > MaxActions THEN {}
    ELSE IF loop.errored \/ loop.actions = <<>> THEN {None}
    ELSE IF ~loop.contacted THEN {t}
    ELSE {Modified(n, s.peerid, Contacted(t, w, peerid)) :
             peerid \in PeerIds \cup {s.peerid}}

(* Refused headers (not KeysSame) change nothing.                          *)
Add(h, request, w) ==
    LET n == Found(h)
        s == IF n \in Present THEN session[n] ELSE NewSession(h, w)
    IN  /\ request # <<>>
        /\ n \in Present => KeysSame(n, h)
        /\ \E v \in UNION {AddLeaves(n, s, w,
                                     AddLoop(s.actions, request, outcomes)) :
                             outcomes \in [DOMAIN request -> Outcomes]} :
              session' = [session EXCEPT ![n] = v]

-----------------------------------------------------------------------------
(* process().                                                              *)

(* What its loop keeps: the actions, initiate, errored, dispose_count, and *)
(* whether an action that waits has stopped it.                            *)
Offering(actions) ==
    [actions |-> actions, initiate |-> FALSE, errored |-> FALSE,
     stopped |-> FALSE, disposed |-> 0]

(* Mutant: the loop goes on behind an error.                               *)
Halted_ByWaiting(loop) == loop.stopped

Halted(loop) == loop.errored \/ loop.stopped

(* Mutant: an action that completes in initiate() is not counted.          *)
Disposed_Answered(loop, action) ==
    IF action.completed /\ ~IsPermanent(action) /\ ~loop.initiate
    THEN loop.disposed + 1 ELSE loop.disposed

Disposed(loop, action) ==
    IF action.completed /\ ~IsPermanent(action)
    THEN loop.disposed + 1 ELSE loop.disposed

(* One turn of it, with the k-th action, if the i-th is the first one that *)
(* accepts the packet: those behind it decline what it has left, unless it *)
(* is completed, then they are initiated until one waits.                  *)
ProcessTurn(loop, k, i, outcome) ==
    LET called == loop.initiate \/ k = i
        action == IF loop.initiate THEN Initiate(loop.actions[k], outcome)
                  ELSE IF k = i THEN Answer(loop.actions[k], outcome)
                  ELSE loop.actions[k]
    IN  IF Halted(loop) THEN loop
        ELSE [actions |-> [loop.actions EXCEPT ![k] = action],
              initiate |-> loop.initiate \/ (k = i /\ action.completed),
              errored |-> action.errored,
              stopped |-> loop.initiate /\ ~action.completed,
              disposed |-> IF called THEN Disposed(loop, action)
                           ELSE loop.disposed]

ProcessLoop(actions, i, outcomes) ==
    LET run[k \in 0..Len(actions)] ==
            IF k = 0 THEN Offering(actions)
            ELSE ProcessTurn(run[k - 1], k, i, outcomes[k])
    IN  run[Len(actions)]

(* What becomes of session s of node n when the loop is left.              *)
ProcessLeaves(n, s, loop) ==
    LET t == [s EXCEPT !.left = s.wait, !.actions = Kept(loop.actions)] IN
    IF loop.errored \/ loop.disposed = Len(s.actions) THEN {None}
    ELSE {Modified(n, s.peerid, [t EXCEPT !.peerid = peerid]) :
             peerid \in {s.peerid} \cup IF loop.initiate
                                       THEN PeerIds ELSE {}}

(* A packet that no action accepts changes nothing.                        *)
Process(n, i) ==
    LET s == session[n] IN
    /\ s.peerid # NoPeer
    /\ s.actions[i].starts > 0
    /\ \E v \in UNION {ProcessLeaves(n, s,
                                     ProcessLoop(s.actions, i, outcomes)) :
                         outcomes \in [DOMAIN s.actions -> Outcomes]} :
          session' = [session EXCEPT ![n] = v]

-----------------------------------------------------------------------------
RemovePeer(n) ==
    /\ n \in Present
    /\ session' = [session EXCEPT ![n] = None]

(* Mutant: sessions that have only permanent actions left are spared.      *)
EraseAllPending_SparesIdle ==
    LET due == {n \in Present : /\ session[n].left = 0
                                /\ ~Last(session[n].actions).completed} IN
    /\ due # {}
    /\ session' = [n \in Nodes |-> IF n \in due THEN None ELSE session[n]]

EraseAllPending ==
    LET due == {n \in Present : session[n].left = 0} IN
    /\ due # {}
    /\ session' = [n \in Nodes |-> IF n \in due THEN None ELSE session[n]]

(* steady_clock                                                            *)
Tick ==
    /\ \E n \in Present : session[n].left > 0
    /\ session' = [n \in Nodes |->
           IF n \in Present /\ session[n].left > 0
           THEN [session[n] EXCEPT !.left = @ - 1] ELSE session[n]]

Next ==
    \/ \E h \in Headers, request \in Requests, w \in Waits :
           Add(h, request, w)
    \/ \E n \in Present : \E i \in DOMAIN session[n].actions : Process(n, i)
    \/ \E n \in Present : RemovePeer(n)
    \/ EraseAllPending
    \/ Tick

(* Time passes, and the owner calls erase_all_pending() in its loop.       *)
Fairness == WF_vars(Tick) /\ WF_vars(EraseAllPending)

Spec == Init /\ [][Next]_vars /\ Fairness

-----------------------------------------------------------------------------
(* Properties.                                                             *)

(* The loops of add() and process() start actions, and either may be what  *)
(* makes the next one's turn: an action has been started exactly when all  *)
(* before it are completed.  None is started early, and no session waits   *)
(* with nothing started.                                                   *)
ActionsInOrder ==
    \A n \in Present :
        LET actions == session[n].actions IN
        \A i \in DOMAIN actions :
            actions[i].starts > 0 <=>
                \A j \in 1..(i - 1) : actions[j].completed

(* process() counts the actions it is about to remove, to know whether the *)
(* session ends, and asserts when it is wrong that some action is left: a  *)
(* session has actions, and those completed are the permanent ones.        *)
SessionsHaveActions ==
    \A n \in Present :
        LET actions == session[n].actions IN
        /\ actions # <<>>
        /\ \A i \in DOMAIN actions :
               actions[i].completed => IsPermanent(actions[i])

(* The packet that one action fails on is offered to no other and no error *)
(* is forgotten by going on with the loop: a session with a failed action  *)
(* is gone when the call returns.                                          *)
ErrorsEndSessions ==
    \A n \in Present : \A a \in ToSet(session[n].actions) : ~a.errored

(* add() skips an action whose permanent type the session has, by looking  *)
(* at what was there before and at what it has just added itself.          *)
PermanentOnce ==
    \A n \in Present :
        LET actions == session[n].actions IN
        \A i, j \in DOMAIN actions :
            actions[i].type = actions[j].type /\ IsPermanent(actions[i])
                => i = j

(* add() and process() assert that modify() puts a session back.  A call   *)
(* that leaves the peerid as it was, be it the empty one, finds no other   *)
(* session with it: only an action that sets the header's peerid to one    *)
(* that is taken can make the assertion fail.                              *)
ModifyPutsBack ==
    \A n \in Nodes :
        session[n] \in Losses => session[n].to # session[n].from

(* Any accepted packet on a completed action starts the one behind it.     *)
(* Only a permanent action stays to accept one: without it, initiate() is  *)
(* called once on each action.                                             *)
StartedOnce ==
    \A n \in Present :
        LET actions == session[n].actions IN
        \A i \in DOMAIN actions :
            actions[i].starts > 1 =>
                \E j \in 1..(i - 1) :
                    IsPermanent(actions[j]) /\ actions[j].completed

Renewed(n) ==
    n \in Present /\ n \in Present' /\ session'[n].left > session[n].left

(* A session whose peer falls silent, whatever its actions wait for, ends: *)
(* it stays only if its deadline is moved again and again.                 *)
SilentSessionsEnd ==
    \A n \in Nodes : []<>(n \notin Present) \/ []<><<Renewed(n)>>_vars

(* The refinement mapping: a node's plan is what its session has not       *)
(* completed.                                                              *)
TypesOf(actions) == [i \in DOMAIN actions |-> actions[i].type]

ActionsOf(n) == IF n \in Present THEN session[n].actions ELSE <<>>

PlanOf(actions) ==
    Selected(TypesOf(actions), {i \in DOMAIN actions : ~actions[i].completed})

StandingOf(actions) ==
    {a.type : a \in {b \in ToSet(actions) : b.completed}}

AbsPlan == [n \in Nodes |-> PlanOf(ActionsOf(n))]

AbsStanding == [n \in Nodes |-> StandingOf(ActionsOf(n))]

AbsRequests ==
    UNION {[1..k -> Types] : k \in UNION {1..Len(r) : r \in Requests}}

Plan == INSTANCE SessionPlan WITH
    plan <- AbsPlan, standing <- AbsStanding, Requests <- AbsRequests

(* Actions are done in the order they were added, each permanent one once. *)
ImplementsSessionPlan == Plan!Spec
=============================================================================
