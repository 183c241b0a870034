---------------------------- MODULE DroppedNodes ----------------------------
(***************************************************************************)
(* The back-off of p2pstate_ex (libp2psocket): a node that was dropped is  *)
(* left out of the next introductions this node asks for, ten times longer *)
(* after each drop it was worth another try before, until it sends         *)
(* something for the user.                                                 *)
(*                                                                         *)
(* p2psocket calls these members: process_node_drop() when the connection  *)
(* of a known node ends or a node finds no room in the kbucket,            *)
(* process_node_join() for each Other packet, and                          *)
(* filter_introduce_candidates() for the ids in a NodeDetails packet,      *)
(* which its sender chooses, and which may repeat.  None of them looks at  *)
(* what else the state has, but for the contacts.                          *)
(***************************************************************************)
EXTENDS Naturals

CONSTANTS
    NodeIds,    \* the other nodes
    MaxLimit,   \* no limit grows from here; 1000000000000 in the code
    MaxRepeat,  \* bound on how often one packet has an id
    NotDropped  \* no entry in droped_nodes

VARIABLES
    droped_nodes,   \* limit and skipped of each node that has an entry
    missed          \* how often a node was left out since it was last
                    \* offered, or joined

vars == <<droped_nodes, missed>>

Entries == [limit : Nat, skipped : Nat]

(* What the constants stand for.                                           *)
Parameters ==
    /\ NotDropped \notin Entries
    /\ MaxLimit \in Nat \ {0} /\ MaxRepeat \in Nat

IsDropped(n) == droped_nodes[n] # NotDropped

TypeOK ==
    /\ droped_nodes \in [NodeIds -> Entries \cup {NotDropped}]
    /\ missed \in [NodeIds -> Nat]

Init ==
    /\ droped_nodes = [n \in NodeIds |-> NotDropped]
    /\ missed = [n \in NodeIds |-> 0]

-----------------------------------------------------------------------------
process_node_join(n) ==
    /\ droped_nodes' = [droped_nodes EXCEPT ![n] = NotDropped]
    /\ missed' = [missed EXCEPT ![n] = 0]

(* What a drop makes of an entry: nothing, while the node is left out.     *)
Longer(entry) ==
    IF entry.skipped < entry.limit THEN entry
    ELSE [limit |-> IF entry.limit < MaxLimit THEN 10 * entry.limit
                    ELSE entry.limit,
          skipped |-> 0]

process_node_drop(n) ==
    /\ droped_nodes' =
           [droped_nodes EXCEPT ![n] = IF IsDropped(n) THEN Longer(@)
                                       ELSE [limit |-> 1, skipped |-> 0]]
    /\ UNCHANGED missed

(* How often n is left out of a packet that has it `times' times.  A       *)
(* contact is no candidate.                                                *)
Left(n) == IF IsDropped(n)
           THEN droped_nodes[n].limit - droped_nodes[n].skipped ELSE 0

Skips(n, times) == IF times <= Left(n) THEN times ELSE Left(n)

filter_introduce_candidates(times, contacts) ==
    /\ droped_nodes' =
           [n \in NodeIds |->
               IF n \in contacts \/ ~IsDropped(n) THEN droped_nodes[n]
               ELSE [droped_nodes[n] EXCEPT
                        !.skipped = @ + Skips(n, times[n])]]
    /\ missed' =
           [n \in NodeIds |->
               IF n \in contacts THEN missed[n]
               ELSE IF times[n] > Left(n) THEN 0
               ELSE missed[n] + times[n]]

Next ==
    \/ \E n \in NodeIds : process_node_join(n) \/ process_node_drop(n)
    \/ \E times \in [NodeIds -> 0..MaxRepeat], contacts \in SUBSET NodeIds :
           filter_introduce_candidates(times, contacts)

Spec == Init /\ [][Next]_vars

-----------------------------------------------------------------------------
(* Properties.                                                             *)

(* A limit never grows past the first power of ten from MaxLimit on, and   *)
(* no more skips are counted than it allows: no drop and no repeated id    *)
(* takes skipped past the point where the node is offered again.           *)
SkippedWithinLimit ==
    \A n \in NodeIds :
        IsDropped(n) => /\ droped_nodes[n].skipped <= droped_nodes[n].limit
                        /\ droped_nodes[n].limit < 10 * MaxLimit

(* Below MaxLimit the drops that come before the node was offered again    *)
(* cannot add up: it is left out, in a row, for less than ten ninths of    *)
(* the limit it has now, and not at all when it has none.                  *)
BackOffAddsUp ==
    \A n \in NodeIds :
        /\ ~IsDropped(n) => missed[n] = 0
        /\ IsDropped(n) /\ droped_nodes[n].limit < MaxLimit
               => 9 * missed[n] < 10 * droped_nodes[n].limit

(* The inductive strengthening: what was missed under earlier limits.      *)
MissedBefore ==
    \A n \in NodeIds :
        IsDropped(n) /\ droped_nodes[n].limit < MaxLimit =>
            9 * missed[n] < droped_nodes[n].limit + 9 * droped_nodes[n].skipped
=============================================================================
