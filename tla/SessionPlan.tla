----------------------------- MODULE SessionPlan -----------------------------
(***************************************************************************)
(* What a session_manager promises to its owner: each node has a plan, the *)
(* actions still to be done with it, in the order they were added.  They   *)
(* leave the plan at its front only.  A permanent action stays behind and  *)
(* is not added again while it is there.                                   *)
(***************************************************************************)
EXTENDS Sequences, SequencesExt

CONSTANTS
    Nodes,
    Types,      \* the classes of actions
    Permanent,  \* those whose permanent() is true
    Requests    \* what the owner can ask for at once: sequences of types

VARIABLES
    plan,       \* the actions of a node that are not completed
    standing    \* its permanent actions that are

vars == <<plan, standing>>

Init ==
    /\ plan = [n \in Nodes |-> <<>>]
    /\ standing = [n \in Nodes |-> {}]

(* Every permanent type at most once.                                      *)
NoneTwice(ts, done) ==
    \A i \in DOMAIN ts :
        ts[i] \in Permanent =>
            /\ ts[i] \notin done
            /\ \A j \in DOMAIN ts : ts[j] = ts[i] => j = i

(* The first k actions of ts are done, the others are what is left to do.  *)
Done(n, ts, k) ==
    /\ plan' = [plan EXCEPT ![n] = SubSeq(ts, k + 1, Len(ts))]
    /\ standing' = [standing EXCEPT
                       ![n] = @ \cup (ToSet(SubSeq(ts, 1, k)) \cap Permanent)]

(* What is added comes last; actions can be done at once only if no other  *)
(* is waiting.                                                             *)
Extend(n) ==
    LET ts == plan[n]
        done == standing[n]
    IN  \E request \in Requests :
            /\ NoneTwice(ts \o request, done)
            /\ \E k \in 0..(IF ts = <<>> THEN Len(request) ELSE 0) :
                   Done(n, ts \o request, k)

Advance(n) ==
    LET ts == plan[n] IN
    \E k \in 1..Len(ts) : Done(n, ts, k)

(* Errors, removals and deadlines end sessions with all they have.         *)
End(ended) ==
    /\ plan' = [n \in Nodes |-> IF n \in ended THEN <<>> ELSE plan[n]]
    /\ standing' = [n \in Nodes |-> IF n \in ended THEN {} ELSE standing[n]]

Next ==
    \/ \E ended \in SUBSET Nodes : End(ended)
    \/ \E n \in Nodes : Extend(n) \/ Advance(n)

Spec == Init /\ [][Next]_vars
=============================================================================
