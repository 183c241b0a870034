------------------------ MODULE MCCommunicationState ------------------------
(* TLC instance of CommunicationState: an address to listen on, two to     *)
(* connect to, and the removals p2psocket asks for.                        *)
EXTENDS CommunicationState, TLC

CONSTANTS l, a, b, p, q

MCAddresses == {l, a, b}
MCPeerIds == {p, q}

Removal(steps, send_drop) ==
    [steps |-> steps, send_drop |-> send_drop, must_notify |-> FALSE]

(* After a silence with a drop; now with a drop; now, because it dropped.  *)
MCRemovals == {Removal(1, TRUE), Removal(0, TRUE), Removal(0, FALSE)}

Symm == Permutations({a, b}) \cup Permutations(PeerIds)
=============================================================================
