--------------------------- MODULE MCSessionManager ---------------------------
(* TLC instance of SessionManager: node n1 is added under two addresses,   *)
(* with a connection under one of them, n2 without one.                    *)
EXTENDS SessionManager, TLC

CONSTANTS n1, n2, a1, a2, p1, p2, lasting, short

Header(n, a, p) == [nodeid |-> n, address |-> a, peerid |-> p]

MCHeaders ==
    {Header(n1, a2, NoPeer), Header(n1, a1, p1), Header(n2, a1, NoPeer)}

MCRequests == {<<short>>, <<lasting, lasting, short>>}
=============================================================================
