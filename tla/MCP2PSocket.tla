----------------------------- MODULE MCP2PSocket -----------------------------
(* TLC instance of P2PSocket: a node n1 with two connections from two      *)
(* addresses, and a node n2 that competes with n1 for the only place in    *)
(* their slot and for n1's second address.                                 *)
EXTENDS P2PSocket, TLC

CONSTANTS l, a1, a2, listener, p1, p2, q, n1, n2, x, y

MCNodeOf == p1 :> n1 @@ p2 :> n1 @@ q :> n2
MCRemoteOf == p1 :> {a1} @@ p2 :> {a2} @@ q :> {a2}
MCRouteOf == p1 :> x @@ p2 :> y @@ q :> y
MCSlot == n1 :> 0 @@ n2 :> 0
=============================================================================
