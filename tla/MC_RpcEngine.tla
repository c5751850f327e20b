--------------------------- MODULE MC_RpcEngine ---------------------------
(* Model-checking instance of RpcEngine: two requests and two outgoing    *)
(* calls, a 2 ms call timeout on a 3 ms horizon.  A reply can race its    *)
(* own timeout, a call can be chained from a callback or from a resumed   *)
(* coroutine, two requests can have calls pending at once, and one body   *)
(* can issue two calls.                                                   *)
EXTENDS RpcEngine

CONSTANTS r1, r2

MCReqs == {r1, r2}
MCMaxSeq == 2
MCMaxTime == 3
MCRpcTimeout == 2
(* Replies a peer sends: success or an application error. *)
MCPeerRetCodes == {RPC_SUCCESS, RPC_SYS_ERR}
(* A peer forwarding its own downstream timeout replies with RPC_TIME_OUT. *)
MCPeerRetCodesWithTimeout == {RPC_SUCCESS, RPC_TIME_OUT}

=============================================================================
