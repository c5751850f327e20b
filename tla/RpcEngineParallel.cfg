CONSTANTS
  r1 = r1
  r2 = r2
  NoCtx = NoCtx
  Reqs <- MCReqs
  MaxSeq <- MCMaxSeq
  MaxTime <- MCMaxTime
  RpcTimeout <- MCRpcTimeout
  PeerRetCodes <- MCPeerRetCodes
  UseCoroutine = FALSE
  RpcWithCallback = FALSE
  AllowParallelRpc = TRUE
  AllowErrorAndRpc = FALSE
SPECIFICATION Spec
INVARIANT
  PendingOwnerAlive
