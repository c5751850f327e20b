CONSTANTS
  r1 = r1
  r2 = r2
  NoCtx = NoCtx
  Reqs <- MCReqs
  MaxSeq <- MCMaxSeq
  MaxTime <- MCMaxTime
  RpcTimeout <- MCRpcTimeout
  PeerRetCodes <- MCPeerRetCodesWithTimeout
  UseCoroutine = FALSE
  RpcWithCallback = FALSE
  AllowParallelRpc = FALSE
  AllowErrorAndRpc = FALSE
SPECIFICATION Spec
INVARIANT
  PendingTimerPaired
