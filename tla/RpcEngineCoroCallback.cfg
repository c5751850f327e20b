CONSTANTS
  r1 = r1
  r2 = r2
  NoCtx = NoCtx
  Reqs <- MCReqs
  MaxSeq <- MCMaxSeq
  MaxTime <- MCMaxTime
  RpcTimeout <- MCRpcTimeout
  PeerRetCodes <- MCPeerRetCodes
  UseCoroutine = TRUE
  RpcWithCallback = TRUE
  AllowParallelRpc = FALSE
  AllowErrorAndRpc = FALSE
SPECIFICATION Spec
PROPERTY
  ClientContextFreed
