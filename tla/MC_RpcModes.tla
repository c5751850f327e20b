---------------------------- MODULE MC_RpcModes ----------------------------
(***************************************************************************)
(* Model-checking instance of RpcEngine in both of its scheduling modes:  *)
(* `mode`, chosen once, is ContextController::use_coroutine_ (callback    *)
(* mode, or coroutine mode without task.callback).  Both modes drive the  *)
(* same variables.  Two requests and two outgoing calls, a 2 ms call      *)
(* timeout on a 3 ms horizon: a reply can race its own timeout, a call    *)
(* can be chained from a callback or from a resumed coroutine, and two    *)
(* requests can have calls pending at once.                               *)
(***************************************************************************)
EXTENDS Naturals, Integers

CONSTANTS r1, r2, NoCtx

VARIABLES mode, now, phase, wheel, exec, cur, srv, co, calls, pend, sent, wire, seqBase, stop

Modes == {"callback", "coroutine"}

CB == INSTANCE RpcEngine WITH Reqs <- {r1, r2}, MaxSeq <- 2, MaxTime <- 3, RpcTimeout <- 2,
        PeerRetCodes <- {0, -1}, UseCoroutine <- FALSE, RpcWithCallback <- FALSE,
        AllowParallelRpc <- FALSE, AllowErrorAndRpc <- FALSE

CO == INSTANCE RpcEngine WITH Reqs <- {r1, r2}, MaxSeq <- 2, MaxTime <- 3, RpcTimeout <- 2,
        PeerRetCodes <- {0, -1}, UseCoroutine <- TRUE, RpcWithCallback <- FALSE,
        AllowParallelRpc <- FALSE, AllowErrorAndRpc <- FALSE

mcVars == <<mode, now, phase, wheel, exec, cur, srv, co, calls, pend, sent, wire, seqBase, stop>>

Init == mode \in Modes /\ CB!Init

(* A step of the engine in mode m (which no step changes). *)
In(m) == mode = m /\ mode' = m

Next ==
  \/ In("callback") /\ CB!Next
  \/ In("coroutine") /\ CO!Next

(* RpcEngine's fairness, for the mode the engine runs in. *)
Fairness ==
  /\ SF_mcVars(In("callback") /\ CB!Tick) /\ SF_mcVars(In("coroutine") /\ CO!Tick)
  /\ WF_mcVars(In("callback") /\ CB!BeginTimeOut) /\ WF_mcVars(In("coroutine") /\ CO!BeginTimeOut)
  /\ WF_mcVars(In("callback") /\ CB!FireNext) /\ WF_mcVars(In("coroutine") /\ CO!FireNext)
  /\ WF_mcVars(In("callback") /\ CB!EndTimeOut) /\ WF_mcVars(In("coroutine") /\ CO!EndTimeOut)
  /\ WF_mcVars(In("callback") /\ CB!HandlerReturn) /\ WF_mcVars(In("coroutine") /\ CO!HandlerReturn)
  /\ WF_mcVars(In("callback") /\ CB!CallbackReturn) /\ WF_mcVars(In("coroutine") /\ CO!CallbackReturn)

Spec == Init /\ [][Next]_mcVars /\ Fairness

----------------------------------------------------------------------------
(* Properties: those of RpcEngine, each in the modes it is stated for.   *)

(* Spec 3 (pending call): every live row has exactly one live timer whose *)
(* task is that row's seq, and no timer outlives its row (Awake cancels   *)
(* by the id the ClientContext kept; the timeout path pops it).           *)
PendingTimerPaired == CB!PendingTimerPaired

(* Callback mode: a pending call's parent ServerContext is alive when the *)
(* reply continuation writes through it.                                   *)
PendingOwnerAlive == mode = "callback" => CB!PendingOwnerAlive

(* Coroutine mode: a suspended coroutine is waited on by exactly one      *)
(* pending row, and a row only ever resumes a suspended coroutine.        *)
CoroutineWaitsOnRow == mode = "coroutine" => CO!CoroutineWaitsOnRow

(* Spec 8: each call's continuation, and each ServerContext's Run, runs  *)
(* at most once, though replies race timeouts and are duplicated.         *)
RunAtMostOnce == CB!RunAtMostOnce

(* Spec 7: every request that got a context is eventually replied to and *)
(* deleted, whatever the peers do.                                         *)
RequestCompletes == CB!RequestCompletes

(* Spec 8: after SvrNtfQuit, SvrStopReady becomes true in finite time.   *)
StopReadyEventually == CB!StopReadyEventually

(* Coroutine mode: every ClientContext of an issued call is eventually    *)
(* freed, by the recycle closure Rpc installed or when Rpc returns.        *)
ClientContextFreed == mode = "coroutine" => CO!ClientContextFreed

=============================================================================
