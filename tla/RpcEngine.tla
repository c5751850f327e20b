----------------------------- MODULE RpcEngine -----------------------------
(***************************************************************************)
(* The request lifecycle engine: inbound requests (PBService::DealRequest, *)
(* DealMethod, MethodFinish), outgoing calls (PBService::Rpc), the pending *)
(* call table (ContextController::Pending / Awake) with its timer wheel,   *)
(* replies (PBService::DealResponse) and timeouts (ProcTimeOut), in        *)
(* callback mode and in coroutine mode.                                    *)
(*                                                                         *)
(* The engine is one thread.  `exec` says whose code runs: the loop, the   *)
(* body of a handler (inline, or inside its coroutine), or the user        *)
(* callback of a client context.  Handler and callback bodies are user     *)
(* code: they may set ret_code, issue Rpc calls, and return.  The peer     *)
(* answers a sent request any number of times or never.                    *)
(***************************************************************************)
EXTENDS Naturals, Integers, FiniteSets, TLC

CONSTANTS
  Reqs,               \* inbound requests (each arrives once)
  NoCtx,              \* the null ServerContext pointer
  MaxSeq,             \* bound on Rpc calls that expect a response
  MaxTime,            \* the clock runs over 0..MaxTime
  RpcTimeout,         \* opts.timeout of every Rpc
  PeerRetCodes,       \* ret codes a peer's reply frame may carry
  UseCoroutine,       \* ContextController::use_coroutine_
  RpcWithCallback,    \* coroutine mode: handlers may pass task.callback
  AllowParallelRpc,   \* a body may issue a second Rpc before it returns
  AllowErrorAndRpc    \* a body may both set ret_code and issue an Rpc

RPC_SUCCESS == 0
RPC_SYS_ERR == -1
RPC_TIME_OUT == -3

ASSUME NoCtx \notin Reqs
ASSUME RpcTimeout \in Nat \ {0} /\ MaxSeq \in Nat \ {0}

VARIABLES
  now,      \* Clock::CurrentMilliSec
  phase,    \* SvrProc position: "ticked", "draining" (phase 0), "io" (phase 2)
  wheel,    \* ContextController::timeout_queue_ (tasks are seq ids)
  exec,     \* whose code runs on the engine thread
  cur,      \* ContextMgr current ServerContext
  srv,      \* ServerContext of each request
  co,       \* the coroutine running each request (coroutine mode)
  calls,    \* seq -> ClientContext of each Rpc that expects a response
  pend,     \* ContextController::context_cache_ (its keys)
  sent,     \* requests the peer has and has not answered yet
  wire,     \* reply frames in flight to this engine
  seqBase,  \* IDGenerator: last seq id issued
  stop      \* ServerCore::stop_

(* The timer wheel's operators on queue values; the wheel's own history *)
(* variables are not used here.                                          *)
TQ == INSTANCE TimeoutQueue WITH MaxAdds <- MaxSeq, Intervals <- {0},
        tq <- wheel, now <- now, phase <- "idle", lastDrain <- 0,
        added <- <<>>, cancelled <- {}, fireCount <- <<>>

vars == <<now, phase, wheel, exec, cur, srv, co, calls, pend, sent, wire, seqBase, stop>>

Seqs == 1 .. MaxSeq
RetCodes == {RPC_SUCCESS, RPC_SYS_ERR, RPC_TIME_OUT} \cup PeerRetCodes

Loop == [at |-> "loop", req |-> NoCtx, seq |-> 0, issued |-> FALSE]
Body(r, at, s) == [at |-> at, req |-> r, seq |-> s, issued |-> FALSE]

IsFinishAnd(c) == c.ret # RPC_SUCCESS /\ ~c.tbc

(* ServerContext::IsFinish *)
IsFinish(c) == c.ret # RPC_SUCCESS \/ ~c.tbc

FinishedNoRecycle(c) == [c EXCEPT !.replies = @ + 1, !.st = "replied"]

(* Context::Run of a ServerContext: MethodFinish sends the reply and      *)
(* clears the current context, then the recycle closure deletes it.       *)
Finished(c) == [c EXCEPT !.replies = @ + 1, !.st = "freed"]

TypeOK ==
  /\ now \in 0 .. MaxTime
  /\ phase \in {"ticked", "draining", "io"}
  /\ exec.at \in {"loop", "handler", "callback"}
  /\ exec.req \in Reqs \cup {NoCtx}
  /\ cur \in Reqs \cup {NoCtx}
  /\ srv \in [Reqs -> [st : {"unborn", "alive", "freed", "dropped"},
                       ret : RetCodes, tbc : BOOLEAN, replies : Nat]]
  /\ co \in [Reqs -> {"none", "running", "suspended", "done"}]
  /\ DOMAIN calls \subseteq Seqs
  /\ \A s \in DOMAIN calls :
       calls[s] \in [owner : Reqs \cup {NoCtx}, coro : Reqs \cup {NoCtx},
                     heap : BOOLEAN, ret : RetCodes, timer : Nat,
                     runs : Nat, freed : BOOLEAN]
  /\ pend \subseteq DOMAIN calls
  /\ sent \subseteq DOMAIN calls
  /\ wire \subseteq [seq : Seqs, ret : PeerRetCodes]
  /\ seqBase \in 0 .. MaxSeq
  /\ stop \in BOOLEAN

Init ==
  /\ now = 0
  /\ phase = "ticked"
  /\ wheel = TQ!EmptyQueue
  /\ exec = Loop
  /\ cur = NoCtx
  /\ srv = [r \in Reqs |-> [st |-> "unborn", ret |-> RPC_SUCCESS,
                            tbc |-> FALSE, replies |-> 0]]
  /\ co = [r \in Reqs |-> "none"]
  /\ calls = <<>>
  /\ pend = {}
  /\ sent = {}
  /\ wire = {}
  /\ seqBase = 0
  /\ stop = FALSE

Quiet == exec.at = "loop"

(* SvrProc phase 2 loops the channel only if a scheduler is set or the    *)
(* engine is not stopping; this engine has no scheduler.                  *)
ChannelLoops == phase = "io" /\ ~stop

----------------------------------------------------------------------------
(* Inbound request: OnRecv without scheduler -> DealRequest -> DealMethod *)
(* publishes the context as current and runs the handler body.  The early *)
(* returns of DealRequest (expired, unknown cmd, private method) and a    *)
(* failed coroutine Spawn drop the request without a context.             *)
RecvRequest(r) ==
  /\ Quiet /\ ChannelLoops
  /\ srv[r].st = "unborn"
  /\ \/ /\ srv' = [srv EXCEPT ![r].st = "dropped"]
        /\ UNCHANGED <<exec, cur, co>>
     \/ /\ srv' = [srv EXCEPT ![r].st = "alive"]
        /\ cur' = r
        /\ exec' = Body(r, "handler", 0)
        /\ co' = IF UseCoroutine THEN [co EXCEPT ![r] = "running"] ELSE co
  /\ UNCHANGED <<now, phase, wheel, calls, pend, sent, wire, seqBase, stop>>

(* User code sets ctx->ret_code to an error. *)
SetError ==
  /\ exec.at # "loop"
  /\ exec.req \in Reqs
  /\ AllowErrorAndRpc \/ ~exec.issued
  /\ srv[exec.req].ret = RPC_SUCCESS
  /\ srv' = [srv EXCEPT ![exec.req].ret = RPC_SYS_ERR]
  /\ UNCHANGED <<now, phase, wheel, exec, cur, co, calls, pend, sent, wire, seqBase, stop>>

(* ContextController::Pending after the row is in place: the suspension.  *)
(* Callback mode marks the parent to_be_continue through the pointer the  *)
(* ClientContext captured (no write when that pointer is null: the        *)
(* process faults there) and returns; coroutine mode yields.              *)
SuspendUnmarked(s, o) ==
  IF UseCoroutine
  THEN /\ co' = [co EXCEPT ![exec.req] = "suspended"]
       /\ exec' = Loop
       /\ UNCHANGED srv
  ELSE /\ exec' = [exec EXCEPT !.issued = TRUE]
       /\ UNCHANGED <<srv, co>>

SuspendNoYield(s, o) ==
  IF UseCoroutine
  THEN UNCHANGED <<srv, co, exec>>
  ELSE /\ srv' = IF o \in Reqs THEN [srv EXCEPT ![o].tbc = TRUE] ELSE srv
       /\ exec' = [exec EXCEPT !.issued = TRUE]
       /\ UNCHANGED co

Suspend(s, o) ==
  IF UseCoroutine
  THEN /\ co' = [co EXCEPT ![exec.req] = "suspended"]
       /\ exec' = Loop
       /\ UNCHANGED srv
  ELSE /\ srv' = IF o \in Reqs THEN [srv EXCEPT ![o].tbc = TRUE] ELSE srv
       /\ exec' = [exec EXCEPT !.issued = TRUE]
       /\ UNCHANGED co

HeapClientContextNegated(cb) == ~UseCoroutine \/ ~cb

(* Rpc takes a heap PBClientContext in callback mode or when a callback   *)
(* is given, else a stack one.                                            *)
HeapClientContext(cb) == ~UseCoroutine \/ cb

(* ContextController::Pending for call s: a ClientContext whose parent is *)
(* the current ServerContext (captured by its constructor), a timer at    *)
(* now + timeout whose task is the seq, the row, then the suspension.     *)
(* The Add and emplace failures need an id wrap and are not reachable.    *)
Pending(s, heap) ==
  /\ calls' = calls @@ (s :> [owner |-> cur,
                             coro |-> IF UseCoroutine THEN exec.req ELSE NoCtx,
                             heap |-> heap, ret |-> RPC_SUCCESS,
                             timer |-> TQ!NewId(wheel), runs |-> 0, freed |-> FALSE])
  /\ wheel' = TQ!Added(wheel, s, now + RpcTimeout, 0)
  /\ pend' = pend \cup {s}
  /\ cur' = NoCtx
  /\ Suspend(s, cur)

(* SendMessage returning RPC_SUCCESS: the frame goes to the peer, or a   *)
(* send interceptor consumes it and nothing is sent.  Its error returns   *)
(* (too long, serialize, encode, transport) make Rpc return early.        *)
SendMessage(s) == sent' \in {sent \cup {s}, sent}

(* PBService::Rpc with a response expected: allocate the seq, send, then  *)
(* Pending.  A call interceptor consuming the call, or a failed send,     *)
(* returns before Pending.                                                *)
IssueRpc ==
  /\ exec.at # "loop"
  /\ seqBase < MaxSeq
  /\ now + RpcTimeout <= MaxTime
  /\ AllowParallelRpc \/ ~exec.issued
  /\ AllowErrorAndRpc \/ exec.req \notin Reqs \/ srv[exec.req].ret = RPC_SUCCESS
  /\ LET s == seqBase + 1 IN
     /\ seqBase' = s
     /\ \/ UNCHANGED <<wheel, exec, cur, srv, co, calls, pend, sent>>
        \/ \E cb \in IF UseCoroutine /\ RpcWithCallback THEN BOOLEAN ELSE {FALSE} :
             /\ SendMessage(s)
             /\ Pending(s, HeapClientContext(cb))
  /\ UNCHANGED <<now, phase, wire, stop>>

(* The tail of DealMethod: if IsFinish, Run the context (MethodFinish,    *)
(* delete).  A coroutine ends here.                                       *)
HandlerReturn ==
  /\ exec.at = "handler"
  /\ LET r == exec.req IN
     /\ srv' = IF IsFinish(srv[r]) THEN [srv EXCEPT ![r] = Finished(@)] ELSE srv
     /\ cur' = IF IsFinish(srv[r]) THEN NoCtx ELSE cur
     /\ co' = IF UseCoroutine THEN [co EXCEPT ![r] = "done"] ELSE co
  /\ exec' = Loop
  /\ UNCHANGED <<now, phase, wheel, calls, pend, sent, wire, seqBase, stop>>

(* The callback-mode continuation after the user callback returned: if    *)
(* the parent IsFinish, Run it; then the client recycle deletes the       *)
(* ClientContext.                                                         *)
CallbackReturn ==
  /\ exec.at = "callback"
  /\ LET o == exec.req IN
     /\ srv' = IF o \in Reqs /\ IsFinish(srv[o]) THEN [srv EXCEPT ![o] = Finished(@)] ELSE srv
     /\ cur' = IF o \in Reqs /\ IsFinish(srv[o]) THEN NoCtx ELSE cur
  /\ calls' = [calls EXCEPT ![exec.seq].freed = TRUE]
  /\ exec' = Loop
  /\ UNCHANGED <<now, phase, wheel, co, pend, sent, wire, seqBase, stop>>

(* ContextController::Awake on a live row, then Context::Run of the       *)
(* client context.  Awake erases the row and cancels the timer unless the *)
(* ret code is RPC_TIME_OUT.  Callback mode: the continuation clears      *)
(* to_be_continue, makes the parent current and runs the user callback.   *)
(* Coroutine mode: the callback is the reply interceptor (and the user    *)
(* callback, which here does nothing more); the recycle is Resume, after  *)
(* which Pending makes the parent current again and Rpc returns, freeing  *)
(* a stack ClientContext.                                                 *)
AwakeAndRunNoCancel(s, rc, w) ==
  LET c == calls[s] IN
  /\ pend' = pend \ {s}
  /\ wheel' = w
  /\ calls' = [calls EXCEPT ![s].ret = rc, ![s].timer = 0, ![s].runs = @ + 1,
                            ![s].freed = UseCoroutine /\ ~c.heap]
  /\ cur' = c.owner
  /\ IF UseCoroutine
     THEN /\ co' = [co EXCEPT ![c.coro] = "running"]
          /\ exec' = Body(c.coro, "handler", 0)
          /\ UNCHANGED srv
     ELSE /\ srv' = IF c.owner \in Reqs THEN [srv EXCEPT ![c.owner].tbc = FALSE] ELSE srv
          /\ exec' = Body(c.owner, "callback", s)
          /\ UNCHANGED co

AwakeAndRunKeepRow(s, rc, w) ==
  LET c == calls[s] IN
  /\ UNCHANGED pend
  /\ wheel' = IF rc # RPC_TIME_OUT THEN TQ!Cancel(w, c.timer) ELSE w
  /\ calls' = [calls EXCEPT ![s].ret = rc, ![s].timer = 0, ![s].runs = @ + 1,
                            ![s].freed = UseCoroutine /\ ~c.heap]
  /\ cur' = c.owner
  /\ IF UseCoroutine
     THEN /\ co' = [co EXCEPT ![c.coro] = "running"]
          /\ exec' = Body(c.coro, "handler", 0)
          /\ UNCHANGED srv
     ELSE /\ srv' = IF c.owner \in Reqs THEN [srv EXCEPT ![c.owner].tbc = FALSE] ELSE srv
          /\ exec' = Body(c.owner, "callback", s)
          /\ UNCHANGED co

AwakeAndRun(s, rc, w) ==
  LET c == calls[s] IN
  /\ pend' = pend \ {s}
  /\ wheel' = IF rc # RPC_TIME_OUT THEN TQ!Cancel(w, c.timer) ELSE w
  /\ calls' = [calls EXCEPT ![s].ret = rc, ![s].timer = 0, ![s].runs = @ + 1,
                            ![s].freed = UseCoroutine /\ ~c.heap]
  /\ cur' = c.owner
  /\ IF UseCoroutine
     THEN /\ co' = [co EXCEPT ![c.coro] = "running"]
          /\ exec' = Body(c.coro, "handler", 0)
          /\ UNCHANGED srv
     ELSE /\ srv' = IF c.owner \in Reqs THEN [srv EXCEPT ![c.owner].tbc = FALSE] ELSE srv
          /\ exec' = Body(c.owner, "callback", s)
          /\ UNCHANGED co

(* OnRecv of a reply frame -> DealResponse whose Awake finds the row.     *)
(* The channel may hand the same frame over again later.                  *)
DeliverReply(m) ==
  /\ Quiet /\ ChannelLoops
  /\ m \in wire
  /\ m.seq \in pend
  /\ wire' \in {wire \ {m}, wire}
  /\ AwakeAndRun(m.seq, m.ret, wheel)
  /\ UNCHANGED <<now, phase, sent, seqBase, stop>>

(* DealResponse whose Awake finds no row (late or duplicate reply): warn  *)
(* and return.                                                            *)
DeliverStaleReply(m) ==
  /\ Quiet /\ ChannelLoops
  /\ m \in wire
  /\ m.seq \notin pend
  /\ wire' \in {wire \ {m}, wire}
  /\ UNCHANGED <<now, phase, wheel, exec, cur, srv, co, calls, pend, sent, seqBase, stop>>

(* The peer answers a request it has, with some ret code. *)
PeerReply(s, rc) ==
  /\ s \in sent
  /\ sent' = sent \ {s}
  /\ wire' = wire \cup {[seq |-> s, ret |-> rc]}
  /\ UNCHANGED <<now, phase, wheel, exec, cur, srv, co, calls, pend, seqBase, stop>>

(* A reply frame is lost on the way. *)
LoseReply(m) ==
  /\ m \in wire
  /\ wire' = wire \ {m}
  /\ UNCHANGED <<now, phase, wheel, exec, cur, srv, co, calls, pend, sent, seqBase, stop>>

(* ServerCore::SvrStopReady: stopping and no pending context left. *)
SvrStopReady == stop /\ pend = {}

(* ServerCore::SvrNtfQuit: the first call sets stop_. *)
NtfQuit ==
  /\ Quiet
  /\ ~stop
  /\ stop' = TRUE
  /\ UNCHANGED <<now, phase, wheel, exec, cur, srv, co, calls, pend, sent, wire, seqBase>>

----------------------------------------------------------------------------
(* ServerCore::Tick advances the clock; the next SvrProc drains timers.   *)
Tick ==
  /\ Quiet /\ phase = "io"
  /\ now < MaxTime
  /\ now' = now + 1
  /\ phase' = "ticked"
  /\ UNCHANGED <<wheel, exec, cur, srv, co, calls, pend, sent, wire, seqBase, stop>>

(* SvrProc phase 0: ContextController::ProcTimeOut(now). *)
BeginTimeOut ==
  /\ Quiet /\ phase \in {"ticked", "io"}
  /\ phase' = "draining"
  /\ UNCHANGED <<now, wheel, exec, cur, srv, co, calls, pend, sent, wire, seqBase, stop>>

FireNextDropTask ==
  /\ Quiet /\ phase = "draining"
  /\ TQ!Due(wheel, now)
  /\ wheel' = TQ!Popped(wheel, TQ!Head(wheel))
  /\ UNCHANGED <<now, phase, exec, cur, srv, co, calls, pend, sent, wire, seqBase, stop>>

(* One iteration of TimeOut: pop the head; its task is                    *)
(* Awake(seq, RPC_TIME_OUT) and, when a row was found, Run.               *)
FireNext ==
  /\ Quiet /\ phase = "draining"
  /\ TQ!Due(wheel, now)
  /\ LET t == TQ!Head(wheel)
         w == TQ!Popped(wheel, t)
     IN  IF t.task \in pend
         THEN AwakeAndRun(t.task, RPC_TIME_OUT, w)
         ELSE /\ wheel' = w
              /\ UNCHANGED <<exec, cur, srv, co, calls, pend>>
  /\ UNCHANGED <<now, phase, sent, wire, seqBase, stop>>

(* TimeOut returns; SvrProc goes on to phase 2 (channel I/O). *)
EndTimeOut ==
  /\ Quiet /\ phase = "draining"
  /\ ~TQ!Due(wheel, now)
  /\ phase' = "io"
  /\ UNCHANGED <<now, wheel, exec, cur, srv, co, calls, pend, sent, wire, seqBase, stop>>

Next ==
  \/ \E r \in Reqs : RecvRequest(r)
  \/ SetError
  \/ IssueRpc
  \/ HandlerReturn
  \/ CallbackReturn
  \/ \E m \in wire : DeliverReply(m) \/ DeliverStaleReply(m) \/ LoseReply(m)
  \/ \E s \in sent, rc \in PeerRetCodes : PeerReply(s, rc)
  \/ NtfQuit
  \/ Tick
  \/ BeginTimeOut
  \/ FireNext
  \/ EndTimeOut

(* The loop runs forever and time passes (Tick is only enabled between    *)
(* SvrProc phases, hence strong fairness); handler and callback bodies    *)
(* return.  Peers, the network and the arrival of requests owe nothing.   *)
Fairness ==
  /\ SF_vars(Tick)
  /\ WF_vars(BeginTimeOut)
  /\ WF_vars(FireNext)
  /\ WF_vars(EndTimeOut)
  /\ WF_vars(HandlerReturn)
  /\ WF_vars(CallbackReturn)

Spec == Init /\ [][Next]_vars /\ Fairness

----------------------------------------------------------------------------
(* Properties *)

(* Spec 3 (pending call): every live row has exactly one live timer whose *)
(* task is that row's seq, and no timer outlives its row.  Awake cancels  *)
(* the timer by the id the ClientContext kept; the timeout path pops it.  *)
PendingTimerPaired ==
  /\ \A s \in pend : \E t \in wheel.queue : t.task = s /\ t.id = calls[s].timer
  /\ \A t \in wheel.queue : t.task \in pend

(* A pending call's parent ServerContext is a live context: the reply     *)
(* continuation writes to_be_continue through that pointer and Runs it.   *)
(* Spec 3: the ClientContext is "captured at RPC issue so the reply can   *)
(* restore the handler's view of current request".                        *)
PendingOwnerAlive ==
  \A s \in pend : calls[s].owner \in Reqs /\ srv[calls[s].owner].st = "alive"

(* Spec 8: each issued call's continuation runs at most once (reply and   *)
(* timeout race, replies are duplicated), and each ServerContext is Run   *)
(* (replied and deleted) at most once.                                    *)
RunAtMostOnce ==
  /\ \A s \in DOMAIN calls : calls[s].runs <= 1
  /\ \A r \in Reqs : srv[r].replies <= 1

(* Coroutine mode: a suspended coroutine is waited on by exactly one      *)
(* pending row, and a row only ever resumes a suspended coroutine.        *)
CoroutineWaitsOnRow ==
  /\ \A r \in Reqs : co[r] = "suspended" =>
        Cardinality({s \in pend : calls[s].coro = r}) = 1
  /\ \A s \in pend : co[calls[s].coro] = "suspended"

(* Spec 7: timeouts guarantee liveness: every request that got a context  *)
(* is eventually replied to and deleted, whatever the peers do.           *)
RequestCompletes ==
  \A r \in Reqs : srv[r].st = "alive" ~> srv[r].st = "freed"

(* Spec 8: after SvrNtfQuit, SvrStopReady (no pending call left) becomes *)
(* true in finite time, although the stopped engine no longer reads its  *)
(* channel: the timer wheel retires every call.                          *)
StopReadyEventually ==
  stop ~> SvrStopReady

(* Every ClientContext of an issued call is eventually freed: a heap one  *)
(* by the recycle closure Rpc installed, a stack one when Rpc returns.    *)
ClientContextFreed ==
  \A s \in Seqs : s \in DOMAIN calls ~> (s \in DOMAIN calls /\ calls[s].freed)

=============================================================================
