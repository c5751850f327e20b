-------------------------- MODULE TimeoutDecorator --------------------------
(***************************************************************************)
(* The timed-event adapter of src/core/timeout_decorator.{h,cpp}: user     *)
(* timers (AddEvent, DelEvent) on a TimeoutQueue wheel drained by the      *)
(* server loop (ProcTimeOut).  A firing timer stores its task under a new  *)
(* seq id in timeout_event_ and, when a scheduler is attached, hands an    *)
(* EventInfo to IScheduler::OnRequest; the scheduler later calls DealEvent *)
(* from LoopOnce.  Without a scheduler DealEvent runs inside the drain.    *)
(* DealEvent runs the task, except for a periodic timer no longer in the  *)
(* wheel, and in coroutine mode only if CoroMgr::Spawn succeeds.           *)
(*                                                                         *)
(* A task is named by the id of the AddEvent that registered it (its      *)
(* timer id); what it does is abstracted to "nothing" or "DelEvent of one  *)
(* live timer".  The ServerContext it runs in is RpcEngine's concern.      *)
(***************************************************************************)
EXTENDS Naturals, Sequences, Functions, TLC

CONSTANTS
  MaxTime, Intervals, MaxAdds,   \* as in TimeoutQueue
  UseScheduler,    \* SetReqScheduler was called
  SchedRejects,    \* OnRequest may return false (a bounded or stopped scheduler)
  UseCoroutine,    \* Init(use_coroutine)
  SpawnFails       \* CoroMgr::Spawn may return false

(* Only the wheel's operators are used; its own variables are not. *)
W == INSTANCE TimeoutQueue WITH tq <- [queue |-> {}, index |-> <<>>, base |-> 0], now <- 0, phase <- "idle",
                                lastDrain <- 0, added <- <<>>, cancelled <- {}, fireCount <- <<>>

VARIABLES
  wheel,      \* timeout_mgr_
  now,        \* the now_ms SvrProc passes
  phase,      \* "idle" or "draining" (inside ProcTimeOut)
  events,     \* timeout_event_: seq id -> task
  queue,      \* the EventInfos the scheduler holds, in order
  seq,        \* IDGenerator's last seq id
  runs,       \* runs[a]: how often task a ran (history)
  cancelled   \* the timer ids DelEvent returned true for (history)

vars == <<wheel, now, phase, events, queue, seq, runs, cancelled>>

Ids == 1 .. MaxAdds

Init ==
  /\ wheel = W!EmptyQueue /\ now = 0 /\ phase = "idle"
  /\ events = <<>> /\ queue = <<>> /\ seq = 0
  /\ runs = [a \in Ids |-> 0] /\ cancelled = {}

DelIndexOnly(st, id) ==
  [st EXCEPT !.wheel = IF W!CancelOk(st.wheel, id) THEN W!CancelledIndexOnly(st.wheel, id) ELSE @,
             !.cancelled = IF W!CancelOk(st.wheel, id) THEN @ \cup {id} ELSE @]

(* DelEvent(timer_id): TimeoutQueue::Cancel. *)
Del(st, id) ==
  [st EXCEPT !.wheel = W!Cancel(st.wheel, id),
             !.cancelled = IF W!CancelOk(st.wheel, id) THEN @ \cup {id} ELSE @]

(* What a task may do when it runs: nothing, or DelEvent of a live timer. *)
TaskEffects(st) == {st} \cup {Del(st, id) : id \in DOMAIN st.wheel.index}

DealEventNoExistCheck(st, info, spawned) ==
  LET rest == [st EXCEPT !.events = Restrict(@, DOMAIN @ \ {info.seq})]
      ran  == [rest EXCEPT !.runs[st.events[info.seq]] = @ + 1]
  IN  IF info.seq \notin DOMAIN st.events THEN {st}
      ELSE IF ~spawned THEN {rest}
      ELSE TaskEffects(ran)

DealEventNoErase(st, info, spawned) ==
  LET rest == [st EXCEPT !.events = Restrict(@, DOMAIN @ \ {info.seq})]
      ran  == [rest EXCEPT !.runs[st.events[info.seq]] = @ + 1]
  IN  IF info.seq \notin DOMAIN st.events THEN {st}
      ELSE IF info.interval > 0 /\ ~W!Exist(st.wheel, info.timer) THEN {st}
      ELSE IF ~spawned THEN {rest}
      ELSE TaskEffects(ran)

DealEventAlwaysExist(st, info, spawned) ==
  LET rest == [st EXCEPT !.events = Restrict(@, DOMAIN @ \ {info.seq})]
      ran  == [rest EXCEPT !.runs[st.events[info.seq]] = @ + 1]
  IN  IF info.seq \notin DOMAIN st.events THEN {st}
      ELSE IF ~W!Exist(st.wheel, info.timer) THEN {rest}
      ELSE IF ~spawned THEN {rest}
      ELSE TaskEffects(ran)

(* DealEvent(info): the set of states it may leave.  An unknown seq id    *)
(* returns false; a periodic timer that left the wheel is dropped; else   *)
(* the task is moved out of timeout_event_ and Run, unless Spawn failed.  *)
DealEvent(st, info, spawned) ==
  LET rest == [st EXCEPT !.events = Restrict(@, DOMAIN @ \ {info.seq})]
      ran  == [rest EXCEPT !.runs[st.events[info.seq]] = @ + 1]
  IN  IF info.seq \notin DOMAIN st.events THEN {st}
      ELSE IF info.interval > 0 /\ ~W!Exist(st.wheel, info.timer) THEN {rest}
      ELSE IF ~spawned THEN {rest}
      ELSE TaskEffects(ran)

Spawns == IF UseCoroutine /\ SpawnFails THEN BOOLEAN ELSE {TRUE}

St == [wheel |-> wheel, events |-> events, runs |-> runs, cancelled |-> cancelled]

Apply(st) ==
  wheel' = st.wheel /\ events' = st.events /\ runs' = st.runs /\ cancelled' = st.cancelled

(* AddEvent(gid, callback, expire_time, interval_time), between drains. *)
AddEvent(e, iv) ==
  /\ phase = "idle" /\ wheel.base < MaxAdds
  /\ wheel' = W!Added(wheel, W!NewId(wheel), e, iv)
  /\ UNCHANGED <<now, phase, events, queue, seq, runs, cancelled>>

(* DelEvent(timer_id) from user code between drains. *)
DelEvent(id) ==
  /\ phase = "idle" /\ Apply(Del(St, id))
  /\ UNCHANGED <<now, phase, queue, seq>>

AdvanceClock ==
  /\ phase = "idle" /\ now < MaxTime /\ now' = now + 1
  /\ UNCHANGED <<wheel, phase, events, queue, seq, runs, cancelled>>

(* ProcTimeOut(now) is entered. *)
ProcTimeOutBegin == phase = "idle" /\ phase' = "draining" /\ UNCHANGED <<wheel, now, events, queue, seq, runs, cancelled>>

(* One iteration of the drain: the head is popped (and re-armed if       *)
(* periodic), and its closure runs: a new seq id, the task stored under  *)
(* it, then OnRequest (which may refuse) or an inline DealEvent.          *)
FireNext ==
  /\ phase = "draining" /\ W!Due(wheel, now)
  /\ LET t    == W!Head(wheel)
         s    == seq + 1
         info == [seq |-> s, timer |-> t.id, interval |-> t.interval]
         st   == [St EXCEPT !.wheel = W!Popped(wheel, t), !.events = @ @@ (s :> t.task)]
     IN  /\ seq' = s
         /\ IF UseScheduler
            THEN \/ Apply(st) /\ queue' = Append(queue, info)
                 \/ SchedRejects /\ Apply(st) /\ UNCHANGED queue
            ELSE \E ok \in Spawns : \E nx \in DealEvent(st, info, ok) : Apply(nx) /\ UNCHANGED queue
  /\ UNCHANGED <<now, phase>>

ProcTimeOutEnd == phase = "draining" /\ ~W!Due(wheel, now) /\ phase' = "idle"
                  /\ UNCHANGED <<wheel, now, events, queue, seq, runs, cancelled>>

(* The scheduler's LoopOnce hands its oldest EventInfo to DealEvent. *)
LoopOnce ==
  /\ phase = "idle" /\ queue # <<>>
  /\ \E ok \in Spawns : \E nx \in DealEvent(St, Head(queue), ok) : Apply(nx)
  /\ queue' = Tail(queue)
  /\ UNCHANGED <<now, phase, seq>>

Next ==
  \/ \E e \in 0 .. MaxTime, iv \in Intervals : AddEvent(e, iv)
  \/ \E id \in Ids : DelEvent(id)
  \/ AdvanceClock \/ ProcTimeOutBegin \/ FireNext \/ ProcTimeOutEnd \/ LoopOnce

(* SvrProc runs phase 0 (the drain) and phase 2 (the scheduler) on every *)
(* tick, and the clock moves between ticks.  Both the clock and LoopOnce *)
(* are disabled while a drain runs, so only strong fairness says that     *)
(* time passes and that a scheduler called on every tick deals what it    *)
(* holds.                                                                  *)
Fairness ==
  /\ SF_vars(AdvanceClock) /\ WF_vars(ProcTimeOutBegin) /\ WF_vars(FireNext)
  /\ WF_vars(ProcTimeOutEnd) /\ SF_vars(LoopOnce)

Spec == Init /\ [][Next]_vars /\ Fairness

----------------------------------------------------------------------------
(* Properties *)

(* DelEvent's comment: once DelEvent has returned true for a timer, its  *)
(* task never runs again, even from an EventInfo the scheduler already   *)
(* holds (a periodic timer is re-checked with Exist in DealEvent; a      *)
(* one-shot timer in the scheduler is out of the wheel, so DelEvent      *)
(* returns false for it).                                                  *)
CancelledNeverRuns == [][\A a \in cancelled : runs'[a] = runs[a]]_vars

(* Every task stored in timeout_event_ is still owed a DealEvent: its seq *)
(* id is in exactly one EventInfo the scheduler holds, and the scheduler   *)
(* holds no EventInfo whose task is gone.  Otherwise the entry is never   *)
(* erased.                                                                 *)
NoOrphanEvent ==
  /\ IsInjective([i \in 1 .. Len(queue) |-> queue[i].seq])
  /\ DOMAIN events = {queue[i].seq : i \in 1 .. Len(queue)}

(* A timer that is added and not cancelled runs its task: the drain fires *)
(* it once the clock reaches its expiry and the scheduler deals it.       *)
EveryTimerRuns == \A a \in Ids : a \in DOMAIN wheel.index ~> (runs[a] > 0 \/ a \in cancelled)

=============================================================================
