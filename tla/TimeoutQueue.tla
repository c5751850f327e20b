---------------------------- MODULE TimeoutQueue ----------------------------
(***************************************************************************)
(* The timer wheel of src/common/timeout_queue.{h,cpp}.                    *)
(*                                                                         *)
(* A queue value is a record                                               *)
(*   [queue |-> set of timers, index |-> id -> expire, base |-> last id]   *)
(* where `queue` is the std::set<Timer> ordered by (expire, id) and        *)
(* `index` is timer_id_index_.  The operators below are pure functions of  *)
(* such a value, so that the pending-call engine (RpcEngine) can drive the *)
(* same timer wheel with its own tasks.  The second half of the module is  *)
(* the wheel's own specification: a user adds and cancels timers, the      *)
(* server loop drains it, and each fired task may add or cancel timers.    *)
(***************************************************************************)
EXTENDS Naturals, FiniteSets, Functions, TLC

CONSTANTS
  MaxTime,     \* the clock runs over 0..MaxTime (milliseconds)
  Intervals,   \* interval_time values a timer may be added with (0 = one-shot)
  MaxAdds      \* bound on the number of Add calls (ids 1..MaxAdds)

ASSUME MaxTime \in Nat /\ MaxAdds \in Nat \ {0}
ASSUME Intervals \subseteq Nat /\ 0 \in Intervals

Times == 0 .. MaxTime

EmptyQueue == [queue |-> {}, index |-> <<>>, base |-> 0]

(* TimeoutQueue::GenerateID: ++base_id_, skipping 0 on wrap.  base_id_ is  *)
(* 64 bits wide, so the wrap (and with it the failing emplace branches of  *)
(* Add) needs 2^64 calls and is not reachable within any bound.            *)
NewIdSkip(tq) == tq.base + 2
NewId(tq) == tq.base + 1

BeforeById(a, b) == a.id < b.id

(* Timer ordering of Timer::operator<=>: expire first, then seq_id.        *)
Before(a, b) == \/ a.expire < b.expire
                \/ a.expire = b.expire /\ a.id < b.id

(* TimeoutQueue::Add: a new id, indexed by id and inserted in the set.     *)
Added(tq, task, expire, interval) ==
  LET id == NewId(tq) IN
  [queue |-> tq.queue \cup {[id |-> id, expire |-> expire,
                             interval |-> interval, task |-> task]},
   index |-> tq.index @@ (id :> expire),
   base  |-> id]

(* TimeoutQueue::Cancel on a known id: erase Timer{id, index[id]} from the *)
(* set and the id from the index.  An unknown id returns false unchanged.  *)
CancelledIndexOnly(tq, id) == [tq EXCEPT !.index = Restrict(@, DOMAIN @ \ {id})]

Cancelled(tq, id) ==
  [tq EXCEPT !.queue = {t \in @ : ~(t.id = id /\ t.expire = tq.index[id])},
             !.index = Restrict(@, DOMAIN @ \ {id})]

CancelOk(tq, id) == id \in DOMAIN tq.index

(* The whole of TimeoutQueue::Cancel, the false return included. *)
Cancel(tq, id) == IF CancelOk(tq, id) THEN Cancelled(tq, id) ELSE tq

(* TimeoutQueue::Exist *)
Exist(tq, id) == id \in DOMAIN tq.index

First(S) == CHOOSE t \in S : \A u \in S \ {t} : Before(t, u)

(* timer_queue_.begin() *)
Head(tq) == First(tq.queue)

DueStrict(tq, now) == tq.queue # {} /\ Head(tq).expire < now

(* The TimeOut loop goes on while the set is not empty and its head's     *)
(* expire_time is not greater than now.                                   *)
Due(tq, now) == tq.queue # {} /\ Head(tq).expire <= now

(* One iteration of the TimeOut loop before the task runs: erase the head  *)
(* from the index and the set, and re-insert a periodic timer at          *)
(* expire + interval under the same id.                                    *)
PoppedStaleIndex(tq, t) ==
  LET rest == [tq EXCEPT !.queue = @ \ {t}]
  IN  IF t.interval = 0
      THEN [rest EXCEPT !.index = Restrict(@, DOMAIN @ \ {t.id})]
      ELSE [rest EXCEPT !.queue = @ \cup {[t EXCEPT !.expire = t.expire + t.interval]}]

Popped(tq, t) ==
  LET rest  == [tq EXCEPT !.queue = @ \ {t},
                          !.index = Restrict(@, DOMAIN @ \ {t.id})]
      again == [t EXCEPT !.expire = t.expire + t.interval]
  IN  IF t.interval = 0 THEN rest
      ELSE [rest EXCEPT !.queue = @ \cup {again},
                        !.index = @ @@ (t.id :> again.expire)]

----------------------------------------------------------------------------
(***************************************************************************)
(* The wheel on its own.  `phase` is where the server loop is: "idle"      *)
(* between drains, "draining" inside TimeOut(now), "drained" right after   *)
(* TimeOut returned.  History variables: `added` (id -> expire/interval of *)
(* every timer added), `cancelled` (ids a Cancel returned true for) and    *)
(* `fireCount` (how often each id's task ran).                             *)
(***************************************************************************)
VARIABLES tq, now, phase, lastDrain, added, cancelled, fireCount

vars == <<tq, now, phase, lastDrain, added, cancelled, fireCount>>

Ids == 1 .. MaxAdds

Timer == [id : Ids, expire : Nat, interval : Intervals, task : Ids]

TypeOK ==
  /\ tq.queue \subseteq Timer
  /\ DOMAIN tq.index \subseteq Ids
  /\ tq.base \in 0 .. MaxAdds
  /\ now \in Times
  /\ phase \in {"idle", "draining", "drained"}
  /\ lastDrain \in Times
  /\ added \in [DOMAIN added -> [expire : Times, interval : Intervals]]
  /\ cancelled \subseteq Ids
  /\ fireCount \in [Ids -> Nat]

Init ==
  /\ tq = EmptyQueue
  /\ now = 0
  /\ phase = "idle"
  /\ lastDrain = 0
  /\ added = <<>>
  /\ cancelled = {}
  /\ fireCount = [i \in Ids |-> 0]

CanAdd == tq.base < MaxAdds

RecordAdd(expire, interval) ==
  added' = added @@ (NewId(tq) :> [expire |-> expire, interval |-> interval])

(* ServerCore::AddTimer / any caller of Add outside a drain. *)
AddTimer(expire, interval) ==
  /\ phase # "draining"
  /\ CanAdd
  /\ tq' = Added(tq, NewId(tq), expire, interval)
  /\ RecordAdd(expire, interval)
  /\ phase' = "idle"
  /\ UNCHANGED <<now, lastDrain, cancelled, fireCount>>

(* Cancel of a live id outside a drain. *)
CancelTimer(id) ==
  /\ phase # "draining"
  /\ CancelOk(tq, id)
  /\ tq' = Cancelled(tq, id)
  /\ cancelled' = cancelled \cup {id}
  /\ phase' = "idle"
  /\ UNCHANGED <<now, lastDrain, added, fireCount>>

(* The engine's clock advances between SvrProc calls. *)
AdvanceClock ==
  /\ phase # "draining"
  /\ now < MaxTime
  /\ now' = now + 1
  /\ phase' = "idle"
  /\ UNCHANGED <<tq, lastDrain, added, cancelled, fireCount>>

(* TimeOut(now) is entered. *)
BeginTimeOut ==
  /\ phase # "draining"
  /\ phase' = "draining"
  /\ UNCHANGED <<tq, now, lastDrain, added, cancelled, fireCount>>

(* One loop iteration: pop the head, re-arm it, run its task.  The task is *)
(* arbitrary callback code: it does nothing, cancels a live timer (itself  *)
(* included) or adds a one-shot or periodic timer, possibly already        *)
(* expired.                                                                *)
FireNext ==
  /\ phase = "draining"
  /\ Due(tq, now)
  /\ LET t   == Head(tq)
         mid == Popped(tq, t)
     IN  /\ fireCount' = [fireCount EXCEPT ![t.id] = @ + 1]
         /\ \/ /\ tq' = mid
               /\ UNCHANGED <<added, cancelled>>
            \/ \E id \in DOMAIN mid.index :
                 /\ tq' = Cancelled(mid, id)
                 /\ cancelled' = cancelled \cup {id}
                 /\ UNCHANGED added
            \/ \E e \in Times, iv \in Intervals :
                 /\ mid.base < MaxAdds
                 /\ tq' = Added(mid, NewId(mid), e, iv)
                 /\ added' = added @@ (NewId(mid) :> [expire |-> e, interval |-> iv])
                 /\ UNCHANGED cancelled
  /\ UNCHANGED <<now, phase, lastDrain>>

(* The loop breaks: the head expires after now (or the set is empty). *)
EndTimeOut ==
  /\ phase = "draining"
  /\ ~Due(tq, now)
  /\ phase' = "drained"
  /\ lastDrain' = now
  /\ UNCHANGED <<tq, now, added, cancelled, fireCount>>

Next ==
  \/ \E e \in Times, iv \in Intervals : AddTimer(e, iv)
  \/ \E id \in Ids : CancelTimer(id)
  \/ AdvanceClock
  \/ BeginTimeOut
  \/ FireNext
  \/ EndTimeOut

(* The server loop calls SvrProc, and so TimeOut, forever, and real time   *)
(* keeps moving between calls: the clock step is only disabled while a    *)
(* drain is running, so it needs strong fairness.  The user's adds and     *)
(* cancels are not obliged to happen.                                      *)
Fairness ==
  /\ SF_vars(AdvanceClock)
  /\ WF_vars(BeginTimeOut)
  /\ WF_vars(FireNext)
  /\ WF_vars(EndTimeOut)

Spec == Init /\ [][Next]_vars /\ Fairness

----------------------------------------------------------------------------
(* Properties *)

(* The id index and the ordered set describe the same timers with the same *)
(* expire times: Cancel erases by (id, index[id]), so any disagreement,    *)
(* e.g. from the re-arm in TimeOut, leaves a timer Cancel cannot remove.   *)
IndexMatchesQueue ==
  /\ DOMAIN tq.index = {t.id : t \in tq.queue}
  /\ \A t \in tq.queue : tq.index[t.id] = t.expire

(* Once Cancel returned true for an id, that id's task never runs again,   *)
(* whether the cancel came from user code or from a task inside TimeOut,   *)
(* and whether the timer is one-shot or periodic.                          *)
CancelledNeverFires ==
  [][\A id \in cancelled : fireCount'[id] = fireCount[id]]_vars

(* Spec section 8 (the fired ids are the added, not cancelled ids whose    *)
(* deadline is <= the last now drained against), with TimeOut's catch-up   *)
(* of periodic timers: right after TimeOut(now) returns, a timer never     *)
(* cancelled has fired exactly as often as its schedule demands (a         *)
(* one-shot once iff expire <= now, a periodic one once for each of        *)
(* expire, expire+interval, ... that is <= now), and a cancelled timer at  *)
(* most that often.  Tasks cancel and add timers, periodic and already     *)
(* expired ones included, in the middle of the drain.                      *)
ExpectedFires(a) ==
  IF a.expire > lastDrain THEN 0
  ELSE IF a.interval = 0 THEN 1
  ELSE (lastDrain - a.expire) \div a.interval + 1

DrainFiresExactlyDue ==
  phase = "drained" =>
    \A id \in DOMAIN added :
      /\ id \notin cancelled => fireCount[id] = ExpectedFires(added[id])
      /\ fireCount[id] <= ExpectedFires(added[id])

(* A timer that is added and never cancelled eventually fires. *)
EveryTimerFires ==
  \A id \in Ids : Exist(tq, id) ~> (fireCount[id] > 0 \/ id \in cancelled)

=============================================================================
