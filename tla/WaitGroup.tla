------------------------------ MODULE WaitGroup ------------------------------
(***************************************************************************)
(* The countdown of src/core/wait_group.h: WaitGroup(count, callback) and  *)
(* threads calling Done() concurrently.  Done is an atomic fetch_sub on    *)
(* the uint32_t count_ (modulo Modulus: count_ wraps below zero), then a   *)
(* test of the value fetch_sub returned, then the callback in the thread  *)
(* whose fetch_sub took count_ from 1 to 0.  Each thread calls Done once;  *)
(* more threads than the initial count is a Done past zero.               *)
(***************************************************************************)
EXTENDS Naturals, FiniteSets

CONSTANTS
  Threads,    \* the threads that call Done()
  Counts,     \* the counts the WaitGroup is constructed with
  Modulus     \* 2^32 for uint32_t; a smaller power of two keeps the wrap in reach

VARIABLES
  count,   \* count_
  init,    \* the constructor's count (history)
  pc,      \* pc[t]: "idle", "check" (fetch_sub done), "cb" (calling back), "done"
  old,     \* old[t]: what t's fetch_sub returned
  fired    \* how often the callback ran

vars == <<count, init, pc, old, fired>>

(* WaitGroup(count, callback) *)
Init ==
  /\ init \in Counts /\ count = init
  /\ pc = [t \in Threads |-> "idle"] /\ old = [t \in Threads |-> 0] /\ fired = 0

(* count_.fetch_sub(1, acq_rel): one atomic step. *)
FetchSub(t) ==
  /\ pc[t] = "idle"
  /\ count' = (count + Modulus - 1) % Modulus
  /\ old' = [old EXCEPT ![t] = count]
  /\ pc' = [pc EXCEPT ![t] = "check"]
  /\ UNCHANGED <<init, fired>>

ReachedZeroOffByOne(t) == old[t] = 0

ReachedZeroByLoad(t) == count = 0

(* fetch_sub(...) == 1: this thread took count_ to zero. *)
ReachedZero(t) == old[t] = 1

Check(t) ==
  /\ pc[t] = "check"
  /\ pc' = [pc EXCEPT ![t] = IF ReachedZero(t) THEN "cb" ELSE "done"]
  /\ UNCHANGED <<count, init, old, fired>>

(* callback_() *)
Callback(t) ==
  /\ pc[t] = "cb"
  /\ fired' = fired + 1 /\ pc' = [pc EXCEPT ![t] = "done"]
  /\ UNCHANGED <<count, init, old>>

Done(t) == FetchSub(t) \/ Check(t) \/ Callback(t)

Finished == \A t \in Threads : pc[t] = "done"

(* Every thread has returned from Done: the program may stop. *)
Terminated == Finished /\ UNCHANGED vars

Next == (\E t \in Threads : Done(t)) \/ Terminated

(* A thread that called Done runs it to the end. *)
Spec == Init /\ [][Next]_vars /\ \A t \in Threads : WF_vars(Done(t))

----------------------------------------------------------------------------
(* Properties *)

Subs == Cardinality({t \in Threads : pc[t] # "idle"})

(* WaitGroupTest.ConcurrentDone: however the Done calls interleave, the    *)
(* callback runs at most once, and only after `count` Done calls.          *)
CallbackOnce == fired <= 1 /\ (fired = 1 => init > 0 /\ Subs >= init)

(* WaitGroupTest.BasicDoneAndWait and ConcurrentDone: once `count`        *)
(* threads have called Done, the callback runs (a count of 0 never fires  *)
(* it, as ZeroCountCompletesImmediately notes).                            *)
CallbackRuns == (init > 0 /\ Cardinality(Threads) >= init) => <>(fired = 1)

=============================================================================
