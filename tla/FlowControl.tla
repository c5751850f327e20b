---------------------------- MODULE FlowControl ----------------------------
(***************************************************************************)
(* The adaptive flow control of ServerCore (src/core/server_core.cpp):     *)
(* CheckOption's admission of a SvrOption, the phase-1 time budget of      *)
(* SvrProc (remain_ms), the scheduler drain of phase 2 that is bounded by  *)
(* the current max_deal_pkg_num, and AdjustParam's fast-shrink / slow-grow *)
(* update of max_deal_pkg_num at the end of every SvrProc.                 *)
(*                                                                         *)
(* The flow_ctrl fields are uint32_t; their sums wrap.  The model keeps    *)
(* that arithmetic but narrows the width to Width bits, so that the wrap   *)
(* is reachable with small values.  Elapsed times are uint64_t in the code *)
(* and never wrap; they are plain naturals here.  How long each phase      *)
(* takes is the environment's choice from 0..MaxPhaseMs.                   *)
(***************************************************************************)
EXTENDS Naturals

CONSTANTS
  Width,       \* bit width standing for uint32_t
  NumVals,     \* values of max_deal_pkg_num, max_num, min_num
  DeltaVals,   \* values of inc_delta, dec_delta
  JudgeVals,   \* values of judge_range_ms
  FrameVals,   \* values of min_on_proc_ms, max_proc_ms, max_ctx_proc_ms
  MaxPhaseMs,  \* longest phase-0 or phase-2 duration considered
  Backlog,     \* requests the scheduler may hold when LoopOnce is called
  MaxRun       \* cap of the history counters of consecutive adjustments

ASSUME Width \in Nat \ {0}
ASSUME \A v \in NumVals \cup DeltaVals : v \in 0 .. 2^Width - 1

(* uint32_t arithmetic, narrowed to Width bits. *)
U32(x) == x % (2^Width)

Option ==
  [max_deal_pkg_num : NumVals, max_num : NumVals, min_num : NumVals,
   inc_delta : DeltaVals, dec_delta : DeltaVals, judge_range_ms : JudgeVals,
   min_on_proc_ms : FrameVals, max_proc_ms : FrameVals, max_ctx_proc_ms : FrameVals]

(* ServerCore::CheckOption: the options SvrInit accepts. *)
CheckOption(o) ==
  /\ o.min_num <= o.max_num
  /\ o.min_num <= o.max_deal_pkg_num /\ o.max_deal_pkg_num <= o.max_num
  /\ o.min_on_proc_ms <= o.max_proc_ms
  /\ o.max_ctx_proc_ms <= o.max_proc_ms

RemainMsUnclamped(o, e0) == o.max_proc_ms - e0

(* Phase 1 of SvrProc: remain_ms, where e0 = end_ms - begin_ms is the time *)
(* phase 0 took.  The comparison is made on absolute times, so the         *)
(* subtraction never underflows: at least min_on_proc_ms is granted.       *)
RemainMs(o, e0) ==
  IF e0 + o.min_on_proc_ms > o.max_proc_ms THEN o.min_on_proc_ms
  ELSE o.max_proc_ms - e0

(* IScheduler::LoopOnce(proc_num): how many requests one call may process. *)
(* The interface says that proc_num = 0 processes every cached request.    *)
LoopOnceCounts(procNum) ==
  IF procNum = 0 THEN 0 .. Backlog ELSE 0 .. procNum

(* The two conditions of AdjustParam, on uint64_t values. *)
Overloaded(o, rem, used) == used > rem + o.judge_range_ms
Idle(o, rem, used) == ~Overloaded(o, rem, used) /\ used + o.judge_range_ms * 2 < rem

AdjustParamNoFloor(o, rem, used) ==
  LET d == o.max_deal_pkg_num IN
  CASE Overloaded(o, rem, used) ->
         IF d > o.min_num THEN U32(d - o.dec_delta) ELSE d
    [] Idle(o, rem, used) ->
         IF U32(d + o.inc_delta) < o.max_num THEN U32(d + o.inc_delta)
         ELSE IF d < o.max_num THEN o.max_num ELSE d
    [] OTHER -> d

AdjustParamNoClamp(o, rem, used) ==
  LET d == o.max_deal_pkg_num IN
  CASE Overloaded(o, rem, used) ->
         IF d > U32(o.min_num + o.dec_delta) THEN U32(d - o.dec_delta) ELSE d
    [] Idle(o, rem, used) ->
         IF U32(d + o.inc_delta) < o.max_num THEN U32(d + o.inc_delta) ELSE d
    [] OTHER -> d

(* ServerCore::AdjustParam: the new max_deal_pkg_num.  Overloaded: shrink  *)
(* by dec_delta, or to min_num when that would cross it.  Idle: grow by    *)
(* inc_delta, or to max_num when that would reach it.  The sums are uint32.*)
AdjustParam(o, rem, used) ==
  LET d == o.max_deal_pkg_num IN
  CASE Overloaded(o, rem, used) ->
         IF d > U32(o.min_num + o.dec_delta) THEN U32(d - o.dec_delta)
         ELSE IF d > o.min_num THEN o.min_num ELSE d
    [] Idle(o, rem, used) ->
         IF U32(d + o.inc_delta) < o.max_num THEN U32(d + o.inc_delta)
         ELSE IF d < o.max_num THEN o.max_num ELSE d
    [] OTHER -> d

----------------------------------------------------------------------------
(***************************************************************************)
(* `opt` is option_ (only max_deal_pkg_num changes after SvrInit).         *)
(* `remain` is the remain_ms of the last SvrProc, `limit` the proc_num it  *)
(* passed to the scheduler and `sched` what the scheduler processed.       *)
(* History: `overRun`/`idleRun` count the consecutive SvrProc calls that   *)
(* AdjustParam judged overloaded / idle (saturating at MaxRun).            *)
(***************************************************************************)
VARIABLES opt, remain, limit, sched, overRun, idleRun

vars == <<opt, remain, limit, sched, overRun, idleRun>>

Cap(n) == IF n < MaxRun THEN n + 1 ELSE MaxRun

TypeOK ==
  /\ opt \in Option
  /\ remain \in 0 .. opt.max_proc_ms
  /\ limit \in 0 .. 2^Width - 1
  /\ sched \in (0 .. Backlog) \cup (0 .. limit)
  /\ overRun \in 0 .. MaxRun /\ idleRun \in 0 .. MaxRun

(* SvrInit succeeded: any option CheckOption accepts. *)
Init ==
  /\ opt \in {o \in Option : CheckOption(o)}
  /\ remain = opt.max_proc_ms
  /\ limit = opt.max_deal_pkg_num
  /\ sched = 0
  /\ overRun = 0 /\ idleRun = 0

(* One SvrProc: phase 0 takes e0 ms, phase 1 computes remain_ms, phase 2   *)
(* drains the scheduler with the current max_deal_pkg_num (it processes n) *)
(* and the channel, taking `used` ms in all, and AdjustParam closes it.    *)
SvrProc(e0, n, used) ==
  LET rem == RemainMs(opt, e0) IN
  /\ n \in LoopOnceCounts(opt.max_deal_pkg_num)
  /\ remain' = rem
  /\ limit' = opt.max_deal_pkg_num
  /\ sched' = n
  /\ opt' = [opt EXCEPT !.max_deal_pkg_num = AdjustParam(opt, rem, used)]
  /\ overRun' = IF Overloaded(opt, rem, used) THEN Cap(overRun) ELSE 0
  /\ idleRun' = IF Idle(opt, rem, used) THEN Cap(idleRun) ELSE 0

Next ==
  \E e0 \in 0 .. MaxPhaseMs, n \in (0 .. Backlog) \cup (0 .. opt.max_deal_pkg_num),
     used \in 0 .. MaxPhaseMs :
    SvrProc(e0, n, used)

Spec == Init /\ [][Next]_vars

----------------------------------------------------------------------------
(* Properties *)

(* Spec section 4.3: the current max_deal_pkg_num always stays within      *)
(* [min_num, max_num], whatever sequence of overloaded and idle SvrProc    *)
(* calls AdjustParam sees.                                                 *)
DealWithinRange ==
  opt.min_num <= opt.max_deal_pkg_num /\ opt.max_deal_pkg_num <= opt.max_num

(* Fast shrink and slow grow converge: after k consecutive overloaded      *)
(* SvrProc calls with k * dec_delta >= max_num - min_num, AdjustParam has  *)
(* reached min_num; after k consecutive idle ones with k * inc_delta >=    *)
(* max_num - min_num, it has reached max_num.                              *)
SustainedLoadConverges ==
  /\ overRun * opt.dec_delta >= opt.max_num - opt.min_num
       => opt.max_deal_pkg_num = opt.min_num
  /\ idleRun * opt.inc_delta >= opt.max_num - opt.min_num
       => opt.max_deal_pkg_num = opt.max_num

(* Spec section 4.3, phase 2: the scheduler is drained up to the current   *)
(* max_deal_pkg_num.  SvrProc hands max_deal_pkg_num to LoopOnce, for      *)
(* which 0 means no limit.                                                 *)
SchedulerWithinBudget == sched <= limit

=============================================================================
