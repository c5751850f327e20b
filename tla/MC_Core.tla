------------------------------- MODULE MC_Core -------------------------------
(***************************************************************************)
(* Model-checking instance of the engine's core helpers of src/core: the   *)
(* timed events of TimeoutDecorator (with a scheduler, inline, and with a  *)
(* refusing scheduler and failing spawns), the flow control of SvrProc,    *)
(* the crash fingerprint of OnRecv and the WaitGroup.  They share no      *)
(* state: `sel` picks the component (and the mode) a behaviour exercises, *)
(* and every other component keeps one of its initial states throughout.  *)
(* The three TimeoutDecorator modes drive the same variables.  Each       *)
(* component keeps its own variables, prefixed.                           *)
(***************************************************************************)
EXTENDS Naturals

CONSTANTS r1, r2, n1, n2, p1, u1, NoFrame, t1, t2, t3

VARIABLES
  sel,
  td_wheel, td_now, td_phase, td_events, td_queue, td_seq, td_runs, td_cancelled,
  fc_opt, fc_remain, fc_limit, fc_sched, fc_overRun, fc_idleRun,
  cf_channel, cf_fp, cf_up, cf_pc, cf_cur, cf_useSched, cf_sched, cf_shed, cf_handled,
  cf_dropped, cf_crashes, cf_owed, cf_mapped,
  wg_count, wg_init, wg_pc, wg_old, wg_fired

tdVars == <<td_wheel, td_now, td_phase, td_events, td_queue, td_seq, td_runs, td_cancelled>>
fcVars == <<fc_opt, fc_remain, fc_limit, fc_sched, fc_overRun, fc_idleRun>>
cfVars == <<cf_channel, cf_fp, cf_up, cf_pc, cf_cur, cf_useSched, cf_sched, cf_shed,
            cf_handled, cf_dropped, cf_crashes, cf_owed, cf_mapped>>
wgVars == <<wg_count, wg_init, wg_pc, wg_old, wg_fired>>
mcVars == <<sel, tdVars, fcVars, cfVars, wgVars>>

(* TimeoutDecorator: a 3 ms clock, one-shot and 2 ms periodic timers and   *)
(* two AddEvent calls: a periodic timer fires twice, and two EventInfos of *)
(* it can wait in the scheduler while user code cancels it.                *)
TDS == INSTANCE TimeoutDecorator WITH MaxTime <- 3, Intervals <- {0, 2}, MaxAdds <- 2,
         UseScheduler <- TRUE, SchedRejects <- FALSE, UseCoroutine <- TRUE, SpawnFails <- FALSE,
         wheel <- td_wheel, now <- td_now, phase <- td_phase, events <- td_events,
         queue <- td_queue, seq <- td_seq, runs <- td_runs, cancelled <- td_cancelled
TDI == INSTANCE TimeoutDecorator WITH MaxTime <- 3, Intervals <- {0, 2}, MaxAdds <- 2,
         UseScheduler <- FALSE, SchedRejects <- FALSE, UseCoroutine <- FALSE, SpawnFails <- FALSE,
         wheel <- td_wheel, now <- td_now, phase <- td_phase, events <- td_events,
         queue <- td_queue, seq <- td_seq, runs <- td_runs, cancelled <- td_cancelled
TDF == INSTANCE TimeoutDecorator WITH MaxTime <- 3, Intervals <- {0, 2}, MaxAdds <- 2,
         UseScheduler <- TRUE, SchedRejects <- TRUE, UseCoroutine <- TRUE, SpawnFails <- TRUE,
         wheel <- td_wheel, now <- td_now, phase <- td_phase, events <- td_events,
         queue <- td_queue, seq <- td_seq, runs <- td_runs, cancelled <- td_cancelled

(* FlowControl: uint32_t narrowed to 4 bits, options with min_num >= 1 and *)
(* deltas far from the wrap, phases of up to 4 ms, a backlog of three.     *)
FC == INSTANCE FlowControl WITH Width <- 4, NumVals <- 1 .. 3, DeltaVals <- {1, 2},
        JudgeVals <- {0, 1}, FrameVals <- {1, 3}, MaxPhaseMs <- 4, Backlog <- 3, MaxRun <- 3,
        opt <- fc_opt, remain <- fc_remain, limit <- fc_limit, sched <- fc_sched,
        overRun <- fc_overRun, idleRun <- fc_idleRun

(* CrashFingerprint: r1, r2 requests with their own seq ids; n1, n2 two   *)
(* one-way frames (seq_id 0) with the same gid and cmd; p1 a reply; u1 a  *)
(* frame Decode rejects.  r2 and n1 crash the handler.                    *)
CFFrames == {r1, r2, n1, n2, p1, u1}
CFTriple ==
  [f \in CFFrames |->
     CASE f = r1 -> [gid |-> 1, seq |-> 1, cmd |-> 1]
       [] f = r2 -> [gid |-> 1, seq |-> 2, cmd |-> 1]
       [] f = n1 -> [gid |-> 1, seq |-> 0, cmd |-> 2]
       [] f = n2 -> [gid |-> 1, seq |-> 0, cmd |-> 2]
       [] f = p1 -> [gid |-> 1, seq |-> 3, cmd |-> 1]
       [] f = u1 -> [gid |-> 2, seq |-> 4, cmd |-> 1]]
CF == INSTANCE CrashFingerprint WITH Frames <- CFFrames, Triple <- CFTriple, IsRsp <- {p1},
        Poison <- {r2, n1}, Undecodable <- {u1}, SchedCap <- 1, MaxCrash <- 2,
        channel <- cf_channel, fp <- cf_fp, up <- cf_up, pc <- cf_pc, cur <- cf_cur,
        useSched <- cf_useSched, sched <- cf_sched, shed <- cf_shed, handled <- cf_handled,
        dropped <- cf_dropped, crashes <- cf_crashes, owed <- cf_owed,
        mapped <- cf_mapped, MapOutcomes <- {"kept"}

(* WaitGroup: three threads, counts 0 to 3 (so fewer, as many and more    *)
(* Done calls than the count), uint32_t narrowed to 3 bits.                *)
WG == INSTANCE WaitGroup WITH Threads <- {t1, t2, t3}, Counts <- 0 .. 3, Modulus <- 8,
        count <- wg_count, init <- wg_init, pc <- wg_pc, old <- wg_old, fired <- wg_fired

Parts == {"timers", "timers_inline", "timers_faults", "flow", "crash", "wait"}
TimerParts == {"timers", "timers_inline", "timers_faults"}

(* The initial state a component keeps while another one is exercised. *)
FCIdle ==
  FC!Init /\ fc_opt = [max_deal_pkg_num |-> 1, max_num |-> 1, min_num |-> 1, inc_delta |-> 1,
                       dec_delta |-> 1, judge_range_ms |-> 0, min_on_proc_ms |-> 1,
                       max_proc_ms |-> 1, max_ctx_proc_ms |-> 1]
CFIdle == CF!Init /\ ~cf_useSched /\ cf_channel = <<r1, r2, n1, n2, p1, u1>>
WGIdle == WG!Init /\ wg_init = 0

Init ==
  /\ sel \in Parts
  /\ TDS!Init
  /\ IF sel = "flow" THEN FC!Init ELSE FCIdle
  /\ IF sel = "crash" THEN CF!Init ELSE CFIdle
  /\ IF sel = "wait" THEN WG!Init ELSE WGIdle

(* A step of the component (and mode) p; no step changes sel. *)
In(p) == sel = p /\ sel' = p

(* What a step of each component leaves alone. *)
OnlyTD == UNCHANGED <<fcVars, cfVars, wgVars>>
OnlyFC == UNCHANGED <<tdVars, cfVars, wgVars>>
OnlyCF == UNCHANGED <<tdVars, fcVars, wgVars>>
OnlyWG == UNCHANGED <<tdVars, fcVars, cfVars>>

Next ==
  \/ In("timers") /\ TDS!Next /\ OnlyTD
  \/ In("timers_inline") /\ TDI!Next /\ OnlyTD
  \/ In("timers_faults") /\ TDF!Next /\ OnlyTD
  \/ In("flow") /\ FC!Next /\ OnlyFC
  \/ In("crash") /\ CF!Next /\ OnlyCF
  \/ In("wait") /\ WG!Next /\ OnlyWG

(* Each component's own fairness, for the component a behaviour runs. *)
Fairness ==
  /\ SF_mcVars(In("timers") /\ TDS!AdvanceClock /\ OnlyTD) /\ SF_mcVars(In("timers") /\ TDS!LoopOnce /\ OnlyTD)
  /\ WF_mcVars(In("timers") /\ TDS!ProcTimeOutBegin /\ OnlyTD) /\ WF_mcVars(In("timers") /\ TDS!FireNext /\ OnlyTD)
  /\ WF_mcVars(In("timers") /\ TDS!ProcTimeOutEnd /\ OnlyTD)
  /\ SF_mcVars(In("timers_inline") /\ TDI!AdvanceClock /\ OnlyTD)
  /\ SF_mcVars(In("timers_inline") /\ TDI!LoopOnce /\ OnlyTD)
  /\ WF_mcVars(In("timers_inline") /\ TDI!ProcTimeOutBegin /\ OnlyTD)
  /\ WF_mcVars(In("timers_inline") /\ TDI!FireNext /\ OnlyTD)
  /\ WF_mcVars(In("timers_inline") /\ TDI!ProcTimeOutEnd /\ OnlyTD)
  /\ WF_mcVars(In("crash") /\ CF!Next /\ OnlyCF)
  /\ \A t \in {t1, t2, t3} : WF_mcVars(In("wait") /\ WG!Done(t) /\ OnlyWG)

Spec == Init /\ [][Next]_mcVars /\ Fairness

----------------------------------------------------------------------------
(* Properties, as the component modules state them, each in the modes it *)
(* is stated for.                                                          *)

(* DelEvent: once it has returned true for a timer, the timer's task     *)
(* never runs again, in every mode, even from an EventInfo the scheduler  *)
(* already holds.                                                          *)
CancelledNeverRuns == TDS!CancelledNeverRuns

(* With a scheduler that accepts every event: every task stored in        *)
(* timeout_event_ is owed exactly one DealEvent, and no EventInfo outlives *)
(* its task.                                                               *)
NoOrphanEvent == sel = "timers" => TDS!NoOrphanEvent

(* With a scheduler or inline: a timer added and not cancelled runs its  *)
(* task.                                                                   *)
EveryTimerRuns == sel \in {"timers", "timers_inline"} => TDS!EveryTimerRuns

(* Spec 4.3: max_deal_pkg_num stays within [min_num, max_num] whatever    *)
(* overloaded and idle SvrProc calls AdjustParam sees.                     *)
DealWithinRange == FC!DealWithinRange

(* Fast shrink and slow grow converge: enough consecutive overloaded (or  *)
(* idle) SvrProc calls reach min_num (or max_num).                         *)
SustainedLoadConverges == FC!SustainedLoadConverges

(* OnRecv and CheckPkgMem: a frame that crashed the engine never crashes  *)
(* it a second time.                                                       *)
NoRepeatCrash == CF!NoRepeatCrash

(* CheckPkgMem drops a frame only when the record holds the triple of the *)
(* frame whose handling crashed the previous process.                      *)
DropOnlyCrashed == CF!DropOnlyCrashed

(* Every decodable, unpoisoned frame is eventually handled (or shed by    *)
(* the scheduler), however the crashes interleave with it.                 *)
EveryHealthyHandled == sel = "crash" => CF!EveryHealthyHandled

(* WaitGroup::Done: however the calls interleave, the callback runs at    *)
(* most once, and only after `count` of them.                              *)
CallbackOnce == WG!CallbackOnce

(* WaitGroup::Done: once `count` threads have called Done, the callback   *)
(* runs.                                                                   *)
CallbackRuns == WG!CallbackRuns

=============================================================================
