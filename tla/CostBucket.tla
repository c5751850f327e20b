----------------------------- MODULE CostBucket -----------------------------
(***************************************************************************)
(* The per-command latency histograms of src/core/server_statistics.h:     *)
(* GetCostBucket maps a duration to a histogram edge of kLowerCostTime by  *)
(* std::lower_bound and one step back; SetCoroRunTime and SetQueueCost     *)
(* count a duration in its bucket of cost_map or queue_cost_map (of one    *)
(* command; commands are independent), ClearStatistics drops both.         *)
(* error_code_2_num and the size maxima are plain counters, left out.      *)
(***************************************************************************)
EXTENDS Naturals, Sequences, FiniteSets

CONSTANTS
  Durations,  \* the durations (ms) callers record, a uint32_t
  MaxCalls    \* bound on the number of records between two clears

(* kLowerCostTime *)
Edges == <<0, 50, 100, 500, 1000, 3000, 5000, 60000>>

EdgeSet == {Edges[i] : i \in 1 .. Len(Edges)}

(* std::lower_bound over Edges, on 0-based positions: halve [first,      *)
(* first + count) until it is empty; the result is a position in         *)
(* 0 .. Len(Edges), Len(Edges) being end().                               *)
RECURSIVE LowerBoundLoop(_, _, _)
LowerBoundLoop(x, first, count) ==
  IF count = 0 THEN first
  ELSE LET step == count \div 2
           it   == first + step
       IN  IF Edges[it + 1] < x THEN LowerBoundLoop(x, it + 1, count - step - 1)
           ELSE LowerBoundLoop(x, first, step)

LowerBound(x) == LowerBoundLoop(x, 0, Len(Edges))

GetCostBucketNoStepBack(duration) ==
  LET d == IF duration = 0 THEN 1 ELSE duration
      i == LowerBound(d)
  IN  IF i = Len(Edges) THEN Edges[i] ELSE Edges[i + 1]

(* GetCostBucket: 0 is taken as 1; the edge before lower_bound's, or 0   *)
(* when lower_bound is begin().                                            *)
GetCostBucket(duration) ==
  LET d == IF duration = 0 THEN 1 ELSE duration
      i == LowerBound(d)
  IN  IF i = 0 THEN 0 ELSE Edges[i]

VARIABLES
  cost_map,        \* edge -> count
  queue_cost_map,  \* edge -> count
  calls            \* records since the last clear

vars == <<cost_map, queue_cost_map, calls>>

NoCounts == [e \in EdgeSet |-> 0]

Init == cost_map = NoCounts /\ queue_cost_map = NoCounts /\ calls = <<>>

(* SetCoroRunTime(cmd, duration, ret_code): the cost_map part. *)
SetCoroRunTime(d) ==
  /\ Len(calls) < MaxCalls
  /\ cost_map' = [cost_map EXCEPT ![GetCostBucket(d)] = @ + 1]
  /\ calls' = Append(calls, [map |-> "cost", d |-> d])
  /\ UNCHANGED queue_cost_map

(* SetQueueCost(cmd, duration) *)
SetQueueCost(d) ==
  /\ Len(calls) < MaxCalls
  /\ queue_cost_map' = [queue_cost_map EXCEPT ![GetCostBucket(d)] = @ + 1]
  /\ calls' = Append(calls, [map |-> "queue", d |-> d])
  /\ UNCHANGED cost_map

(* ClearStatistics: recv_cmd_2_info_.clear() *)
ClearStatistics == cost_map' = NoCounts /\ queue_cost_map' = NoCounts /\ calls' = <<>>

Next == \/ \E d \in Durations : SetCoroRunTime(d) \/ SetQueueCost(d)
        \/ ClearStatistics

Spec == Init /\ [][Next]_vars

----------------------------------------------------------------------------
(* Properties *)

(* The histograms as ServerStatisticsTest.GetCostBucket has them, whatever *)
(* path the binary search of std::lower_bound takes: each                  *)
(* count is the number of recorded durations whose largest edge strictly  *)
(* below max(d, 1) is that edge (so 50 ms counts under 0, 51 under 50).   *)
CountsAsTested ==
  LET below(d) == CHOOSE e \in EdgeSet : e < (IF d = 0 THEN 1 ELSE d)
                         /\ \A f \in EdgeSet : f < (IF d = 0 THEN 1 ELSE d) => f <= e
      count(m, e) == Cardinality({n \in 1 .. Len(calls) : calls[n].map = m /\ below(calls[n].d) = e})
  IN  \A e \in EdgeSet : cost_map[e] = count("cost", e) /\ queue_cost_map[e] = count("queue", e)

(* Spec 9, design notes (statistics cost bucketing): the bucket of d is  *)
(* the largest edge <= d, with d = 0 taken as 1; a duration on an edge    *)
(* counts under that edge.                                                 *)
BucketPerSpec ==
  \A n \in 1 .. Len(calls) :
     LET d == IF calls[n].d = 0 THEN 1 ELSE calls[n].d
     IN  GetCostBucket(calls[n].d) = CHOOSE e \in EdgeSet : e <= d /\ \A f \in EdgeSet : f <= d => f <= e

=============================================================================
