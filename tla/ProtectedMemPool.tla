-------------------------- MODULE ProtectedMemPool --------------------------
(***************************************************************************)
(* The fenced pool of src/containers/protected_mem_pool.h over a region    *)
(* that outlives the process (a file GetMmapMem maps, utils.cpp): a        *)
(* FixedMemPool whose every node is followed by a page made PROT_NONE.     *)
(* Protections belong to the mapping, not to the file, so each start sets  *)
(* them again, with the pool's own alloc and free:                         *)
(*                                                                         *)
(*   fresh file (check = false): alloc every node, fence it, clear();      *)
(*   existing file (check = true): alloc every free node into temp_dels,   *)
(*   fence every node of the active list, free temp_dels, assert that     *)
(*   size() is back to what it was.                                        *)
(*                                                                         *)
(* An mprotect may fail (ENOMEM once the fences split the mapping past     *)
(* vm.max_map_count) and init then returns false, and the process may die *)
(* at any point; both leave the region as the steps so far made it.  The  *)
(* pool's variables are FixedMemPool's; `stage` is where the process is.  *)
(***************************************************************************)
EXTENDS Integers, Sequences, FiniteSets, SequencesExt

CONSTANTS
  MaxNum,          \* max_node_num
  TSize,           \* the aligned node size (FENCE_SIZE is left out of it)
  StartFaults,     \* may an mprotect fail, or the process die, during init?
  MaxRestarts      \* bound on the starts over an existing file

VARIABLES
  links, used, raw, reclaim, call, arg, result,   \* the FixedMemPool
  stage,     \* "up", "down", or the re-attach step: "fill", "fence", "drain"
  temps,     \* temp_dels
  saved,     \* saved_size
  held,      \* history: the handles in use when the process last died serving
  restarts   \* starts over an existing file so far

poolVars == <<links, used, raw, reclaim, call, arg, result>>
vars == <<links, used, raw, reclaim, call, arg, result, stage, temps, saved, held, restarts>>

Pool == INSTANCE FixedMemPool

(* The link array of a fresh (zero-filled) file after alloc(false) was    *)
(* called k times: each node went to the front of the active list.        *)
Filled(k) ==
  [i \in Pool!Nodes |->
     CASE i = 0 -> [prev |-> IF k = 0 THEN 0 ELSE 1, next |-> k]
       [] i <= k -> [prev |-> IF i = k THEN 0 ELSE i + 1, next |-> i - 1]
       [] OTHER -> [prev |-> 0, next |-> 0]]

(* init(mem, ..., check = false) on the file GetMmapMem just created      *)
(* (is_exist false): every node is allocated and fenced, and clear()      *)
(* empties the pool again, its links keeping what the allocations wrote.  *)
(* An mprotect failing after k allocations returns false, and the file    *)
(* stays behind with those k nodes in use.                                 *)
Init ==
  /\ \/ /\ stage = "up"
        /\ links = [Filled(MaxNum) EXCEPT ![0] = [prev |-> 0, next |-> 0]]
        /\ used = 0 /\ raw = 0
     \/ /\ StartFaults /\ stage = "down"
        /\ \E k \in 1 .. MaxNum : links = Filled(k) /\ used = k /\ raw = k
  /\ reclaim = 0 /\ call = "none" /\ arg = 0 /\ result = 0
  /\ temps = <<>> /\ saved = 0 /\ held = {} /\ restarts = 0

(* The application's calls while the process serves. *)
Serve ==
  /\ stage = "up"
  /\ Pool!Next
  /\ UNCHANGED <<stage, temps, saved, held, restarts>>

(* The process dies while serving; the region keeps the pool. *)
Crash ==
  /\ stage = "up" /\ restarts < MaxRestarts
  /\ stage' = "down" /\ held' = ToSet(Pool!Active)
  /\ UNCHANGED <<poolVars, temps, saved, restarts>>

(* The next start finds the file (is_exist) and calls init(check = true):  *)
(* FixedMemPool::init only checks the header, then saved_size = size().   *)
Restart ==
  /\ stage = "down" /\ restarts < MaxRestarts
  /\ stage' = "fill" /\ temps' = <<>> /\ saved' = used /\ restarts' = restarts + 1
  /\ UNCHANGED <<poolVars, held>>

(* for (t = alloc(false); t; t = alloc(false)) temp_dels.push_back(t)      *)
FillStep ==
  /\ stage = "fill"
  /\ Pool!Alloc
  /\ IF result' # 0 THEN temps' = Append(temps, result') /\ UNCHANGED stage
     ELSE stage' = "fence" /\ UNCHANGED temps
  /\ UNCHANGED <<saved, held, restarts>>

(* The walk over the active list fences every node; an mprotect failing   *)
(* makes init return false, and the process gives up with temp_dels still *)
(* allocated.                                                               *)
Fence ==
  /\ stage = "fence"
  /\ \/ stage' = "drain"
     \/ StartFaults /\ restarts < MaxRestarts /\ stage' = "down"
  /\ UNCHANGED <<poolVars, temps, saved, held, restarts>>

DrainStepKeepLast ==
  /\ stage = "drain"
  /\ IF Len(temps) > 1
     THEN Pool!Free(Pool!HandlePtr(Head(temps))) /\ temps' = Tail(temps) /\ UNCHANGED stage
     ELSE stage' = "up" /\ UNCHANGED <<poolVars, temps>>
  /\ UNCHANGED <<saved, held, restarts>>

(* for (auto* t : temp_dels) free(t); then init returns true. *)
DrainStep ==
  /\ stage = "drain"
  /\ IF temps # <<>>
     THEN Pool!Free(Pool!HandlePtr(Head(temps))) /\ temps' = Tail(temps) /\ UNCHANGED stage
     ELSE stage' = "up" /\ UNCHANGED <<poolVars, temps>>
  /\ UNCHANGED <<saved, held, restarts>>

(* The process dies in the middle of a start. *)
CrashStarting ==
  /\ StartFaults /\ stage \in {"fill", "fence", "drain"} /\ restarts < MaxRestarts
  /\ stage' = "down"
  /\ UNCHANGED <<poolVars, temps, saved, held, restarts>>

Next ==
  \/ Serve \/ Crash \/ Restart \/ FillStep \/ Fence \/ DrainStep \/ CrashStarting

Spec == Init /\ [][Next]_vars

----------------------------------------------------------------------------
(* Properties *)

(* A start that returns true, and what it leaves of the handles held. *)
StartReturns == stage = "drain" /\ stage' = "up"
StartKeepsHandles == StartReturns => held \subseteq ToSet(Pool!Active)' /\ used' = saved

(* Spec 4.8 (re-attach validation): a start over an existing file that     *)
(* returns true keeps in use every handle the application held when its    *)
(* process died, and leaves size() at saved_size, as init asserts: the    *)
(* temp_dels it allocated from the free nodes are all given back, whatever *)
(* earlier starts failed or were cut short.                                 *)
ReattachKeepsHandles == [][StartKeepsHandles]_vars

(* The handles in use after a start that returns true are exactly those   *)
(* the application held: none is left over from an earlier start.          *)
NoPhantomHandles ==
  [][StartReturns => ToSet(Pool!Active)' = held]_vars

=============================================================================
