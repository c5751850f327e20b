--------------------------- MODULE MC_Containers ---------------------------
(***************************************************************************)
(* Model-checking instance of the sequential shared-memory containers of  *)
(* src/containers: the fixed pool, the fenced pool over a region that     *)
(* survives restarts, the hash pool, the set, the list, the fixed vector  *)
(* and both ring buffers, and the module registry of                      *)
(* src/core/system_mgr.h, whose priority index is three std::vectors.     *)
(* They share no state, so the                                             *)
(* instance checks them side by side: `sel` picks the container a         *)
(* behaviour exercises, and every other container keeps one of its        *)
(* initial states throughout (its refinement then stutters).  Each        *)
(* container keeps its own variables, prefixed by its name.               *)
(***************************************************************************)
EXTENDS Naturals

CONSTANTS k1, k2, k3, NoKey, v1, v2, NoVal, Zero, a, b, NoItem, sA, sB, sC, sD

VARIABLES
  sel,
  fp_links, fp_used, fp_raw, fp_reclaim, fp_call, fp_arg, fp_result,
  hp_links, hp_used, hp_raw, hp_reclaim, hp_call, hp_arg, hp_result,
  hp_buckets, hp_key, hp_next, hp_region, hp_last,
  ms_set, ms_last, ms_it, ms_scanning, ms_seen, ms_stayed,
  ml_link, ml_val, ml_used, ml_free, ml_raw, ml_last, ml_items,
  fv_data, fv_size, fv_last,
  ur_start, ur_end, ur_used, ur_num, ur_buf, ur_bad, ur_last, ur_records,
  fr_buf, fr_start, fr_end, fr_used, fr_max, fr_last, fr_fault,
  sm_base_id, sm_tid, sm_present, sm_buf, sm_size, sm_gen, sm_phase, sm_walk, sm_calls,
  sm_passes, sm_fault, sm_start, sm_visited, sm_touched,
  pm_links, pm_used, pm_raw, pm_reclaim, pm_call, pm_arg, pm_result,
  pm_stage, pm_temps, pm_saved, pm_held, pm_restarts

fpVars == <<fp_links, fp_used, fp_raw, fp_reclaim, fp_call, fp_arg, fp_result>>
hpVars == <<hp_links, hp_used, hp_raw, hp_reclaim, hp_call, hp_arg, hp_result,
            hp_buckets, hp_key, hp_next, hp_region, hp_last>>
msVars == <<ms_set, ms_last, ms_it, ms_scanning, ms_seen, ms_stayed>>
mlVars == <<ml_link, ml_val, ml_used, ml_free, ml_raw, ml_last, ml_items>>
fvVars == <<fv_data, fv_size, fv_last>>
urVars == <<ur_start, ur_end, ur_used, ur_num, ur_buf, ur_bad, ur_last, ur_records>>
frVars == <<fr_buf, fr_start, fr_end, fr_used, fr_max, fr_last, fr_fault>>
smVars == <<sm_base_id, sm_tid, sm_present, sm_buf, sm_size, sm_gen, sm_phase, sm_walk,
            sm_calls, sm_passes, sm_fault, sm_start, sm_visited, sm_touched>>
pmVars == <<pm_links, pm_used, pm_raw, pm_reclaim, pm_call, pm_arg, pm_result,
            pm_stage, pm_temps, pm_saved, pm_held, pm_restarts>>
vars == <<sel, fpVars, hpVars, msVars, mlVars, fvVars, urVars, frVars, smVars, pmVars>>

(* FixedMemPool: three slots of two bytes, enough for a node in the middle *)
(* of the active list, a reclaim stack of two, and every kind of bad       *)
(* pointer.                                                                 *)
FP == INSTANCE FixedMemPool WITH MaxNum <- 3, TSize <- 2,
        links <- fp_links, used <- fp_used, raw <- fp_raw, reclaim <- fp_reclaim,
        call <- fp_call, arg <- fp_arg, result <- fp_result

(* ProtectedMemPool: two slots of two bytes and three starts over the     *)
(* file, so the process can die with handles in use, with a reclaim stack *)
(* and after a clear, a start can fail or be cut short, and the next one   *)
(* re-attaches what it left.                                                *)
PM == INSTANCE ProtectedMemPool WITH MaxNum <- 2, TSize <- 2, StartFaults <- TRUE,
        MaxRestarts <- 3,
        links <- pm_links, used <- pm_used, raw <- pm_raw, reclaim <- pm_reclaim,
        call <- pm_call, arg <- pm_arg, result <- pm_result, stage <- pm_stage,
        temps <- pm_temps, saved <- pm_saved, held <- pm_held, restarts <- pm_restarts

(* HashMemPool: two nodes of a 64-bit KEY and VALUE (HashNode: 24 bytes), *)
(* two buckets and three keys; k1 and k2 share bucket 0, so a chain of two *)
(* occurs, and a full pool meets a third key.  The caller passes exactly  *)
(* calc_mem_size.                                                          *)
HPKeys == {k1, k2, k3}
HPHash == [k \in HPKeys |-> IF k \in {k1, k2} THEN 0 ELSE 1]
HPSize == 16 + 8 * 2 + ((88 + 3 * 16 + 7) \div 8) * 8 + 2 * 24
HP == INSTANCE HashMemPool WITH MaxNum <- 2, TSize <- 24, Buckets <- 2, Keys <- HPKeys,
        Hash <- HPHash, Regions <- {HPSize},
        links <- hp_links, used <- hp_used, raw <- hp_raw, reclaim <- hp_reclaim,
        call <- hp_call, arg <- hp_arg, result <- hp_result, buckets <- hp_buckets,
        key <- hp_key, next <- hp_next, region <- hp_region, last <- hp_last

(* MemSet: two slots, three buckets and three keys; k1 and k2 share bucket *)
(* 0 and k3 hashes to bucket 2, so a chain of two, an empty bucket the     *)
(* walk must step over, reuse of a freed slot and a full set refusing a    *)
(* third key all occur.                                                     *)
MSHash == [k \in HPKeys |-> IF k \in {k1, k2} THEN 0 ELSE 2]
MS == INSTANCE MemSet WITH MaxNum <- 2, Buckets <- 3, Keys <- HPKeys, Hash <- MSHash,
        set <- ms_set, last <- ms_last, it <- ms_it, scanning <- ms_scanning,
        seen <- ms_seen, stayed <- ms_stayed

(* MemList: three slots and two values, so a full list, duplicate values  *)
(* (find's first-match rule), slots freed in every order and clear() over *)
(* a non-empty free stack occur.                                           *)
ML == INSTANCE MemList WITH MaxNum <- 3, Vals <- {v1, v2},
        link <- ml_link, val <- ml_val, used <- ml_used, free <- ml_free, raw <- ml_raw,
        last <- ml_last, items <- ml_items

(* FixedVector<T, 3, 1>: erasing the middle of a full vector and ranges   *)
(* that leave a tail to shift occur.                                        *)
FV == INSTANCE FixedVector WITH Max <- 3, InitSize <- 1, Vals <- {v1, v2},
        data <- fv_data, size <- fv_size, last <- fv_last

(* UnfixedRingBuf: a 7-byte buffer with 2-byte headers (uint8_t IntType); *)
(* a record may end one byte before the end (a skip), leave room for a    *)
(* padding record, or fill the buffer (len 5); len 6 never fits.           *)
UR == INSTANCE UnfixedRingBuf WITH Size <- 7, Hdr <- 2, Values <- {a, b},
        Lens <- {0, 1, 2, 5, 6}, Fuel <- 8,
        start <- ur_start, end <- ur_end, used <- ur_used, num <- ur_num, buf <- ur_buf,
        bad <- ur_bad, last <- ur_last, records <- ur_records

(* FixedRingBuf: 4-byte elements; regions with room for none, two and     *)
(* three of them, so start and end wrap at different points.               *)
FR == INSTANCE FixedRingBuf WITH TSize <- 4, Vals <- {v1, v2}, MemSizes <- {32, 40, 44},
        buf <- fr_buf, start <- fr_start, end <- fr_end, used <- fr_used, max <- fr_max,
        last <- fr_last, fault <- fr_fault

(* SystemMgr: four system types and three slots, so a fourth type's id   *)
(* is past kMaxSystemsNum, and a vector can hold three ids and be         *)
(* reallocated; four registry calls, one SvrTick/SvrProc pass.  Hooks do   *)
(* not change the priority they are walked in (SystemMgrSamePrio.cfg lets *)
(* them).                                                                  *)
SM == INSTANCE SystemMgr WITH Types <- {sA, sB, sC, sD}, MaxSystemsNum <- 3, MaxCalls <- 4,
        MaxPasses <- 1, SamePrioReentry <- FALSE,
        base_id <- sm_base_id, tid <- sm_tid, present <- sm_present, buf <- sm_buf,
        size <- sm_size, gen <- sm_gen, phase <- sm_phase, walk <- sm_walk, calls <- sm_calls,
        passes <- sm_passes, fault <- sm_fault, start <- sm_start, visited <- sm_visited,
        touched <- sm_touched

Parts == {"pool", "protected", "hash", "set", "list", "vector", "records", "ring", "registry"}

(* The initial state a container keeps while another one is exercised:   *)
(* its first initial state, with untouched bytes zero, or a fresh start   *)
(* that succeeded.                                                           *)
FPIdle == FP!Init /\ fp_links = [i \in FP!Nodes |-> [prev |-> 0, next |-> 0]]
HPIdle == HP!Init /\ hp_links = [i \in 0 .. 2 |-> [prev |-> 0, next |-> 0]]
FVIdle == FV!Init /\ fv_data = [i \in 0 .. 2 |-> Zero]
FRIdle == FR!Init /\ fr_max = 2
PMIdle == PM!Init /\ pm_stage = "up"

Init ==
  /\ sel \in Parts
  /\ IF sel = "pool" THEN FP!Init ELSE FPIdle
  /\ IF sel = "hash" THEN HP!Init ELSE HPIdle
  /\ MS!Init /\ ML!Init /\ UR!Init
  /\ IF sel = "vector" THEN FV!Init ELSE FVIdle
  /\ IF sel = "ring" THEN FR!Init ELSE FRIdle
  /\ SM!Init
  /\ IF sel = "protected" THEN PM!Init ELSE PMIdle

Next ==
  \/ sel = "pool" /\ FP!Next /\ UNCHANGED <<sel, hpVars, msVars, mlVars, fvVars, urVars, frVars, smVars, pmVars>>
  \/ sel = "hash" /\ HP!Next /\ UNCHANGED hp_region
     /\ UNCHANGED <<sel, fpVars, msVars, mlVars, fvVars, urVars, frVars, smVars, pmVars>>
  \/ sel = "set" /\ MS!Next /\ UNCHANGED <<sel, fpVars, hpVars, mlVars, fvVars, urVars, frVars, smVars, pmVars>>
  \/ sel = "list" /\ ML!Next /\ UNCHANGED <<sel, fpVars, hpVars, msVars, fvVars, urVars, frVars, smVars, pmVars>>
  \/ sel = "vector" /\ FV!Next /\ UNCHANGED <<sel, fpVars, hpVars, msVars, mlVars, urVars, frVars, smVars, pmVars>>
  \/ sel = "records" /\ UR!Next /\ UNCHANGED <<sel, fpVars, hpVars, msVars, mlVars, fvVars, frVars, smVars, pmVars>>
  \/ sel = "ring" /\ FR!Next /\ UNCHANGED <<sel, fpVars, hpVars, msVars, mlVars, fvVars, urVars, smVars, pmVars>>
  \/ sel = "registry" /\ SM!Next /\ UNCHANGED <<sel, fpVars, hpVars, msVars, mlVars, fvVars, urVars, frVars, pmVars>>
  \/ sel = "protected" /\ PM!Next
     /\ UNCHANGED <<sel, fpVars, hpVars, msVars, mlVars, fvVars, urVars, frVars, smVars>>
  \* A ring that divided by zero has ended its process: nothing happens any more.
  \/ sel = "ring" /\ fr_fault /\ UNCHANGED vars

Spec == Init /\ [][Next]_vars

----------------------------------------------------------------------------
(* Properties, as the container modules state them.  A refinement        *)
(* I!Abstract!Spec is restated with UNCHANGED <own variables> as a first  *)
(* disjunct of the abstract next-state relation: a step that leaves the   *)
(* container's variables unchanged leaves its abstract variables          *)
(* unchanged, so the two formulas are equivalent; this one lets TLC skip  *)
(* the abstract next-state relation on the other containers' steps.       *)

(* protected_mem_pool.h: a start over the file of a process that died    *)
(* serving keeps every handle that process held in use, and size() at     *)
(* its value before the start, whatever earlier starts failed.            *)
ReattachKeepsHandles == [][PM!StartKeepsHandles]_pmVars

(* fixed_mem_pool.h: the pool is a set of handles in use (alloc, free,    *)
(* clear and their refusals).                                               *)
PoolRefinement ==
  FP!Abstract!Init /\ [][UNCHANGED fpVars \/ FP!Abstract!Next]_<<FP!ToSet(FP!Active), fp_call, fp_arg, fp_result>>

(* hash_mem_pool.h: the bucket chains hold exactly the pool's allocated   *)
(* nodes.                                                                   *)
ChainsMatchPool == HP!ChainsMatchPool

(* hash_mem_pool.h: insert, get_or_insert, erase and clear act as a key   *)
(* table whose full pool refuses before looking the key up.                 *)
HashRefinement ==
  HP!Abstract!Init /\ [][UNCHANGED hpVars \/ HP!Abstract!Next]_<<[k \in HP!HeldKeys |-> HP!FindRef(k)], hp_last>>

(* base_mem_set.h: every used slot is on exactly one bucket chain or on   *)
(* the free stack.                                                          *)
WellFormed == MS!WellFormed

(* base_mem_set.h: a walk from begin() interleaved with inserts and        *)
(* erase(it++) sees every key that stayed in the set exactly once.         *)
WalkVisitsAll == MS!WalkVisitsAll

(* base_mem_set.h: the set is a key table with stable handles. *)
SetRefinement ==
  MS!Abstract!Init /\ [][UNCHANGED msVars \/ MS!Abstract!Next]_<<[k \in MS!Held(ms_set) |-> MS!FindIndex(ms_set, k)], ms_last>>

(* base_mem_list.h: the chain and the free stack partition the allocated  *)
(* slots, prev links mirror next links, and m_used is the chain's length. *)
ListWellFormed == ML!ListWellFormed

(* base_mem_list.h: the list is a bounded deque with stable handles and   *)
(* first-match find.                                                        *)
ListRefinement ==
  ML!Abstract!Init /\ [][UNCHANGED mlVars \/ ML!Abstract!Next]_<<ml_items, ml_last>>

(* fixed_vector.h: the vector is a bounded sequence under every erase.    *)
VectorRefinement ==
  FV!Abstract!Init /\ [][UNCHANGED fvVars \/ FV!Abstract!Next]_<<FV!Items, fv_last>>

(* unfixed_ring_buf.h: no assert fails and no call reads or writes past   *)
(* the buffer.                                                              *)
NoFault == UR!NoFault

(* unfixed_ring_buf.h and spec 4.8: the buffer is a FIFO of records that  *)
(* refuses, overwrites and pops as the spec says.                           *)
RecordRingRefinement ==
  UR!Abstract!Init /\ [][UNCHANGED urVars \/ UR!Abstract!Next]_<<ur_records, ur_last>>

(* fixed_ring_buf.h and spec 4.8: the ring is a bounded FIFO whose        *)
(* over_write push drops exactly the oldest value.                          *)
OverwriteRingRefinement ==
  FR!Abstract!Init /\ [][UNCHANGED frVars \/ FR!Abstract!Next]_<<FR!Items, fr_max, fr_last>>

(* Spec 4.7: SystemInit, SystemTick, SystemProc and SystemFinish run the  *)
(* hooks from High to Low and, within a priority, in registration order,  *)
(* each once, while hooks add and remove systems of other priorities:     *)
(* when a pass returns, the systems no hook added or removed have had     *)
(* their hook run exactly once, in the order of the index at the start of *)
(* the pass, and no iterator was read through after a push_back freed its *)
(* buffer.                                                                  *)
HooksFollowIndex == SM!HooksFollowIndex

=============================================================================
