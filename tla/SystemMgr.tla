------------------------------ MODULE SystemMgr ------------------------------
(***************************************************************************)
(* The module registry of src/core/system_mgr.h and system_mgr.cpp, with   *)
(* the type ids of generate_type_id.h.  AddSystem<T> and RemoveSystem<T>   *)
(* change systems_ (here `present`, the ids whose slot holds a system) and *)
(* the three std::vector<size_t> of sys_index_vec_, and may be called at   *)
(* set-up or from inside a hook.  A lifecycle pass (SystemInit,            *)
(* SystemTick, SystemProc, SystemFinish) walks the vectors from High to    *)
(* Low with a range-for, one step per element, and each hook may call the  *)
(* registry.                                                               *)
(*                                                                         *)
(* A vector is its heap buffer: `buf[p]` holds the capacity's worth of     *)
(* size_t cells (the cells past `size[p]` keep what was last stored in    *)
(* them), and `gen[p]` counts the reallocations of push_back.  A range-for *)
(* caches begin() and end() when it starts: `walk` keeps the position, the *)
(* cached end and the buffer generation it started on.  Reading through an *)
(* iterator into a freed buffer is undefined behaviour, modelled as the    *)
(* fault that ends the behaviour.                                          *)
(***************************************************************************)
EXTENDS Naturals, Sequences, SequencesExt

CONSTANTS
  Types,           \* the ISystem subclasses T the program names
  MaxSystemsNum,   \* kMaxSystemsNum
  MaxCalls,        \* bound on AddSystem and RemoveSystem calls in a behaviour
  MaxPasses,       \* bound on SvrTick/SvrProc passes before SvrFinish
  SamePrioReentry  \* may a hook change the priority whose vector is being walked?

Prios == 0 .. 2          \* SystemPriority::Low, Mid, High
NoId == MaxSystemsNum + 100
Kinds == {"init", "loop", "finish"}   \* SystemInit; SystemTick or SystemProc; SystemFinish

VARIABLES
  base_id,   \* AutoGenTypeID<SystemMgr>::base_id_
  tid,       \* tid[T]: GetID<T>'s static identity, NoId before its first call
  present,   \* {id : systems_[id] != nullptr}
  buf,       \* buf[p]: the heap buffer of sys_index_vec_[p]
  size,      \* size[p]: sys_index_vec_[p].size()
  gen,       \* gen[p]: reallocations of sys_index_vec_[p]
  phase,     \* "setup", a pass in Kinds, "run", "failed", "done"
  walk,      \* the range-for of the current pass: [prio, pos, end, gen]
  calls,     \* AddSystem and RemoveSystem calls so far
  passes,    \* SvrTick/SvrProc passes so far
  fault,     \* an iterator was dereferenced into a freed buffer
  start,     \* history: the priority index as it stood when the pass began
  visited,   \* history: the ids whose hook ran in this pass, in order
  touched    \* history: the ids added or removed during this pass

vars == <<base_id, tid, present, buf, size, gen, phase, walk, calls, passes, fault,
          start, visited, touched>>

(* The live prefix of a vector. *)
Live(p) == SubSeq(buf[p], 1, size[p])

(* The index walk order of a pass: High, then Mid, then Low. *)
IndexOrder == Live(2) \o Live(1) \o Live(0)

Init ==
  /\ base_id = 0 /\ tid = [t \in Types |-> NoId] /\ present = {}
  /\ buf = [p \in Prios |-> <<>>] /\ size = [p \in Prios |-> 0] /\ gen = [p \in Prios |-> 0]
  /\ phase = "setup" /\ walk = [prio |-> 2, pos |-> 0, end |-> 0, gen |-> 0]
  /\ calls = 0 /\ passes = 0 /\ fault = FALSE
  /\ start = <<>> /\ visited = <<>> /\ touched = {}

----------------------------------------------------------------------------
(* The registry's operations as operators on the values of its state, so *)
(* that set-up code and a hook can both call them.                         *)

(* GetID<T>: the function-local static is initialised by the first call, *)
(* with base_id_.fetch_add(1).                                              *)
IdOf(t) == IF tid[t] = NoId THEN base_id ELSE tid[t]
GetID(t) ==
  /\ tid' = [tid EXCEPT ![t] = IdOf(t)]
  /\ base_id' = IF tid[t] = NoId THEN base_id + 1 ELSE base_id

(* vector::push_back: into the buffer while it has room, else into a new *)
(* buffer of twice the capacity (at least 1) that the elements are copied *)
(* to, the old one being freed.                                            *)
PushBack(p, id) ==
  IF size[p] < Len(buf[p])
  THEN /\ buf' = [buf EXCEPT ![p] = [@ EXCEPT ![size[p] + 1] = id]]
       /\ UNCHANGED gen
  ELSE /\ buf' = [buf EXCEPT ![p] = Append(Live(p), id)
                        \o [i \in 1 .. (IF Len(@) = 0 THEN 0 ELSE Len(@) - 1) |-> NoId]]
       /\ gen' = [gen EXCEPT ![p] = @ + 1]

(* std::erase(vec, id): std::remove moves the other elements down over   *)
(* the removed ones, the cells past the new end keep their old values,    *)
(* and the size shrinks; the buffer stays.                                 *)
Kept(p, id) == SelectSeq(Live(p), LAMBDA x : x # id)
EraseAll(id) ==
  /\ buf' = [p \in Prios |-> Kept(p, id) \o SubSeq(buf[p], Len(Kept(p, id)) + 1, Len(buf[p]))]
  /\ size' = [p \in Prios |-> Len(Kept(p, id))]

(* AddSystem<T>(sys, priority) with a non-null sys (a null sys returns   *)
(* false before GetID and changes nothing).  It returns false for an id  *)
(* past kMaxSystemsNum and for a slot already taken.                       *)
AddSystem(t, p) ==
  /\ GetID(t)
  /\ IF IdOf(t) < MaxSystemsNum /\ IdOf(t) \notin present
     THEN /\ present' = present \cup {IdOf(t)}
          /\ PushBack(p, IdOf(t))
          /\ size' = [size EXCEPT ![p] = @ + 1]
     ELSE UNCHANGED <<present, buf, size, gen>>

(* RemoveSystem<T>(): it returns false for an id past kMaxSystemsNum and *)
(* for an empty slot; otherwise it resets the slot and erases the id from *)
(* every priority's vector.                                                *)
RemoveSystem(t) ==
  /\ GetID(t)
  /\ IF IdOf(t) < MaxSystemsNum /\ IdOf(t) \in present
     THEN /\ present' = present \ {IdOf(t)}
          /\ EraseAll(IdOf(t))
     ELSE UNCHANGED <<present, buf, size>>
  /\ UNCHANGED gen

(* The priorities a call may change: those a hook of priority p may use.  *)
Changeable(p) == IF SamePrioReentry THEN Prios ELSE Prios \ {p}

----------------------------------------------------------------------------
(* Set-up code registers and removes systems before SvrInit, and so may   *)
(* ServerCore's own OnTick, OnProc and OnFinish, which SvrTick, SvrProc   *)
(* and SvrFinish call before the pass over the systems starts.            *)
OwnerPhases == {"setup", "run"}

SetupAdd(t, p) ==
  /\ phase \in OwnerPhases /\ calls < MaxCalls
  /\ AddSystem(t, p) /\ calls' = calls + 1
  /\ UNCHANGED <<phase, walk, passes, fault, start, visited, touched>>

SetupRemove(t) ==
  /\ phase \in OwnerPhases /\ calls < MaxCalls
  /\ RemoveSystem(t) /\ calls' = calls + 1
  /\ UNCHANGED <<phase, walk, passes, fault, start, visited, touched>>

(* A pass starts: SvrInit calls SystemInit after its own initialisation,  *)
(* the loop calls SystemTick from SvrTick and SystemProc from SvrProc, and *)
(* SvrFinish calls SystemFinish.  The range-for over the High vector       *)
(* caches its begin and end.                                                *)
BeginPass(k) ==
  /\ \/ phase = "setup" /\ k = "init"
     \/ phase = "run" /\ k = "loop" /\ passes < MaxPasses
     \/ phase = "run" /\ k = "finish"
  /\ phase' = k
  /\ walk' = [prio |-> 2, pos |-> 0, end |-> size[2], gen |-> gen[2]]
  /\ start' = IndexOrder /\ visited' = <<>> /\ touched' = {}
  /\ passes' = IF k = "loop" THEN passes + 1 ELSE passes
  /\ UNCHANGED <<base_id, tid, present, buf, size, gen, calls, fault>>

NextVectorKeepEnd ==
  /\ phase \in Kinds /\ walk.pos = walk.end
  /\ IF walk.prio > 0
     THEN /\ walk' = [prio |-> walk.prio - 1, pos |-> 0, end |-> walk.end, gen |-> gen[walk.prio - 1]]
          /\ UNCHANGED phase
     ELSE /\ phase' = IF phase = "finish" THEN "done" ELSE "run"
          /\ UNCHANGED walk
  /\ UNCHANGED <<base_id, tid, present, buf, size, gen, calls, passes, fault, start, visited, touched>>

(* The range-for over one vector reached its cached end: the reverse walk *)
(* moves to the next lower priority, or the pass returns (SystemInit      *)
(* returns true).                                                          *)
NextVector ==
  /\ phase \in Kinds /\ walk.pos = walk.end
  /\ IF walk.prio > 0
     THEN /\ walk' = [prio |-> walk.prio - 1, pos |-> 0, end |-> size[walk.prio - 1],
                      gen |-> gen[walk.prio - 1]]
          /\ UNCHANGED phase
     ELSE /\ phase' = IF phase = "finish" THEN "done" ELSE "run"
          /\ UNCHANGED walk
  /\ UNCHANGED <<base_id, tid, present, buf, size, gen, calls, passes, fault, start, visited, touched>>

(* The element the iterator points at, and whether its hook may run: the *)
(* buffer is still allocated and systems_[index] is set.                    *)
Index == buf[walk.prio][walk.pos + 1]
AtHook == phase \in Kinds /\ walk.pos # walk.end /\ walk.gen = gen[walk.prio] /\ Index \in present
Advance == walk' = [walk EXCEPT !.pos = @ + 1]

(* One iteration of `for (auto index : *r_beg) if (systems_[index])`     *)
(* whose hook returns without touching the registry (OnInit returning     *)
(* true).  Dereferencing an iterator into a buffer push_back freed is the *)
(* fault; an empty slot is passed over.                                    *)
Iterate ==
  /\ phase \in Kinds /\ walk.pos # walk.end
  /\ IF walk.gen # gen[walk.prio]
     THEN /\ fault' = TRUE /\ UNCHANGED <<walk, visited>>
     ELSE /\ Advance /\ UNCHANGED fault
          /\ visited' = IF Index \in present THEN Append(visited, Index) ELSE visited
  /\ UNCHANGED <<base_id, tid, present, buf, size, gen, phase, calls, passes, start, touched>>

(* The hook calls AddSystem<T> or RemoveSystem<T> and returns. *)
HookAdd(t, q) ==
  /\ AtHook /\ calls < MaxCalls
  /\ q \in Changeable(walk.prio)
  /\ AddSystem(t, q) /\ calls' = calls + 1
  /\ visited' = Append(visited, Index) /\ touched' = touched \cup {IdOf(t)} /\ Advance
  /\ UNCHANGED <<phase, passes, fault, start>>

HookRemove(t) ==
  /\ AtHook /\ calls < MaxCalls
  /\ SamePrioReentry \/ IdOf(t) \notin ToSet(Live(walk.prio))
  /\ RemoveSystem(t) /\ calls' = calls + 1
  /\ visited' = Append(visited, Index) /\ touched' = touched \cup {IdOf(t)} /\ Advance
  /\ UNCHANGED <<phase, passes, fault, start>>

(* OnInit returns false: SystemInit returns false at once, and so does    *)
(* SvrInit.                                                                 *)
InitFails ==
  /\ AtHook /\ phase = "init"
  /\ visited' = Append(visited, Index) /\ phase' = "failed"
  /\ UNCHANGED <<base_id, tid, present, buf, size, gen, walk, calls, passes, fault, start,
                 touched>>

(* SvrInit failed, SvrFinish returned, or the process faulted. *)
Stopped ==
  /\ phase \in {"failed", "done"} \/ fault
  /\ UNCHANGED vars

Next ==
  \/ \E t \in Types, p \in Prios : SetupAdd(t, p)
  \/ \E t \in Types : SetupRemove(t)
  \/ \E k \in Kinds : BeginPass(k)
  \/ NextVector
  \/ Iterate
  \/ \E t \in Types, q \in Prios : HookAdd(t, q)
  \/ \E t \in Types : HookRemove(t)
  \/ InitFails
  \/ Stopped

Spec == Init /\ [][Next]_vars

----------------------------------------------------------------------------
(* Properties *)

(* The pass is at the cached end of the Low vector: it is about to return. *)
PassEnds == phase \in Kinds /\ walk.prio = 0 /\ walk.pos = walk.end

Untouched(s) == SelectSeq(s, LAMBDA id : id \notin touched)

(* Spec 4.7: a lifecycle pass runs the hooks from High to Low and, within *)
(* a priority, in registration order, each once, even when hooks add and  *)
(* remove systems: when SystemInit, SystemTick, SystemProc or             *)
(* SystemFinish returns, the systems no hook added or removed have had    *)
(* their hook run exactly once each, in the order of the index at the     *)
(* start of the pass, and no iterator was dereferenced into a buffer a    *)
(* push_back freed.                                                        *)
HooksFollowIndex ==
  /\ ~fault
  /\ PassEnds => Untouched(visited) = Untouched(start)

=============================================================================
