---------------------------- MODULE FixedMemPool ----------------------------
(***************************************************************************)
(* The fixed-size pool of src/containers/fixed_mem_pool.h over its region: *)
(* the header counters (used_num, raw_used_num, reclaim_list) and the link *)
(* array: node 0 anchors the circular doubly linked list of allocated      *)
(* slots, freed slots form a stack through `next` with prev = max_num + 1, *)
(* and slots above raw_used_num were never handed out.  Payloads are not   *)
(* modelled; a pointer is its byte offset from value_offset, so that       *)
(* ptr_2_int's bounds and alignment checks are kept.                       *)
(*                                                                         *)
(* init_header only clears node 0: the links of the other nodes hold what  *)
(* the region held before (a fresh mapping, or a previous process's use),  *)
(* so their initial prev is any value.  Their next is always written by    *)
(* alloc or free before the code reads it.                                 *)
(***************************************************************************)
EXTENDS Integers, Sequences, FiniteSets, SequencesExt

CONSTANTS
  MaxNum,   \* max_node_num
  TSize     \* t_size: the aligned node size in bytes

ASSUME MaxNum \in Nat \ {0} /\ TSize \in Nat \ {0, 1}

Nodes == 0 .. MaxNum
Freed == MaxNum + 1           \* the prev mark of a freed node
LinkVals == 0 .. MaxNum + 1

(* Pointers a caller may pass to free: one byte before the slots, every   *)
(* byte offset within them, and one slot past the end.                    *)
Ptrs == -1 .. MaxNum * TSize

(* int_2_ptr / get_value: the address of handle h. *)
HandlePtr(h) == (h - 1) * TSize

PtrToIntUnaligned(off) == IF off < 0 THEN 0 ELSE off \div TSize + 1

(* ptr_2_int: 0 for a pointer before the slots or not on a slot boundary. *)
PtrToInt(off) ==
  IF off < 0 THEN 0
  ELSE IF off % TSize # 0 THEN 0
  ELSE off \div TSize + 1

VARIABLES
  links,     \* LinkNode array: [prev, next] per node
  used,      \* used_num
  raw,       \* raw_used_num
  reclaim,   \* reclaim_list
  call, arg, result   \* the last operation, its pointer, what it returned

vars == <<links, used, raw, reclaim, call, arg, result>>

TypeOK ==
  /\ links \in [Nodes -> [prev : LinkVals, next : LinkVals]]
  /\ used \in 0 .. MaxNum /\ raw \in 0 .. MaxNum /\ reclaim \in Nodes
  /\ call \in {"none", "alloc", "free", "clear"}
  /\ arg \in Ptrs \cup {0}
  /\ result \in (IF call = "free" THEN BOOLEAN ELSE Nodes)

(* init(mem, ..., check = false): init_header on a region whose link      *)
(* array holds arbitrary bytes.                                            *)
Init ==
  /\ \E junk \in [1 .. MaxNum -> LinkVals] :
       links = [i \in Nodes |->
                  IF i = 0 THEN [prev |-> 0, next |-> 0]
                  ELSE [prev |-> junk[i], next |-> 0]]
  /\ used = 0 /\ raw = 0 /\ reclaim = 0
  /\ call = "none" /\ arg = 0 /\ result = 0

(* full() *)
IsFull == used >= MaxNum

(* alloc: pop the reclaim stack, or else take node raw_used_num + 1; link  *)
(* the node in front of the active list.                                   *)
Linked(lk, idx) ==
  LET first == lk[0].next
      l1 == [lk EXCEPT ![idx] = [prev |-> 0, next |-> first]]
      l2 == [l1 EXCEPT ![first].prev = idx]
  IN  [l2 EXCEPT ![0].next = idx]

Alloc ==
  /\ call' = "alloc"
  /\ IF IsFull
     THEN result' = 0 /\ UNCHANGED <<links, used, raw, reclaim>>
     ELSE LET idx == IF reclaim # 0 THEN reclaim ELSE raw + 1 IN
          /\ links' = Linked(links, idx)
          /\ reclaim' = IF reclaim # 0 THEN links[reclaim].next ELSE reclaim
          /\ raw' = IF reclaim # 0 THEN raw ELSE raw + 1
          /\ used' = used + 1 /\ result' = idx
  /\ UNCHANGED arg

(* The early returns of free, in the code's order. *)
FreeRejects(idx) ==
  \/ used = 0
  \/ idx = 0 \/ idx > MaxNum
  \/ idx > raw
  \/ links[idx].prev > MaxNum

(* free: unlink the node and push it on the reclaim stack. *)
Free(off) ==
  LET idx == PtrToInt(off) IN
  /\ call' = "free" /\ arg' = off
  /\ IF FreeRejects(idx)
     THEN result' = FALSE /\ UNCHANGED <<links, used, raw, reclaim>>
     ELSE LET p == links[idx].prev
              n == links[idx].next
              l1 == [[links EXCEPT ![p].next = n] EXCEPT ![n].prev = p]
          IN  /\ links' = [l1 EXCEPT ![idx] = [prev |-> Freed, next |-> reclaim]]
              /\ reclaim' = idx
              /\ used' = used - 1
              /\ result' = TRUE
              /\ UNCHANGED raw

(* clear: init_header again; the links of nodes 1..max_num keep their     *)
(* bytes.                                                                  *)
Clear ==
  /\ call' = "clear"
  /\ links' = [links EXCEPT ![0] = [prev |-> 0, next |-> 0]]
  /\ used' = 0 /\ raw' = 0 /\ reclaim' = 0
  /\ result' = 0
  /\ UNCHANGED arg

Next == Alloc \/ (\E off \in Ptrs : Free(off)) \/ Clear

Spec == Init /\ [][Next]_vars

----------------------------------------------------------------------------
(* Properties *)

(* The nodes reached from `from` by following next until node 0, at most  *)
(* k of them (a longer chain is cut).                                      *)
RECURSIVE Chain(_, _, _)
Chain(lk, from, k) ==
  IF from = 0 \/ k = 0 THEN <<>>
  ELSE <<from>> \o Chain(lk, lk[from].next, k - 1)

Active == Chain(links, links[0].next, MaxNum + 1)

Abstract == INSTANCE HandlePool WITH Capacity <- MaxNum,
                                     HandlePtr <- HandlePtr,
                                     inuse <- ToSet(Active)

(* The pool behaves as a set of handles in use (spec 4.8): alloc returns  *)
(* a free handle or null when full, and free returns true exactly for the *)
(* address of a handle in use: a double free, a never-allocated slot, a   *)
(* misaligned or out-of-region pointer return false and change nothing.   *)
PoolRefinement == Abstract!Spec

=============================================================================
