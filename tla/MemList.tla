------------------------------- MODULE MemList -------------------------------
(***************************************************************************)
(* The bounded list of src/containers/inner/base_mem_list.h (MemList): a   *)
(* circular doubly linked chain m_link anchored at node 0, m_link[0].next  *)
(* the front and m_link[0].prev the back, over MaxNum value slots; freed   *)
(* slots go on a stack threaded through `next` (m_free_index), and alloc   *)
(* takes that stack first, else bumps m_raw_used.  Values are model values.*)
(* Every call runs to completion, so each is one action; an Iterator is    *)
(* the slot index it holds, and erase(it) is called with one that points  *)
(* into the list.                                                          *)
(***************************************************************************)
EXTENDS Naturals, Sequences, SequencesExt

CONSTANTS MaxNum, Vals, NoVal

Nodes == 0 .. MaxNum
Idx == 1 .. MaxNum

VARIABLES
  link,   \* m_link[0 .. MAX_SIZE]: [prev, next]
  val,    \* the value slots m_value, by 1-based index
  used,   \* m_used
  free,   \* m_free_index
  raw,    \* m_raw_used
  last,   \* the last call: its value and the index it returned or acted on
  items   \* the list read from the front: [h |-> index, v |-> value]

vars == <<link, val, used, free, raw, last, items>>

Ret(op, v, h) == last' = [op |-> op, val |-> v, pos |-> h]

St == [link |-> link, val |-> val, used |-> used, free |-> free, raw |-> raw]

(* The chain from node i along next, cut after MaxNum nodes. *)
RECURSIVE ChainOf(_, _, _)
ChainOf(lk, i, fuel) == IF i = 0 \/ fuel = 0 THEN <<>> ELSE <<i>> \o ChainOf(lk, lk[i].next, fuel - 1)

Chain(st) == ChainOf(st.link, st.link[0].next, MaxNum + 1)

ItemsOf(st) == LET c == Chain(st) IN [n \in 1 .. Len(c) |-> [h |-> c[n], v |-> st.val[c[n]]]]

Apply(st) ==
  /\ link' = st.link /\ val' = st.val /\ used' = st.used /\ free' = st.free /\ raw' = st.raw
  /\ items' = ItemsOf(st)

(* A default-constructed list, or one after clear(). *)
Init ==
  /\ link = [i \in Nodes |-> [prev |-> 0, next |-> 0]] /\ val = [i \in Idx |-> NoVal]
  /\ used = 0 /\ free = 0 /\ raw = 0
  /\ last = [op |-> "none", val |-> NoVal, pos |-> 0] /\ items = <<>>

IsFull(st) == st.used >= MaxNum

(* alloc_index: [st, idx], popping the free stack first. *)
AllocIndex(st) ==
  IF st.free = 0
  THEN [st |-> [st EXCEPT !.raw = st.raw + 1], idx |-> st.raw + 1]
  ELSE [st |-> [st EXCEPT !.free = st.link[st.free].next], idx |-> st.free]

(* push_front: alloc, copy_one, link the slot after node 0. *)
PushFrontImpl(st, v) ==
  LET a == AllocIndex(st)
      e == a.idx
      h == a.st.link[0]
      l1 == [a.st.link EXCEPT ![h.next].prev = e]
      l2 == [l1 EXCEPT ![e] = [prev |-> 0, next |-> h.next]]
  IN  [a.st EXCEPT !.link = [l2 EXCEPT ![0].next = e], !.val[e] = v, !.used = @ + 1]

(* push_back: alloc, copy_one, link the slot before node 0. *)
PushBackImpl(st, v) ==
  LET a == AllocIndex(st)
      e == a.idx
      h == a.st.link[0]
      l1 == [a.st.link EXCEPT ![h.prev].next = e]
      l2 == [l1 EXCEPT ![e] = [prev |-> h.prev, next |-> 0]]
  IN  [a.st EXCEPT !.link = [l2 EXCEPT ![0].prev = e], !.val[e] = v, !.used = @ + 1]

PopFrontNoPrevFix(st) ==
  LET d == st.link[0].next
      l1 == [st.link EXCEPT ![0].next = st.link[d].next]
  IN  [st EXCEPT !.link = [l1 EXCEPT ![d].next = st.free], !.free = d, !.used = @ - 1]

(* pop_front: unlink the front slot and push it on the free stack. *)
PopFrontImpl(st) ==
  LET d == st.link[0].next
      l1 == [st.link EXCEPT ![0].next = st.link[d].next]
      l2 == [l1 EXCEPT ![st.link[d].next].prev = 0]
  IN  [st EXCEPT !.link = [l2 EXCEPT ![d].next = st.free], !.free = d, !.used = @ - 1]

(* pop_back: unlink the back slot and push it on the free stack. *)
PopBackImpl(st) ==
  LET d == st.link[0].prev
      l1 == [st.link EXCEPT ![0].prev = st.link[d].prev]
      l2 == [l1 EXCEPT ![st.link[d].prev].next = 0]
  IN  [st EXCEPT !.link = [l2 EXCEPT ![d].next = st.free], !.free = d, !.used = @ - 1]

(* erase(it): splice slot i out and push it on the free stack. *)
EraseImpl(st, i) ==
  LET dl == st.link[i]
      l1 == [st.link EXCEPT ![dl.prev].next = dl.next]
      l2 == [l1 EXCEPT ![dl.next].prev = dl.prev]
  IN  [st EXCEPT !.link = [l2 EXCEPT ![i].next = st.free], !.free = i, !.used = @ - 1]

(* A find_pos that walks from the back, returning the last match. *)
FindPosFromBack(st, v) ==
  LET c == Chain(st)
      ns == {n \in 1 .. Len(c) : st.val[c[n]] = v}
  IN  IF ns = {} THEN 0 ELSE c[Max(ns)]

(* find_pos: the first slot from the front holding v, or 0. *)
FindPos(st, v) ==
  LET c == Chain(st)
      ns == {n \in 1 .. Len(c) : st.val[c[n]] = v}
  IN  IF ns = {} THEN 0 ELSE c[Min(ns)]

PushFront(v) ==
  \/ IsFull(St) /\ Ret("push_front", v, 0) /\ UNCHANGED <<link, val, used, free, raw, items>>
  \/ ~IsFull(St) /\ Apply(PushFrontImpl(St, v)) /\ Ret("push_front", v, AllocIndex(St).idx)

PushBack(v) ==
  \/ IsFull(St) /\ Ret("push_back", v, 0) /\ UNCHANGED <<link, val, used, free, raw, items>>
  \/ ~IsFull(St) /\ Apply(PushBackImpl(St, v)) /\ Ret("push_back", v, AllocIndex(St).idx)

PopFront ==
  /\ IF used = 0 THEN UNCHANGED <<link, val, used, free, raw, items>> ELSE Apply(PopFrontImpl(St))
  /\ Ret("pop_front", NoVal, 0)

PopBack ==
  /\ IF used = 0 THEN UNCHANGED <<link, val, used, free, raw, items>> ELSE Apply(PopBackImpl(St))
  /\ Ret("pop_back", NoVal, 0)

(* erase(it) with an iterator into the list (its assert: m_used > 0). *)
Erase(i) == used > 0 /\ Apply(EraseImpl(St, i)) /\ Ret("erase", NoVal, i)

(* erase(value): find, then erase(it) unless it is end(). *)
EraseValue(v) ==
  LET i == FindPos(St, v) IN
  /\ IF i = 0 THEN UNCHANGED <<link, val, used, free, raw, items>> ELSE Apply(EraseImpl(St, i))
  /\ Ret("erase_value", v, i)

Find(v) == Ret("find", v, FindPos(St, v)) /\ UNCHANGED <<link, val, used, free, raw, items>>

(* clear(): node 0 reset, the free stack and raw_used dropped; the other  *)
(* links and the slots keep their bytes.                                   *)
Clear ==
  /\ Apply([St EXCEPT !.link[0] = [prev |-> 0, next |-> 0], !.used = 0, !.free = 0, !.raw = 0])
  /\ Ret("clear", NoVal, 0)

Next ==
  \/ \E v \in Vals : PushFront(v) \/ PushBack(v) \/ EraseValue(v) \/ Find(v)
  \/ PopFront \/ PopBack \/ Clear
  \/ \E n \in 1 .. Len(items) : Erase(items[n].h)

Spec == Init /\ [][Next]_vars

----------------------------------------------------------------------------
(* Properties *)

(* The free stack from m_free_index, cut after MaxNum nodes. *)
FreeStack == ChainOf(link, free, MaxNum + 1)

(* The slots ever allocated since the last clear(), 1 .. m_raw_used, are  *)
(* split exactly between the chain and the free stack; the chain closes  *)
(* back on node 0 with every prev the node before it, and m_used is its   *)
(* length.  Otherwise alloc_index hands out a live slot, or its assert    *)
(* m_raw_used < MAX_SIZE fails on a list that is not full.                *)
ListWellFormed ==
  LET c == Chain(St) IN
  /\ Len(c) <= MaxNum /\ Len(FreeStack) <= MaxNum
  /\ IsInjective(c) /\ IsInjective(FreeStack)
  /\ ToSet(c) \cap ToSet(FreeStack) = {}
  /\ ToSet(c) \cup ToSet(FreeStack) = 1 .. raw
  /\ used = Len(c)
  /\ \A n \in 1 .. Len(c) : link[c[n]].prev = IF n = 1 THEN 0 ELSE c[n - 1]
  /\ link[0].prev = IF c = <<>> THEN 0 ELSE c[Len(c)]

Abstract == INSTANCE HandleDeque WITH Capacity <- MaxNum

(* The list read from the front behaves as a bounded deque of spec 4.8:   *)
(* pushes land at the right end under a handle no element holds, pops    *)
(* take the right end, an iterator keeps pointing at its element until    *)
(* that element is erased, and find and erase(value) act on the first    *)
(* match from the front.                                                   *)
ListRefinement == Abstract!Spec

=============================================================================
