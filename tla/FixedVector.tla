----------------------------- MODULE FixedVector -----------------------------
(***************************************************************************)
(* FixedVector<T, MAX_SIZE, INIT_SIZE> of src/containers/fixed_vector.h:  *)
(* an inline array data_[MAX_SIZE] and a uint32_t curr_size_.  Each call  *)
(* runs to completion and is one action.  data_ is never initialised, so  *)
(* its slots start as any bytes; a slot is a value of Vals or Zero (what  *)
(* memset writes).  Iterators are positions: erase takes positions into   *)
(* [begin, end), as its callers pass them.                                *)
(***************************************************************************)
EXTENDS Naturals, Sequences

CONSTANTS Max, InitSize, Vals, Zero, NoVal

VARIABLES
  data,   \* data_[0 .. MAX_SIZE - 1]
  size,   \* curr_size_
  last    \* the last call: its value argument or result, and its result

vars == <<data, size, last>>

Bytes == Vals \cup {Zero}

Ret(op, v, ok) == last' = [op |-> op, val |-> v, ok |-> ok]

(* curr_size_ = INIT_SIZE; data_ holds whatever the memory held. *)
Init ==
  /\ data \in [0 .. Max - 1 -> Bytes] /\ size = InitSize
  /\ last = [op |-> "none", val |-> NoVal, ok |-> FALSE]

(* std::copy(src, src + n, dst) on data_, dst <= src: forward. *)
CopyDown(d, src, dst, n) == [i \in DOMAIN d |-> IF dst <= i /\ i < dst + n THEN d[src + i - dst] ELSE d[i]]

(* Add(): zero the slot at curr_size_ and hand it out, unless full. *)
Add ==
  \/ size + 1 <= Max /\ data' = [data EXCEPT ![size] = Zero] /\ size' = size + 1 /\ Ret("add", Zero, TRUE)
  \/ ~(size + 1 <= Max) /\ UNCHANGED <<data, size>> /\ Ret("add", NoVal, FALSE)

PushBack(v) ==
  \/ size + 1 <= Max /\ data' = [data EXCEPT ![size] = v] /\ size' = size + 1 /\ Ret("push", v, TRUE)
  \/ ~(size + 1 <= Max) /\ UNCHANGED <<data, size>> /\ Ret("push", v, FALSE)

(* resize(s): assert(s <= MAX_SIZE), then only curr_size_ moves. *)
Resize(s) == s <= Max /\ size' = s /\ UNCHANGED data /\ Ret("resize", NoVal, TRUE)

EraseCopyShort(p) ==
  /\ p < size
  /\ data' = IF p + 1 # size THEN CopyDown(data, p + 1, p, size - p - 2) ELSE data
  /\ size' = size - 1 /\ Ret("erase", NoVal, TRUE)

(* erase(position) -> inner_erase(position): shift the tail down by one *)
(* unless position is the last element, then --curr_size_.             *)
Erase(p) ==
  /\ p < size
  /\ data' = IF p + 1 # size THEN CopyDown(data, p + 1, p, size - p - 1) ELSE data
  /\ size' = size - 1 /\ Ret("erase", NoVal, TRUE)

(* erase_at_end(pos): zero [pos, curr_size_) and cut curr_size_ to pos. *)
EraseAtEnd(d, pos) == [i \in DOMAIN d |-> IF pos <= i /\ i < size THEN Zero ELSE d[i]]

EraseRangeKeepLast(f, l) ==
  /\ f <= l /\ l <= size
  /\ IF f # l
     THEN LET moved == IF l # size THEN CopyDown(data, l, f, size - l) ELSE data
          IN  data' = EraseAtEnd(moved, l) /\ size' = l
     ELSE UNCHANGED <<data, size>>
  /\ Ret("erase", NoVal, TRUE)

(* erase(first, last) -> inner_erase(first, last): unless the range is   *)
(* empty, copy [last, end) down to first, then erase_at_end at           *)
(* first + (end - last).                                                   *)
EraseRange(f, l) ==
  /\ f <= l /\ l <= size
  /\ IF f # l
     THEN LET moved == IF l # size THEN CopyDown(data, l, f, size - l) ELSE data
              pos   == f + (size - l)
          IN  data' = EraseAtEnd(moved, pos) /\ size' = pos
     ELSE UNCHANGED <<data, size>>
  /\ Ret("erase", NoVal, TRUE)

Clear == size' = 0 /\ UNCHANGED data /\ Ret("clear", NoVal, TRUE)

(* operator[](index), with index < curr_size_ as its assert requires. *)
Get(i) == i < size /\ Ret("get", data[i], TRUE) /\ UNCHANGED <<data, size>>

Next ==
  \/ Add \/ Clear
  \/ \E v \in Vals : PushBack(v)
  \/ \E s \in 0 .. Max : Resize(s)
  \/ \E p \in 0 .. Max : Erase(p) \/ Get(p)
  \/ \E f \in 0 .. Max : \E l \in f .. Max : EraseRange(f, l)

Spec == Init /\ [][Next]_vars

----------------------------------------------------------------------------
(* Properties *)

(* The vector's elements: data_[0 .. curr_size_ - 1]. *)
Items == [n \in 1 .. size |-> data[n - 1]]

Abstract == INSTANCE BoundedVector WITH items <- Items

(* The tests of fixed_vector.h: the vector behaves as a sequence of at    *)
(* most MAX_SIZE values under any mix of push_back, Add, resize, clear,   *)
(* erase of a position and erase of a range, whose shifts keep the order *)
(* of what stays.                                                          *)
VectorRefinement == Abstract!Spec

=============================================================================
