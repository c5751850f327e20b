---------------------------- MODULE HandleDeque ----------------------------
(***************************************************************************)
(* What a bounded list promises (spec 4.8): a sequence of values, each     *)
(* under a handle (a 1-based slot index, what an Iterator holds) that      *)
(* stays the same while the element is in the list.  push_front and        *)
(* push_back add at an end unless the list is full; pop_front and pop_back *)
(* remove at an end and do nothing on an empty list; erase(it) removes the *)
(* element of the handle; find and erase(value) act on the first element   *)
(* from the front that holds the value.  `last` is the last call: its      *)
(* value and the handle it returned or acted on (0 for end()).             *)
(***************************************************************************)
EXTENDS Naturals, Sequences, SequencesExt

CONSTANTS Capacity, Vals, NoVal

VARIABLES items, last

Handles == {items[n].h : n \in 1 .. Len(items)}

Ret(op, v, h) == last' = [op |-> op, val |-> v, pos |-> h]

Init == items = <<>> /\ last = [op |-> "none", val |-> NoVal, pos |-> 0]

(* The handle of the first element holding v, or 0. *)
FirstOf(v) ==
  LET ns == {n \in 1 .. Len(items) : items[n].v = v}
  IN  IF ns = {} THEN 0 ELSE items[Min(ns)].h

Push(op, v) ==
  \/ Len(items) = Capacity /\ Ret(op, v, 0) /\ UNCHANGED items
  \/ /\ Len(items) < Capacity
     /\ \E h \in (1 .. Capacity) \ Handles :
          /\ items' = IF op = "push_front" THEN <<[h |-> h, v |-> v]>> \o items
                                          ELSE Append(items, [h |-> h, v |-> v])
          /\ Ret(op, v, h)

PopFront == items' = (IF items = <<>> THEN items ELSE Tail(items)) /\ Ret("pop_front", NoVal, 0)

PopBack == items' = SubSeq(items, 1, Len(items) - 1) /\ Ret("pop_back", NoVal, 0)

EraseAt(h) == items' = SelectSeq(items, LAMBDA e : e.h # h) /\ Ret("erase", NoVal, h)

EraseValue(v) ==
  /\ items' = SelectSeq(items, LAMBDA e : e.h # FirstOf(v))
  /\ Ret("erase_value", v, FirstOf(v))

Find(v) == Ret("find", v, FirstOf(v)) /\ UNCHANGED items

Clear == items' = <<>> /\ Ret("clear", NoVal, 0)

Next ==
  \/ \E v \in Vals : Push("push_front", v) \/ Push("push_back", v) \/ EraseValue(v) \/ Find(v)
  \/ PopFront \/ PopBack \/ Clear
  \/ \E h \in Handles : EraseAt(h)

Spec == Init /\ [][Next]_<<items, last>>

=============================================================================
