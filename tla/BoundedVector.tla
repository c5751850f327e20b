---------------------------- MODULE BoundedVector ----------------------------
(***************************************************************************)
(* What a fixed-capacity vector promises: a sequence of at most Max       *)
(* values.  push_back and Add append (Add a zeroed value) unless full,    *)
(* erase removes one position or a range [first, last), clear empties,    *)
(* resize truncates or grows by values it does not specify.  `last` is   *)
(* the last call: its value argument or result and whether it succeeded. *)
(***************************************************************************)
EXTENDS Naturals, Sequences

CONSTANTS Max, InitSize, Vals, Zero, NoVal

VARIABLES items, last

Bytes == Vals \cup {Zero}

Ret(op, v, ok) == last' = [op |-> op, val |-> v, ok |-> ok]

Init == items \in [1 .. InitSize -> Bytes] /\ last = [op |-> "none", val |-> NoVal, ok |-> FALSE]

Add == IF Len(items) < Max THEN items' = Append(items, Zero) /\ Ret("add", Zero, TRUE)
       ELSE UNCHANGED items /\ Ret("add", NoVal, FALSE)

PushBack(v) == IF Len(items) < Max THEN items' = Append(items, v) /\ Ret("push", v, TRUE)
               ELSE UNCHANGED items /\ Ret("push", v, FALSE)

Resize(s) ==
  /\ s <= Max
  /\ IF s <= Len(items) THEN items' = SubSeq(items, 1, s)
     ELSE \E ext \in [1 .. s - Len(items) -> Bytes] : items' = items \o ext
  /\ Ret("resize", NoVal, TRUE)

Erase(p) == p < Len(items) /\ items' = SubSeq(items, 1, p) \o SubSeq(items, p + 2, Len(items))
            /\ Ret("erase", NoVal, TRUE)

EraseRange(f, l) == f <= l /\ l <= Len(items)
                    /\ items' = SubSeq(items, 1, f) \o SubSeq(items, l + 1, Len(items))
                    /\ Ret("erase", NoVal, TRUE)

Clear == items' = <<>> /\ Ret("clear", NoVal, TRUE)

Get(i) == i < Len(items) /\ Ret("get", items[i + 1], TRUE) /\ UNCHANGED items

Next ==
  \/ Add \/ Clear
  \/ \E v \in Vals : PushBack(v)
  \/ \E s \in 0 .. Max : Resize(s)
  \/ \E p \in 0 .. Max : Erase(p) \/ Get(p)
  \/ \E f \in 0 .. Max : \E l \in f .. Max : EraseRange(f, l)

Spec == Init /\ [][Next]_<<items, last>>

=============================================================================
