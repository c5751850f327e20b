---------------------------- MODULE OverwriteFifo ----------------------------
(***************************************************************************)
(* What a fixed-capacity ring promises (spec 4.8): a FIFO of at most cap   *)
(* values.  push appends unless the ring is full; with over_write a full   *)
(* ring first drops its oldest value.  pop drops the oldest value, if any. *)
(* front(i) is the i-th value from the oldest, back(i) the i-th from the   *)
(* newest.  `last` is the last call: its value argument or result and     *)
(* whether it succeeded.                                                   *)
(***************************************************************************)
EXTENDS Naturals, Sequences

CONSTANTS Vals, NoVal

VARIABLES items, cap, last

Ret(op, v, ok) == last' = [op |-> op, val |-> v, ok |-> ok]

Init == items = <<>> /\ cap \in Nat /\ last = [op |-> "none", val |-> NoVal, ok |-> FALSE]

Push(v, ow) ==
  \/ Len(items) < cap /\ items' = Append(items, v) /\ Ret("push", v, TRUE)
  \/ Len(items) = cap /\ ~ow /\ Ret("push", v, FALSE) /\ UNCHANGED items
  \/ Len(items) = cap /\ ow /\ cap > 0 /\ items' = Append(Tail(items), v) /\ Ret("push", v, TRUE)

Pop == items' = (IF items = <<>> THEN items ELSE Tail(items)) /\ Ret("pop", NoVal, TRUE)

Front(i) == i < Len(items) /\ Ret("front", items[i + 1], TRUE) /\ UNCHANGED items

Back(i) == i < Len(items) /\ Ret("back", items[Len(items) - i], TRUE) /\ UNCHANGED items

Clear == items' = <<>> /\ Ret("clear", NoVal, TRUE)

Next ==
  /\ UNCHANGED cap
  /\ \/ \E v \in Vals, ow \in BOOLEAN : Push(v, ow)
     \/ Pop \/ Clear
     \/ \E i \in 0 .. cap : Front(i) \/ Back(i)

Spec == Init /\ [][Next]_<<items, cap, last>>

=============================================================================
