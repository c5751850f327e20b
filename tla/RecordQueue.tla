---------------------------- MODULE RecordQueue ----------------------------
(***************************************************************************)
(* What the variable-size ring buffer promises (spec 4.8): records come    *)
(* out in the order they went in.  A record of len bytes takes len + Hdr   *)
(* bytes; one that can never fit (more than Capacity) is refused.  A push  *)
(* without overwrite may be refused for lack of room, but never into an   *)
(* empty buffer; a push with overwrite drops the oldest records, handing   *)
(* them to the callback, until the new one fits, and always succeeds.      *)
(* `last` records the last call: its arguments, its result and the records *)
(* it handed to the pop callback, oldest first.                            *)
(***************************************************************************)
EXTENDS Naturals, Sequences

CONSTANTS Values, Lens, Capacity, Hdr, NoItem

VARIABLES queue, last

Call(op, v, len, ow, ok, popped) ==
  [op |-> op, v |-> v, len |-> len, ow |-> ow, ok |-> ok, popped |-> popped]

Init == queue = <<>> /\ last = Call("none", NoItem, 0, FALSE, TRUE, <<>>)

Fits(len) == len + Hdr <= Capacity

Push(v, len, ow) ==
  \/ /\ ~Fits(len) \/ (~ow /\ queue # <<>>)
     /\ last' = Call("push", v, len, ow, FALSE, <<>>)
     /\ UNCHANGED queue
  \/ /\ Fits(len)
     /\ \E k \in 0 .. Len(queue) :
          /\ k > 0 => ow
          /\ queue' = Append(SubSeq(queue, k + 1, Len(queue)), v)
          /\ last' = Call("push", v, len, ow, TRUE, SubSeq(queue, 1, k))

Pop ==
  /\ queue' = IF queue = <<>> THEN queue ELSE Tail(queue)
  /\ last' = Call("pop", NoItem, 0, FALSE, TRUE,
                  IF queue = <<>> THEN <<>> ELSE <<Head(queue)>>)

Clear ==
  /\ queue' = <<>>
  /\ last' = Call("clear", NoItem, 0, FALSE, TRUE, <<>>)

Next ==
  \/ \E v \in Values, len \in Lens, ow \in BOOLEAN : Push(v, len, ow)
  \/ Pop
  \/ Clear

Spec == Init /\ [][Next]_<<queue, last>>

=============================================================================
