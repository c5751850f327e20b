----------------------------- MODULE FifoQueue -----------------------------
(***************************************************************************)
(* What a bounded FIFO queue promises: values are enqueued at the back     *)
(* while fewer than Capacity are held, and dequeued from the front.        *)
(* `delivered` is the sequence of values dequeued so far.                  *)
(***************************************************************************)
EXTENDS Naturals, Sequences

CONSTANTS Values, Capacity

VARIABLES queue, delivered

Init == queue = <<>> /\ delivered = <<>>

Enqueue(v) ==
  /\ Len(queue) < Capacity
  /\ queue' = Append(queue, v)
  /\ UNCHANGED delivered

Dequeue ==
  /\ queue # <<>>
  /\ delivered' = Append(delivered, Head(queue))
  /\ queue' = Tail(queue)

Next == (\E v \in Values : Enqueue(v)) \/ Dequeue

Spec == Init /\ [][Next]_<<queue, delivered>>

=============================================================================
