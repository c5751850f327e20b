--------------------------- MODULE FreeLockQueue ---------------------------
(***************************************************************************)
(* The multi-producer, single-consumer queue of                            *)
(* src/containers/queue_lock_free.h.  Every atomic access of Push and Pop  *)
(* is a step of its own, so that the other threads interleave between     *)
(* them: a producer loads the tail, IsFull loads the tail and the head     *)
(* again, the CAS reserves the slot, the payload is written and the slot's *)
(* flag published; the consumer checks IsEmpty, loads the slot's flag,     *)
(* copies the payload, clears the flag and stores the new head.            *)
(* Accesses are sequentially consistent: the code's release stores and     *)
(* acquire loads order every payload access the model relies on.           *)
(*                                                                         *)
(* Each producer pushes its values <<p, 1>>, <<p, 2>>, ... once each, in   *)
(* order, moving on whatever Push returns (as the concurrent unit test     *)
(* does).  The consumer calls Pop forever.                                 *)
(***************************************************************************)
EXTENDS Naturals, Sequences, SequencesExt

CONSTANTS
  Producers,   \* producer threads
  PushesPer,   \* values each producer pushes
  QueueSize,   \* QUEUE_SIZE: slots in the array (capacity QUEUE_SIZE - 1)
  MaxTry,      \* MAX_TRY_TIMES (100 in the code)
  NoData       \* DATA_TYPE{}: the content of a slot never written

ASSUME QueueSize \in Nat \ {0, 1} /\ MaxTry \in Nat \ {0}

Slots == 0 .. QueueSize - 1
Values == Producers \X (1 .. PushesPer)

(* struct Index: version and index, compared as a whole by the CAS. *)
Index == [version : Nat, index : Slots]

AdvancedNoWrap(ix) == [version |-> ix.version + 1, index |-> ix.index + 1]

(* Index of the next slot, with the version bumped (Push and Pop). *)
Advanced(ix) == [version |-> ix.version + 1, index |-> (ix.index + 1) % QueueSize]

FullNoWrap(t, h) == t.index + 1 = h.index

(* IsFull on the two values it loaded. *)
Full(t, h) == (t.index + 1) % QueueSize = h.index

(* IsEmpty on the two values it loaded. *)
Empty(t, h) == t.index = h.index

VARIABLES
  tail, head,  \* tail_index_, head_index_
  data, flag,  \* data_, data_flag_
  ppc,         \* where each producer is in Push
  next,        \* the number of the value each producer pushes now
  tries,       \* try_times of the Push in progress
  old,         \* old_tail of the Push in progress
  seen,        \* the tail IsFull loaded
  ret,         \* what each producer's last Push returned
  cpc, got,    \* where the consumer is in Pop, and the value it copied
  popped,      \* history: values Pop returned, in order
  pushedOK,    \* history: values whose Push returned 0
  sawFull      \* history: the queue was full at some point of the Push

vars == <<tail, head, data, flag, ppc, next, tries, old, seen, ret, cpc, got,
          popped, pushedOK, sawFull>>

Val(p) == <<p, next[p]>>

TypeOK ==
  /\ tail \in Index /\ head \in Index
  /\ data \in [Slots -> Values \cup {NoData}]
  /\ flag \in [Slots -> BOOLEAN]
  /\ ppc \in [Producers -> {"idle", "loop", "isfull", "isfullhead", "cas", "write", "publish"}]
  /\ next \in [Producers -> 1 .. PushesPer + 1]
  /\ tries \in [Producers -> 0 .. MaxTry]
  /\ old \in [Producers -> Index] /\ seen \in [Producers -> Index]
  /\ ret \in [Producers -> {"none", "ok", "QueueFull", "TryMax"}]
  /\ cpc \in {"idle", "flag", "read", "clear", "advance"}
  /\ got \in Values \cup {NoData}
  /\ popped \in Seq(Values)
  /\ pushedOK \subseteq Values
  /\ sawFull \in [Producers -> BOOLEAN]

Init ==
  /\ tail = [version |-> 0, index |-> 0]
  /\ head = [version |-> 0, index |-> 0]
  /\ data = [i \in Slots |-> NoData]
  /\ flag = [i \in Slots |-> FALSE]
  /\ ppc = [p \in Producers |-> "idle"]
  /\ next = [p \in Producers |-> 1]
  /\ tries = [p \in Producers |-> 0]
  /\ old = [p \in Producers |-> tail]
  /\ seen = [p \in Producers |-> tail]
  /\ ret = [p \in Producers |-> "none"]
  /\ cpc = "idle" /\ got = NoData
  /\ popped = <<>> /\ pushedOK = {}
  /\ sawFull = [p \in Producers |-> FALSE]

ProducerVars == <<ppc, next, tries, old, seen, ret, pushedOK>>
ConsumerVars == <<cpc, got, popped>>

(* Push returns r: the producer moves on to its next value. *)
Return(p, r) ==
  /\ ret' = [ret EXCEPT ![p] = r]
  /\ next' = [next EXCEPT ![p] = @ + 1]
  /\ ppc' = [ppc EXCEPT ![p] = "idle"]

(* Push(data) is called. *)
PushCall(p) ==
  /\ ppc[p] = "idle" /\ next[p] <= PushesPer
  /\ ppc' = [ppc EXCEPT ![p] = "loop"]
  /\ tries' = [tries EXCEPT ![p] = 0]
  /\ ret' = [ret EXCEPT ![p] = "none"]
  /\ UNCHANGED <<tail, head, data, flag, next, old, seen, pushedOK, ConsumerVars>>

(* Top of the do-while loop: give up after MaxTry rounds. *)
PushTryMax(p) ==
  /\ ppc[p] = "loop" /\ tries[p] >= MaxTry
  /\ Return(p, "TryMax")
  /\ UNCHANGED <<tail, head, data, flag, tries, old, seen, pushedOK, ConsumerVars>>

(* old_tail = tail_index_.load(relaxed) *)
PushLoadTail(p) ==
  /\ ppc[p] = "loop" /\ tries[p] < MaxTry
  /\ old' = [old EXCEPT ![p] = tail]
  /\ ppc' = [ppc EXCEPT ![p] = "isfull"]
  /\ UNCHANGED <<tail, head, data, flag, next, tries, seen, ret, pushedOK, ConsumerVars>>

(* IsFull(), first load: tail_index_ again. *)
PushIsFullTail(p) ==
  /\ ppc[p] = "isfull"
  /\ seen' = [seen EXCEPT ![p] = tail]
  /\ ppc' = [ppc EXCEPT ![p] = "isfullhead"]
  /\ UNCHANGED <<tail, head, data, flag, next, tries, old, ret, pushedOK, ConsumerVars>>

(* IsFull(), second load: head_index_; QueueFull, or compute new_tail and  *)
(* count the try.                                                          *)
PushIsFullHead(p) ==
  /\ ppc[p] = "isfullhead"
  /\ IF Full(seen[p], head)
     THEN /\ Return(p, "QueueFull")
          /\ UNCHANGED tries
     ELSE /\ tries' = [tries EXCEPT ![p] = @ + 1]
          /\ ppc' = [ppc EXCEPT ![p] = "cas"]
          /\ UNCHANGED <<next, ret>>
  /\ UNCHANGED <<tail, head, data, flag, old, seen, pushedOK, ConsumerVars>>

(* compare_exchange_weak(old_tail, new_tail) succeeds: the slot is taken. *)
PushCas(p) ==
  /\ ppc[p] = "cas" /\ tail = old[p]
  /\ tail' = Advanced(old[p])
  /\ ppc' = [ppc EXCEPT ![p] = "write"]
  /\ UNCHANGED <<head, data, flag, next, tries, old, seen, ret, pushedOK, ConsumerVars>>

(* The CAS fails: the tail moved, or the weak CAS failed spuriously. *)
PushCasFail(p) ==
  /\ ppc[p] = "cas"
  /\ ppc' = [ppc EXCEPT ![p] = "loop"]
  /\ UNCHANGED <<tail, head, data, flag, next, tries, old, seen, ret, pushedOK, ConsumerVars>>

(* data_[old_tail.index] = data *)
PushWrite(p) ==
  /\ ppc[p] = "write"
  /\ data' = [data EXCEPT ![old[p].index] = Val(p)]
  /\ ppc' = [ppc EXCEPT ![p] = "publish"]
  /\ UNCHANGED <<tail, head, flag, next, tries, old, seen, ret, pushedOK, ConsumerVars>>

PushPublishNewIndex(p) ==
  /\ ppc[p] = "publish"
  /\ flag' = [flag EXCEPT ![(old[p].index + 1) % QueueSize] = TRUE]
  /\ pushedOK' = pushedOK \cup {Val(p)}
  /\ Return(p, "ok")
  /\ UNCHANGED <<tail, head, data, tries, old, seen, ConsumerVars>>

PushPublishNoFlag(p) ==
  /\ ppc[p] = "publish"
  /\ pushedOK' = pushedOK \cup {Val(p)}
  /\ Return(p, "ok")
  /\ UNCHANGED <<tail, head, data, flag, tries, old, seen, ConsumerVars>>

(* data_flag_[old_tail.index].store(true, release); return 0 *)
PushPublish(p) ==
  /\ ppc[p] = "publish"
  /\ flag' = [flag EXCEPT ![old[p].index] = TRUE]
  /\ pushedOK' = pushedOK \cup {Val(p)}
  /\ Return(p, "ok")
  /\ UNCHANGED <<tail, head, data, tries, old, seen, ConsumerVars>>

(* Pop: IsEmpty() loads the tail and the head (the consumer's own).  An    *)
(* empty queue returns at once.                                            *)
PopBegin ==
  /\ cpc = "idle"
  /\ IF Empty(tail, head) THEN UNCHANGED cpc ELSE cpc' = "flag"
  /\ UNCHANGED <<tail, head, data, flag, got, popped, ProducerVars>>

(* Load head_index_ and the slot's flag: Again while it is not published. *)
PopFlag ==
  /\ cpc = "flag"
  /\ cpc' = IF flag[head.index] THEN "read" ELSE "idle"
  /\ UNCHANGED <<tail, head, data, flag, got, popped, ProducerVars>>

(* data = data_[old_head.index] *)
PopRead ==
  /\ cpc = "read"
  /\ got' = data[head.index]
  /\ cpc' = "clear"
  /\ UNCHANGED <<tail, head, data, flag, popped, ProducerVars>>

(* data_flag_[old_head.index].store(false, release) *)
PopClear ==
  /\ cpc = "clear"
  /\ flag' = [flag EXCEPT ![head.index] = FALSE]
  /\ cpc' = "advance"
  /\ UNCHANGED <<tail, head, data, got, popped, ProducerVars>>

(* head_index_.store(new_head, release); return 0 *)
PopAdvance ==
  /\ cpc = "advance"
  /\ head' = Advanced(head)
  /\ popped' = Append(popped, got)
  /\ cpc' = "idle"
  /\ UNCHANGED <<tail, data, flag, got, ProducerVars>>

ProducerStep(p) ==
  \/ PushCall(p) \/ PushTryMax(p) \/ PushLoadTail(p) \/ PushIsFullTail(p)
  \/ PushIsFullHead(p) \/ PushCas(p) \/ PushCasFail(p) \/ PushWrite(p)
  \/ PushPublish(p)

ConsumerStep == PopBegin \/ PopFlag \/ PopRead \/ PopClear \/ PopAdvance

(* History: whether the queue held QueueSize - 1 values at some point of   *)
(* each producer's Push call, from the call on.                            *)
HeldFull(t, h) == (t.index - h.index + QueueSize) % QueueSize = QueueSize - 1

TrackFull ==
  sawFull' = [p \in Producers |->
                IF ppc[p] = "idle" THEN HeldFull(tail', head')
                ELSE sawFull[p] \/ HeldFull(tail', head')]

Next == ((\E p \in Producers : ProducerStep(p)) \/ ConsumerStep) /\ TrackFull

(* Every thread that can take its next step eventually does; the weak     *)
(* CAS's spurious failure is not fair, its success is.                     *)
Fairness ==
  /\ \A p \in Producers :
       /\ WF_vars(PushCall(p) /\ TrackFull) /\ WF_vars(PushTryMax(p) /\ TrackFull)
       /\ WF_vars(PushLoadTail(p) /\ TrackFull) /\ WF_vars(PushIsFullTail(p) /\ TrackFull)
       /\ WF_vars(PushIsFullHead(p) /\ TrackFull) /\ WF_vars(PushCas(p) /\ TrackFull)
       /\ WF_vars(PushWrite(p) /\ TrackFull) /\ WF_vars(PushPublish(p) /\ TrackFull)
  /\ WF_vars(ConsumerStep /\ TrackFull)

Spec == Init /\ [][Next]_vars /\ Fairness

----------------------------------------------------------------------------
(* Properties *)

(* The values the slots between head and tail stand for, oldest first: a  *)
(* reserved slot whose payload is not written yet stands for the value its *)
(* producer is pushing.                                                    *)
Count == (tail.index - head.index + QueueSize) % QueueSize

SlotVal(i) ==
  IF \E p \in Producers : ppc[p] = "write" /\ old[p].index = i
  THEN Val(CHOOSE p \in Producers : ppc[p] = "write" /\ old[p].index = i)
  ELSE data[i]

Content == [k \in 1 .. Count |-> SlotVal((head.index + k - 1) % QueueSize)]

Fifo == INSTANCE FifoQueue WITH Capacity <- QueueSize - 1,
                                queue <- Content, delivered <- popped

(* The queue implements a bounded FIFO: every successful CAS appends the   *)
(* pushing producer's value behind all values reserved before it, and     *)
(* every Pop returns the oldest value, never an unwritten or stale slot.  *)
FifoRefinement == Fifo!Spec

(* A slot a producer has reserved is free: no other producer holds it,    *)
(* its flag is clear, and the consumer is not copying or clearing it.      *)
NoSlotRace ==
  \A p \in Producers : ppc[p] \in {"write", "publish"} =>
    /\ ~flag[old[p].index]
    /\ ~(cpc \in {"read", "clear", "advance"} /\ head.index = old[p].index)
    /\ \A q \in Producers \ {p} :
         ppc[q] \in {"write", "publish"} => old[q].index # old[p].index

(* Spec section 8: every value whose Push returned 0 is eventually popped. *)
PushedArePopped == \A v \in Values : v \in pushedOK ~> v \in ToSet(popped)

(* Spec section 8, scenario 6: Push returns QueueFull only if the queue    *)
(* was full at some point during that call.                                *)
NoSpuriousFull == \A p \in Producers : ret[p] = "QueueFull" => sawFull[p]

=============================================================================
