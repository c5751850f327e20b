---------------------------- MODULE FixedRingBuf ----------------------------
(***************************************************************************)
(* The fixed-element ring of src/containers/fixed_ring_buf.h over the      *)
(* shared-memory data layer FixedRingBufData<T, 0> of                       *)
(* src/containers/inner/ring_buf_data.h: a header (start, end, used_num,   *)
(* max_num, four size_t) followed by max_num slots of T.  The compile-time *)
(* variant is the same ring with max_num fixed to MAX_SIZE.  Each call runs *)
(* to completion and is one action.  A `% max_num` with max_num = 0 (or a  *)
(* write to a slot past the region) is a fault: the process is dead and    *)
(* takes no further step.                                                  *)
(***************************************************************************)
EXTENDS Naturals, Sequences

CONSTANTS
  TSize,      \* sizeof(T)
  MemSizes,   \* the mem_size values callers pass to init(mem, mem_size)
  Vals, NoVal

HeadSize == 32   \* sizeof(BuffHead)

VARIABLES
  buf,     \* m_buf[0 .. max_num - 1]
  start,   \* m_start
  end,     \* m_end
  used,    \* m_used_num
  max,     \* m_max_num
  last,    \* the last call: its value argument or result, and its result
  fault    \* a division by zero or an out-of-region write happened

vars == <<buf, start, end, used, max, last, fault>>

Ret(op, v, ok) == last' = [op |-> op, val |-> v, ok |-> ok]

(* init(mem, mem_size, false): refused below sizeof(BuffHead); otherwise   *)
(* the header is zeroed and max_num is what fits after it.                *)
Init ==
  /\ \E ms \in MemSizes : ~(ms < HeadSize) /\ max = (ms - HeadSize) \div TSize
  /\ buf = [i \in 0 .. max - 1 |-> NoVal]
  /\ start = 0 /\ end = 0 /\ used = 0
  /\ last = [op |-> "none", val |-> NoVal, ok |-> FALSE] /\ fault = FALSE

IsEmpty == used = 0 /\ max > 0
IsFull == used = max

St == [buf |-> buf, start |-> start, end |-> end, used |-> used]

(* pop(): unless empty(), advance start modulo max_num. *)
PopImpl(st) ==
  IF IsEmpty THEN st
  ELSE [st EXCEPT !.start = (st.start + 1) % max, !.used = @ - 1]

Apply(st) == buf' = st.buf /\ start' = st.start /\ end' = st.end /\ used' = st.used

(* The call never returns: SIGFPE (or the out-of-region write) ends the  *)
(* process. *)
Fault == fault' = TRUE /\ UNCHANGED <<buf, start, end, used, max, last>>

PushNoPopOnOverwrite(v, ow) ==
  \/ IsFull /\ ~ow /\ Ret("push", v, FALSE) /\ UNCHANGED <<buf, start, end, used, max, fault>>
  \/ /\ ~IsFull \/ ow
     /\ max > 0
     /\ Apply([St EXCEPT !.buf[end] = v, !.end = (end + 1) % max, !.used = @ + 1])
     /\ Ret("push", v, TRUE) /\ UNCHANGED <<max, fault>>
  \/ ow /\ max = 0 /\ Fault

(* push(value, over_write): a full ring refuses unless over_write, which  *)
(* pops first; then the slot at end is written and end advanced.          *)
Push(v, ow) ==
  LET st == IF IsFull THEN PopImpl(St) ELSE St IN
  \/ IsFull /\ ~ow /\ Ret("push", v, FALSE) /\ UNCHANGED <<buf, start, end, used, max, fault>>
  \/ /\ ~IsFull \/ ow
     /\ max > 0
     /\ Apply([st EXCEPT !.buf[st.end] = v, !.end = (st.end + 1) % max, !.used = @ + 1])
     /\ Ret("push", v, TRUE) /\ UNCHANGED <<max, fault>>
  \/ ow /\ max = 0 /\ Fault

Pop ==
  \/ max > 0 /\ Apply(PopImpl(St)) /\ Ret("pop", NoVal, TRUE) /\ UNCHANGED <<max, fault>>
  \/ max = 0 /\ Fault

(* front(index) and back(index), called with index < size() as their      *)
(* asserts require.                                                        *)
Front(i) ==
  /\ i < used /\ Ret("front", buf[(start + i) % max], TRUE)
  /\ UNCHANGED <<buf, start, end, used, max, fault>>

Back(i) ==
  /\ i < used /\ Ret("back", buf[(end + max - 1 - i) % max], TRUE)
  /\ UNCHANGED <<buf, start, end, used, max, fault>>

Clear ==
  /\ Apply([St EXCEPT !.start = 0, !.end = 0, !.used = 0]) /\ Ret("clear", NoVal, TRUE)
  /\ UNCHANGED <<max, fault>>

Next ==
  /\ ~fault
  /\ \/ \E v \in Vals, ow \in BOOLEAN : Push(v, ow)
     \/ Pop \/ Clear
     \/ \E i \in 0 .. max : Front(i) \/ Back(i)

Spec == Init /\ [][Next]_vars

----------------------------------------------------------------------------
(* Properties *)

(* The slots from start, used_num of them modulo max_num, oldest first. *)
Items == [n \in 1 .. used |-> buf[(start + n - 1) % max]]

Abstract == INSTANCE OverwriteFifo WITH items <- Items, cap <- max

(* Spec 4.8 and the tests of fixed_ring_buf.h: the ring is a FIFO of at  *)
(* most max_num values in which an over_write push drops exactly the      *)
(* oldest value, and front(i) and back(i) read the i-th oldest and i-th   *)
(* newest, across every wrap of start and end.                            *)
RingRefinement == Abstract!Spec

(* The asserts of push, pop, front and back: max_num > 0 wherever a      *)
(* `% max_num` is evaluated; no call divides by zero.                      *)
NoDivByZero == ~fault

=============================================================================
