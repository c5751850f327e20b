--------------------------- MODULE UnfixedRingBuf ---------------------------
(***************************************************************************)
(* The variable-size ring buffer of src/containers/unfixed_ring_buf.h.     *)
(* The buffer is Size bytes; a record is an ItemHeader of Hdr bytes (flag, *)
(* len) followed by len payload bytes; a padding record (flag 1) fills the *)
(* rest of the buffer when a record would cross its end, and fewer than    *)
(* Hdr bytes before the end are skipped.  A byte of `buf` holds the header *)
(* written at it, or Junk for a header tail or payload byte; the payload   *)
(* is abstracted to the value pushed, kept in the header.                  *)
(*                                                                         *)
(* push_impl, pop and find_start are single-threaded and run to completion *)
(* inside one call, so each call is one action computing on a record of    *)
(* the buffer's fields; the loops and the recursion of push_impl are       *)
(* RECURSIVE operators with a step budget whose exhaustion counts as a     *)
(* hang.  A failed assert (compiled out in release builds) sets `bad`.     *)
(***************************************************************************)
EXTENDS Naturals, Sequences

CONSTANTS
  Size,     \* MAX_SIZE, or m_size of a shared-memory buffer
  Hdr,      \* sizeof(ItemHeader)
  Values,   \* payloads, as values
  Lens,     \* payload lengths a caller pushes
  Fuel,     \* loop iterations before a call counts as hung
  NoItem

ASSUME Size > Hdr /\ Hdr > 0 /\ Fuel > 0

Pos == 0 .. Size - 1
Header(flag, len, v) == [flag |-> flag, len |-> len, item |-> v]
Junk == Header(2, 0, NoItem)

VARIABLES
  start, end, used, num,   \* m_start, m_end, m_used_size, m_item_num
  buf,                     \* m_buf, byte by byte
  bad,                     \* an assert has failed or a loop did not end
  last,                    \* the last call, its result and its callback records
  records                  \* what front(len, i) returns, i = 0 .. get_num() - 1

vars == <<start, end, used, num, buf, bad, last, records>>

Call(op, v, len, ow, ok, popped) ==
  [op |-> op, v |-> v, len |-> len, ow |-> ow, ok |-> ok, popped |-> popped]

St == [start |-> start, end |-> end, used |-> used, num |-> num, buf |-> buf,
       bad |-> bad, out |-> <<>>]

TypeOK ==
  /\ start \in Pos /\ end \in Pos /\ used \in 0 .. Size /\ num \in 0 .. Size
  /\ \A p \in Pos : buf[p] = Junk \/ buf[p].flag \in {0, 1}
  /\ bad \in BOOLEAN

(* A zero-initialised UnfixedRingBuf. *)
Init ==
  /\ start = 0 /\ end = 0 /\ used = 0 /\ num = 0
  /\ buf = [p \in Pos |-> Junk]
  /\ bad = FALSE /\ records = <<>>
  /\ last = Call("none", NoItem, 0, FALSE, TRUE, <<>>)

(* The header at byte p, or Junk where none starts. *)
HdrAt(s, p) == s.buf[p]

Assert(s, cond) == IF cond THEN s ELSE [s EXCEPT !.bad = TRUE]

(* An assert guards each subtraction, so a failed one also stops the      *)
(* unsigned wrap; the behaviour is already a violation.                   *)
Minus(a, b) == IF a >= b THEN a - b ELSE 0

(* Header h written at byte p over n bytes. *)
Written(b, p, h, n) ==
  [q \in Pos |-> IF q = p THEN h ELSE IF p < q /\ q < p + n THEN Junk ELSE b[q]]

IsEmpty(s) == s.used = 0
IsFullOffByOne(s) == s.used > Size

IsFull(s) == s.used >= Size

(* need_skip_bytes *)
NeedSkip(pos) == IF pos + Hdr > Size THEN Size - pos ELSE 0

(* pop_padding *)
PopPadding(s) ==
  LET s1 == Assert(s, s.used >= Hdr)
      h == HdrAt(s, s.start)
  IN  IF h.flag = 1
      THEN [s1 EXCEPT !.start = (s.start + Hdr + h.len) % Size,
                      !.used = Minus(s.used, Hdr + h.len)]
      ELSE s1

PopNoSkip(s) ==
  IF IsEmpty(s) THEN s
  ELSE
    LET h == HdrAt(s, s.start)
        s1 == Assert(Assert(s, s.used >= Hdr), h.flag = 0)
        s2 == [s1 EXCEPT !.out = Append(@, h.item),
                         !.start = (s.start + Hdr + h.len) % Size]
        s3 == [Assert(s2, s2.used >= Hdr + h.len)
                 EXCEPT !.used = Minus(@, Hdr + h.len), !.num = Minus(@, 1)]
        s4 == IF ~IsEmpty(s3) THEN PopPadding(s3) ELSE s3
    IN  IF IsEmpty(s4) THEN [s4 EXCEPT !.start = 0, !.end = 0] ELSE s4

(* pop: hand the oldest record to the callback, then step over skip      *)
(* bytes or a padding record; an emptied buffer restarts at byte 0.       *)
Pop(s) ==
  IF IsEmpty(s) THEN s
  ELSE
    LET h == HdrAt(s, s.start)
        s1 == Assert(Assert(s, s.used >= Hdr), h.flag = 0)
        s2 == [s1 EXCEPT !.out = Append(@, h.item),
                         !.start = (s.start + Hdr + h.len) % Size]
        s3 == [Assert(s2, s2.used >= Hdr + h.len /\ s2.num > 0)
                 EXCEPT !.used = Minus(@, Hdr + h.len), !.num = Minus(@, 1)]
        skip == NeedSkip(s3.start)
        s4 == IF skip > 0
              THEN [Assert(s3, s3.used >= skip)
                      EXCEPT !.start = (s3.start + skip) % Size,
                             !.used = Minus(@, skip)]
              ELSE IF ~IsEmpty(s3) THEN PopPadding(s3)
              ELSE s3
    IN  IF IsEmpty(s4) THEN [s4 EXCEPT !.start = 0, !.end = 0] ELSE s4

WriteItemNoSkip(s, v, len, need) ==
  [s EXCEPT !.buf = Written(s.buf, s.end, Header(0, len, v), need),
            !.end = (s.end + need) % Size, !.used = @ + need, !.num = @ + 1]

(* write_item: the record ends at or before the end of the buffer; a tail *)
(* too short for a header is skipped.                                      *)
WriteItem(s, v, len, need) ==
  LET e1 == (s.end + need) % Size
      skip == NeedSkip(e1)
  IN  [s EXCEPT !.buf = Written(s.buf, s.end, Header(0, len, v), need),
                !.end = (e1 + skip) % Size,
                !.used = @ + need + skip,
                !.num = @ + 1]

(* write_item_no_wrap: the record ends at or before start. *)
WriteItemNoWrap(s, v, len, need) ==
  [s EXCEPT !.buf = Written(s.buf, s.end, Header(0, len, v), need),
            !.end = @ + need, !.used = @ + need, !.num = @ + 1]

(* push_padding: a padding record from end to the end of the buffer. *)
PushPadding(s) ==
  LET s1 == Assert(s, s.start <= s.end) IN
  [s1 EXCEPT !.buf = Written(s.buf, s.end, Header(1, Size - s.end - Hdr, NoItem),
                             Size - s.end),
             !.used = @ + (Size - s.end),
             !.end = 0]

Hung(s) == [s EXCEPT !.bad = TRUE]

(* while (!empty() && get_start() < need_len) pop(cb); *)
RECURSIVE PopWhileBelow(_, _, _)
PopWhileBelow(s, need, fuel) ==
  IF fuel = 0 THEN Hung(s)
  ELSE IF ~IsEmpty(s) /\ s.start < need THEN PopWhileBelow(Pop(s), need, fuel - 1)
  ELSE s

(* while (end < start && end + need_len > start) pop(cb); *)
RECURSIVE PopWhileOverlap(_, _, _)
PopWhileOverlap(s, need, fuel) ==
  IF fuel = 0 THEN Hung(s)
  ELSE IF s.end < s.start /\ s.end + need > s.start
       THEN PopWhileOverlap(Pop(s), need, fuel - 1)
  ELSE s

(* do { pop(cb); } while (end < start); *)
RECURSIVE PopUntilUnwrapped(_, _)
PopUntilUnwrapped(s, fuel) ==
  IF fuel = 0 THEN Hung(s)
  ELSE LET s1 == Pop(s) IN
       IF s1.end < s1.start THEN PopUntilUnwrapped(s1, fuel - 1) ELSE s1

Result(s, ok) == [st |-> s, ok |-> ok]

(* push_impl, with its recursion. *)
RECURSIVE PushImpl(_, _, _, _, _, _)
PushImpl(s, v, len, need, ow, fuel) ==
  IF fuel = 0 THEN Result(Hung(s), FALSE)
  ELSE IF IsFull(s) /\ ~ow THEN Result(s, FALSE)
  ELSE
    LET s0 == IF IsFull(s) THEN Pop(s) ELSE s IN
    IF s0.end >= s0.start
    THEN IF s0.end + need <= Size
         THEN Result(WriteItem(s0, v, len, need), TRUE)
         ELSE IF ~ow /\ s0.start < need
         THEN Result(s0, FALSE)
         ELSE LET s1 == PushPadding(s0)
                  s2 == IF ow THEN PopWhileBelow(s1, need, Fuel) ELSE s1
              IN  PushImpl(s2, v, len, need, ow, fuel - 1)
    ELSE IF s0.end + need <= s0.start
         THEN Result(WriteItemNoWrap(s0, v, len, need), TRUE)
         ELSE IF ~ow
         THEN Result(s0, FALSE)
         ELSE IF s0.end + need <= Size
         THEN PushImpl(PopWhileOverlap(s0, need, Fuel), v, len, need, ow, fuel - 1)
         ELSE LET s1 == PushPadding(PopUntilUnwrapped(s0, Fuel)) IN
              PushImpl(Assert(s1, IsFull(s1)), v, len, need, ow, fuel - 1)

(* front(len, index): find_start walks index records from start, stepping *)
(* over skip bytes and padding, and gives Size when there is no such      *)
(* record.                                                                 *)
RECURSIVE Walk(_, _, _)
Walk(s, p, k) ==
  IF k = 0 THEN p
  ELSE
    LET q == (p + Hdr + HdrAt(s, p).len) % Size
        r == IF NeedSkip(q) > 0 THEN (q + NeedSkip(q)) % Size
             ELSE IF q # s.end /\ HdrAt(s, q).flag = 1
                  THEN (q + Hdr + HdrAt(s, q).len) % Size
             ELSE q
    IN  IF r = s.end THEN Size ELSE Walk(s, r, k - 1)

FindStart(s, index) ==
  IF IsEmpty(s) \/ index >= s.num THEN Size
  ELSE IF index = 0 THEN s.start
  ELSE Walk(s, s.start, index)

(* The records front(len, i) returns for i = 0 .. get_num() - 1. *)
RecordsOf(s) ==
  [i \in 1 .. s.num |->
     LET p == FindStart(s, i - 1) IN IF p = Size THEN NoItem ELSE HdrAt(s, p).item]

Apply(s) ==
  /\ start' = s.start /\ end' = s.end /\ used' = s.used /\ num' = s.num
  /\ buf' = s.buf /\ bad' = s.bad
  /\ records' = RecordsOf(s)

(* push(data, len, over_write, cb) *)
Push(v, len, ow) ==
  LET need == len + Hdr IN
  /\ ~bad
  /\ IF need > Size
     THEN /\ last' = Call("push", v, len, ow, FALSE, <<>>)
          /\ UNCHANGED <<start, end, used, num, buf, bad, records>>
     ELSE LET r == PushImpl(St, v, len, need, ow, Fuel) IN
          /\ Apply(r.st)
          /\ last' = Call("push", v, len, ow, r.ok, r.st.out)

(* pop(cb) as a call of its own. *)
PopCall ==
  LET s == Pop(St) IN
  /\ ~bad
  /\ Apply(s)
  /\ last' = Call("pop", NoItem, 0, FALSE, TRUE, s.out)

(* clear(): the bytes of the buffer are left as they are. *)
Clear ==
  /\ ~bad
  /\ start' = 0 /\ end' = 0 /\ used' = 0 /\ num' = 0 /\ records' = <<>>
  /\ last' = Call("clear", NoItem, 0, FALSE, TRUE, <<>>)
  /\ UNCHANGED <<buf, bad>>

Next ==
  \/ \E v \in Values, len \in Lens, ow \in BOOLEAN : Push(v, len, ow)
  \/ PopCall
  \/ Clear

Spec == Init /\ [][Next]_vars

(* No assert of push, pop or push_padding fails and no loop of push_impl *)
(* runs away, whatever sequence of pushes (with and without overwrite),  *)
(* pops and clears the caller makes.                                      *)
NoFault == ~bad

Abstract == INSTANCE RecordQueue WITH Capacity <- Size, queue <- records

(* The buffer, read through front(), is the record FIFO of spec 4.8:     *)
(* nothing is lost, duplicated or reordered across padding and wrap, a   *)
(* push into an empty buffer succeeds, and a push with overwrite pops     *)
(* exactly the oldest records, through the callback, and then succeeds.   *)
RingRefinement == Abstract!Spec

=============================================================================
