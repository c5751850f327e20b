------------------------------- MODULE MemSet -------------------------------
(***************************************************************************)
(* The bounded hash set of src/containers/inner/base_mem_set.h over its    *)
(* data layer inner/mem_set_data.h (MemSet and MemMap are BaseMemSet with  *)
(* a trivially copyable T).  A slot is a 1-based index into m_next and     *)
(* m_value; each bucket heads a chain through m_next, freed slots form a   *)
(* stack through m_next headed by m_free_index, and slots above m_raw_used *)
(* were never used.  A slot's value is a key; erase leaves it in place     *)
(* (destruct_one does nothing for a trivially copyable T).                 *)
(*                                                                         *)
(* The operations are pure operators on a record of the data layer, so    *)
(* that MemLRUSet can compose them; this module applies them to one set    *)
(* and adds a caller walking the set with its Iterator, begin() to end(),  *)
(* while other calls insert and erase between its steps.  The asserts are *)
(* compiled out; the invariants below are stronger.                        *)
(***************************************************************************)
EXTENDS Naturals, Sequences, FiniteSets, Functions

CONSTANTS
  MaxNum,    \* MAX_SIZE, or m_max_num of a shared-memory set
  Buckets,   \* BUCKETS_SIZE, or m_buckets_num
  Keys,      \* the values a caller inserts
  Hash,      \* Hash[k]: HASH{}(k) % buckets
  NoKey

Idx == 1 .. MaxNum
Bkt == 0 .. Buckets - 1

(* A zero-filled data layer: the member initialisers of SetData, or the   *)
(* memset of init(check = false). *)
Empty == [buckets |-> [b \in Bkt |-> 0], next |-> [i \in Idx |-> 0],
          val |-> [i \in Idx |-> NoKey], used |-> 0, raw |-> 0, free |-> 0]

IsFullOffByOne(s) == s.used > MaxNum

(* full() *)
IsFull(s) == s.used = MaxNum

(* find_index_impl: walk the chain from slot i; 0 when k is not on it.    *)
(* The walk is cut after MaxNum slots (a longer chain is a cycle, which    *)
(* the invariants rule out).                                               *)
RECURSIVE FindIn(_, _, _, _)
FindIn(s, i, k, fuel) ==
  IF i = 0 \/ fuel = 0 THEN 0
  ELSE IF s.val[i] = k THEN i
  ELSE FindIn(s, s.next[i], k, fuel - 1)

FindIndex(s, k) == FindIn(s, s.buckets[Hash[k]], k, MaxNum)

InsertImplNoFreePop(s, v) ==
  LET b == Hash[v]
      e == IF s.free = 0 THEN s.raw + 1 ELSE s.free
  IN  [s EXCEPT !.raw = IF s.free = 0 THEN @ + 1 ELSE @,
                !.next[e] = s.buckets[b], !.buckets[b] = e,
                !.used = @ + 1, !.val[e] = v]

(* insert_impl: take the top of the free stack, else slot raw_used + 1,   *)
(* and push it on the front of the bucket's chain.                         *)
InsertImpl(s, v) ==
  LET b == Hash[v]
      e == IF s.free = 0 THEN s.raw + 1 ELSE s.free
  IN  [s EXCEPT !.raw = IF s.free = 0 THEN @ + 1 ELSE @,
                !.free = IF s.free = 0 THEN @ ELSE s.next[e],
                !.next[e] = s.buckets[b], !.buckets[b] = e,
                !.used = @ + 1, !.val[e] = v]

SetInsertFullFirst(s, v) ==
  IF IsFull(s) THEN [st |-> s, idx |-> 0, ok |-> FALSE]
  ELSE LET i == FindIndex(s, v) IN
       IF i # 0 THEN [st |-> s, idx |-> i, ok |-> FALSE]
       ELSE [st |-> InsertImpl(s, v), idx |-> IF s.free = 0 THEN s.raw + 1 ELSE s.free,
             ok |-> TRUE]

(* insert / insert2: [st, idx, ok] with idx the slot of v, 0 when full. *)
SetInsert(s, v) ==
  LET i == FindIndex(s, v) IN
  IF i # 0 THEN [st |-> s, idx |-> i, ok |-> FALSE]
  ELSE IF IsFull(s) THEN [st |-> s, idx |-> 0, ok |-> FALSE]
  ELSE LET e == IF s.free = 0 THEN s.raw + 1 ELSE s.free IN
       [st |-> InsertImpl(s, v), idx |-> e, ok |-> TRUE]

(* The slot whose m_next is i on the chain from j: erase's `pre`. *)
RECURSIVE PreOf(_, _, _, _)
PreOf(s, j, i, fuel) ==
  IF j = 0 \/ fuel = 0 THEN 0
  ELSE IF s.next[j] = i THEN j
  ELSE PreOf(s, s.next[j], i, fuel - 1)

(* erase(key): unlink the slot from its chain and push it on the free     *)
(* stack; [st, idx] with idx the slot, or 0 when k is not held.            *)
SetErase(s, k) ==
  LET b == Hash[k]
      i == FindIndex(s, k)
      pre == PreOf(s, s.buckets[b], i, MaxNum)
      s1 == IF s.buckets[b] = i THEN [s EXCEPT !.buckets[b] = s.next[i]]
            ELSE [s EXCEPT !.next[pre] = s.next[i]]
  IN  IF s.used = 0 \/ s.buckets[b] = 0 \/ i = 0 THEN [st |-> s, idx |-> 0]
      ELSE [st |-> [s1 EXCEPT !.next[i] = s.free, !.free = i, !.used = @ - 1],
            idx |-> i]

(* clear(): m_next, the counters and the buckets are zeroed. *)
SetClear(s) == [s EXCEPT !.next = [i \in Idx |-> 0], !.used = 0, !.raw = 0,
                         !.free = 0, !.buckets = [b \in Bkt |-> 0]]

(* The head of the first non-empty bucket from bucket b on, or 0. *)
FirstFrom(s, b) ==
  LET used == {c \in b .. Buckets - 1 : s.buckets[c] # 0} IN
  IF used = {} THEN 0 ELSE s.buckets[CHOOSE c \in used : \A d \in used : c <= d]

(* begin(): find_first_used_bucket *)
Begin(s) == FirstFrom(s, 0)

AdvanceSameBucket(s, i) ==
  IF s.next[i] # 0 THEN s.next[i] ELSE FirstFrom(s, Hash[s.val[i]])

(* Iterator::operator++: the next slot on the chain, else the head of the *)
(* next non-empty bucket after the bucket of the current value.           *)
Advance(s, i) ==
  IF s.next[i] # 0 THEN s.next[i] ELSE FirstFrom(s, Hash[s.val[i]] + 1)

----------------------------------------------------------------------------
(* One set, its callers, and one caller walking it with an Iterator. *)

VARIABLES
  set,        \* the data layer
  last,       \* the last insert, erase or clear: its key and its result
  it,         \* the walking caller's Iterator::m_index (0 is end())
  scanning,   \* a walk is in progress
  seen,       \* seen[k]: times the walk dereferenced k (counted up to 2)
  stayed      \* the keys held when the walk began and not erased since

vars == <<set, last, it, scanning, seen, stayed>>

(* The slots on the bucket chains, and the keys they hold. *)
RECURSIVE ChainFrom(_, _, _)
ChainFrom(s, i, fuel) ==
  IF i = 0 \/ fuel = 0 THEN <<>> ELSE <<i>> \o ChainFrom(s, s.next[i], fuel - 1)

LiveSlots(s) == UNION {Range(ChainFrom(s, s.buckets[b], MaxNum + 1)) : b \in Bkt}
Held(s) == {s.val[i] : i \in LiveSlots(s)}

Ret(op, k, idx, ok) == last' = [op |-> op, key |-> k, idx |-> idx, ok |-> ok]

Init ==
  /\ set = Empty
  /\ last = [op |-> "none", key |-> NoKey, idx |-> 0, ok |-> FALSE]
  /\ it = 0 /\ scanning = FALSE /\ seen = [k \in Keys |-> 0] /\ stayed = {}

(* insert(value) and insert2(value). *)
Insert(v) ==
  LET r == SetInsert(set, v) IN
  /\ set' = r.st /\ Ret("insert", v, r.idx, r.ok)
  /\ UNCHANGED <<it, scanning, seen, stayed>>

(* erase(key), by a caller other than the walk; it does not erase the    *)
(* value the walk stands on (that is erase(it++), below).                  *)
Erase(k) ==
  LET r == SetErase(set, k) IN
  /\ ~(scanning /\ it # 0 /\ set.val[it] = k)
  /\ set' = r.st /\ Ret("erase", k, r.idx, FALSE)
  /\ stayed' = stayed \ {k}
  /\ UNCHANGED <<it, scanning, seen>>

(* clear(), outside a walk. *)
Clear ==
  /\ ~scanning
  /\ set' = SetClear(set) /\ Ret("clear", NoKey, 0, FALSE)
  /\ UNCHANGED <<it, scanning, seen, stayed>>

(* The walk dereferences k. *)
Deref(k) == [seen EXCEPT ![k] = IF @ < 2 THEN @ + 1 ELSE @]

(* for (auto it = begin(); ...) *)
StartWalk ==
  /\ ~scanning
  /\ scanning' = TRUE /\ it' = Begin(set) /\ seen' = [k \in Keys |-> 0]
  /\ stayed' = Held(set)
  /\ UNCHANGED <<set, last>>

(* *it, then ++it. *)
Step ==
  /\ scanning /\ it # 0
  /\ seen' = Deref(set.val[it]) /\ it' = Advance(set, it)
  /\ UNCHANGED <<set, last, scanning, stayed>>

(* *it, then erase(it++): the copy is advanced before erase(Iterator)     *)
(* erases the value it stood on.                                           *)
EraseStep ==
  LET k == set.val[it]
      r == SetErase(set, k)
  IN  /\ scanning /\ it # 0
      /\ seen' = Deref(k) /\ it' = Advance(set, it)
      /\ set' = r.st /\ Ret("erase", k, r.idx, FALSE)
      /\ stayed' = stayed \ {k}
      /\ UNCHANGED scanning

(* it == end() *)
EndWalk ==
  /\ scanning /\ it = 0
  /\ scanning' = FALSE
  /\ UNCHANGED <<set, last, it, seen, stayed>>

Next ==
  \/ \E k \in Keys : Insert(k) \/ Erase(k)
  \/ Clear \/ StartWalk \/ Step \/ EraseStep \/ EndWalk

Spec == Init /\ [][Next]_vars

----------------------------------------------------------------------------
(* Properties *)

TypeOK ==
  /\ set.buckets \in [Bkt -> 0 .. MaxNum] /\ set.next \in [Idx -> 0 .. MaxNum]
  /\ set.used \in 0 .. MaxNum /\ set.raw \in 0 .. MaxNum /\ set.free \in 0 .. MaxNum
  /\ it \in 0 .. MaxNum

(* The slots on the free stack. *)
FreeSlots(s) == Range(ChainFrom(s, s.free, MaxNum + 1))

(* Spec 4.8: every slot ever used (1 .. m_raw_used) is on exactly one     *)
(* chain, in the bucket of its value, or on the free stack; chains end;    *)
(* m_used counts the chained slots and no key is held twice.               *)
WellFormed ==
  LET chains == [b \in Bkt |-> ChainFrom(set, set.buckets[b], MaxNum + 1)] IN
  /\ \A b \in Bkt : \A n \in 1 .. Len(chains[b]) : Hash[set.val[chains[b][n]]] = b
  /\ LiveSlots(set) \cup FreeSlots(set) = 1 .. set.raw
  /\ LiveSlots(set) \cap FreeSlots(set) = {}
  /\ set.used = Cardinality(LiveSlots(set))
  /\ Cardinality(Held(set)) = set.used

(* A walk from begin() to end() dereferences every key that was held when *)
(* it began and stayed held, never twice on the way and exactly once by   *)
(* the time it reaches end(), whatever the set's other callers inserted    *)
(* and erased between its steps; the erase(it++) idiom never makes it     *)
(* skip or repeat one.                                                     *)
WalkVisitsAll ==
  /\ scanning => \A k \in stayed : seen[k] <= 1
  /\ scanning /\ it = 0 => \A k \in stayed : seen[k] = 1

Abstract == INSTANCE KeyTable WITH Capacity <- MaxNum, FullFirst <- FALSE,
              table <- [k \in Held(set) |-> FindIndex(set, k)]

(* The set is a key table (spec 8): insert is idempotent in the key and   *)
(* gives each held key a stable handle, a full set refuses new keys,       *)
(* erase returns the key's handle and find no longer sees the key.         *)
SetRefinement == Abstract!Spec

=============================================================================
