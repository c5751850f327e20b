------------------------------ MODULE MemLRUSet ------------------------------
(***************************************************************************)
(* The LRU set of src/containers/inner/base_mem_lru_set.h (MemLRUSet and   *)
(* MemLRUMap): a BaseMemSet (MemSet's operators, on the record `base`)     *)
(* and a recency chain m_active_link over the same slot indices, circular  *)
(* and doubly linked through node 0, most recent at node 0's next.         *)
(*                                                                         *)
(* A DisuseCallback is a predicate on keys: cb == nullptr accepts every    *)
(* key, so each call is given a set p \in Preds of the keys it accepts.    *)
(* Every call runs to completion, so each is one action.                   *)
(***************************************************************************)
EXTENDS Naturals, Sequences, SequencesExt

CONSTANTS
  MaxNum, Buckets, Keys, Hash, NoKey,
  Preds     \* the DisuseCallbacks callers pass, as the sets of keys they accept

(* Only MemSet's operators on a data-layer record are used; its own      *)
(* variables are not.                                                      *)
S == INSTANCE MemSet WITH set <- NoKey, last <- NoKey, it <- 0,
                          scanning <- FALSE, seen <- NoKey, stayed <- {}

Nodes == 0 .. MaxNum
Unlinked == [prev |-> 0, next |-> 0]

VARIABLES
  base,   \* m_base, the hash set
  link,   \* m_active_link
  last,   \* the last call: its key, its result and the keys it evicted
  keys    \* the keys along the recency chain, most recent first

vars == <<base, link, last, keys>>

(* A call with its arguments (key, force, predicate) and its results. *)
Ret(op, k, f, p, ok, num, gone) ==
  last' = [op |-> op, key |-> k, force |-> f, pred |-> p, ok |-> ok, num |-> num, gone |-> gone]

(* The recency chain from node 0, most recent first, cut after MaxNum    *)
(* nodes (a longer chain is a cycle, which ChainExact rules out).          *)
RECURSIVE ChainOf(_, _, _)
ChainOf(lk, i, fuel) ==
  IF i = 0 \/ fuel = 0 THEN <<>> ELSE <<i>> \o ChainOf(lk, lk[i].next, fuel - 1)

RecencyOf(lk) == ChainOf(lk, lk[0].next, MaxNum + 1)

(* The keys along the chain of a [base, link] pair. *)
KeysOf(st) == LET r == RecencyOf(st.link) IN [n \in 1 .. Len(r) |-> st.base.val[r[n]]]

(* Value-initialised (or memset) data: an empty set, every link zero. *)
Init ==
  /\ base = S!Empty /\ link = [i \in Nodes |-> Unlinked]
  /\ last = [op |-> "none", key |-> NoKey, force |-> FALSE, pred |-> Keys, ok |-> FALSE,
            num |-> 0, gone |-> <<>>]
  /\ keys = <<>>

(* Link node i in front of the chain, as insert and active do. *)
LinkFront(lk, i) ==
  LET first == lk[0].next
      l1 == [lk EXCEPT ![first].prev = i]
      l2 == [l1 EXCEPT ![i] = [prev |-> 0, next |-> first]]
  IN  [l2 EXCEPT ![0].next = i]

(* Take node i out of the chain. *)
Unlink(lk, i) ==
  LET n == lk[i].next
      p == lk[i].prev
  IN  [[lk EXCEPT ![p].next = n] EXCEPT ![n].prev = p]

EraseKeyNoUnlink(st, k) ==
  LET r == S!SetErase(st.base, k) IN
  IF r.idx > 0
  THEN [st |-> [base |-> r.st, link |-> [st.link EXCEPT ![r.idx] = Unlinked]], idx |-> r.idx]
  ELSE [st |-> [st EXCEPT !.base = r.st], idx |-> 0]

(* erase(key) on the pair [base, link]: [st, idx]. *)
EraseKey(st, k) ==
  LET r == S!SetErase(st.base, k) IN
  IF r.idx > 0
  THEN [st |-> [base |-> r.st, link |-> [Unlink(st.link, r.idx) EXCEPT ![r.idx] = Unlinked]],
        idx |-> r.idx]
  ELSE [st |-> [st EXCEPT !.base = r.st], idx |-> 0]

(* The key at the least-recent end: deref(m_active_link[0].prev). *)
Oldest(st) == st.base.val[st.link[0].prev]

RECURSIVE DisuseLoop(_, _, _, _, _)

DisuseNoCb(st, n, p, i, gone) ==
  IF i = n THEN [st |-> st, num |-> n, gone |-> gone]
  ELSE IF st.base.used = 0 THEN [st |-> st, num |-> i, gone |-> gone]
  ELSE DisuseLoop(EraseKey(st, Oldest(st)).st, n, p, i + 1, Append(gone, Oldest(st)))

(* disuse(num, cb), from iteration i on: [st, num, gone]. *)
DisuseLoop(st, n, p, i, gone) ==
  IF i = n THEN [st |-> st, num |-> n, gone |-> gone]
  ELSE IF st.base.used = 0 THEN [st |-> st, num |-> i, gone |-> gone]
  ELSE IF Oldest(st) \notin p THEN [st |-> st, num |-> i, gone |-> gone]
  ELSE DisuseLoop(EraseKey(st, Oldest(st)).st, n, p, i + 1, Append(gone, Oldest(st)))

St == [base |-> base, link |-> link]

Apply(st) == base' = st.base /\ link' = st.link /\ keys' = KeysOf(st)

(* insert(value, force, cb) *)
Insert(v, force, p) ==
  LET full == S!IsFull(base)
      d == DisuseLoop(St, 1, p, 0, <<>>)
      st == IF full THEN d.st ELSE St
      r == S!SetInsert(st.base, v)
  IN  IF full /\ S!FindIndex(base, v) # 0
      THEN Ret("insert", v, force, p, FALSE, 0, <<>>) /\ UNCHANGED <<base, link, keys>>
      ELSE IF full /\ (~force \/ d.num = 0)
      THEN Ret("insert", v, force, p, FALSE, 0, <<>>) /\ UNCHANGED <<base, link, keys>>
      ELSE /\ Apply([base |-> r.st,
                       link |-> IF r.ok THEN LinkFront(st.link, r.idx) ELSE st.link])
           /\ Ret("insert", v, force, p, r.ok, IF full THEN d.num ELSE 0, IF full THEN d.gone ELSE <<>>)

(* erase(key) and erase(iterator) *)
Erase(k) ==
  LET r == EraseKey(St, k) IN
  Apply(r.st) /\ Ret("erase", k, FALSE, Keys, r.idx > 0, 0, <<>>)

(* active(key): move a held key to the front. *)
Active(k) ==
  LET i == S!FindIndex(base, k) IN
  /\ Apply([St EXCEPT !.link = IF i # 0 THEN LinkFront(Unlink(link, i), i) ELSE link])
  /\ Ret("active", k, FALSE, Keys, i # 0, 0, <<>>)

(* disuse(num, cb) *)
Disuse(n, p) ==
  LET d == DisuseLoop(St, n, p, 0, <<>>) IN
  Apply(d.st) /\ Ret("disuse", NoKey, FALSE, p, TRUE, d.num, d.gone)

(* clear(): the set is cleared and node 0 reset; the other links keep     *)
(* their values.                                                           *)
Clear ==
  /\ Apply([base |-> S!SetClear(base), link |-> [link EXCEPT ![0] = Unlinked]])
  /\ Ret("clear", NoKey, FALSE, Keys, TRUE, 0, <<>>)

Next ==
  \/ \E k \in Keys, force \in BOOLEAN, p \in Preds : Insert(k, force, p)
  \/ \E k \in Keys : Erase(k) \/ Active(k)
  \/ \E n \in 0 .. MaxNum + 1, p \in Preds : Disuse(n, p)
  \/ Clear

Spec == Init /\ [][Next]_vars

----------------------------------------------------------------------------
(* Properties *)

(* Spec 4.8: every live slot of the set is on the recency chain exactly  *)
(* once and nothing else is; the chain closes back on node 0 and each    *)
(* node's prev is the node before it.                                      *)
ChainExact ==
  LET r == RecencyOf(link) IN
  /\ Len(r) <= MaxNum
  /\ IsInjective(r)
  /\ ToSet(r) = S!LiveSlots(base)
  /\ \A n \in 1 .. Len(r) : link[r[n]].prev = IF n = 1 THEN 0 ELSE r[n - 1]
  /\ link[0].prev = IF r = <<>> THEN 0 ELSE r[Len(r)]

Abstract == INSTANCE RecencyList WITH Capacity <- MaxNum,
              order <- keys

(* The set read along its recency chain is the LRU list of spec 8:       *)
(* insert and active make a key the most recent, disuse(n) evicts the     *)
(* least-recent keys first, min(n, size) of them unless the predicate     *)
(* refuses one, which halts it, and a forced insert into a full set       *)
(* evicts exactly the least-recent key.                                   *)
LRURefinement == Abstract!Spec

(* Spec 8: "after insert or active, the key is the most-recent", which  *)
(* insert of a key already held does not do.                              *)
MostRecentAfterInsert ==
  [][last'.op \in {"insert", "active"} /\ last'.key \in Keys
     /\ last'.key \in {base'.val[i] : i \in S!LiveSlots(base')}
       => base'.val[link'[0].next] = last'.key]_vars

=============================================================================
