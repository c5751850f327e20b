---------------------------- MODULE RecencyList ----------------------------
(***************************************************************************)
(* What a bounded LRU set does (spec 4.8, 8), as a sequence of distinct    *)
(* keys, most recent first.  insert adds a new key as the most recent; a   *)
(* full set takes it only with force and when the predicate lets the      *)
(* least-recent key be evicted; insert of a held key leaves the order as  *)
(* it is.  active moves a held key to the front.  disuse(n, p) evicts from *)
(* the least-recent end, at most n keys, and stops at the first key p     *)
(* refuses (Preds: the predicates callers pass, as the sets of keys they *)
(* accept).  `last` is the last call: its key, its result, and the keys   *)
(* it evicted, least recent first.                                         *)
(***************************************************************************)
EXTENDS Naturals, Sequences, SequencesExt

CONSTANTS Capacity, Keys, Preds, NoKey

VARIABLES order, last

(* A call with its arguments (key, force, predicate) and its results. *)
Ret(op, k, f, p, ok, num, gone) ==
  last' = [op |-> op, key |-> k, force |-> f, pred |-> p, ok |-> ok, num |-> num, gone |-> gone]

Init == order = <<>> /\ last = [op |-> "none", key |-> NoKey, force |-> FALSE, pred |-> Keys, ok |-> FALSE,
            num |-> 0, gone |-> <<>>]

Held == ToSet(order)

(* The j least-recent keys may all be evicted under p. *)
Evictable(j, p) == j <= Len(order) /\ \A t \in 0 .. j - 1 : order[Len(order) - t] \in p

(* The keys the j least-recent, least recent first. *)
Oldest(j) == Reverse(SubSeq(order, Len(order) - j + 1, Len(order)))

Insert(v, force, p) ==
  \/ v \in Held /\ Ret("insert", v, force, p, FALSE, 0, <<>>) /\ UNCHANGED order
  \/ /\ v \notin Held /\ Len(order) < Capacity
     /\ order' = <<v>> \o order /\ Ret("insert", v, force, p, TRUE, 0, <<>>)
  \/ /\ v \notin Held /\ Len(order) = Capacity
     /\ ~force \/ ~Evictable(1, p)
     /\ Ret("insert", v, force, p, FALSE, 0, <<>>) /\ UNCHANGED order
  \/ /\ v \notin Held /\ Len(order) = Capacity /\ force /\ Evictable(1, p)
     /\ order' = <<v>> \o SubSeq(order, 1, Len(order) - 1)
     /\ Ret("insert", v, force, p, TRUE, 1, Oldest(1))

Erase(k) ==
  /\ order' = SelectSeq(order, LAMBDA x : x # k)
  /\ Ret("erase", k, FALSE, Keys, k \in Held, 0, <<>>)

Active(k) ==
  /\ order' = IF k \in Held THEN <<k>> \o SelectSeq(order, LAMBDA x : x # k) ELSE order
  /\ Ret("active", k, FALSE, Keys, k \in Held, 0, <<>>)

Disuse(n, p) ==
  LET m == CHOOSE j \in 0 .. n : Evictable(j, p) /\ (j = n \/ ~Evictable(j + 1, p)) IN
  /\ order' = SubSeq(order, 1, Len(order) - m)
  /\ Ret("disuse", NoKey, FALSE, p, TRUE, m, Oldest(m))

Clear == order' = <<>> /\ Ret("clear", NoKey, FALSE, Keys, TRUE, 0, <<>>)

Next ==
  \/ \E k \in Keys, force \in BOOLEAN, p \in Preds : Insert(k, force, p)
  \/ \E k \in Keys : Erase(k) \/ Active(k)
  \/ \E n \in 0 .. Capacity + 1, p \in Preds : Disuse(n, p)
  \/ Clear

Spec == Init /\ [][Next]_<<order, last>>

=============================================================================
