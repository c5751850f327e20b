------------------------------ MODULE KeyTable ------------------------------
(***************************************************************************)
(* What a bounded hash set promises (spec 4.8, 8): each key is held at     *)
(* most once, under a handle (a 1-based slot index) that stays the same    *)
(* while the key is held; insert of a held key returns its handle and      *)
(* false, insert into a full table returns 0 and false, otherwise the key  *)
(* gets a free handle; erase returns the handle the key had, or 0.         *)
(* When FullFirst holds, insert into a full table may also answer a held  *)
(* key with 0 and false, as an insert that checks full() before looking    *)
(* the key up does.  `last` is the last call: its key and what it returned.*)
(***************************************************************************)
EXTENDS Naturals, FiniteSets, Functions

CONSTANTS Capacity, Keys, NoKey, FullFirst

VARIABLES table, last

Handles == 1 .. Capacity

Init == table = [k \in {} |-> 0] /\ last = [op |-> "none", key |-> NoKey, idx |-> 0, ok |-> FALSE]

Ret(op, k, idx, ok) == last' = [op |-> op, key |-> k, idx |-> idx, ok |-> ok]

Insert(v) ==
  \/ /\ v \in DOMAIN table
     /\ \E h \in {table[v]} \cup (IF FullFirst /\ Cardinality(DOMAIN table) = Capacity
                                THEN {0} ELSE {}) :
          Ret("insert", v, h, FALSE)
     /\ UNCHANGED table
  \/ /\ v \notin DOMAIN table /\ Cardinality(DOMAIN table) = Capacity
     /\ Ret("insert", v, 0, FALSE) /\ UNCHANGED table
  \/ /\ v \notin DOMAIN table
     /\ \E h \in Handles \ Range(table) :
          table' = [k \in DOMAIN table \cup {v} |-> IF k = v THEN h ELSE table[k]]
          /\ Ret("insert", v, h, TRUE)

Erase(k) ==
  /\ table' = Restrict(table, DOMAIN table \ {k})
  /\ Ret("erase", k, IF k \in DOMAIN table THEN table[k] ELSE 0, FALSE)

Clear == table' = [k \in {} |-> 0] /\ Ret("clear", NoKey, 0, FALSE)

Next == \E k \in Keys : Insert(k) \/ Erase(k) \/ Clear

Spec == Init /\ [][Next]_<<table, last>>

=============================================================================
