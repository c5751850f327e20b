----------------------------- MODULE MC_MemLRUSet -----------------------------
EXTENDS MemLRUSet, TLC

CONSTANTS k1, k2, k3, k4

(* Three slots, as in spec scenario 5, and four keys so that a full set   *)
(* meets a new key.  A compile-time set of this size has one bucket        *)
(* (fix_bucket_size: MAX_SIZE <= 50), so every key hashes to bucket 0.    *)
MCKeys == {k1, k2, k3, k4}
MCHash == [k \in MCKeys |-> 0]

(* No callback (every key accepted), and callbacks refusing one key.     *)
MCPreds == {MCKeys} \cup {MCKeys \ {k} : k \in MCKeys}

(* With one bucket and these predicates, renaming keys maps behaviours   *)
(* to behaviours.                                                          *)
MCSymmetry == Permutations(MCKeys)

=============================================================================
