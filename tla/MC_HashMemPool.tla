---------------------------- MODULE MC_HashMemPool ----------------------------
EXTENDS HashMemPool

CONSTANTS k1, k2, k3

(* Two nodes of a 64-bit KEY and VALUE (HashNode: 24 bytes), two buckets *)
(* and three keys: k1 and k2 share bucket 0, so a chain of two occurs,     *)
(* and a full pool meets a third key.                                      *)
MCKeys == {k1, k2, k3}
MCHash == [k \in MCKeys |-> IF k \in {k1, k2} THEN 0 ELSE 1]

(* A caller passing calc_mem_size, or one node's bytes fewer. *)
MCExact == {CalcMemSize}
MCShort == {CalcMemSize, CalcMemSize - TSize}

=============================================================================
