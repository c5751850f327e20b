----------------------------- MODULE HandlePool -----------------------------
(***************************************************************************)
(* What a fixed-capacity pool promises its caller: alloc hands out a       *)
(* handle not in use, or null (0) when all Capacity handles are in use;    *)
(* free(p) succeeds exactly when p is the address of a handle in use, and  *)
(* then releases it; clear releases everything and returns nothing (0).   *)
(* `call`, `arg` and `result` record the last operation, its pointer       *)
(* argument and what it returned.                                          *)
(***************************************************************************)
EXTENDS Naturals, FiniteSets

CONSTANTS Capacity, Ptrs, HandlePtr(_)

VARIABLES inuse, call, arg, result

Handles == 1 .. Capacity

Init == inuse = {} /\ call = "none" /\ arg = 0 /\ result = 0

Alloc ==
  /\ call' = "alloc"
  /\ \/ /\ Cardinality(inuse) = Capacity
        /\ result' = 0
        /\ UNCHANGED inuse
     \/ \E h \in Handles \ inuse :
          /\ inuse' = inuse \cup {h}
          /\ result' = h
  /\ UNCHANGED arg

Free(p) ==
  /\ call' = "free" /\ arg' = p
  /\ IF \E h \in inuse : HandlePtr(h) = p
     THEN /\ inuse' = {h \in inuse : HandlePtr(h) # p}
          /\ result' = TRUE
     ELSE /\ result' = FALSE
          /\ UNCHANGED inuse

Clear ==
  /\ call' = "clear" /\ inuse' = {} /\ result' = 0
  /\ UNCHANGED arg

Next == Alloc \/ (\E p \in Ptrs : Free(p)) \/ Clear

Spec == Init /\ [][Next]_<<inuse, call, arg, result>>

=============================================================================
