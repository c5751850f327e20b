------------------------- MODULE MC_CrashFingerprint -------------------------
EXTENDS CrashFingerprint

CONSTANTS r1, r2, n1, n2, p1, u1, z1

(* r1, r2: requests with their own seq ids; n1, n2: two one-way frames   *)
(* (seq_id 0, pb_service.cpp:447) with the same gid and cmd; p1: a reply; *)
(* u1: a frame Decode rejects.  r2 and n1 crash the handler.              *)
MCFrames == {r1, r2, n1, n2, p1, u1}
MCTriple ==
  [f \in MCFrames \cup {z1} |->
     CASE f = r1 -> [gid |-> 1, seq |-> 1, cmd |-> 1]
       [] f = r2 -> [gid |-> 1, seq |-> 2, cmd |-> 1]
       [] f = n1 -> [gid |-> 1, seq |-> 0, cmd |-> 2]
       [] f = n2 -> [gid |-> 1, seq |-> 0, cmd |-> 2]
       [] f = p1 -> [gid |-> 1, seq |-> 3, cmd |-> 1]
       [] f = u1 -> [gid |-> 2, seq |-> 4, cmd |-> 1]
       [] f = z1 -> [gid |-> 0, seq |-> 0, cmd |-> 0]]
MCIsRsp == {p1}
MCPoison == {r2, n1}
MCUndecodable == {u1}

(* With z1: a one-way frame of gid 0 and cmd 0. *)
MCFramesZero == {r1, r2, z1}

(* Without z1: a request that crashes the handler and one that does not, *)
(* for the restarts whose mapping fails or finds no file.                *)
MCFramesNoMap == {r1, r2}

=============================================================================
