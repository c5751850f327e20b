-------------------------- MODULE CrashFingerprint --------------------------
(***************************************************************************)
(* The poisoned-frame guard of PBService (src/pb/pb_service.cpp): OnRecv   *)
(* persists the (gid, seq_id, cmd) triple of the frame it is about to      *)
(* handle in a memory-mapped record (CheckPkgMem), and clears it when the  *)
(* frame has been handled (ClearPkgMem).  If the engine crashes while      *)
(* handling a frame, the record survives; after the restart, a frame with  *)
(* the same triple is dropped instead of handled.                          *)
(*                                                                         *)
(* The channel is the default transport's: frames are handed to OnRecv in  *)
(* order and leave the channel when OnRecv returns, so the frame whose     *)
(* handling crashed is delivered again after the restart (the delivery the *)
(* guard is designed for, spec 6).  With a request scheduler, OnRecv only  *)
(* queues requests (OnRequest) and LoopOnce later handles them through     *)
(* DealReqPkg; the scheduler's queue is process memory and is lost in a   *)
(* crash.  A frame in Poison crashes the engine whenever it is handled.    *)
(* Phase order inside SvrProc (scheduler first, then the channel) is      *)
(* relaxed to any interleaving of the two.                                 *)
(*                                                                         *)
(* RegisterPkgMem maps the record with utils::GetMmapMem at every start.  *)
(* The mapping can fail (open, fstat, mmap or msync), in which case        *)
(* shm_pkg_head_ stays null, only an error is logged, CheckPkgMem lets    *)
(* every frame through and ClearPkgMem does nothing; and the file can be  *)
(* gone (an emptied /dev/shm), in which case it is created empty and the  *)
(* record is value-initialised.                                            *)
(***************************************************************************)
EXTENDS Naturals, Sequences, SequencesExt, Functions

CONSTANTS
  Frames,        \* the frames the peers send, as identities
  Triple,        \* Triple[f]: the (gid, seq, cmd) record of frame f
  IsRsp,         \* the frames flagged FLAG_RSP_PKG
  Poison,        \* the frames whose handling crashes the engine
  Undecodable,   \* the frames Decode rejects
  SchedCap,      \* requests the scheduler accepts before OnRequest fails
  MaxCrash,      \* crash counts saturate here
  MapOutcomes,   \* what GetMmapMem may find: "kept", "fresh" or "failed"
  NoFrame

(* The value-initialised CheckHead. *)
Zero == [gid |-> 0, seq |-> 0, cmd |-> 0]

VARIABLES
  channel,   \* frames not yet consumed from the channel (survives crashes)
  fp,        \* *shm_pkg_head_ (survives crashes)
  up,        \* the engine process is running
  pc,        \* "idle", or "deal" while OnRecv's handler runs
  cur,       \* the frame OnRecv is handling
  useSched,  \* SetReqScheduler installed a scheduler at start-up
  sched,     \* the scheduler's queue (lost in a crash)
  shed,      \* requests the scheduler refused or lost in a crash
  handled,   \* frames whose handler ran to completion
  dropped,   \* frames dropped by CheckPkgMem
  crashes,   \* crashes[f]: crashes while handling f
  owed,      \* the triple of the crash the record still stands for, or Zero
  mapped     \* shm_pkg_head_ # nullptr in the running process

vars == <<channel, fp, up, pc, cur, useSched, sched, shed, handled, dropped, crashes, owed, mapped>>

(* GetMmapMem returns a mapping unless one of its system calls failed. *)
Mapped(o) == o # "failed"

(* is_exist: the file was there with a non-zero size; EnsureDir adds     *)
(* O_CREAT when it is absent, and the new empty file is given its size. *)
Exist(o) == o = "kept"

(* RegisterPkgMem on a fresh record, with or without a scheduler; the   *)
(* frames arrive in any order.                                            *)
Init ==
  /\ mapped \in {Mapped(o) : o \in MapOutcomes}
  /\ channel \in {s \in [1 .. Cardinality(Frames) -> Frames] : Range(s) = Frames}
  /\ fp = Zero /\ owed = Zero
  /\ up = TRUE /\ pc = "idle" /\ cur = NoFrame
  /\ useSched \in BOOLEAN /\ sched = <<>> /\ shed = {}
  /\ handled = {} /\ dropped = {}
  /\ crashes = [f \in Frames |-> 0]

Idle == up /\ pc = "idle"

(* The frame leaves the channel as OnRecv returns. *)
Consumed == channel' = Tail(channel)

Crashed(f) ==
  /\ up' = FALSE /\ pc' = "idle" /\ cur' = NoFrame
  /\ sched' = <<>> /\ shed' = shed \cup Range(sched)
  /\ crashes' = [crashes EXCEPT ![f] = IF @ < MaxCrash THEN @ + 1 ELSE @]
  /\ owed' = fp
  /\ UNCHANGED <<channel, fp, useSched, handled, dropped, mapped>>

(* CheckPkgMem's comparison: the record is mapped and holds the triple  *)
(* of frame f.                                                            *)
Recorded(f) == mapped /\ fp = Triple[f]

PersistNoWrite(f) == fp' = fp

(* CheckPkgMem's write of the triple of frame f into the record. *)
Persist(f) == fp' = IF mapped THEN Triple[f] ELSE fp

ClearPkgMemNoop == fp' = fp

(* ClearPkgMem: value-initialise the record. *)
ClearPkgMem == fp' = IF mapped THEN Zero ELSE fp

(* The record no longer stands for a crash once it is overwritten. *)
OwedCleared == owed' = IF mapped THEN Zero ELSE owed

(* OnRecv up to the handler: Decode, CheckPkgMem, and the scheduler path. *)
Recv ==
  LET f == Head(channel) IN
  /\ Idle /\ channel # <<>>
  /\ \/ /\ f \in Undecodable
        /\ Consumed /\ UNCHANGED <<fp, owed, pc, cur, sched, shed, dropped>>
     \/ /\ f \notin Undecodable /\ Recorded(f)
        /\ ClearPkgMem /\ OwedCleared /\ dropped' = dropped \cup {f}
        /\ Consumed /\ UNCHANGED <<pc, cur, sched, shed>>
     \/ /\ f \notin Undecodable /\ ~Recorded(f)
        /\ useSched /\ f \notin IsRsp
        /\ IF Len(sched) < SchedCap
           THEN sched' = Append(sched, f) /\ UNCHANGED shed
           ELSE shed' = shed \cup {f} /\ UNCHANGED sched
        /\ ClearPkgMem /\ OwedCleared
        /\ Consumed /\ UNCHANGED <<pc, cur, dropped>>
     \/ /\ f \notin Undecodable /\ ~Recorded(f)
        /\ ~useSched \/ f \in IsRsp
        /\ Persist(f) /\ OwedCleared
        /\ pc' = "deal" /\ cur' = f
        /\ UNCHANGED <<channel, sched, shed, dropped>>
  /\ UNCHANGED <<up, useSched, handled, crashes, mapped>>

(* DealRequest or DealResponse returns, then ClearPkgMem. *)
Deal ==
  /\ up /\ pc = "deal" /\ cur \notin Poison
  /\ handled' = handled \cup {cur}
  /\ ClearPkgMem /\ pc' = "idle" /\ cur' = NoFrame
  /\ Consumed
  /\ UNCHANGED <<up, useSched, sched, shed, dropped, crashes, owed, mapped>>

(* The handler of a poisoned frame crashes the process. *)
Crash == up /\ pc = "deal" /\ cur \in Poison /\ Crashed(cur)

(* LoopOnce handing the oldest queued request to DealReqPkg. *)
LoopOnce ==
  LET f == Head(sched) IN
  /\ Idle /\ sched # <<>>
  /\ IF f \in Poison
     THEN Crashed(f)
     ELSE /\ handled' = handled \cup {f} /\ sched' = Tail(sched)
          /\ UNCHANGED <<channel, fp, up, pc, cur, useSched, shed, dropped, crashes, owed, mapped>>

RestartClearsFp ==
  /\ ~up /\ up' = TRUE /\ fp' = Zero
  /\ \E o \in MapOutcomes : mapped' = Mapped(o)
  /\ UNCHANGED <<channel, pc, cur, useSched, sched, shed, handled, dropped, crashes, owed>>

(* The process is started again and RegisterPkgMem maps the record: a   *)
(* record found (exist = true) is left as it is, a new one is            *)
(* value-initialised, and a failed mapping leaves shm_pkg_head_ null.   *)
Restart ==
  /\ ~up /\ up' = TRUE
  /\ \E o \in MapOutcomes :
       /\ mapped' = Mapped(o)
       /\ IF Mapped(o) /\ ~Exist(o)
          THEN fp' = Zero /\ owed' = Zero
          ELSE UNCHANGED <<fp, owed>>
  /\ UNCHANGED <<channel, pc, cur, useSched, sched, shed, handled, dropped, crashes>>

(* SvrProc with nothing to receive and nothing queued. *)
Poll ==
  /\ Idle /\ channel = <<>> /\ sched = <<>>
  /\ UNCHANGED vars

Next == Recv \/ Deal \/ Crash \/ LoopOnce \/ Restart \/ Poll

(* The engine loop runs whenever it can, and a crashed engine is started *)
(* again by its supervisor.                                               *)
Spec == Init /\ [][Next]_vars /\ WF_vars(Next)

----------------------------------------------------------------------------
(* Properties *)

(* A frame that crashed the engine never crashes it a second time: the   *)
(* record written by CheckPkgMem before the crash drops it when it is    *)
(* delivered again after the restart.                                     *)
NoRepeatCrash == \A f \in Frames : crashes[f] <= 1

(* CheckPkgMem drops a frame only when the record holds the triple of a  *)
(* frame whose handling crashed the previous process (spec 6: "a stale   *)
(* non-zero triple").  A record left behind by a handled frame, or the   *)
(* cleared record, must never make OnRecv drop a frame.                   *)
DropOnlyCrashed ==
  [][\A f \in Frames :
       f \notin dropped /\ f \in dropped' => owed # Zero /\ owed = Triple[f]]_vars

(* Every frame that is decodable and not poisoned is eventually handled, *)
(* however the poisoned frames interleave with it, unless it is a request *)
(* the scheduler refused or held when the process crashed.               *)
EveryHealthyHandled ==
  \A f \in Frames \ (Poison \cup Undecodable) : <>(f \in handled \cup shed)

=============================================================================
