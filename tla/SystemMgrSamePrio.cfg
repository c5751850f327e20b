\* Hooks may add and remove systems of the priority being walked: TLC finds
\* HooksFollowIndex violated (a system skipped or run twice, or a read
\* through an iterator into a buffer push_back freed).
\* Run: tlc -workers 2 -config SystemMgrSamePrio.cfg SystemMgr
CONSTANTS
  Types = {sA, sB, sC, sD}
  MaxSystemsNum = 3
  MaxCalls = 4
  MaxPasses = 1
  SamePrioReentry = TRUE
SPECIFICATION Spec
INVARIANT HooksFollowIndex
