CONSTANTS
  r1 = r1  r2 = r2  n1 = n1  n2 = n2  p1 = p1  u1 = u1  z1 = z1
  NoFrame = NoFrame
  Frames <- MCFramesNoMap
  Triple <- MCTriple
  IsRsp <- MCIsRsp
  Poison <- MCPoison
  Undecodable <- MCUndecodable
  SchedCap = 1
  MaxCrash = 2
  MapOutcomes = {"kept", "fresh", "failed"}
SPECIFICATION Spec
INVARIANT NoRepeatCrash
