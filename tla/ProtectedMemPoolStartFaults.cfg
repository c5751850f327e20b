\* Reproduction: starts may fail (an mprotect returning ENOMEM) or be cut
\* short by the process dying, and the next start re-attaches the region.
\* Run with: tlc -workers 2 -config ProtectedMemPoolStartFaults.cfg ProtectedMemPool
CONSTANTS
  MaxNum = 2
  TSize = 2
  StartFaults = TRUE
  MaxRestarts = 3
SPECIFICATION Spec
PROPERTY NoPhantomHandles
