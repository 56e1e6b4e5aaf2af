SPECIFICATION Spec
CONSTANTS
  Procs = {p, q}
  p = p
  q = q
  Versions = {"old", "new"}
  Length = 2
  MaxFaults = 2
INVARIANTS
  CacheInv
  BootsVerified
PROPERTIES
  Recovers
