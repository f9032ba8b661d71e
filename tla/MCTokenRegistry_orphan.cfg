SPECIFICATION Spec
CONSTANTS
  Requests = {r1, r2}
  Boot = {t0}
  Names = {n1, n2}
  r1 = r1
  r2 = r2
  t0 = t0
  n1 = n1
  n2 = n2
  BootInode = BootInode
  None = None
  Empty = Empty
  Torn = Torn
  MaxFaults = 0
  MaxCancels = 1
  MaxCrashes = 1
SYMMETRY RequestsAndNames
INVARIANT SoleRevokeHolds
