SPECIFICATION Spec
CONSTANTS
  Requests = {r1, r2, r3}
  Boot = {t0}
  Names = {n1, n2}
  r1 = r1
  r2 = r2
  r3 = r3
  t0 = t0
  n1 = n1
  n2 = n2
  BootInode = BootInode
  None = None
  Empty = Empty
  Torn = Torn
  MaxFaults = 1
  MaxCancels = 0
  MaxCrashes = 1
SYMMETRY RequestsAndNames
INVARIANT TypeOK
INVARIANT NamesUnique
INVARIANT SnapshotIsMemory
INVARIANT LastSuccessDurable
INVARIANT AckedCreateHeld
INVARIANT SoleRevokeHolds
PROPERTY ImplementsTable
