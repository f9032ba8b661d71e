SPECIFICATION FairSpec
CONSTANTS
  Requests = {r1, r2}
  Boot = {t0}
  Names = {n1, n2}
  r1 = r1
  r2 = r2
  t0 = t0
  n1 = n1
  n2 = n2
  BootInode = BootInode
  None = None
  Empty = Empty
  Torn = Torn
  MaxFaults = 2
  MaxCancels = 2
  MaxCrashes = 0
INVARIANT NamesUnique
INVARIANT SnapshotIsMemory
INVARIANT AckedCreateHeld
INVARIANT SoleRevokeHolds
PROPERTY EveryRequestEnds
PROPERTY ImplementsTable
