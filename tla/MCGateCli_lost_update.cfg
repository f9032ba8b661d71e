SPECIFICATION Spec
CONSTANTS
  Procs = {p1, p2}
  Names = {n1, n2}
  None = None
  Empty = Empty
  Torn = Torn
  FirstFiles <- OneConfigured
  MaxFaults = 0
SYMMETRY Symmetric
INVARIANT LostUpdate
