SPECIFICATION Spec
CONSTANTS
  Procs = {p1, p2, p3}
  Names = {n1, n2}
  None = None
  Empty = Empty
  Torn = Torn
  FirstFiles <- NoneOrConfigured
  MaxFaults = 2
SYMMETRY Symmetric
INVARIANTS TypeOK EntriesIssued SoleSaved RevokedKnown
