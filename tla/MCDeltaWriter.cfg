SPECIFICATION Spec
CONSTANTS
  Keys = {k1, k2}
  Payloads = {p1, p2}
  Malformed = Malformed
  Writers = {w1, w2, w3}
  MaxBatch = 2
SYMMETRY Symmetry
INVARIANTS
  NoDuplicateKeys
  ReportedIsStored
  CountsAddUp
PROPERTIES
  ImplementsInsertOnlyLog
