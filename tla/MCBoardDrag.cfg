CONSTANTS
  Base = 6
  Threshold = 1
  None = None
  Gone = Gone
  Untouched = Untouched
  k1 = k1
  k2 = k2
  own1 = own1
  own2 = own2
  other = other
  m1 = m1
  m2 = m2
  m3 = m3
  ColumnIds = {1, 2, 3, 4}
  Reqs = {own1, own2, other}
  Own = {own1, own2}
  Cards = {k1, k2}
  CardCalls = {m1, m2, m3}
  Workloads <- MCWorkloads
  InitialRows <- MCRows
SPECIFICATION Spec
INVARIANTS
  PreviewEnds
  DistinctRanks
PROPERTIES
  DropsAreSent
  DroppedWhereShown
