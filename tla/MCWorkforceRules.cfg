SPECIFICATION MCSpec
CONSTANTS
  Units = {a, b, c}
  NoParent = NoParent
  Values = {"unit"}
  Dates <- MCDates
  Times <- MCTimes
  Sessions = {s1, s2}
  Histories <- MCHistories
  MaxRows = 5
  LastDay = 3
  Days <- MCDays
  Forever = 9
  Ratios = {4000, 6000}
  MaxSaved = 3
SYMMETRY MCSymmetry
INVARIANTS
  NoDayOversold
  NoDayUncovered
  CoverageComplete
  OneVersionPerCoordinate
  CyclesRefused
PROPERTY
  EarlierKnowledgeStands
CHECK_DEADLOCK FALSE
