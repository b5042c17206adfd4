SPECIFICATION PartSpec
CONSTANTS
  Client = {c1, c2}
  Txn = {t1}
  Category = {Food}
  Uncategorized = Uncategorized
  Title = {raw, clean}
  Raw = raw
  Proposal = {p1}
  MaxJobs = 2
  MaxEdits = 2
  MaxRules = 2
  Null = Null
  Data = {d1, d2, few}
  Few = {few}
  First = few
  Reader = {r1, r2}
  MaxTrainings = 2
  MaxStops = 1
  MaxQueued = 1
CHECK_DEADLOCK FALSE
INVARIANTS
  SuggestionsHold
  ReadyMeansTrained
PROPERTIES
  WorkEnds
