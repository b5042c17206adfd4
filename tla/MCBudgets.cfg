SPECIFICATION Spec
CONSTANTS
  Scope = {c1, c2}
  LastMonth = 3
  Amount = {a1, a2}
  StartsOn = {0, 3, 4}
  EndsOn = {3, 5, Null}
  Null = Null
  MaxEdits = 3
SYMMETRY Symmetry
CHECK_DEADLOCK FALSE
PROPERTIES
  OnwardChangesItsMonths
  StaysDisjoint
  PlanAsShown
  UndoGivesBack
  MergeKeepsBudgets
