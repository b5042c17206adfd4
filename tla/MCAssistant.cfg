SPECIFICATION PartSpec
CONSTANTS
  w1 = w1
  w2 = w2
  k1 = k1
  k2 = k2
  Client = {w1, w2}
  Call = {k1, k2}
  MaxTurns = 2
  MaxActions = 3
  t1 = t1
  t2 = t2
  t3 = t3
  t4 = t4
  Txn = {t1, t2, t3, t4}
  Id <- Ids
  Income = {t3}
  Paid = t3
  Spare = {t4, "new"}
  Category = {"uncategorized", "food", "salary", "new"}
  Tag = {"tag"}
  Rule = {"rent"}
  Uncategorized = "uncategorized"
  Name = {"U", "X", "Y", "Z"}
  Title = {"a", "b"}
  Note = {"none", "note"}
  NoNotes = "none"
  MaxCents = 3
  MaxDay = 2
  Percent = {50}
  Change <- Edits
  Unsaid = Unsaid
  Card = {1, 2}
  MaxTouches = 1
  Start <- Books
  Null = Null
CHECK_DEADLOCK FALSE
SYMMETRY Interchangeable
INVARIANTS
  AppliedOnce
  CardsAreLive
  PlansHold
PROPERTIES
  DeletedStaysDeleted
  RetryKeepsApproved
  ImplementsLifecycle
  AnsweredInOneWindow
  ApprovalsAreSafe
