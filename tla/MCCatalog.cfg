SPECIFICATION PartSpec
CONSTANTS
  income = income
  expense = expense
  food = food
  fun = fun
  foot = foot
  trip = trip
  work = work
  t1 = t1
  Type <- MCType
  Expense = expense
  CatName <- MCCatName
  Uncategorized = Uncategorized
  Near <- MCNear
  TagName = {trip, work}
  TagInput = {{}, {trip}}
  Title = {t1}
  Day = {1}
  RuleId = {1}
  RuleInput <- MCRuleInput
  TemplateName = {t1}
  FirstCategories <- MCFirstCategories
  FirstTags <- MCFirstTags
  FirstStanding = {2}
  FirstRules <- MCFirstRules
  FirstTxns <- MCFirstTxns
  MaxTxns = 3
  MaxCategories = 5
  MaxTags = 2
  MaxEdits = 3
  Null = Null
  Client = {c1, c2}
  Txn = {t1}
  MaxAttachments = 1
  MaxKey = 3
SYMMETRY Symmetry
CHECK_DEADLOCK FALSE
INVARIANTS
  WellFormed
  DecisionsStand
  ReceiptsHold
PROPERTIES
  MergesStick
