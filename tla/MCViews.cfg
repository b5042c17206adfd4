SPECIFICATION SpecPart
CONSTANTS
  TxnId = {1, 2, 3, 4}
  Month = {1, 2, 3}
  MaxCents = 7
  MonthLength = 2
  DayIn <- MCDayIn
  CategoryOf <- MCCategoryOf
  TagsOf <- MCTagsOf
  FromRule = {2}
  HiddenTag = {"car"}
  Life <- MCLife
  AnchorId = {1, 2}
  AnchorCents = {0, 5}
  Place <- MCPlace
  BreakdownLimit = 1
  TagLimit = 1
  DeltaLimit = 1
  DigestLimit = 1
CHECK_DEADLOCK FALSE
INVARIANTS
  KpisAddUp
  FiguresAgree
  CentsKept
  BalancesHold
  SuggestionIsTheMost
