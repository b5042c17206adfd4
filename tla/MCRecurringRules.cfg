SPECIFICATION FairPartSpec
CONSTANTS
  euro = euro
  dollar = dollar
  RuleId = {euro, dollar}
  UsdRule = {dollar}
  JobId = {j1, j2}
  MaxIterations = 2
  MaxDate = 2
  MaxEdits = 2
  RuleInput <- MCRuleInput
CHECK_DEADLOCK FALSE
INVARIANTS
  ExistsAnswerHolds
PROPERTIES
  EventuallyCaughtUp
  NothingSkipped
