SPECIFICATION PartSpec
CONSTANTS
  euro = euro
  dollar = dollar
  RuleId = {euro}
  UsdRule = {}
  JobId = {j1}
  MaxIterations = 2
  MaxDate = 3
  MaxEdits = 1
  RuleInput <- MCStartInput
CHECK_DEADLOCK FALSE
PROPERTY StartRespected
