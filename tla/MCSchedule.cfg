SPECIFICATION ScheduleSpec
CONSTANTS
  LastMonth = 83
  FirstDay <- MCFirstDay
  ScheduleInput <- MCRuleInput
  MaxReschedules = 1
  Horizon = 2
  Season <- MCSeason
  Rate <- MCRate
  Weight <- MCWeight
  StartBalance = 4
  Earning = 2
  Spending <- MCSpending
  OtherRules <- MCOtherRules
  RuleColumns <- MCRuleColumns
  Modification <- MCModification
  ForecastMonth <- MCForecastMonth
  MaxTotal = 3
  HistoryLength = 5
CHECK_DEADLOCK FALSE
INVARIANTS
  ForecastHolds
  ScenarioAddsUp
PROPERTIES
  KeepsTheDay
  EveryPeriodOnce
