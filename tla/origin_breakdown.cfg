SPECIFICATION Spec
CONSTANTS
  W1 = w1
  W2 = w2
  Items = {a, b}
  Codes <- MCCodes
  NoCode = NoCode
  Absent = Absent
  Workers = {w1, w2}
  Pools <- MCOneWorker
  MaxFailures <- MCMaxFailures
  PermitRules <- MCPermitRules
  MaxBatches = 3
  CepaRules <- MCCepaRules
  CaseFold <- MCCaseFold
  Origin = "INDIA"
  Destination = "UAE"
  NoCountry = NoCountry
  Breakdowns <- MCBreakdowns
  NoValue = NoValue
  NoItem = NoItem
  Handlers = {h1}
  MaxRequests <- MCMaxRequests
CHECK_DEADLOCK FALSE
PROPERTY BreakdownKept
