SPECIFICATION BillingSpec
CONSTANTS
  LastMonth = 2
  FirstDay <- MCFirstDay
  MonthOf <- MCMonthOf
  MaxCycleDay = 3
  ContractOps = {o1}
  ContractDates <- MCContractDates
  InitContracts <- MCInitContracts
  FirstToday = 4
  MaxContracts = 3
  o1 = o1
  Starts <- StartsThree
  Printers <- Fleet
  Installed <- MCInstalled
  DayLength = 3
  TrendStart = 1
  TrendEnd = 7
  EngineReadings = {1, 3}
  PrintedReadings = {0, 2}
  MaxReadings = 3
  Supplies = {"black", "cyan"}
  Percents = {10, 20, 30}
  JumpThreshold = 15
  MinSpan = 2
  MaxReports = 4
  SnmpDevices <- MCSnmpDevices
  MaxPolls = 2
  MaxCuts = 2
CHECK_DEADLOCK FALSE
INVARIANTS
  BillingTypesOK
  AtMostOneActive
  BilledOnce
  NeverOverbilled
  TrendSound
  ForecastSound
  PollSound
PROPERTIES
  RenegotiationKeepsCoverage
  NewestWinsItsFirstDay
