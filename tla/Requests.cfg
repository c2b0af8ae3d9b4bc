SPECIFICATION RequestsSpec
CONSTANTS
  LastMonth = 2
  FirstDay <- ShortFirstDay
  MonthOf <- ShortMonthOf
  MaxCycleDay = 2
  ContractOps = {"c1"}
  ContractDates = {}
  InitContracts <- OpenContract
  FirstToday = 2
  MaxContracts = 1
  Staff = {s1, s2}
  s1 = s1
  s2 = s2
  Cron = "cron"
  StaffMay = {"generate", "pay", "cancel", "contracts"}
  CycleDays = {}
  FirstCycleDays = {2}
  InitInvoices <- NewCustomer
  MaxMissed = 1
  MaxDayChanges = 0
  Sessions = {p1}
  Commands = {"RESTART", "UPDATE", "DISCOVER"}
  Slots = {a1, a2}
  Expiry = 0
  MaxTime = 1
  MaxRequests = 2
  MaxLost = 1
  MaxReboots = 1
  p1 = p1
  a1 = a1
  a2 = a2
SYMMETRY RequestsSymmetry
CHECK_DEADLOCK FALSE
INVARIANTS
  LivePeriodsDisjoint
  OnlyClosedPeriods
  RepeatedOnlyAfterLostAck
PROPERTIES
  OnlyReplacingRevives
