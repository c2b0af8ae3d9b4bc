SPECIFICATION Spec
CONSTANTS
  LastMonth = 3
  FirstDay <- LongFirstDay
  MonthOf <- LongMonthOf
  MaxCycleDay = 3
  ContractOps = {}
  ContractDates <- RenewalDates
  InitContracts <- OpenContract
  FirstToday = 3
  MaxContracts = 2
  Staff = {}
  Cron = "cron"
  StaffMay = {"setCycleDay"}
  CycleDays = {1, 2, 3}
  FirstCycleDays = {1, 2, 3}
  InitInvoices <- NewCustomer
  MaxMissed = 1
  MaxDayChanges = 1
CHECK_DEADLOCK FALSE
INVARIANT LivePeriodsDisjoint
