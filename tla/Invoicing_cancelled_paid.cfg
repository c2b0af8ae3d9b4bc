SPECIFICATION Spec
CONSTANTS
  LastMonth = 2
  FirstDay <- ShortFirstDay
  MonthOf <- ShortMonthOf
  MaxCycleDay = 2
  ContractOps = {}
  ContractDates = {}
  InitContracts <- OpenContract
  FirstToday = 2
  MaxContracts = 1
  Staff = {s1, s2}
  s1 = s1
  s2 = s2
  Cron = "cron"
  StaffMay = {"pay", "cancel"}
  CycleDays = {}
  FirstCycleDays = {2}
  InitInvoices <- NewCustomer
  MaxMissed = 1
  MaxDayChanges = 0
CHECK_DEADLOCK FALSE
PROPERTY CancelledNeverPaid
