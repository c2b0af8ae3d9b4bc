SPECIFICATION StaffSpec
CHECK_DEADLOCK FALSE
INVARIANTS
  StaffTypesOK
  EveryDayBilledInTurn
  RedirectsEnd
  NeverWronglyRefused
  ShownIsCurrent
PROPERTIES
  InvoicesKeepTheirPast
CONSTANTS
  LastMonth = 4
  FirstDay <- MCFirstDay
  MonthOf <- MCMonthOf
  MaxCycleDay = 3
  ContractOps = {}
  ContractDates = {3}
  InitContracts <- OpenContract
  FirstToday = 3
  MaxContracts = 2
  Staff = {"s1"}
  Cron = "cron"
  StaffMay = {"generate", "pay", "cancel", "setCycleDay"}
  CycleDays = {1, 2, 3}
  FirstCycleDays = {1, 2, 3}
  InitInvoices <- NewCustomer
  MaxMissed = 1
  MaxDayChanges = 1
  Audience <- Viewers
  KeySets <- SomeKeys
  MaxRedirects = 4
  MaxChanges = 2
