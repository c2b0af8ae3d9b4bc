SPECIFICATION LifecycleSpec
CONSTANTS
  Codes = {c1, c2}
  Attempts = {x1, x2, x3}
  Admins = {s1}
  NoAttempt = none
  TTL = 1
  MaxTime = 2
  Prices = {0}
  StandardPrice = 3
  MaxDevices = 1
  MaxSessions = 2
  MaxChanges = 3
  MaxRates = 1
  MaxStripeFaults = 1
  Overlap = FALSE
  Builds <- MCBuilds
  FirstBuild <- MCFirstBuild
  Mandatory = {2}
  Platforms = {"windows", "linux"}
  MaxFaults = 1
  MaxRestarts = 1
  MaxRemovals = 1
CHECK_DEADLOCK FALSE
INVARIANTS
  LifecycleTypesOK
  TokensMatchCodes
  StatusFollowsStripe
  WholeBuildNotOlder
PROPERTIES
  ImplementsOneTimeCode
  PaymentUnblocks
  ItemFollowsTenant
  UpdateTakesEffect
