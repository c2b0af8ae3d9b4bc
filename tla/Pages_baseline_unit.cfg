SPECIFICATION Spec
CONSTANTS
  Starts <- StartsThree
  Printers <- PartlyRead
  Installed <- MCInstalled
CHECK_DEADLOCK FALSE
INVARIANTS NeverOverbilled
