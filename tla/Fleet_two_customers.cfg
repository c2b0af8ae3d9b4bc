SPECIFICATION FleetSpec
CONSTANTS
  Printers = {"a", "b", "c"}
  SerialOf <- MCSerialOf
  SiteOf <- MCTwoSites
  Customers = {"x", "y"}
  Hosts = {"h1", "h2"}
  Outside = {"h2"}
  NoSerial = "none"
  NoOne = "nobody"
  Overlap = FALSE
  MaxRows = 3
  MaxMoves = 2
  MaxAttempts = 2
  MaxAnswers = 1
CHECK_DEADLOCK FALSE
INVARIANT TaggedFromTheFirst
