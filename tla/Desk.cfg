SPECIFICATION DeskSpec
CONSTANTS
  jam = jam
  unassigned = unassigned
  s1 = s1
  s2 = s2
  u1 = u1
  u2 = u2
  Issues <- MCIssues
  StaffTypes <- MCStaffTypes
  ClientTypes <- MCClientTypes
  TicketTypes <- MCTicketTypes
  Users = {u1, u2}
  Cron = "cron"
  MaxSyncs = 3
  MaxEvents = 2
  MaxFailures = 1
  MaxSwitches = 1
  Staff = {s1, s2}
  c1 = c1
  Clients = {c1}
  Hours <- MCHours
  MaxHour = 1
  MaxComments = 1
  MaxUpdates = 3
  MaxRequests = 3
  MaxFileFailures = 1
  Printers = {"a", "b", "c"}
  SerialOf <- MCSerialOf
  SiteOf <- MCOneSite
  Customers = {"x", "y"}
  Hosts = {"h1", "h2"}
  Outside = {"h2"}
  NoSerial = "none"
  NoOne = "nobody"
  Overlap = FALSE
  MaxRows = 2
  MaxMoves = 1
  MaxAttempts = 2
  MaxAnswers = 1
SYMMETRY DeskSymmetry
CHECK_DEADLOCK FALSE
INVARIANTS
  DeskTypesOK
  AnnouncedOnce
  TicketsFollowRows
  TicketsKept
PROPERTIES
  MachinesStayApart
  ReviewStands
