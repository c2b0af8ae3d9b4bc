SPECIFICATION NotificationsSpec
CONSTANTS
  jam = jam
  unassigned = unassigned
  u1 = u1
  u2 = u2
  Issues <- MCIssues
  StaffTypes <- MCStaffTypes
  ClientTypes <- MCClientTypes
  TicketTypes <- MCTicketTypes
  Users = {}
  Cron = "cron"
  MaxSyncs = 3
  MaxEvents = 3
  MaxFailures = 0
  MaxSwitches = 0
CHECK_DEADLOCK FALSE
INVARIANT SilencedOnlyByStaff
