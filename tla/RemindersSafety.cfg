SPECIFICATION FairSpec
CONSTANTS
  r1 = r1
  r2 = r2
  a1 = a1
  a2 = a2
  Reminders = {r1, r2}
  Admins = {a1, a2}
  Columns = {1, 2}
  MaxCommands = 3
  MaxCount = 2
INVARIANTS
  CountsDeliveries
  ScheduleFollowed
PROPERTIES
  QuietAfterCommand
  DueIsDealtWith
