SPECIFICATION OrganizerSpec
CONSTANTS
  l1 = l1
  l2 = l2
  Lines = {l1, l2}
  MaxTime = 2
  MaxDays = 2
  MaxPrompts = 2
  MaxCommands = 2
  MaxMixed = 2
  MaxDrops = 1
  RemindersEnv = {"tool"}
  Window = 1
  MeetingsEnv = {"store_fails"}
INVARIANTS
  NotificationFollows
  SummaryHearsTheEnd
CHECK_DEADLOCK FALSE
PROPERTIES
  ScheduledNeverReplaces
  ReminderIsAsked
