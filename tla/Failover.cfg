CONSTANTS
  d1 = d1
  d2 = d2
  None = None
  Order <- TwoDrivers
  Reports <- LineOrBattery
  Runtime <- Runtimes
  INITTIME = 0
  DEADTIME = 2
  NOPRIMARYTIME = 1
  MAXCONNFAILS = 0
  COOLOFFTIME = 1
  FSDMODE = 2
  CHECKRUNTIME = TRUE
  STRICT = FALSE
  HaveAny = {}
  HaveAll = {}
  NotHaveAny = {}
  NotHaveAll = {}
  POLLINTERVAL = 1
  READTIMEOUT = 1
  LOGOUTTIME = 1
  BACKLOG = 1
  ALARMTIME = 0
  Overrides <- IgnoreTheSecond
  Habits <- Troubles
  Capacity = 1
SPECIFICATION FairSpec
INVARIANTS TypeOK Counted PublishedIsPrimary FallbackIsTakenBack FallbackInTime PrimaryHeard
PROPERTIES Recovers
