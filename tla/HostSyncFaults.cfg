\* A primary and a secondary that comes, goes and shuts down; data go stale and
\* links break.
CONSTANTS
  p = p
  s1 = s1
  s2 = s2
  joe = joe
  Primary = p
  Secondaries = {s1}
  Creds = {joe}
  POLLFREQ = 1
  POLLFREQALERT = 1
  DEADTIME = 2
  HOSTSYNC = 2
  FINALDELAY = 1
  OFFDURATION = 1
  OBLBDURATION = 0
  OVERDURATION = 0
  ALARMCRITICAL = TRUE
  Horizon = 3
  MaxGhosts = 2
  Faults = {"stale", "link"}
SPECIFICATION Spec
INVARIANTS TypeOK
PROPERTIES IsOrderly
CHECK_DEADLOCK FALSE
