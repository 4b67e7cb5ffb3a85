\* A primary and two secondaries that come, go and shut down; HOSTSYNC covers a
\* poll interval and FINALDELAY.
CONSTANTS
  p = p
  s1 = s1
  s2 = s2
  joe = joe
  Primary = p
  Secondaries = {s1, s2}
  Creds = {joe}
  POLLFREQ = 1
  POLLFREQALERT = 1
  DEADTIME = 2
  HOSTSYNC = 2
  FINALDELAY = 1
  OFFDURATION = 1
  OBLBDURATION = 0
  OVERDURATION = 0
  ALARMCRITICAL = TRUE
  Horizon = 3
  MaxGhosts = 1
  Faults = {}
SPECIFICATION FairSpec
INVARIANTS InTime
PROPERTIES WarnedGoDown
CHECK_DEADLOCK FALSE
