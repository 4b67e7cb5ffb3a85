\* Two UPSes on battery and back, primary of one and secondary of the other;
\* polls may be slow.
CONSTANTS
  u1 = u1
  u2 = u2
  joe = joe
  eve = eve
  UPS = {u1, u2}
  Creds = {joe}
  Reports <- BatteryReports
  Configs <- PrimaryOfOne
  POLLFREQ = 1
  POLLFREQALERT = 1
  DefaultSleep = 1
  DEADTIME = 1
  HOSTSYNC = 1
  OFFDURATION = 1
  OBLBDURATION = 0
  OVERDURATION = 0
  ALARMCRITICAL = TRUE
  Horizon = 3
  MINSUPPLIES = 1
  FINALDELAY = 1
  SHUTDOWNEXIT = 0
  UsePipe = TRUE
  Inhibitor = FALSE
  Suspends = FALSE
  SlowPolls = TRUE
  Signals = {}
  Faults = {}
SPECIFICATION FairSpec
INVARIANTS ShutdownIsJustified NapIsSafe
PROPERTIES FailureShutsDown ForcedIsOrdered
