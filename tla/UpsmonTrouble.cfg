\* One UPS, as primary or as secondary, every trouble it can report, each delay of
\* the configuration at work, and a host that is suspended at any point.
CONSTANTS
  u1 = u1
  u2 = u2
  joe = joe
  eve = eve
  UPS = {u1}
  Creds = {joe}
  Reports <- TroubleReports
  Configs <- EitherRole
  POLLFREQ = 2
  POLLFREQALERT = 1
  DefaultSleep = 1
  DEADTIME = 1
  HOSTSYNC = 2
  OFFDURATION = 1
  OBLBDURATION = 2
  OVERDURATION = 1
  ALARMCRITICAL = TRUE
  Horizon = 3
  MINSUPPLIES = 1
  FINALDELAY = 1
  SHUTDOWNEXIT = 0
  UsePipe = FALSE
  Inhibitor = TRUE
  Suspends = TRUE
  SlowPolls = TRUE
  Signals = {"reload", "exit"}
  Faults = {}
SPECIFICATION Spec
INVARIANTS ShutdownIsJustified NapIsSafe
