\* Reloads change the list, the roles and the credentials; signals arrive at any
\* time, files fail and processes die.
CONSTANTS
  u1 = u1
  u2 = u2
  joe = joe
  eve = eve
  UPS = {u1, u2}
  Creds = {joe, eve}
  Reports <- LineReports
  Configs <- ReloadConfigs
  POLLFREQ = 1
  POLLFREQALERT = 1
  DefaultSleep = 1
  DEADTIME = 1
  HOSTSYNC = 1
  OFFDURATION = 0
  OBLBDURATION = 0
  OVERDURATION = 0
  ALARMCRITICAL = TRUE
  Horizon = 2
  MINSUPPLIES = 1
  FINALDELAY = 1
  SHUTDOWNEXIT = 1
  UsePipe = TRUE
  Inhibitor = FALSE
  Suspends = FALSE
  SlowPolls = FALSE
  Signals = {"fsd", "reload", "exit"}
  Faults = {"unreadable", "vanished", "crash", "parent_dies", "no_pdflag"}
SPECIFICATION Spec
INVARIANTS TypeOK LoginNeedsConnection RoleAsConfigured FlagMeansShutdown
PROPERTIES ShutdownIsFinal
