SPECIFICATION Spec
CONSTANTS
  a = a
  b = b
  UPS <- MCUPS
  Procs <- MCProcs
  Table <- MCTable
  sdorder <- MCOrder
  maxretry <- MCOnce
  maxstartdelay <- MCDelay
  Asks = 1
  Terms = 1
  Polls = 1
  MaxRuns = 1
  MaxFaults = 1
  Faults = {"crash", "hang", "interrupt"}
PROPERTIES Ends
INVARIANTS TypeOK OneOwner StopReleases ShutdownTold StartMeansUp
CHECK_DEADLOCK FALSE
