\* Two variables, and a socket that is too small for a dump of them.
CONSTANTS
  Optional = {"x"}
  Values <- TwoVars
  MAXAGE = 3
  PollTime = 1
  Busy = 1
  Capacity = 2
  CmdCapacity = 2
SPECIFICATION FairSpec
INVARIANTS TypeOK Consistent LiveNotStale
PROPERTIES Settles
