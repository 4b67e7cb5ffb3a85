CONSTANTS
  d1 = d1
  d2 = d2
  Events = 2
  Daemons = {d1, d2}
  Jobs <- OneTimer
  EMPTY_WAIT = 2
  MAX_TRIES = 2
SPECIFICATION FairSpec
INVARIANTS TypeOK ExactlyOnce CancelFindsIt
PROPERTIES AllEnds
