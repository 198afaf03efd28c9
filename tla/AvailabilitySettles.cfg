SPECIFICATION FairSpec
CONSTANTS
  d1 = d1
  d2 = d2
  Devices = {d1}
  Interval = 1
  PushPreempts = FALSE
  Chatty = FALSE
  MaxPeriod = 4
  MaxStatus = 2
  MaxMail = 2
  MaxFaults = 1
CHECK_DEADLOCK FALSE
INVARIANTS TypeOK TrafficIsBelieved
PROPERTIES NoResurrection EntityFollows
