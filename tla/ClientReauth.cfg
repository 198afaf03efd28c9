SPECIFICATION FairSpec
CONSTANTS
  p1 = p1
  p2 = p2
  unload = unload
  a1 = a1
  a2 = a2
  Polls = {p1, p2}
  FirstRefresh = p1
  Entry = unload
  Appliances = {a1, a2}
  Inventories <- BothOrNone
  Retries = 2
  MaxSessions = 3
  MaxRotations = 1
  MaxFaults = 1

CHECK_DEADLOCK FALSE
INVARIANTS TypeOK PushFollowsTheEntry OneLoginPerPoll
PROPERTIES SessionInCustody SnapshotsAreWhole TokensReachTheDisk EveryCallEnds
