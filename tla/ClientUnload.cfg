SPECIFICATION Spec
CONSTANTS
  p1 = p1
  p2 = p2
  unload = unload
  a1 = a1
  a2 = a2
  Polls = {p1}
  FirstRefresh = p1
  Entry = unload
  Appliances = {a1, a2}
  Inventories <- BothAppliances
  Retries = 2
  MaxSessions = 4
  MaxRotations = 0
  MaxFaults = 1

CHECK_DEADLOCK FALSE
INVARIANTS UnloadedIsGone
