SPECIFICATION FairSpec
CONSTANTS
  k1 = k1
  k2 = k2
  off = off
  low = low
  high = high
  Keys = {k1, k2}
  Values = {off, low, high}
  Allowed = {low, high}
  Default = off
  Linked = {k1, k2}
  WindKeys = {k1}
  PushPreempts = FALSE
  SlowReports = FALSE
  MaxSends = 2
  MaxChanges = 1
  MaxFaults = 1
CHECK_DEADLOCK FALSE
INVARIANTS TypeOK NoFlicker
PROPERTIES SendsAreRight Converges
