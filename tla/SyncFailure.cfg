SPECIFICATION Spec
CONSTANTS
  k1 = k1
  k2 = k2
  off = off
  low = low
  high = high
  Keys = {k1, k2}
  Values = {off, low, high}
  Allowed = {low, high}
  Default = off
  Linked = {k1, k2}
  WindKeys = {}
  PushPreempts = FALSE
  SlowReports = FALSE
  MaxSends = 2
  MaxChanges = 0
  MaxFaults = 1
CHECK_DEADLOCK FALSE
PROPERTIES FailureIsForgotten
