SPECIFICATION GridSpec
CONSTANTS
  Schemas <- MCSchemas
  Numbers <- MCNumbers
  One = 32
  Resolution = 4
  Noise = 1
  Whole = 3
  MaxValues = 50
INVARIANTS GridTypeOK GridIsHonoured
CHECK_DEADLOCK FALSE
