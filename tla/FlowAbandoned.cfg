SPECIFICATION Spec
CONSTANTS
  h1 = h1
  Calls <- MCCalls
  Passwords <- MCPasswords
  Right <- MCRight
  MaxClients = 2
  MaxCodes = 2
  MaxFaults = 1
  AbandonedInValidation = TRUE
INVARIANTS UnfinishedIsClosed
CHECK_DEADLOCK FALSE
