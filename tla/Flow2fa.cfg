SPECIFICATION Spec
CONSTANTS
  h1 = h1
  Calls <- MCCalls
  Passwords <- MCPasswords
  Right <- MCRight
  MaxClients = 2
  MaxCodes = 3
  MaxFaults = 1
  AbandonedInValidation = FALSE
INVARIANTS TypeOK HonestPrompt
PROPERTIES FlowInCustody EntryIsVerified StepsEnd
CHECK_DEADLOCK FALSE
