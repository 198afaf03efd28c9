SPECIFICATION FairSpec
CONSTANTS
  r1 = r1
  r2 = r2
  r3 = r3
  Requests = {r1, r2, r3}
  MaxGrants = 9
  MaxAuths = 4
  MaxUpsets = 1
  MaxFaults = 1
CHECK_DEADLOCK FALSE
INVARIANTS TypeOK OneTokenCall
PROPERTIES RequestsAreServed LoginIsLastResort TokensAreNotWasted
