SPECIFICATION Spec
CONSTANTS
  Entries <- MCEntries
  MaxListed = 3
  MaxZones = 2
  MaxTries = 2
INVARIANTS TypeOK EveryApplianceOnce TornDown
CHECK_DEADLOCK FALSE
