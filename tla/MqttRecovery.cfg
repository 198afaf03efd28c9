SPECIFICATION FairSpec
CONSTANTS
  t1 = t1
  t2 = t2
  NoTopic = NoTopic
  Topics = {t1, t2}
  BadTopics = {t2}
  ReconnectAfterFailedTicks = 3
  MaxResubscribeFailures = 3
  BackoffCap = 12
  MaxGen = 4
  MaxFaults = 5
  DropBeforeWakeup = FALSE
  CallbackPreempted = FALSE

CHECK_DEADLOCK FALSE
INVARIANTS TypeOK ViewSound
PROPERTIES ClientInCustody KeepsWhatIsLive RealtimeRecovers
