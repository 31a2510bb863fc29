SPECIFICATION FairSpec
CONSTANTS
  Last = 3
  BatchSize = 2
  Retries = 1
  MaxFaults = 1
  NULL = NULL
INVARIANTS
  SendsAreBounded
  DuplicatesNeedFaults
PROPERTIES
  ImplementsDelivery
  EveryNotificationSettles
