SPECIFICATION FairSpec
CONSTANTS
  MaxCards = 2
  MaxReads = 2
  MaxDrops = 1
INVARIANT OwnDeliveries
INVARIANT ProcessedIsHandedOver
INVARIANT FaultsExplained
PROPERTY InterruptsEnd
CHECK_DEADLOCK FALSE
