SPECIFICATION FairSpec
CONSTANTS
  k1 = k1
  k2 = k2
  Readers = {k1, k2}
  MaxReads = 3
  Quotas <- OneOrTwo
  MaxSpurious = 2
INVARIANTS
  ReadyAtWake
  OwnResult
  BufferOwned
PROPERTIES
  ReadReturns
  ImplementsService
CHECK_DEADLOCK FALSE
