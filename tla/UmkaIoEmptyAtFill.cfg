SPECIFICATION Spec
CONSTANTS
  k1 = k1
  k2 = k2
  Readers = {k1, k2}
  MaxReads = 3
  Quotas <- OneOrTwo
  MaxSpurious = 0
INVARIANTS
  EmptyAtFill
CHECK_DEADLOCK FALSE
