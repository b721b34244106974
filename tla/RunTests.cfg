SPECIFICATION FairSpec
CONSTANTS
  Workers = {w1, w2}
  Entries <- TwoTests
  Batches = {2, 3}
INVARIANTS
  OkIsEarned
  RunOnce
  AllReported
PROPERTIES
  OutputSettled
  Ends
CHECK_DEADLOCK FALSE
