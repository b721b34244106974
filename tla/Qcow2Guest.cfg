SPECIFICATION CacheSpec
CONSTANTS
  Readers = {r1}
  Clusters <- MixedClusters
  Kind <- MixedKind
  IoErrors = {}
INVARIANTS
  SectorsRight
