SPECIFICATION CacheSpec
CONSTANTS
  Readers = {r1}
  Clusters <- MixedClusters
  Kind <- MixedKind
  IoErrors = {"eof", "error"}
INVARIANTS
  CacheCoherent
  BackedSectorsRight
PROPERTIES
  LookupsRight
