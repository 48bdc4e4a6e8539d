SPECIFICATION CacheSpec
CONSTANTS
    Slugs = {k1, k2, k3}
    Sizes <- MCSizes
    Times <- MCTimes
    Cap = 3
INVARIANTS
    ListMatchesMap
    BytesBounded
PROPERTIES
    ImplementsLruStore
