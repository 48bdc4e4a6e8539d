SPECIFICATION FairSpec
CONSTANTS
    p1 = p1
    p2 = p2
    idx = idx
    a = a
    Procs = {p1, p2}
    Catalogue = {idx}
    Pages = {a}
    SizesOf <- Sizes
    Listing <- PagesFirst
    MaxBytes = 2
    CacheBytes = 1
    SourceMax = 1
    SweepAge = 0
    MaxTime = 1
    NoProc = NoProc
    Missing = Missing
INVARIANTS
    LockExcludes
    CatalogueLoads
PROPERTIES
    StoreKeepsBudget
    CatalogueOutlivesPages
    OperationsEnd
    ImplementsAtomicDisk
