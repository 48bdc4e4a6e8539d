SPECIFICATION FairSpec
CONSTANTS
    curated = curated
    listed = listed
    r1 = r1
    h1 = h1
    h2 = h2
    Sources = {listed}
    Readers = {r1}
    Healers = {h1}
    TTL = 0
    Cooldown = 1
    MaxTime = 1
    MaxVersion = 1
    None = None
PROPERTIES
    KeepsLastGood
    OutageSparesOrigin
    RefreshesEnd
