SPECIFICATION Spec
CONSTANTS
    curated = curated
    listed = listed
    r1 = r1
    h1 = h1
    h2 = h2
    Sources = {listed}
    Readers = {r1}
    Healers = {h1, h2}
    TTL = 1
    Cooldown = 1
    MaxTime = 0
    MaxVersion = 1
    None = None
INVARIANTS
    NotFoundHeals
