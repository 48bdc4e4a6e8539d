SPECIFICATION FairSpec
CONSTANTS
    c1 = c1
    c2 = c2
    s1 = s1
    q1 = q1
    Callers = {c1}
    Searchers = {q1}
    Slugs = {s1}
    TTL = 1
    Cooldown = 1
    MaxTime = 1
    None = None
PROPERTIES
    EveryCallEnds
