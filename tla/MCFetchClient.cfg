SPECIFICATION Spec
CONSTANTS
    f1 = f1
    f2 = f2
    Fetches = {f1, f2}
    MaxAttempts = 3
    MaxHops = 2
    ClientTimeout = 120
    BaseBackoff = 2
    Second = 4
    MaxRetryAfter = 32
    Deadline = 180
    Interval = 80
    Burst = 1
    IntMax = 127
    Announced = {0, 5, 30, 40}
    Durations = {1, 80}
    LastStart = 100
INVARIANTS
    TypeOK
    RateLimited
    GivesUpOnlyWhenItMust
PROPERTIES
    RetryAfterHonoured
