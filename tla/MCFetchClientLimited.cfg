SPECIFICATION Spec
CONSTANTS
    f1 = f1
    f2 = f2
    Fetches = {f1, f2}
    MaxAttempts = 3
    MaxHops = 1
    ClientTimeout = 120
    BaseBackoff = 2
    Second = 4
    MaxRetryAfter = 32
    Deadline = 180
    Interval = 80
    Burst = 1
    IntMax = 1000000
    Announced = {0, 5, 3600}
    Durations = {1, 60, 120}
    LastStart = 100
INVARIANT DegradesToLastError
