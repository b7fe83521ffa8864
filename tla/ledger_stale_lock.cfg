\* One process dies with the lock, two others clear it as stale.
CONSTANTS
    p1 = p1  p2 = p2  p3 = p3  f1 = f1  f2 = f2
    Procs = {p1,p2,p3}
    Fingerprints = {f1}
    LockRetries = 1
    CompactAfter = 5
    MaxFaults = 0
    SlowHolders = FALSE
SPECIFICATION Spec
INVARIANTS ClearingIsSafe
CHECK_DEADLOCK FALSE
