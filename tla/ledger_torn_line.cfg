\* One process dies inside an append, the next one appends to its torn line.
CONSTANTS
    p1 = p1  p2 = p2  p3 = p3  f1 = f1  f2 = f2
    Procs = {p1,p2,p3}
    Fingerprints = {f1}
    LockRetries = 2
    CompactAfter = 5
    MaxFaults = 0
    SlowHolders = FALSE
SPECIFICATION Spec
INVARIANTS TornLinesAreSafe
CHECK_DEADLOCK FALSE
