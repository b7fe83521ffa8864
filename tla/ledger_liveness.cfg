\* Calls come back although the other process may die holding the lock and a system call may fail.
CONSTANTS
    p1 = p1  p2 = p2  p3 = p3  f1 = f1  f2 = f2
    Procs = {p1,p2}
    Fingerprints = {f1}
    LockRetries = 2
    CompactAfter = 0
    MaxFaults = 1
    SlowHolders = FALSE
SPECIFICATION FairSpec
PROPERTIES CallsReturn
\* Every process may have crashed.
CHECK_DEADLOCK FALSE
