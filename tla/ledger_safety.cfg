\* Two processes, one failing system call, crashes anywhere, locks aging under live holders.
CONSTANTS
    p1 = p1  p2 = p2  p3 = p3  f1 = f1  f2 = f2
    Procs = {p1,p2}
    Fingerprints = {f1}
    LockRetries = 2
    CompactAfter = 1
    MaxFaults = 1
    SlowHolders = TRUE
SPECIFICATION SafeSpec
SYMMETRY Symmetry
INVARIANTS TypeOK MutualExclusion AtMostOneClaim ClaimsSurvive ReadersInventNothing
PROPERTIES Implements
\* Every process may have crashed.
CHECK_DEADLOCK FALSE
