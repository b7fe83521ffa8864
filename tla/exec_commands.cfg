\* One process, one read, one write, two execution records: retry, dry runs and every reconcile source.
CONSTANTS
    p1 = p1  p2 = p2  r1 = r1  w1 = w1  w2 = w2  s1 = s1
    Procs = {p1}
    Fingerprints = {w1}
    Reads = {r1}
    Position <- Bundle
    Routed = {r1,w1}
    Tagged = {w1}
    Strangers = {}
    Lookalikes <- OwnOrderOnly
    Exchange = "flaky"
    Verifies = {TRUE,FALSE}
    Sources = {"auto","client-id","fallback"}
    SettleAttempts = 2
    MaxExecutions = 2
    Previews = {"dry-run","replay"}
SPECIFICATION FairSpec
INVARIANTS SubmittedOnce
PROPERTIES CommandsReturn

\* Dry runs can use up MaxExecutions and leave nothing to do.
CHECK_DEADLOCK FALSE
