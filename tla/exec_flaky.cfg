\* Two writes, two processes, an exchange that may not answer.
CONSTANTS
    p1 = p1  p2 = p2  r1 = r1  w1 = w1  w2 = w2  s1 = s1
    Procs = {p1,p2}
    Fingerprints = {w1,w2}
    Reads = {}
    Position <- Bundle
    Routed = {w1,w2}
    Tagged = {w1}
    Strangers = {}
    Lookalikes <- OwnOrderOnly
    Exchange = "flaky"
    Verifies = {TRUE,FALSE}
    Sources = {"auto"}
    SettleAttempts = 1
    MaxExecutions = 1
    Previews = {}
SPECIFICATION Spec
SYMMETRY Symmetry
INVARIANTS TypeOK SubmittedOnce LegsInOrder NothingUnrecorded ReceiptsAreTrue

