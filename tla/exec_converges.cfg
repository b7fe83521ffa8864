\* Requests time out, the order history is complete, the operator keeps reconciling.
CONSTANTS
    p1 = p1  p2 = p2  r1 = r1  w1 = w1  w2 = w2  s1 = s1
    Procs = {p1,p2}
    Fingerprints = {w1,w2}
    Reads = {}
    Position <- Bundle
    Routed = {w1,w2}
    Tagged = {w1}
    Strangers = {}
    Lookalikes <- OwnOrderOnly
    Exchange = "slow"
    Verifies = {TRUE,FALSE}
    Sources = {"auto"}
    SettleAttempts = 1
    MaxExecutions = 1
    Previews = {}
SPECIFICATION DiligentSpec
PROPERTIES PlacedWritesConverge

