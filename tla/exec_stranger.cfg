\* A foreign order fits the fallback fields of a write.
CONSTANTS
    p1 = p1  p2 = p2  r1 = r1  w1 = w1  w2 = w2  s1 = s1
    Procs = {p1}
    Fingerprints = {w1}
    Reads = {r1}
    Position <- Bundle
    Routed = {r1,w1}
    Tagged = {w1}
    Strangers = {s1}
    Lookalikes <- OrAStranger
    Exchange = "honest"
    Verifies = {TRUE,FALSE}
    Sources = {"auto"}
    SettleAttempts = 1
    MaxExecutions = 2
    Previews = {}
SPECIFICATION Spec
INVARIANTS HitsAreDuplicates

