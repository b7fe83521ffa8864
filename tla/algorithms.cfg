CONSTANTS
    f1 = f1  f2 = f2
    Fingerprints = {f1, f2}
    MaxEvents = 4
    Artifacts = {"x", "y", "z"}
    Place <- Places
    Order <- Places
SPECIFICATION Spec
INVARIANTS
    ReplayIsFold
    CompilesUnlessCyclic
    PlanIsTight
    VerifiedPlansRun
    TamperSpreads
    AlteredIsFound
    ChainDigestBinds
    ProofPathsBind
\* A whole journal, registry or chain has no successor.
CHECK_DEADLOCK FALSE
