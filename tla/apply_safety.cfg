SPECIFICATION Spec
CONSTANTS
    Procs = {p1, p2}
    Proposals = {hedge, cover}
    Legs = {swap, put, call}
    hedge = hedge
    cover = cover
    swap = swap
    put = put
    call = call
    Recommended = hedge
    LegsOf <- MCLegsOf
    Notional <- MCNotional
    Options = {put, call}
    Reducing = {}
    Breaching = {}
    PlannedPlanes = {"demo"}
    Settings <- MCSettings
    HasReads = TRUE
    Others = {"retry", "reconcile", "replay"}
    Applies <- MCApplies
    Rehearsals <- MCRehearsals
    NoTicket = NoTicket
    NoProposal = NoProposal
    NoFile = NoFile
    MaxExecutions = 2
CONSTRAINT Overlap
SYMMETRY Symmetry
INVARIANTS TypeOK RecordsAccountable
PROPERTIES SendsAreLicensed LiveSendsConfirmed VerdictNeverLoosens
CHECK_DEADLOCK FALSE
