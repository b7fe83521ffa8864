SPECIFICATION Spec
CONSTANTS
    Procs = {p1}
    Proposals = {hedge, cover}
    Legs = {swap, put, call}
    hedge = hedge
    cover = cover
    swap = swap
    put = put
    call = call
    Recommended = hedge
    LegsOf <- MCLegsOf
    Notional <- MCNotional
    Options = {put, call}
    Reducing = {}
    Breaching = {}
    PlannedPlanes = {"demo"}
    Settings <- MCSettings
    HasReads = FALSE
    Others = {}
    Applies <- DemoApplies
    Rehearsals <- MCRehearsals
    NoTicket = NoTicket
    NoProposal = NoProposal
    NoFile = NoFile
    MaxExecutions = 2
INVARIANT SentOnce
CHECK_DEADLOCK FALSE
