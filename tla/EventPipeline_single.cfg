\* One uvicorn process: the whole history of three batches, with one crash.
SPECIFICATION Spec
CONSTANTS
    None = None
    p1 = p1
    p2 = p2
    b1 = b1
    b2 = b2
    b3 = b3
    acme = acme
    globex = globex
    checkout = checkout
    banner = banner
    true = true
    blue = blue
    long = long
    Procs = {p1}
    Projects = {acme}
    Names = {checkout, banner}
    Variations = {true, long}
    Oversize = {long}
    Batches = {b1, b2, b3}
    InitFlags <- OneFlag
    Project <- OneProject
    Events <- SingleEvents
    MaxTime = 1
    MaxCrashes = 1
INVARIANTS TypeOK CountsExact NoWriteConflict
PROPERTY ImplementsLedger
CHECK_DEADLOCK FALSE
