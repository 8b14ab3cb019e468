\* Two processes read a row before either commits.
SPECIFICATION Spec
CONSTANTS
    None = None
    p1 = p1
    p2 = p2
    b1 = b1
    b2 = b2
    b3 = b3
    acme = acme
    globex = globex
    checkout = checkout
    banner = banner
    true = true
    blue = blue
    long = long
    Procs = {p1, p2}
    Projects = {acme}
    Names = {checkout}
    Variations = {true, blue}
    Oversize = {}
    InitFlags <- OneFlag
    Project <- OneProject
    Batches = {b1, b2, b3}
    Events <- PairEvents
    MaxTime = 1
    MaxCrashes = 0
INVARIANT CountsExact
CHECK_DEADLOCK FALSE
