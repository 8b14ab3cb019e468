\* Two projects with a flag of the same name, events stamped by the worker's clock.
SPECIFICATION Spec
CONSTANTS
    None = None
    p1 = p1
    p2 = p2
    b1 = b1
    b2 = b2
    b3 = b3
    acme = acme
    globex = globex
    checkout = checkout
    banner = banner
    true = true
    blue = blue
    long = long
    Procs = {p1, p2}
    Projects = {acme, globex}
    Names = {checkout}
    Variations = {true}
    Oversize = {}
    InitFlags <- BothFlags
    Project <- TwoProjects
    Batches = {b1, b2, b3}
    Events <- ClockEvents
    MaxTime = 3
    MaxCrashes = 0
INVARIANT Explained
SYMMETRY Workers
CHECK_DEADLOCK FALSE
