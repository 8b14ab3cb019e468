\* Queries at any moment of the ingestion of three batches by one process.
SPECIFICATION Spec
CONSTANTS
    None = None
    b1 = b1
    b2 = b2
    b3 = b3
    acme = acme
    globex = globex
    checkout = checkout
    true = true
    blue = blue
    red = red
    Procs = {p1}
    Projects = {acme, globex}
    Names = {checkout}
    Variations = {true, blue, red}
    Oversize = {}
    Batches = {b1, b2, b3}
    InitFlags <- MCFlags
    Project <- MCProject
    Events <- MCEvents
    MaxTime = 5
    MaxCrashes = 0
    Day = 4
    Times = {0, 1, 2, 4, 6}
    User = {"ann", "bob"}
    Owner <- MCOwner
INVARIANTS QueriesAgree RangesAddUp RangeCountsItsEvents PercentagesNearWhole
PROPERTY TotalsNeverShrink
CONSTRAINT TableOnly
CHECK_DEADLOCK FALSE
