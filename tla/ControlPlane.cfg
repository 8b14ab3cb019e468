\* Two open requests: names they compete for, paths into each other's rows, PATCHes.
SPECIFICATION MCSpec
CONSTANTS
    None = None
    Users = {"u1", "u2", "u3", "u4"}
    Projects = {"p1", "p2", "p3", "p4"}
    Flags = {"f1", "f2", "f3", "f4"}
    Rules = {"r1", "r2"}
    ApiKeys = {"k1", "k2", "k3"}
    Names = {"ann", "ANN", "bob", "eve"}
    Normal <- MCNormal
    Columns = {"description", "is_enabled"}
    Nullable = {"description"}
    Values = {0, 1}
    Oversize = {2}
    Fresh <- Cell0
    Reqs = {a, b}
    Seed <- MCSeed
    Inputs <- MCInputs
INVARIANTS TypeOK UniqueRows CreatesHold DeletesHold PatchTookEffect
PROPERTIES OwnersOnly DeletedIsLeftAlone
SYMMETRY Interchangeable
