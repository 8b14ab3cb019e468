\* A walk through a list that changes: two flags to come, all may be archived.
SPECIFICATION Spec
CONSTANTS
    None = None
    f1 = f1
    f2 = f2
    f3 = f3
    Flags = {f1, f2, f3}
    InitDates <- MCInitDates
    Instants = 3
    Searches <- MCSearches
    Limits = {1, 2}
SYMMETRY Alike
CONSTRAINT WalkToCome
INVARIANTS TypeOK WalkMissesNoFlag WalkRepeatsOnlyShifted
