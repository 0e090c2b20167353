SPECIFICATION Spec
CONSTANTS
    Procs = {p1, p2}
    Names = {n1, n2}
    MayFail = FALSE
INVARIANTS
    SavesAreAtomic
