SPECIFICATION Spec
CONSTANTS
    Procs = {p1, p2}
    Names = {n1, n2}
    MayFail = TRUE
SYMMETRY MCSymmetry
INVARIANTS
    TypeOK
    IndexReadable
    StoresAgree
PROPERTY
    ImplementsAtomicIndex
