\* As store, and the machine may lose power.
SPECIFICATION Spec
CONSTANTS
    p1 = p1
    p2 = p2
    p3 = p3
    None = None
    Torn = Torn
    Procs = {p1, p2}
    MaxUpdates = 2
    Flock = TRUE
    ReadErrors = FALSE
    PowerFails = TRUE
SYMMETRY ProcSymmetry
INVARIANTS
    NeverTorn
    PowerLosesSuffix
