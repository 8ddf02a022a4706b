\* As store, and reading the file may raise OSError.
SPECIFICATION Spec
CONSTANTS
    p1 = p1
    p2 = p2
    p3 = p3
    None = None
    Torn = Torn
    Procs = {p1, p2}
    MaxUpdates = 2
    Flock = TRUE
    ReadErrors = TRUE
    PowerFails = FALSE
SYMMETRY ProcSymmetry
INVARIANTS
    AckedSurvive
