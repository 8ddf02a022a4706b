\* Two processes, two updates each; calls fail and
\* processes die; one that lives runs on once it is inside update().
SPECIFICATION FairSpec
CONSTANTS
    p1 = p1
    p2 = p2
    p3 = p3
    None = None
    Torn = Torn
    Procs = {p1, p2}
    MaxUpdates = 2
    Flock = TRUE
    ReadErrors = FALSE
    PowerFails = FALSE
INVARIANTS
    TypeOK
    AckedSurvive
PROPERTIES
    ImplementsAtomicLedger
    EveryUpdateEnds
