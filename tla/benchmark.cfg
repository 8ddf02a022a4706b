\* Experiment after experiment, with at most two faults from outside.
SPECIFICATION FairSpec
CONSTANTS
    None = None
    Heads <- MCHeads
    OtherGates <- MCOtherGates
    NotApplicable = {"snapshot_isolation"}
    Results = {"x", "y"}
    MaxFaults = 2
INVARIANTS
    TypeOK
    ComparisonStandsOnLedger
PROPERTIES
    ExperimentEnds
