\* Three runs, each a new one or one an older version left, registered in every
\* order from contracts that differ in attempt, dataset and requirements.
\* No new run has an artifact.
SPECIFICATION SerializedSpec
CONSTANTS
    r1 = r1
    r2 = r2
    r3 = r3
    None = None
    RunIds = {r1, r2, r3}
    Contracts <- MCContracts
    LegacyRecords <- MCLegacyRecords
    Owners = {}
    BaselineGates = {"unit_tests"}
    GateNames = {"unit_tests"}
    GateInputs = {"not_applicable"}
    ArtifactNames = {"result"}
    Paths = {"out"}
    Contents = {"x"}
    ResultHashes = {}
    OutcomeInputs = {"solved", "timeout"}
    MeasurementNames = {}
    RiskNames = {}
    Recorders = {}
    TrailLen = 1
SYMMETRY RunSymmetry
INVARIANTS
    RetryLineage
    MigrationsNoted
    ReadsBack
    LegacyStandsAlone
PROPERTIES
    AcceptedOnFile
