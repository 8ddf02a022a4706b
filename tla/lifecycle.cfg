\* One run through every event, the last four of them kept.
SPECIFICATION Spec
CONSTANTS
    None = None
    RunIds = {"run-1"}
    Contracts <- LifecycleContracts
    Owners = {"worker"}
    BaselineGates = {"unit_tests"}
    GateNames = {"unit_tests"}
    GateInputs = {"pass", "not_run", "not_applicable"}
    ArtifactNames = {"result"}
    Paths = {"out"}
    Contents = {"x"}
    ResultHashes = {"h"}
    OutcomeInputs = {"solved", "completed_semantic_failure"}
    MeasurementNames = {"m"}
    RiskNames = {"k"}
    Recorders = {"w1"}
    TrailLen = 4
INVARIANTS
    TypeOK
    EvidenceComplete
    AuditTrail
