\* An attempt and its retry, each through the whole lifecycle, without gates, and
\* compared at any time.
SPECIFICATION CompareSpec
CONSTANTS
    r1 = r1
    r2 = r2
    None = None
    RunIds = {r1, r2}
    Contracts <- RetryContracts
    Owners = {"worker"}
    BaselineGates = {}
    GateNames = {}
    GateInputs = {"pass"}
    ArtifactNames = {"result"}
    Paths = {"out"}
    Contents = {"x"}
    ResultHashes = {"h"}
    OutcomeInputs = {"solved", "timeout"}
    MeasurementNames = {}
    RiskNames = {}
    Recorders = {"w1"}
    TrailLen = 0
SYMMETRY RunSymmetry
INVARIANTS
    RetriedNotAccepted
    NeverBothCount
PROPERTIES
    FrozenEvidence
    ImplementsApprovalLedger
