\* One artifact whose file is truncated, appended to, removed and replaced
\* while it is recorded and audited.
SPECIFICATION Spec
CONSTANTS
    x = x
    y = y
    None = None
    Names = {"result"}
    Required = {"result"}
    Paths = {"out"}
    Targets <- OneTarget
    Chunks = {x, y}
    MaxChunks = 2
    Contents = {None}
    Goals = {"approve", "submit"}
    InPlace = {"out"}
SYMMETRY ChunkSymmetry
INVARIANTS
    TypeOK
    QuietReceiptIsTrue
PROPERTIES
    SubmissionIsJudged
