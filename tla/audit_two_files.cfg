\* Two artifacts whose files are removed and replaced whole while they are
\* recorded and audited, with the lock and without.
SPECIFICATION Spec
CONSTANTS
    x = x
    y = y
    None = None
    Names = {"result", "log"}
    Required = {"result"}
    Paths = {"out", "err"}
    Targets <- TwoTargets
    Chunks = {x, y}
    MaxChunks = 1
    Contents <- SwapContents
    Goals = {"verify", "compare"}
    InPlace = {}
SYMMETRY ChunkSymmetry
INVARIANTS
    PassWasWitnessed
    QuietVerdictIsTrue
