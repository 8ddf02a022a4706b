\* The fixtures of the repository through the gates of the benchmark.
SPECIFICATION EvaluationSpec
CONSTANTS
    None = None
    Events <- Fixtures
    Batches <- FixtureBatches
    Orders = {1, 2, 3, 4, 5}
    RunIds <- PipelineRuns
    DayLength = 48
    BigInt = 100000
    MaxInput = 100
INVARIANTS
    EveryGateHolds
