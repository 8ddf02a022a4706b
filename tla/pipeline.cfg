\* Every sequence of batches, failures and crashes with five events in all.
SPECIFICATION GateSpec
CONSTANTS
    None = None
    Events <- MCEvents
    Batches <- MCBatches
    Orders = {"a", "b"}
    RunIds = {"base"}
    DayLength = 2
    BigInt = 3
    MaxInput = 5
INVARIANTS
    TypeOK
    CurrentIsLatest
    RevenueIsRollup
    RunningIsPrivate
    OutputIsFullRefresh
    RevenueIsConserved
    ArrivalOrderIsIrrelevant
PROPERTIES
    ImplementsFullRefresh
    ReplaysAreIdle
    BackfillsAreKept
