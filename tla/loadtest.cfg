\* Two accounts, two bursts, blocks of three transactions, one fault of any kind.
SPECIFICATION ScriptsSpec
CONSTANTS
    LoadAccounts = {a1, a2}
    SustainedBlocks = 2
    Capacity = 3
    MaxSettleWait = 3
    MaxBlocks = 5
    MaxFaults = 1
SYMMETRY Interchangeable
INVARIANTS
    RefusedOnlyAfterLoss
    SettledMeansIncluded
    ReportIsComplete
    CountedUnlessCutOff
CHECK_DEADLOCK FALSE
