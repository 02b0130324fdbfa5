\* One account, one burst, and nothing fails.
SPECIFICATION LoadSpec
CONSTANTS
    LoadAccounts = {a1}
    SustainedBlocks = 1
    Capacity = 1
    MaxSettleWait = 3
    MaxBlocks = 4
    MaxFaults = 0
INVARIANT AllTransactionsIncluded
CHECK_DEADLOCK FALSE
