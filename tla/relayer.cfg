\* Two buyers and a relayer whose node, or whose process, fails twice.
SPECIFICATION RelaySpec
CONSTANTS
    Points <- MCPoints
    Opening <- MCOpening
    CommitmentStrings <- MCCommitmentStrings
    Decode <- MCDecode
    Malformed = Malformed
    GroupOrder = 257
    Window = 128
    None = None
    alice = alice
    bob = bob
    relayer = relayer
    amm = amm
    self = self
    Contract = self
    OracleAddress = relayer
    U64Max = 20
    Never = 99
    InitHeight = 1
    Accounts = {alice, bob, relayer, self}
    Receivers = {}
    MinVaultDepth = 1
    FallbackTimeout = 0
    OracleTimeout = 2
    OneToken = 1
    Seeds = {0}
    Amounts = {}
    Expiries = {}
    MaxAllowance = 0
    MaxHeight = 4
    DepositMsgs <- BuyersMsgs
    MaxFaults = 2
INVARIANTS NothingForgotten ProcessedMeansOver
PROPERTY SeedAnswersItsRequest
CHECK_DEADLOCK FALSE
