\* One buyer and a relayer that never fails.
SPECIFICATION FairRelaySpec
CONSTANTS
    Points <- MCPoints
    Opening <- MCOpening
    CommitmentStrings <- MCCommitmentStrings
    Decode <- MCDecode
    Malformed = Malformed
    GroupOrder = 257
    Window = 128
    None = None
    alice = alice
    bob = bob
    relayer = relayer
    amm = amm
    self = self
    Contract = self
    OracleAddress = relayer
    U64Max = 20
    Never = 99
    InitHeight = 1
    Accounts = {alice, bob, relayer, self}
    Receivers = {}
    MinVaultDepth = 1
    FallbackTimeout = 0
    OracleTimeout = 9
    OneToken = 1
    Seeds = {0, 1}
    Amounts = {}
    Expiries = {}
    MaxAllowance = 0
    MaxHeight = 5
    DepositMsgs <- BuyerMsgs
    MaxFaults = 0
PROPERTY RequestsServed
CHECK_DEADLOCK FALSE
