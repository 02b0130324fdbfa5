\* Token movements and allowances around deposits, burns and refunds.
SPECIFICATION Spec
CONSTANTS
    Points <- MCPoints
    Opening <- MCOpening
    CommitmentStrings <- MCCommitmentStrings
    Decode <- MCDecode
    Malformed = Malformed
    GroupOrder = 257
    Window = 128
    None = None
    alice = alice
    bob = bob
    relayer = relayer
    amm = amm
    self = self
    Contract = self
    OracleAddress = relayer
    U64Max = 20
    Never = 99
    InitHeight = 1
    Accounts = {relayer, amm, self}
    Receivers = {amm}
    MinVaultDepth = 1
    FallbackTimeout = 0
    OracleTimeout = 1
    OneToken = 2
    Seeds = {0}
    Amounts = {1}
    Expiries = {2}
    MaxAllowance = 2
    MaxHeight = 2
    DepositMsgs <- TokenMsgs
INVARIANT SupplyIsSum
PROPERTY TakenByConsent
CHECK_DEADLOCK FALSE
