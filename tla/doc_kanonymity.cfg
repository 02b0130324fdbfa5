\* Two requests made at depth k; the second is answered below it.
SPECIFICATION Spec
CONSTANTS
    Points <- MCPoints
    Opening <- MCOpening
    CommitmentStrings <- MCCommitmentStrings
    Decode <- MCDecode
    Malformed = Malformed
    GroupOrder = 257
    Window = 128
    None = None
    alice = alice
    bob = bob
    relayer = relayer
    amm = amm
    self = self
    Contract = self
    OracleAddress = relayer
    U64Max = 20
    Never = 99
    InitHeight = 1
    Accounts = {alice, bob, relayer, self}
    Receivers = {}
    MinVaultDepth = 2
    FallbackTimeout = 2
    OracleTimeout = 2
    OneToken = 1
    Seeds = {0, 1}
    Amounts = {}
    Expiries = {}
    MaxAllowance = 0
    MaxHeight = 4
    DepositMsgs <- ExchangeMsgs
PROPERTY KAnonymousClaim
CHECK_DEADLOCK FALSE
