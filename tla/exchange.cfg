\* The exchange without token movements: two sellers who are also the buyers.
\* The last blocks are so high that a timeout counted from them overflows.
SPECIFICATION FairHistorySpec
CONSTANTS
    Points <- MCPoints
    Opening <- MCOpening
    CommitmentStrings <- MCCommitmentStrings
    Decode <- MCDecode
    Malformed = Malformed
    GroupOrder = 257
    Window = 128
    None = None
    alice = alice
    bob = bob
    relayer = relayer
    amm = amm
    self = self
    Contract = self
    OracleAddress = relayer
    U64Max = 6
    Never = 99
    InitHeight = 1
    Accounts = {alice, bob, relayer, self}
    Receivers = {}
    MinVaultDepth = 2
    FallbackTimeout = 2
    OracleTimeout = 2
    OneToken = 2
    Seeds = {0, 1, 2, 7}
    Amounts = {}
    Expiries = {}
    MaxAllowance = 0
    MaxHeight = 6
    DepositMsgs <- ExchangeMsgs
    PayloadIds = {0, 1, 2}
INVARIANTS TypeOK ActiveSlotsExact ClaimedOnce Backed NeverStranded StarvationTracked VaultProven RepliesForeseen AlwaysAnswerable HoldersAdmitted SelectionEven
PROPERTIES RequestResolvedOnce StarvationClockKept VaultAppendOnly BypassNeedsStarvation ImplementsClaims RefundAsQuoted RequestStaysOpen DepositVerdictFinal EveryRequestEnds StarvedVaultOpens
CHECK_DEADLOCK FALSE
