\* The unit tests of contract.rs, at the height and with the amounts of mock_env;
\* only the width of integers and the field are smaller.
SPECIFICATION TestSpec
CONSTANTS
    Points <- TestPoints
    Opening <- TestOpening
    CommitmentStrings <- TestPoints
    Decode <- TestDecode
    Malformed = Malformed
    GroupOrder = 200
    Window = 100
    None = None
    Accounts <- TestAccounts
    Contract = "contract"
    Receivers = {}
    OracleAddress = "oracle_relayer"
    MinVaultDepth = 5
    FallbackTimeout = 100000
    OracleTimeout = 50
    OneToken = 1000000
    U64Max = 1000000000
    DepositMsgs <- TestDeposits
    Seeds = {42}
    Amounts = {1000000}
    Expiries = {}
    Never = 1000000000
    InitHeight = 12345
    MaxAllowance = 0
    MaxHeight = 12445
INVARIANTS AnswersAsTested AcceptedIffInBucket
