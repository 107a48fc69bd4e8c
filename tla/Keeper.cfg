SPECIFICATION KeeperSpec
CONSTANTS
    m1 = m1
    m2 = m2
    a1 = a1
    a2 = a2
    none = none
    xlm = xlm
    usdc = usdc
    n1 = n1
    n2 = n2
    noName = noName
    h1 = h1
    noHash = noHash
    NoAccount = none
    BaseToken = xlm
    NoName = noName
    NoHash = noHash
    Accounts = {m1, m2}
    AdminAccounts = {a1}
    AdminLists <- OneAdmin
    ExtraAssets = {}
    MembershipFee = 10
    InitialThreshold = 5000
    InitialPolicies <- OneKeeperPolicy
    MaxOpenProposals = 1
    TimelockDuration = 2
    Names = {}
    Hashes = {}
    MaxTime = 4
    MaxLoanProposals = 1
    MaxTreasuryProposals = 1
    Leavers = {}
    LastJoin = 1
    MinStay = 1
    Delegators = {}
    Borrowers = {m1}
    LoanAmounts = {5}
    RepaymentAmounts = {}
    MaxDebt = 9
    StakeAmounts = {}
    MaxStake = 100
    WithdrawalAmounts = {16}
    Privacies = {FALSE}
    DonationAmounts = {}
    Supply = 1000
    Governors = {}
    PolicyInputs = {}
    ThresholdInputs = {}
    Migrators = {}
    LegacyMembers = {}
    LegacyStakes = {}
    LegacyYields = {}
    LegacyLoans = {}
    Skew = 1
INVARIANTS
    QuotaKept
PROPERTIES
    FundsAccounted
    FairnessEarned
    TreasuryProposalsClose
    LoansSettle
CHECK_DEADLOCK FALSE
