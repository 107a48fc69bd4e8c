SPECIFICATION HandoverSpec
CONSTANTS
    m1 = m1
    m2 = m2
    a1 = a1
    a2 = a2
    none = none
    xlm = xlm
    usdc = usdc
    n1 = n1
    n2 = n2
    noName = noName
    h1 = h1
    noHash = noHash
    NoAccount = none
    BaseToken = xlm
    NoName = noName
    NoHash = noHash
    Accounts = {m1, m2}
    AdminAccounts = {a1}
    AdminLists <- OneAdmin
    ExtraAssets = {}
    MembershipFee = 10
    InitialThreshold = 5000
    InitialPolicies <- OneLoanPolicy
    MaxOpenProposals = 1
    TimelockDuration = 2
    Names = {n1}
    Hashes = {h1}
    MaxTime = 2
    MaxLoanProposals = 1
    MaxTreasuryProposals = 0
    Leavers = {m2}
    LastJoin = 1
    MinStay = 1
    Delegators = {}
    Borrowers = {m1}
    LoanAmounts = {5}
    RepaymentAmounts = {}
    MaxDebt = 9
    StakeAmounts = {100}
    MaxStake = 100
    WithdrawalAmounts = {}
    Privacies = {}
    DonationAmounts = {}
    Supply = 1000
    Governors = {a1}
    PolicyInputs = {}
    ThresholdInputs = {}
    Migrators = {a1}
    LegacyMembers = {}
    LegacyStakes = {}
    LegacyYields = {}
    LegacyLoans = {}
    PageSize = 1
    MaxCalls = 1
    LastOpenExport = 1
    MinEntries = 9
    MaxMishaps = 1
INVARIANTS
    MembershipCounts
    FreshIds
    PagesWhole
    FileWhole
    Restored
CHECK_DEADLOCK FALSE
