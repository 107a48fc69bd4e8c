SPECIFICATION OperatingSpec
CONSTANTS
    m1 = m1
    m2 = m2
    a1 = a1
    a2 = a2
    none = none
    xlm = xlm
    usdc = usdc
    n1 = n1
    n2 = n2
    noName = noName
    h1 = h1
    noHash = noHash
    NoAccount = none
    BaseToken = xlm
    NoName = noName
    NoHash = noHash
    Accounts = {}
    AdminAccounts = {a1, a2}
    AdminLists <- AdminListsOffered
    ExtraAssets = {usdc}
    MembershipFee = 10
    InitialThreshold = 5000
    InitialPolicies <- OneThresholdPolicy
    MaxOpenProposals = 1
    TimelockDuration = 2
    Names = {}
    Hashes = {}
    MaxTime = 5
    MaxLoanProposals = 0
    MaxTreasuryProposals = 0
    Leavers = {}
    LastJoin = 4
    MinStay = 1
    Delegators = {}
    Borrowers = {}
    LoanAmounts = {}
    RepaymentAmounts = {}
    MaxDebt = 9
    StakeAmounts = {}
    MaxStake = 100
    WithdrawalAmounts = {}
    Privacies = {}
    DonationAmounts = {}
    Supply = 1000
    Governors = {a1, a2}
    PolicyInputs <- Updates
    ThresholdInputs = {6000, 0}
    Migrators = {}
    LegacyMembers = {}
    LegacyStakes = {}
    LegacyYields = {}
    LegacyLoans = {}
INVARIANTS
    AdminsProper
PROPERTIES
    PolicyTimelockKept
    TokenTimelockKept
    PolicyNotice
    TokenNotice
CHECK_DEADLOCK FALSE
