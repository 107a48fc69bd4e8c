SPECIFICATION OperatingSpec
CONSTANTS
    m1 = m1
    m2 = m2
    a1 = a1
    a2 = a2
    none = none
    xlm = xlm
    usdc = usdc
    n1 = n1
    n2 = n2
    noName = noName
    h1 = h1
    noHash = noHash
    NoAccount = none
    BaseToken = xlm
    NoName = noName
    NoHash = noHash
    Accounts = {m1, m2}
    AdminAccounts = {a1}
    AdminLists <- OneAdmin
    ExtraAssets = {usdc}
    MembershipFee = 10
    InitialThreshold = 5000
    InitialPolicies <- OneLoanPolicy
    MaxOpenProposals = 1
    TimelockDuration = 1
    Names = {n1, n2}
    Hashes = {h1}
    MaxTime = 3
    MaxLoanProposals = 1
    MaxTreasuryProposals = 0
    Leavers = {m2}
    LastJoin = 4
    MinStay = 1
    Delegators = {}
    Borrowers = {m1}
    LoanAmounts = {4, 5}
    RepaymentAmounts = {}
    MaxDebt = 9
    StakeAmounts = {}
    MaxStake = 100
    WithdrawalAmounts = {}
    Privacies = {}
    DonationAmounts = {10}
    Supply = 20
    Governors = {a1}
    PolicyInputs = {}
    ThresholdInputs = {}
    Migrators = {}
    LegacyMembers = {}
    LegacyStakes = {}
    LegacyYields = {}
    LegacyLoans = {}
INVARIANTS
    NamesOneToOne
PROPERTIES
    BallotSubjectFixed
    
    FundsAccounted
CHECK_DEADLOCK FALSE
