SPECIFICATION OperatingSpec
SYMMETRY Interchangeable
CONSTANTS
    m1 = m1
    m2 = m2
    a1 = a1
    a2 = a2
    none = none
    xlm = xlm
    usdc = usdc
    n1 = n1
    n2 = n2
    noName = noName
    h1 = h1
    noHash = noHash
    NoAccount = none
    BaseToken = xlm
    NoName = noName
    NoHash = noHash
    Accounts = {m1, m2}
    AdminAccounts = {a1}
    AdminLists <- OneAdmin
    ExtraAssets = {}
    MembershipFee = 10
    InitialThreshold = 5000
    InitialPolicies <- OneBallotPolicy
    MaxOpenProposals = 1
    TimelockDuration = 2
    Names = {}
    Hashes = {}
    MaxTime = 4
    MaxLoanProposals = 0
    MaxTreasuryProposals = 1
    Leavers = {}
    LastJoin = 4
    MinStay = 1
    Delegators = {m1, m2}
    Borrowers = {}
    LoanAmounts = {}
    RepaymentAmounts = {}
    MaxDebt = 9
    StakeAmounts = {100}
    MaxStake = 100
    WithdrawalAmounts = {5}
    Privacies = {TRUE}
    DonationAmounts = {}
    Supply = 1000
    Governors = {}
    PolicyInputs = {}
    ThresholdInputs = {}
    Migrators = {}
    LegacyMembers = {}
    LegacyStakes = {}
    LegacyYields = {}
    LegacyLoans = {}
INVARIANTS
    TypeOK
    BlindWhileCommitting
    
    BallotsCounted
PROPERTIES
    CommitmentBinds
    
    FundsAccounted
CHECK_DEADLOCK FALSE
