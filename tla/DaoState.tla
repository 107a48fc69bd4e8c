------------------------------ MODULE DaoState ------------------------------
(***************************************************************************)
(* The ledger entries of the OurDAO contract (storage.rs, types.rs), the    *)
(* state `initialize` leaves, and the reads every entrypoint shares         *)
(* (util.rs). Each entrypoint of the contract is one ledger transaction:    *)
(* it runs alone and either commits whole or, on an Err or a trap, leaves   *)
(* nothing. So one TLA+ action is one successful call, a failed call is a   *)
(* stuttering step, and the interleavings are those of whole calls, of many *)
(* accounts, as ledger time passes.                                         *)
(*                                                                         *)
(* Left out: events, TTL extension, list order and paging, free text, and   *)
(* the fields nothing reads back (share_balance, a proposal's quoted terms, *)
(* a loan's start_time and rate).                                           *)
(***************************************************************************)
EXTENDS DaoArithmetic, FiniteSets, FiniteSetsExt, Sequences

CONSTANTS
    Accounts,              \* addresses that may register, lend, vote, ...
    NoAccount,             \* "no address" (Option::None)
    AdminAccounts,         \* addresses that may become admin or pauser
    AdminLists,            \* the admin lists `initialize` is offered
    BaseToken,             \* the token given to `initialize`
    ExtraAssets,           \* the other token contracts on the network
    MembershipFee,
    InitialThreshold,      \* consensus_threshold, basis points
    InitialPolicies,       \* the policies `initialize` is offered
    MaxOpenProposals,      \* MAX_OPEN_PROPOSALS_PER_MEMBER, 3 in the code
    TimelockDuration,      \* TIMELOCK_DURATION, 48 hours in the code
    Names,                 \* the valid names of the registry
    NoName,
    Hashes,                \* content hashes of at most 64 bytes
    NoHash,
    MaxTime,               \* bound: the clock stops here
    MaxLoanProposals,      \* bound on NextProposalId
    MaxTreasuryProposals   \* bound on NextTreasuryId

Assets == {BaseToken} \cup ExtraAssets
LoanIds == 0 .. MaxLoanProposals - 1
TreasuryIds == 0 .. MaxTreasuryProposals - 1
DocumentKeys == ({"Loan"} \X LoanIds) \cup ({"Treasury"} \X TreasuryIds)

MemberStatuses == {"NotMember", "ActiveMember", "Inactive"}
ProposalStatuses == {"None", "Pending", "ApprovedPendingDisbursement", "Approved",
                     "Rejected", "Executed", "Expired", "Cancelled"}
ProposalPhases == {"Editing", "Voting", "Executed", "Expired"}
LoanStatuses == {"None", "Active", "Repaid", "Defaulted"}

(* LoanPolicy, without membership_contribution, which only validation reads. *)
PolicyRecords ==
    [min_membership_duration : Nat, max_loan_duration : Nat,
     min_interest_rate : Nat, max_interest_rate : Nat, cooldown_period : Nat,
     max_loan_to_treasury_ratio : Nat, default_grace_period : Nat,
     default_penalty_bps : Nat, editing_period : Nat, voting_period : Nat,
     treasury_threshold : Nat, quorum_bps : Nat]

THIRTY_DAYS == 30 * 24 * 60 * 60

(* validate_policy *)
ValidPolicy(p) ==
    /\ p.max_loan_duration # 0
    /\ p.min_interest_rate <= p.max_interest_rate
    /\ p.max_interest_rate <= BASIS_POINTS
    /\ p.max_loan_to_treasury_ratio \in 1 .. BASIS_POINTS
    /\ p.default_penalty_bps <= BASIS_POINTS
    /\ p.editing_period \in 1 .. THIRTY_DAYS
    /\ p.voting_period \in 1 .. THIRTY_DAYS
    /\ p.min_membership_duration <= THIRTY_DAYS
    /\ p.cooldown_period <= THIRTY_DAYS
    /\ p.default_grace_period <= THIRTY_DAYS
    /\ p.treasury_threshold \in 1 .. BASIS_POINTS
    /\ p.quorum_bps <= BASIS_POINTS

ASSUME AccountsAssumption ==
    /\ IsFiniteSet(Accounts)
    /\ NoAccount \notin Accounts \cup AdminAccounts
ASSUME AssetsAssumption == BaseToken \notin ExtraAssets
ASSUME FeeAssumption == MembershipFee \in Nat \ {0}
ASSUME ThresholdAssumption == InitialThreshold \in 1 .. BASIS_POINTS
ASSUME PolicyAssumption == InitialPolicies \subseteq PolicyRecords
ASSUME AdminAssumption == AdminLists \subseteq Seq(AdminAccounts)
ASSUME SentinelAssumption == NoName \notin Names /\ NoHash \notin Hashes
ASSUME BoundsAssumption ==
    /\ MaxOpenProposals \in Nat
    /\ TimelockDuration \in Nat
    /\ MaxTime \in Nat
    /\ MaxLoanProposals \in Nat
    /\ MaxTreasuryProposals \in Nat

VARIABLES
    now,                   \* the ledger timestamp
    balance,               \* asset -> tokens the contract holds of it
    \* governance
    admins, pauser, threshold, policy, pendingPolicy, paused,
    whitelisted, pendingToken,
    \* members
    members, totalMembers, activeMembers, activeContributions, delegation,
    \* yield and stake
    yieldAccumulator, yieldRemainder, yieldSnapshot,
    stakes, stakeTime, totalStaked,
    \* loans
    loanProposals, nextProposalId, loanVoted, loans,
    \* treasury withdrawals
    treasuryProposals, nextTreasuryId, treasuryVoted, commits,
    \* registry, documents, migration
    nameOwner, nameOf, documents, seedingLocked

adminVars == <<admins, pauser, threshold, policy, pendingPolicy, paused>>
tokenVars == <<whitelisted, pendingToken>>
memberVars == <<members, totalMembers, activeMembers, activeContributions>>
yieldVars == <<yieldAccumulator, yieldRemainder, yieldSnapshot>>
stakeVars == <<stakes, stakeTime, totalStaked>>
loanVars == <<loanProposals, nextProposalId, loanVoted, loans>>
treasuryVars == <<treasuryProposals, nextTreasuryId, treasuryVoted, commits>>
registryVars == <<nameOwner, nameOf>>
vars == <<now, balance, adminVars, tokenVars, memberVars, delegation, yieldVars,
          stakeVars, loanVars, treasuryVars, registryVars, documents, seedingLocked>>

-----------------------------------------------------------------------------
(* Absent entries: what a get_* of a key never written returns. An Option     *)
(* singleton (a pending policy update, a pending token addition) is a set    *)
(* that is empty or holds the one value.                                     *)
NoMember ==
    [status |-> "NotMember", join_time |-> 0, contribution |-> 0,
     has_active_loan |-> FALSE, last_loan_time |-> 0,
     total_loans |-> 0, repaid_loans |-> 0, active_loans |-> 0]
NoLoanProposal ==
    [borrower |-> NoAccount, asset |-> BaseToken, amount |-> 0,
     editing_period_end |-> 0, voting_period |-> 0, phase |-> "Editing",
     status |-> "None", for_votes |-> 0, against_votes |-> 0, votes_cast |-> 0]
NoLoan ==
    [borrower |-> NoAccount, principal |-> 0, total_repayment |-> 0,
     due_time |-> 0, status |-> "None", amount_repaid |-> 0]
NoTreasuryProposal ==
    [proposer |-> NoAccount, asset |-> BaseToken, amount |-> 0, created_at |-> 0,
     status |-> "None", for_votes |-> 0, against_votes |-> 0, votes_cast |-> 0,
     voting_period |-> 0, treasury_threshold |-> 0, private |-> FALSE]
NoCommit == [voter |-> NoAccount, id |-> 0, support |-> FALSE]

(* `initialize`, once: the arguments pass its checks and are stored; every    *)
(* counter starts at 0. `paused` is false, the seeding window is open.       *)
Init ==
    /\ now = 1
    /\ balance = [a \in Assets |-> 0]
    /\ admins \in {l \in AdminLists :
                     /\ l # <<>>
                     /\ \A i, j \in 1 .. Len(l) : l[i] = l[j] => i = j}
    /\ policy \in {p \in InitialPolicies : ValidPolicy(p)}
    /\ threshold = InitialThreshold
    /\ pauser = NoAccount
    /\ pendingPolicy = {}
    /\ paused = FALSE
    /\ whitelisted = {}
    /\ pendingToken = [a \in ExtraAssets |-> {}]
    /\ members = [a \in Accounts |-> NoMember]
    /\ totalMembers = 0
    /\ activeMembers = 0
    /\ activeContributions = 0
    /\ delegation = [a \in Accounts |-> NoAccount]
    /\ yieldAccumulator = 0
    /\ yieldRemainder = 0
    /\ yieldSnapshot = [a \in Accounts |-> 0]
    /\ stakes = [a \in Accounts |-> 0]
    /\ stakeTime = [a \in Accounts |-> 0]
    /\ totalStaked = 0
    /\ loanProposals = [id \in LoanIds |-> NoLoanProposal]
    /\ nextProposalId = 0
    /\ loanVoted = [id \in LoanIds |-> {}]
    /\ loans = [id \in LoanIds |-> NoLoan]
    /\ treasuryProposals = [id \in TreasuryIds |-> NoTreasuryProposal]
    /\ nextTreasuryId = 0
    /\ treasuryVoted = [id \in TreasuryIds |-> {}]
    /\ commits = [id \in TreasuryIds |-> [a \in Accounts |-> NoCommit]]
    /\ nameOwner = [n \in Names |-> NoAccount]
    /\ nameOf = [a \in Accounts |-> NoName]
    /\ documents = [key \in DocumentKeys |-> NoHash]
    /\ seedingLocked = FALSE
-----------------------------------------------------------------------------
(* util.rs: reads shared by the entrypoints.                                 *)

IsMember(a) == members[a].status # "NotMember"
IsActiveMember(a) == members[a].status = "ActiveMember"
ActiveMembers == {a \in Accounts : IsActiveMember(a)}
Registered == {a \in Accounts : IsMember(a)}

IsAdmin(a) == \E i \in 1 .. Len(admins) : admins[i] = a

\* Mutant: the entrypoint forgets require_not_paused.
MemberCallAnyTime(a) == IsActiveMember(a)

(* require_not_paused and require_active_member, the two checks nearly every *)
(* member entrypoint opens with.                                             *)
MemberCall(a) == ~paused /\ IsActiveMember(a)

(* The base token is always whitelisted, any other only while listed.        *)
IsTokenWhitelisted(asset) == asset = BaseToken \/ asset \in whitelisted

(* treasury_balance_in_asset over the holdings `held`: staked principal is   *)
(* taken off the base token's.                                               *)
TreasuryOf(held, asset) ==
    IF asset = BaseToken THEN held[asset] - totalStaked ELSE held[asset]
TreasuryBalance(asset) == TreasuryOf(balance, asset)

(***************************************************************************)
(* voting_weight: 0 for a member who delegated; otherwise the base vote and *)
(* stake boost of the member and of everyone, exited or not, whose          *)
(* delegation names them. The code adds these up; here the votes are the    *)
(* pairs <<backer, k>> with k from 0 (the base vote) to the backer's boost. *)
(***************************************************************************)
Backers(who) == {who} \cup {a \in Registered : delegation[a] = who}

VotingWeight(who) ==
    IF delegation[who] # NoAccount THEN 0
    ELSE Cardinality({v \in Backers(who) \X (0 .. MAX_STAKE_BONUS) :
                        v[2] <= StakeBoost(stakes[v[1]])})

(* Can `required` votes still be reached by those who have not voted? Each   *)
(* is counted at the most a stake can give.                                  *)
OutOfReach(forVotes, votesCast, required) ==
    forVotes + SaturatingSub(activeMembers, votesCast)
                 * (BASE_VOTE_WEIGHT + MAX_STAKE_BONUS) < required

(* The last second of a treasury proposal's ballot: commit then reveal when  *)
(* private (tally, get_open_proposals and unstake agree on it).              *)
TreasuryVotingEnd(p) ==
    p.created_at + (IF p.private THEN 2 * p.voting_period ELSE p.voting_period)
LoanVotingEnd(p) == p.editing_period_end + p.voting_period

OpenLoanProposals(a) ==
    {id \in LoanIds : /\ loanProposals[id].borrower = a
                      /\ loanProposals[id].status = "Pending"
                      /\ now <= LoanVotingEnd(loanProposals[id])}
OpenTreasuryProposals(a) ==
    {id \in TreasuryIds : /\ treasuryProposals[id].proposer = a
                          /\ treasuryProposals[id].status = "Pending"
                          /\ now <= TreasuryVotingEnd(treasuryProposals[id])}
(* get_open_proposals *)
OpenProposals(a) ==
    Cardinality(OpenLoanProposals(a)) + Cardinality(OpenTreasuryProposals(a))

\* Mutant: the quota check lets one more in.
QuotaOffByOne(m) == OpenProposals(m) <= MaxOpenProposals

(* What both kinds of request ask for.                                       *)
BelowQuota(m) == OpenProposals(m) < MaxOpenProposals

(* reserved_loan_commitments: approved loans whose money has not left.       *)
ReservedLoanCommitments(asset) ==
    LET reserved == {id \in LoanIds :
                       /\ loanProposals[id].status = "ApprovedPendingDisbursement"
                       /\ loanProposals[id].asset = asset}
    IN  MapThenSumSet(LAMBDA id : loanProposals[id].amount, reserved)

(* compute_pending_yield *)
PendingYield(a) ==
    IF yieldAccumulator > yieldSnapshot[a] THEN yieldAccumulator - yieldSnapshot[a]
    ELSE 0
============================================================================
