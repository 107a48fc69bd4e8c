------------------------------- MODULE OurDao -------------------------------
(***************************************************************************)
(* The contract as a whole (lib.rs): any account calls any entrypoint, in   *)
(* any order, while ledger time passes and tokens may be sent to it from    *)
(* outside. The constants below name the inputs a model tries; an empty set *)
(* leaves the calls that would take one out of that model.                  *)
(***************************************************************************)
EXTENDS Membership, Staking, Loans, Treasury, Administration, Registry, Migration

CONSTANTS
    Leavers,               \* accounts that may call exit_dao
    LastJoin,              \* bound: nobody joins, or returns, after this time
    MinStay,               \* bound: time from a join to an exit, so that leaving
                           \* and returning does not go on without end
    Delegators,            \* accounts that may call delegate_vote
    Borrowers,             \* accounts that may request loans
    LoanAmounts,
    RepaymentAmounts,      \* of repay_loan_partial
    MaxDebt,               \* bound: a debt that surcharges have raised to it is
                           \* no longer paid in part, which would raise it again
    StakeAmounts,          \* of stake and of unstake
    MaxStake,              \* bound on what one member stakes
    WithdrawalAmounts,
    Privacies,             \* the kinds of treasury proposal: a subset of BOOLEAN
    DonationAmounts,       \* tokens sent straight to the contract's address
    Supply,                \* bound: the tokens of each asset in circulation
    Governors,             \* addresses that may make admin.rs calls
    PolicyInputs,          \* of propose_policy_update
    ThresholdInputs,       \* of set_consensus_threshold
    Migrators,             \* addresses that may make migration.rs calls
    LegacyMembers,         \* member records, stakes, yields and loans to seed
    LegacyStakes,
    LegacyYields,
    LegacyLoans

ASSUME InputsAssumption ==
    /\ UNION {Leavers, Delegators, Borrowers} \subseteq Accounts
    /\ UNION {LoanAmounts, RepaymentAmounts, StakeAmounts, WithdrawalAmounts,
              DonationAmounts, LegacyStakes, LegacyYields} \subseteq Nat
    /\ {LastJoin, MinStay, MaxDebt, MaxStake, Supply} \subseteq Nat
    /\ Privacies \subseteq BOOLEAN
    /\ Governors \cup Migrators \subseteq AdminAccounts
    /\ PolicyInputs \subseteq PolicyRecords
    /\ ThresholdInputs \subseteq Nat

(* seed_members and seed_loans trust the records they are given, but decode  *)
(* them as Member and Loan values: an exported record has a real status.     *)
MemberRecords ==
    [status : MemberStatuses, join_time : Nat, contribution : Int,
     has_active_loan : BOOLEAN, last_loan_time : Nat,
     total_loans : Nat, repaid_loans : Nat, active_loans : Nat]
LoanRecords ==
    [borrower : Accounts \cup {NoAccount}, principal : Int, total_repayment : Int,
     due_time : Nat, status : LoanStatuses, amount_repaid : Int]
ASSUME LegacyAssumption ==
    /\ LegacyMembers \subseteq {r \in MemberRecords : r.status # "NotMember"}
    /\ LegacyLoans \subseteq {l \in LoanRecords : /\ l.status # "None"
                                                  /\ l.borrower # NoAccount}
-----------------------------------------------------------------------------
(* The ledger's clock, and a plain token transfer to the contract.           *)
Tick ==
    /\ now < MaxTime
    /\ now' = now + 1
    /\ UNCHANGED <<balance, adminVars, tokenVars, memberVars, delegation, yieldVars,
                   stakeVars, loanVars, treasuryVars, registryVars, documents,
                   seedingLocked>>

Donate(asset, amount) ==
    /\ amount > 0
    /\ balance' = [balance EXCEPT ![asset] = @ + amount]
    /\ UNCHANGED <<now, adminVars, tokenVars, memberVars, delegation, yieldVars,
                   stakeVars, loanVars, treasuryVars, registryVars, documents,
                   seedingLocked>>

MembershipCall(m) ==
    \/ now <= LastJoin /\ RegisterMember(m)
    \/ /\ m \in Leavers
       /\ now >= members[m].join_time + MinStay
       /\ ExitDao(m)
    \/ ClaimRewards(m)
    \/ m \in Delegators /\ \E delegatee \in Accounts : DelegateVote(m, delegatee)
    \/ \E amount \in StakeAmounts :
          \/ stakes[m] + amount <= MaxStake /\ Stake(m, amount)
          \/ Unstake(m, amount)

LoanCall(m) ==
    \/ /\ m \in Borrowers
       /\ \E amount \in LoanAmounts, asset \in Assets :
             RequestLoanInAsset(m, amount, asset)
    \/ \E id \in LoanIds :
          \/ \E amount \in LoanAmounts : EditLoanProposal(m, id, amount)
          \/ CancelLoanProposal(m, id)
          \/ \E support \in BOOLEAN : VoteOnLoanProposal(m, id, support)
          \/ \E id2 \in LoanIds \ {id}, support, support2 \in BOOLEAN :
                VoteBatch(m, id, support, id2, support2)
          \/ /\ loans[id].total_repayment < MaxDebt
             /\ \E amount \in RepaymentAmounts : RepayLoanPartial(m, id, amount)
          \/ RepayLoan(m, id)
          \/ \E asset \in Assets : RepayLoanInAsset(m, id, asset)

TreasuryCall(m) ==
    \/ \E amount \in WithdrawalAmounts, asset \in Assets, private \in Privacies :
          ProposeWithdrawalInAsset(m, amount, asset, private)
    \/ \E id \in TreasuryIds :
          \/ \E support \in BOOLEAN : VoteOnTreasuryProposal(m, id, support)
          \/ \E author \in Accounts, support \in BOOLEAN :
                CommitVote(m, id, Commitment(author, id, support))
          \/ \E support \in BOOLEAN : RevealVote(m, id, support)
          \/ CancelTreasuryProposal(m, id)

RegistryCall(m) ==
    \/ \E name \in Names : RegisterName(m, name)
    \/ \E key \in DocumentKeys, hash \in Hashes : AttachDocument(m, key, hash)

(* What anyone may do: keeper.sh makes the last three of these calls.        *)
PublicCall ==
    \/ \E id \in LoanIds :
          \/ DisburseApprovedLoan(id)
          \/ ExpireLoanProposal(id)
          \/ MarkLoanDefaulted(id)
    \/ \E id \in TreasuryIds :
          \/ ExecuteTreasuryProposal(id)
          \/ ExpireTreasuryProposal(id)

AdminCall(caller) ==
    \/ \E a \in AdminAccounts :
          \/ AddAdmin(caller, a)
          \/ RemoveAdmin(caller, a)
          \/ SetPauser(caller, a)
    \/ RevokePauser(caller)
    \/ \E t \in ThresholdInputs : SetConsensusThreshold(caller, t)
    \/ Pause(caller)
    \/ Unpause(caller)
    \/ \E p \in PolicyInputs : ProposePolicyUpdate(caller, p)
    \/ ExecutePolicyUpdate(caller)
    \/ CancelPolicyUpdate(caller)
    \/ \E token \in ExtraAssets :
          \/ ProposeTokenAddition(caller, token)
          \/ ExecuteTokenAddition(caller, token)
          \/ RemoveToken(caller, token)

MigrationCall(caller) ==
    \/ \E a \in Accounts :
          \/ \E r \in LegacyMembers : SeedMember(caller, a, r)
          \/ \E amount \in LegacyStakes : SeedStake(caller, a, amount)
          \/ \E amount \in LegacyYields : SeedPendingYield(caller, a, amount)
          \/ \E name \in Names : SeedName(caller, a, name)
    \/ \E id \in LoanIds, l \in LegacyLoans : SeedLoan(caller, id, l)
    \/ \E key \in DocumentKeys, hash \in Hashes : SeedDocument(caller, key, hash)
    \/ LockSeeding(caller)

(* The contract in operation ...                                             *)
Operate ==
    /\ \/ Tick
       \/ \E asset \in Assets, amount \in DonationAmounts : Donate(asset, amount)
       \/ \E m \in Accounts :
             MembershipCall(m) \/ LoanCall(m) \/ TreasuryCall(m) \/ RegistryCall(m)
       \/ PublicCall
       \/ \E caller \in Governors : AdminCall(caller)
    /\ \A asset \in Assets : balance'[asset] <= Supply

(* ... and the copying of another deployment's state into it.                *)
Migrate == \E caller \in Migrators : MigrationCall(caller)

Next == Operate \/ Migrate

(* Any deployment, and one that was set up by `initialize` alone.            *)
Spec == Init /\ [][Next]_vars
OperatingSpec == Init /\ [][Operate]_vars

(***************************************************************************)
(* Ledgers keep closing, and keeper.sh, run by cron, sees to what is due:   *)
(* Keeper.tla has the script and shows that it does. It does not do so for  *)
(* expire_loan_proposal. Nothing else is owed: no member has to vote,       *)
(* repay, claim or reveal.                                                  *)
(***************************************************************************)
KeeperFairness ==
    /\ WF_vars(Tick)
    /\ \A id \in LoanIds : WF_vars(MarkLoanDefaulted(id))
    /\ \A id \in TreasuryIds : WF_vars(ExpireTreasuryProposal(id))

KeptSpec == OperatingSpec /\ KeeperFairness
============================================================================
