-------------------------- MODULE OurDaoProperties --------------------------
(***************************************************************************)
(* What the contract promises its members: the properties the runs check    *)
(* and the proofs establish. Those that migration.rs can break, because it  *)
(* trusts the records it is given, are stated of OperatingSpec.             *)
(***************************************************************************)
EXTENDS OurDao

LoanProposalRecords ==
    [borrower : Accounts \cup {NoAccount}, asset : Assets, amount : Nat,
     editing_period_end : Nat, voting_period : Nat, phase : ProposalPhases,
     status : ProposalStatuses, for_votes : Nat, against_votes : Nat,
     votes_cast : Nat]
TreasuryProposalRecords ==
    [proposer : Accounts \cup {NoAccount}, asset : Assets, amount : Nat,
     created_at : Nat, status : ProposalStatuses, for_votes : Nat,
     against_votes : Nat, votes_cast : Nat, voting_period : Nat,
     treasury_threshold : Nat, private : BOOLEAN]
CommitRecords ==
    [voter : Accounts \cup {NoAccount}, id : Nat, support : BOOLEAN]
PendingPolicies == [policy : PolicyRecords, proposed_at : Nat, execution_time : Nat]

(* The ledger entries keep the types the contract declares for them          *)
(* (storage.rs DataKey, types.rs): amounts are signed, counts and times not. *)
(* One part for each group of variables.                                     *)
WorldTypes == now \in Nat /\ balance \in [Assets -> Int]
AdminTypes ==
    /\ admins \in Seq(AdminAccounts)
    /\ pauser \in AdminAccounts \cup {NoAccount}
    /\ threshold \in Nat
    /\ policy \in PolicyRecords
    /\ pendingPolicy \in SUBSET PendingPolicies
    /\ paused \in BOOLEAN
TokenTypes ==
    /\ whitelisted \in SUBSET ExtraAssets
    /\ pendingToken \in [ExtraAssets -> SUBSET Nat]
MemberTypes ==
    /\ members \in [Accounts -> MemberRecords]
    /\ totalMembers \in Int
    /\ activeMembers \in Int
    /\ activeContributions \in Int
DelegationTypes == delegation \in [Accounts -> Accounts \cup {NoAccount}]
YieldTypes ==
    /\ yieldAccumulator \in Int
    /\ yieldRemainder \in Int
    /\ yieldSnapshot \in [Accounts -> Int]
StakeTypes ==
    /\ stakes \in [Accounts -> Nat]
    /\ stakeTime \in [Accounts -> Nat]
    /\ totalStaked \in Int
LoanTypes ==
    /\ loanProposals \in [LoanIds -> LoanProposalRecords]
    /\ nextProposalId \in Nat
    /\ loanVoted \in [LoanIds -> SUBSET Accounts]
    /\ loans \in [LoanIds -> LoanRecords]
TreasuryTypes ==
    /\ treasuryProposals \in [TreasuryIds -> TreasuryProposalRecords]
    /\ nextTreasuryId \in Nat
    /\ treasuryVoted \in [TreasuryIds -> SUBSET Accounts]
    /\ commits \in [TreasuryIds -> [Accounts -> CommitRecords]]
RegistryTypes ==
    /\ nameOwner \in [Names -> Accounts \cup {NoAccount}]
    /\ nameOf \in [Accounts -> Names \cup {NoName}]
DocumentTypes ==
    /\ documents \in [DocumentKeys -> Hashes \cup {NoHash}]
    /\ seedingLocked \in BOOLEAN
TypeOK ==
    /\ WorldTypes /\ AdminTypes /\ TokenTypes /\ MemberTypes /\ DelegationTypes
    /\ YieldTypes /\ StakeTypes /\ LoanTypes /\ TreasuryTypes /\ RegistryTypes
    /\ DocumentTypes
-----------------------------------------------------------------------------
(* Members.                                                                  *)

(* The two member counters, kept by hand in register_member, exit_dao and    *)
(* seed_members, agree with the records: active_members is the number every  *)
(* quorum is taken of (INVARIANTS.md L3 follows).                            *)
MembershipCounts ==
    /\ totalMembers = Cardinality(Registered)
    /\ activeMembers = Cardinality(ActiveMembers)

(* total_staked, which is taken off the treasury of the base token, is the   *)
(* sum of the members' stakes through stake, unstake, exit_dao and           *)
(* seed_stakes (INVARIANTS.md L4).                                           *)
StakesAddUp == totalStaked = SumFunctionOnSet(stakes, Accounts)
-----------------------------------------------------------------------------
(* Loans.                                                                    *)

LoansOf(m, statuses) ==
    {id \in LoanIds : loans[id].borrower = m /\ loans[id].status \in statuses}

(* A loan exists exactly for the proposals that became Approved, under the   *)
(* same id and borrower, whether a ballot or disburse_approved_loan paid it  *)
(* out (INVARIANTS.md L1).                                                   *)
LoanBook ==
    \A id \in LoanIds :
        /\ loans[id].status # "None" <=> loanProposals[id].status = "Approved"
        /\ loans[id].status # "None" => /\ loans[id].borrower = loanProposals[id].borrower
                                        /\ id < nextProposalId

(* A member's lifetime counters tell the truth about the loan book, across   *)
(* exit, return, several loans at once and default.                          *)
TrackRecord ==
    \A m \in Accounts :
        /\ members[m].total_loans =
              Cardinality(LoansOf(m, {"Active", "Repaid", "Defaulted"}))
        /\ members[m].repaid_loans = Cardinality(LoansOf(m, {"Repaid"}))
        /\ members[m].active_loans = Cardinality(LoansOf(m, {"Active"}))

(* Nobody is kept from leaving the DAO, or from borrowing, by a loan that is *)
(* no longer running: the flag exit_dao and is_eligible_for_loan read is up  *)
(* only while some loan of the member is Active.                             *)
ExitLockBacked ==
    \A m \in Accounts : members[m].has_active_loan => LoansOf(m, {"Active"}) # {}

(* A loan is Repaid exactly when principal, interest and every surcharge are *)
(* paid in full, and nobody pays more than they owe.                         *)
RepaidInFull ==
    \A id \in LoanIds : loans[id].status # "None" =>
        /\ loans[id].amount_repaid \in 0 .. loans[id].total_repayment
        /\ loans[id].status = "Repaid"
              <=> loans[id].amount_repaid = loans[id].total_repayment

(* What a borrower owes as interest, the part the members share, is settled  *)
(* at disbursement: no payment, surcharge or default changes it later, and   *)
(* what has been paid of it is never taken back.                             *)
InterestFixed ==
    [][\A id \in LoanIds : loans[id].status # "None" =>
          /\ InterestOf(loans[id])' = InterestOf(loans[id])
          /\ InterestPaid(loans[id])' >= InterestPaid(loans[id])]_vars

BaseLoans == {id \in LoanIds : /\ loans[id].status # "None"
                               /\ loanProposals[id].asset = BaseToken}
InterestReceived ==
    SumFunctionOnSet([id \in LoanIds |-> InterestPaid(loans[id])], BaseLoans)
(* What the active members may still claim, and the indivisible rest.        *)
YieldOwed ==
    SumFunctionOnSet([a \in Accounts |-> PendingYield(a)], ActiveMembers) + yieldRemainder

(* Members are never promised more yield than borrowers have paid interest   *)
(* in the base token, whoever joins, returns, leaves or defaults in between  *)
(* (INVARIANTS.md A1).                                                       *)
YieldBacked == YieldOwed <= InterestReceived

(* Nor less: a payment's interest, with the remainder of earlier divisions,  *)
(* is owed to the members to the last unit (distribute_interest).            *)
InterestShared ==
    [][(activeMembers > 0 /\ UNCHANGED <<yieldSnapshot, ActiveMembers>>)
          => YieldOwed' - YieldOwed = InterestReceived' - InterestReceived]_vars
-----------------------------------------------------------------------------
(* Money.                                                                    *)

RequestStage(status) ==
    CASE status = "None" -> "unused"
      [] status = "Pending" -> "open"
      [] status = "ApprovedPendingDisbursement" -> "granted"
      [] status \in {"Approved", "Executed"} -> "paid"
      [] OTHER -> "closed"
Request(key) ==
    IF key[1] = "Loan" THEN loanProposals[key[2]] ELSE treasuryProposals[key[2]]

(* Loans and withdrawals together are the requests of FundRequests.          *)
RequestStages == [key \in DocumentKeys |-> RequestStage(Request(key).status)]
RequestTerms ==
    [key \in DocumentKeys |->
        [asset |-> Request(key).asset, amount |-> Request(key).amount]]
Fund == INSTANCE FundRequests WITH
    Requests <- DocumentKeys, Tokens <- Assets, Base <- BaseToken,
    stage <- RequestStages, asked <- RequestTerms, cash <- balance, held <- totalStaked

(* Decisions are final; what a ballot granted is paid out once, whether the  *)
(* ballot, a batch of ballots, disburse_approved_loan or execute pays it, in *)
(* the asset and amount voted on and not out of stakes; and nothing else     *)
(* leaves the contract but a member's own exit or claim.                     *)
FundsAccounted == Fund!Spec
-----------------------------------------------------------------------------
(* Ballots.                                                                  *)

(* Every ballot counted is one voter's, and each voter's only one: the count *)
(* that decides early rejection is the number of those recorded as voted, in *)
(* loan ballots (batches included), open and private treasury ballots.       *)
BallotsCounted ==
    /\ \A id \in LoanIds :
          loanProposals[id].votes_cast = Cardinality(loanVoted[id])
    /\ \A id \in TreasuryIds :
          treasuryProposals[id].votes_cast = Cardinality(treasuryVoted[id])

(* What a loan ballot is about does not change under the voters: once one    *)
(* vote is in, neither the amount nor the attached document does.            *)
BallotSubjectFixed ==
    [][\A id \in LoanIds : loanVoted[id] # {} =>
          /\ loanProposals'[id].amount = loanProposals[id].amount
          /\ documents'[<<"Loan", id>>] = documents[<<"Loan", id>>]]_vars

(* While a private proposal takes commitments nobody's choice is known and   *)
(* nothing is counted: the early-decision rule cannot end the ballot either. *)
BlindWhileCommitting ==
    \A id \in TreasuryIds :
        LET p == treasuryProposals[id]
        IN  p.private /\ now <= CommitEnd(p) =>
              /\ treasuryVoted[id] = {}
              /\ p.status \in {"Pending", "Cancelled"}

(* A commitment binds: it is never exchanged for another, and is used up     *)
(* only by its own author's one counted ballot for the choice committed to.  *)
CommitmentBinds ==
    [][\A id \in TreasuryIds, v \in Accounts :
          LET c == commits[id][v]
              p == treasuryProposals[id]
          IN  c # NoCommit /\ commits'[id][v] # c =>
                /\ commits'[id][v] = NoCommit
                /\ c.voter = v
                /\ v \in treasuryVoted'[id] \ treasuryVoted[id]
                /\ IF c.support
                   THEN treasuryProposals'[id].against_votes = p.against_votes
                   ELSE treasuryProposals'[id].for_votes = p.for_votes]_vars

(* A member who stays does not take back stake while a ballot or commitment  *)
(* of theirs is still open (issue 175).                                      *)
StakeHeldByBallots ==
    [][\A m \in ActiveMembers \cap ActiveMembers', id \in TreasuryIds :
          /\ treasuryProposals[id].status = "Pending"
          /\ now <= TreasuryVotingEnd(treasuryProposals[id])
          /\ m \in treasuryVoted[id] \/ commits[id][m] # NoCommit
          => stakes'[m] >= stakes[m]]_vars

(* A member never has more open proposals, loans and withdrawals together,   *)
(* than the quota (storage.rs get_open_proposals).                           *)
QuotaKept == \A m \in Accounts : OpenProposals(m) <= MaxOpenProposals
-----------------------------------------------------------------------------
(* Governance.                                                               *)

(* There is always an admin, and no admin is listed twice, so that removing  *)
(* one leaves no hidden copy.                                                *)
AdminsProper ==
    /\ admins # <<>>
    /\ \A i, j \in 1 .. Len(admins) : admins[i] = admins[j] => i = j

(* The pause stops every call of a member, keeper or passer-by: until an     *)
(* admin resumes, no record of theirs changes and no token leaves.           *)
PauseFreezes ==
    [][paused =>
         /\ UNCHANGED <<memberVars, delegation, yieldVars, stakeVars, loanVars,
                        treasuryVars, registryVars, documents>>
         /\ \A asset \in Assets : balance'[asset] >= balance[asset]]_vars

(***************************************************************************)
(* Both timelocks of admin.rs are the abstract Timelock. What counts as      *)
(* announced is the pending update, since its proposed_at, and the pending   *)
(* addition, since a timelock before its execution time.                     *)
(***************************************************************************)
AcceptablePolicies == {p \in InitialPolicies \cup PolicyInputs : ValidPolicy(p)}
PolicyTimelock == INSTANCE Timelock WITH
    Items <- {"policy"}, Values <- AcceptablePolicies, Immediate <- {},
    Delay <- TimelockDuration, clock <- now,
    current <- [i \in {"policy"} |-> policy],
    announced <- [i \in {"policy"} |->
        {[value |-> u.policy, since |-> u.proposed_at] : u \in pendingPolicy}]
TokenTimelock == INSTANCE Timelock WITH
    Items <- ExtraAssets, Values <- {"listed", "unlisted"}, Immediate <- {"unlisted"},
    Delay <- TimelockDuration, clock <- now,
    current <- [token \in ExtraAssets |->
        IF token \in whitelisted THEN "listed" ELSE "unlisted"],
    announced <- [token \in ExtraAssets |->
        {[value |-> "listed", since |-> time - TimelockDuration] :
            time \in pendingToken[token]}]

(* Every policy that takes effect is acceptable to validate_policy and has   *)
(* stood as the one pending update for the whole timelock, whatever is       *)
(* proposed again, cancelled or executed twice around it.                    *)
PolicyTimelockKept == PolicyTimelock!Spec

(* Every token that comes to be accepted for loans and withdrawals has been  *)
(* announced for the whole timelock; one is taken off the list at once.      *)
TokenTimelockKept == TokenTimelock!Spec

(* Members always have a full timelock's notice of a policy: at no moment is *)
(* a policy that is neither in force nor pending in force before the         *)
(* timelock has run from then, replacements and cancellations included.      *)
PolicyNotice ==
    \A p \in PolicyInputs, t \in 1 .. MaxTime : PolicyTimelock!Notice("policy", p, t)

(* And so of a token that is to be accepted for loans and withdrawals.       *)
TokenNotice ==
    \A token \in ExtraAssets, t \in 1 .. MaxTime :
        TokenTimelock!Notice(token, "listed", t)
-----------------------------------------------------------------------------
(* Registry and migration.                                                   *)

(* The registry is one-to-one and holds only active members' names: both     *)
(* directions agree after renaming and exit (register_name, exit_dao).       *)
NamesOneToOne ==
    /\ \A a \in Accounts, n \in Names : nameOwner[n] = a <=> nameOf[a] = n
    /\ \A n \in Names : nameOwner[n] \in ActiveMembers \cup {NoAccount}

(* An id not yet handed out names nothing: a new request never lands on a    *)
(* seeded loan or document (set_next_proposal_id_at_least).                  *)
FreshIds ==
    /\ \A id \in LoanIds : id >= nextProposalId =>
          /\ loans[id] = NoLoan
          /\ loanProposals[id] = NoLoanProposal
          /\ documents[<<"Loan", id>>] = NoHash
    /\ \A id \in TreasuryIds : id >= nextTreasuryId =>
          /\ treasuryProposals[id] = NoTreasuryProposal
          /\ documents[<<"Treasury", id>>] = NoHash
-----------------------------------------------------------------------------
(* Liveness, of KeptSpec, while the contract is not paused and for what is   *)
(* due before the clock's bound.                                             *)

(* No loan proposal stays open past its voting window, voted on or not.      *)
LoanProposalsClose ==
    \A id \in LoanIds :
        (loanProposals[id].status = "Pending" /\ LoanVotingEnd(loanProposals[id]) < MaxTime)
          ~> (loanProposals[id].status # "Pending" \/ paused)

(* No withdrawal proposal does, open or private.                             *)
TreasuryProposalsClose ==
    \A id \in TreasuryIds :
        /\ treasuryProposals[id].status = "Pending"
        /\ TreasuryVotingEnd(treasuryProposals[id]) < MaxTime
        ~> treasuryProposals[id].status # "Pending" \/ paused

(* Every loan is repaid or written off, whether or not its borrower is still *)
(* a member.                                                                 *)
LoansSettle ==
    \A id \in LoanIds :
        /\ loans[id].status = "Active"
        /\ loans[id].due_time + policy.default_grace_period <= MaxTime
        ~> loans[id].status # "Active" \/ paused
-----------------------------------------------------------------------------
(* What the repository says of the contract and the code does not do.        *)

(* "Double or miscounted votes" are ruled out (THREAT_MODEL.md), each voter  *)
(* votes once (USER_GUIDE.md): no proposal ever holds more votes than all    *)
(* who ever joined have between them. A member who votes and then delegates  *)
(* is counted again in the delegatee's ballot.                               *)
VotesWithinElectorate ==
    \A id \in TreasuryIds :
        treasuryProposals[id].for_votes + treasuryProposals[id].against_votes
          <= MapThenSumSet(LAMBDA m : 1 + StakeBoost(stakes[m]), Registered)

(* ActiveContributions is the sum over active members, kept so by register,  *)
(* exit and default (storage.rs): a default of someone who has left takes    *)
(* off it what their exit already took.                                      *)
ContributionsAddUp ==
    activeContributions =
        MapThenSumSet(LAMBDA m : members[m].contribution, ActiveMembers)

(* Who committed may reveal during the reveal window (USER_GUIDE.md): a      *)
(* private proposal does not expire before it is over. Anyone may call       *)
(* expire_treasury_proposal when the commit period alone has passed.         *)
RevealWindowServed ==
    [][\A id \in TreasuryIds :
          /\ treasuryProposals[id].status = "Pending"
          /\ treasuryProposals'[id].status = "Expired"
          => now > TreasuryVotingEnd(treasuryProposals[id])]_vars

(* A member's has_active_loan flag is up if and only if exactly one loan of  *)
(* theirs is Active (INVARIANTS.md L2): several proposals of one borrower    *)
(* may be approved, and repaying one of the loans lowers the flag of all.    *)
OneLoanAtATime ==
    \A m \in Accounts :
        members[m].has_active_loan <=> Cardinality(LoansOf(m, {"Active"})) = 1
============================================================================
