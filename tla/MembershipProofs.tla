-------------------------- MODULE MembershipProofs --------------------------
(***************************************************************************)
(* Type correctness of the contract in every deployment: any policy, fee,    *)
(* number of accounts, assets and proposals, with and without seeding; and   *)
(* with it that the member counters are right. The two are proved together:  *)
(* interest is divided by the number of active members, which is a number of *)
(* members, not merely an integer, because the counter is right. One lemma   *)
(* per entrypoint for the types, the record lemmas first; then one per call  *)
(* that moves a counter.                                                     *)
(***************************************************************************)
EXTENDS OurDaoProperties, FiniteSetTheorems, TLAPS

-----------------------------------------------------------------------------
(* Writing one field of a record with a value of the field's type keeps the  *)
(* record's type.                                                            *)
LEMMA MemberFields ==
    ASSUME NEW r \in MemberRecords
    PROVE  /\ \A v \in MemberStatuses : [r EXCEPT !.status = v] \in MemberRecords
           /\ \A v \in BOOLEAN : [r EXCEPT !.has_active_loan = v] \in MemberRecords
           /\ \A v \in Int : [r EXCEPT !.contribution = v] \in MemberRecords
           /\ \A v \in Nat : /\ [r EXCEPT !.join_time = v] \in MemberRecords
                             /\ [r EXCEPT !.last_loan_time = v] \in MemberRecords
                             /\ [r EXCEPT !.total_loans = v] \in MemberRecords
                             /\ [r EXCEPT !.repaid_loans = v] \in MemberRecords
                             /\ [r EXCEPT !.active_loans = v] \in MemberRecords
  BY DEF MemberRecords

(* The same of a loan proposal.                                              *)
LEMMA LoanProposalFields ==
    ASSUME NEW p \in LoanProposalRecords
    PROVE  /\ \A v \in ProposalStatuses : [p EXCEPT !.status = v] \in LoanProposalRecords
           /\ \A v \in ProposalPhases : [p EXCEPT !.phase = v] \in LoanProposalRecords
           /\ \A v \in Nat : /\ [p EXCEPT !.amount = v] \in LoanProposalRecords
                             /\ [p EXCEPT !.for_votes = v] \in LoanProposalRecords
                             /\ [p EXCEPT !.against_votes = v] \in LoanProposalRecords
                             /\ [p EXCEPT !.votes_cast = v] \in LoanProposalRecords
  BY DEF LoanProposalRecords

(* The same of a loan.                                                       *)
LEMMA LoanFields ==
    ASSUME NEW l \in LoanRecords
    PROVE  /\ \A v \in LoanStatuses : [l EXCEPT !.status = v] \in LoanRecords
           /\ \A v \in Int : /\ [l EXCEPT !.principal = v] \in LoanRecords
                             /\ [l EXCEPT !.total_repayment = v] \in LoanRecords
                             /\ [l EXCEPT !.amount_repaid = v] \in LoanRecords
  BY DEF LoanRecords

(* The same of a treasury proposal.                                          *)
LEMMA TreasuryProposalFields ==
    ASSUME NEW p \in TreasuryProposalRecords
    PROVE  /\ \A v \in ProposalStatuses :
                 [p EXCEPT !.status = v] \in TreasuryProposalRecords
           /\ \A v \in Nat :
                 /\ [p EXCEPT !.for_votes = v] \in TreasuryProposalRecords
                 /\ [p EXCEPT !.against_votes = v] \in TreasuryProposalRecords
                 /\ [p EXCEPT !.votes_cast = v] \in TreasuryProposalRecords
  BY DEF TreasuryProposalRecords

(* A call that leaves a group of variables alone leaves their types alone.   *)
LEMMA Frame ==
    ASSUME TypeOK
    PROVE  /\ UNCHANGED <<now, balance>> => WorldTypes'
           /\ UNCHANGED adminVars => AdminTypes'
           /\ UNCHANGED tokenVars => TokenTypes'
           /\ UNCHANGED memberVars => MemberTypes'
           /\ UNCHANGED delegation => DelegationTypes'
           /\ UNCHANGED yieldVars => YieldTypes'
           /\ UNCHANGED stakeVars => StakeTypes'
           /\ UNCHANGED loanVars => LoanTypes'
           /\ UNCHANGED treasuryVars => TreasuryTypes'
           /\ UNCHANGED registryVars => RegistryTypes'
           /\ UNCHANGED <<documents, seedingLocked>> => DocumentTypes'
  BY DEF TypeOK, WorldTypes, AdminTypes, TokenTypes, MemberTypes, DelegationTypes,
         YieldTypes, StakeTypes, LoanTypes, TreasuryTypes, RegistryTypes,
         DocumentTypes, adminVars, tokenVars, memberVars, yieldVars, stakeVars,
         loanVars, treasuryVars, registryVars

(* A member's voting weight is a number of votes, whatever the delegations.  *)
LEMMA VotingWeightIsNat == ASSUME NEW who \in Accounts PROVE VotingWeight(who) \in Nat
<1>. DEFINE votes == Backers(who) \X (0 .. MAX_STAKE_BONUS)
<1>1. IsFiniteSet(Backers(who))
  <2>1. Backers(who) \subseteq Accounts
    BY DEF Backers, Registered
  <2>. QED  BY <2>1, FS_Subset, AccountsAssumption
<1>2. IsFiniteSet(0 .. MAX_STAKE_BONUS)
  <2>1. 0 \in Int /\ MAX_STAKE_BONUS \in Int
    BY DEF MAX_STAKE_BONUS
  <2>. QED  BY <2>1, FS_Interval
<1>3. IsFiniteSet(votes)
  BY <1>1, <1>2, FS_Product
<1>4. IsFiniteSet({v \in votes : v[2] <= StakeBoost(stakes[v[1]])})
  BY <1>3, FS_Subset
<1>. QED  BY <1>4, FS_CardinalityType DEF VotingWeight
-----------------------------------------------------------------------------
(* The amounts of money the calls compute are integers (the divisors are     *)
(* positive wherever the code divides).                                      *)
LEMMA RoundedUpIsInt ==
    /\ \A x, y \in Int : y > 0 => CeilDiv(x, y) \in Int
    /\ \A x, y \in Int : BpsCeil(x, y) \in Int
    /\ \A x, y \in Int : Lesser(x, y) \in Int
  BY DEF CeilDiv, BpsCeil, Lesser, BASIS_POINTS

(* A quote, rate and sum, is of integers (quote_terms).                     *)
LEMMA QuotesAreInt ==
    ASSUME NEW p \in PolicyRecords, NEW amount \in Int, NEW treasury \in Int
    PROVE  /\ InterestRate(p, amount, treasury) \in Int
           /\ TotalRepayment(p, amount, treasury) \in Int
<1>1. LoanRatio(amount, treasury) \in Int
  <2>1. amount * BASIS_POINTS \in Int /\ BASIS_POINTS \in Int
    BY DEF BASIS_POINTS
  <2>2. treasury > 0 => CeilDiv(amount * BASIS_POINTS, treasury) \in Int
    BY <2>1, RoundedUpIsInt
  <2>. QED  BY <2>1, <2>2, RoundedUpIsInt DEF LoanRatio
<1>2. p.min_interest_rate \in Int /\ p.max_interest_rate \in Int
  BY DEF PolicyRecords
<1>3. InterestRate(p, amount, treasury) \in Int
  <2>. DEFINE spread == p.max_interest_rate - p.min_interest_rate
  <2>1. LoanRatio(amount, treasury) * spread \in Int
    BY <1>1, <1>2
  <2>2. CeilDiv(LoanRatio(amount, treasury) * spread, BASIS_POINTS) \in Int
    BY <2>1, RoundedUpIsInt DEF BASIS_POINTS
  <2>3. p.min_interest_rate
          + CeilDiv(LoanRatio(amount, treasury) * spread, BASIS_POINTS) \in Int
    BY <1>2, <2>2
  <2>. QED  BY <1>2, <2>3, RoundedUpIsInt DEF InterestRate
<1>4. Interest(p, amount, treasury) \in Int
  BY <1>3, RoundedUpIsInt DEF Interest
<1>. QED  BY <1>3, <1>4 DEF TotalRepayment

(* Both penalties are integers (overdue payment, default).                   *)
LEMMA PenaltiesAreInt ==
    ASSUME NEW p \in PolicyRecords, NEW x \in Int
    PROVE  OverduePenalty(p, x) \in Int /\ DefaultPenalty(p, x) \in Int
<1>1. p.default_penalty_bps \in Int
  BY DEF PolicyRecords
<1>2. BpsCeil(x, p.default_penalty_bps) \in Int
  BY <1>1, RoundedUpIsInt
<1>. QED  BY <1>2, RoundedUpIsInt DEF OverduePenalty, DefaultPenalty

(* The contract holds its base token.                                        *)
LEMMA BaseTokenIsAsset == BaseToken \in Assets
  BY DEF Assets

(* The treasury of an asset is an integer, negative perhaps.                 *)
LEMMA TreasuryIsInt ==
    ASSUME TypeOK
    PROVE  \A asset \in Assets : TreasuryBalance(asset) \in Int
  BY DEF TypeOK, WorldTypes, StakeTypes, TreasuryBalance, TreasuryOf

(* What an exit pays is an integer (exit_dao).                               *)
LEMMA PayoutIsInt ==
    ASSUME TypeOK, NEW m \in Accounts
    PROVE  PendingYield(m) \in Int /\ ExitPayout(m) \in Int
<1>1. PendingYield(m) \in Int
  BY DEF TypeOK, YieldTypes, PendingYield
<1>2. ExitShare(m) \in Int
  <2>1. TreasuryBalance(BaseToken) \in Int
    BY TreasuryIsInt, BaseTokenIsAsset
  <2>2. members[m].contribution \in Int /\ activeContributions \in Int
    BY DEF TypeOK, MemberTypes, MemberRecords
  <2>. DEFINE share == TreasuryBalance(BaseToken) * members[m].contribution
  <2>3. share \in Int
    BY <2>1, <2>2
  <2>4. activeContributions > 0 => share \div activeContributions \in Int
    BY <2>2, <2>3
  <2>. QED  BY <2>1, <2>2, <2>4 DEF ExitShare, ShareFromContributions
<1>. QED  BY <1>1, <1>2 DEF ExitPayout, TypeOK, StakeTypes
-----------------------------------------------------------------------------
(* membership.rs and staking.rs.                                             *)
LEMMA RegisterMemberTyped ==
    ASSUME TypeOK, NEW m \in Accounts, RegisterMember(m)
    PROVE  TypeOK'
<1>1. MembershipFee \in Int
  BY FeeAssumption
<1>2. Joined(m) \in MemberRecords
  <2>1. members[m] \in MemberRecords /\ now \in Nat
    BY DEF TypeOK, MemberTypes, WorldTypes
  <2>2. "ActiveMember" \in MemberStatuses
    BY DEF MemberStatuses
  <2>. QED  BY <1>1, <2>1, <2>2, MemberFields DEF Joined
<1>3. MemberTypes'
  <2>1. NewOnJoining(m) \in Int
    BY DEF NewOnJoining
  <2>. QED  BY <1>1, <1>2, <2>1 DEF TypeOK, MemberTypes, RegisterMember
<1>4. YieldTypes'
  BY DEF TypeOK, YieldTypes, RegisterMember, SnapshotOnJoining
<1>5. WorldTypes'
  BY <1>1, BaseTokenIsAsset DEF TypeOK, WorldTypes, RegisterMember
<1>. QED  BY <1>3, <1>4, <1>5, Frame DEF TypeOK, RegisterMember

(* exit_dao keeps the types.                                                 *)
LEMMA ExitDaoTyped ==
    ASSUME TypeOK, NEW m \in Accounts, ExitDao(m)
    PROVE  TypeOK'
<1>1. ExitPayout(m) \in Int
  BY PayoutIsInt
<1>2. WorldTypes'
  BY <1>1, BaseTokenIsAsset DEF TypeOK, WorldTypes, ExitDao
<1>3. MemberTypes'
  <2>1. members[m] \in MemberRecords /\ members[m].contribution \in Int
    BY DEF TypeOK, MemberTypes, MemberRecords
  <2>2. [members[m] EXCEPT !.status = "Inactive"] \in MemberRecords
    BY <2>1, MemberFields DEF MemberStatuses
  <2>. QED  BY <2>1, <2>2 DEF TypeOK, MemberTypes, ExitDao
<1>4. YieldTypes'
  BY DEF TypeOK, YieldTypes, ExitDao
<1>5. StakeTypes'
  BY DEF TypeOK, StakeTypes, ExitDao
<1>6. RegistryTypes'
  BY DEF TypeOK, RegistryTypes, ExitDao, ReleaseName
<1>. QED  BY <1>2, <1>3, <1>4, <1>5, <1>6, Frame DEF TypeOK, ExitDao

(* claim_rewards keeps the types.                                            *)
LEMMA ClaimRewardsTyped ==
    ASSUME TypeOK, NEW m \in Accounts, ClaimRewards(m)
    PROVE  TypeOK'
<1>1. PendingYield(m) \in Int
  BY PayoutIsInt
<1>2. WorldTypes'
  BY <1>1, BaseTokenIsAsset DEF TypeOK, WorldTypes, ClaimRewards
<1>3. YieldTypes'
  BY DEF TypeOK, YieldTypes, ClaimRewards
<1>. QED  BY <1>2, <1>3, Frame DEF TypeOK, ClaimRewards

(* delegate_vote keeps the types.                                            *)
LEMMA DelegateVoteTyped ==
    ASSUME TypeOK, NEW m \in Accounts, NEW d \in Accounts, DelegateVote(m, d)
    PROVE  TypeOK'
<1>1. DelegationTypes'
  BY DEF TypeOK, DelegationTypes, DelegateVote
<1>. QED  BY <1>1, Frame DEF TypeOK, DelegateVote

(* stake keeps the types.                                                    *)
LEMMA StakeTyped ==
    ASSUME TypeOK, NEW m \in Accounts, NEW amount \in Nat, Stake(m, amount)
    PROVE  TypeOK'
<1>1. StakeTypes'
  BY DEF TypeOK, StakeTypes, WorldTypes, Stake
<1>. QED  BY <1>1, Frame DEF TypeOK, Stake

(* unstake keeps the types: no stake becomes negative.                       *)
LEMMA UnstakeTyped ==
    ASSUME TypeOK, NEW m \in Accounts, NEW amount \in Nat, Unstake(m, amount)
    PROVE  TypeOK'
<1>1. StakeTypes'
  BY DEF TypeOK, StakeTypes, Unstake, Unstakable, TotalAfterUnstake
<1>. QED  BY <1>1, Frame DEF TypeOK, Unstake
-----------------------------------------------------------------------------
(* registry.rs, docs.rs, migration.rs, and what happens around the contract. *)
LEMMA RegisterNameTyped ==
    ASSUME TypeOK, NEW owner \in Accounts, NEW name \in Names,
           RegisterName(owner, name)
    PROVE  TypeOK'
<1>1. OldNameFreed(owner, name) \in [Names -> Accounts \cup {NoAccount}]
  BY DEF TypeOK, RegistryTypes, OldNameFreed
<1>2. RegistryTypes'
  BY <1>1 DEF TypeOK, RegistryTypes, RegisterName
<1>. QED  BY <1>2, Frame DEF TypeOK, RegisterName

(* attach_document keeps the types.                                          *)
LEMMA AttachDocumentTyped ==
    ASSUME TypeOK, NEW caller \in Accounts, NEW key \in DocumentKeys,
           NEW hash \in Hashes, AttachDocument(caller, key, hash)
    PROVE  TypeOK'
<1>1. DocumentTypes'
  BY DEF TypeOK, DocumentTypes, AttachDocument
<1>. QED  BY <1>1, Frame DEF TypeOK, AttachDocument

(* seed_members keeps the types.                                             *)
LEMMA SeedMemberTyped ==
    ASSUME TypeOK, NEW caller, NEW a \in Accounts, NEW r \in MemberRecords,
           SeedMember(caller, a, r)
    PROVE  TypeOK'
<1>1. r \in MemberRecords /\ r.contribution \in Int
  BY DEF MemberRecords
<1>2. members[a].contribution \in Int
  BY DEF TypeOK, MemberTypes, MemberRecords
<1>3. totalMembers \in Int /\ activeMembers \in Int
  BY DEF TypeOK, MemberTypes
<1>4. UndoneActive(a) \in Int
  BY DEF UndoneActive
<1>5. SaturatingSub(totalMembers, 1) \in Int
      /\ SaturatingSub(activeMembers, UndoneActive(a)) \in Int
  BY <1>3, <1>4 DEF SaturatingSub
<1>6. MemberTypes'
  BY <1>1, <1>2, <1>5 DEF TypeOK, MemberTypes, SeedMember
<1>. QED  BY <1>6, Frame DEF TypeOK, SeedMember

(* seed_stakes keeps the types.                                              *)
LEMMA SeedStakeTyped ==
    ASSUME TypeOK, NEW caller, NEW a \in Accounts, NEW amount \in Nat,
           SeedStake(caller, a, amount)
    PROVE  TypeOK'
<1>1. StakeTypes'
  BY DEF TypeOK, StakeTypes, SeedStake, TotalAfterSeeding
<1>. QED  BY <1>1, Frame DEF TypeOK, SeedStake

(* seed_pending_yield keeps the types.                                       *)
LEMMA SeedPendingYieldTyped ==
    ASSUME TypeOK, NEW caller, NEW a \in Accounts, NEW amount \in Nat,
           SeedPendingYield(caller, a, amount)
    PROVE  TypeOK'
<1>1. YieldTypes'
  BY DEF TypeOK, YieldTypes, SeedPendingYield
<1>. QED  BY <1>1, Frame DEF TypeOK, SeedPendingYield

(* seed_loans keeps the types.                                               *)
LEMMA SeedLoanTyped ==
    ASSUME TypeOK, NEW caller, NEW id \in LoanIds, NEW l \in LoanRecords,
           SeedLoan(caller, id, l)
    PROVE  TypeOK'
<1>1. IdPast(nextProposalId, id) \in Nat
  BY BoundsAssumption DEF TypeOK, LoanTypes, IdPast, LoanIds
<1>2. LoanTypes'
  BY <1>1 DEF TypeOK, LoanTypes, SeedLoan
<1>. QED  BY <1>2, Frame DEF TypeOK, SeedLoan

(* seed_names keeps the types.                                               *)
LEMMA SeedNameTyped ==
    ASSUME TypeOK, NEW caller, NEW owner \in Accounts, NEW name \in Names,
           SeedName(caller, owner, name)
    PROVE  TypeOK'
<1>1. RegistryTypes'
  BY DEF TypeOK, RegistryTypes, SeedName
<1>. QED  BY <1>1, Frame DEF TypeOK, SeedName

(* seed_docs keeps the types.                                                *)
LEMMA SeedDocumentTyped ==
    ASSUME TypeOK, NEW caller, NEW key \in DocumentKeys, NEW hash \in Hashes,
           SeedDocument(caller, key, hash)
    PROVE  TypeOK'
<1>1. key[2] \in Nat
  BY BoundsAssumption DEF DocumentKeys, LoanIds, TreasuryIds
<1>2. IdPast(nextProposalId, key[2]) \in Nat /\ IdPast(nextTreasuryId, key[2]) \in Nat
  BY <1>1 DEF TypeOK, LoanTypes, TreasuryTypes, IdPast
<1>3. DocumentTypes'
  BY DEF TypeOK, DocumentTypes, SeedDocument
<1>4. LoanTypes'
  BY <1>2 DEF TypeOK, LoanTypes, SeedDocument
<1>5. TreasuryTypes'
  BY <1>2 DEF TypeOK, TreasuryTypes, SeedDocument
<1>. QED  BY <1>3, <1>4, <1>5, Frame DEF TypeOK, SeedDocument

(* lock_seeding keeps the types.                                             *)
LEMMA LockSeedingTyped ==
    ASSUME TypeOK, NEW caller, LockSeeding(caller)
    PROVE  TypeOK'
<1>1. DocumentTypes'
  BY DEF TypeOK, DocumentTypes, LockSeeding
<1>. QED  BY <1>1, Frame DEF TypeOK, LockSeeding

(* The passing of time keeps the types.                                      *)
LEMMA TickTyped == ASSUME TypeOK, Tick PROVE TypeOK'
<1>1. WorldTypes'
  BY DEF TypeOK, WorldTypes, Tick
<1>. QED  BY <1>1, Frame DEF TypeOK, Tick

(* A transfer to the contract keeps the types.                               *)
LEMMA DonateTyped ==
    ASSUME TypeOK, NEW asset \in Assets, NEW amount \in DonationAmounts,
           Donate(asset, amount)
    PROVE  TypeOK'
<1>1. amount \in Nat
  BY InputsAssumption
<1>2. WorldTypes'
  BY <1>1 DEF TypeOK, WorldTypes, Donate
<1>. QED  BY <1>2, Frame DEF TypeOK, Donate
-----------------------------------------------------------------------------
(* admin.rs.                                                                 *)
LEMMA RemovalTyped ==
    ASSUME NEW S, NEW list \in Seq(S), NEW x,
           \E k \in 1 .. Len(list) : list[k] = x
    PROVE  Without(list, x) \in Seq(S)
<1>. DEFINE i == CHOOSE k \in 1 .. Len(list) : list[k] = x
<1>1. i \in 1 .. Len(list)
  OBVIOUS
<1>2. SubSeq(list, 1, i - 1) \in Seq(S) /\ SubSeq(list, i + 1, Len(list)) \in Seq(S)
  BY <1>1
<1>3. SubSeq(list, 1, i - 1) \o SubSeq(list, i + 1, Len(list)) \in Seq(S)
  BY <1>2
<1>. QED  BY <1>3 DEF Without

(* The calls that rewrite one of the governance entries ...                  *)
LEMMA AdminEntriesTyped ==
    ASSUME TypeOK, NEW caller,
           \/ \E a \in AdminAccounts : AddAdmin(caller, a) \/ SetPauser(caller, a)
           \/ RevokePauser(caller) \/ Pause(caller) \/ Unpause(caller)
           \/ \E t \in ThresholdInputs : SetConsensusThreshold(caller, t)
           \/ CancelPolicyUpdate(caller)
    PROVE  TypeOK'
<1>1. AdminTypes'
  <2>1. CASE \E a \in AdminAccounts : AddAdmin(caller, a)
    BY <2>1 DEF TypeOK, AdminTypes, AddAdmin
  <2>2. CASE \E a \in AdminAccounts : SetPauser(caller, a)
    BY <2>2 DEF TypeOK, AdminTypes, SetPauser
  <2>3. CASE RevokePauser(caller)
    BY <2>3 DEF TypeOK, AdminTypes, RevokePauser
  <2>4. CASE Pause(caller)
    BY <2>4 DEF TypeOK, AdminTypes, Pause
  <2>5. CASE Unpause(caller)
    BY <2>5 DEF TypeOK, AdminTypes, Unpause
  <2>6. CASE \E t \in ThresholdInputs : SetConsensusThreshold(caller, t)
    BY <2>6 DEF TypeOK, AdminTypes, SetConsensusThreshold, BASIS_POINTS
  <2>7. CASE CancelPolicyUpdate(caller)
    BY <2>7 DEF TypeOK, AdminTypes, CancelPolicyUpdate
  <2>. QED  BY <2>1, <2>2, <2>3, <2>4, <2>5, <2>6, <2>7
<1>2. UNCHANGED tokenVars /\ AdminFrame
  BY DEF AddAdmin, SetPauser, RevokePauser, Pause, Unpause, SetConsensusThreshold,
         CancelPolicyUpdate, tokenVars
<1>. QED  BY <1>1, <1>2, Frame DEF TypeOK, AdminFrame

(* ... and those with more to them.                                          *)
LEMMA RemoveAdminTyped ==
    ASSUME TypeOK, NEW caller, NEW a, RemoveAdmin(caller, a)
    PROVE  TypeOK'
<1>1. Without(admins, a) \in Seq(AdminAccounts)
  BY RemovalTyped DEF TypeOK, AdminTypes, RemoveAdmin, IsAdmin
<1>2. AdminTypes'
  BY <1>1 DEF TypeOK, AdminTypes, RemoveAdmin
<1>. QED  BY <1>2, Frame DEF TypeOK, RemoveAdmin, AdminFrame

(* propose_policy_update keeps the types.                                    *)
LEMMA ProposePolicyUpdateTyped ==
    ASSUME TypeOK, NEW caller, NEW p \in PolicyInputs, ProposePolicyUpdate(caller, p)
    PROVE  TypeOK'
<1>1. p \in PolicyRecords /\ now \in Nat /\ ExecutionTime \in Nat
  BY InputsAssumption, BoundsAssumption DEF TypeOK, WorldTypes, ExecutionTime
<1>2. pendingPolicy' \in SUBSET PendingPolicies
  BY <1>1 DEF ProposePolicyUpdate, PendingPolicies
<1>3. AdminTypes'
  BY <1>2 DEF TypeOK, AdminTypes, ProposePolicyUpdate
<1>. QED  BY <1>3, Frame DEF TypeOK, ProposePolicyUpdate, AdminFrame

(* execute_policy_update keeps the types.                                    *)
LEMMA ExecutePolicyUpdateTyped ==
    ASSUME TypeOK, NEW caller, ExecutePolicyUpdate(caller)
    PROVE  TypeOK'
<1>1. PICK update \in pendingPolicy : policy' = update.policy
  BY DEF ExecutePolicyUpdate
<1>2. policy' \in PolicyRecords
  BY <1>1 DEF TypeOK, AdminTypes, PendingPolicies
<1>3. AdminTypes'
  BY <1>2 DEF TypeOK, AdminTypes, ExecutePolicyUpdate
<1>. QED  BY <1>3, Frame DEF TypeOK, ExecutePolicyUpdate, AdminFrame

(* The three calls on the whitelist keep the types.                          *)
LEMMA WhitelistCallsTyped ==
    ASSUME TypeOK, NEW caller, NEW token \in ExtraAssets,
           \/ ProposeTokenAddition(caller, token)
           \/ ExecuteTokenAddition(caller, token)
           \/ RemoveToken(caller, token)
    PROVE  TypeOK'
<1>1. TokenTypes'
  <2>1. CASE ProposeTokenAddition(caller, token)
    <3>1. now + TimelockDuration \in Nat
      BY BoundsAssumption DEF TypeOK, WorldTypes
    <3>. QED  BY <2>1, <3>1 DEF TypeOK, TokenTypes, ProposeTokenAddition
  <2>2. CASE ExecuteTokenAddition(caller, token)
    BY <2>2 DEF TypeOK, TokenTypes, ExecuteTokenAddition
  <2>3. CASE RemoveToken(caller, token)
    BY <2>3 DEF TypeOK, TokenTypes, RemoveToken
  <2>. QED  BY <2>1, <2>2, <2>3
<1>2. UNCHANGED adminVars /\ AdminFrame
  BY DEF ProposeTokenAddition, ExecuteTokenAddition, RemoveToken
<1>. QED  BY <1>1, <1>2, Frame DEF TypeOK, AdminFrame
-----------------------------------------------------------------------------
(* treasury.rs and privacy.rs.                                               *)
LEMMA ProposeWithdrawalTyped ==
    ASSUME TypeOK, NEW m \in Accounts, NEW amount \in Nat, NEW asset \in Assets,
           NEW private \in BOOLEAN,
           ProposeWithdrawalInAsset(m, amount, asset, private)
    PROVE  TypeOK'
<1>. DEFINE new == treasuryProposals'[nextTreasuryId]
<1>1. nextTreasuryId \in TreasuryIds
  BY BoundsAssumption
     DEF TypeOK, TreasuryTypes, TreasuryIds, ProposeWithdrawalInAsset
<1>2. /\ policy.voting_period \in Nat /\ policy.treasury_threshold \in Nat
      /\ now \in Nat /\ "Pending" \in ProposalStatuses
  BY DEF TypeOK, AdminTypes, WorldTypes, PolicyRecords, ProposalStatuses
<1>3. [proposer |-> m, asset |-> asset, amount |-> amount,
       created_at |-> now, status |-> "Pending",
       for_votes |-> 0, against_votes |-> 0, votes_cast |-> 0,
       voting_period |-> policy.voting_period,
       treasury_threshold |-> policy.treasury_threshold, private |-> private]
         \in TreasuryProposalRecords
  BY <1>2 DEF TreasuryProposalRecords
<1>4. TreasuryTypes'
  BY <1>1, <1>3 DEF TypeOK, TreasuryTypes, ProposeWithdrawalInAsset
<1>. QED  BY <1>4, Frame DEF TypeOK, ProposeWithdrawalInAsset

(* A counted ballot, however it was cast.                                    *)
LEMMA TallyTyped ==
    ASSUME TypeOK, NEW m \in Accounts, NEW id \in TreasuryIds,
           NEW support \in BOOLEAN, Tally(id, m, support)
    PROVE  /\ treasuryProposals' \in [TreasuryIds -> TreasuryProposalRecords]
           /\ treasuryVoted' \in [TreasuryIds -> SUBSET Accounts]
           /\ balance' \in [Assets -> Int]
<1>. DEFINE old == treasuryProposals[id]
            counted == CountedTreasuryVote(old, m, support)
            status == StatusAfterVote(counted)
<1>1. old \in TreasuryProposalRecords
  BY DEF TypeOK, TreasuryTypes
<1>2. counted \in TreasuryProposalRecords
  <2>1. VotingWeight(m) \in Nat
    BY VotingWeightIsNat
  <2>2. /\ old.for_votes \in Nat /\ old.against_votes \in Nat
        /\ old.votes_cast \in Nat
    BY <1>1 DEF TreasuryProposalRecords
  <2>3. /\ old.for_votes + (IF support THEN VotingWeight(m) ELSE 0) \in Nat
        /\ old.against_votes + (IF support THEN 0 ELSE VotingWeight(m)) \in Nat
        /\ old.votes_cast + 1 \in Nat
    BY <2>1, <2>2
  <2>. QED  BY <1>1, <2>3, TreasuryProposalFields DEF CountedTreasuryVote
<1>3. status \in ProposalStatuses
  BY DEF StatusAfterVote, ProposalStatuses
<1>4. [counted EXCEPT !.status = status] \in TreasuryProposalRecords
  BY <1>2, <1>3, TreasuryProposalFields
<1>5. counted.asset \in Assets /\ counted.amount \in Int
  BY <1>2 DEF TreasuryProposalRecords
<1>. HIDE DEF old, counted, status
<1>6. /\ treasuryProposals' =
           [treasuryProposals EXCEPT ![id] = [counted EXCEPT !.status = status]]
      /\ treasuryVoted' = [treasuryVoted EXCEPT ![id] = @ \cup {m}]
      /\ balance' = IF status = "Executed"
                    THEN [balance EXCEPT ![counted.asset] = @ - counted.amount]
                    ELSE balance
  BY DEF Tally, old, counted, status
<1>. QED  BY <1>4, <1>5, <1>6 DEF TypeOK, TreasuryTypes, WorldTypes

(* An open ballot keeps the types.                                           *)
LEMMA VoteOnTreasuryProposalTyped ==
    ASSUME TypeOK, NEW m \in Accounts, NEW id \in TreasuryIds,
           NEW support \in BOOLEAN, VoteOnTreasuryProposal(m, id, support)
    PROVE  TypeOK'
<1>1. TreasuryTypes' /\ WorldTypes'
  BY TallyTyped
     DEF TypeOK, TreasuryTypes, WorldTypes, VoteOnTreasuryProposal
<1>. QED  BY <1>1, Frame DEF TypeOK, VoteOnTreasuryProposal

(* What is committed to is a commitment.                                     *)
LEMMA CommitmentsAreTyped ==
    /\ NoCommit \in CommitRecords
    /\ \A author \in Accounts, id \in TreasuryIds, support \in BOOLEAN :
          Commitment(author, id, support) \in CommitRecords
  BY BoundsAssumption DEF NoCommit, CommitRecords, Commitment, TreasuryIds

(* commit_vote keeps the types.                                              *)
LEMMA CommitVoteTyped ==
    ASSUME TypeOK, NEW m \in Accounts, NEW id \in TreasuryIds,
           NEW c \in CommitRecords, CommitVote(m, id, c)
    PROVE  TypeOK'
<1>1. TreasuryTypes'
  BY DEF TypeOK, TreasuryTypes, CommitVote
<1>. QED  BY <1>1, Frame DEF TypeOK, CommitVote

(* reveal_vote keeps the types.                                              *)
LEMMA RevealVoteTyped ==
    ASSUME TypeOK, NEW m \in Accounts, NEW id \in TreasuryIds,
           NEW support \in BOOLEAN, RevealVote(m, id, support)
    PROVE  TypeOK'
<1>1. commits' \in [TreasuryIds -> [Accounts -> CommitRecords]]
  BY CommitmentsAreTyped DEF TypeOK, TreasuryTypes, RevealVote
<1>2. TreasuryTypes' /\ WorldTypes'
  BY <1>1, TallyTyped DEF TypeOK, TreasuryTypes, WorldTypes, RevealVote
<1>. QED  BY <1>2, Frame DEF TypeOK, RevealVote

(* execute_approved keeps the types.                                         *)
LEMMA ExecuteTreasuryProposalTyped ==
    ASSUME TypeOK, NEW id \in TreasuryIds, ExecuteTreasuryProposal(id)
    PROVE  TypeOK'
<1>1. treasuryProposals[id] \in TreasuryProposalRecords
  BY DEF TypeOK, TreasuryTypes
<1>2. [treasuryProposals[id] EXCEPT !.status = "Executed"] \in TreasuryProposalRecords
  BY <1>1, TreasuryProposalFields DEF ProposalStatuses
<1>3. TreasuryTypes'
  BY <1>2 DEF TypeOK, TreasuryTypes, ExecuteTreasuryProposal
<1>4. treasuryProposals[id].asset \in Assets /\ treasuryProposals[id].amount \in Int
  BY <1>1 DEF TreasuryProposalRecords
<1>5. WorldTypes'
  BY <1>4 DEF TypeOK, WorldTypes, ExecuteTreasuryProposal
<1>. QED  BY <1>3, <1>5, Frame DEF TypeOK, ExecuteTreasuryProposal

(* Cancelling and expiring a withdrawal keep the types.                      *)
LEMMA CloseTreasuryProposalTyped ==
    ASSUME TypeOK, NEW id \in TreasuryIds,
           \/ \E m \in Accounts : CancelTreasuryProposal(m, id)
           \/ ExpireTreasuryProposal(id)
    PROVE  TypeOK'
<1>1. treasuryProposals[id] \in TreasuryProposalRecords
  BY DEF TypeOK, TreasuryTypes
<1>2. \A status \in {"Cancelled", "Expired"} :
         [treasuryProposals[id] EXCEPT !.status = status] \in TreasuryProposalRecords
  BY <1>1, TreasuryProposalFields DEF ProposalStatuses
<1>3. TreasuryTypes'
  <2>1. CASE \E m \in Accounts : CancelTreasuryProposal(m, id)
    BY <1>2, <2>1 DEF TypeOK, TreasuryTypes, CancelTreasuryProposal
  <2>2. CASE ExpireTreasuryProposal(id)
    BY <1>2, <2>2 DEF TypeOK, TreasuryTypes, ExpireTreasuryProposal
  <2>. QED  BY <2>1, <2>2
<1>4. UNCHANGED <<now, balance, adminVars, tokenVars, memberVars, delegation,
                  yieldVars, stakeVars, loanVars, registryVars, documents,
                  seedingLocked>>
  BY DEF CancelTreasuryProposal, ExpireTreasuryProposal
<1>. QED  BY <1>3, <1>4, Frame DEF TypeOK
-----------------------------------------------------------------------------
(* loans.rs. A book has the types of the entries it stands for.              *)
Books ==
    [proposals : [LoanIds -> LoanProposalRecords],
     voted : [LoanIds -> SUBSET Accounts],
     loans : [LoanIds -> LoanRecords],
     members : [Accounts -> MemberRecords],
     balance : [Assets -> Int]]

(* The store of a typed state is a typed book.                               *)
LEMMA BookTyped == TypeOK => Book \in Books
  BY DEF TypeOK, LoanTypes, MemberTypes, WorldTypes, Book, Books

(* Storing a typed book leaves a typed state.                                *)
LEMMA BecomesBookTyped ==
    ASSUME TypeOK, NEW b \in Books, BecomesBook(b),
           UNCHANGED <<now, adminVars, tokenVars, totalMembers, activeMembers,
                       activeContributions, delegation, yieldVars, stakeVars,
                       nextProposalId, treasuryVars, registryVars, documents,
                       seedingLocked>>
    PROVE  TypeOK'
<1>1. /\ b.proposals \in [LoanIds -> LoanProposalRecords]
      /\ b.voted \in [LoanIds -> SUBSET Accounts]
      /\ b.loans \in [LoanIds -> LoanRecords]
      /\ b.members \in [Accounts -> MemberRecords]
      /\ b.balance \in [Assets -> Int]
  BY DEF Books
<1>2. LoanTypes'
  BY <1>1 DEF TypeOK, LoanTypes, BecomesBook
<1>3. MemberTypes'
  BY <1>1 DEF TypeOK, MemberTypes, BecomesBook
<1>4. WorldTypes'
  BY <1>1 DEF TypeOK, WorldTypes, BecomesBook
<1>. QED  BY <1>2, <1>3, <1>4, Frame DEF TypeOK

(* refresh_phase keeps a proposal a proposal.                                *)
LEMMA RefreshedTyped ==
    ASSUME NEW p \in LoanProposalRecords
    PROVE  InVoting(p) \in LoanProposalRecords /\ Refreshed(p) \in LoanProposalRecords
<1>1. InVoting(p) \in LoanProposalRecords
  BY LoanProposalFields DEF InVoting, ProposalPhases
<1>2. \A q \in LoanProposalRecords :
         [q EXCEPT !.phase = "Expired", !.status = "Expired"] \in LoanProposalRecords
  BY LoanProposalFields DEF ProposalPhases, ProposalStatuses
<1>. QED  BY <1>1, <1>2 DEF Refreshed

(* approve_and_disburse keeps a book typed.                                  *)
LEMMA DisbursedTyped ==
    ASSUME TypeOK, NEW b \in Books, NEW id \in LoanIds
    PROVE  Disbursed(b, id) \in Books
<1>. DEFINE p == b.proposals[id]
<1>1. p \in LoanProposalRecords /\ p.asset \in Assets /\ p.amount \in Nat
      /\ p.borrower \in Accounts \cup {NoAccount}
  BY DEF Books, LoanProposalRecords
<1>2. TreasuryOf(b.balance, p.asset) \in Int
  BY <1>1 DEF TypeOK, StakeTypes, TreasuryOf, Books
<1>3. NewLoan(b, p) \in LoanRecords
  <2>1. TotalRepayment(policy, p.amount, TreasuryOf(b.balance, p.asset)) \in Int
    <3>. DEFINE amount == p.amount
                held == TreasuryOf(b.balance, p.asset)
    <3>1. policy \in PolicyRecords /\ amount \in Int /\ held \in Int
      BY <1>1, <1>2 DEF TypeOK, AdminTypes
    <3>. HIDE DEF amount, held
    <3>. QED  BY <3>1, QuotesAreInt DEF amount, held
  <2>2. now + policy.max_loan_duration \in Nat
    BY DEF TypeOK, WorldTypes, AdminTypes, PolicyRecords
  <2>. QED  BY <1>1, <2>1, <2>2 DEF NewLoan, LoanRecords, LoanStatuses
<1>4. \A r \in MemberRecords : RecordAfterLoan(r) \in MemberRecords
  <2>. SUFFICES ASSUME NEW r \in MemberRecords PROVE RecordAfterLoan(r) \in MemberRecords
    OBVIOUS
  <2>1. now \in Nat /\ r.total_loans + 1 \in Nat /\ r.active_loans + 1 \in Nat
    BY DEF TypeOK, WorldTypes, MemberRecords
  <2>. QED  BY <2>1, MemberFields DEF RecordAfterLoan
<1>5. [p EXCEPT !.status = "Approved"] \in LoanProposalRecords
  BY <1>1, LoanProposalFields DEF ProposalStatuses
<1>. HIDE DEF p
<1>6. [b.proposals EXCEPT ![id].status = "Approved"] \in [LoanIds -> LoanProposalRecords]
  BY <1>5 DEF Books, p
<1>7. [b.loans EXCEPT ![id] = NewLoan(b, p)] \in [LoanIds -> LoanRecords]
  BY <1>3 DEF Books
<1>8. [b.members EXCEPT ![p.borrower] = RecordAfterLoan(@)] \in [Accounts -> MemberRecords]
  BY <1>4 DEF Books
<1>9. [b.balance EXCEPT ![p.asset] = @ - p.amount] \in [Assets -> Int]
  BY <1>1 DEF Books
<1>. QED  BY <1>6, <1>7, <1>8, <1>9 DEF Disbursed, Books, p

(* Counting a ballot keeps a proposal a proposal.                            *)
LEMMA CountedLoanVoteTyped ==
    ASSUME TypeOK, NEW p \in LoanProposalRecords, NEW voter \in Accounts,
           NEW support \in BOOLEAN
    PROVE  /\ CountedLoanVote(p, voter, support) \in LoanProposalRecords
           /\ CountedLoanVote(p, voter, support).status = Refreshed(p).status
           /\ CountedLoanVote(p, voter, support).borrower = Refreshed(p).borrower
<1>. DEFINE q == Refreshed(p)
<1>1. q \in LoanProposalRecords
  BY RefreshedTyped
<1>. HIDE DEF q
<1>2. VotingWeight(voter) \in Nat
  BY VotingWeightIsNat
<1>3. /\ q.for_votes + (IF support THEN VotingWeight(voter) ELSE 0) \in Nat
      /\ q.against_votes + (IF support THEN 0 ELSE VotingWeight(voter)) \in Nat
      /\ q.votes_cast + 1 \in Nat
  BY <1>1, <1>2 DEF LoanProposalRecords
<1>4. [q EXCEPT !.for_votes = @ + (IF support THEN VotingWeight(voter) ELSE 0),
                !.against_votes = @ + (IF support THEN 0 ELSE VotingWeight(voter)),
                !.votes_cast = @ + 1] \in LoanProposalRecords
  BY <1>1, <1>3, LoanProposalFields
<1>5. CountedLoanVote(p, voter, support).status = q.status
      /\ CountedLoanVote(p, voter, support).borrower = q.borrower
  BY <1>1 DEF CountedLoanVote, q, LoanProposalRecords
<1>. QED  BY <1>4, <1>5 DEF CountedLoanVote, q

(* Counting and deciding keep a book typed.                                  *)
LEMMA BallotBookTyped ==
    ASSUME TypeOK, NEW b \in Books, NEW voter \in Accounts, NEW id \in LoanIds,
           NEW support \in BOOLEAN
    PROVE  BallotBook(b, voter, id, support) \in Books
<1>. DEFINE p == CountedLoanVote(b.proposals[id], voter, support)
            decided == IF p.status = "Pending" THEN LoanOutcome(p) ELSE p
<1>1. p \in LoanProposalRecords
  BY CountedLoanVoteTyped DEF Books
<1>2. LoanOutcome(p) \in LoanProposalRecords
  <2>1. /\ [p EXCEPT !.status = "ApprovedPendingDisbursement", !.phase = "Executed"]
             \in LoanProposalRecords
        /\ [p EXCEPT !.status = "Rejected", !.phase = "Expired"] \in LoanProposalRecords
    BY <1>1, LoanProposalFields DEF ProposalStatuses, ProposalPhases
  <2>. QED  BY <1>1, <2>1 DEF LoanOutcome
<1>3. decided \in LoanProposalRecords
  BY <1>1, <1>2
<1>. HIDE DEF decided
<1>4. [proposals |-> [b.proposals EXCEPT ![id] = decided],
       voted |-> [b.voted EXCEPT ![id] = @ \cup {voter}],
       loans |-> b.loans, members |-> b.members, balance |-> b.balance] \in Books
  BY <1>3 DEF Books
<1>. QED  BY <1>4 DEF BallotBook, decided

(* A whole loan ballot, with its payment, keeps a book typed.                *)
LEMMA LoanVoteCastTyped ==
    ASSUME TypeOK, NEW b \in Books, NEW voter \in Accounts, NEW id \in LoanIds,
           NEW support \in BOOLEAN
    PROVE  LoanVoteCast(b, voter, id, support) \in Books
  BY BallotBookTyped, DisbursedTyped DEF LoanVoteCast

(* vote_on_loan_proposal keeps the types.                                    *)
LEMMA VoteOnLoanProposalTyped ==
    ASSUME TypeOK, NEW m \in Accounts, NEW id \in LoanIds, NEW support \in BOOLEAN,
           VoteOnLoanProposal(m, id, support)
    PROVE  TypeOK'
<1>1. LoanVoteCast(Book, m, id, support) \in Books
  BY BookTyped, LoanVoteCastTyped
<1>. QED  BY <1>1, BecomesBookTyped DEF VoteOnLoanProposal

(* vote_batch keeps the types.                                               *)
LEMMA VoteBatchTyped ==
    ASSUME TypeOK, NEW m \in Accounts, NEW id1 \in LoanIds, NEW s1 \in BOOLEAN,
           NEW id2 \in LoanIds, NEW s2 \in BOOLEAN, VoteBatch(m, id1, s1, id2, s2)
    PROVE  TypeOK'
<1>. DEFINE after1 == LoanVoteCast(Book, m, id1, s1)
<1>1. after1 \in Books
  BY BookTyped, LoanVoteCastTyped
<1>2. LoanVoteCast(after1, m, id2, s2) \in Books
  BY <1>1, LoanVoteCastTyped
<1>. QED  BY <1>2, BecomesBookTyped DEF VoteBatch

(* disburse_approved_loan keeps the types.                                   *)
LEMMA DisburseApprovedLoanTyped ==
    ASSUME TypeOK, NEW id \in LoanIds, DisburseApprovedLoan(id)
    PROVE  TypeOK'
<1>1. Disbursed(Book, id) \in Books
  BY BookTyped, DisbursedTyped
<1>. QED  BY <1>1, BecomesBookTyped DEF DisburseApprovedLoan

(* request_loan_in_asset keeps the types.                                    *)
LEMMA RequestLoanTyped ==
    ASSUME TypeOK, NEW m \in Accounts, NEW amount \in Nat, NEW asset \in Assets,
           RequestLoanInAsset(m, amount, asset)
    PROVE  TypeOK'
<1>1. nextProposalId \in LoanIds
  BY BoundsAssumption DEF TypeOK, LoanTypes, LoanIds, RequestLoanInAsset
<1>2. now + policy.editing_period \in Nat /\ policy.voting_period \in Nat
  BY DEF TypeOK, WorldTypes, AdminTypes, PolicyRecords
<1>3. [borrower |-> m, asset |-> asset, amount |-> amount,
       editing_period_end |-> now + policy.editing_period,
       voting_period |-> policy.voting_period,
       phase |-> "Editing", status |-> "Pending",
       for_votes |-> 0, against_votes |-> 0, votes_cast |-> 0]
         \in LoanProposalRecords
  BY <1>2 DEF LoanProposalRecords, ProposalPhases, ProposalStatuses
<1>4. LoanTypes'
  BY <1>1, <1>3 DEF TypeOK, LoanTypes, RequestLoanInAsset
<1>. QED  BY <1>4, Frame DEF TypeOK, RequestLoanInAsset

(* edit_loan_proposal keeps the types.                                       *)
LEMMA EditLoanProposalTyped ==
    ASSUME TypeOK, NEW m \in Accounts, NEW id \in LoanIds, NEW amount \in Nat,
           EditLoanProposal(m, id, amount)
    PROVE  TypeOK'
<1>1. [loanProposals[id] EXCEPT !.amount = amount] \in LoanProposalRecords
  BY LoanProposalFields DEF TypeOK, LoanTypes
<1>2. LoanTypes'
  BY <1>1 DEF TypeOK, LoanTypes, EditLoanProposal
<1>. QED  BY <1>2, Frame DEF TypeOK, EditLoanProposal

(* cancel_loan_proposal keeps the types.                                     *)
LEMMA CancelLoanProposalTyped ==
    ASSUME TypeOK, NEW m \in Accounts, NEW id \in LoanIds, CancelLoanProposal(m, id)
    PROVE  TypeOK'
<1>1. loanProposals[id] \in LoanProposalRecords
  BY DEF TypeOK, LoanTypes
<1>2. [loanProposals[id] EXCEPT !.status = "Cancelled", !.phase = "Expired"]
        \in LoanProposalRecords
  BY <1>1, LoanProposalFields DEF ProposalStatuses, ProposalPhases
<1>3. LoanTypes'
  BY <1>2 DEF TypeOK, LoanTypes, CancelLoanProposal
<1>. QED  BY <1>3, Frame DEF TypeOK, CancelLoanProposal

(* expire_loan_proposal keeps the types.                                     *)
LEMMA ExpireLoanProposalTyped ==
    ASSUME TypeOK, NEW id \in LoanIds, ExpireLoanProposal(id)
    PROVE  TypeOK'
<1>1. Refreshed(loanProposals[id]) \in LoanProposalRecords
  BY RefreshedTyped DEF TypeOK, LoanTypes
<1>2. LoanTypes'
  BY <1>1 DEF TypeOK, LoanTypes, ExpireLoanProposal
<1>. QED  BY <1>2, Frame DEF TypeOK, ExpireLoanProposal

(* A payment. The interest is divided by the number of active members, which *)
(* is why that number must be known not to be negative.                      *)
LEMMA SurchargedTyped ==
    ASSUME TypeOK, NEW l \in LoanRecords
    PROVE  Surcharged(l) \in LoanRecords
<1>. DEFINE penalty == OverduePenalty(policy, Outstanding(l))
<1>1. l.total_repayment \in Int /\ l.principal \in Int /\ Outstanding(l) \in Int
  BY DEF LoanRecords, Outstanding
<1>2. penalty \in Int
  BY <1>1, PenaltiesAreInt DEF TypeOK, AdminTypes
<1>. HIDE DEF penalty
<1>3. l.total_repayment + penalty \in Int /\ l.principal + penalty \in Int
  BY <1>1, <1>2
<1>4. [l EXCEPT !.total_repayment = @ + penalty, !.principal = @ + penalty]
        \in LoanRecords
  BY <1>3, LoanFields
<1>. QED  BY <1>4 DEF Surcharged, penalty

(* distribute_interest keeps accumulator and remainder integers.             *)
LEMMA DistributeInterestTyped ==
    ASSUME TypeOK, activeMembers \in Nat, NEW interest \in Int,
           DistributeInterest(interest)
    PROVE  yieldAccumulator' \in Int /\ yieldRemainder' \in Int
<1>1. InterestToSplit(interest) \in Int
  BY DEF TypeOK, YieldTypes, InterestToSplit
<1>2. activeMembers # 0 => /\ InterestToSplit(interest) \div activeMembers \in Int
                           /\ InterestToSplit(interest) % activeMembers \in Int
  BY <1>1
<1>. QED  BY <1>2 DEF DistributeInterest, TypeOK, YieldTypes

(* A payment keeps the types.                                                *)
LEMMA RepayAmountTyped ==
    ASSUME TypeOK, activeMembers \in Nat, NEW m \in Accounts, NEW id \in LoanIds,
           NEW amount, RepayAmount(m, id, amount)
    PROVE  TypeOK'
<1>. DEFINE before == Surcharged(loans[id])
            paid == [before EXCEPT !.amount_repaid = @ + amount]
            asset == loanProposals[id].asset
<1>1. before \in LoanRecords
  BY SurchargedTyped DEF TypeOK, LoanTypes
<1>. HIDE DEF before
<1>2. amount \in Int
  BY <1>1 DEF RepayAmount, before, Outstanding, LoanRecords
<1>3. before.amount_repaid + amount \in Int
  BY <1>1, <1>2 DEF LoanRecords
<1>4. paid \in LoanRecords /\ [paid EXCEPT !.status = "Repaid"] \in LoanRecords
  <2>1. paid \in LoanRecords
    BY <1>1, <1>3, LoanFields
  <2>. HIDE DEF paid
  <2>. QED  BY <2>1, LoanFields DEF LoanStatuses
<1>. HIDE DEF paid
<1>5. /\ loans' = [loans EXCEPT ![id] = IF Outstanding(paid) = 0
                                        THEN [paid EXCEPT !.status = "Repaid"]
                                        ELSE paid]
      /\ members' = IF Outstanding(paid) = 0 /\ IsMember(m)
                    THEN [members EXCEPT ![m] = RecordAfterRepayment(m)]
                    ELSE members
      /\ IF asset = BaseToken
         THEN DistributeInterest(InterestPaid(paid) - InterestPaid(before))
         ELSE UNCHANGED <<yieldAccumulator, yieldRemainder>>
      /\ balance' = [balance EXCEPT ![asset] = @ + amount]
  BY DEF RepayAmount, before, paid
<1>6. LoanTypes'
  BY <1>4, <1>5 DEF TypeOK, LoanTypes, RepayAmount
<1>7. MemberTypes'
  <2>1. members[m] \in MemberRecords
    BY DEF TypeOK, MemberTypes
  <2>2. /\ members[m].repaid_loans + 1 \in Nat
        /\ SaturatingSub(members[m].active_loans, 1) \in Nat
    BY <2>1 DEF MemberRecords, SaturatingSub
  <2>3. RecordAfterRepayment(m) \in MemberRecords
    BY <2>1, <2>2, MemberFields DEF RecordAfterRepayment
  <2>. QED  BY <1>5, <2>3 DEF TypeOK, MemberTypes, RepayAmount
<1>8. YieldTypes'
  <2>1. InterestPaid(paid) \in Int /\ InterestPaid(before) \in Int
    BY <1>1, <1>4 DEF InterestPaid, InterestOf, Lesser, LoanRecords
  <2>2. CASE asset = BaseToken
    <3>1. InterestPaid(paid) - InterestPaid(before) \in Int
      BY <2>1
    <3>2. DistributeInterest(InterestPaid(paid) - InterestPaid(before))
      BY <1>5, <2>2
    <3>3. yieldAccumulator' \in Int /\ yieldRemainder' \in Int
      BY <3>1, <3>2, DistributeInterestTyped
    <3>. QED  BY <3>3 DEF TypeOK, YieldTypes, RepayAmount
  <2>3. CASE asset # BaseToken
    BY <1>5, <2>3 DEF TypeOK, YieldTypes, RepayAmount
  <2>. QED  BY <2>2, <2>3
<1>9. WorldTypes'
  <2>1. asset \in Assets
    BY DEF TypeOK, LoanTypes, LoanProposalRecords
  <2>. HIDE DEF asset
  <2>. QED  BY <1>2, <1>5, <2>1 DEF TypeOK, WorldTypes, RepayAmount
<1>. QED  BY <1>6, <1>7, <1>8, <1>9, Frame DEF TypeOK, RepayAmount

(* mark_loan_defaulted keeps the types.                                      *)
LEMMA MarkLoanDefaultedTyped ==
    ASSUME TypeOK, NEW id \in LoanIds, loans[id].borrower \in Accounts,
           MarkLoanDefaulted(id)
    PROVE  TypeOK'
<1>. DEFINE m == loans[id].borrower
            slashed == DefaultPenalty(policy, members[m].contribution)
<1>1. [loans[id] EXCEPT !.status = "Defaulted"] \in LoanRecords
  BY LoanFields DEF TypeOK, LoanTypes, LoanStatuses
<1>2. LoanTypes'
  BY <1>1 DEF TypeOK, LoanTypes, MarkLoanDefaulted
<1>3. members[m] \in MemberRecords /\ members[m].contribution \in Int
  BY DEF TypeOK, MemberTypes, MemberRecords
<1>4. slashed \in Int
  BY <1>3, PenaltiesAreInt DEF TypeOK, AdminTypes
<1>5. RecordAfterDefault(m) \in MemberRecords
  <2>1. /\ members[m].contribution - slashed \in Int
        /\ SaturatingSub(members[m].active_loans, 1) \in Nat
    BY <1>3, <1>4 DEF MemberRecords, SaturatingSub
  <2>. QED  BY <1>3, <2>1, MemberFields DEF RecordAfterDefault
<1>6. MemberTypes'
  BY <1>4, <1>5 DEF TypeOK, MemberTypes, MarkLoanDefaulted
<1>7. YieldTypes'
  BY DEF TypeOK, YieldTypes, MarkLoanDefaulted
<1>. QED  BY <1>2, <1>6, <1>7, Frame DEF TypeOK, MarkLoanDefaulted

-----------------------------------------------------------------------------
(* The counters.                                                             *)

(* Every proposal and loan on the books belongs to an account: what          *)
(* mark_loan_defaulted relies on when it slashes "the borrower".             *)
LoansAttributed ==
    \A id \in LoanIds :
        /\ loanProposals[id].status # "None" => loanProposals[id].borrower \in Accounts
        /\ loans[id].status # "None" => loans[id].borrower \in Accounts

(* The inductive invariant.                                                  *)
CountsInv == TypeOK /\ MembershipCounts /\ LoansAttributed

-----------------------------------------------------------------------------
(* Counting members.                                                         *)
LEMMA MembersAreFinite ==
    /\ IsFiniteSet(Registered) /\ Cardinality(Registered) \in Nat
    /\ IsFiniteSet(ActiveMembers) /\ Cardinality(ActiveMembers) \in Nat
<1>1. Registered \subseteq Accounts /\ ActiveMembers \subseteq Accounts
  BY DEF Registered, ActiveMembers
<1>2. IsFiniteSet(Registered) /\ IsFiniteSet(ActiveMembers)
  BY <1>1, FS_Subset, AccountsAssumption
<1>. QED  BY <1>2, FS_CardinalityType

(* The divisor of distribute_interest is never negative.                     *)
LEMMA ActiveMembersIsNat == MembershipCounts => activeMembers \in Nat
  BY MembersAreFinite DEF MembershipCounts

(* A set whose members other than x stay what they were.                     *)
LEMMA OneElementCounted ==
    ASSUME NEW S, NEW T, NEW x, IsFiniteSet(S), T \ {x} = S \ {x}
    PROVE  /\ Cardinality(S) \in Nat
           /\ x \in S => Cardinality(S) >= 1
           /\ Cardinality(T) = Cardinality(S) - (IF x \in S THEN 1 ELSE 0)
                                 + (IF x \in T THEN 1 ELSE 0)
<1>. DEFINE R == S \ {x}
<1>1. IsFiniteSet(R) /\ Cardinality(R) \in Nat
  BY FS_Subset, FS_CardinalityType
<1>2. Cardinality(R \cup {x}) = Cardinality(R) + 1
  BY <1>1, FS_AddElement
<1>3. /\ IF x \in S THEN S = R \cup {x} ELSE S = R
      /\ IF x \in T THEN T = R \cup {x} ELSE T = R
  OBVIOUS
<1>. HIDE DEF R
<1>4. /\ x \in S => Cardinality(S) = Cardinality(R) + 1
      /\ x \notin S => Cardinality(S) = Cardinality(R)
  BY <1>2, <1>3
<1>5. /\ x \in T => Cardinality(T) = Cardinality(R) + 1
      /\ x \notin T => Cardinality(T) = Cardinality(R)
  BY <1>2, <1>3
<1>. QED  BY <1>1, <1>4, <1>5

(* What rewriting one member's record does to the two counts.                *)
LEMMA OneMemberCounted ==
    ASSUME TypeOK, MembershipCounts, NEW m \in Accounts, NEW r,
           members' = [members EXCEPT ![m] = r]
    PROVE  /\ totalMembers \in Nat /\ activeMembers \in Nat
           /\ IsMember(m) => totalMembers >= 1
           /\ IsActiveMember(m) => activeMembers >= 1
           /\ Cardinality(Registered)' =
                totalMembers - (IF IsMember(m) THEN 1 ELSE 0)
                             + (IF r.status # "NotMember" THEN 1 ELSE 0)
           /\ Cardinality(ActiveMembers)' =
                activeMembers - (IF IsActiveMember(m) THEN 1 ELSE 0)
                              + (IF r.status = "ActiveMember" THEN 1 ELSE 0)
<1>1. \A a \in Accounts : members'[a] = IF a = m THEN r ELSE members[a]
  BY DEF TypeOK, MemberTypes
<1>2. /\ Registered' \ {m} = Registered \ {m}
      /\ m \in Registered <=> IsMember(m)
      /\ m \in Registered' <=> r.status # "NotMember"
  BY <1>1 DEF Registered, IsMember
<1>3. /\ ActiveMembers' \ {m} = ActiveMembers \ {m}
      /\ m \in ActiveMembers <=> IsActiveMember(m)
      /\ m \in ActiveMembers' <=> r.status = "ActiveMember"
  BY <1>1 DEF ActiveMembers, IsActiveMember
<1>4. /\ totalMembers = Cardinality(Registered)
      /\ activeMembers = Cardinality(ActiveMembers)
  BY DEF MembershipCounts
<1>5. /\ totalMembers \in Nat
      /\ IsMember(m) => totalMembers >= 1
      /\ Cardinality(Registered)' =
           totalMembers - (IF IsMember(m) THEN 1 ELSE 0)
                        + (IF r.status # "NotMember" THEN 1 ELSE 0)
  BY <1>2, <1>4, MembersAreFinite, OneElementCounted
<1>6. /\ activeMembers \in Nat
      /\ IsActiveMember(m) => activeMembers >= 1
      /\ Cardinality(ActiveMembers)' =
           activeMembers - (IF IsActiveMember(m) THEN 1 ELSE 0)
                         + (IF r.status = "ActiveMember" THEN 1 ELSE 0)
  BY <1>3, <1>4, MembersAreFinite, OneElementCounted
<1>. QED  BY <1>5, <1>6

(* Nobody joins or leaves.                                                   *)
StatusesKept == \A a \in Accounts : members'[a].status = members[a].status

(* Calls that change no member's status and neither counter.                 *)
LEMMA SameStatusesCounted ==
    ASSUME MembershipCounts, UNCHANGED <<totalMembers, activeMembers>>, StatusesKept
    PROVE  MembershipCounts'
<1>1. Registered' = Registered /\ ActiveMembers' = ActiveMembers
  BY DEF StatusesKept, Registered, ActiveMembers, IsMember, IsActiveMember
<1>. QED  BY <1>1 DEF MembershipCounts

(* Calls that leave the members alone keep the counts.                       *)
LEMMA CountsFrame == MembershipCounts /\ UNCHANGED memberVars => MembershipCounts'
  BY SameStatusesCounted DEF memberVars, StatusesKept

(* Calls that leave the loans alone keep them attributed.                    *)
LEMMA AttributionFrame == LoansAttributed /\ UNCHANGED loanVars => LoansAttributed'
  BY DEF LoansAttributed, loanVars

-----------------------------------------------------------------------------
(* The calls that do change them.                                            *)
LEMMA RegisterMemberCounted ==
    ASSUME TypeOK, MembershipCounts, NEW m \in Accounts, RegisterMember(m)
    PROVE  MembershipCounts'
<1>1. Joined(m).status = "ActiveMember"
  BY DEF TypeOK, MemberTypes, MemberRecords, Joined
<1>2. members' = [members EXCEPT ![m] = Joined(m)] /\ ~IsActiveMember(m)
      /\ totalMembers' = totalMembers + NewOnJoining(m)
      /\ activeMembers' = activeMembers + 1
  BY DEF RegisterMember
<1>3. /\ totalMembers \in Nat /\ activeMembers \in Nat
      /\ IsMember(m) => totalMembers >= 1
      /\ IsActiveMember(m) => activeMembers >= 1
      /\ Cardinality(Registered') =
           totalMembers - (IF IsMember(m) THEN 1 ELSE 0) + 1
      /\ Cardinality(ActiveMembers') =
           activeMembers - (IF IsActiveMember(m) THEN 1 ELSE 0)
                         + 1
  BY <1>1, <1>2, OneMemberCounted
<1>. QED  BY <1>2, <1>3 DEF MembershipCounts, NewOnJoining

(* exit_dao takes one off the active members only.                           *)
LEMMA ExitDaoCounted ==
    ASSUME CountsInv, NEW m \in Accounts, ExitDao(m)
    PROVE  MembershipCounts'
<1>. DEFINE r == [members[m] EXCEPT !.status = "Inactive"]
<1>1. r.status = "Inactive"
  BY DEF CountsInv, TypeOK, MemberTypes, MemberRecords
<1>2. members' = [members EXCEPT ![m] = r] /\ IsActiveMember(m) /\ IsMember(m)
      /\ totalMembers' = totalMembers /\ activeMembers' = activeMembers - 1
  BY DEF ExitDao, MemberCall, IsActiveMember, IsMember
<1>3. TypeOK /\ MembershipCounts
  BY DEF CountsInv
<1>. HIDE DEF r
<1>4. /\ totalMembers \in Nat /\ activeMembers \in Nat
      /\ IsMember(m) => totalMembers >= 1
      /\ IsActiveMember(m) => activeMembers >= 1
      /\ Cardinality(Registered') =
           totalMembers - (IF IsMember(m) THEN 1 ELSE 0) + 1
      /\ Cardinality(ActiveMembers') =
           activeMembers - (IF IsActiveMember(m) THEN 1 ELSE 0)
                         + 0
  BY <1>1, <1>2, <1>3, OneMemberCounted
<1>. QED  BY <1>2, <1>4 DEF MembershipCounts

(* seed_members undoes what the record it replaces counted for.              *)
LEMMA SeedMemberCounted ==
    ASSUME TypeOK, MembershipCounts, NEW caller, NEW a \in Accounts,
           NEW r \in MemberRecords, r.status # "NotMember", SeedMember(caller, a, r)
    PROVE  MembershipCounts'
<1>1. members' = [members EXCEPT ![a] = r]
      /\ totalMembers' =
           (IF IsMember(a) THEN SaturatingSub(totalMembers, 1) ELSE totalMembers) + 1
      /\ activeMembers' = SaturatingSub(activeMembers, UndoneActive(a))
                            + (IF r.status = "ActiveMember" THEN 1 ELSE 0)
  BY DEF SeedMember
<1>2. /\ totalMembers \in Nat /\ activeMembers \in Nat
      /\ IsMember(a) => totalMembers >= 1
      /\ IsActiveMember(a) => activeMembers >= 1
      /\ Cardinality(Registered') =
           totalMembers - (IF IsMember(a) THEN 1 ELSE 0) + 1
      /\ Cardinality(ActiveMembers') =
           activeMembers - (IF IsActiveMember(a) THEN 1 ELSE 0)
                         + (IF r.status = "ActiveMember" THEN 1 ELSE 0)
  BY <1>1, OneMemberCounted
<1>. QED  BY <1>1, <1>2 DEF MembershipCounts, SaturatingSub, UndoneActive

(* A payment changes nobody's status.                                        *)
LEMMA RepayAmountCounted ==
    ASSUME CountsInv, NEW m \in Accounts, NEW id \in LoanIds, NEW amount,
           RepayAmount(m, id, amount)
    PROVE  MembershipCounts' /\ StatusesKept
<1>1. RecordAfterRepayment(m).status = members[m].status
  BY DEF CountsInv, TypeOK, MemberTypes, MemberRecords, RecordAfterRepayment
<1>2. members' = members
      \/ members' = [members EXCEPT ![m] = RecordAfterRepayment(m)]
  BY DEF RepayAmount
<1>3. StatusesKept
  BY <1>1, <1>2 DEF StatusesKept, CountsInv, TypeOK, MemberTypes
<1>. QED  BY <1>3, SameStatusesCounted DEF CountsInv, RepayAmount

(* A default changes nobody's status.                                        *)
LEMMA MarkLoanDefaultedCounted ==
    ASSUME CountsInv, NEW id \in LoanIds, MarkLoanDefaulted(id)
    PROVE  MembershipCounts' /\ StatusesKept
<1>. DEFINE m == loans[id].borrower
<1>1. m \in Accounts
  BY DEF CountsInv, LoansAttributed, MarkLoanDefaulted
<1>2. RecordAfterDefault(m).status = members[m].status
  BY <1>1 DEF CountsInv, TypeOK, MemberTypes, MemberRecords, RecordAfterDefault
<1>3. members' = members \/ members' = [members EXCEPT ![m] = RecordAfterDefault(m)]
  BY DEF MarkLoanDefaulted
<1>4. StatusesKept
  BY <1>2, <1>3 DEF StatusesKept, CountsInv, TypeOK, MemberTypes
<1>. QED  BY <1>4, SameStatusesCounted DEF CountsInv, MarkLoanDefaulted

-----------------------------------------------------------------------------
(* The loan calls, through the book they change.                             *)
BookAttributed(b) ==
    \A id \in LoanIds :
        /\ b.proposals[id].status # "None" => b.proposals[id].borrower \in Accounts
        /\ b.loans[id].status # "None" => b.loans[id].borrower \in Accounts

(* A book that leaves every account's status alone.                          *)
StatusesOf(b) == \A a \in Accounts : b.members[a].status = members[a].status

(* A book a ballot may turn this state's into: typed, attributed, and of     *)
(* the same members.                                                         *)
SoundBook(b) == b \in Books /\ BookAttributed(b) /\ StatusesOf(b)

(* The store is a sound book while the invariant holds.                      *)
LEMMA BookIsSound == CountsInv => SoundBook(Book)
  BY BookTyped DEF CountsInv, SoundBook, BookAttributed, StatusesOf, Book,
                   LoansAttributed

(* approve_and_disburse keeps a book sound.                                  *)
LEMMA DisbursedIsSound ==
    ASSUME CountsInv, NEW b, SoundBook(b), NEW id \in LoanIds,
           b.proposals[id].status # "None"
    PROVE  SoundBook(Disbursed(b, id))
<1>. DEFINE p == b.proposals[id]
            d == Disbursed(b, id)
<1>1. d \in Books
  BY DisbursedTyped DEF CountsInv, SoundBook
<1>2. p.borrower \in Accounts
  BY DEF SoundBook, BookAttributed
<1>3. BookAttributed(d)
  <2>1. \A i \in LoanIds : d.proposals[i].borrower = b.proposals[i].borrower
    BY DEF Disbursed, SoundBook, Books, LoanProposalRecords
  <2>2. \A i \in LoanIds : i # id => d.proposals[i].status = b.proposals[i].status
    BY DEF Disbursed, SoundBook, Books
  <2>3. \A i \in LoanIds : d.loans[i] = IF i = id THEN NewLoan(b, p) ELSE b.loans[i]
    BY DEF Disbursed, SoundBook, Books
  <2>4. NewLoan(b, p).borrower = p.borrower
    BY DEF NewLoan
  <2>. QED  BY <1>2, <2>1, <2>2, <2>3, <2>4 DEF SoundBook, BookAttributed
<1>4. StatusesOf(d)
  <2>1. \A r \in MemberRecords : RecordAfterLoan(r).status = r.status
    BY DEF RecordAfterLoan, MemberRecords
  <2>2. d.members = [b.members EXCEPT ![p.borrower] = RecordAfterLoan(@)]
    BY DEF Disbursed
  <2>. QED  BY <2>1, <2>2 DEF SoundBook, StatusesOf, Books
<1>. QED  BY <1>1, <1>3, <1>4 DEF SoundBook

(* A ballot changes one proposal, and not whose it is.                       *)
LEMMA BallotBookProposals ==
    ASSUME TypeOK, NEW b \in Books, NEW voter \in Accounts, NEW id \in LoanIds,
           NEW support \in BOOLEAN, NEW i \in LoanIds
    PROVE  LET after == BallotBook(b, voter, id, support).proposals[i]
           IN  /\ after.borrower = b.proposals[i].borrower
               /\ i # id => after = b.proposals[i]
<1>. DEFINE p == CountedLoanVote(b.proposals[id], voter, support)
            decided == IF p.status = "Pending" THEN LoanOutcome(p) ELSE p
<1>1. BallotBook(b, voter, id, support).proposals = [b.proposals EXCEPT ![id] = decided]
  BY DEF BallotBook
<1>2. b.proposals \in [LoanIds -> LoanProposalRecords]
  BY DEF Books
<1>3. decided.borrower = b.proposals[id].borrower
  <2>1. Refreshed(b.proposals[id]).borrower = b.proposals[id].borrower
    BY <1>2 DEF Refreshed, InVoting, LoanProposalRecords
  <2>2. p.borrower = Refreshed(b.proposals[id]).borrower
    BY <1>2, CountedLoanVoteTyped
  <2>3. LoanOutcome(p).borrower = p.borrower
    BY DEF LoanOutcome
  <2>. QED  BY <2>1, <2>2, <2>3
<1>. QED  BY <1>1, <1>2, <1>3

(* Counting and deciding keep a book sound.                                  *)
LEMMA BallotBookIsSound ==
    ASSUME CountsInv, NEW b, SoundBook(b), NEW voter \in Accounts, NEW id \in LoanIds,
           NEW support \in BOOLEAN, MayVoteOnLoan(b, voter, id)
    PROVE  SoundBook(BallotBook(b, voter, id, support))
<1>. DEFINE after == BallotBook(b, voter, id, support)
<1>1. after \in Books
  BY BallotBookTyped DEF CountsInv, SoundBook
<1>2. b.proposals[id].borrower \in Accounts
  BY DEF MayVoteOnLoan, SoundBook, BookAttributed
<1>3. \A i \in LoanIds : /\ after.proposals[i].borrower = b.proposals[i].borrower
                         /\ i # id => after.proposals[i] = b.proposals[i]
  BY BallotBookProposals DEF CountsInv, SoundBook
<1>4. after.loans = b.loans /\ after.members = b.members
  BY DEF BallotBook
<1>. HIDE DEF after
<1>5. SoundBook(after)
  BY <1>1, <1>2, <1>3, <1>4 DEF SoundBook, BookAttributed, StatusesOf
<1>. QED  BY <1>5 DEF after

(* A whole loan ballot keeps a book sound.                                   *)
LEMMA LoanVoteCastIsSound ==
    ASSUME CountsInv, NEW b, SoundBook(b), NEW voter \in Accounts, NEW id \in LoanIds,
           NEW support \in BOOLEAN, MayVoteOnLoan(b, voter, id)
    PROVE  SoundBook(LoanVoteCast(b, voter, id, support))
<1>. DEFINE after == BallotBook(b, voter, id, support)
<1>1. SoundBook(after)
  BY BallotBookIsSound
<1>2. after.proposals[id].status = "ApprovedPendingDisbursement"
        => SoundBook(Disbursed(after, id))
  BY <1>1, DisbursedIsSound
<1>. QED  BY <1>1, <1>2 DEF LoanVoteCast

(* A sound book, once it is the store, keeps the counts and attributions.    *)
LEMMA SoundBookCounted ==
    ASSUME CountsInv, NEW b, SoundBook(b), BecomesBook(b),
           UNCHANGED <<totalMembers, activeMembers>>
    PROVE  MembershipCounts' /\ LoansAttributed' /\ StatusesKept
<1>1. StatusesKept
  BY DEF SoundBook, StatusesOf, BecomesBook, StatusesKept
<1>2. MembershipCounts'
  BY <1>1, SameStatusesCounted DEF CountsInv
<1>3. LoansAttributed'
  BY DEF SoundBook, BookAttributed, BecomesBook, LoansAttributed
<1>. QED  BY <1>1, <1>2, <1>3

(* Loan ballots, single or batched, change nobody's status.                  *)
LEMMA LoanBallotsCounted ==
    ASSUME CountsInv, NEW m \in Accounts,
           \/ \E id \in LoanIds, support \in BOOLEAN : VoteOnLoanProposal(m, id, support)
           \/ \E id1, id2 \in LoanIds, s1, s2 \in BOOLEAN : VoteBatch(m, id1, s1, id2, s2)
    PROVE  MembershipCounts' /\ LoansAttributed' /\ StatusesKept
<1>1. SoundBook(Book)
  BY BookIsSound
<1>2. CASE \E id \in LoanIds, support \in BOOLEAN : VoteOnLoanProposal(m, id, support)
  <2>1. PICK id \in LoanIds, support \in BOOLEAN : VoteOnLoanProposal(m, id, support)
    BY <1>2
  <2>2. SoundBook(LoanVoteCast(Book, m, id, support))
    BY <1>1, <2>1, LoanVoteCastIsSound DEF VoteOnLoanProposal
  <2>. QED  BY <2>1, <2>2, SoundBookCounted DEF VoteOnLoanProposal
<1>3. CASE \E id1, id2 \in LoanIds, s1, s2 \in BOOLEAN : VoteBatch(m, id1, s1, id2, s2)
  <2>1. PICK id1 \in LoanIds, id2 \in LoanIds, s1 \in BOOLEAN, s2 \in BOOLEAN :
           VoteBatch(m, id1, s1, id2, s2)
    BY <1>3
  <2>. DEFINE after1 == LoanVoteCast(Book, m, id1, s1)
  <2>2. SoundBook(after1)
    BY <1>1, <2>1, LoanVoteCastIsSound DEF VoteBatch
  <2>3. SoundBook(LoanVoteCast(after1, m, id2, s2))
    BY <2>1, <2>2, LoanVoteCastIsSound DEF VoteBatch
  <2>. QED  BY <2>1, <2>3, SoundBookCounted DEF VoteBatch
<1>. QED  BY <1>2, <1>3

(* Nor does a payment to the borrower after a wait.                          *)
LEMMA DisburseApprovedLoanCounted ==
    ASSUME CountsInv, NEW id \in LoanIds, DisburseApprovedLoan(id)
    PROVE  MembershipCounts' /\ LoansAttributed' /\ StatusesKept
<1>1. SoundBook(Book) /\ Book.proposals[id].status # "None"
  BY BookIsSound DEF DisburseApprovedLoan, Book
<1>2. SoundBook(Disbursed(Book, id))
  BY <1>1, DisbursedIsSound
<1>. QED  BY <1>2, SoundBookCounted DEF DisburseApprovedLoan

-----------------------------------------------------------------------------
(* The other calls on loans and proposals keep them attributed.              *)
LEMMA ProposalCallsAttributed ==
    ASSUME CountsInv, NEW m \in Accounts,
           \/ \E amount \in LoanAmounts, asset \in Assets :
                 RequestLoanInAsset(m, amount, asset)
           \/ \E id \in LoanIds, amount \in LoanAmounts : EditLoanProposal(m, id, amount)
           \/ \E id \in LoanIds : CancelLoanProposal(m, id)
    PROVE  LoansAttributed'
<1>. USE DEF CountsInv, TypeOK, LoanTypes, LoansAttributed
<1>1. CASE \E amount \in LoanAmounts, asset \in Assets :
              RequestLoanInAsset(m, amount, asset)
  BY <1>1 DEF RequestLoanInAsset
<1>2. CASE \E id \in LoanIds, amount \in LoanAmounts : EditLoanProposal(m, id, amount)
  BY <1>2 DEF EditLoanProposal, MayEdit, LoanProposalRecords
<1>3. CASE \E id \in LoanIds : CancelLoanProposal(m, id)
  <2>1. PICK id \in LoanIds : CancelLoanProposal(m, id)
    BY <1>3
  <2>2. [loanProposals[id] EXCEPT !.status = "Cancelled", !.phase = "Expired"].borrower
          = loanProposals[id].borrower
    BY DEF LoanProposalRecords
  <2>. QED  BY <2>1, <2>2 DEF CancelLoanProposal, MayEdit
<1>. QED  BY <1>1, <1>2, <1>3

(* Expiring a proposal keeps loans attributed.                               *)
LEMMA ExpiryAttributed ==
    ASSUME CountsInv, NEW id \in LoanIds, ExpireLoanProposal(id)
    PROVE  LoansAttributed'
<1>1. Refreshed(loanProposals[id]).borrower = loanProposals[id].borrower
  BY DEF CountsInv, TypeOK, LoanTypes, Refreshed, InVoting, LoanProposalRecords
<1>. QED  BY <1>1 DEF CountsInv, TypeOK, LoanTypes, LoansAttributed, ExpireLoanProposal

(* Repayment and default keep loans attributed.                              *)
LEMMA LoanCallsAttributed ==
    ASSUME CountsInv,
           \/ \E m \in Accounts, id \in LoanIds, amount \in Int : RepayAmount(m, id, amount)
           \/ \E id \in LoanIds : MarkLoanDefaulted(id)
           \/ \E caller \in Migrators, id \in LoanIds, l \in LegacyLoans :
                 SeedLoan(caller, id, l)
    PROVE  LoansAttributed'
<1>. USE DEF CountsInv, TypeOK, LoanTypes, LoansAttributed
<1>1. CASE \E m \in Accounts, id \in LoanIds, amount \in Int : RepayAmount(m, id, amount)
  <2>1. PICK m \in Accounts, id \in LoanIds, amount \in Int : RepayAmount(m, id, amount)
    BY <1>1
  <2>2. \A i \in LoanIds : loans'[i].borrower = loans[i].borrower
    BY <2>1 DEF RepayAmount, Surcharged, LoanRecords
  <2>. QED  BY <2>1, <2>2 DEF RepayAmount
<1>2. CASE \E id \in LoanIds : MarkLoanDefaulted(id)
  BY <1>2 DEF MarkLoanDefaulted, LoanRecords
<1>3. CASE \E caller \in Migrators, id \in LoanIds, l \in LegacyLoans :
              SeedLoan(caller, id, l)
  BY <1>3, LegacyAssumption DEF SeedLoan, LoanRecords
<1>. QED  BY <1>1, <1>2, <1>3

-----------------------------------------------------------------------------
(* Every call keeps the invariant, a group of calls at a time. Most touch    *)
(* neither the members nor the loans, and need only keep their types.        *)
LEMMA UntouchedKept ==
    CountsInv /\ TypeOK' /\ UNCHANGED memberVars /\ UNCHANGED loanVars => CountsInv'
  BY CountsFrame, AttributionFrame DEF CountsInv

(* membership.rs and staking.rs keep the invariant.                          *)
LEMMA MembershipCallKept ==
    ASSUME CountsInv, NEW m \in Accounts, MembershipCall(m)
    PROVE  CountsInv'
<1>. USE DEF CountsInv
<1>1. CASE RegisterMember(m)
  <2>1. TypeOK' /\ MembershipCounts'
    BY <1>1, RegisterMemberTyped, RegisterMemberCounted
  <2>. QED  BY <1>1, <2>1, AttributionFrame DEF RegisterMember
<1>2. CASE ExitDao(m)
  <2>1. TypeOK' /\ MembershipCounts'
    BY <1>2, ExitDaoTyped, ExitDaoCounted
  <2>. QED  BY <1>2, <2>1, AttributionFrame DEF ExitDao
<1>3. CASE ClaimRewards(m)
  BY <1>3, ClaimRewardsTyped, UntouchedKept DEF ClaimRewards
<1>4. CASE \E d \in Accounts : DelegateVote(m, d)
  BY <1>4, DelegateVoteTyped, UntouchedKept DEF DelegateVote
<1>5. CASE \E amount \in StakeAmounts : Stake(m, amount)
  BY <1>5, InputsAssumption, StakeTyped, UntouchedKept DEF Stake
<1>6. CASE \E amount \in StakeAmounts : Unstake(m, amount)
  BY <1>6, InputsAssumption, UnstakeTyped, UntouchedKept DEF Unstake
<1>. QED  BY <1>1, <1>2, <1>3, <1>4, <1>5, <1>6 DEF MembershipCall

(* The calls on a loan proposal keep it.                                     *)
LEMMA LoanRequestsKept ==
    ASSUME CountsInv, NEW m \in Accounts,
           \/ \E amount \in LoanAmounts, asset \in Assets :
                 RequestLoanInAsset(m, amount, asset)
           \/ \E id \in LoanIds, amount \in LoanAmounts : EditLoanProposal(m, id, amount)
           \/ \E id \in LoanIds : CancelLoanProposal(m, id)
    PROVE  CountsInv'
<1>1. LoanAmounts \subseteq Nat
  BY InputsAssumption
<1>2. TypeOK'
  BY <1>1, RequestLoanTyped, EditLoanProposalTyped, CancelLoanProposalTyped
     DEF CountsInv
<1>3. UNCHANGED memberVars
  BY DEF RequestLoanInAsset, EditLoanProposal, CancelLoanProposal
<1>4. LoansAttributed'
  BY ProposalCallsAttributed
<1>. QED  BY <1>2, <1>3, <1>4, CountsFrame DEF CountsInv

(* Loan ballots keep it.                                                     *)
LEMMA LoanBallotsKept ==
    ASSUME CountsInv, NEW m \in Accounts,
           \/ \E id \in LoanIds, support \in BOOLEAN : VoteOnLoanProposal(m, id, support)
           \/ \E id1, id2 \in LoanIds, s1, s2 \in BOOLEAN : VoteBatch(m, id1, s1, id2, s2)
    PROVE  CountsInv'
<1>1. TypeOK'
  BY VoteOnLoanProposalTyped, VoteBatchTyped DEF CountsInv
<1>. QED  BY <1>1, LoanBallotsCounted DEF CountsInv

(* Payments keep it.                                                         *)
LEMMA RepayAmountKept ==
    ASSUME CountsInv, NEW m \in Accounts, NEW id \in LoanIds, NEW amount,
           RepayAmount(m, id, amount)
    PROVE  CountsInv'
<1>1. TypeOK'
  BY ActiveMembersIsNat, RepayAmountTyped DEF CountsInv
<1>2. amount \in Int
  BY DEF RepayAmount
<1>3. MembershipCounts' /\ LoansAttributed'
  BY <1>2, RepayAmountCounted, LoanCallsAttributed
<1>. QED  BY <1>1, <1>3 DEF CountsInv

(* So every loan call of a member keeps it.                                  *)
LEMMA LoanCallKept ==
    ASSUME CountsInv, NEW m \in Accounts, LoanCall(m)
    PROVE  CountsInv'
<1>1. CASE \/ \E amount \in LoanAmounts, asset \in Assets :
                 RequestLoanInAsset(m, amount, asset)
           \/ \E id \in LoanIds, amount \in LoanAmounts : EditLoanProposal(m, id, amount)
           \/ \E id \in LoanIds : CancelLoanProposal(m, id)
  BY <1>1, LoanRequestsKept
<1>2. CASE \/ \E id \in LoanIds, support \in BOOLEAN : VoteOnLoanProposal(m, id, support)
           \/ \E id1, id2 \in LoanIds, s1, s2 \in BOOLEAN : VoteBatch(m, id1, s1, id2, s2)
  BY <1>2, LoanBallotsKept
<1>3. CASE \E id \in LoanIds :
              \/ \E amount \in RepaymentAmounts : RepayLoanPartial(m, id, amount)
              \/ RepayLoan(m, id)
              \/ \E asset \in Assets : RepayLoanInAsset(m, id, asset)
  BY <1>3, RepayAmountKept DEF RepayLoanPartial, RepayLoan, RepayLoanInAsset
<1>. QED  BY <1>1, <1>2, <1>3 DEF LoanCall

(* treasury.rs and privacy.rs keep it.                                       *)
LEMMA TreasuryCallKept ==
    ASSUME CountsInv, NEW m \in Accounts, TreasuryCall(m)
    PROVE  CountsInv'
<1>1. CASE \E amount \in WithdrawalAmounts, asset \in Assets, private \in Privacies :
              ProposeWithdrawalInAsset(m, amount, asset, private)
  <2>1. WithdrawalAmounts \subseteq Nat /\ Privacies \subseteq BOOLEAN
    BY InputsAssumption
  <2>2. TypeOK'
    BY <1>1, <2>1, ProposeWithdrawalTyped DEF CountsInv
  <2>. QED  BY <1>1, <2>2, UntouchedKept DEF ProposeWithdrawalInAsset
<1>2. CASE \E id \in TreasuryIds, support \in BOOLEAN : VoteOnTreasuryProposal(m, id, support)
  <2>1. TypeOK'
    BY <1>2, VoteOnTreasuryProposalTyped DEF CountsInv
  <2>. QED  BY <1>2, <2>1, UntouchedKept DEF VoteOnTreasuryProposal
<1>3. CASE \E id \in TreasuryIds, author \in Accounts, support \in BOOLEAN :
              CommitVote(m, id, Commitment(author, id, support))
  <2>1. TypeOK'
    BY <1>3, CommitmentsAreTyped, CommitVoteTyped DEF CountsInv
  <2>. QED  BY <1>3, <2>1, UntouchedKept DEF CommitVote
<1>4. CASE \E id \in TreasuryIds, support \in BOOLEAN : RevealVote(m, id, support)
  <2>1. TypeOK'
    BY <1>4, RevealVoteTyped DEF CountsInv
  <2>. QED  BY <1>4, <2>1, UntouchedKept DEF RevealVote
<1>5. CASE \E id \in TreasuryIds : CancelTreasuryProposal(m, id)
  <2>1. TypeOK'
    BY <1>5, CloseTreasuryProposalTyped DEF CountsInv
  <2>. QED  BY <1>5, <2>1, UntouchedKept DEF CancelTreasuryProposal
<1>. QED  BY <1>1, <1>2, <1>3, <1>4, <1>5 DEF TreasuryCall

(* registry.rs and docs.rs keep it.                                          *)
LEMMA RegistryCallKept ==
    ASSUME CountsInv, NEW m \in Accounts, RegistryCall(m)
    PROVE  CountsInv'
<1>1. TypeOK'
  BY RegisterNameTyped, AttachDocumentTyped DEF CountsInv, RegistryCall
<1>. QED  BY <1>1, UntouchedKept DEF RegistryCall, RegisterName, AttachDocument

(* The calls open to anyone keep it.                                         *)
LEMMA PublicCallKept ==
    ASSUME CountsInv, PublicCall
    PROVE  CountsInv'
<1>1. CASE \E id \in LoanIds : DisburseApprovedLoan(id)
  <2>1. TypeOK'
    BY <1>1, DisburseApprovedLoanTyped DEF CountsInv
  <2>. QED  BY <1>1, <2>1, DisburseApprovedLoanCounted DEF CountsInv
<1>2. CASE \E id \in LoanIds : ExpireLoanProposal(id)
  <2>1. TypeOK'
    BY <1>2, ExpireLoanProposalTyped DEF CountsInv
  <2>2. LoansAttributed'
    BY <1>2, ExpiryAttributed
  <2>. QED  BY <1>2, <2>1, <2>2, CountsFrame DEF CountsInv, ExpireLoanProposal
<1>3. CASE \E id \in LoanIds : MarkLoanDefaulted(id)
  <2>1. PICK id \in LoanIds : MarkLoanDefaulted(id)
    BY <1>3
  <2>2. loans[id].borrower \in Accounts
    BY <2>1 DEF CountsInv, LoansAttributed, MarkLoanDefaulted
  <2>3. TypeOK'
    BY <2>1, <2>2, MarkLoanDefaultedTyped DEF CountsInv
  <2>. QED  BY <2>1, <2>3, MarkLoanDefaultedCounted, LoanCallsAttributed DEF CountsInv
<1>4. CASE \E id \in TreasuryIds : ExecuteTreasuryProposal(id)
  <2>1. TypeOK'
    BY <1>4, ExecuteTreasuryProposalTyped DEF CountsInv
  <2>. QED  BY <1>4, <2>1, UntouchedKept DEF ExecuteTreasuryProposal
<1>5. CASE \E id \in TreasuryIds : ExpireTreasuryProposal(id)
  <2>1. TypeOK'
    BY <1>5, CloseTreasuryProposalTyped DEF CountsInv
  <2>. QED  BY <1>5, <2>1, UntouchedKept DEF ExpireTreasuryProposal
<1>. QED  BY <1>1, <1>2, <1>3, <1>4, <1>5 DEF PublicCall

(* admin.rs keeps it.                                                        *)
LEMMA AdminCallKept ==
    ASSUME CountsInv, NEW caller \in Governors, AdminCall(caller)
    PROVE  CountsInv'
<1>1. AdminFrame
  BY DEF AdminCall, AddAdmin, RemoveAdmin, SetPauser, RevokePauser,
         SetConsensusThreshold, Pause, Unpause, ProposePolicyUpdate,
         ExecutePolicyUpdate, CancelPolicyUpdate, ProposeTokenAddition,
         ExecuteTokenAddition, RemoveToken
<1>2. TypeOK'
  BY AdminEntriesTyped, RemoveAdminTyped, ProposePolicyUpdateTyped,
     ExecutePolicyUpdateTyped, WhitelistCallsTyped DEF CountsInv, AdminCall
<1>. QED  BY <1>1, <1>2, UntouchedKept DEF AdminFrame

(* migration.rs keeps it, because it trusts only well-formed records.        *)
LEMMA MigrationCallKept ==
    ASSUME CountsInv, NEW caller \in Migrators, MigrationCall(caller)
    PROVE  CountsInv'
<1>1. CASE \E a \in Accounts, r \in LegacyMembers : SeedMember(caller, a, r)
  <2>1. TypeOK' /\ MembershipCounts'
    BY <1>1, SeedMemberTyped, SeedMemberCounted, LegacyAssumption DEF CountsInv
  <2>. QED  BY <1>1, <2>1, AttributionFrame DEF CountsInv, SeedMember
<1>2. CASE \E a \in Accounts, amount \in LegacyStakes : SeedStake(caller, a, amount)
  <2>1. TypeOK'
    BY <1>2, SeedStakeTyped, InputsAssumption DEF CountsInv
  <2>. QED  BY <1>2, <2>1, UntouchedKept DEF SeedStake
<1>3. CASE \E a \in Accounts, amount \in LegacyYields : SeedPendingYield(caller, a, amount)
  <2>1. TypeOK'
    BY <1>3, SeedPendingYieldTyped, InputsAssumption DEF CountsInv
  <2>. QED  BY <1>3, <2>1, UntouchedKept DEF SeedPendingYield
<1>4. CASE \E a \in Accounts, name \in Names : SeedName(caller, a, name)
  <2>1. TypeOK'
    BY <1>4, SeedNameTyped DEF CountsInv
  <2>. QED  BY <1>4, <2>1, UntouchedKept DEF SeedName
<1>5. CASE \E id \in LoanIds, l \in LegacyLoans : SeedLoan(caller, id, l)
  <2>1. TypeOK'
    BY <1>5, SeedLoanTyped, LegacyAssumption DEF CountsInv
  <2>2. LoansAttributed'
    BY <1>5, LoanCallsAttributed
  <2>. QED  BY <1>5, <2>1, <2>2, CountsFrame DEF CountsInv, SeedLoan
<1>6. CASE \E key \in DocumentKeys, hash \in Hashes : SeedDocument(caller, key, hash)
  <2>1. TypeOK'
    BY <1>6, SeedDocumentTyped DEF CountsInv
  <2>2. LoansAttributed'
    BY <1>6 DEF CountsInv, LoansAttributed, SeedDocument
  <2>. QED  BY <1>6, <2>1, <2>2, CountsFrame DEF CountsInv, SeedDocument
<1>7. CASE LockSeeding(caller)
  <2>1. TypeOK'
    BY <1>7, LockSeedingTyped DEF CountsInv
  <2>. QED  BY <1>7, <2>1, UntouchedKept DEF LockSeeding
<1>. QED  BY <1>1, <1>2, <1>3, <1>4, <1>5, <1>6, <1>7 DEF MigrationCall

(* So every step keeps the invariant.                                        *)
LEMMA CountsStep == CountsInv /\ [Next]_vars => CountsInv'
<1>. SUFFICES ASSUME CountsInv, [Next]_vars PROVE CountsInv'
  OBVIOUS
<1>1. CASE Tick \/ \E asset \in Assets, amount \in DonationAmounts : Donate(asset, amount)
  <2>1. TypeOK'
    BY <1>1, TickTyped, DonateTyped DEF CountsInv
  <2>. QED  BY <1>1, <2>1, UntouchedKept DEF Tick, Donate
<1>2. CASE \E m \in Accounts :
              MembershipCall(m) \/ LoanCall(m) \/ TreasuryCall(m) \/ RegistryCall(m)
  BY <1>2, MembershipCallKept, LoanCallKept, TreasuryCallKept, RegistryCallKept
<1>3. CASE PublicCall
  BY <1>3, PublicCallKept
<1>4. CASE \E caller \in Governors : AdminCall(caller)
  BY <1>4, AdminCallKept
<1>5. CASE \E caller \in Migrators : MigrationCall(caller)
  BY <1>5, MigrationCallKept
<1>6. CASE UNCHANGED vars
  <2>1. TypeOK'
    BY <1>6, Frame DEF CountsInv, TypeOK, vars
  <2>. QED  BY <1>6, <2>1, UntouchedKept DEF vars
<1>. QED  BY <1>1, <1>2, <1>3, <1>4, <1>5, <1>6 DEF Next, Operate, Migrate

-----------------------------------------------------------------------------
(* A contract just initialized: no member, no loan, nothing stored but the   *)
(* configuration.                                                            *)
FreshDeployment ==
    /\ now \in Nat /\ balance = [a \in Assets |-> 0] /\ AdminTypes
    /\ whitelisted = {} /\ pendingToken = [a \in ExtraAssets |-> {}]
    /\ members = [a \in Accounts |-> NoMember]
    /\ totalMembers = 0 /\ activeMembers = 0 /\ activeContributions = 0
    /\ delegation = [a \in Accounts |-> NoAccount]
    /\ yieldAccumulator = 0 /\ yieldRemainder = 0
    /\ yieldSnapshot = [a \in Accounts |-> 0]
    /\ stakes = [a \in Accounts |-> 0] /\ stakeTime = [a \in Accounts |-> 0]
    /\ totalStaked = 0
    /\ loanProposals = [id \in LoanIds |-> NoLoanProposal] /\ nextProposalId = 0
    /\ loanVoted = [id \in LoanIds |-> {}] /\ loans = [id \in LoanIds |-> NoLoan]
    /\ treasuryProposals = [id \in TreasuryIds |-> NoTreasuryProposal]
    /\ nextTreasuryId = 0 /\ treasuryVoted = [id \in TreasuryIds |-> {}]
    /\ commits = [id \in TreasuryIds |-> [a \in Accounts |-> NoCommit]]
    /\ nameOwner = [n \in Names |-> NoAccount] /\ nameOf = [a \in Accounts |-> NoName]
    /\ documents = [key \in DocumentKeys |-> NoHash]
    /\ seedingLocked = FALSE

(* Such a contract is in order.                                              *)
LEMMA FreshIsCounted == FreshDeployment => CountsInv
<1>. SUFFICES ASSUME FreshDeployment PROVE CountsInv
  OBVIOUS
<1>1. NoMember \in MemberRecords /\ NoMember.status = "NotMember"
  BY DEF NoMember, MemberRecords, MemberStatuses
<1>2. NoLoanProposal \in LoanProposalRecords /\ NoLoanProposal.status = "None"
  BY BaseTokenIsAsset
     DEF NoLoanProposal, LoanProposalRecords, ProposalPhases, ProposalStatuses
<1>3. NoLoan \in LoanRecords /\ NoLoan.status = "None"
  BY DEF NoLoan, LoanRecords, LoanStatuses
<1>4. NoTreasuryProposal \in TreasuryProposalRecords
  BY BaseTokenIsAsset
     DEF NoTreasuryProposal, TreasuryProposalRecords, ProposalStatuses
<1>5. TypeOK
  <2>1. WorldTypes /\ AdminTypes /\ TokenTypes
    BY DEF FreshDeployment, WorldTypes, TokenTypes
  <2>2. MemberTypes /\ DelegationTypes /\ YieldTypes /\ StakeTypes
    BY <1>1 DEF FreshDeployment, MemberTypes, DelegationTypes, YieldTypes, StakeTypes
  <2>3. LoanTypes
    BY <1>2, <1>3 DEF FreshDeployment, LoanTypes
  <2>4. TreasuryTypes
    BY <1>4, CommitmentsAreTyped DEF FreshDeployment, TreasuryTypes
  <2>5. RegistryTypes /\ DocumentTypes
    BY DEF FreshDeployment, RegistryTypes, DocumentTypes
  <2>. QED  BY <2>1, <2>2, <2>3, <2>4, <2>5 DEF TypeOK
<1>6. MembershipCounts
  <2>1. Registered = {} /\ ActiveMembers = {}
    BY <1>1 DEF FreshDeployment, Registered, ActiveMembers, IsMember, IsActiveMember
  <2>. QED  BY <2>1, FS_EmptySet DEF FreshDeployment, MembershipCounts
<1>7. LoansAttributed
  BY <1>2, <1>3 DEF FreshDeployment, LoansAttributed
<1>. QED  BY <1>5, <1>6, <1>7 DEF CountsInv

(* `initialize` leaves one.                                                  *)
LEMMA InitIsFresh == Init => FreshDeployment
<1>. SUFFICES ASSUME Init PROVE FreshDeployment
  OBVIOUS
<1>1. admins \in Seq(AdminAccounts) /\ policy \in PolicyRecords
  <2>1. admins \in AdminLists /\ policy \in InitialPolicies
    BY DEF Init
  <2>. QED  BY <2>1, AdminAssumption, PolicyAssumption
<1>2. threshold \in Nat
  BY ThresholdAssumption DEF Init, BASIS_POINTS
<1>3. AdminTypes
  BY <1>1, <1>2 DEF Init, AdminTypes
<1>. QED  BY <1>3 DEF Init, FreshDeployment

(* So the invariant holds from the start.                                    *)
LEMMA CountsInit == Init => CountsInv
  BY InitIsFresh, FreshIsCounted

(* In every deployment, seeded or not, entries keep their types, the member  *)
(* counters agree with the records, and a loan has a borrower.               *)
THEOREM CountsInvariant == Spec => []CountsInv
<1>. QED  BY CountsInit, CountsStep, PTL DEF Spec

(* The ledger entries keep their types in every deployment, seeded or not:   *)
(* each entrypoint stores what storage.rs declares for its key.              *)
THEOREM TypeCorrect == Spec => []TypeOK
<1>1. CountsInv => TypeOK
  BY DEF CountsInv
<1>. QED  BY <1>1, CountsInvariant, PTL

(* The two member counters agree with the member records in every            *)
(* deployment: through registration, exit, return, default and any order of  *)
(* re-seeding, total_members and active_members, of which every quorum is    *)
(* taken, are the number of registered and of active members.                *)
THEOREM MembershipCounted == Spec => []MembershipCounts
<1>1. CountsInv => MembershipCounts
  BY DEF CountsInv
<1>. QED  BY <1>1, CountsInvariant, PTL
=============================================================================
