----------------------------- MODULE CallProofs -----------------------------
(***************************************************************************)
(* What one call may do to the ballots, the open proposals and the stakes of *)
(* others: what a loan ballot is about stays what it is, private choices     *)
(* stay private until the reveals, commitments bind, nobody has more open    *)
(* proposals than the quota, and the recorded total of stakes is what        *)
(* members have staked. A step does something to loan proposals, or to       *)
(* withdrawals, or neither. The last part is a small theory of sums over a   *)
(* finite set.                                                               *)
(***************************************************************************)
EXTENDS RequestProofs, WellFoundedInduction

-----------------------------------------------------------------------------
(* The three kinds of step.                                                  *)

(* Nothing happens to a proposal or a ballot, but perhaps time passes.       *)
Aside ==
    /\ now' \in Nat /\ now' >= now
    /\ UNCHANGED <<loanProposals, loanVoted, treasuryProposals, treasuryVoted, commits>>

(* A call on a loan proposal.                                                *)
LoanBallotCall ==
    \/ \E m \in Accounts :
          \/ \E amount \in LoanAmounts, asset \in Assets :
                RequestLoanInAsset(m, amount, asset)
          \/ \E id \in LoanIds, amount \in LoanAmounts : EditLoanProposal(m, id, amount)
          \/ \E id \in LoanIds : CancelLoanProposal(m, id)
          \/ \E id \in LoanIds, support \in BOOLEAN : VoteOnLoanProposal(m, id, support)
          \/ \E id1, id2 \in LoanIds, s1, s2 \in BOOLEAN : VoteBatch(m, id1, s1, id2, s2)
    \/ \E id \in LoanIds : DisburseApprovedLoan(id) \/ ExpireLoanProposal(id)

(* A call on a withdrawal.                                                   *)
WithdrawalCall ==
    \/ \E m \in Accounts : TreasuryCall(m)
    \/ \E id \in TreasuryIds : ExecuteTreasuryProposal(id) \/ ExpireTreasuryProposal(id)

(* membership.rs, staking.rs, repayment, defaults, the registry, admin.rs,   *)
(* migration.rs and the clock touch no proposal and no ballot.               *)
LEMMA StepKinds ==
    ASSUME TypeOK, [Next]_vars
    PROVE  Aside \/ LoanBallotCall \/ WithdrawalCall
<1>. DEFINE Still == UNCHANGED <<now, loanProposals, loanVoted, treasuryVars>>
<1>1. now \in Nat
  BY DEF TypeOK, WorldTypes
<1>2. Still => Aside
  BY <1>1 DEF Aside, treasuryVars
<1>3. CASE Tick
  BY <1>1, <1>3 DEF Tick, Aside, loanVars, treasuryVars
<1>4. CASE \E asset \in Assets, amount \in DonationAmounts : Donate(asset, amount)
  BY <1>2, <1>4 DEF Donate, loanVars
<1>5. CASE \E m \in Accounts : MembershipCall(m)
  BY <1>2, <1>5 DEF MembershipCall, RegisterMember, ExitDao, ClaimRewards,
                    DelegateVote, Stake, Unstake, loanVars
<1>6. CASE \E m \in Accounts : LoanCall(m)
  <2>1. PICK m \in Accounts : LoanCall(m)
    BY <1>6
  <2>2. CASE \E id \in LoanIds :
                \/ \E amount \in RepaymentAmounts : RepayLoanPartial(m, id, amount)
                \/ RepayLoan(m, id)
                \/ \E asset \in Assets : RepayLoanInAsset(m, id, asset)
    <3>1. \E id \in LoanIds : \E amount : RepayAmount(m, id, amount)
      BY <2>2 DEF RepayLoanPartial, RepayLoan, RepayLoanInAsset
    <3>2. Still
      BY <3>1 DEF RepayAmount
    <3>. QED  BY <1>2, <3>2
  <2>3. CASE LoanBallotCall
    BY <2>3
  <2>. QED  BY <2>1, <2>2, <2>3 DEF LoanCall, LoanBallotCall
<1>7. CASE \E m \in Accounts : TreasuryCall(m)
  BY <1>7 DEF WithdrawalCall
<1>8. CASE \E m \in Accounts : RegistryCall(m)
  BY <1>2, <1>8 DEF RegistryCall, RegisterName, AttachDocument, loanVars
<1>9. CASE PublicCall
  <2>1. CASE \E id \in LoanIds : MarkLoanDefaulted(id)
    BY <1>2, <2>1 DEF MarkLoanDefaulted
  <2>. QED  BY <1>9, <2>1 DEF PublicCall, LoanBallotCall, WithdrawalCall
<1>10. CASE \E caller \in Governors : AdminCall(caller)
  <2>1. AdminFrame
    BY <1>10 DEF AdminCall, AddAdmin, RemoveAdmin, SetPauser, RevokePauser,
         SetConsensusThreshold, Pause, Unpause, ProposePolicyUpdate,
         ExecutePolicyUpdate, CancelPolicyUpdate, ProposeTokenAddition,
         ExecuteTokenAddition, RemoveToken
  <2>. QED  BY <1>2, <2>1 DEF AdminFrame, loanVars
<1>11. CASE \E caller \in Migrators : MigrationCall(caller)
  BY <1>1, <1>11 DEF MigrationCall, SeedMember, SeedStake, SeedPendingYield, SeedName,
         SeedLoan, SeedDocument, LockSeeding, loanVars, treasuryVars, Aside
<1>12. CASE UNCHANGED vars
  BY <1>2, <1>12 DEF vars, loanVars
<1>. QED  BY <1>3, <1>4, <1>5, <1>6, <1>7, <1>8, <1>9, <1>10, <1>11, <1>12
          DEF Next, Operate, Migrate

(* A call on a loan proposal leaves the withdrawals and the clock alone ...  *)
LEMMA LoanBallotFrame ==
    ASSUME LoanBallotCall PROVE UNCHANGED <<now, treasuryVars, documents>>
  BY DEF LoanBallotCall, RequestLoanInAsset, EditLoanProposal, CancelLoanProposal,
         VoteOnLoanProposal, VoteBatch, DisburseApprovedLoan, ExpireLoanProposal

(* ... and the other way round.                                              *)
LEMMA WithdrawalFrame ==
    ASSUME WithdrawalCall PROVE UNCHANGED <<now, loanVars, documents>>
  BY DEF WithdrawalCall, TreasuryCall, ProposeWithdrawalInAsset,
         VoteOnTreasuryProposal, CommitVote, RevealVote, CancelTreasuryProposal,
         ExecuteTreasuryProposal, ExpireTreasuryProposal

-----------------------------------------------------------------------------
(* Private ballots.                                                          *)

(* A new withdrawal has no voters on record: ids are fresh and every ballot  *)
(* counted is a voter's.                                                     *)
LEMMA NobodyVotedYet ==
    ASSUME RequestInv
    PROVE  /\ \A id \in TreasuryIds : id >= nextTreasuryId => treasuryVoted[id] = {}
           /\ \A id \in LoanIds : id >= nextProposalId => loanVoted[id] = {}
<1>1. NoTreasuryProposal.votes_cast = 0 /\ NoLoanProposal.votes_cast = 0
  BY DEF NoTreasuryProposal, NoLoanProposal
<1>2. \A S \in SUBSET Accounts : Cardinality(S) = 0 => S = {}
  BY AccountsAssumption, FS_Subset, FS_EmptySet
<1>3. /\ \A id \in TreasuryIds : treasuryVoted[id] \in SUBSET Accounts
      /\ \A id \in LoanIds : loanVoted[id] \in SUBSET Accounts
  BY DEF RequestInv, TypeOK, TreasuryTypes, LoanTypes
<1>4. ASSUME NEW id \in TreasuryIds, id >= nextTreasuryId PROVE treasuryVoted[id] = {}
  <2>1. treasuryProposals[id] = NoTreasuryProposal
    BY <1>4 DEF RequestInv, RequestFacts, FreshIds
  <2>2. Cardinality(treasuryVoted[id]) = 0
    BY <1>1, <2>1 DEF RequestInv, RequestFacts, BallotsCounted
  <2>. QED  BY <1>2, <1>3, <2>2
<1>5. ASSUME NEW id \in LoanIds, id >= nextProposalId PROVE loanVoted[id] = {}
  <2>1. loanProposals[id] = NoLoanProposal
    BY <1>5 DEF RequestInv, RequestFacts, FreshIds
  <2>2. Cardinality(loanVoted[id]) = 0
    BY <1>1, <2>1 DEF RequestInv, RequestFacts, BallotsCounted
  <2>. QED  BY <1>2, <1>3, <2>2
<1>. QED  BY <1>4, <1>5

(* What makes one proposal blind.                                            *)
BlindBallot(p, voters, time) ==
    p.private /\ time <= CommitEnd(p) => /\ voters = {}
                                         /\ p.status \in {"Pending", "Cancelled"}

(* Counting a ballot touches neither the terms nor the times.                *)
LEMMA TallyKeepsTerms ==
    ASSUME TypeOK, NEW id \in TreasuryIds, NEW voter, NEW support \in BOOLEAN,
           Tally(id, voter, support)
    PROVE  /\ treasuryProposals'[id].private = treasuryProposals[id].private
           /\ treasuryProposals'[id].proposer = treasuryProposals[id].proposer
           /\ treasuryProposals'[id].created_at = treasuryProposals[id].created_at
           /\ treasuryProposals'[id].voting_period = treasuryProposals[id].voting_period
           /\ treasuryProposals[id].status = "Pending"
           /\ \A i \in TreasuryIds \ {id} : /\ treasuryProposals'[i] = treasuryProposals[i]
                                            /\ treasuryVoted'[i] = treasuryVoted[i]
<1>. DEFINE p == treasuryProposals[id]
            counted == CountedTreasuryVote(p, voter, support)
            status == StatusAfterVote(counted)
<1>1. p \in TreasuryProposalRecords
  BY DEF TypeOK, TreasuryTypes
<1>2. counted.private = p.private /\ counted.created_at = p.created_at
      /\ counted.voting_period = p.voting_period /\ counted.proposer = p.proposer
  BY <1>1 DEF CountedTreasuryVote, TreasuryProposalRecords
<1>. HIDE DEF counted, status
<1>3. /\ treasuryProposals' =
           [treasuryProposals EXCEPT ![id] = [counted EXCEPT !.status = status]]
      /\ treasuryVoted' = [treasuryVoted EXCEPT ![id] = @ \cup {voter}]
      /\ p.status = "Pending"
  BY DEF Tally, MayBeTallied, counted, status
<1>. QED  BY <1>2, <1>3 DEF TypeOK, TreasuryTypes

(* No call on a withdrawal lifts the blindfold.                              *)
LEMMA BlindKept ==
    ASSUME RequestInv, BlindWhileCommitting, WithdrawalCall
    PROVE  BlindWhileCommitting'
<1>. DEFINE Blind(id) == BlindBallot(treasuryProposals[id], treasuryVoted[id], now)
<1>1. TypeOK /\ now' = now
  BY WithdrawalFrame DEF RequestInv
<1>2. \A id \in TreasuryIds : Blind(id)
  BY DEF BlindWhileCommitting, BlindBallot
<1>3. /\ treasuryProposals \in [TreasuryIds -> TreasuryProposalRecords]
      /\ treasuryVoted \in [TreasuryIds -> SUBSET Accounts]
      /\ nextTreasuryId \in Nat
  BY <1>1 DEF TypeOK, TreasuryTypes
<1>4. SUFFICES ASSUME NEW id \in TreasuryIds PROVE Blind(id)'
  BY DEF BlindWhileCommitting, BlindBallot
<1>5. ASSUME treasuryProposals'[id] = treasuryProposals[id],
             treasuryVoted'[id] = treasuryVoted[id]
      PROVE  Blind(id)'
  BY <1>1, <1>2, <1>5 DEF BlindBallot
<1>6. CASE \E m \in Accounts, amount \in WithdrawalAmounts, asset \in Assets,
              private \in Privacies : ProposeWithdrawalInAsset(m, amount, asset, private)
  <2>1. CASE id = nextTreasuryId
    <3>1. treasuryVoted'[id] = {}
      BY <1>3, <1>6, <2>1, NobodyVotedYet DEF ProposeWithdrawalInAsset
    <3>2. treasuryProposals'[id].status = "Pending"
      BY <1>3, <1>6, <2>1 DEF ProposeWithdrawalInAsset
    <3>. QED  BY <3>1, <3>2 DEF BlindBallot
  <2>2. CASE id # nextTreasuryId
    BY <1>3, <1>5, <1>6, <2>2 DEF ProposeWithdrawalInAsset
  <2>. QED  BY <2>1, <2>2
<1>7. ASSUME NEW m \in Accounts, NEW voted \in TreasuryIds, NEW support \in BOOLEAN,
             VoteOnTreasuryProposal(m, voted, support)
      PROVE  Blind(id)'
  BY <1>1, <1>5, <1>7, TallyKeepsTerms DEF VoteOnTreasuryProposal, BlindBallot
<1>8. CASE \E m \in Accounts, i \in TreasuryIds, author \in Accounts,
              support \in BOOLEAN : CommitVote(m, i, Commitment(author, i, support))
  BY <1>5, <1>8 DEF CommitVote
<1>9. ASSUME NEW m \in Accounts, NEW revealed \in TreasuryIds, NEW support \in BOOLEAN,
             RevealVote(m, revealed, support)
      PROVE  Blind(id)'
  <2>1. CASE id = revealed
    <3>1. /\ CommitEnd(treasuryProposals'[id]) = CommitEnd(treasuryProposals[id])
      BY <1>1, <1>9, <2>1, TallyKeepsTerms DEF RevealVote, CommitEnd
    <3>2. CommitEnd(treasuryProposals[id]) < now
      BY <1>9, <2>1 DEF RevealVote, RevealOpen
    <3>3. CommitEnd(treasuryProposals[id]) \in Nat /\ now \in Nat
      BY <1>1, <1>3 DEF CommitEnd, TreasuryProposalRecords, TypeOK, WorldTypes
    <3>. QED  BY <1>1, <3>1, <3>2, <3>3 DEF BlindBallot
  <2>2. CASE id # revealed
    BY <1>1, <1>5, <1>9, <2>2, TallyKeepsTerms DEF RevealVote
  <2>. QED  BY <2>1, <2>2
<1>10. CASE \E m \in Accounts, i \in TreasuryIds : CancelTreasuryProposal(m, i)
  BY <1>1, <1>2, <1>3, <1>10
     DEF CancelTreasuryProposal, BlindBallot, CommitEnd, TreasuryProposalRecords
<1>11. CASE \E i \in TreasuryIds : ExecuteTreasuryProposal(i)
  BY <1>1, <1>2, <1>3, <1>11
     DEF ExecuteTreasuryProposal, Payable, BlindBallot, CommitEnd,
         TreasuryProposalRecords
<1>12. CASE \E i \in TreasuryIds : ExpireTreasuryProposal(i)
  <2>1. now \in Nat
    BY <1>1 DEF TypeOK, WorldTypes
  <2>. QED  BY <1>1, <1>2, <1>3, <1>12, <2>1
            DEF ExpireTreasuryProposal, Lapsed, BlindBallot, CommitEnd,
                TreasuryProposalRecords
<1>. QED  BY <1>6, <1>7, <1>8, <1>9, <1>10, <1>11, <1>12 DEF WithdrawalCall, TreasuryCall

(* While a private proposal takes commitments nothing is counted and nothing *)
(* decided, in any deployment: commit_vote, reveal_vote and tally agree on   *)
(* the moment at which the one ends and the other begins.                    *)
THEOREM BallotsAreBlind == Spec => []BlindWhileCommitting
<1>1. Init => BlindWhileCommitting
  BY DEF Init, BlindWhileCommitting, NoTreasuryProposal
<1>2. RequestInv /\ BlindWhileCommitting /\ [Next]_vars => BlindWhileCommitting'
  <2>. SUFFICES ASSUME RequestInv, BlindWhileCommitting, [Next]_vars
                PROVE  BlindWhileCommitting'
    OBVIOUS
  <2>1. CASE Aside
    <3>1. now \in Int /\ now' \in Int /\ now' >= now
          /\ \A id \in TreasuryIds : CommitEnd(treasuryProposals[id]) \in Int
      BY <2>1 DEF Aside, RequestInv, TypeOK, TreasuryTypes,
                  WorldTypes, CommitEnd, TreasuryProposalRecords
    <3>. QED  BY <2>1, <3>1 DEF Aside, BlindWhileCommitting
  <2>2. CASE LoanBallotCall
    BY <2>2, LoanBallotFrame DEF treasuryVars, BlindWhileCommitting
  <2>3. CASE WithdrawalCall
    BY <2>3, BlindKept
  <2>. QED  BY <2>1, <2>2, <2>3, StepKinds DEF RequestInv
<1>. QED  BY <1>1, <1>2, RequestsInvariant, PTL DEF Spec

(* What one call does to the commitment c of a voter on a withdrawal p.      *)
Binding(id, v) ==
    LET c == commits[id][v]
        p == treasuryProposals[id]
    IN  c # NoCommit /\ commits'[id][v] # c =>
          /\ commits'[id][v] = NoCommit
          /\ c.voter = v
          /\ v \in treasuryVoted'[id] \ treasuryVoted[id]
          /\ IF c.support
             THEN treasuryProposals'[id].against_votes = p.against_votes
             ELSE treasuryProposals'[id].for_votes = p.for_votes

(* A reveal counts for the choice committed to, and for nothing else.        *)
LEMMA RevealBinds ==
    ASSUME TypeOK, NEW voter \in Accounts, NEW id \in TreasuryIds,
           NEW support \in BOOLEAN, RevealVote(voter, id, support)
    PROVE  Binding(id, voter)
<1>. DEFINE p == treasuryProposals[id]
            counted == CountedTreasuryVote(p, voter, support)
            status == StatusAfterVote(counted)
<1>1. p \in TreasuryProposalRecords /\ VotingWeight(voter) \in Nat
  BY VotingWeightIsNat DEF TypeOK, TreasuryTypes
<1>2. IF support THEN counted.against_votes = p.against_votes
      ELSE counted.for_votes = p.for_votes
  BY <1>1 DEF CountedTreasuryVote, TreasuryProposalRecords
<1>. HIDE DEF counted, status
<1>4. /\ treasuryProposals' =
           [treasuryProposals EXCEPT ![id] = [counted EXCEPT !.status = status]]
      /\ treasuryVoted' = [treasuryVoted EXCEPT ![id] = @ \cup {voter}]
      /\ voter \notin treasuryVoted[id]
  BY DEF RevealVote, Tally, MayBeTallied, counted, status
<1>5. /\ treasuryProposals'[id].against_votes = counted.against_votes
      /\ treasuryProposals'[id].for_votes = counted.for_votes
  BY <1>4 DEF TypeOK, TreasuryTypes
<1>6. voter \in treasuryVoted'[id] \ treasuryVoted[id]
  BY <1>4 DEF TypeOK, TreasuryTypes
<1>7. /\ commits[id][voter].voter = voter /\ commits[id][voter].support = support
      /\ commits'[id][voter] = NoCommit
  BY DEF RevealVote, Commitment, TypeOK, TreasuryTypes
<1>. QED  BY <1>2, <1>5, <1>6, <1>7 DEF Binding

(* A commitment is never exchanged for another, and only a reveal of its own *)
(* author uses it up, counted for the choice committed to (commit_vote,      *)
(* reveal_vote): whoever copies it can neither spend it nor keep its author  *)
(* from voting.                                                              *)
THEOREM CommitmentsBind == Spec => CommitmentBinds
<1>1. ASSUME TypeOK, [Next]_vars, NEW id \in TreasuryIds, NEW v \in Accounts
      PROVE  Binding(id, v)
  <2>. USE DEF Binding
  <2>1. commits \in [TreasuryIds -> [Accounts -> CommitRecords]]
    BY <1>1 DEF TypeOK, TreasuryTypes
  <2>2. CASE Aside
    BY <2>2 DEF Aside
  <2>3. CASE LoanBallotCall
    BY <2>3, LoanBallotFrame DEF treasuryVars
  <2>4. ASSUME NEW m \in Accounts, NEW i \in TreasuryIds, NEW commitment,
               CommitVote(m, i, commitment)
        PROVE  Binding(id, v)
    BY <2>1, <2>4 DEF CommitVote, MayCommit
  <2>5. ASSUME NEW m \in Accounts, NEW i \in TreasuryIds, NEW support \in BOOLEAN,
               RevealVote(m, i, support)
        PROVE  Binding(id, v)
    <3>1. CASE id = i /\ v = m
      BY <1>1, <2>5, <3>1, RevealBinds
    <3>2. CASE ~(id = i /\ v = m)
      BY <2>1, <2>5, <3>2 DEF RevealVote
    <3>. QED  BY <3>1, <3>2
  <2>6. CASE WithdrawalCall
    <3>1. CASE UNCHANGED commits
      BY <3>1
    <3>2. CASE ~UNCHANGED commits
      <4>1. \/ \E m \in Accounts, i \in TreasuryIds : \E commitment : CommitVote(m, i, commitment)
            \/ \E m \in Accounts, i \in TreasuryIds, support \in BOOLEAN :
                  RevealVote(m, i, support)
        BY <2>6, <3>2 DEF WithdrawalCall, TreasuryCall, ProposeWithdrawalInAsset,
             VoteOnTreasuryProposal, CancelTreasuryProposal,
             ExecuteTreasuryProposal, ExpireTreasuryProposal
      <4>. QED  BY <2>4, <2>5, <4>1
    <3>. QED  BY <3>1, <3>2
  <2>. QED  BY <1>1, <2>2, <2>3, <2>6, StepKinds
<1>2. TypeOK /\ [Next]_vars
        => [\A id \in TreasuryIds, v \in Accounts : Binding(id, v)]_vars
  BY <1>1
<1>3. Spec => [][\A id \in TreasuryIds, v \in Accounts : Binding(id, v)]_vars
  BY <1>2, TypeCorrect, PTL DEF Spec
<1>. QED  BY <1>3 DEF CommitmentBinds, Binding

-----------------------------------------------------------------------------
(* The stake behind a ballot.                                                *)

(* In operation stakes change by three calls only.                           *)
LEMMA StakeSteps ==
    ASSUME [Operate]_vars
    PROVE  \/ UNCHANGED <<stakes, totalStaked>>
           \/ \E m \in Accounts : \/ ExitDao(m)
                                  \/ \E amount \in StakeAmounts :
                                        Stake(m, amount) \/ Unstake(m, amount)
<1>1. CASE Tick \/ \E asset \in Assets, amount \in DonationAmounts : Donate(asset, amount)
  BY <1>1 DEF Tick, Donate, stakeVars
<1>2. CASE \E m \in Accounts : MembershipCall(m)
  BY <1>2 DEF MembershipCall, RegisterMember, ClaimRewards, DelegateVote, stakeVars
<1>3. ASSUME NEW m \in Accounts, LoanCall(m) PROVE UNCHANGED <<stakes, totalStaked>>
  <2>1. ASSUME NEW id \in LoanIds, NEW amount, RepayAmount(m, id, amount)
        PROVE  UNCHANGED <<stakes, totalStaked>>
    BY <2>1 DEF RepayAmount, stakeVars
  <2>2. CASE \E id \in LoanIds :
                \/ \E amount \in RepaymentAmounts : RepayLoanPartial(m, id, amount)
                \/ RepayLoan(m, id)
                \/ \E asset \in Assets : RepayLoanInAsset(m, id, asset)
    BY <2>1, <2>2 DEF RepayLoanPartial, RepayLoan, RepayLoanInAsset
  <2>3. CASE LoanBallotCall
    BY <2>3 DEF LoanBallotCall, RequestLoanInAsset, EditLoanProposal, CancelLoanProposal,
                VoteOnLoanProposal, VoteBatch, DisburseApprovedLoan, ExpireLoanProposal,
                stakeVars
  <2>. QED  BY <1>3, <2>2, <2>3 DEF LoanCall, LoanBallotCall
<1>4. CASE \E m \in Accounts : TreasuryCall(m) \/ RegistryCall(m)
  BY <1>4 DEF TreasuryCall, ProposeWithdrawalInAsset, VoteOnTreasuryProposal, CommitVote,
              RevealVote, CancelTreasuryProposal, RegistryCall, RegisterName,
              AttachDocument, stakeVars
<1>5. CASE PublicCall
  BY <1>5 DEF PublicCall, DisburseApprovedLoan, ExpireLoanProposal, MarkLoanDefaulted,
              ExecuteTreasuryProposal, ExpireTreasuryProposal, stakeVars
<1>6. CASE \E caller \in Governors : AdminCall(caller)
  <2>1. AdminFrame
    BY <1>6 DEF AdminCall, AddAdmin, RemoveAdmin, SetPauser, RevokePauser,
         SetConsensusThreshold, Pause, Unpause, ProposePolicyUpdate,
         ExecutePolicyUpdate, CancelPolicyUpdate, ProposeTokenAddition,
         ExecuteTokenAddition, RemoveToken
  <2>. QED  BY <2>1 DEF AdminFrame, stakeVars
<1>7. CASE UNCHANGED vars
  BY <1>7 DEF vars, stakeVars
<1>. QED  BY <1>1, <1>2, <1>3, <1>4, <1>5, <1>6, <1>7 DEF Operate

(* A member who stays takes back no stake while a ballot or a commitment of  *)
(* theirs is open (unstake, issue 175), in every deployment set up by        *)
(* `initialize`: the weight they voted with remains behind the vote.         *)
THEOREM StakesAreHeld == OperatingSpec => StakeHeldByBallots
<1>. DEFINE Held ==
              \A m \in ActiveMembers \cap ActiveMembers', id \in TreasuryIds :
                 /\ treasuryProposals[id].status = "Pending"
                 /\ now <= TreasuryVotingEnd(treasuryProposals[id])
                 /\ m \in treasuryVoted[id] \/ commits[id][m] # NoCommit
                 => stakes'[m] >= stakes[m]
<1>1. ASSUME TypeOK, [Operate]_vars PROVE Held
  <2>1. stakes \in [Accounts -> Int]
    BY <1>1 DEF TypeOK, StakeTypes
  <2>2. SUFFICES ASSUME NEW m \in ActiveMembers \cap ActiveMembers', NEW id \in TreasuryIds,
                        treasuryProposals[id].status = "Pending",
                        now <= TreasuryVotingEnd(treasuryProposals[id]),
                        m \in treasuryVoted[id] \/ commits[id][m] # NoCommit
                 PROVE  stakes'[m] >= stakes[m]
    OBVIOUS
  <2>3. m \in Accounts /\ HasOpenTreasuryBallot(m)
    BY <2>2 DEF ActiveMembers, HasOpenTreasuryBallot
  <2>4. CASE UNCHANGED stakes
    BY <2>1, <2>3, <2>4
  <2>5. ASSUME NEW leaver \in Accounts, ExitDao(leaver) PROVE stakes'[m] >= stakes[m]
    <3>1. members'[leaver].status = "Inactive"
      BY <1>1, <2>5 DEF ExitDao, TypeOK, MemberTypes, MemberRecords
    <3>2. m # leaver
      BY <2>2, <3>1 DEF ActiveMembers, IsActiveMember
    <3>. QED  BY <2>1, <2>3, <2>5, <3>2 DEF ExitDao
  <2>6. ASSUME NEW staker \in Accounts, NEW amount \in StakeAmounts, Stake(staker, amount)
        PROVE  stakes'[m] >= stakes[m]
    BY <2>1, <2>3, <2>6, InputsAssumption DEF Stake
  <2>7. ASSUME NEW staker \in Accounts, NEW amount \in StakeAmounts, Unstake(staker, amount)
        PROVE  stakes'[m] >= stakes[m]
    <3>1. m # staker
      BY <2>3, <2>7 DEF Unstake
    <3>. QED  BY <2>1, <2>3, <2>7, <3>1 DEF Unstake
  <2>. QED  BY <1>1, <2>4, <2>5, <2>6, <2>7, StakeSteps
<1>2. TypeOK /\ [Operate]_vars => [Held]_vars
  BY <1>1
<1>3. [Operate]_vars => [Next]_vars
  BY DEF Next
<1>4. OperatingSpec => Spec
  BY <1>3, PTL DEF OperatingSpec, Spec
<1>5. OperatingSpec => [][Held]_vars
  BY <1>2, <1>4, TypeCorrect, PTL DEF OperatingSpec
<1>. QED  BY <1>5 DEF StakeHeldByBallots

-----------------------------------------------------------------------------
(* What a loan ballot is about.                                              *)

(* A loan proposal q that p may have become, once its ballot has begun.      *)
Later(q, p) ==
    /\ q.borrower = p.borrower
    /\ q.asset = p.asset /\ q.amount = p.amount
    /\ LoanVotingEnd(q) = LoanVotingEnd(p)
    /\ q.status = "Pending" => p.status = "Pending"
    /\ q.phase = "Editing" => p.phase = "Editing"

(* What calls after the editing period do to proposals and their voters.     *)
Further(qs, voted2, ps, voted1) ==
    \A i \in LoanIds : /\ Later(qs[i], ps[i])
                       /\ voted2[i] # voted1[i] => qs[i].phase # "Editing"

(* With the same voters, moving each proposal on is enough.                  *)
LEMMA FurtherWithSameVoters ==
    ASSUME NEW qs, NEW ps, NEW voted1, NEW voted2, voted2 = voted1,
           \A i \in LoanIds : Later(qs[i], ps[i])
    PROVE  Further(qs, voted2, ps, voted1)
BY DEF Further

(* Moving on keeps asset and amount, and voters come after the editing period.        *)
LEMMA FurtherKeeps ==
    ASSUME NEW qs, NEW ps, NEW voted1, NEW voted2, Further(qs, voted2, ps, voted1),
           NEW i \in LoanIds
    PROVE  /\ qs[i].asset = ps[i].asset /\ qs[i].amount = ps[i].amount
           /\ qs[i].phase = "Editing" => ps[i].phase = "Editing" /\ voted2[i] = voted1[i]
BY DEF Further, Later

(* Moving on opens nothing.                                                  *)
LEMMA FurtherOpensNothing ==
    ASSUME NEW qs, NEW ps, NEW voted1, NEW voted2, Further(qs, voted2, ps, voted1),
           NEW i \in LoanIds
    PROVE  /\ qs[i].borrower = ps[i].borrower
           /\ LoanVotingEnd(qs[i]) = LoanVotingEnd(ps[i])
           /\ qs[i].status = "Pending" => ps[i].status = "Pending"
BY DEF Further, Later

(* refresh_phase only moves a proposal on.                                   *)
LEMMA RefreshedIsLater ==
    ASSUME NEW p \in LoanProposalRecords PROVE Later(Refreshed(p), p)
<1>1. InVoting(p) \in LoanProposalRecords /\ Later(InVoting(p), p)
  BY RefreshedTyped DEF InVoting, Later, LoanVotingEnd, LoanProposalRecords
<1>2. \A q \in LoanProposalRecords :
         Later([q EXCEPT !.phase = "Expired", !.status = "Expired"], q)
  BY DEF Later, LoanVotingEnd, LoanProposalRecords
<1>3. Refreshed(p) = InVoting(p) \/ Later(Refreshed(p), InVoting(p))
  BY <1>1, <1>2 DEF Refreshed
<1>. QED  BY <1>1, <1>3 DEF Later

(* A payment only moves it on.                                               *)
LEMMA DisbursedIsLater ==
    ASSUME NEW b \in Books, NEW id \in LoanIds
    PROVE  Further(Disbursed(b, id).proposals, Disbursed(b, id).voted, b.proposals, b.voted)
<1>1. /\ Disbursed(b, id).proposals = [b.proposals EXCEPT ![id].status = "Approved"]
      /\ Disbursed(b, id).voted = b.voted
  BY DEF Disbursed
<1>2. b.proposals \in [LoanIds -> LoanProposalRecords]
  BY DEF Books
<1>3. \A i \in LoanIds : /\ i # id => Disbursed(b, id).proposals[i] = b.proposals[i]
                         /\ Disbursed(b, id).proposals[id]
                              = [b.proposals[id] EXCEPT !.status = "Approved"]
  BY <1>1, <1>2
<1>4. \A p \in LoanProposalRecords : Later([p EXCEPT !.status = "Approved"], p)
  BY DEF Later, LoanVotingEnd, LoanProposalRecords
<1>5. \A p \in LoanProposalRecords : Later(p, p)
  BY DEF Later
<1>6. \A i \in LoanIds : Later(Disbursed(b, id).proposals[i], b.proposals[i])
  BY <1>2, <1>3, <1>4, <1>5
<1>. QED  BY <1>1, <1>6 DEF Further

(* Further is transitive.                                                    *)
LEMMA FurtherStill ==
    ASSUME NEW b, NEW c, NEW d,
           Further(c.proposals, c.voted, b.proposals, b.voted),
           Further(d.proposals, d.voted, c.proposals, c.voted)
    PROVE  Further(d.proposals, d.voted, b.proposals, b.voted)
<1>1. ASSUME NEW i \in LoanIds
      PROVE  /\ Later(d.proposals[i], b.proposals[i])
             /\ d.voted[i] # b.voted[i] => d.proposals[i].phase # "Editing"
  <2>1. Later(d.proposals[i], c.proposals[i]) /\ Later(c.proposals[i], b.proposals[i])
    BY DEF Further
  <2>2. d.voted[i] # b.voted[i] => d.voted[i] # c.voted[i] \/ c.voted[i] # b.voted[i]
    OBVIOUS
  <2>. QED  BY <2>1, <2>2 DEF Further, Later
<1>. QED  BY <1>1 DEF Further

(* A ballot is counted only once the editing is over, and moves it on.       *)
LEMMA BallotIsLater ==
    ASSUME TypeOK, NEW b \in Books, NEW voter \in Accounts, NEW id \in LoanIds,
           NEW support \in BOOLEAN, MayVoteOnLoan(b, voter, id)
    PROVE  LET c == LoanVoteCast(b, voter, id, support)
           IN  Further(c.proposals, c.voted, b.proposals, b.voted)
<1>. DEFINE p == b.proposals[id]
            counted == CountedLoanVote(p, voter, support)
            decided == IF counted.status = "Pending" THEN LoanOutcome(counted) ELSE counted
            after == BallotBook(b, voter, id, support)
<1>1. p \in LoanProposalRecords /\ b.proposals \in [LoanIds -> LoanProposalRecords]
      /\ b.voted \in [LoanIds -> SUBSET Accounts]
  BY DEF Books
<1>2. counted \in LoanProposalRecords /\ Later(counted, p) /\ counted.phase = "Voting"
  <2>. DEFINE r == Refreshed(p)
  <2>1. r \in LoanProposalRecords /\ Later(r, p) /\ r.phase = "Voting"
    BY <1>1, RefreshedTyped, RefreshedIsLater DEF MayVoteOnLoan
  <2>2. counted \in LoanProposalRecords
    BY <1>1, CountedLoanVoteTyped
  <2>. HIDE DEF r, p
  <2>3. Later(counted, r) /\ counted.phase = r.phase
    BY <2>1 DEF CountedLoanVote, Later, LoanVotingEnd, LoanProposalRecords, r
  <2>. QED  BY <2>1, <2>2, <2>3 DEF Later
<1>. HIDE DEF counted, p
<1>3. Later(decided, counted) /\ decided.phase # "Editing"
  <2>1. Later(LoanOutcome(counted), counted) /\ LoanOutcome(counted).phase # "Editing"
    BY <1>2 DEF LoanOutcome, Later, LoanVotingEnd, LoanProposalRecords
  <2>. QED  BY <1>2, <2>1 DEF Later
<1>4. Later(decided, p) /\ decided.phase # "Editing"
  BY <1>2, <1>3 DEF Later
<1>5. /\ after.proposals = [b.proposals EXCEPT ![id] = decided]
      /\ after.voted = [b.voted EXCEPT ![id] = @ \cup {voter}]
  BY DEF BallotBook, counted, p
<1>6. after \in Books
  BY BallotBookTyped
<1>. HIDE DEF decided, after
<1>7. Further(after.proposals, after.voted, b.proposals, b.voted)
  <2>1. \A q : Later(q, q)
    BY DEF Later
  <2>2. ASSUME NEW i \in LoanIds
        PROVE  /\ Later(after.proposals[i], b.proposals[i])
               /\ after.voted[i] # b.voted[i] => after.proposals[i].phase # "Editing"
    BY <1>1, <1>4, <1>5, <2>1 DEF p
  <2>. QED  BY <2>2 DEF Further
<1>8. Further(Disbursed(after, id).proposals, Disbursed(after, id).voted,
              after.proposals, after.voted)
  BY <1>6, DisbursedIsLater
<1>9. Further(Disbursed(after, id).proposals, Disbursed(after, id).voted,
              b.proposals, b.voted)
  BY <1>7, <1>8, FurtherStill
<1>. QED  BY <1>7, <1>9 DEF LoanVoteCast, after

(* A call on a loan proposal files one, edits one that is still in editing,  *)
(* or moves some further.                                                    *)
LEMMA LoanCallKinds ==
    ASSUME TypeOK, LoanBallotCall
    PROVE  \/ \E m \in Accounts, amount \in LoanAmounts, asset \in Assets :
                 RequestLoanInAsset(m, amount, asset)
           \/ \E m \in Accounts, id \in LoanIds, amount \in LoanAmounts :
                 EditLoanProposal(m, id, amount)
           \/ Further(loanProposals', loanVoted', loanProposals, loanVoted)
<1>1. Book \in Books /\ Book.proposals = loanProposals /\ Book.voted = loanVoted
  BY BookTyped DEF Book
<1>2. \A i \in LoanIds : loanProposals[i] \in LoanProposalRecords
  BY DEF TypeOK, LoanTypes
<1>3. \A p : Later(p, p)
  BY DEF Later
<1>4. ASSUME NEW m \in Accounts, NEW id \in LoanIds, CancelLoanProposal(m, id)
      PROVE  Further(loanProposals', loanVoted', loanProposals, loanVoted)
  <2>. DEFINE p == loanProposals[id]
  <2>1. Later([p EXCEPT !.status = "Cancelled", !.phase = "Expired"], p)
    <3>. HIDE DEF p
    <3>1. p \in LoanProposalRecords
      BY <1>2 DEF p
    <3>. QED  BY <3>1 DEF Later, LoanVotingEnd, LoanProposalRecords
  <2>2. \A i \in LoanIds :
           \/ loanProposals'[i] = loanProposals[i]
           \/ /\ i = id
              /\ loanProposals'[i] = [p EXCEPT !.status = "Cancelled", !.phase = "Expired"]
    BY <1>4 DEF CancelLoanProposal, TypeOK, LoanTypes
  <2>3. \A i \in LoanIds : Later(loanProposals'[i], loanProposals[i])
    BY <1>3, <2>1, <2>2
  <2>4. loanVoted' = loanVoted
    BY <1>4 DEF CancelLoanProposal
  <2>. QED  BY <2>3, <2>4, FurtherWithSameVoters
<1>5. ASSUME NEW id \in LoanIds, ExpireLoanProposal(id)
      PROVE  Further(loanProposals', loanVoted', loanProposals, loanVoted)
  <2>1. \A i \in LoanIds : loanProposals'[i] \in {loanProposals[i], Refreshed(loanProposals[i])}
    BY <1>5 DEF ExpireLoanProposal, TypeOK, LoanTypes
  <2>2. \A i \in LoanIds : Later(loanProposals'[i], loanProposals[i])
    BY <1>2, <1>3, <2>1, RefreshedIsLater
  <2>3. loanVoted' = loanVoted
    BY <1>5 DEF ExpireLoanProposal
  <2>. QED  BY <2>2, <2>3, FurtherWithSameVoters
<1>6. ASSUME NEW m \in Accounts, NEW id \in LoanIds, NEW support \in BOOLEAN,
             VoteOnLoanProposal(m, id, support)
      PROVE  Further(loanProposals', loanVoted', loanProposals, loanVoted)
  BY <1>1, <1>6, BallotIsLater DEF VoteOnLoanProposal, BecomesBook
<1>7. ASSUME NEW m \in Accounts, NEW id1 \in LoanIds, NEW id2 \in LoanIds,
             NEW s1 \in BOOLEAN, NEW s2 \in BOOLEAN, VoteBatch(m, id1, s1, id2, s2)
      PROVE  Further(loanProposals', loanVoted', loanProposals, loanVoted)
  <2>. DEFINE c == LoanVoteCast(Book, m, id1, s1)
              d == LoanVoteCast(c, m, id2, s2)
  <2>1. /\ MayVoteOnLoan(Book, m, id1) /\ MayVoteOnLoan(c, m, id2)
        /\ loanProposals' = d.proposals /\ loanVoted' = d.voted
    BY <1>7 DEF VoteBatch, BecomesBook
  <2>2. c \in Books
    BY <1>1, LoanVoteCastTyped
  <2>3. Further(c.proposals, c.voted, Book.proposals, Book.voted)
    BY <1>1, <2>1, BallotIsLater
  <2>. HIDE DEF c
  <2>4. Further(d.proposals, d.voted, c.proposals, c.voted)
    BY <2>1, <2>2, BallotIsLater
  <2>. HIDE DEF d
  <2>5. Further(d.proposals, d.voted, Book.proposals, Book.voted)
    BY <2>3, <2>4, FurtherStill
  <2>. QED  BY <1>1, <2>1, <2>5
<1>8. ASSUME NEW id \in LoanIds, DisburseApprovedLoan(id)
      PROVE  Further(loanProposals', loanVoted', loanProposals, loanVoted)
  BY <1>1, <1>8, DisbursedIsLater DEF DisburseApprovedLoan, BecomesBook
<1>. QED  BY <1>4, <1>5, <1>6, <1>7, <1>8 DEF LoanBallotCall

(* Who has voted on a loan did so after its editing period.                  *)
VotedAfterEditing ==
    \A id \in LoanIds : loanVoted[id] # {} => loanProposals[id].phase # "Editing"

(* What one call does to the subject of a ballot under way.                  *)
AmountFixed ==
    \A id \in LoanIds : loanVoted[id] # {} =>
        loanProposals'[id].amount = loanProposals[id].amount

(* Every step keeps both.                                                    *)
LEMMA BallotsStep ==
    ASSUME RequestInv, VotedAfterEditing, [Next]_vars
    PROVE  VotedAfterEditing' /\ AmountFixed
<1>1. /\ loanProposals \in [LoanIds -> LoanProposalRecords]
      /\ nextProposalId \in Nat /\ TypeOK
  BY DEF RequestInv, TypeOK, LoanTypes
<1>2. CASE UNCHANGED <<loanProposals, loanVoted>>
  BY <1>2 DEF VotedAfterEditing, AmountFixed
<1>3. ASSUME NEW m \in Accounts, NEW amount \in LoanAmounts, NEW asset \in Assets,
             RequestLoanInAsset(m, amount, asset)
      PROVE  VotedAfterEditing' /\ AmountFixed
  <2>1. nextProposalId \in LoanIds => loanVoted[nextProposalId] = {}
    BY <1>1, NobodyVotedYet
  <2>2. /\ \A id \in LoanIds \ {nextProposalId} : loanProposals'[id] = loanProposals[id]
        /\ loanVoted' = loanVoted
    BY <1>1, <1>3 DEF RequestLoanInAsset
  <2>. QED  BY <2>1, <2>2 DEF VotedAfterEditing, AmountFixed
<1>4. ASSUME NEW m \in Accounts, NEW edited \in LoanIds, NEW amount \in LoanAmounts,
             EditLoanProposal(m, edited, amount)
      PROVE  VotedAfterEditing' /\ AmountFixed
  <2>1. loanVoted[edited] = {}
    BY <1>4 DEF EditLoanProposal, MayEdit, VotedAfterEditing
  <2>2. /\ \A id \in LoanIds \ {edited} : loanProposals'[id] = loanProposals[id]
        /\ loanVoted' = loanVoted
    BY <1>1, <1>4 DEF EditLoanProposal
  <2>. QED  BY <2>1, <2>2 DEF VotedAfterEditing, AmountFixed
<1>5. CASE Further(loanProposals', loanVoted', loanProposals, loanVoted)
  <2>1. ASSUME NEW id \in LoanIds
        PROVE  /\ loanProposals'[id].amount = loanProposals[id].amount
               /\ loanProposals'[id].phase = "Editing"
                    => loanProposals[id].phase = "Editing" /\ loanVoted'[id] = loanVoted[id]
    BY <1>5, FurtherKeeps
  <2>. QED  BY <2>1 DEF VotedAfterEditing, AmountFixed
<1>6. CASE Aside \/ WithdrawalCall
  <2>1. UNCHANGED <<loanProposals, loanVoted>>
    BY <1>6, WithdrawalFrame DEF Aside, loanVars
  <2>. QED  BY <1>2, <2>1
<1>. QED  BY <1>1, <1>3, <1>4, <1>5, <1>6, StepKinds, LoanCallKinds

(* In operation only attach_document changes a document.                     *)
LEMMA DocumentsChange ==
    ASSUME [Operate]_vars
    PROVE  \/ UNCHANGED documents
           \/ \E m \in Accounts, key \in DocumentKeys, hash \in Hashes :
                 AttachDocument(m, key, hash)
<1>1. CASE Tick \/ \E asset \in Assets, amount \in DonationAmounts : Donate(asset, amount)
  BY <1>1 DEF Tick, Donate
<1>2. CASE \E m \in Accounts : MembershipCall(m)
  BY <1>2 DEF MembershipCall, RegisterMember, ExitDao, ClaimRewards, DelegateVote,
         Stake, Unstake
<1>3. CASE \E m \in Accounts : LoanCall(m)
  <2>1. ASSUME NEW m \in Accounts, NEW id \in LoanIds, NEW n, RepayAmount(m, id, n)
        PROVE  UNCHANGED documents
    BY <2>1 DEF RepayAmount
  <2>2. ASSUME NEW m \in Accounts, NEW id \in LoanIds, NEW s1, NEW id2, NEW s2,
               VoteBatch(m, id, s1, id2, s2)
        PROVE  UNCHANGED documents
    BY <2>2 DEF VoteBatch
  <2>3. ASSUME NEW m \in Accounts, NEW id \in LoanIds, NEW s1, VoteOnLoanProposal(m, id, s1)
        PROVE  UNCHANGED documents
    BY <2>3 DEF VoteOnLoanProposal
  <2>4. ASSUME NEW m \in Accounts, NEW amount, NEW asset, RequestLoanInAsset(m, amount, asset)
        PROVE  UNCHANGED documents
    BY <2>4 DEF RequestLoanInAsset
  <2>5. ASSUME NEW m \in Accounts, NEW id \in LoanIds, NEW amount,
               EditLoanProposal(m, id, amount) \/ CancelLoanProposal(m, id)
        PROVE  UNCHANGED documents
    BY <2>5 DEF EditLoanProposal, CancelLoanProposal
  <2>. QED  BY <1>3, <2>1, <2>2, <2>3, <2>4, <2>5
            DEF LoanCall, RepayLoanPartial, RepayLoan, RepayLoanInAsset
<1>4. CASE \E m \in Accounts : TreasuryCall(m)
  BY <1>4 DEF TreasuryCall, ProposeWithdrawalInAsset, VoteOnTreasuryProposal,
         CommitVote, RevealVote, CancelTreasuryProposal
<1>5. CASE \E m \in Accounts : RegistryCall(m)
  BY <1>5 DEF RegistryCall, RegisterName
<1>6. CASE PublicCall
  BY <1>6 DEF PublicCall, DisburseApprovedLoan, ExpireLoanProposal, MarkLoanDefaulted,
         ExecuteTreasuryProposal, ExpireTreasuryProposal
<1>7. CASE \E caller \in Governors : AdminCall(caller)
  <2>1. AdminFrame
    BY <1>7 DEF AdminCall, AddAdmin, RemoveAdmin, SetPauser, RevokePauser,
         SetConsensusThreshold, Pause, Unpause, ProposePolicyUpdate,
         ExecutePolicyUpdate, CancelPolicyUpdate, ProposeTokenAddition,
         ExecuteTokenAddition, RemoveToken
  <2>. QED  BY <2>1 DEF AdminFrame
<1>8. CASE UNCHANGED vars
  BY <1>8 DEF vars
<1>. QED  BY <1>1, <1>2, <1>3, <1>4, <1>5, <1>6, <1>7, <1>8 DEF Operate

(* What voters were asked about is what is decided: once a vote on a loan is *)
(* in, edit_loan_proposal and attach_document are refused, however lazily    *)
(* the end of the editing period is written down.                            *)
THEOREM BallotSubjectIsFixed == OperatingSpec => BallotSubjectFixed
<1>. DEFINE DocumentFixed ==
              \A id \in LoanIds : loanVoted[id] # {} =>
                  documents'[<<"Loan", id>>] = documents[<<"Loan", id>>]
<1>1. Init => VotedAfterEditing
  BY DEF Init, VotedAfterEditing
<1>2. RequestInv /\ VotedAfterEditing /\ [Next]_vars => VotedAfterEditing' /\ AmountFixed
  BY BallotsStep
<1>3. ASSUME RequestInv, VotedAfterEditing, [Operate]_vars PROVE DocumentFixed
  <2>1. CASE UNCHANGED documents
    BY <2>1
  <2>2. ASSUME NEW m \in Accounts, NEW key \in DocumentKeys, NEW hash \in Hashes,
               AttachDocument(m, key, hash), NEW id \in LoanIds, loanVoted[id] # {}
        PROVE  documents'[<<"Loan", id>>] = documents[<<"Loan", id>>]
    <3>1. key # <<"Loan", id>>
      BY <1>3, <2>2 DEF AttachDocument, Attachable, VotedAfterEditing
    <3>. QED  BY <2>2, <3>1 DEF AttachDocument, RequestInv, TypeOK, DocumentTypes
  <2>. QED  BY <1>3, <2>1, <2>2, DocumentsChange
<1>4. [Operate]_vars => [Next]_vars
  BY DEF Next
<1>5. AmountFixed /\ DocumentFixed
        => \A id \in LoanIds : loanVoted[id] # {} =>
              /\ loanProposals'[id].amount = loanProposals[id].amount
              /\ documents'[<<"Loan", id>>] = documents[<<"Loan", id>>]
  BY DEF AmountFixed
<1>6. OperatingSpec => Spec
  BY <1>4, PTL DEF OperatingSpec, Spec
<1>7. OperatingSpec => [](RequestInv /\ VotedAfterEditing)
  BY <1>1, <1>2, <1>4, <1>6, RequestsInvariant, PTL DEF OperatingSpec
<1>8. RequestInv /\ VotedAfterEditing /\ [Operate]_vars
        => [\A id \in LoanIds : loanVoted[id] # {} =>
              /\ loanProposals'[id].amount = loanProposals[id].amount
              /\ documents'[<<"Loan", id>>] = documents[<<"Loan", id>>]]_vars
  BY <1>2, <1>3, <1>4, <1>5
<1>. QED  BY <1>7, <1>8, PTL DEF OperatingSpec, BallotSubjectFixed

-----------------------------------------------------------------------------
(* The quota of open proposals.                                              *)

(* A proposal still open after the step was its owner's and open before it.  *)
LoanStaysOpen(id) ==
    /\ loanProposals'[id].status = "Pending"
    /\ now' <= LoanVotingEnd(loanProposals'[id])
    => /\ loanProposals'[id].borrower = loanProposals[id].borrower
       /\ loanProposals[id].status = "Pending"
       /\ now <= LoanVotingEnd(loanProposals[id])

(* A withdrawal still open was open before.                                  *)
WithdrawalStaysOpen(id) ==
    /\ treasuryProposals'[id].status = "Pending"
    /\ now' <= TreasuryVotingEnd(treasuryProposals'[id])
    => /\ treasuryProposals'[id].proposer = treasuryProposals[id].proposer
       /\ treasuryProposals[id].status = "Pending"
       /\ now <= TreasuryVotingEnd(treasuryProposals[id])

(* Both ends of voting are points in time.                                   *)
LEMMA EndsAreInt ==
    ASSUME TypeOK
    PROVE  /\ \A id \in LoanIds : LoanVotingEnd(loanProposals[id]) \in Int
           /\ \A id \in TreasuryIds : TreasuryVotingEnd(treasuryProposals[id]) \in Int
BY DEF TypeOK, LoanTypes, TreasuryTypes, LoanVotingEnd, TreasuryVotingEnd,
       LoanProposalRecords, TreasuryProposalRecords

(* Time closes proposals.                                                    *)
LEMMA TimeCloses ==
    ASSUME TypeOK, Aside
    PROVE  /\ \A id \in LoanIds : LoanStaysOpen(id)
           /\ \A id \in TreasuryIds : WithdrawalStaysOpen(id)
<1>1. now \in Int /\ now' \in Int /\ now' >= now
  BY DEF Aside, TypeOK, WorldTypes
<1>2. ASSUME NEW id \in LoanIds PROVE LoanStaysOpen(id)
  BY <1>1, EndsAreInt DEF Aside, LoanStaysOpen
<1>3. ASSUME NEW id \in TreasuryIds PROVE WithdrawalStaysOpen(id)
  BY <1>1, EndsAreInt DEF Aside, WithdrawalStaysOpen
<1>. QED  BY <1>2, <1>3

(* Of the calls on a loan proposal only a request opens one, its own.        *)
LEMMA LoansStayOpen ==
    ASSUME TypeOK, LoanBallotCall
    PROVE  \/ \A id \in LoanIds : LoanStaysOpen(id)
           \/ \E m \in Accounts :
                 /\ BelowQuota(m)
                 /\ \A id \in LoanIds \ {nextProposalId} : LoanStaysOpen(id)
                 /\ nextProposalId \in LoanIds =>
                       loanProposals'[nextProposalId].borrower = m
<1>1. /\ loanProposals \in [LoanIds -> LoanProposalRecords] /\ nextProposalId \in Nat
      /\ now' = now
  BY LoanBallotFrame DEF TypeOK, LoanTypes
<1>2. ASSUME NEW id \in LoanIds, loanProposals'[id] = loanProposals[id]
      PROVE  LoanStaysOpen(id)
  BY <1>1, <1>2 DEF LoanStaysOpen
<1>3. ASSUME NEW m \in Accounts, NEW amount \in LoanAmounts, NEW asset \in Assets,
             RequestLoanInAsset(m, amount, asset)
      PROVE  /\ BelowQuota(m)
             /\ \A id \in LoanIds \ {nextProposalId} : LoanStaysOpen(id)
             /\ nextProposalId \in LoanIds => loanProposals'[nextProposalId].borrower = m
  BY <1>1, <1>2, <1>3 DEF RequestLoanInAsset
<1>4. ASSUME NEW m \in Accounts, NEW edited \in LoanIds, NEW amount \in LoanAmounts,
             EditLoanProposal(m, edited, amount), NEW id \in LoanIds
      PROVE  LoanStaysOpen(id)
  <2>1. CASE id = edited
    BY <1>1, <1>4, <2>1 DEF EditLoanProposal, LoanStaysOpen, LoanVotingEnd,
                            LoanProposalRecords
  <2>2. CASE id # edited
    BY <1>1, <1>2, <1>4, <2>2 DEF EditLoanProposal
  <2>. QED  BY <2>1, <2>2
<1>5. CASE Further(loanProposals', loanVoted', loanProposals, loanVoted)
  <2>1. ASSUME NEW id \in LoanIds PROVE LoanStaysOpen(id)
    BY <1>1, <1>5, FurtherOpensNothing DEF LoanStaysOpen
  <2>. QED  BY <2>1
<1>. QED  BY <1>3, <1>4, <1>5, LoanCallKinds

(* Of the calls on a withdrawal only a proposal opens one, its own.          *)
LEMMA WithdrawalsStayOpen ==
    ASSUME TypeOK, WithdrawalCall
    PROVE  \/ \A id \in TreasuryIds : WithdrawalStaysOpen(id)
           \/ \E m \in Accounts :
                 /\ BelowQuota(m)
                 /\ \A id \in TreasuryIds \ {nextTreasuryId} : WithdrawalStaysOpen(id)
                 /\ nextTreasuryId \in TreasuryIds =>
                       treasuryProposals'[nextTreasuryId].proposer = m
<1>1. /\ treasuryProposals \in [TreasuryIds -> TreasuryProposalRecords]
      /\ nextTreasuryId \in Nat /\ now' = now
  BY WithdrawalFrame DEF TypeOK, TreasuryTypes
<1>2. ASSUME NEW id \in TreasuryIds, treasuryProposals'[id] = treasuryProposals[id]
      PROVE  WithdrawalStaysOpen(id)
  BY <1>1, <1>2 DEF WithdrawalStaysOpen
<1>3. ASSUME NEW m \in Accounts, NEW amount, NEW asset, NEW private,
             ProposeWithdrawalInAsset(m, amount, asset, private)
      PROVE  /\ BelowQuota(m)
             /\ \A id \in TreasuryIds \ {nextTreasuryId} : WithdrawalStaysOpen(id)
             /\ nextTreasuryId \in TreasuryIds =>
                   treasuryProposals'[nextTreasuryId].proposer = m
  BY <1>1, <1>2, <1>3 DEF ProposeWithdrawalInAsset
<1>4. ASSUME NEW voter \in Accounts, NEW i \in TreasuryIds, NEW support \in BOOLEAN,
             Tally(i, voter, support), NEW id \in TreasuryIds
      PROVE  WithdrawalStaysOpen(id)
  <2>1. CASE id = i
    BY <1>1, <1>4, <2>1, TallyKeepsTerms DEF WithdrawalStaysOpen, TreasuryVotingEnd
  <2>2. CASE id # i
    BY <1>2, <1>4, <2>2, TallyKeepsTerms
  <2>. QED  BY <2>1, <2>2
<1>5. ASSUME NEW i \in TreasuryIds, NEW status, status # "Pending",
             treasuryProposals' = [treasuryProposals EXCEPT ![i].status = status],
             NEW id \in TreasuryIds
      PROVE  WithdrawalStaysOpen(id)
  BY <1>1, <1>2, <1>5 DEF WithdrawalStaysOpen, TreasuryProposalRecords
<1>6. UNCHANGED treasuryProposals => \A id \in TreasuryIds : WithdrawalStaysOpen(id)
  BY <1>2
<1>7. ASSUME NEW m \in Accounts, TreasuryCall(m),
             ~ \E amount \in WithdrawalAmounts, asset \in Assets, private \in Privacies :
                  ProposeWithdrawalInAsset(m, amount, asset, private)
      PROVE  \A id \in TreasuryIds : WithdrawalStaysOpen(id)
  <2>1. ASSUME NEW i \in TreasuryIds, NEW support \in BOOLEAN,
               VoteOnTreasuryProposal(m, i, support) \/ RevealVote(m, i, support)
        PROVE  \A id \in TreasuryIds : WithdrawalStaysOpen(id)
    BY <1>4, <2>1 DEF VoteOnTreasuryProposal, RevealVote
  <2>2. ASSUME NEW i, NEW commitment, CommitVote(m, i, commitment)
        PROVE  \A id \in TreasuryIds : WithdrawalStaysOpen(id)
    BY <1>6, <2>2 DEF CommitVote
  <2>3. ASSUME NEW i \in TreasuryIds, CancelTreasuryProposal(m, i)
        PROVE  \A id \in TreasuryIds : WithdrawalStaysOpen(id)
    BY <1>5, <2>3 DEF CancelTreasuryProposal
  <2>. QED  BY <1>7, <2>1, <2>2, <2>3 DEF TreasuryCall
<1>8. ASSUME NEW i \in TreasuryIds, ExecuteTreasuryProposal(i) \/ ExpireTreasuryProposal(i)
      PROVE  \A id \in TreasuryIds : WithdrawalStaysOpen(id)
  BY <1>5, <1>8 DEF ExecuteTreasuryProposal, ExpireTreasuryProposal
<1>. QED  BY <1>3, <1>7, <1>8 DEF WithdrawalCall

(* What is open after a step was open before it, but for the id just used.   *)
LEMMA OpenSetsShrink ==
    ASSUME NEW m \in Accounts, NEW S, NEW T,
           \A id \in LoanIds \ S : LoanStaysOpen(id),
           \A id \in TreasuryIds \ T : WithdrawalStaysOpen(id)
    PROVE  /\ OpenLoanProposals(m)' \subseteq OpenLoanProposals(m) \cup S
           /\ OpenTreasuryProposals(m)' \subseteq OpenTreasuryProposals(m) \cup T
BY DEF OpenLoanProposals, OpenTreasuryProposals, LoanStaysOpen, WithdrawalStaysOpen

(* A set that grows by at most x has at most one more element.               *)
LEMMA GrowsByOne ==
    ASSUME NEW S, IsFiniteSet(S), NEW x, NEW T, T \subseteq S \cup {x}
    PROVE  /\ Cardinality(T) \in Nat /\ Cardinality(T) <= Cardinality(S) + 1
           /\ x \notin T => Cardinality(T) <= Cardinality(S)
<1>. DEFINE n == Cardinality(S)
<1>0. n \in Nat
  BY FS_CardinalityType
<1>1. IsFiniteSet(S \cup {x}) /\ Cardinality(S \cup {x}) <= n + 1
  <2>1. IsFiniteSet(S \cup {x}) /\ Cardinality(S \cup {x}) \in {n, n + 1}
    <3>. HIDE DEF n
    <3>1. Cardinality(S \cup {x}) = IF x \in S THEN n ELSE n + 1
      BY FS_AddElement DEF n
    <3>. QED  BY <3>1, FS_AddElement
  <2>. HIDE DEF n
  <2>. QED  BY <1>0, <2>1
<1>2. IsFiniteSet(T) /\ Cardinality(T) <= Cardinality(S \cup {x})
  BY <1>1, FS_Subset
<1>3. x \notin T => Cardinality(T) <= Cardinality(S)
  BY FS_Subset
<1>. QED  BY <1>1, <1>2, <1>3, FS_CardinalityType

(* Every step keeps the quota: a request passes it before it files, and      *)
(* nothing else, time included, reopens a proposal.                          *)
LEMMA QuotaStep ==
    ASSUME TypeOK, QuotaKept, [Next]_vars
    PROVE  QuotaKept'
<1>1. SUFFICES ASSUME NEW a \in Accounts PROVE OpenProposals(a)' <= MaxOpenProposals
  BY DEF QuotaKept
<1>. DEFINE L == OpenLoanProposals(a)
            W == OpenTreasuryProposals(a)
<1>2. IsFiniteSet(L) /\ IsFiniteSet(W) /\ Cardinality(L) \in Nat /\ Cardinality(W) \in Nat
  <2>1. L \in SUBSET LoanIds /\ W \in SUBSET TreasuryIds
    BY DEF OpenLoanProposals, OpenTreasuryProposals
  <2>2. IsFiniteSet(LoanIds) /\ IsFiniteSet(TreasuryIds)
    BY FS_Interval, BoundsAssumption DEF LoanIds, TreasuryIds
  <2>. HIDE DEF L, W
  <2>3. IsFiniteSet(L) /\ IsFiniteSet(W)
    BY <2>1, <2>2, FS_Subset
  <2>. QED  BY <2>3, FS_CardinalityType
<1>3. Cardinality(L) + Cardinality(W) <= MaxOpenProposals
  BY DEF QuotaKept, OpenProposals
<1>4. OpenProposals(a)' = Cardinality(L') + Cardinality(W')
  BY DEF OpenProposals
<1>5. ASSUME \A id \in LoanIds : LoanStaysOpen(id),
             \A id \in TreasuryIds : WithdrawalStaysOpen(id)
      PROVE  L' \subseteq L /\ W' \subseteq W
  BY <1>5 DEF OpenLoanProposals, OpenTreasuryProposals, LoanStaysOpen, WithdrawalStaysOpen
<1>6. \A id \in LoanIds : UNCHANGED <<now, loanProposals>> => LoanStaysOpen(id)
  BY DEF LoanStaysOpen
<1>7. \A id \in TreasuryIds : UNCHANGED <<now, treasuryProposals>> => WithdrawalStaysOpen(id)
  BY DEF WithdrawalStaysOpen
<1>8. ASSUME L' \subseteq L, W' \subseteq W
      PROVE  OpenProposals(a)' <= MaxOpenProposals
  <2>. HIDE DEF L, W
  <2>1. /\ Cardinality(L') \in Nat /\ Cardinality(L') <= Cardinality(L)
        /\ Cardinality(W') \in Nat /\ Cardinality(W') <= Cardinality(W)
    BY <1>2, <1>8, FS_Subset, FS_CardinalityType
  <2>. QED  BY <1>2, <1>3, <1>4, <2>1, BoundsAssumption
<1>9. ASSUME NEW id, L' \subseteq L \cup {id}, id \in L' => BelowQuota(a), W' \subseteq W
      PROVE  OpenProposals(a)' <= MaxOpenProposals
  <2>1. id \in L' => Cardinality(L) + Cardinality(W) < MaxOpenProposals
    BY <1>9 DEF BelowQuota, OpenProposals
  <2>. HIDE DEF L, W
  <2>2. Cardinality(W') \in Nat /\ Cardinality(W') <= Cardinality(W)
    BY <1>2, <1>9, FS_Subset, FS_CardinalityType
  <2>3. /\ Cardinality(L') \in Nat /\ Cardinality(L') <= Cardinality(L) + 1
        /\ id \notin L' => Cardinality(L') <= Cardinality(L)
    BY <1>2, <1>9, GrowsByOne
  <2>. QED  BY <1>2, <1>3, <1>4, <2>1, <2>2, <2>3, BoundsAssumption
<1>10. ASSUME NEW id, W' \subseteq W \cup {id}, id \in W' => BelowQuota(a), L' \subseteq L
       PROVE  OpenProposals(a)' <= MaxOpenProposals
  <2>1. id \in W' => Cardinality(L) + Cardinality(W) < MaxOpenProposals
    BY <1>10 DEF BelowQuota, OpenProposals
  <2>. HIDE DEF L, W
  <2>2. Cardinality(L') \in Nat /\ Cardinality(L') <= Cardinality(L)
    BY <1>2, <1>10, FS_Subset, FS_CardinalityType
  <2>3. /\ Cardinality(W') \in Nat /\ Cardinality(W') <= Cardinality(W) + 1
        /\ id \notin W' => Cardinality(W') <= Cardinality(W)
    BY <1>2, <1>10, GrowsByOne
  <2>. QED  BY <1>2, <1>3, <1>4, <2>1, <2>2, <2>3, BoundsAssumption
<1>11. CASE Aside
  BY <1>5, <1>8, <1>11, TimeCloses
<1>12. CASE LoanBallotCall
  <2>1. UNCHANGED <<now, treasuryProposals>>
    BY <1>12, LoanBallotFrame DEF treasuryVars
  <2>2. \A id \in TreasuryIds : WithdrawalStaysOpen(id)
    BY <1>7, <2>1
  <2>3. ASSUME NEW m \in Accounts, BelowQuota(m),
               \A id \in LoanIds \ {nextProposalId} : LoanStaysOpen(id),
               nextProposalId \in LoanIds => loanProposals'[nextProposalId].borrower = m
        PROVE  OpenProposals(a)' <= MaxOpenProposals
    <3>1. L' \subseteq L \cup {nextProposalId} /\ W' \subseteq W
      BY <2>2, <2>3, OpenSetsShrink
    <3>2. nextProposalId \in L' => a = m
      BY <2>3 DEF OpenLoanProposals
    <3>. QED  BY <1>9, <2>3, <3>1, <3>2
  <2>4. CASE \A id \in LoanIds : LoanStaysOpen(id)
    <3>1. L' \subseteq L /\ W' \subseteq W
      BY <1>5, <2>2, <2>4
    <3>. QED  BY <1>8, <3>1
  <2>. QED  BY <1>12, <2>3, <2>4, LoansStayOpen
<1>13. CASE WithdrawalCall
  <2>1. UNCHANGED <<now, loanProposals>>
    BY <1>13, WithdrawalFrame DEF loanVars
  <2>2. \A id \in LoanIds : LoanStaysOpen(id)
    BY <1>6, <2>1
  <2>3. ASSUME NEW m \in Accounts, BelowQuota(m),
               \A id \in TreasuryIds \ {nextTreasuryId} : WithdrawalStaysOpen(id),
               nextTreasuryId \in TreasuryIds =>
                  treasuryProposals'[nextTreasuryId].proposer = m
        PROVE  OpenProposals(a)' <= MaxOpenProposals
    <3>1. W' \subseteq W \cup {nextTreasuryId} /\ L' \subseteq L
      BY <2>2, <2>3, OpenSetsShrink
    <3>2. nextTreasuryId \in W' => a = m
      BY <2>3 DEF OpenTreasuryProposals
    <3>. QED  BY <1>10, <2>3, <3>1, <3>2
  <2>4. CASE \A id \in TreasuryIds : WithdrawalStaysOpen(id)
    <3>1. L' \subseteq L /\ W' \subseteq W
      BY <1>5, <2>2, <2>4
    <3>. QED  BY <1>8, <3>1
  <2>. QED  BY <1>13, <2>3, <2>4, WithdrawalsStayOpen
<1>. QED  BY <1>11, <1>12, <1>13, StepKinds

(* No member ever has more open proposals, loans and withdrawals together,   *)
(* than the quota, whatever expires, is edited or decided in between         *)
(* (get_open_proposals as request_loan_in_asset and propose_withdrawal ask). *)
THEOREM QuotaIsKept == Spec => []QuotaKept
<1>1. Init => QuotaKept
  <2>. SUFFICES ASSUME Init, NEW a \in Accounts PROVE OpenProposals(a) <= MaxOpenProposals
    BY DEF QuotaKept
  <2>1. OpenLoanProposals(a) = {} /\ OpenTreasuryProposals(a) = {}
    BY DEF Init, OpenLoanProposals, OpenTreasuryProposals, NoLoanProposal, NoTreasuryProposal
  <2>. QED  BY <2>1, FS_EmptySet, BoundsAssumption DEF OpenProposals
<1>2. TypeOK /\ QuotaKept /\ [Next]_vars => QuotaKept'
  BY QuotaStep
<1>. QED  BY <1>1, <1>2, TypeCorrect, PTL DEF Spec

-----------------------------------------------------------------------------
(* Sums over a set. A fold is a recursive function, so its equation has to   *)
(* be justified before it can be used; induction is by a smallest            *)
(* counterexample.                                                           *)

(* Among any subsets of a finite set there is a smallest: induction over     *)
(* finite sets, by a smallest counterexample.                                *)
LEMMA SmallestSubset ==
    ASSUME NEW S, IsFiniteSet(S), NEW Bad, Bad \subseteq SUBSET S, Bad # {}
    PROVE  \E T \in Bad : \A U \in Bad : U \subseteq T => U = T
<1>1. IsWellFoundedOn(StrictSubsetOrdering(S), SUBSET S)
  BY FS_StrictSubsetOrderingWellFounded, FS_FiniteSubsetsOfFinite
<1>2. PICK T \in Bad : \A U \in Bad : ~ (<<U, T>> \in StrictSubsetOrdering(S))
  BY <1>1, WFMin
<1>3. ASSUME NEW U \in Bad, U \subseteq T, U # T PROVE <<U, T>> \in StrictSubsetOrdering(S)
  <2>1. U \in SUBSET S /\ T \in SUBSET S
    OBVIOUS
  <2>. QED BY <1>3, <2>1 DEF StrictSubsetOrdering
<1>4. ASSUME NEW U \in Bad, U \subseteq T PROVE U = T
  BY <1>2, <1>3, <1>4
<1>. QED BY <1>4

(* What the recursive function inside a sum has to satisfy.                  *)
Unrolled(g, f, S) ==
    g = [s \in SUBSET S |-> IF s = {} THEN 0
                            ELSE LET x == CHOOSE x \in s : TRUE IN f[x] + g[s \ {x}]]

(* The sum is the value of such a function, if there is one.                 *)
LEMMA SumUnrolled ==
    ASSUME NEW f, NEW S, \E g : Unrolled(g, f, S)
    PROVE  \E g : Unrolled(g, f, S) /\ SumFunctionOnSet(f, S) = g[S]
<1>. DEFINE g == CHOOSE g : Unrolled(g, f, S)
<1>1. Unrolled(g, f, S)
  OBVIOUS
<1>2. SumFunctionOnSet(f, S) = g[S]
  BY DEF SumFunctionOnSet, FoldFunctionOnSet, MapThenFoldSet, Unrolled
<1>. QED BY <1>1, <1>2

(* The element the fold takes first.                                         *)
First(s) == CHOOSE x \in s : TRUE

(* Such a function at one set.                                               *)
LEMMA UnrolledAt ==
    ASSUME NEW f, NEW S, NEW g, Unrolled(g, f, S), NEW s \in SUBSET S
    PROVE  g[s] = IF s = {} THEN 0 ELSE f[First(s)] + g[s \ {First(s)}]
  BY DEF Unrolled, First

(* Two such functions agree on the sets they share.                          *)
LEMMA UnrolledAlike ==
    ASSUME NEW f, NEW S, IsFiniteSet(S), NEW T \in SUBSET S,
           NEW g, Unrolled(g, f, S), NEW h, Unrolled(h, f, T)
    PROVE  \A s \in SUBSET T : g[s] = h[s]
<1>. DEFINE Bad == {s \in SUBSET T : g[s] # h[s]}
<1>. SUFFICES ASSUME Bad # {} PROVE FALSE
  OBVIOUS
<1>1. PICK s \in Bad : \A u \in Bad : u \subseteq s => u = s
  <2>1. Bad \subseteq SUBSET S
    OBVIOUS
  <2>. HIDE DEF Bad
  <2>. QED  BY <2>1, SmallestSubset
<1>2. CASE s = {}
  BY <1>2, UnrolledAt
<1>3. CASE s # {}
  <2>1. First(s) \in s
    BY <1>3 DEF First
  <2>2. s \ {First(s)} \notin Bad
    BY <1>1, <2>1
  <2>3. g[s \ {First(s)}] = h[s \ {First(s)}]
    BY <2>2
  <2>. QED  BY <1>3, <2>3, UnrolledAt
<1>. QED  BY <1>2, <1>3

(* There is one, for every finite set.                                       *)
LEMMA UnrolledExists ==
    ASSUME NEW f, NEW S, IsFiniteSet(S)
    PROVE  \E g : Unrolled(g, f, S)
<1>. DEFINE Bad == {T \in SUBSET S : ~ \E g : Unrolled(g, f, T)}
<1>. SUFFICES ASSUME Bad # {} PROVE FALSE
  OBVIOUS
<1>1. PICK T \in Bad : \A U \in Bad : U \subseteq T => U = T
  <2>1. Bad \subseteq SUBSET S
    OBVIOUS
  <2>. HIDE DEF Bad
  <2>. QED  BY <2>1, SmallestSubset
<1>. DEFINE of(U) == CHOOSE g : Unrolled(g, f, U)
<1>2. ASSUME NEW U \in SUBSET T, U # T PROVE Unrolled(of(U), f, U) /\ IsFiniteSet(U)
  <2>1. U \notin Bad /\ U \in SUBSET S
    BY <1>1, <1>2
  <2>. QED BY <2>1, FS_Subset
<1>. HIDE DEF of
<1>3. ASSUME NEW s \in SUBSET T, s # {} PROVE First(s) \in s
  BY <1>3 DEF First
<1>. DEFINE g == [s \in SUBSET T |-> IF s = {} THEN 0
                                     ELSE f[First(s)] + of(s \ {First(s)})[s \ {First(s)}]]
<1>4. ASSUME NEW r \in SUBSET T, r # T
      PROVE  g[r] = of(r)[r]
  <2>1. CASE r = {}
    <3>1. Unrolled(of(r), f, r) /\ r \in SUBSET r
      BY <1>2, <1>4
    <3>2. of(r)[r] = 0
      BY <2>1, <3>1, UnrolledAt
    <3>. QED  BY <2>1, <3>2
  <2>2. CASE r # {}
    <3>. DEFINE q == r \ {First(r)}
    <3>1. q \in SUBSET r /\ q \in SUBSET q /\ q # T /\ q \in SUBSET T /\ r \in SUBSET r
      BY <1>3, <1>4, <2>2
    <3>2. Unrolled(of(r), f, r) /\ IsFiniteSet(r) /\ Unrolled(of(q), f, q)
      BY <1>2, <1>4, <3>1
    <3>3. of(r)[r] = f[First(r)] + of(r)[q]
      BY <2>2, <3>1, <3>2, UnrolledAt
    <3>4. g[r] = f[First(r)] + of(q)[q]
      BY <2>2
    <3>. HIDE DEF q, g
    <3>5. of(r)[q] = of(q)[q]
      BY <3>1, <3>2, UnrolledAlike
    <3>. QED BY <3>3, <3>4, <3>5
  <2>. QED BY <2>1, <2>2
<1>5. ASSUME NEW s \in SUBSET T, s # {} 
      PROVE g[s] = f[First(s)] + g[s \ {First(s)}]
  <2>. DEFINE r == s \ {First(s)}
  <2>1. r \in SUBSET T /\ r # T
    BY <1>3, <1>5
  <2>2. g[r] = of(r)[r]
    BY <1>4, <2>1
  <2>. QED BY <1>5, <2>2
<1>6. g = [s \in SUBSET T |-> IF s = {} THEN 0 ELSE f[First(s)] + g[s \ {First(s)}]]
  <2>1. \A s \in SUBSET T : g[s] = IF s = {} THEN 0 ELSE f[First(s)] + g[s \ {First(s)}]
    BY <1>5
  <2>2. g = [s \in SUBSET T |-> g[s]]
    OBVIOUS
  <2>. HIDE DEF g
  <2>. QED BY <2>1, <2>2
<1>. HIDE DEF g
<1>7. Unrolled(g, f, T)
  BY <1>6 DEF Unrolled, First
<1>. QED BY <1>7

(* Nothing adds up to 0.                                                     *)
LEMMA SumOfNone ==
    ASSUME NEW f
    PROVE  SumFunctionOnSet(f, {}) = 0
<1>1. PICK g : Unrolled(g, f, {}) /\ SumFunctionOnSet(f, {}) = g[{}]
  BY FS_EmptySet, UnrolledExists, SumUnrolled
<1>. QED  BY <1>1, UnrolledAt

(* A sum is its first element's value and the sum of the others.             *)
LEMMA SumOfFirst ==
    ASSUME NEW f, NEW S, IsFiniteSet(S), S # {}
    PROVE  /\ First(S) \in S
           /\ SumFunctionOnSet(f, S) = f[First(S)] + SumFunctionOnSet(f, S \ {First(S)})
<1>. DEFINE R == S \ {First(S)}
<1>1. PICK g : Unrolled(g, f, S) /\ SumFunctionOnSet(f, S) = g[S]
  BY UnrolledExists, SumUnrolled
<1>2. R \in SUBSET S /\ IsFiniteSet(R) /\ S \in SUBSET S /\ R \in SUBSET R
  BY FS_Subset
<1>. HIDE DEF R
<1>3. PICK h : Unrolled(h, f, R) /\ SumFunctionOnSet(f, R) = h[R]
  BY <1>2, UnrolledExists, SumUnrolled
<1>4. g[R] = h[R]
  BY <1>1, <1>2, <1>3, UnrolledAlike
<1>5. g[S] = f[First(S)] + g[R]
  BY <1>1, <1>2, UnrolledAt DEF R
<1>6. First(S) \in S
  BY DEF First
<1>. QED  BY <1>1, <1>3, <1>4, <1>5, <1>6 DEF R

(* Integers add up to an integer.                                            *)
LEMMA SumIsInt ==
    ASSUME NEW S, IsFiniteSet(S), NEW f, \A x \in S : f[x] \in Int
    PROVE  SumFunctionOnSet(f, S) \in Int
<1>. DEFINE Bad == {T \in SUBSET S : SumFunctionOnSet(f, T) \notin Int}
<1>. SUFFICES ASSUME Bad # {} PROVE FALSE
  OBVIOUS
<1>1. PICK T \in Bad : \A U \in Bad : U \subseteq T => U = T
  <2>1. Bad \subseteq SUBSET S
    OBVIOUS
  <2>. HIDE DEF Bad
  <2>. QED  BY <2>1, SmallestSubset
<1>2. T # {}
  BY SumOfNone
<1>3. IsFiniteSet(T)
  BY FS_Subset
<1>4. /\ First(T) \in T
      /\ SumFunctionOnSet(f, T) = f[First(T)] + SumFunctionOnSet(f, T \ {First(T)})
  BY <1>2, <1>3, SumOfFirst
<1>5. SumFunctionOnSet(f, T \ {First(T)}) \in Int
  BY <1>1, <1>4
<1>6. f[First(T)] \in Int
  BY <1>4
<1>. QED  BY <1>4, <1>5, <1>6

(* Any element may be taken out first: the order of a sum does not matter.   *)
LEMMA SumOfOne ==
    ASSUME NEW S, IsFiniteSet(S), NEW f, \A x \in S : f[x] \in Int, NEW y \in S
    PROVE  SumFunctionOnSet(f, S) = f[y] + SumFunctionOnSet(f, S \ {y})
<1>. DEFINE Bad == {T \in SUBSET S : \E x \in T : SumFunctionOnSet(f, T) # f[x] + SumFunctionOnSet(f, T \ {x})}
<1>. SUFFICES ASSUME Bad # {} PROVE FALSE
  OBVIOUS
<1>1. PICK T \in Bad : \A U \in Bad : U \subseteq T => U = T
  <2>1. Bad \subseteq SUBSET S
    OBVIOUS
  <2>. HIDE DEF Bad
  <2>. QED  BY <2>1, SmallestSubset
<1>2. PICK x \in T : SumFunctionOnSet(f, T) # f[x] + SumFunctionOnSet(f, T \ {x})
  OBVIOUS
<1>. DEFINE a == First(T)
<1>3. /\ T # {} /\ IsFiniteSet(T) /\ IsFiniteSet(T \ {x}) /\ IsFiniteSet(T \ {a})
      /\ IsFiniteSet((T \ {a}) \ {x})
  BY FS_Subset
<1>4. a \in T /\ SumFunctionOnSet(f, T) = f[a] + SumFunctionOnSet(f, T \ {a})
  BY <1>3, SumOfFirst
<1>. HIDE DEF a
<1>5. x # a
  BY <1>2, <1>4
<1>6. T \ {a} \notin Bad /\ T \ {x} \notin Bad
  BY <1>1, <1>4
<1>7. SumFunctionOnSet(f, T \ {a}) = f[x] + SumFunctionOnSet(f, (T \ {a}) \ {x})
  BY <1>4, <1>5, <1>6
<1>8. SumFunctionOnSet(f, T \ {x}) = f[a] + SumFunctionOnSet(f, (T \ {x}) \ {a})
  BY <1>4, <1>5, <1>6
<1>9. (T \ {x}) \ {a} = (T \ {a}) \ {x}
  OBVIOUS
<1>10. f[a] \in Int /\ f[x] \in Int /\ SumFunctionOnSet(f, (T \ {a}) \ {x}) \in Int
  <2>1. \A z \in (T \ {a}) \ {x} : f[z] \in Int
    OBVIOUS
  <2>. QED BY <1>3, <1>4, <2>1, SumIsInt
<1>. DEFINE rest == SumFunctionOnSet(f, (T \ {a}) \ {x})
<1>11. SumFunctionOnSet(f, T) = f[a] + (f[x] + rest)
  BY <1>4, <1>7
<1>12. f[x] + SumFunctionOnSet(f, T \ {x}) = f[x] + (f[a] + rest)
  BY <1>8, <1>9
<1>13. f[a] \in Int /\ f[x] \in Int /\ rest \in Int
  BY <1>10
<1>. HIDE DEF rest
<1>14. f[a] + (f[x] + rest) = f[x] + (f[a] + rest)
  BY <1>13
<1>. QED  BY <1>2, <1>11, <1>12, <1>14

(* Equal values have equal sums.                                             *)
LEMMA SumOfSame ==
    ASSUME NEW S, IsFiniteSet(S), NEW f, NEW g, \A x \in S : f[x] = g[x]
    PROVE  SumFunctionOnSet(f, S) = SumFunctionOnSet(g, S)
<1>. DEFINE Bad == {T \in SUBSET S : SumFunctionOnSet(f, T) # SumFunctionOnSet(g, T)}
<1>. SUFFICES ASSUME Bad # {} PROVE FALSE
  OBVIOUS
<1>1. PICK T \in Bad : \A U \in Bad : U \subseteq T => U = T
  <2>1. Bad \subseteq SUBSET S
    OBVIOUS
  <2>. HIDE DEF Bad
  <2>. QED  BY <2>1, SmallestSubset
<1>2. T # {}
  BY SumOfNone
<1>3. IsFiniteSet(T)
  BY FS_Subset
<1>4. First(T) \in T
  BY <1>2, <1>3, SumOfFirst
<1>5. SumFunctionOnSet(f, T \ {First(T)}) = SumFunctionOnSet(g, T \ {First(T)})
  BY <1>1, <1>4
<1>. QED  BY <1>2, <1>3, <1>4, <1>5, SumOfFirst

(* Any element may be taken out, and what is left is again a sum.            *)
LEMMA SumOfRest ==
    ASSUME NEW S, IsFiniteSet(S), NEW f, \A x \in S : f[x] \in Int, NEW y \in S
    PROVE  /\ IsFiniteSet(S \ {y})
           /\ SumFunctionOnSet(f, S \ {y}) \in Int
           /\ SumFunctionOnSet(f, S) = f[y] + SumFunctionOnSet(f, S \ {y})
<1>1. IsFiniteSet(S \ {y})
  BY FS_Subset
<1>2. \A x \in S \ {y} : f[x] \in Int
  OBVIOUS
<1>3. SumFunctionOnSet(f, S \ {y}) \in Int
  BY <1>1, <1>2, SumIsInt
<1>. QED  BY <1>1, <1>3, SumOfOne

(* A sum moves by as much as the one value that changes.                     *)
LEMMA SumOfChanged ==
    ASSUME NEW S, IsFiniteSet(S), NEW f, NEW g, NEW y \in S,
           \A x \in S : f[x] \in Int /\ g[x] \in Int,
           \A x \in S \ {y} : f[x] = g[x]
    PROVE  SumFunctionOnSet(g, S) = SumFunctionOnSet(f, S) - f[y] + g[y]
<1>. DEFINE F == SumFunctionOnSet(f, S \ {y})
            G == SumFunctionOnSet(g, S \ {y})
<1>1. IsFiniteSet(S \ {y}) /\ F \in Int /\ SumFunctionOnSet(f, S) = f[y] + F
  BY SumOfRest
<1>2. SumFunctionOnSet(g, S) = g[y] + G
  BY SumOfRest
<1>3. F = G
  BY <1>1, SumOfSame
<1>4. f[y] \in Int /\ g[y] \in Int
  OBVIOUS
<1>. HIDE DEF F, G
<1>. QED  BY <1>1, <1>2, <1>3, <1>4

(* Zeros add up to 0.                                                        *)
LEMMA SumOfZeros ==
    ASSUME NEW S, IsFiniteSet(S), NEW f, \A x \in S : f[x] = 0
    PROVE  SumFunctionOnSet(f, S) = 0
<1>. DEFINE Bad == {T \in SUBSET S : SumFunctionOnSet(f, T) # 0}
<1>. SUFFICES ASSUME Bad # {} PROVE FALSE
  OBVIOUS
<1>1. PICK T \in Bad : \A U \in Bad : U \subseteq T => U = T
  <2>1. Bad \subseteq SUBSET S
    OBVIOUS
  <2>. HIDE DEF Bad
  <2>. QED  BY <2>1, SmallestSubset
<1>2. T # {} /\ IsFiniteSet(T)
  BY SumOfNone, FS_Subset
<1>3. /\ First(T) \in T
      /\ SumFunctionOnSet(f, T) = f[First(T)] + SumFunctionOnSet(f, T \ {First(T)})
  BY <1>2, SumOfFirst
<1>4. SumFunctionOnSet(f, T \ {First(T)}) = 0 /\ f[First(T)] = 0
  BY <1>1, <1>3
<1>. QED  BY <1>3, <1>4

(* A sum over a part is the sum over the whole with zeros elsewhere.         *)
LEMMA SumOverAll ==
    ASSUME NEW S, IsFiniteSet(S), NEW T, T \subseteq S, NEW f, \A x \in T : f[x] \in Int,
           NEW g, \A x \in S : g[x] = IF x \in T THEN f[x] ELSE 0
    PROVE  SumFunctionOnSet(f, T) = SumFunctionOnSet(g, S)
<1>. DEFINE Bad == {U \in SUBSET S : SumFunctionOnSet(f, U \cap T) # SumFunctionOnSet(g, U)}
<1>1. CASE Bad = {}
  <2>1. S \notin Bad /\ S \cap T = T
    BY <1>1
  <2>. QED  BY <2>1
<1>2. CASE Bad # {}
  <2>1. PICK U \in Bad : \A V \in Bad : V \subseteq U => V = U
    <3>1. Bad \subseteq SUBSET S
      OBVIOUS
    <3>. HIDE DEF Bad
    <3>. QED  BY <1>2, <3>1, SmallestSubset
  <2>2. U # {}
    <3>1. {} \cap T = {}
      OBVIOUS
    <3>. QED  BY <3>1, SumOfNone
  <2>3. IsFiniteSet(U) /\ IsFiniteSet(U \cap T)
    BY FS_Subset
  <2>. DEFINE a == First(U)
              R == U \ {a}
  <2>4. a \in U /\ SumFunctionOnSet(g, U) = g[a] + SumFunctionOnSet(g, R)
    BY <2>2, <2>3, SumOfFirst
  <2>5. SumFunctionOnSet(f, R \cap T) = SumFunctionOnSet(g, R)
    BY <2>1, <2>4
  <2>6. \A x \in R \cap T : f[x] \in Int
    OBVIOUS
  <2>7. IsFiniteSet(R \cap T)
    BY <2>3, FS_Subset
  <2>. HIDE DEF a
  <2>8. SumFunctionOnSet(f, R \cap T) \in Int
    BY <2>6, <2>7, SumIsInt
  <2>9. CASE a \in T
    <3>1. (U \cap T) \ {a} = R \cap T /\ a \in U \cap T /\ g[a] = f[a]
      BY <2>4, <2>9
    <3>2. \A x \in U \cap T : f[x] \in Int
      OBVIOUS
    <3>3. SumFunctionOnSet(f, U \cap T) = f[a] + SumFunctionOnSet(f, (U \cap T) \ {a})
      BY <2>3, <3>1, <3>2, SumOfOne
    <3>. QED  BY <2>1, <2>4, <2>5, <3>1, <3>3
  <2>10. CASE a \notin T
    <3>1. U \cap T = R \cap T /\ g[a] = 0
      BY <2>4, <2>10
    <3>. QED  BY <2>1, <2>4, <2>5, <2>8, <3>1
  <2>. QED  BY <2>9, <2>10
<1>. QED  BY <1>1, <1>2

(* Values that are no greater have a sum that is no greater.                 *)
LEMMA SumAtMost ==
    ASSUME NEW S, IsFiniteSet(S), NEW f, NEW g,
           \A x \in S : f[x] \in Int /\ g[x] \in Int /\ f[x] <= g[x]
    PROVE  SumFunctionOnSet(f, S) <= SumFunctionOnSet(g, S)
<1>. DEFINE Bad == {T \in SUBSET S : ~ (SumFunctionOnSet(f, T) <= SumFunctionOnSet(g, T))}
<1>. SUFFICES ASSUME Bad # {} PROVE FALSE
  OBVIOUS
<1>1. PICK T \in Bad : \A U \in Bad : U \subseteq T => U = T
  <2>1. Bad \subseteq SUBSET S
    OBVIOUS
  <2>. HIDE DEF Bad
  <2>. QED  BY <2>1, SmallestSubset
<1>2. T # {} /\ IsFiniteSet(T)
  <2>1. SumFunctionOnSet(f, {}) <= SumFunctionOnSet(g, {})
    BY SumOfNone
  <2>2. T # {}
    BY <2>1, Zenon
  <2>. QED  BY <2>2, FS_Subset
<1>. DEFINE a == First(T)
            R == T \ {a}
<1>3. /\ a \in T
      /\ SumFunctionOnSet(f, T) = f[a] + SumFunctionOnSet(f, R)
      /\ SumFunctionOnSet(g, T) = g[a] + SumFunctionOnSet(g, R)
  BY <1>2, SumOfFirst
<1>4. SumFunctionOnSet(f, R) <= SumFunctionOnSet(g, R)
  BY <1>1, <1>3
<1>5. IsFiniteSet(R) /\ R \subseteq S
  BY <1>2, FS_Subset
<1>. HIDE DEF R, a
<1>6. SumFunctionOnSet(f, R) \in Int /\ SumFunctionOnSet(g, R) \in Int
  BY <1>5, SumIsInt
<1>7. f[a] \in Int /\ g[a] \in Int /\ f[a] <= g[a]
  BY <1>3
<1>8. ~ (SumFunctionOnSet(f, T) <= SumFunctionOnSet(g, T))
  OBVIOUS
<1>. HIDE DEF Bad
<1>. QED  BY <1>3, <1>4, <1>6, <1>7, <1>8

(* Adding the same to each value adds it as often as there are values.       *)
LEMMA SumShifted ==
    ASSUME NEW S, IsFiniteSet(S), NEW f, NEW g, NEW c \in Int,
           \A x \in S : f[x] \in Int /\ g[x] = f[x] + c
    PROVE  SumFunctionOnSet(g, S) = SumFunctionOnSet(f, S) + Cardinality(S) * c
<1>. DEFINE Bad == {T \in SUBSET S :
              SumFunctionOnSet(g, T) # SumFunctionOnSet(f, T) + Cardinality(T) * c}
<1>. SUFFICES ASSUME Bad # {} PROVE FALSE
  OBVIOUS
<1>1. PICK T \in Bad : \A U \in Bad : U \subseteq T => U = T
  <2>1. Bad \subseteq SUBSET S
    OBVIOUS
  <2>. HIDE DEF Bad
  <2>. QED  BY <2>1, SmallestSubset
<1>2. IsFiniteSet(T)
  BY FS_Subset
<1>3. T # {}
  <2>1. SumFunctionOnSet(g, {}) = SumFunctionOnSet(f, {}) + Cardinality({}) * c
    BY FS_EmptySet, SumOfNone
  <2>. QED  BY <2>1, Zenon
<1>. DEFINE a == First(T)
            R == T \ {a}
<1>4. /\ a \in T
      /\ SumFunctionOnSet(f, T) = f[a] + SumFunctionOnSet(f, R)
      /\ SumFunctionOnSet(g, T) = g[a] + SumFunctionOnSet(g, R)
  BY <1>2, <1>3, SumOfFirst
<1>5. SumFunctionOnSet(g, R) = SumFunctionOnSet(f, R) + Cardinality(R) * c
  BY <1>1, <1>4
<1>6. IsFiniteSet(R) /\ R \subseteq S /\ Cardinality(R) \in Nat /\ Cardinality(T) = Cardinality(R) + 1
  <2>1. IsFiniteSet(R) /\ R \subseteq S
    BY <1>2, FS_Subset
  <2>2. Cardinality(R) \in Nat /\ Cardinality(T) \in Nat
    BY <1>2, <2>1, FS_CardinalityType
  <2>3. Cardinality(R) = Cardinality(T) - 1
    <3>. HIDE DEF a, Bad
    <3>. QED  BY <1>2, <1>4, FS_RemoveElement
  <2>. QED  BY <2>1, <2>2, <2>3
<1>. HIDE DEF R, a
<1>7. SumFunctionOnSet(f, R) \in Int
  BY <1>6, SumIsInt
<1>8. f[a] \in Int /\ g[a] = f[a] + c
  BY <1>4
<1>9. Cardinality(T) * c = Cardinality(R) * c + c
  BY <1>6
<1>10. Cardinality(R) * c \in Int
  BY <1>6
<1>. QED  BY <1>1, <1>4, <1>5, <1>7, <1>8, <1>9, <1>10

-----------------------------------------------------------------------------
(* The total of the stakes.                                                  *)

(* A call that sets one stake and moves the total by the difference keeps    *)
(* the sum.                                                                  *)
SetsStake(m, amount) ==
    /\ stakes' = [stakes EXCEPT ![m] = amount]
    /\ totalStaked' = totalStaked - stakes[m] + amount

(* A call that sets one stake and moves the total with it keeps the sum.     *)
LEMMA OneStakeMoved ==
    ASSUME TypeOK, StakesAddUp, NEW m \in Accounts, NEW amount \in Int,
           SetsStake(m, amount)
    PROVE  StakesAddUp'
<1>1. IsFiniteSet(Accounts) /\ stakes \in [Accounts -> Nat]
  BY AccountsAssumption DEF TypeOK, StakeTypes
<1>2. \A x \in Accounts : stakes[x] \in Int /\ stakes'[x] \in Int
  BY <1>1 DEF SetsStake
<1>3. \A x \in Accounts \ {m} : stakes[x] = stakes'[x]
  BY <1>1 DEF SetsStake
<1>4. stakes'[m] = amount
  BY <1>1 DEF SetsStake
<1>5. SumFunctionOnSet(stakes', Accounts)
        = SumFunctionOnSet(stakes, Accounts) - stakes[m] + stakes'[m]
  BY <1>1, <1>2, <1>3, SumOfChanged
<1>. QED  BY <1>4, <1>5 DEF StakesAddUp, SetsStake

(* seed_stakes takes the stake it replaces off again.                        *)
LEMMA SeedStakeSummed ==
    ASSUME TypeOK, StakesAddUp, NEW caller, NEW a \in Accounts, NEW amount \in Nat,
           SeedStake(caller, a, amount)
    PROVE  StakesAddUp'
<1>1. SetsStake(a, amount)
  BY DEF SeedStake, TotalAfterSeeding, SetsStake
<1>. QED  BY <1>1, OneStakeMoved

(* Whatever call it is.                                                      *)
LEMMA StakesStep ==
    ASSUME TypeOK, StakesAddUp, [Next]_vars
    PROVE  StakesAddUp'
<1>1. stakes \in [Accounts -> Nat] /\ totalStaked \in Int
  BY DEF TypeOK, StakeTypes
<1>2. UNCHANGED <<stakes, totalStaked>> => StakesAddUp'
  BY DEF StakesAddUp
<1>3. ASSUME NEW m \in Accounts, ExitDao(m) PROVE StakesAddUp'
  <2>1. CASE stakes[m] > 0
    <3>1. SetsStake(m, 0)
      BY <1>1, <1>3, <2>1 DEF ExitDao, SetsStake
    <3>. QED  BY <3>1, OneStakeMoved
  <2>2. CASE ~ stakes[m] > 0
    BY <1>2, <1>3, <2>2 DEF ExitDao
  <2>. QED  BY <2>1, <2>2
<1>4. ASSUME NEW m \in Accounts, NEW amount \in StakeAmounts, Stake(m, amount)
      PROVE  StakesAddUp'
  <2>1. stakes[m] + amount \in Int /\ SetsStake(m, stakes[m] + amount)
    BY <1>1, <1>4, InputsAssumption DEF Stake, SetsStake
  <2>. QED  BY <2>1, OneStakeMoved
<1>5. ASSUME NEW m \in Accounts, NEW amount \in StakeAmounts, Unstake(m, amount)
      PROVE  StakesAddUp'
  <2>1. stakes[m] - amount \in Int /\ SetsStake(m, stakes[m] - amount)
    BY <1>1, <1>5, InputsAssumption DEF Unstake, TotalAfterUnstake, SetsStake
  <2>. QED  BY <2>1, OneStakeMoved
<1>6. CASE \E caller \in Migrators : MigrationCall(caller)
  <2>1. CASE \E caller \in Migrators, a \in Accounts, amount \in LegacyStakes :
                SeedStake(caller, a, amount)
    BY <2>1, SeedStakeSummed, InputsAssumption
  <2>2. CASE UNCHANGED stakeVars
    BY <1>2, <2>2 DEF stakeVars
  <2>. QED
    BY <1>6, <2>1, <2>2 DEF MigrationCall, SeedMember, SeedPendingYield, SeedName,
       SeedLoan, SeedDocument, LockSeeding
<1>7. CASE [Operate]_vars
  BY <1>2, <1>3, <1>4, <1>5, <1>7, StakeSteps
<1>. QED  BY <1>6, <1>7 DEF Next, Migrate

(* Nobody has staked in a new contract.                                      *)
LEMMA FreshIsSummed == FreshDeployment => StakesAddUp
<1>. SUFFICES ASSUME FreshDeployment PROVE StakesAddUp
  OBVIOUS
<1>1. \A x \in Accounts : stakes[x] = 0
  BY DEF FreshDeployment
<1>2. SumFunctionOnSet(stakes, Accounts) = 0
  BY <1>1, AccountsAssumption, SumOfZeros
<1>. QED  BY <1>2 DEF StakesAddUp, FreshDeployment

(* So the sum holds from the start.                                          *)
LEMMA StakesInit == Init => StakesAddUp
  BY InitIsFresh, FreshIsSummed

(* TotalStaked is the sum of all stakes, through every order of stake,       *)
(* unstake, exit and seeding, entries seeded again included.                 *)
THEOREM StakesSummed == Spec => []StakesAddUp
<1>1. TypeOK /\ StakesAddUp /\ [Next]_vars => StakesAddUp'
  BY StakesStep
<1>. QED  BY <1>1, StakesInit, TypeCorrect, PTL DEF Spec
=============================================================================
