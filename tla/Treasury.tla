------------------------------ MODULE Treasury ------------------------------
(***************************************************************************)
(* treasury.rs and privacy.rs: paying money out of the treasury on a vote,  *)
(* taken in the open or, for a private proposal, by committing to a hidden  *)
(* ballot first and revealing it in a second period as long. The            *)
(* destination, an account outside the model, and the reason are left out.  *)
(***************************************************************************)
EXTENDS DaoState

(* propose_withdrawal_in_asset; propose_withdrawal is its call with the base *)
(* token. Bar and period are those of the policy of this moment.             *)
ProposeWithdrawalInAsset(proposer, amount, asset, private) ==
    /\ MemberCall(proposer)
    /\ amount > 0
    /\ BelowQuota(proposer)
    /\ IsTokenWhitelisted(asset)
    /\ amount <= TreasuryBalance(asset) - ReservedLoanCommitments(asset)
    /\ nextTreasuryId < MaxTreasuryProposals
    /\ treasuryProposals' = [treasuryProposals EXCEPT ![nextTreasuryId] =
         [proposer |-> proposer, asset |-> asset, amount |-> amount,
          created_at |-> now, status |-> "Pending",
          for_votes |-> 0, against_votes |-> 0, votes_cast |-> 0,
          voting_period |-> policy.voting_period,
          treasury_threshold |-> policy.treasury_threshold, private |-> private]]
    /\ nextTreasuryId' = nextTreasuryId + 1
    /\ UNCHANGED <<now, balance, adminVars, tokenVars, memberVars, delegation,
                   yieldVars, stakeVars, loanVars, treasuryVoted, commits,
                   registryVars, documents, seedingLocked>>

-----------------------------------------------------------------------------
(* tally: the ballot both ways of voting end in.                             *)

MayBeTallied(id, voter) ==
    /\ treasuryProposals[id].status = "Pending"
    /\ now <= TreasuryVotingEnd(treasuryProposals[id])
    /\ voter \notin treasuryVoted[id]

CountedTreasuryVote(p, voter, support) ==
    [p EXCEPT !.for_votes = @ + (IF support THEN VotingWeight(voter) ELSE 0),
              !.against_votes = @ + (IF support THEN 0 ELSE VotingWeight(voter)),
              !.votes_cast = @ + 1]

TreasuryVotesRequired(p) == RequiredVotes(activeMembers, p.treasury_threshold)

(* execute's only check. *)
Covered(p) == TreasuryBalance(p.asset) >= p.amount

(* The status a counted ballot leaves, the payment included: approved        *)
(* proposals are executed on the spot when the treasury covers them.         *)
StatusAfterVote(p) ==
    IF p.for_votes >= TreasuryVotesRequired(p)
    THEN IF Covered(p) THEN "Executed" ELSE "ApprovedPendingDisbursement"
    ELSE IF OutOfReach(p.for_votes, p.votes_cast, TreasuryVotesRequired(p))
    THEN "Rejected" ELSE "Pending"

\* Mutant: the voter is not recorded.
TallyUnrecorded(id, voter, support) ==
    LET p == CountedTreasuryVote(treasuryProposals[id], voter, support)
        status == StatusAfterVote(p)
    IN  /\ MayBeTallied(id, voter)
        /\ treasuryProposals' = [treasuryProposals EXCEPT ![id] = [p EXCEPT !.status = status]]
        /\ treasuryVoted' = treasuryVoted
        /\ balance' = IF status = "Executed"
                      THEN [balance EXCEPT ![p.asset] = @ - p.amount] ELSE balance

Tally(id, voter, support) ==
    LET p == CountedTreasuryVote(treasuryProposals[id], voter, support)
        status == StatusAfterVote(p)
    IN  /\ MayBeTallied(id, voter)
        /\ treasuryProposals' = [treasuryProposals EXCEPT ![id] = [p EXCEPT !.status = status]]
        /\ treasuryVoted' = [treasuryVoted EXCEPT ![id] = @ \cup {voter}]
        /\ balance' = IF status = "Executed"
                      THEN [balance EXCEPT ![p.asset] = @ - p.amount] ELSE balance

(* vote: private proposals take no open ballots. *)
VoteOnTreasuryProposal(voter, id, support) ==
    /\ MemberCall(voter)
    /\ ~treasuryProposals[id].private
    /\ Tally(id, voter, support)
    /\ UNCHANGED <<now, adminVars, tokenVars, memberVars, delegation, yieldVars,
                   stakeVars, loanVars, nextTreasuryId, commits, registryVars,
                   documents, seedingLocked>>

-----------------------------------------------------------------------------
(* privacy.rs                                                                *)

CommitEnd(p) == p.created_at + p.voting_period

(* compute_commitment: the hash of voter, proposal, choice and salt, which   *)
(* two different preimages do not share.                                     *)
Commitment(voter, id, support) == [voter |-> voter, id |-> id, support |-> support]

\* Mutant: a new commitment replaces the old one.
MayRecommit(voter, id) ==
    /\ treasuryProposals[id].private
    /\ treasuryProposals[id].status = "Pending"
    /\ now <= CommitEnd(treasuryProposals[id])
    /\ voter \notin treasuryVoted[id]

MayCommit(voter, id) ==
    /\ treasuryProposals[id].private
    /\ treasuryProposals[id].status = "Pending"
    /\ now <= CommitEnd(treasuryProposals[id])
    /\ voter \notin treasuryVoted[id]
    /\ commits[id][voter] = NoCommit

(* commit_vote: any 32 bytes are taken, a copy of another's commitment too.  *)
CommitVote(voter, id, commitment) ==
    /\ MemberCall(voter)
    /\ MayCommit(voter, id)
    /\ commits' = [commits EXCEPT ![id][voter] = commitment]
    /\ UNCHANGED <<now, balance, adminVars, tokenVars, memberVars, delegation,
                   yieldVars, stakeVars, loanVars, treasuryProposals,
                   nextTreasuryId, treasuryVoted, registryVars, documents,
                   seedingLocked>>

\* Mutant: reveals are taken from the start, while others still commit.
RevealOpenFromStart(p) == now <= CommitEnd(p) + p.voting_period

RevealOpen(p) == CommitEnd(p) < now /\ now <= CommitEnd(p) + p.voting_period

(* reveal_vote: the commitment is used up and the ballot tallied.            *)
RevealVote(voter, id, support) ==
    /\ MemberCall(voter)
    /\ treasuryProposals[id].private
    /\ RevealOpen(treasuryProposals[id])
    /\ commits[id][voter] = Commitment(voter, id, support)
    /\ Tally(id, voter, support)
    /\ commits' = [commits EXCEPT ![id][voter] = NoCommit]
    /\ UNCHANGED <<now, adminVars, tokenVars, memberVars, delegation, yieldVars,
                   stakeVars, loanVars, nextTreasuryId, registryVars, documents,
                   seedingLocked>>

-----------------------------------------------------------------------------
\* Mutant: what has become of the treasury since the decision is not looked at.
PayableUncovered(id) == treasuryProposals[id].status = "ApprovedPendingDisbursement"

Payable(id) ==
    /\ treasuryProposals[id].status = "ApprovedPendingDisbursement"
    /\ Covered(treasuryProposals[id])

(* execute_approved: anyone pays out an approved proposal that had to wait.  *)
ExecuteTreasuryProposal(id) ==
    LET p == treasuryProposals[id]
    IN  /\ ~paused
        /\ Payable(id)
        /\ treasuryProposals' = [treasuryProposals EXCEPT ![id].status = "Executed"]
        /\ balance' = [balance EXCEPT ![p.asset] = @ - p.amount]
        /\ UNCHANGED <<now, adminVars, tokenVars, memberVars, delegation, yieldVars,
                       stakeVars, loanVars, nextTreasuryId, treasuryVoted, commits,
                       registryVars, documents, seedingLocked>>

(* cancel_treasury_proposal: within the editing period of today's policy.    *)
CancelTreasuryProposal(proposer, id) ==
    /\ MemberCall(proposer)
    /\ treasuryProposals[id].proposer = proposer
    /\ treasuryProposals[id].status = "Pending"
    /\ now <= treasuryProposals[id].created_at + policy.editing_period
    /\ treasuryProposals' = [treasuryProposals EXCEPT ![id].status = "Cancelled"]
    /\ UNCHANGED <<now, balance, adminVars, tokenVars, memberVars, delegation,
                   yieldVars, stakeVars, loanVars, nextTreasuryId, treasuryVoted,
                   commits, registryVars, documents, seedingLocked>>

\* Mutant: everything but a paid proposal expires.
LapsedUnlessPaid(p) ==
    /\ p.status \notin {"None", "Executed"}
    /\ now > p.created_at + p.voting_period

(* One voting period after its creation, private or not.                     *)
Lapsed(p) ==
    /\ p.status = "Pending"
    /\ now > p.created_at + p.voting_period

(* expire_treasury_proposal *)
ExpireTreasuryProposal(id) ==
    LET p == treasuryProposals[id]
    IN  /\ ~paused
        /\ Lapsed(p)
        /\ treasuryProposals' = [treasuryProposals EXCEPT ![id].status = "Expired"]
        /\ UNCHANGED <<now, balance, adminVars, tokenVars, memberVars, delegation,
                       yieldVars, stakeVars, loanVars, nextTreasuryId,
                       treasuryVoted, commits, registryVars, documents,
                       seedingLocked>>
============================================================================
