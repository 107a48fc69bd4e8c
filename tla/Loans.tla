------------------------------- MODULE Loans -------------------------------
(***************************************************************************)
(* loans.rs: a loan from its proposal (editing, ballot, approval, perhaps a *)
(* wait for funds) to repayment in parts or default. A proposal's id is     *)
(* also the id of the loan it becomes.                                      *)
(*                                                                         *)
(* A ballot can disburse, and vote_batch casts several ballots in one call, *)
(* so what a ballot does is written as a map from the part of the store it  *)
(* can change, a "book", to the changed book.                               *)
(***************************************************************************)
EXTENDS DaoState

Book == [proposals |-> loanProposals, voted |-> loanVoted, loans |-> loans,
         members |-> members, balance |-> balance]

BecomesBook(b) ==
    /\ loanProposals' = b.proposals
    /\ loanVoted' = b.voted
    /\ loans' = b.loans
    /\ members' = b.members
    /\ balance' = b.balance

-----------------------------------------------------------------------------
(* is_eligible_for_loan *)
EligibleForLoan(m) ==
    /\ IsActiveMember(m)
    /\ ~members[m].has_active_loan
    /\ SaturatingSub(now, members[m].join_time) >= policy.min_membership_duration
    /\ \/ members[m].last_loan_time = 0
       \/ SaturatingSub(now, members[m].last_loan_time) >= policy.cooldown_period

(* request_loan_in_asset; request_loan is its call with the base token.      *)
RequestLoanInAsset(borrower, amount, asset) ==
    /\ MemberCall(borrower)
    /\ IsTokenWhitelisted(asset)
    /\ amount > 0
    /\ EligibleForLoan(borrower)
    /\ BelowQuota(borrower)
    /\ amount <= MaxLoan(policy, TreasuryBalance(asset))
    /\ nextProposalId < MaxLoanProposals
    /\ loanProposals' = [loanProposals EXCEPT ![nextProposalId] =
         [borrower |-> borrower, asset |-> asset, amount |-> amount,
          editing_period_end |-> now + policy.editing_period,
          voting_period |-> policy.voting_period,
          phase |-> "Editing", status |-> "Pending",
          for_votes |-> 0, against_votes |-> 0, votes_cast |-> 0]]
    /\ nextProposalId' = nextProposalId + 1
    /\ UNCHANGED <<now, balance, adminVars, tokenVars, memberVars, delegation,
                   yieldVars, stakeVars, loanVoted, loans, treasuryVars,
                   registryVars, documents, seedingLocked>>

(* What edit and cancel ask: the borrower's own proposal, still in editing.  *)
MayEdit(borrower, id) ==
    /\ loanProposals[id].status # "None"
    /\ loanProposals[id].borrower = borrower
    /\ loanProposals[id].phase = "Editing"
    /\ now < loanProposals[id].editing_period_end

(* edit_loan_proposal: the amount is not checked against the treasury again. *)
EditLoanProposal(borrower, id, newAmount) ==
    /\ MemberCall(borrower)
    /\ MayEdit(borrower, id)
    /\ newAmount > 0
    /\ loanProposals' = [loanProposals EXCEPT ![id].amount = newAmount]
    /\ UNCHANGED <<now, balance, adminVars, tokenVars, memberVars, delegation,
                   yieldVars, stakeVars, nextProposalId, loanVoted, loans,
                   treasuryVars, registryVars, documents, seedingLocked>>

(* cancel_loan_proposal *)
CancelLoanProposal(borrower, id) ==
    /\ MemberCall(borrower)
    /\ MayEdit(borrower, id)
    /\ loanProposals[id].status = "Pending"
    /\ loanProposals' = [loanProposals EXCEPT
         ![id] = [@ EXCEPT !.status = "Cancelled", !.phase = "Expired"]]
    /\ UNCHANGED <<now, balance, adminVars, tokenVars, memberVars, delegation,
                   yieldVars, stakeVars, nextProposalId, loanVoted, loans,
                   treasuryVars, registryVars, documents, seedingLocked>>

-----------------------------------------------------------------------------
(* refresh_phase: what the clock alone does to a proposal, when it is next   *)
(* looked at.                                                                *)
InVoting(p) ==
    IF p.phase = "Editing" /\ now >= p.editing_period_end
    THEN [p EXCEPT !.phase = "Voting"] ELSE p

Refreshed(p) ==
    LET q == InVoting(p)
    IN  IF /\ q.phase = "Voting"
           /\ now > LoanVotingEnd(q)
           /\ q.status = "Pending"
        THEN [q EXCEPT !.phase = "Expired", !.status = "Expired"]
        ELSE q

(* The funding checks of approve_and_disburse, on the treasury of today.     *)
CanDisburse(b, id) ==
    LET treasury == TreasuryOf(b.balance, b.proposals[id].asset)
    IN  /\ treasury >= b.proposals[id].amount
        /\ b.proposals[id].amount <= MaxLoan(policy, treasury)

(* The loan and the borrower's record approve_and_disburse writes: the terms  *)
(* are quoted afresh, on the treasury before the money leaves.               *)
NewLoan(b, p) ==
    [borrower |-> p.borrower, principal |-> p.amount,
     total_repayment |-> TotalRepayment(policy, p.amount, TreasuryOf(b.balance, p.asset)),
     due_time |-> now + policy.max_loan_duration,
     status |-> "Active", amount_repaid |-> 0]
RecordAfterLoan(r) ==
    [r EXCEPT !.has_active_loan = TRUE, !.last_loan_time = now,
              !.total_loans = @ + 1, !.active_loans = @ + 1]

\* Mutant: the proposal is left approved, to be disbursed again.
DisbursedStillApproved(b, id) ==
    LET p == b.proposals[id]
    IN  [proposals |-> b.proposals,
         voted |-> b.voted,
         loans |-> [b.loans EXCEPT ![id] = NewLoan(b, p)],
         members |-> [b.members EXCEPT ![p.borrower] = RecordAfterLoan(@)],
         balance |-> [b.balance EXCEPT ![p.asset] = @ - p.amount]]

\* Mutant: every loan is paid out of the base token.
DisbursedInBaseToken(b, id) ==
    LET p == b.proposals[id]
    IN  [proposals |-> [b.proposals EXCEPT ![id].status = "Approved"],
         voted |-> b.voted,
         loans |-> [b.loans EXCEPT ![id] = NewLoan(b, p)],
         members |-> [b.members EXCEPT ![p.borrower] = RecordAfterLoan(@)],
         balance |-> [b.balance EXCEPT ![BaseToken] = @ - p.amount]]

(* approve_and_disburse, and the Approved status both its callers write when *)
(* it succeeds. Whether the borrower already has a loan, or is still a       *)
(* member, is not asked.                                                     *)
Disbursed(b, id) ==
    LET p == b.proposals[id]
    IN  [proposals |-> [b.proposals EXCEPT ![id].status = "Approved"],
         voted |-> b.voted,
         loans |-> [b.loans EXCEPT ![id] = NewLoan(b, p)],
         members |-> [b.members EXCEPT ![p.borrower] = RecordAfterLoan(@)],
         balance |-> [b.balance EXCEPT ![p.asset] = @ - p.amount]]

LoanThreshold == IF policy.quorum_bps > 0 THEN policy.quorum_bps ELSE threshold
LoanVotesRequired == RequiredVotes(activeMembers, LoanThreshold)

(* The checks of vote_on_loan_proposal_internal: the ballot is open up to,   *)
(* and not at, its last second.                                              *)
MayVoteOnLoan(b, voter, id) ==
    /\ b.proposals[id].status # "None"
    /\ Refreshed(b.proposals[id]).phase = "Voting"
    /\ now < LoanVotingEnd(b.proposals[id])
    /\ voter # b.proposals[id].borrower
    /\ voter \notin b.voted[id]

(* The proposal with one more ballot on it.                                  *)
CountedLoanVote(p, voter, support) ==
    [Refreshed(p) EXCEPT
       !.for_votes = @ + (IF support THEN VotingWeight(voter) ELSE 0),
       !.against_votes = @ + (IF support THEN 0 ELSE VotingWeight(voter)),
       !.votes_cast = @ + 1]

(* What the ballots counted so far decide: approval, rejection of what can   *)
(* no longer pass, or nothing yet.                                           *)
LoanOutcome(p) ==
    IF p.for_votes >= LoanVotesRequired
    THEN [p EXCEPT !.status = "ApprovedPendingDisbursement", !.phase = "Executed"]
    ELSE IF OutOfReach(p.for_votes, p.votes_cast, LoanVotesRequired)
    THEN [p EXCEPT !.status = "Rejected", !.phase = "Expired"]
    ELSE p

(* The book with the ballot counted and what it decides written down.        *)
BallotBook(b, voter, id, support) ==
    LET p == CountedLoanVote(b.proposals[id], voter, support)
    IN  [proposals |-> [b.proposals EXCEPT
                          ![id] = IF p.status = "Pending" THEN LoanOutcome(p) ELSE p],
         voted |-> [b.voted EXCEPT ![id] = @ \cup {voter}],
         loans |-> b.loans, members |-> b.members, balance |-> b.balance]

(* vote_on_loan_proposal_internal: count, decide, and on approval disburse   *)
(* in the same call if the funds are there.                                  *)
LoanVoteCast(b, voter, id, support) ==
    LET after == BallotBook(b, voter, id, support)
    IN  IF /\ Refreshed(b.proposals[id]).status = "Pending"
           /\ after.proposals[id].status = "ApprovedPendingDisbursement"
           /\ CanDisburse(after, id)
        THEN Disbursed(after, id)
        ELSE after

(* vote_on_loan_proposal *)
VoteOnLoanProposal(voter, id, support) ==
    /\ MemberCall(voter)
    /\ MayVoteOnLoan(Book, voter, id)
    /\ BecomesBook(LoanVoteCast(Book, voter, id, support))
    /\ UNCHANGED <<now, adminVars, tokenVars, totalMembers, activeMembers,
                   activeContributions, delegation, yieldVars, stakeVars,
                   nextProposalId, treasuryVars, registryVars, documents,
                   seedingLocked>>

(* vote_batch of two ballots: all of them count or none does.                *)
VoteBatch(voter, id1, support1, id2, support2) ==
    LET after1 == LoanVoteCast(Book, voter, id1, support1)
    IN  /\ MemberCall(voter)
        /\ MayVoteOnLoan(Book, voter, id1)
        /\ MayVoteOnLoan(after1, voter, id2)
        /\ BecomesBook(LoanVoteCast(after1, voter, id2, support2))
        /\ UNCHANGED <<now, adminVars, tokenVars, totalMembers, activeMembers,
                       activeContributions, delegation, yieldVars, stakeVars,
                       nextProposalId, treasuryVars, registryVars, documents,
                       seedingLocked>>

(* disburse_approved_loan: anyone, once the treasury can carry the loan.     *)
DisburseApprovedLoan(id) ==
    /\ ~paused
    /\ loanProposals[id].status = "ApprovedPendingDisbursement"
    /\ CanDisburse(Book, id)
    /\ BecomesBook(Disbursed(Book, id))
    /\ UNCHANGED <<now, adminVars, tokenVars, totalMembers, activeMembers,
                   activeContributions, delegation, yieldVars, stakeVars,
                   nextProposalId, treasuryVars, registryVars, documents,
                   seedingLocked>>

(* expire_loan_proposal: the keeper writes down what refresh_phase finds. A  *)
(* proposal already Expired is left as it is.                                *)
ExpireLoanProposal(id) ==
    LET p == Refreshed(loanProposals[id])
    IN  /\ ~paused
        /\ loanProposals[id].status # "None"
        /\ p.phase = "Expired"
        /\ loanProposals[id].phase # "Expired"
        /\ loanProposals' = [loanProposals EXCEPT ![id] = p]
        /\ UNCHANGED <<now, balance, adminVars, tokenVars, memberVars, delegation,
                       yieldVars, stakeVars, nextProposalId, loanVoted, loans,
                       treasuryVars, registryVars, documents, seedingLocked>>

-----------------------------------------------------------------------------
(* Repayment.                                                                *)

\* Mutant: paying back the principal alone settles the loan.
PrincipalOutstanding(l) == l.principal - l.amount_repaid

Outstanding(l) == l.total_repayment - l.amount_repaid

\* Mutant: the surcharge is owed as interest.
SurchargedAsInterest(l) ==
    LET penalty == OverduePenalty(policy, Outstanding(l))
    IN  IF now > l.due_time THEN [l EXCEPT !.total_repayment = @ + penalty] ELSE l

(* Every payment made after the due time first adds the penalty on what is   *)
(* then outstanding, to the debt and to the principal alike.                 *)
Surcharged(l) ==
    LET penalty == OverduePenalty(policy, Outstanding(l))
    IN  IF now > l.due_time
        THEN [l EXCEPT !.total_repayment = @ + penalty, !.principal = @ + penalty]
        ELSE l

InterestOf(l) == l.total_repayment - l.principal

(* How much of the interest has been paid: payments cover interest first.    *)
InterestPaid(l) == Lesser(l.amount_repaid, InterestOf(l))

\* Mutant: the remainder of the last division is dropped.
InterestToSplitAlone(interest) == interest

(* What there is to split: the remainder of earlier divisions is carried.    *)
InterestToSplit(interest) == interest + yieldRemainder

(* distribute_interest: an equal share to each active member, by moving one  *)
(* accumulator; the indivisible rest is kept for the next time.              *)
DistributeInterest(interest) ==
    IF interest <= 0 \/ activeMembers = 0
    THEN UNCHANGED <<yieldAccumulator, yieldRemainder>>
    ELSE /\ yieldAccumulator' =
              yieldAccumulator + InterestToSplit(interest) \div activeMembers
         /\ yieldRemainder' = InterestToSplit(interest) % activeMembers

(* The borrower's record once a loan of theirs is repaid in full.            *)
RecordAfterRepayment(m) ==
    [members[m] EXCEPT !.has_active_loan = FALSE,
                       !.repaid_loans = @ + 1,
                       !.active_loans = SaturatingSub(@, 1)]

(* repay_loan_internal with `amount`, the borrower's choice within what is   *)
(* outstanding after the surcharge. Interest is shared out only when it is   *)
(* paid in the base token.                                                   *)
RepayAmount(borrower, id, amount) ==
    LET before == Surcharged(loans[id])
        paid == [before EXCEPT !.amount_repaid = @ + amount]
        settled == Outstanding(paid) = 0
        asset == loanProposals[id].asset
    IN  /\ ~paused
        /\ loans[id].borrower = borrower
        /\ loans[id].status = "Active"
        /\ amount \in 1 .. Outstanding(before)
        /\ loans' = [loans EXCEPT ![id] =
             IF settled THEN [paid EXCEPT !.status = "Repaid"] ELSE paid]
        /\ members' = IF settled /\ IsMember(borrower)
                      THEN [members EXCEPT ![borrower] = RecordAfterRepayment(borrower)]
                      ELSE members
        /\ IF asset = BaseToken
           THEN DistributeInterest(InterestPaid(paid) - InterestPaid(before))
           ELSE UNCHANGED <<yieldAccumulator, yieldRemainder>>
        /\ balance' = [balance EXCEPT ![asset] = @ + amount]
        /\ UNCHANGED <<now, adminVars, tokenVars, totalMembers, activeMembers,
                       activeContributions, delegation, yieldSnapshot, stakeVars,
                       loanProposals, nextProposalId, loanVoted, treasuryVars,
                       registryVars, documents, seedingLocked>>

(* repay_loan_partial *)
RepayLoanPartial(borrower, id, amount) == RepayAmount(borrower, id, amount)

(* repay_loan: everything outstanding. *)
RepayLoan(borrower, id) ==
    RepayAmount(borrower, id, Outstanding(Surcharged(loans[id])))

(* repay_loan_in_asset: the same, for a caller who names the loan's asset.   *)
RepayLoanInAsset(borrower, id, asset) ==
    /\ loanProposals[id].asset = asset
    /\ RepayLoan(borrower, id)

-----------------------------------------------------------------------------
(* Default.                                                                  *)

\* Mutant: the flag that blocks a new loan, and the exit, is left set.
RecordAfterDefaultLocked(m) ==
    [members[m] EXCEPT !.contribution = @ - DefaultPenalty(policy, @),
                       !.active_loans = SaturatingSub(@, 1)]

(* The contribution is slashed; the loan stops counting as outstanding.      *)
RecordAfterDefault(m) ==
    [members[m] EXCEPT !.contribution = @ - DefaultPenalty(policy, @),
                       !.has_active_loan = FALSE,
                       !.active_loans = SaturatingSub(@, 1)]

\* Mutant: the moment the grace period ends does not count as its end.
DefaultableLate(l) == now > l.due_time + policy.default_grace_period

\* Mutant: a member without the flag is taken to have no loan to default on.
DefaultableIfFlagged(l) ==
    /\ now >= l.due_time + policy.default_grace_period
    /\ members[l.borrower].has_active_loan

Defaultable(l) == now >= l.due_time + policy.default_grace_period

(* mark_loan_defaulted: anyone, after the grace period. The sum of active    *)
(* contributions is reduced whether or not the borrower is still active.     *)
MarkLoanDefaulted(id) ==
    LET m == loans[id].borrower
    IN  /\ ~paused
        /\ loans[id].status = "Active"
        /\ Defaultable(loans[id])
        /\ loans' = [loans EXCEPT ![id].status = "Defaulted"]
        /\ IF IsMember(m)
           THEN /\ members' = [members EXCEPT ![m] = RecordAfterDefault(m)]
                /\ activeContributions' =
                     activeContributions - DefaultPenalty(policy, members[m].contribution)
                /\ yieldSnapshot' = [yieldSnapshot EXCEPT ![m] = yieldAccumulator]
           ELSE UNCHANGED <<members, activeContributions, yieldSnapshot>>
        /\ UNCHANGED <<now, balance, adminVars, tokenVars, totalMembers,
                       activeMembers, delegation, yieldAccumulator, yieldRemainder,
                       stakeVars, loanProposals, nextProposalId, loanVoted,
                       treasuryVars, registryVars, documents, seedingLocked>>
============================================================================
