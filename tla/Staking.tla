------------------------------ MODULE Staking ------------------------------
(***************************************************************************)
(* staking.rs: locking tokens for voting weight. Neither call moves a       *)
(* token: both only change the contract's own accounting.                   *)
(***************************************************************************)
EXTENDS DaoState

(* stake *)
Stake(m, amount) ==
    /\ MemberCall(m)
    /\ amount > 0
    /\ stakes' = [stakes EXCEPT ![m] = @ + amount]
    /\ totalStaked' = totalStaked + amount
    /\ stakeTime' = [stakeTime EXCEPT ![m] = now]
    /\ UNCHANGED <<now, balance, adminVars, tokenVars, memberVars, delegation,
                   yieldVars, loanVars, treasuryVars, registryVars, documents,
                   seedingLocked>>

(* A member's own open request keeps their stake locked (issue 175) ...      *)
HasOpenRequest(m) ==
    \E id \in OpenLoanProposals(m) : loanProposals[id].phase \in {"Editing", "Voting"}

\* Mutant: only a revealed ballot locks the stake, a commitment does not.
HasOpenTreasuryVote(m) ==
    \E id \in TreasuryIds :
        /\ treasuryProposals[id].status = "Pending"
        /\ now <= TreasuryVotingEnd(treasuryProposals[id])
        /\ m \in treasuryVoted[id]

(* ... and so does a ballot or a commitment of theirs on an open proposal.   *)
HasOpenTreasuryBallot(m) ==
    \E id \in TreasuryIds :
        /\ treasuryProposals[id].status = "Pending"
        /\ now <= TreasuryVotingEnd(treasuryProposals[id])
        /\ m \in treasuryVoted[id] \/ commits[id][m] # NoCommit

HasOpenLoanBallot(m) ==
    \E id \in LoanIds :
        /\ loanProposals[id].status = "Pending"
        /\ now <= LoanVotingEnd(loanProposals[id])
        /\ m \in loanVoted[id]

\* Mutant: the member's total is adjusted, the DAO's is not.
TotalStakedKept(amount) == totalStaked

TotalAfterUnstake(amount) == totalStaked - amount

\* Mutant: the amount is not held against what is staked.
AnyAmountUnstakable(m) == Nat \ {0}

Unstakable(m) == 1 .. stakes[m]

(* unstake: membership is not asked for. *)
Unstake(m, amount) ==
    /\ ~paused
    /\ amount \in Unstakable(m)
    /\ now >= stakeTime[m] + policy.cooldown_period
    /\ ~HasOpenRequest(m)
    /\ ~HasOpenTreasuryBallot(m)
    /\ ~HasOpenLoanBallot(m)
    /\ stakes' = [stakes EXCEPT ![m] = @ - amount]
    /\ totalStaked' = TotalAfterUnstake(amount)
    /\ UNCHANGED <<now, balance, adminVars, tokenVars, memberVars, delegation,
                   yieldVars, stakeTime, loanVars, treasuryVars, registryVars,
                   documents, seedingLocked>>
============================================================================
