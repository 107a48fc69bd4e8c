----------------------------- MODULE Membership -----------------------------
(***************************************************************************)
(* membership.rs: joining, leaving with a pro-rata share, claiming yield    *)
(* and delegating one's vote. A member's own wallet is not modelled: a call *)
(* whose transfer from it fails traps, which is a stuttering step.          *)
(***************************************************************************)
EXTENDS DaoState

-----------------------------------------------------------------------------
(* register_member                                                           *)

\* Mutant: a returning member's loan counters start over.
JoinedAfresh(m) ==
    [NoMember EXCEPT !.status = "ActiveMember", !.join_time = now,
                     !.contribution = MembershipFee]

(* The record of a new or returning member: the lifetime loan counters       *)
(* survive, everything else starts over.                                     *)
Joined(m) ==
    [members[m] EXCEPT !.status = "ActiveMember", !.join_time = now,
                       !.contribution = MembershipFee,
                       !.has_active_loan = FALSE, !.last_loan_time = 0]

\* Mutant: a returning member is counted again.
CountedOnJoining(m) == 1

(* What a registration adds to total_members: is_returning adds nothing.     *)
NewOnJoining(m) == IF IsMember(m) THEN 0 ELSE 1

\* Mutant: the snapshot is left where it was.
SnapshotKept(m) == yieldSnapshot[m]

(* Interest repaid before this moment is not owed to a joiner.               *)
SnapshotOnJoining(m) == yieldAccumulator

(* Anyone not active joins or rejoins, for the fee.                          *)
RegisterMember(m) ==
    /\ ~paused
    /\ ~IsActiveMember(m)
    /\ members' = [members EXCEPT ![m] = Joined(m)]
    /\ yieldSnapshot' = [yieldSnapshot EXCEPT ![m] = SnapshotOnJoining(m)]
    /\ totalMembers' = totalMembers + NewOnJoining(m)
    /\ activeMembers' = activeMembers + 1
    /\ activeContributions' = activeContributions + MembershipFee
    /\ balance' = [balance EXCEPT ![BaseToken] = @ + MembershipFee]
    /\ UNCHANGED <<now, adminVars, tokenVars, delegation, yieldAccumulator,
                   yieldRemainder, stakeVars, loanVars, treasuryVars,
                   registryVars, documents, seedingLocked>>

-----------------------------------------------------------------------------
(* exit_dao                                                                  *)

(* calculate_exit_share *)
ExitShare(m) ==
    IF IsActiveMember(m)
    THEN ShareFromContributions(TreasuryBalance(BaseToken),
                                members[m].contribution, activeContributions)
    ELSE 0

ExitPayout(m) == ExitShare(m) + stakes[m] + PendingYield(m)

(* Both registry entries of `m`'s name, if it has one, are removed.          *)
ReleaseName(m) ==
    /\ nameOwner' = IF nameOf[m] = NoName THEN nameOwner
                    ELSE [nameOwner EXCEPT ![nameOf[m]] = NoAccount]
    /\ nameOf' = [nameOf EXCEPT ![m] = NoName]

(* exit_dao: the share, the stake and the unclaimed yield are paid at once.  *)
(* The record stays, Inactive, with its contribution and counters; the       *)
(* member's delegation, ballots and open proposals are left as they are.     *)
ExitDao(m) ==
    /\ MemberCall(m)
    /\ ~members[m].has_active_loan
    /\ ExitPayout(m) > 0 => balance[BaseToken] >= ExitPayout(m)
    /\ stakes' = IF stakes[m] > 0 THEN [stakes EXCEPT ![m] = 0] ELSE stakes
    /\ totalStaked' = IF stakes[m] > 0 THEN totalStaked - stakes[m] ELSE totalStaked
    /\ yieldSnapshot' = [yieldSnapshot EXCEPT ![m] = yieldAccumulator]
    /\ ReleaseName(m)
    /\ members' = [members EXCEPT ![m].status = "Inactive"]
    /\ activeMembers' = activeMembers - 1
    /\ activeContributions' = activeContributions - members[m].contribution
    /\ balance' = IF ExitPayout(m) > 0
                  THEN [balance EXCEPT ![BaseToken] = @ - ExitPayout(m)]
                  ELSE balance
    /\ UNCHANGED <<now, adminVars, tokenVars, totalMembers, delegation,
                   yieldAccumulator, yieldRemainder, stakeTime, loanVars,
                   treasuryVars, documents, seedingLocked>>

(* claim_rewards: the transfer traps when the contract cannot cover it.      *)
ClaimRewards(m) ==
    /\ MemberCall(m)
    /\ PendingYield(m) > 0
    /\ balance[BaseToken] >= PendingYield(m)
    /\ yieldSnapshot' = [yieldSnapshot EXCEPT ![m] = yieldAccumulator]
    /\ balance' = [balance EXCEPT ![BaseToken] = @ - PendingYield(m)]
    /\ UNCHANGED <<now, adminVars, tokenVars, memberVars, delegation,
                   yieldAccumulator, yieldRemainder, stakeVars, loanVars,
                   treasuryVars, registryVars, documents, seedingLocked>>

(* delegate_vote: may be redirected, never withdrawn.                        *)
DelegateVote(delegator, delegatee) ==
    /\ MemberCall(delegator)
    /\ IsActiveMember(delegatee)
    /\ delegator # delegatee
    /\ delegation' = [delegation EXCEPT ![delegator] = delegatee]
    /\ UNCHANGED <<now, balance, adminVars, tokenVars, memberVars, yieldVars,
                   stakeVars, loanVars, treasuryVars, registryVars, documents,
                   seedingLocked>>
============================================================================
