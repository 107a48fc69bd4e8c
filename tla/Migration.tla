------------------------------ MODULE Migration ------------------------------
(***************************************************************************)
(* migration.rs: an admin copies a decommissioned deployment's state into   *)
(* this one, until lock_seeding closes the window for good. A seed call     *)
(* takes a batch and applies its entries in order; here each call carries   *)
(* one entry. Neither the pause nor what is already stored stops a seed.    *)
(***************************************************************************)
EXTENDS DaoState

SeedingOpen(caller) == IsAdmin(caller) /\ ~seedingLocked

\* Mutant: the counters of the record being replaced are not undone.
NothingUndone(a) == 0

(* 1 when the address already holds an active record, which is then undone.  *)
UndoneActive(a) == IF IsActiveMember(a) THEN 1 ELSE 0

(* seed_members, one record. The address's yield snapshot is not touched.    *)
SeedMember(caller, a, record) ==
    LET counted(r) == IF r.status = "ActiveMember" /\ r.contribution > 0
                      THEN r.contribution ELSE 0
    IN  /\ SeedingOpen(caller)
        /\ members' = [members EXCEPT ![a] = record]
        /\ totalMembers' =
             (IF IsMember(a) THEN SaturatingSub(totalMembers, 1) ELSE totalMembers) + 1
        /\ activeMembers' = SaturatingSub(activeMembers, UndoneActive(a))
                              + (IF record.status = "ActiveMember" THEN 1 ELSE 0)
        /\ activeContributions' =
             activeContributions - counted(members[a]) + counted(record)
        /\ UNCHANGED <<now, balance, adminVars, tokenVars, delegation, yieldVars,
                       stakeVars, loanVars, treasuryVars, registryVars, documents,
                       seedingLocked>>

\* Mutant: the stake being replaced is not taken off again.
TotalSeededAgain(a, amount) == totalStaked + amount

TotalAfterSeeding(a, amount) == totalStaked - stakes[a] + amount

(* seed_stakes *)
SeedStake(caller, a, amount) ==
    /\ SeedingOpen(caller)
    /\ stakes' = [stakes EXCEPT ![a] = amount]
    /\ totalStaked' = TotalAfterSeeding(a, amount)
    /\ UNCHANGED <<now, balance, adminVars, tokenVars, memberVars, delegation,
                   yieldVars, stakeTime, loanVars, treasuryVars, registryVars,
                   documents, seedingLocked>>

(* seed_pending_yield: a negative snapshot owes the member `amount`.         *)
SeedPendingYield(caller, a, amount) ==
    /\ SeedingOpen(caller)
    /\ yieldSnapshot' = [yieldSnapshot EXCEPT ![a] = -amount]
    /\ UNCHANGED <<now, balance, adminVars, tokenVars, memberVars, delegation,
                   yieldAccumulator, yieldRemainder, stakeVars, loanVars,
                   treasuryVars, registryVars, documents, seedingLocked>>

\* Mutant: the id counter is left where it was.
IdKept(next, id) == next

(* set_next_proposal_id_at_least, set_next_treasury_id_at_least              *)
IdPast(next, id) == IF id + 1 > next THEN id + 1 ELSE next

(* seed_loans *)
SeedLoan(caller, id, loan) ==
    /\ SeedingOpen(caller)
    /\ loans' = [loans EXCEPT ![id] = loan]
    /\ nextProposalId' = IdPast(nextProposalId, id)
    /\ UNCHANGED <<now, balance, adminVars, tokenVars, memberVars, delegation,
                   yieldVars, stakeVars, loanProposals, loanVoted, treasuryVars,
                   registryVars, documents, seedingLocked>>

(* seed_names: no check of who holds the name, or of the owner's other name. *)
SeedName(caller, owner, name) ==
    /\ SeedingOpen(caller)
    /\ nameOwner' = [nameOwner EXCEPT ![name] = owner]
    /\ nameOf' = [nameOf EXCEPT ![owner] = name]
    /\ UNCHANGED <<now, balance, adminVars, tokenVars, memberVars, delegation,
                   yieldVars, stakeVars, loanVars, treasuryVars, documents,
                   seedingLocked>>

(* seed_docs *)
SeedDocument(caller, key, hash) ==
    /\ SeedingOpen(caller)
    /\ documents' = [documents EXCEPT ![key] = hash]
    /\ nextProposalId' = IF key[1] = "Loan" THEN IdPast(nextProposalId, key[2])
                         ELSE nextProposalId
    /\ nextTreasuryId' = IF key[1] = "Treasury" THEN IdPast(nextTreasuryId, key[2])
                         ELSE nextTreasuryId
    /\ UNCHANGED <<now, balance, adminVars, tokenVars, memberVars, delegation,
                   yieldVars, stakeVars, loanProposals, loanVoted, loans,
                   treasuryProposals, treasuryVoted, commits, registryVars,
                   seedingLocked>>

(* lock_seeding *)
LockSeeding(caller) ==
    /\ SeedingOpen(caller)
    /\ seedingLocked' = TRUE
    /\ UNCHANGED <<now, balance, adminVars, tokenVars, memberVars, delegation,
                   yieldVars, stakeVars, loanVars, treasuryVars, registryVars,
                   documents>>
============================================================================
