------------------------------ MODULE Registry ------------------------------
(***************************************************************************)
(* registry.rs and docs.rs: a name for each member, and the content hash of *)
(* a document for each proposal. Names here are those that pass the length  *)
(* and charset checks, hashes those of at most 64 bytes.                    *)
(***************************************************************************)
EXTENDS DaoState

\* Mutant: the name held before is not freed.
OldNameKept(owner, name) == nameOwner

(* Whatever other name the owner held is released first.                     *)
OldNameFreed(owner, name) ==
    IF nameOf[owner] \in Names \ {name}
    THEN [nameOwner EXCEPT ![nameOf[owner]] = NoAccount]
    ELSE nameOwner

(* register_name *)
RegisterName(owner, name) ==
    /\ MemberCall(owner)
    /\ nameOwner[name] \in {NoAccount, owner}
    /\ nameOwner' = [OldNameFreed(owner, name) EXCEPT ![name] = owner]
    /\ nameOf' = [nameOf EXCEPT ![owner] = name]
    /\ UNCHANGED <<now, balance, adminVars, tokenVars, memberVars, delegation,
                   yieldVars, stakeVars, loanVars, treasuryVars, documents,
                   seedingLocked>>

-----------------------------------------------------------------------------
(* proposal_owner: NoAccount for a proposal that does not exist.             *)
ProposalOwner(key) ==
    IF key[1] = "Loan" THEN loanProposals[key[2]].borrower
    ELSE treasuryProposals[key[2]].proposer

\* Mutant: a document may be swapped once the ballot is open.
AlwaysAttachable(key) == TRUE

(* A loan proposal's document is fixed once a ballot or the clock's writer   *)
(* has moved it out of editing; a treasury proposal's never is.              *)
Attachable(key) ==
    key[1] = "Loan" => loanProposals[key[2]].phase = "Editing"

(* attach_document *)
AttachDocument(caller, key, hash) ==
    /\ MemberCall(caller)
    /\ ProposalOwner(key) = caller
    /\ Attachable(key)
    /\ documents' = [documents EXCEPT ![key] = hash]
    /\ UNCHANGED <<now, balance, adminVars, tokenVars, memberVars, delegation,
                   yieldVars, stakeVars, loanVars, treasuryVars, registryVars,
                   seedingLocked>>
============================================================================
