--------------------------- MODULE Administration ---------------------------
(***************************************************************************)
(* admin.rs: who governs, the pause, the consensus threshold, and the two   *)
(* things that wait out a timelock, a policy update and a token addition.   *)
(* None of these calls is stopped by the pause.                             *)
(***************************************************************************)
EXTENDS DaoState

AdminFrame == UNCHANGED <<now, balance, memberVars, delegation, yieldVars, stakeVars,
                          loanVars, treasuryVars, registryVars, documents, seedingLocked>>

(* add_admin *)
AddAdmin(caller, admin) ==
    /\ IsAdmin(caller)
    /\ ~IsAdmin(admin)
    /\ admins' = Append(admins, admin)
    /\ UNCHANGED <<pauser, threshold, policy, pendingPolicy, paused, tokenVars>>
    /\ AdminFrame

(* Vec::remove of the one entry of `admin`. *)
Without(list, admin) ==
    LET i == CHOOSE k \in 1 .. Len(list) : list[k] = admin
    IN  SubSeq(list, 1, i - 1) \o SubSeq(list, i + 1, Len(list))

\* Mutant: the last admin may go.
AnyAdminRemovable == TRUE

EnoughAdmins == Len(admins) > 1

(* remove_admin: an admin may remove another, or itself, but not the last.   *)
RemoveAdmin(caller, admin) ==
    /\ IsAdmin(caller)
    /\ EnoughAdmins
    /\ IsAdmin(admin)
    /\ admins' = Without(admins, admin)
    /\ UNCHANGED <<pauser, threshold, policy, pendingPolicy, paused, tokenVars>>
    /\ AdminFrame

(* set_pauser *)
SetPauser(caller, newPauser) ==
    /\ IsAdmin(caller)
    /\ pauser # newPauser
    /\ pauser' = newPauser
    /\ UNCHANGED <<admins, threshold, policy, pendingPolicy, paused, tokenVars>>
    /\ AdminFrame

(* revoke_pauser *)
RevokePauser(caller) ==
    /\ IsAdmin(caller)
    /\ pauser # NoAccount
    /\ pauser' = NoAccount
    /\ UNCHANGED <<admins, threshold, policy, pendingPolicy, paused, tokenVars>>
    /\ AdminFrame

(* set_consensus_threshold: at once, no timelock. *)
SetConsensusThreshold(caller, newThreshold) ==
    /\ IsAdmin(caller)
    /\ newThreshold \in 1 .. BASIS_POINTS
    /\ threshold' = newThreshold
    /\ UNCHANGED <<admins, pauser, policy, pendingPolicy, paused, tokenVars>>
    /\ AdminFrame

(* pause: an admin or the pauser. *)
Pause(caller) ==
    /\ IsAdmin(caller) \/ pauser = caller
    /\ ~paused
    /\ paused' = TRUE
    /\ UNCHANGED <<admins, pauser, threshold, policy, pendingPolicy, tokenVars>>
    /\ AdminFrame

(* unpause: admins only, not the pauser (issue 319). *)
Unpause(caller) ==
    /\ IsAdmin(caller)
    /\ paused
    /\ paused' = FALSE
    /\ UNCHANGED <<admins, pauser, threshold, policy, pendingPolicy, tokenVars>>
    /\ AdminFrame

-----------------------------------------------------------------------------
(* The policy timelock.                                                      *)

\* Mutant: a second proposal inherits the first one's waiting time.
ExecutionTimeKept ==
    IF pendingPolicy = {} THEN now + TimelockDuration
    ELSE (CHOOSE u \in pendingPolicy : TRUE).execution_time

ExecutionTime == now + TimelockDuration

(* propose_policy_update, also under the name set_loan_policy: replaces any  *)
(* pending update and starts the wait over. A proposal must name a quorum.   *)
ProposePolicyUpdate(caller, newPolicy) ==
    /\ IsAdmin(caller)
    /\ newPolicy.quorum_bps # 0
    /\ ValidPolicy(newPolicy)
    /\ pendingPolicy' = {[policy |-> newPolicy, proposed_at |-> now,
                          execution_time |-> ExecutionTime]}
    /\ UNCHANGED <<admins, pauser, threshold, policy, paused, tokenVars>>
    /\ AdminFrame

\* Mutant: the executed update stays pending, to be executed again.
ExecutePolicyUpdateRepeatable(caller) ==
    /\ IsAdmin(caller)
    /\ \E update \in pendingPolicy :
         /\ now >= update.execution_time
         /\ policy' = update.policy
    /\ UNCHANGED <<admins, pauser, threshold, pendingPolicy, paused, tokenVars>>
    /\ AdminFrame

(* execute_policy_update; try_execute_policy_update, which does not compile  *)
(* in this revision, is written to do the same.                              *)
ExecutePolicyUpdate(caller) ==
    /\ IsAdmin(caller)
    /\ \E update \in pendingPolicy :
         /\ now >= update.execution_time
         /\ policy' = update.policy
    /\ pendingPolicy' = {}
    /\ UNCHANGED <<admins, pauser, threshold, paused, tokenVars>>
    /\ AdminFrame

(* cancel_policy_update *)
CancelPolicyUpdate(caller) ==
    /\ IsAdmin(caller)
    /\ pendingPolicy # {}
    /\ pendingPolicy' = {}
    /\ UNCHANGED <<admins, pauser, threshold, policy, paused, tokenVars>>
    /\ AdminFrame

-----------------------------------------------------------------------------
(* The token whitelist.                                                      *)

(* propose_token_addition: may be repeated, which starts the wait over.      *)
ProposeTokenAddition(caller, token) ==
    /\ IsAdmin(caller)
    /\ ~IsTokenWhitelisted(token)
    /\ pendingToken' = [pendingToken EXCEPT ![token] = {now + TimelockDuration}]
    /\ UNCHANGED <<adminVars, whitelisted>>
    /\ AdminFrame

\* Mutant: the addition takes effect at once.
TokenTimelockIgnored(token) == pendingToken[token] # {}

TokenTimelockOver(token) == \E time \in pendingToken[token] : now >= time

\* Mutant: the executed addition stays pending, to be executed again.
ExecuteTokenAdditionRepeatable(caller, token) ==
    /\ IsAdmin(caller)
    /\ TokenTimelockOver(token)
    /\ whitelisted' = whitelisted \cup {token}
    /\ UNCHANGED <<adminVars, pendingToken>>
    /\ AdminFrame

(* execute_token_addition *)
ExecuteTokenAddition(caller, token) ==
    /\ IsAdmin(caller)
    /\ TokenTimelockOver(token)
    /\ pendingToken' = [pendingToken EXCEPT ![token] = {}]
    /\ whitelisted' = whitelisted \cup {token}
    /\ UNCHANGED adminVars
    /\ AdminFrame

(* remove_token: never the base token. *)
RemoveToken(caller, token) ==
    /\ IsAdmin(caller)
    /\ token \in whitelisted
    /\ whitelisted' = whitelisted \ {token}
    /\ UNCHANGED <<adminVars, pendingToken>>
    /\ AdminFrame
============================================================================
