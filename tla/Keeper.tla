------------------------------- MODULE Keeper -------------------------------
(***************************************************************************)
(* scripts/keeper.sh as a process beside the contract. Cron starts it; it   *)
(* reads a clock of its own and the grace period once, then sweeps over the *)
(* loans, the loan proposals and the withdrawals: it looks at each record   *)
(* through a view, and submits a call for those that look due. Between any  *)
(* two of these steps members, admins and other keepers go on calling, and  *)
(* time passes. --dry-run, which submits nothing, is left out.              *)
(***************************************************************************)
EXTENDS OurDaoProperties

CONSTANTS
    Skew                   \* how far the keeper's clock may run ahead

ASSUME SkewAssumption == Skew \in Nat

VARIABLES
    run                    \* the run in progress, or Idle

keeperVars == <<vars, run>>

DefaultPass == 1
LoanExpiryPass == 2
TreasuryExpiryPass == 3

(* The next id to look at, how many there were when the pass began, and      *)
(* whether the record just looked at was due. A reliable run is one whose    *)
(* views and submissions all reach the network.                              *)
Idle == [pass |-> 0, count |-> 0, id |-> 0, due |-> FALSE, time |-> 0, grace |-> 0,
         reliable |-> FALSE]

(* get_loan_proposal_count (loan ids are proposal ids), get_treasury_proposal_count *)
Count(pass) == IF pass = TreasuryExpiryPass THEN nextTreasuryId ELSE nextProposalId

KeeperInit == Init /\ run = Idle

(* A run starts, unless the contract is paused.                              *)
Start(reliable) ==
    /\ run = Idle
    /\ ~paused
    /\ \E ahead \in 0 .. Skew :
          run' = [pass |-> DefaultPass, count |-> Count(DefaultPass), id |-> 0,
                  due |-> FALSE, time |-> now + ahead,
                  grace |-> policy.default_grace_period, reliable |-> reliable]
    /\ UNCHANGED vars

\* Mutant: the last second of grace is not seen to be over.
LooksDueLate(pass, id) ==
    CASE pass = DefaultPass ->
           loans[id].status = "Active" /\ run.time > loans[id].due_time + run.grace
      [] pass = LoanExpiryPass ->
           LET p == Refreshed(loanProposals[id])
           IN  p.status = "Pending" /\ run.time > p.editing_period_end + p.voting_period
      [] pass = TreasuryExpiryPass ->
           LET p == treasuryProposals[id]
           IN  p.status = "Pending" /\ run.time > p.created_at + p.voting_period

(* The jq filters, on what the views return: get_loan and                    *)
(* get_treasury_proposal the record as stored, get_loan_proposal the record  *)
(* with its phase refreshed.                                                 *)
LooksDue(pass, id) ==
    CASE pass = DefaultPass ->
           loans[id].status = "Active" /\ run.time >= loans[id].due_time + run.grace
      [] pass = LoanExpiryPass ->
           LET p == Refreshed(loanProposals[id])
           IN  p.status = "Pending" /\ run.time > p.editing_period_end + p.voting_period
      [] pass = TreasuryExpiryPass ->
           LET p == treasuryProposals[id]
           IN  p.status = "Pending" /\ run.time > p.created_at + p.voting_period

\* Mutant: the last id is never looked at.
MoreButTheLast == run.id + 1 < run.count

More == run.id < run.count

(* sweep: the next record ...                                                *)
Look ==
    /\ run # Idle /\ ~run.due /\ More
    /\ run' = IF LooksDue(run.pass, run.id) THEN [run EXCEPT !.due = TRUE]
              ELSE [run EXCEPT !.id = @ + 1]
    /\ UNCHANGED vars

(* ... the call for one that is due ...                                      *)
Call(pass, id) ==
    CASE pass = DefaultPass -> MarkLoanDefaulted(id)
      [] pass = LoanExpiryPass -> ExpireLoanProposal(id)
      [] pass = TreasuryExpiryPass -> ExpireTreasuryProposal(id)

Submit ==
    /\ run.due
    /\ Call(run.pass, run.id)
    /\ run' = [run EXCEPT !.due = FALSE, !.id = @ + 1]

(* ... which the contract refuses, because the record is not or no longer    *)
(* due, or the network loses: the run counts it as failed and goes on ...    *)
Fail ==
    /\ run.due
    /\ run.reliable => ~ENABLED Call(run.pass, run.id)
    /\ run' = [run EXCEPT !.due = FALSE, !.id = @ + 1]
    /\ UNCHANGED vars

(* ... and after the last one the next pass, or the end of the run.          *)
Advance ==
    /\ run # Idle /\ ~run.due /\ ~More
    /\ run' = IF run.pass = TreasuryExpiryPass THEN Idle
              ELSE [run EXCEPT !.pass = @ + 1, !.id = 0, !.count = Count(run.pass + 1)]
    /\ UNCHANGED vars

(* A view that fails ends the run where it is (set -e), as a reboot does.    *)
CutShort ==
    /\ run # Idle /\ ~run.reliable
    /\ run' = Idle
    /\ UNCHANGED vars

Sweep == Look \/ Submit \/ Fail \/ Advance

KeeperNext ==
    \/ Operate /\ UNCHANGED run
    \/ \E reliable \in BOOLEAN : Start(reliable)
    \/ Sweep
    \/ CutShort

(***************************************************************************)
(* Ledgers keep closing; cron keeps starting runs, and a run that has       *)
(* started goes on; and the network is not down during every single run.    *)
(* Nothing is owed by members and admins.                                   *)
(***************************************************************************)
KeeperRuns ==
    /\ WF_vars(Tick)
    /\ WF_keeperVars(\E reliable \in BOOLEAN : Start(reliable))
    /\ WF_keeperVars(Sweep)
    /\ SF_keeperVars(Start(TRUE))

KeeperSpec == KeeperInit /\ [][KeeperNext]_keeperVars /\ KeeperRuns
-----------------------------------------------------------------------------
(* The fairness the liveness of KeptSpec rests on is what the script gives:  *)
(* a loan that stays overdue is defaulted, a withdrawal that stays lapsed is *)
(* expired, whatever a run in progress had read before, and however many     *)
(* runs were cut short or submissions refused.                               *)
FairnessEarned == KeeperFairness
============================================================================
