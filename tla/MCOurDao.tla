------------------------------ MODULE MCOurDao ------------------------------
(***************************************************************************)
(* The instances TLC checks: two members, an admin or two, one day of       *)
(* ledger time per unit, a fee of ten tokens. Rates and thresholds keep     *)
(* their basis points, so rounding happens as it does on chain.             *)
(***************************************************************************)
EXTENDS OurDaoProperties, TLC

CONSTANTS m1, m2, a1, a2, none, xlm, usdc, n1, n2, noName, h1, noHash

(* Editing for a day, voting for two, a loan for one and a day of grace; half *)
(* the active members decide; late payers owe a tenth more.                  *)
LoanTestPolicy ==
    [min_membership_duration |-> 0, max_loan_duration |-> 1,
     min_interest_rate |-> 5000, max_interest_rate |-> 6000,
     cooldown_period |-> 0, max_loan_to_treasury_ratio |-> 5000,
     default_grace_period |-> 1, default_penalty_bps |-> 1000,
     editing_period |-> 1, voting_period |-> 2,
     treasury_threshold |-> 5000, quorum_bps |-> 5000]

(* Ballots of a day; a withdrawal takes six tenths of the active members, so *)
(* both of two, or one with a stake.                                         *)
BallotTestPolicy ==
    [LoanTestPolicy EXCEPT !.voting_period = 1, !.treasury_threshold = 6000]

(* Ballots of a day which half the active members decide.                    *)
KeeperTestPolicy == [LoanTestPolicy EXCEPT !.voting_period = 1]

(* No quorum of its own: the consensus threshold decides, as before the      *)
(* first policy update.                                                      *)
ThresholdTestPolicy == [LoanTestPolicy EXCEPT !.quorum_bps = 0]

(* An update of each kind: accepted, and refused by validate_policy.         *)
StricterPolicy == [LoanTestPolicy EXCEPT !.quorum_bps = 7500]
LooserPolicy == [LoanTestPolicy EXCEPT !.quorum_bps = 2500]
BrokenPolicy == [LoanTestPolicy EXCEPT !.min_interest_rate = 9000]

OneLoanPolicy == {LoanTestPolicy}
OneBallotPolicy == {BallotTestPolicy}
OneKeeperPolicy == {KeeperTestPolicy}
OneThresholdPolicy == {ThresholdTestPolicy}
Updates == {StricterPolicy, LooserPolicy, BrokenPolicy}

OneAdmin == {<<a1>>}
(* `initialize` refuses the last two. *)
AdminListsOffered == {<<a1>>, <<a1, a2>>, <<>>, <<a1, a1>>}

Interchangeable == Permutations(Accounts)
============================================================================
