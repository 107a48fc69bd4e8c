--------------------------- MODULE DaoArithmetic ---------------------------
(***************************************************************************)
(* The integer arithmetic of the contract, apart from its state: votes      *)
(* required, the voting boost a stake buys, loan pricing, shares and        *)
(* penalties (util.rs, and the pure parts of loans.rs and membership.rs).   *)
(* Amounts are i128 in the code; the fallbacks that checked_mul takes on    *)
(* overflow lie outside the small integers of the model.                    *)
(***************************************************************************)
EXTENDS Integers

(* types.rs: 100% in basis points; util.rs: the staking curve. *)
BASIS_POINTS == 10000
STAKE_WEIGHT_UNIT == 100
MAX_STAKE_BONUS == 5
BASE_VOTE_WEIGHT == 1

Lesser(x, y) == IF x <= y THEN x ELSE y

(* Rust's saturating_sub on an unsigned type. *)
SaturatingSub(x, y) == IF x >= y THEN x - y ELSE 0

(* ceil_div_nonnegative: rounds up, whatever is left over counts as one. *)
CeilDiv(value, divisor) ==
    value \div divisor + (IF value % divisor # 0 THEN 1 ELSE 0)

(* A basis-point fraction of an amount, rounded up by adding BP - 1. *)
BpsCeil(amount, bps) == (amount * bps + BASIS_POINTS - 1) \div BASIS_POINTS

(***************************************************************************)
(* isqrt: one bit of the root per step, from the radicand's highest power   *)
(* of four down. The code starts at 4^63 (u128), the model at the highest   *)
(* power TLC's integers hold; powers above the radicand leave the root 0    *)
(* and the remainder whole, which is what skipping them does.               *)
(***************************************************************************)
IsqrtTopBit == 14

\* A root that is shifted before the comparison, not after it.
IsqrtShiftedEarly(n) ==
    LET after[k \in 0 .. IsqrtTopBit + 1] ==
          IF k = IsqrtTopBit + 1
          THEN [remainder |-> n, root |-> 0]
          ELSE LET s == after[k + 1]
                   bit == 4 ^ k
               IN  IF s.remainder >= s.root \div 2 + bit
                   THEN [remainder |-> s.remainder - (s.root \div 2 + bit),
                         root |-> s.root \div 2 + bit]
                   ELSE [s EXCEPT !.root = @ \div 2]
    IN  IF n <= 0 THEN 0 ELSE after[0].root

(* One turn of the loop: the root's next bit, and what is left.              *)
IsqrtStep(s, bit) ==
    IF s.remainder >= s.root + bit
    THEN [remainder |-> s.remainder - (s.root + bit), root |-> s.root \div 2 + bit]
    ELSE [remainder |-> s.remainder, root |-> s.root \div 2]

Isqrt(n) ==
    LET after[k \in 0 .. IsqrtTopBit + 1] ==
          IF k = IsqrtTopBit + 1 THEN [remainder |-> n, root |-> 0]
          ELSE IsqrtStep(after[k + 1], 4 ^ k)
    IN  IF n <= 0 THEN 0 ELSE after[0].root

\* Mutant: the linear rule the curve replaced.
StakeBoostLinear(staked) ==
    IF staked <= 0 THEN 0 ELSE Lesser(staked \div STAKE_WEIGHT_UNIT, MAX_STAKE_BONUS)

(* stake_boost: the quadratic curve, capped. *)
StakeBoost(staked) ==
    IF staked <= 0 THEN 0
    ELSE Lesser(Isqrt(staked \div STAKE_WEIGHT_UNIT), MAX_STAKE_BONUS)

\* Mutant: the bar is rounded down.
RequiredVotesFloored(active, thresholdBps) ==
    (active * thresholdBps) \div BASIS_POINTS

(* required_votes: the consensus bar over the active members, rounded up. *)
RequiredVotes(active, thresholdBps) == BpsCeil(active, thresholdBps)

(* quote_terms: the rate grows with the loan's share of the treasury. *)
LoanRatioFloored(amount, treasury) ==
    IF treasury > 0
    THEN Lesser((amount * BASIS_POINTS) \div treasury, BASIS_POINTS)
    ELSE BASIS_POINTS

LoanRatio(amount, treasury) ==
    IF treasury > 0
    THEN Lesser(CeilDiv(amount * BASIS_POINTS, treasury), BASIS_POINTS)
    ELSE BASIS_POINTS

InterestRate(policy, amount, treasury) ==
    LET spread == policy.max_interest_rate - policy.min_interest_rate
    IN  Lesser(policy.min_interest_rate
                 + CeilDiv(LoanRatio(amount, treasury) * spread, BASIS_POINTS),
               policy.max_interest_rate)

Interest(policy, amount, treasury) ==
    LET rate == InterestRate(policy, amount, treasury)
    IN  IF amount > 0 /\ rate > 0 THEN BpsCeil(amount, rate) ELSE 0

TotalRepayment(policy, amount, treasury) ==
    amount + Interest(policy, amount, treasury)

(* request_loan and approve_and_disburse: the treasury exposure limit. *)
MaxLoan(policy, treasury) ==
    (treasury * policy.max_loan_to_treasury_ratio) \div BASIS_POINTS

(* The overdue surcharge, and the part of a contribution a default takes. *)
OverduePenalty(policy, outstanding) ==
    IF outstanding > 0 /\ policy.default_penalty_bps > 0
    THEN BpsCeil(outstanding, policy.default_penalty_bps)
    ELSE 0

DefaultPenalty(policy, contribution) ==
    IF contribution > 0 /\ policy.default_penalty_bps > 0
    THEN Lesser(BpsCeil(contribution, policy.default_penalty_bps), contribution)
    ELSE 0

(* share_from_contributions: pro rata of the treasury, rounded down. *)
ShareFromContributions(treasury, contribution, total) ==
    IF total <= 0 \/ treasury <= 0 \/ contribution <= 0 THEN 0
    ELSE (treasury * contribution) \div total
============================================================================
