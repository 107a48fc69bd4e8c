---------------------------- MODULE MCArithmetic ----------------------------
(***************************************************************************)
(* The contract's arithmetic against definitions that say what each result  *)
(* is, not how it is computed. The one variable walks the inputs; the other *)
(* arguments are quantified over small sets.                                *)
(***************************************************************************)
EXTENDS DaoArithmetic

CONSTANTS MaxInput, Amounts, Thresholds, Rates

ASSUME ArithmeticAssumption ==
    /\ MaxInput \in Nat /\ MaxInput < 4 ^ (IsqrtTopBit + 1)
    /\ Amounts \subseteq Nat
    /\ Thresholds \subseteq 1 .. BASIS_POINTS
    /\ Rates \subseteq 0 .. BASIS_POINTS

VARIABLE n

Init == n = 0
Advance == n < MaxInput /\ n' = n + 1
Spec == Init /\ [][Advance]_n

(* The root the staking curve takes is the exact integer root: never rounded *)
(* up, and exact on perfect squares (isqrt).                                 *)
RootExact ==
    LET root == Isqrt(n) IN root * root <= n /\ n < (root + 1) * (root + 1)

(* A stake of n tokens buys k extra votes exactly when it reaches k * k      *)
(* units, up to the cap (stake_boost, INVARIANTS.md G4): more stake never    *)
(* buys less weight.                                                         *)
BoostCurve ==
    LET k == StakeBoost(n)
        cost(votes) == votes * votes * STAKE_WEIGHT_UNIT
    IN  /\ k \in 0 .. MAX_STAKE_BONUS
        /\ cost(k) <= n
        /\ k < MAX_STAKE_BONUS => n < cost(k + 1)

(* The bar of a ballot is the least number of votes that make up the         *)
(* threshold's share of n active members (required_votes): a minority below  *)
(* it never carries a ballot, and unanimity always can.                      *)
BarIsLeast ==
    \A t \in Thresholds :
        LET bar == RequiredVotes(n, t)
        IN  /\ bar * BASIS_POINTS >= n * t
            /\ bar > 0 => (bar - 1) * BASIS_POINTS < n * t
            /\ bar <= n

(* A quote errs on the treasury's side, and stays within the policy's band:  *)
(* with n tokens in the treasury the interest is at least the exact rate's   *)
(* share of the amount, that rate growing with the amount's exact share of   *)
(* the treasury (quote_terms, INVARIANTS.md G3 and R1).                      *)
QuoteFavoursTreasury ==
    \A amount \in Amounts, low, high \in Rates : low <= high =>
        LET p == [min_interest_rate |-> low, max_interest_rate |-> high]
            rate == InterestRate(p, amount, n)
            share == IF amount <= n THEN amount ELSE n
        IN  /\ rate \in low .. high
            /\ n > 0 => (rate - low) * n >= share * (high - low)
            /\ Interest(p, amount, n) * BASIS_POINTS >= amount * rate
            /\ Interest(p, amount, n) <= amount
============================================================================
