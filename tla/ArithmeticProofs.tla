-------------------------- MODULE ArithmeticProofs --------------------------
(***************************************************************************)
(* The contract's arithmetic, proved for every input: the consensus bar,     *)
(* loan pricing, and the integer root with the voting boost taken of it.     *)
(***************************************************************************)
EXTENDS MCArithmetic, WellFoundedInduction, NaturalsInduction, TLAPS

-----------------------------------------------------------------------------
(* The walk over the inputs.                                                 *)
InputInRange == n \in 0 .. MaxInput

(* Every input walked is a number within the bound.                          *)
THEOREM InputsInRange == Spec => []InputInRange
<1>1. Init => InputInRange
  BY ArithmeticAssumption DEF Init, InputInRange
<1>2. InputInRange /\ [Advance]_n => InputInRange'
  BY ArithmeticAssumption DEF InputInRange, Advance
<1>. QED  BY <1>1, <1>2, PTL DEF Spec

-----------------------------------------------------------------------------
(* Consensus.                                                                *)

(* The bar of a ballot is the least number of votes that make up the         *)
(* threshold's share of the active members, never none of them and never     *)
(* more than there are (required_votes).                                     *)
LEMMA BarIsLeastAlways ==
    ASSUME NEW active \in Nat, NEW t \in 1 .. BASIS_POINTS
    PROVE  LET bar == RequiredVotes(active, t)
           IN  /\ bar * BASIS_POINTS >= active * t
               /\ bar > 0 => (bar - 1) * BASIS_POINTS < active * t
               /\ bar <= active
               /\ active > 0 => bar > 0
<1>. DEFINE x == active * t
            bar == (x + BASIS_POINTS - 1) \div BASIS_POINTS
<1>1. x \in Nat /\ active * BASIS_POINTS \in Nat
  BY DEF BASIS_POINTS
<1>2. x <= active * BASIS_POINTS /\ (active > 0 => x > 0)
  BY DEF BASIS_POINTS
<1>3. RequiredVotes(active, t) = bar
  BY DEF RequiredVotes, BpsCeil
<1>. HIDE DEF x
<1>4. /\ bar \in Nat
      /\ bar * BASIS_POINTS >= x
      /\ (bar - 1) * BASIS_POINTS < x
      /\ x > 0 => bar > 0
  BY <1>1 DEF BASIS_POINTS
<1>5. bar <= active
  BY <1>1, <1>2 DEF BASIS_POINTS
<1>. HIDE DEF bar
<1>. QED  BY <1>2, <1>3, <1>4, <1>5 DEF x

(* The bar is least for every number of active members and every threshold.  *)
THEOREM BarAlwaysLeast == Spec => []BarIsLeast
<1>1. InputInRange => BarIsLeast
  <2>. SUFFICES ASSUME InputInRange, NEW t \in Thresholds
                PROVE  LET bar == RequiredVotes(n, t)
                       IN  /\ bar * BASIS_POINTS >= n * t
                           /\ bar > 0 => (bar - 1) * BASIS_POINTS < n * t
                           /\ bar <= n
    BY DEF BarIsLeast
  <2>1. n \in Nat /\ t \in 1 .. BASIS_POINTS
    BY ArithmeticAssumption DEF InputInRange
  <2>. QED  BY <2>1, BarIsLeastAlways
<1>. QED  BY <1>1, InputsInRange, PTL

-----------------------------------------------------------------------------
(* Loan pricing.                                                             *)

(* A quotient rounded up is the least number that makes up the dividend.     *)
LEMMA RoundedUp ==
    ASSUME NEW x \in Nat, NEW y \in Nat \ {0}
    PROVE  /\ CeilDiv(x, y) \in Nat
           /\ CeilDiv(x, y) * y >= x
           /\ \A z \in Nat : z * y >= x => CeilDiv(x, y) <= z
<1>. DEFINE q == x \div y
            r == x % y
<1>1. /\ q \in Nat /\ r \in 0 .. y - 1
      /\ x = q * y + r
  OBVIOUS
<1>2. CeilDiv(x, y) = q + (IF r # 0 THEN 1 ELSE 0)
  BY DEF CeilDiv
<1>. HIDE DEF q, r
<1>3. CASE r = 0
  <2>1. CeilDiv(x, y) = q /\ x = q * y
    BY <1>1, <1>2, <1>3
  <2>2. ASSUME NEW z \in Nat, z < q PROVE z * y < q * y
    BY <1>1, <2>2
  <2>. QED  BY <1>1, <2>1, <2>2
<1>4. CASE r # 0
  <2>1. CeilDiv(x, y) = q + 1 /\ (q + 1) * y = q * y + y
    BY <1>1, <1>2, <1>4
  <2>2. ASSUME NEW z \in Nat, z <= q PROVE z * y <= q * y
    BY <1>1, <2>2
  <2>. QED  BY <1>1, <1>4, <2>1, <2>2
<1>. QED  BY <1>3, <1>4

(* Adding BP - 1 before the division rounds up in the same way.              *)
LEMMA BpsRoundedUp ==
    ASSUME NEW amount \in Nat, NEW bps \in 0 .. BASIS_POINTS
    PROVE  /\ BpsCeil(amount, bps) \in Nat
           /\ BpsCeil(amount, bps) * BASIS_POINTS >= amount * bps
           /\ BpsCeil(amount, bps) <= amount
<1>. DEFINE x == amount * bps
<1>1. x \in Nat /\ x <= amount * BASIS_POINTS
  BY DEF BASIS_POINTS
<1>2. BpsCeil(amount, bps) = (x + BASIS_POINTS - 1) \div BASIS_POINTS
  BY DEF BpsCeil
<1>. HIDE DEF x
<1>3. /\ (x + BASIS_POINTS - 1) \div BASIS_POINTS \in Nat
      /\ ((x + BASIS_POINTS - 1) \div BASIS_POINTS) * BASIS_POINTS >= x
      /\ (x + BASIS_POINTS - 1) \div BASIS_POINTS <= amount
  BY <1>1 DEF BASIS_POINTS
<1>. QED  BY <1>2, <1>3 DEF x

(* A loan's ratio is at most the whole and at least its share of the         *)
(* treasury.                                                                 *)
LEMMA RatioRoundedUp ==
    ASSUME NEW amount \in Nat, NEW treasury \in Nat
    PROVE  /\ LoanRatio(amount, treasury) \in 0 .. BASIS_POINTS
           /\ LoanRatio(amount, treasury) * treasury
                >= BASIS_POINTS * Lesser(amount, treasury)
<1>1. CASE treasury = 0
  <2>1. LoanRatio(amount, treasury) = BASIS_POINTS
    BY <1>1 DEF LoanRatio
  <2>2. Lesser(amount, treasury) = 0
    BY <1>1 DEF Lesser
  <2>. QED  BY <1>1, <2>1, <2>2 DEF BASIS_POINTS
<1>2. CASE treasury # 0
  <2>. DEFINE x == amount * BASIS_POINTS
              q == CeilDiv(x, treasury)
  <2>1. x \in Nat
    BY DEF BASIS_POINTS
  <2>2. q \in Nat /\ q * treasury >= x
    <3>. HIDE DEF x
    <3>. QED  BY <2>1, <1>2, RoundedUp
  <2>3. LoanRatio(amount, treasury) = IF q <= BASIS_POINTS THEN q ELSE BASIS_POINTS
    BY <1>2 DEF LoanRatio, Lesser
  <2>4. Lesser(amount, treasury) \in Nat /\ Lesser(amount, treasury) <= amount
        /\ Lesser(amount, treasury) <= treasury
    BY DEF Lesser
  <2>. HIDE DEF q
  <2>5. CASE q <= BASIS_POINTS
    <3>1. x >= BASIS_POINTS * Lesser(amount, treasury)
      BY <2>4 DEF BASIS_POINTS
    <3>2. LoanRatio(amount, treasury) = q
      BY <2>3, <2>5
    <3>3. q * treasury \in Nat
      BY <2>2
    <3>4. BASIS_POINTS * Lesser(amount, treasury) \in Nat
      BY <2>4 DEF BASIS_POINTS
    <3>. HIDE DEF x
    <3>5. q * treasury >= BASIS_POINTS * Lesser(amount, treasury)
      BY <3>1, <3>3, <3>4, <2>1, <2>2
    <3>. QED  BY <3>2, <3>5, <2>2, <2>5 DEF BASIS_POINTS
  <2>6. CASE ~ (q <= BASIS_POINTS)
    <3>1. BASIS_POINTS * treasury >= BASIS_POINTS * Lesser(amount, treasury)
      BY <2>4 DEF BASIS_POINTS
    <3>2. LoanRatio(amount, treasury) = BASIS_POINTS
      BY <2>3, <2>6
    <3>. QED  BY <3>1, <3>2 DEF BASIS_POINTS
  <2>. QED  BY <2>5, <2>6
<1>. QED  BY <1>1, <1>2

(* The rate is within the band and no less than the exact share of it.       *)
LEMMA QuoteOnTheTreasurysSide ==
    ASSUME NEW amount \in Nat, NEW treasury \in Nat,
           NEW low \in 0 .. BASIS_POINTS, NEW high \in 0 .. BASIS_POINTS, low <= high,
           NEW p, p = [min_interest_rate |-> low, max_interest_rate |-> high]
    PROVE  LET rate == InterestRate(p, amount, treasury)
               share == Lesser(amount, treasury)
           IN  /\ rate \in low .. high
               /\ (rate - low) * treasury >= share * (high - low)
<1>. DEFINE ratio == LoanRatio(amount, treasury)
            spread == high - low
            x == ratio * spread
            extra == CeilDiv(x, BASIS_POINTS)
            rate == InterestRate(p, amount, treasury)
            share == Lesser(amount, treasury)
<1>1. ratio \in 0 .. BASIS_POINTS /\ ratio * treasury >= BASIS_POINTS * share
  BY RatioRoundedUp
<1>2. spread \in Nat /\ low \in Nat /\ high \in Nat
  BY DEF BASIS_POINTS
<1>3. rate = IF low + extra <= high THEN low + extra ELSE high
  BY DEF InterestRate, Lesser
<1>4. share \in Nat /\ share <= treasury
  BY DEF Lesser
<1>. HIDE DEF ratio, share
<1>5. x \in Nat /\ BASIS_POINTS \in Nat \ {0}
  BY <1>1, <1>2 DEF BASIS_POINTS
<1>6. extra \in Nat /\ extra * BASIS_POINTS >= x
  <2>. HIDE DEF x
  <2>. QED  BY <1>5, RoundedUp
<1>. HIDE DEF rate, extra
<1>7. rate \in low .. high
  BY <1>2, <1>3, <1>6
<1>8. (rate - low) * treasury >= share * spread
  <2>1. CASE low + extra <= high
    <3>1. rate - low = extra
      BY <2>1, <1>2, <1>3, <1>6
    <3>. HIDE DEF spread
    <3>2. (extra * BASIS_POINTS) * treasury >= x * treasury
      <4>. DEFINE eb == extra * BASIS_POINTS
      <4>1. eb \in Nat /\ eb >= x /\ x \in Nat
        BY <1>5, <1>6
      <4>. HIDE DEF eb, x
      <4>. QED  BY <4>1 DEF eb
    <3>3. (ratio * treasury) * spread >= (BASIS_POINTS * share) * spread
      <4>. DEFINE rt == ratio * treasury
                  bs == BASIS_POINTS * share
      <4>1. rt \in Nat /\ bs \in Nat /\ rt >= bs
        BY <1>1, <1>4 DEF BASIS_POINTS
      <4>. HIDE DEF rt, bs
      <4>. QED  BY <4>1, <1>2 DEF rt, bs
    <3>4. x * treasury = (ratio * treasury) * spread
      BY <1>1, <1>2 DEF BASIS_POINTS
    <3>5. /\ (extra * BASIS_POINTS) * treasury = BASIS_POINTS * (extra * treasury)
          /\ (BASIS_POINTS * share) * spread = BASIS_POINTS * (share * spread)
      BY <1>2, <1>4, <1>6 DEF BASIS_POINTS
    <3>6. extra * treasury >= share * spread
      <4>. DEFINE et == extra * treasury
                  ss == share * spread
                  mid == x * treasury
      <4>1. et \in Nat /\ ss \in Nat /\ mid \in Nat
        BY <1>2, <1>4, <1>5, <1>6
      <4>2. BASIS_POINTS * et >= mid
        BY <3>2, <3>5
      <4>3. mid >= BASIS_POINTS * ss
        BY <3>3, <3>4, <3>5
      <4>. HIDE DEF et, ss, mid
      <4>4. et >= ss
        BY <4>1, <4>2, <4>3 DEF BASIS_POINTS
      <4>. QED  BY <4>4 DEF et, ss
    <3>. QED  BY <3>1, <3>6
  <2>2. CASE ~ (low + extra <= high)
    <3>1. rate - low = spread
      BY <2>2, <1>3
    <3>. HIDE DEF spread
    <3>2. spread * treasury >= share * spread
      BY <1>2, <1>4
    <3>. QED  BY <3>1, <3>2
  <2>. QED  BY <2>1, <2>2
<1>. QED  BY <1>7, <1>8 DEF rate, share

(* A quote errs on the treasury's side and stays within the policy's band,   *)
(* for every amount, rate and treasury: three roundings, each upwards.       *)
THEOREM QuoteAlwaysFavoursTreasury == Spec => []QuoteFavoursTreasury
<1>1. InputInRange => QuoteFavoursTreasury
  <2>. SUFFICES ASSUME InputInRange, NEW amount \in Amounts,
                       NEW low \in Rates, NEW high \in Rates, low <= high
                PROVE  LET p == [min_interest_rate |-> low, max_interest_rate |-> high]
                           rate == InterestRate(p, amount, n)
                           share == IF amount <= n THEN amount ELSE n
                       IN  /\ rate \in low .. high
                           /\ n > 0 => (rate - low) * n >= share * (high - low)
                           /\ Interest(p, amount, n) * BASIS_POINTS >= amount * rate
                           /\ Interest(p, amount, n) <= amount
    BY Zenon DEF QuoteFavoursTreasury
  <2>1. /\ n \in Nat /\ amount \in Nat
        /\ low \in 0 .. BASIS_POINTS /\ high \in 0 .. BASIS_POINTS
    BY ArithmeticAssumption DEF InputInRange
  <2>. DEFINE p == [min_interest_rate |-> low, max_interest_rate |-> high]
              rate == InterestRate(p, amount, n)
              share == Lesser(amount, n)
  <2>2. rate \in low .. high /\ (rate - low) * n >= share * (high - low)
    BY <2>1, QuoteOnTheTreasurysSide, Zenon
  <2>3. share = IF amount <= n THEN amount ELSE n
    BY DEF Lesser
  <2>. DEFINE interest == Interest(p, amount, n)
  <2>4. interest = IF amount > 0 /\ rate > 0 THEN BpsCeil(amount, rate) ELSE 0
    BY Zenon DEF Interest
  <2>. HIDE DEF rate, share
  <2>5. rate \in 0 .. BASIS_POINTS
    BY <2>1, <2>2 DEF BASIS_POINTS
  <2>. HIDE DEF interest
  <2>6. interest * BASIS_POINTS >= amount * rate /\ interest <= amount
    <3>1. CASE amount > 0 /\ rate > 0
      BY <2>1, <2>4, <2>5, <3>1, BpsRoundedUp, Zenon
    <3>2. CASE ~ (amount > 0 /\ rate > 0)
      <4>1. interest = 0 /\ (amount = 0 \/ rate = 0)
        BY <2>1, <2>4, <2>5, <3>2
      <4>2. amount * rate = 0
        BY <2>1, <2>5, <4>1 DEF BASIS_POINTS
      <4>. QED  BY <2>1, <4>1, <4>2 DEF BASIS_POINTS
    <3>. QED  BY <3>1, <3>2
  <2>. QED  BY <2>2, <2>3, <2>6, Zenon DEF rate, interest
<1>. QED  BY <1>1, InputsInRange, PTL

-----------------------------------------------------------------------------
(* The integer root, by the bits the loop finds.                             *)

(* Among any natural numbers there is a least: induction, by a least         *)
(* counterexample.                                                           *)
LEMMA LeastNumber ==
    ASSUME NEW Bad, Bad \subseteq Nat, Bad # {}
    PROVE  \E m \in Bad : \A k \in Bad : m <= k
<1>1. IsWellFoundedOn(OpToRel(<, Nat), Nat)
  BY NatLessThanWellFounded
<1>2. PICK m \in Bad : \A k \in Bad : ~ (<<k, m>> \in OpToRel(<, Nat))
  BY <1>1, WFMin
<1>3. ASSUME NEW k \in Bad, k < m PROVE <<k, m>> \in OpToRel(<, Nat)
  BY <1>3 DEF OpToRel
<1>4. ASSUME NEW k \in Bad PROVE m <= k
  <2>1. ~ (k < m)
    BY <1>2, <1>3
  <2>2. k \in Nat /\ m \in Nat
    OBVIOUS
  <2>. QED BY <2>1, <2>2
<1>. QED BY <1>4

(* The values a loop over the bits leaves, from the top bit down to bit 0.   *)
IsWalk(after, top, start, bit) ==
    after = [k \in 0 .. top + 1 |->
               IF k = top + 1 THEN start ELSE IsqrtStep(after[k + 1], bit[k])]

(* Such values exist, for every number of bits.                              *)
LEMMA WalkExists ==
    ASSUME NEW top \in Nat, NEW start, NEW bit
    PROVE  \E after : IsWalk(after, top, start, bit)
<1>. DEFINE Reaches(f, j) ==
              /\ f = [k \in 0 .. top + 1 |-> f[k]]
              /\ f[top + 1] = start
              /\ \A k \in j .. top : f[k] = IsqrtStep(f[k + 1], bit[k])
            Stuck == {d \in 0 .. top + 1 : ~ \E f : Reaches(f, top + 1 - d)}
<1>1. Stuck = {}
  <2>. SUFFICES ASSUME Stuck # {} PROVE FALSE
    OBVIOUS
  <2>1. PICK d \in Stuck : \A e \in Stuck : d <= e
    <3>1. Stuck \subseteq Nat
      OBVIOUS
    <3>. HIDE DEF Stuck
    <3>. QED  BY <3>1, LeastNumber
  <2>2. CASE d = 0
    <3>. DEFINE f == [k \in 0 .. top + 1 |-> start]
    <3>1. Reaches(f, top + 1)
      OBVIOUS
    <3>. QED  BY <2>2, <3>1
  <2>3. CASE d # 0
    <3>1. d \in 1 .. top + 1 /\ d - 1 \notin Stuck /\ d - 1 \in 0 .. top + 1
      BY <2>1, <2>3
    <3>2. PICK f : Reaches(f, top + 1 - (d - 1))
      BY <3>1
    <3>. DEFINE j == top + 1 - d
                g == [k \in 0 .. top + 1 |->
                        IF k = j THEN IsqrtStep(f[j + 1], bit[j]) ELSE f[k]]
    <3>3. j \in 0 .. top /\ top + 1 - (d - 1) = j + 1
      BY <3>1
    <3>. HIDE DEF j
    <3>4. g[top + 1] = start
      BY <3>2, <3>3
    <3>5. ASSUME NEW k \in j .. top PROVE g[k] = IsqrtStep(g[k + 1], bit[k])
      <4>1. k + 1 \in j + 1 .. top + 1 /\ g[k + 1] = f[k + 1]
        BY <3>3
      <4>2. CASE k = j
        BY <4>1, <4>2, <3>3
      <4>3. CASE k # j
        <5>1. k \in j + 1 .. top /\ g[k] = f[k]
          BY <4>3, <3>3
        <5>2. f[k] = IsqrtStep(f[k + 1], bit[k])
          BY <5>1, <3>2, <3>3
        <5>. QED BY <5>1, <5>2, <4>1
      <4>. QED BY <4>2, <4>3
    <3>6. Reaches(g, j)
      BY <3>4, <3>5
    <3>. QED  BY <3>6, <2>1 DEF j
  <2>. QED  BY <2>2, <2>3
<1>2. PICK f : Reaches(f, 0)
  <2>1. top + 1 \in 0 .. top + 1 /\ top + 1 - (top + 1) = 0
    OBVIOUS
  <2>2. \E f : Reaches(f, top + 1 - (top + 1))
    <3>. HIDE DEF Reaches
    <3>. QED  BY <1>1, <2>1
  <2>. QED  BY <2>1, <2>2
<1>3. IsWalk(f, top, start, bit)
  <2>1. \A k \in 0 .. top + 1 :
           f[k] = IF k = top + 1 THEN start ELSE IsqrtStep(f[k + 1], bit[k])
    BY <1>2
  <2>. QED BY <1>2, <2>1 DEF IsWalk
<1>. QED  BY <1>3

(* The part of the root found with a step of h: a multiple R of it is in     *)
(* the loop's `root`, scaled by h, the root is less than h past it, and      *)
(* what is left of x is in `remainder`.                                      *)
PartOfRoot(x, h, s) ==
    \E R \in Nat : /\ R * R <= x /\ x < (R + h) * (R + h)
                  /\ s = [remainder |-> x - R * R, root |-> R * h]

(* One turn of the loop halves the step and finds the next bit.              *)
LEMMA TurnFindsNextBit ==
    ASSUME NEW x \in Nat, NEW h \in Nat, NEW s, PartOfRoot(x, 2 * h, s)
    PROVE  PartOfRoot(x, h, IsqrtStep(s, h * h))
<1>. PICK R \in Nat : /\ R * R <= x /\ x < (R + 2 * h) * (R + 2 * h)
                      /\ s = [remainder |-> x - R * R, root |-> R * (2 * h)]
  BY DEF PartOfRoot
<1>. DEFINE RR == R * R  Rh == R * h  hh == h * h
<1>0. RR \in Nat /\ Rh \in Nat /\ hh \in Nat
  OBVIOUS
<1>1. /\ R * (2 * h) = 2 * Rh
      /\ (R + h) * (R + h) = RR + 2 * Rh + hh
      /\ (R + h) * h = Rh + hh
      /\ ((R + h) + h) * ((R + h) + h) = (R + 2 * h) * (R + 2 * h)
  OBVIOUS
<1>2. (2 * Rh) \div 2 = Rh
  BY <1>0
<1>3. s.remainder = x - RR /\ s.root = 2 * Rh /\ h * h = hh
  BY <1>1
<1>4. CASE x - RR >= 2 * Rh + hh
  <2>1. (R + h) * (R + h) <= x
    BY <1>4, <1>1, <1>0
  <2>2. IsqrtStep(s, h * h) = [remainder |-> x - (R + h) * (R + h), root |-> (R + h) * h]
    <3>1. /\ (x - RR) - (2 * Rh + hh) = x - (R + h) * (R + h)
          /\ (2 * Rh) \div 2 + hh = (R + h) * h
      BY <1>0, <1>1, <1>2
    <3>. HIDE DEF RR, Rh, hh
    <3>. QED  BY <1>3, <1>4, <3>1 DEF IsqrtStep
  <2>3. x < ((R + h) + h) * ((R + h) + h)
    BY <1>1
  <2>4. R + h \in Nat
    OBVIOUS
  <2>. QED  BY <2>1, <2>2, <2>3, <2>4 DEF PartOfRoot
<1>5. CASE ~ (x - RR >= 2 * Rh + hh)
  <2>1. x < (R + h) * (R + h)
    BY <1>5, <1>1, <1>0
  <2>2. IsqrtStep(s, h * h) = [remainder |-> x - R * R, root |-> R * h]
    <3>. HIDE DEF Rh, hh
    <3>. QED  BY <1>3, <1>5, <1>2 DEF IsqrtStep, Rh
  <2>. QED  BY <2>1, <2>2 DEF PartOfRoot
<1>. QED  BY <1>4, <1>5

(* The bits of the loop are the squares of the powers of two.                *)
LoopBits(half, bit, top) ==
    /\ half \in [0 .. top + 1 -> Nat]
    /\ half[0] = 1
    /\ \A k \in 0 .. top : half[k + 1] = 2 * half[k] /\ bit[k] = half[k] * half[k]

(* A number with no more bits than the loop has.                             *)
Within(x, half) == x < half * half

(* So the loop finds the integer root, for every number of bits: the 15 of   *)
(* the model and the 64 of the code alike.                                   *)
LEMMA WalkFindsRoot ==
    ASSUME NEW top \in Nat, NEW x \in Nat, NEW half, NEW bit,
           LoopBits(half, bit, top), Within(x, half[top + 1]),
           NEW after, IsWalk(after, top, [remainder |-> x, root |-> 0], bit)
    PROVE  /\ after[0].root \in Nat
           /\ after[0].root * after[0].root <= x
           /\ x < (after[0].root + 1) * (after[0].root + 1)
<1>. DEFINE Sound(k) == PartOfRoot(x, half[k], after[k])
            Lost == {d \in 0 .. top + 1 : ~ Sound(top + 1 - d)}
            step(j) == IF j = top + 1 THEN [remainder |-> x, root |-> 0]
                       ELSE IsqrtStep(after[j + 1], bit[j])
<1>0. \A k \in 0 .. top + 1 : after[k] = step(k)
  <2>1. after = [j \in 0 .. top + 1 |-> step(j)]
    BY Zenon DEF IsWalk
  <2>. HIDE DEF step
  <2>. QED  BY <2>1, Zenon
<1>1. Sound(top + 1)
  <2>1. after[top + 1] = [remainder |-> x, root |-> 0]
    <3>1. top + 1 \in 0 .. top + 1
      OBVIOUS
    <3>. QED  BY <1>0, <3>1
  <2>2. half[top + 1] \in Nat
    BY DEF LoopBits
  <2>3. /\ 0 * 0 = 0 /\ x - 0 * 0 = x
        /\ 0 + half[top + 1] = half[top + 1] /\ 0 * half[top + 1] = 0
    BY <2>2
  <2>4. after[top + 1] = [remainder |-> x - 0 * 0, root |-> 0 * half[top + 1]]
    BY <2>1, <2>3
  <2>5. 0 * 0 <= x /\ x < (0 + half[top + 1]) * (0 + half[top + 1])
    BY <2>3 DEF Within
  <2>. QED  BY <2>4, <2>5 DEF PartOfRoot
<1>2. ASSUME NEW k \in 0 .. top, Sound(k + 1) PROVE Sound(k)
  <2>1. k \in 0 .. top + 1 /\ k # top + 1
    OBVIOUS
  <2>2. half[k] \in Nat
    BY <2>1 DEF LoopBits
  <2>3. half[k + 1] = 2 * half[k] /\ bit[k] = half[k] * half[k]
    BY Zenon DEF LoopBits
  <2>4. after[k] = IsqrtStep(after[k + 1], half[k] * half[k])
    BY <1>0, <2>1, <2>3
  <2>5. PartOfRoot(x, half[k], IsqrtStep(after[k + 1], half[k] * half[k]))
    BY <1>2, <2>2, <2>3, TurnFindsNextBit, Zenon
  <2>. QED  BY <2>4, <2>5, Zenon
<1>3. Lost = {}
  <2>. SUFFICES ASSUME Lost # {} PROVE FALSE
    OBVIOUS
  <2>1. PICK d \in Lost : \A e \in Lost : d <= e
    <3>1. Lost \subseteq Nat
      OBVIOUS
    <3>. HIDE DEF Lost
    <3>. QED  BY <3>1, LeastNumber
  <2>. HIDE DEF Sound
  <2>2. d # 0
    BY <1>1
  <2>3. d \in 1 .. top + 1 /\ d - 1 \in 0 .. top + 1 /\ d - 1 \notin Lost
    <3>1. d \in 0 .. top + 1
      OBVIOUS
    <3>2. d \in 1 .. top + 1 /\ d - 1 \in 0 .. top + 1 /\ ~ (d <= d - 1)
      BY <3>1, <2>2
    <3>. QED  BY <3>2, <2>1
  <2>4. Sound(top + 1 - (d - 1))
    BY <2>3
  <2>5. top + 1 - (d - 1) = (top + 1 - d) + 1 /\ top + 1 - d \in 0 .. top
    BY <2>3
  <2>6. Sound(top + 1 - d)
    BY <1>2, <2>4, <2>5
  <2>. QED  BY <2>6
<1>4. Sound(0)
  <2>1. top + 1 \in 0 .. top + 1 /\ top + 1 - (top + 1) = 0
    OBVIOUS
  <2>. HIDE DEF Sound
  <2>. QED  BY <1>3, <2>1
<1>5. PICK R \in Nat :
        /\ R * R <= x /\ x < (R + half[0]) * (R + half[0])
        /\ after[0] = [remainder |-> x - R * R, root |-> R * half[0]]
  BY <1>4 DEF PartOfRoot
<1>6. half[0] = 1 /\ R * 1 = R
  BY DEF LoopBits
<1>7. after[0].root = R /\ x < (R + 1) * (R + 1)
  BY <1>5, <1>6
<1>. QED  BY <1>5, <1>7

(* The bits isqrt takes are such bits.                                       *)
LEMMA CodeBits ==
    LoopBits([k \in 0 .. IsqrtTopBit + 1 |-> 2 ^ k], [k \in 0 .. IsqrtTopBit + 1 |-> 4 ^ k],
             IsqrtTopBit)
<1>. DEFINE half == [k \in 0 .. IsqrtTopBit + 1 |-> 2 ^ k]
            bit == [k \in 0 .. IsqrtTopBit + 1 |-> 4 ^ k]
            Good(k) == 2 ^ (k + 1) = 2 * 2 ^ k /\ 4 ^ k = 2 ^ k * 2 ^ k /\ 2 ^ k \in Nat
<1>1. /\ Good(0) /\ Good(1) /\ Good(2) /\ Good(3) /\ Good(4) /\ Good(5) /\ Good(6)
      /\ Good(7) /\ Good(8) /\ Good(9) /\ Good(10) /\ Good(11) /\ Good(12)
      /\ Good(13) /\ Good(14) /\ Good(15)
  OBVIOUS
<1>2. ASSUME NEW k \in 0 .. IsqrtTopBit + 1 PROVE Good(k)
  <2>. HIDE DEF Good
  <2>1. \/ k = 0 \/ k = 1 \/ k = 2 \/ k = 3 \/ k = 4 \/ k = 5 \/ k = 6 \/ k = 7 \/ k = 8
        \/ k = 9 \/ k = 10 \/ k = 11 \/ k = 12 \/ k = 13 \/ k = 14 \/ k = 15
    BY DEF IsqrtTopBit
  <2>. QED  BY <1>1, <2>1, Zenon
<1>3. half \in [0 .. IsqrtTopBit + 1 -> Nat]
  BY <1>2
<1>4. half[0] = 1
  <2>1. 2 ^ 0 = 1 /\ 0 \in 0 .. IsqrtTopBit + 1
    BY DEF IsqrtTopBit
  <2>. QED  BY <2>1, Zenon
<1>5. ASSUME NEW k \in 0 .. IsqrtTopBit
      PROVE  half[k + 1] = 2 * half[k] /\ bit[k] = half[k] * half[k]
  <2>1. k \in 0 .. IsqrtTopBit + 1 /\ k + 1 \in 0 .. IsqrtTopBit + 1
    BY DEF IsqrtTopBit
  <2>2. half[k + 1] = 2 ^ (k + 1) /\ half[k] = 2 ^ k /\ bit[k] = 4 ^ k
    BY <2>1, Zenon
  <2>3. Good(k)
    BY <1>2, <2>1
  <2>. HIDE DEF half, bit
  <2>. QED  BY <2>2, <2>3, Zenon
<1>. HIDE DEF half, bit
<1>6. LoopBits(half, bit, IsqrtTopBit)
  BY <1>3, <1>4, <1>5, Zenon DEF LoopBits
<1>. QED  BY <1>6 DEF half, bit

(* isqrt is the exact integer root of every number its loop has the bits     *)
(* for.                                                                      *)
LEMMA IsqrtIsExact ==
    ASSUME NEW x \in Nat, x < 4 ^ (IsqrtTopBit + 1)
    PROVE  /\ Isqrt(x) \in Nat
           /\ Isqrt(x) * Isqrt(x) <= x
           /\ x < (Isqrt(x) + 1) * (Isqrt(x) + 1)
<1>1. CASE x = 0
  <2>1. Isqrt(x) = 0
    BY <1>1 DEF Isqrt
  <2>. QED  BY <1>1, <2>1
<1>2. CASE x # 0
  <2>. DEFINE half == [k \in 0 .. IsqrtTopBit + 1 |-> 2 ^ k]
              bit == [k \in 0 .. IsqrtTopBit + 1 |-> 4 ^ k]
              start == [remainder |-> x, root |-> 0]
              body(g) == [k \in 0 .. IsqrtTopBit + 1 |->
                            IF k = IsqrtTopBit + 1 THEN start
                            ELSE IsqrtStep(g[k + 1], 4 ^ k)]
              after == CHOOSE g : g = body(g)
  <2>1. \E g : g = body(g)
    <3>1. PICK g : IsWalk(g, IsqrtTopBit, start, bit)
      <4>1. IsqrtTopBit \in Nat
        BY DEF IsqrtTopBit
      <4>. HIDE DEF start, bit
      <4>. QED  BY <4>1, WalkExists, Zenon
    <3>2. g = body(g)
      <4>1. g = [k \in 0 .. IsqrtTopBit + 1 |->
                   IF k = IsqrtTopBit + 1 THEN start ELSE IsqrtStep(g[k + 1], bit[k])]
        BY <3>1, Zenon DEF IsWalk
      <4>2. \A k \in 0 .. IsqrtTopBit + 1 : bit[k] = 4 ^ k
        BY Zenon
      <4>. HIDE DEF bit, start
      <4>. QED  BY <4>1, <4>2
    <3>. QED  BY <3>2
  <2>2. after = body(after)
    <3>. HIDE DEF body
    <3>. QED  BY <2>1, Zenon
  <2>3. IsWalk(after, IsqrtTopBit, start, bit)
    <3>2. \A k \in 0 .. IsqrtTopBit + 1 : bit[k] = 4 ^ k
      BY Zenon
    <3>. HIDE DEF bit, start, after
    <3>. QED  BY <2>2, <3>2 DEF IsWalk
  <2>4. Isqrt(x) = after[0].root
    <3>1. ~ (x <= 0)
      BY <1>2
    <3>2. Isqrt(x) = IF x <= 0 THEN 0 ELSE after[0].root
      BY Zenon DEF Isqrt
    <3>. QED  BY <3>1, <3>2, Zenon
  <2>5. Within(x, half[IsqrtTopBit + 1])
    <3>1. half[IsqrtTopBit + 1] = 2 ^ (IsqrtTopBit + 1)
      <4>1. IsqrtTopBit + 1 \in 0 .. IsqrtTopBit + 1
        BY DEF IsqrtTopBit
      <4>. QED  BY <4>1, Zenon
    <3>2. 4 ^ (IsqrtTopBit + 1) = 2 ^ (IsqrtTopBit + 1) * 2 ^ (IsqrtTopBit + 1)
      BY DEF IsqrtTopBit
    <3>. HIDE DEF half
    <3>. QED  BY <3>1, <3>2, Zenon DEF Within
  <2>6. LoopBits(half, bit, IsqrtTopBit) /\ IsqrtTopBit \in Nat
    BY CodeBits DEF IsqrtTopBit
  <2>. HIDE DEF half, bit, after
  <2>7. /\ after[0].root \in Nat
        /\ after[0].root * after[0].root <= x
        /\ x < (after[0].root + 1) * (after[0].root + 1)
    BY <2>3, <2>5, <2>6, WalkFindsRoot, Zenon
  <2>. QED  BY <2>4, <2>7, Zenon
<1>. QED  BY <1>1, <1>2, Zenon

(* The root is exact for every input.                                        *)
THEOREM RootAlwaysExact == Spec => []RootExact
<1>1. InputInRange => RootExact
  <2>. SUFFICES ASSUME InputInRange PROVE RootExact
    OBVIOUS
  <2>1. n \in Nat
    BY ArithmeticAssumption DEF InputInRange
  <2>2. n < 4 ^ (IsqrtTopBit + 1)
    BY <2>1, ArithmeticAssumption DEF InputInRange, IsqrtTopBit
  <2>. QED  BY <2>1, <2>2, IsqrtIsExact, Zenon DEF RootExact
<1>. QED  BY <1>1, InputsInRange, PTL

(* A stake buys k votes exactly when it reaches k * k units, up to the cap,  *)
(* whatever is staked.                                                       *)
THEOREM BoostAlwaysOnCurve == Spec => []BoostCurve
<1>1. InputInRange => BoostCurve
  <2>. SUFFICES ASSUME InputInRange PROVE BoostCurve
    OBVIOUS
  <2>1. n \in Nat
    BY ArithmeticAssumption DEF InputInRange
  <2>2. n < 4 ^ (IsqrtTopBit + 1)
    BY <2>1, ArithmeticAssumption DEF InputInRange, IsqrtTopBit
  <2>3. CASE n = 0
    <3>1. StakeBoost(n) = 0
      BY <2>3 DEF StakeBoost
    <3>. QED  BY <3>1, <2>3 DEF BoostCurve, MAX_STAKE_BONUS, STAKE_WEIGHT_UNIT
  <2>4. CASE n # 0
    <3>. DEFINE units == n \div STAKE_WEIGHT_UNIT
                root == Isqrt(units)
                k == Lesser(root, MAX_STAKE_BONUS)
    <3>1. units \in Nat /\ units <= n /\ units * 100 <= n /\ n < (units + 1) * 100
      BY <2>1 DEF STAKE_WEIGHT_UNIT
    <3>2. units < 4 ^ (IsqrtTopBit + 1)
      <4>. HIDE DEF units
      <4>. QED  BY <2>1, <2>2, <3>1 DEF IsqrtTopBit
    <3>. HIDE DEF units
    <3>3. root \in Nat /\ root * root <= units /\ units < (root + 1) * (root + 1)
      BY <3>1, <3>2, IsqrtIsExact, Zenon
    <3>. HIDE DEF root
    <3>4. StakeBoost(n) = k
      BY <2>1, <2>4 DEF StakeBoost, units, root
    <3>5. k = IF root <= 5 THEN root ELSE 5
      BY DEF Lesser, MAX_STAKE_BONUS
    <3>. HIDE DEF k
    <3>6. k \in 0 .. 5
      BY <3>5, <3>3
    <3>7. k * k * 100 <= n
      <4>1. k * k <= root * root
        <5>1. k \in Nat /\ k <= root
          BY <3>3, <3>5
        <5>2. k * k <= k * root /\ k * root <= root * root
          BY <3>3, <5>1
        <5>. QED  BY <3>3, <5>1, <5>2
      <4>2. k * k \in Nat /\ root * root \in Nat
        BY <3>3, <3>6
      <4>. DEFINE kk == k * k
                  rr == root * root
      <4>3. kk <= rr /\ rr <= units /\ kk \in Nat /\ rr \in Nat
        BY <4>1, <4>2, <3>3
      <4>. HIDE DEF kk, rr
      <4>4. kk * 100 <= n
        BY <4>3, <3>1, <2>1
      <4>. QED  BY <4>4 DEF kk
    <3>8. k < 5 => n < (k + 1) * (k + 1) * 100
      <4>. SUFFICES ASSUME k < 5 PROVE n < (k + 1) * (k + 1) * 100
        OBVIOUS
      <4>1. k = root
        BY <3>3, <3>5
      <4>2. units + 1 <= (k + 1) * (k + 1) /\ (k + 1) * (k + 1) \in Nat
        BY <3>1, <3>3, <3>6, <4>1
      <4>. QED  BY <2>1, <3>1, <4>2
    <3>. QED  BY <3>4, <3>6, <3>7, <3>8 DEF BoostCurve, MAX_STAKE_BONUS, STAKE_WEIGHT_UNIT
  <2>. QED  BY <2>3, <2>4
<1>. QED  BY <1>1, InputsInRange, PTL
=============================================================================
