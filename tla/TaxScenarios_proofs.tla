------------------------- MODULE TaxScenarios_proofs -------------------------
(***************************************************************************)
(* What TaxScenarios promises for any sound book of rules, any simulations *)
(* and any amounts.                                                        *)
(*                                                                         *)
(* Two of the properties compare two assessments, and follow from one      *)
(* lemma, ResultFalls: a simulation that spends no less and has something  *)
(* exempt where the other has nothing gets no worse a result.  It is built *)
(* up from the arithmetic of rounding, over the credits and the adjustment *)
(* for exempt income, to the four cases in which a result is calculated.   *)
(* Two follow from what those cases have in common.  The last compares a   *)
(* couple of equals with one of them, amount by amount, and counts the     *)
(* units by which rounding can set them apart.                             *)
(***************************************************************************)
EXTENDS TaxScenarios, FiniteSetTheorems, TLAPS

-----------------------------------------------------------------------------
(* Division and rounding.                                                  *)

\* The order of the naturals, as a relation the library's facts speak of.
LEMMA LessIsWellFounded ==
  \E R : IsWellFoundedOn(R, Nat) /\ \A x, y \in Nat : x < y => <<x, y>> \in R
<1>1. IsWellFoundedOn(OpToRel(<, Nat), Nat)
  BY NatLessThanWellFounded, Zenon
<1>2. \A x, y \in Nat : x < y => <<x, y>> \in OpToRel(<, Nat)
  BY Zenon DEF OpToRel
<1> QED BY <1>1, <1>2, Zenon

\* Every set of naturals with an element has a least one.
LEMMA LeastOf == ASSUME NEW S \in SUBSET Nat, S # {} PROVE \E m \in S : \A k \in S : m <= k
<1>1. PICK R : IsWellFoundedOn(R, Nat) /\ \A x, y \in Nat : x < y => <<x, y>> \in R
  BY LessIsWellFounded
<1>2. PICK m \in S : \A k \in S : ~(<<k, m>> \in R)
  <2>1. S \subseteq Nat /\ S # {}
    OBVIOUS
  <2>2. IsWellFoundedOn(R, Nat)
    BY <1>1
  <2> QED BY <2>1, <2>2, WFMin
<1>3. \A k \in S : ~(k < m)
  BY <1>1, <1>2
<1> QED BY <1>3

\* A quotient and its remainder.
LEMMA DivBetween ==
  ASSUME NEW a \in Int, NEW d \in Int, d > 0
  PROVE  a \div d \in Int /\ d * (a \div d) <= a /\ a < d * (a \div d) + d
OBVIOUS

\* The quotient is the one integer between these bounds.
LEMMA DivUnique ==
  ASSUME NEW a \in Int, NEW d \in Int, d > 0, NEW q \in Int, d * q <= a, a < d * q + d
  PROVE  a \div d = q
<1> DEFINE p == a \div d
<1>1. p \in Int /\ d * p <= a /\ a < d * p + d
  BY DivBetween
<1> HIDE DEF p
<1>2. ~(p >= q + 1)
  <2> SUFFICES ASSUME p >= q + 1 PROVE FALSE
    OBVIOUS
  <2>1. d * (q + 1) <= d * p
    BY <1>1
  <2> QED BY <1>1, <2>1
<1>3. ~(q >= p + 1)
  <2> SUFFICES ASSUME q >= p + 1 PROVE FALSE
    OBVIOUS
  <2>1. d * (p + 1) <= d * q
    BY <1>1
  <2> QED BY <1>1, <2>1
<1> QED BY <1>1, <1>2, <1>3 DEF p

\* Division keeps the order.
LEMMA DivGrows ==
  ASSUME NEW a \in Int, NEW b \in Int, a <= b, NEW d \in Int, d > 0
  PROVE  a \div d <= b \div d
<1> DEFINE q == a \div d
<1> DEFINE r == b \div d
<1>1. q \in Int /\ r \in Int /\ d * q <= a /\ b < d * r + d
  BY DivBetween
<1> HIDE DEF q, r
<1>2. SUFFICES ASSUME q >= r + 1 PROVE FALSE
  BY <1>1 DEF q, r
<1>3. d * (r + 1) <= d * q
  BY <1>1, <1>2
<1> QED BY <1>1, <1>3

\* A rounded product is an integer.
LEMMA MulDivInt ==
  ASSUME NEW v \in Int, NEW n \in Int, NEW d \in Nat, d > 0
  PROVE  mulDiv(v, n, d) \in Int
<1> DEFINE p == v * n
<1>1. p \in Int /\ 2 * d \in Int /\ 2 * d > 0
  OBVIOUS
<1> HIDE DEF p
<1>2. (d - 2 * p) \div (2 * d) \in Int /\ (2 * p + d) \div (2 * d) \in Int
  BY <1>1, DivBetween
<1> QED BY <1>2 DEF mulDiv, p

\* What is rounded lies within half a unit of the quotient.
LEMMA MulDivBetween ==
  ASSUME NEW v \in Nat, NEW n \in Nat, NEW d \in Nat, d > 0
  PROVE  /\ mulDiv(v, n, d) \in Nat
         /\ (2 * d) * mulDiv(v, n, d) <= 2 * (v * n) + d
         /\ 2 * (v * n) + d < (2 * d) * mulDiv(v, n, d) + 2 * d
<1> DEFINE p == v * n
<1> DEFINE q == (2 * p + d) \div (2 * d)
<1>1. p \in Nat /\ 2 * d \in Int /\ 2 * d > 0 /\ 2 * p + d \in Int
  OBVIOUS
<1>2. mulDiv(v, n, d) = q
  BY <1>1 DEF mulDiv
<1> HIDE DEF p
<1>3. q \in Int /\ (2 * d) * q <= 2 * p + d /\ 2 * p + d < (2 * d) * q + 2 * d
  BY <1>1, DivBetween
<1> HIDE DEF q
<1>4. q >= 0
  <2> SUFFICES ASSUME q <= -1 PROVE FALSE
    BY <1>3
  <2>1. (2 * d) * q <= (2 * d) * (-1)
    BY <1>1, <1>3
  <2> QED BY <1>1, <1>3, <2>1
<1> QED BY <1>2, <1>3, <1>4 DEF p

\* A rounded product of naturals is one.
LEMMA MulDivNat ==
  ASSUME NEW v \in Nat, NEW n \in Nat, NEW d \in Nat, d > 0
  PROVE  mulDiv(v, n, d) \in Nat
BY MulDivBetween

\* The one integer within half a unit of the exact product, halves rounded up.
LEMMA MulDivUnique ==
  ASSUME NEW v \in Nat, NEW n \in Nat, NEW d \in Nat, d > 0, NEW q \in Int,
         (2 * d) * q <= 2 * (v * n) + d, 2 * (v * n) + d < (2 * d) * q + 2 * d
  PROVE  mulDiv(v, n, d) = q
<1> DEFINE p == v * n
<1>1. p \in Nat /\ 2 * d \in Int /\ 2 * d > 0 /\ 2 * p + d \in Int
  OBVIOUS
<1>2. mulDiv(v, n, d) = (2 * p + d) \div (2 * d)
  BY <1>1 DEF mulDiv
<1>3. (2 * d) * q <= 2 * p + d /\ 2 * p + d < (2 * d) * q + 2 * d
  OBVIOUS
<1> HIDE DEF p
<1> QED BY <1>1, <1>2, <1>3, DivUnique

\* Rounding keeps the order of products.
LEMMA MulDivGrows ==
  ASSUME NEW v \in Nat, NEW n \in Nat, NEW w \in Nat, NEW m \in Nat, v <= w, n <= m,
         NEW d \in Nat, d > 0
  PROVE  mulDiv(v, n, d) <= mulDiv(w, m, d)
<1> DEFINE p == v * n
<1> DEFINE q == w * m
<1>1. p \in Nat /\ q \in Nat /\ 2 * d \in Int /\ 2 * d > 0
  OBVIOUS
<1>2. p <= q
  <2>1. v * n <= w * n /\ w * n <= w * m
    OBVIOUS
  <2> QED BY <2>1
<1>3. mulDiv(v, n, d) = (2 * p + d) \div (2 * d) /\ mulDiv(w, m, d) = (2 * q + d) \div (2 * d)
  BY <1>1 DEF mulDiv
<1> HIDE DEF p, q
<1>4. (2 * p + d) \in Int /\ (2 * q + d) \in Int /\ 2 * p + d <= 2 * q + d
  BY <1>1, <1>2
<1> QED BY <1>1, <1>3, <1>4, DivGrows

\* Nothing of an amount is nothing.
LEMMA MulDivZero ==
  ASSUME NEW v \in Nat, NEW d \in Nat, d > 0 PROVE mulDiv(v, 0, d) = 0
<1>1. (2 * d) * 0 <= 2 * (v * 0) + d /\ 2 * (v * 0) + d < (2 * d) * 0 + 2 * d
  OBVIOUS
<1> QED BY <1>1, MulDivUnique

\* All of an amount is the amount, exactly.
LEMMA MulDivWhole ==
  ASSUME NEW v \in Nat, NEW d \in Nat, d > 0 PROVE mulDiv(v, d, d) = v
<1>1. (2 * d) * v = 2 * (v * d)
  OBVIOUS
<1>2. v * d \in Nat
  OBVIOUS
<1>3. (2 * d) * v <= 2 * (v * d) + d /\ 2 * (v * d) + d < (2 * d) * v + 2 * d
  BY <1>1, <1>2
<1> QED BY <1>3, MulDivUnique

\* A part of an amount is not more than the amount.
LEMMA MulDivPart ==
  ASSUME NEW v \in Nat, NEW n \in Nat, NEW d \in Nat, d > 0, n <= d PROVE mulDiv(v, n, d) <= v
BY MulDivWhole, MulDivGrows

\* A rate of an amount is an amount.
LEMMA Rate ==
  ASSUME NEW v \in Nat, NEW rate \in Nat
  PROVE  timesPpm(v, rate) \in Nat
BY MulDivBetween, RatesAssumption DEF timesPpm

\* More of the same rate is more.
LEMMA RateGrows ==
  ASSUME NEW v \in Nat, NEW w \in Nat, v <= w, NEW rate \in Nat
  PROVE  timesPpm(v, rate) <= timesPpm(w, rate)
BY MulDivGrows, RatesAssumption DEF timesPpm

-----------------------------------------------------------------------------
(* The rules.                                                              *)

\* The rules the application loads.
Sound(r) == r \in RuleBooks /\ ProperBrackets(r) /\ Declining(r)

\* What the brackets of sound rules hold.
LEMMA BracketsOf ==
  ASSUME NEW r, Sound(r)
  PROVE  /\ Len(r.brackets) \in Nat /\ Len(r.brackets) > 1
         /\ \A i \in 1 .. Len(r.brackets) : r.brackets[i].marginalRate \in Nat
         /\ \A i \in 1 .. Len(r.brackets) - 1 :
               r.brackets[i].upper \in Nat /\ r.brackets[i].averageRate \in Nat
         /\ r.brackets[1].upper \in Nat
         /\ r.brackets[1].marginalRate \in Nat /\ r.brackets[1].marginalRate > 0
<1> DEFINE B == [upper : Nat \cup {None}, marginalRate : Nat, averageRate : Nat \cup {None}]
<1> DEFINE b == r.brackets
<1>1. b \in Seq(B)
  BY DEF Sound, RuleBooks
<1>2. /\ Len(b) > 1 /\ b[1].marginalRate > 0
      /\ \A i \in 1 .. Len(b) - 1 : b[i].upper # None /\ b[i].averageRate # None
  BY DEF Sound, ProperBrackets
<1> HIDE DEF b
<1>3. Len(b) \in Nat /\ \A i \in 1 .. Len(b) : b[i] \in B
  <2> HIDE DEF B
  <2> QED BY <1>1
<1>4. 1 \in 1 .. Len(b) /\ 1 \in 1 .. Len(b) - 1 /\ \A i \in 1 .. Len(b) - 1 : i \in 1 .. Len(b)
  BY <1>2, <1>3
<1> QED BY <1>2, <1>3, <1>4 DEF b

\* What the limits and rates of sound rules are.
LEMMA LimitsOf ==
  ASSUME NEW r, Sound(r)
  PROVE  \A k \in Limits \cup Rates : r.deductions[k] \in Nat
BY DEF Sound, RuleBooks

\* What the rest of sound rules is.
LEMMA RestOf ==
  ASSUME NEW r, Sound(r)
  PROVE  /\ r.taxYear \in Nat /\ r.ias \in Nat
         /\ r.employmentSpecificDeduction \in Nat /\ r.minimumExistenceReference \in Nat
         /\ r.minimumExistence \in [generalExpenseLimit : Nat, phaseTwoMultiplier : Nat,
                         phaseThreeMultiplier : Nat, cutoffIasMultiplierTenths : Nat,
                         months : Nat, lDivisorTenths : Nat \ {0}]
         /\ r.solidarity \in [firstThreshold : Nat, secondThreshold : Nat, firstRate : Nat, secondRate : Nat]
         /\ r.solidarity.firstThreshold <= r.solidarity.secondThreshold
         /\ r.household.jointDivisor \in Nat \ {0} /\ r.household.familyLimitDivisor \in Nat \ {0}
BY DEF Sound, RuleBooks, Declining

\* The bracket exists: it is the least one whose end is not below the income.
LEMMA BracketFound ==
  ASSUME NEW r, Sound(r), NEW taxable \in Nat
  PROVE  /\ Bracket(r, taxable) \in 1 .. Len(r.brackets)
         /\ Bracket(r, taxable) # 1 =>
              /\ Bracket(r, taxable) - 1 \in 1 .. Len(r.brackets) - 1
              /\ r.brackets[Bracket(r, taxable) - 1].upper < taxable
<1> DEFINE n == Len(r.brackets)
<1> DEFINE ends(i) == i = n \/ taxable <= r.brackets[i].upper
<1> DEFINE S == {i \in 1 .. n : ends(i)}
<1>1. n \in Nat /\ n > 1 /\ \A i \in 1 .. n - 1 : r.brackets[i].upper \in Nat
  BY BracketsOf
<1>2. S \in SUBSET Nat /\ n \in S
  BY <1>1
<1>3. PICK m \in S : \A k \in S : m <= k
  BY <1>2, LeastOf
<1>4. m \in 1 .. n /\ ends(m) /\ \A j \in 1 .. m - 1 : ~ends(j)
  BY <1>1, <1>3, SMTT(20)
<1>5. Bracket(r, taxable) = CHOOSE i \in 1 .. n : ends(i) /\ \A j \in 1 .. i - 1 : ~ends(j)
  BY DEF Bracket
<1> HIDE DEF ends
<1>6. /\ Bracket(r, taxable) \in 1 .. n
      /\ \A j \in 1 .. Bracket(r, taxable) - 1 : ~ends(j)
  BY <1>4, <1>5
<1> DEFINE b == Bracket(r, taxable)
<1> HIDE DEF b
<1>7. ASSUME b # 1 PROVE b - 1 \in 1 .. n - 1 /\ r.brackets[b - 1].upper < taxable
  <2>1. b \in 1 .. n /\ b - 1 \in 1 .. b - 1 /\ b - 1 \in 1 .. n - 1
    BY <1>1, <1>6, <1>7 DEF b
  <2>2. ~ends(b - 1)
    BY <1>6, <2>1 DEF b
  <2>3. r.brackets[b - 1].upper \in Nat
    BY <1>1, <2>1
  <2> QED BY <2>1, <2>2, <2>3 DEF ends
<1> QED BY <1>6, <1>7 DEF b

\* The tax of an income is an amount: each bracket the tax is taken from exists and has its rates.
LEMMA GrossTaxNat ==
  ASSUME NEW r, Sound(r), NEW taxable \in Nat
  PROVE  grossTax(r, taxable) \in Nat
<1> DEFINE i == Bracket(r, taxable)
<1> DEFINE lower == r.brackets[i - 1].upper
<1>0. grossTax(r, taxable) =
        CASE taxable <= 0          -> 0
          [] taxable > 0 /\ i = 1  -> timesPpm(taxable, r.brackets[1].marginalRate)
          [] taxable > 0 /\ i # 1  -> timesPpm(lower, r.brackets[i - 1].averageRate)
                                      + timesPpm(taxable - lower, r.brackets[i].marginalRate)
  BY DEF grossTax
<1>1. CASE i = 1
  <2>1. timesPpm(taxable, r.brackets[1].marginalRate) \in Nat
    BY Rate, BracketsOf
  <2> QED BY <1>0, <1>1, <2>1
<1>2. CASE i # 1
  <2>1. /\ lower \in Nat /\ taxable - lower \in Nat /\ r.brackets[i - 1].averageRate \in Nat
        /\ r.brackets[i].marginalRate \in Nat
    <3>1. i \in 1 .. Len(r.brackets) /\ i - 1 \in 1 .. Len(r.brackets) - 1 /\ lower < taxable
      BY <1>2, BracketFound
    <3> HIDE DEF i
    <3>2. lower \in Nat /\ r.brackets[i - 1].averageRate \in Nat /\ r.brackets[i].marginalRate \in Nat
      BY <3>1, BracketsOf
    <3> HIDE DEF lower
    <3> QED BY <3>1, <3>2
  <2>2. /\ timesPpm(lower, r.brackets[i - 1].averageRate) \in Nat
        /\ timesPpm(taxable - lower, r.brackets[i].marginalRate) \in Nat
    BY <2>1, Rate
  <2> HIDE DEF lower, i
  <2> QED BY <1>0, <1>2, <2>2
<1> QED BY <1>1, <1>2

\* The solidarity surcharge grows with the income.
LEMMA SolidarityGrows ==
  ASSUME NEW r, Sound(r), NEW x \in Nat, NEW y \in Nat, x <= y
  PROVE  solidarityTax(r, x) \in Nat /\ solidarityTax(r, y) \in Nat /\ solidarityTax(r, x) <= solidarityTax(r, y)
<1> DEFINE s == r.solidarity
<1> DEFINE low(t) == Lesser(t, s.secondThreshold) - s.firstThreshold
<1> DEFINE high(t) == NotNegative(t - s.secondThreshold)
<1>1. /\ s.firstThreshold \in Nat /\ s.secondThreshold \in Nat /\ s.firstRate \in Nat /\ s.secondRate \in Nat
      /\ s.firstThreshold <= s.secondThreshold
  BY RestOf
<1>2. \A t : solidarityTax(r, t) = IF t <= s.firstThreshold THEN 0
                                  ELSE timesPpm(low(t), s.firstRate) + timesPpm(high(t), s.secondRate)
  BY DEF solidarityTax
<1> HIDE DEF s
<1>3. \A t \in Nat : t > s.firstThreshold => low(t) \in Nat /\ high(t) \in Nat
  BY <1>1 DEF Lesser, NotNegative, Greater
<1>4. x > s.firstThreshold => low(x) <= low(y) /\ high(x) <= high(y)
  BY <1>1 DEF Lesser, NotNegative, Greater
<1> HIDE DEF low, high
<1>5. \A t \in Nat : t > s.firstThreshold =>
         timesPpm(low(t), s.firstRate) \in Nat /\ timesPpm(high(t), s.secondRate) \in Nat
  BY <1>1, <1>3, Rate
<1>6. x > s.firstThreshold =>
        /\ timesPpm(low(x), s.firstRate) <= timesPpm(low(y), s.firstRate)
        /\ timesPpm(high(x), s.secondRate) <= timesPpm(high(y), s.secondRate)
  BY <1>1, <1>3, <1>4, RateGrows
<1> QED BY <1>1, <1>2, <1>5, <1>6

\* A couple's two quotients follow the incomes they are of.
LEMMA QuotientGrows ==
  ASSUME NEW x \in Nat, NEW y \in Nat, x <= y, NEW d \in Nat \ {0}
  PROVE  mulDiv(x, 1, d) \in Nat /\ mulDiv(y, 1, d) \in Nat /\ mulDiv(x, 1, d) <= mulDiv(y, 1, d)
<1>1. d \in Nat /\ d > 0
  OBVIOUS
<1>2. mulDiv(x, 1, d) \in Nat /\ mulDiv(y, 1, d) \in Nat
  BY <1>1, MulDivNat
<1>3. mulDiv(x, 1, d) <= mulDiv(y, 1, d)
  BY <1>1, MulDivGrows
<1> QED BY <1>2, <1>3

\* Sound rules with other limits in the same order are sound.
LEMMA OtherDeductions ==
  ASSUME NEW r, Sound(r), NEW X \in [Limits \cup Rates -> Nat],
         X["rentTransitionBaseCap"] <= X["rentTransitionLowCap"],
         X["overallHighIncomeCap"] <= X["overallLowIncomeCap"]
  PROVE  /\ Sound([r EXCEPT !.deductions = X])
         /\ [r EXCEPT !.deductions = X].deductions = X
         /\ [r EXCEPT !.deductions = X].household = r.household
<1> DEFINE q == [r EXCEPT !.deductions = X]
<1>0. r \in RuleBooks /\ ProperBrackets(r) /\ Declining(r)
  BY DEF Sound
<1>1. /\ q.deductions = X /\ q.household = r.household /\ q.brackets = r.brackets
      /\ q.solidarity = r.solidarity /\ q.irsJovem = r.irsJovem
  BY <1>0 DEF RuleBooks
<1>2. q \in RuleBooks
  BY <1>0 DEF RuleBooks
<1> HIDE DEF q
<1>3. ProperBrackets(q)
  BY <1>0, <1>1 DEF ProperBrackets
<1>4. Declining(q)
  BY <1>0, <1>1 DEF Declining
<1> QED BY <1>1, <1>2, <1>3, <1>4 DEF Sound, q

\* The rules of a joint assessment are sound.
LEMMA JointSound == ASSUME NEW r, Sound(r) PROVE Sound(jointRules(r)) /\ jointRules(r).household = r.household
<1> DEFINE X == [r.deductions EXCEPT !["generalCapPerTaxpayer"] = @ * r.household.jointDivisor]
<1>1. r.household.jointDivisor \in Nat /\ r.deductions["generalCapPerTaxpayer"] \in Nat
  BY RestOf, LimitsOf DEF Limits
<1>2. r.deductions \in [Limits \cup Rates -> Nat]
  BY DEF Sound, RuleBooks
<1>3. X \in [Limits \cup Rates -> Nat]
  <2>1. r.deductions["generalCapPerTaxpayer"] * r.household.jointDivisor \in Nat
    BY <1>1
  <2> QED BY <1>2, <2>1
<1>4. X["rentTransitionBaseCap"] <= X["rentTransitionLowCap"] /\ X["overallHighIncomeCap"] <= X["overallLowIncomeCap"]
  BY <1>2 DEF Sound, Declining, Limits, FamilyLimits
<1>5. jointRules(r) = [r EXCEPT !.deductions = X]
  BY DEF jointRules
<1> HIDE DEF X
<1>6. Sound([r EXCEPT !.deductions = X]) /\ [r EXCEPT !.deductions = X].household = r.household
  BY <1>3, <1>4, OtherDeductions
<1> QED BY <1>5, <1>6

\* The rules of a separate assessment, with the limits of a family halved, are sound: rounding halves
\* keeps their order.
LEMMA SeparateSound == ASSUME NEW r, Sound(r) PROVE Sound(separateRules(r))
<1> DEFINE half(a) == mulDiv(a, 1, r.household.familyLimitDivisor)
<1> DEFINE X == [k \in DOMAIN r.deductions |-> IF k \in FamilyLimits THEN half(r.deductions[k]) ELSE r.deductions[k]]
<1>1. r.household.familyLimitDivisor \in Nat \ {0}
  BY RestOf
<1>2. r.deductions \in [Limits \cup Rates -> Nat]
  BY DEF Sound, RuleBooks
<1>3. \A a \in Nat : half(a) \in Nat
  BY <1>1, QuotientGrows
<1>4. \A a, b \in Nat : a <= b => half(a) <= half(b)
  BY <1>1, QuotientGrows
<1>5. separateRules(r) = [r EXCEPT !.deductions = X]
  BY DEF separateRules
<1> HIDE DEF half
<1>6. X \in [Limits \cup Rates -> Nat]
  BY <1>2, <1>3
<1>7. \A k \in FamilyLimits : k \in Limits \cup Rates /\ X[k] = half(r.deductions[k]) /\ r.deductions[k] \in Nat
  BY <1>2, <1>3 DEF Limits
<1>8. /\ r.deductions["rentTransitionBaseCap"] <= r.deductions["rentTransitionLowCap"]
      /\ r.deductions["overallHighIncomeCap"] <= r.deductions["overallLowIncomeCap"]
  BY DEF Sound, Declining
<1> HIDE DEF X
<1>9. X["rentTransitionBaseCap"] <= X["rentTransitionLowCap"] /\ X["overallHighIncomeCap"] <= X["overallLowIncomeCap"]
  BY <1>4, <1>7, <1>8 DEF FamilyLimits
<1>10. Sound([r EXCEPT !.deductions = X])
  BY <1>6, <1>9, OtherDeductions
<1> QED BY <1>5, <1>10
-----------------------------------------------------------------------------
(* One taxpayer's income.                                                  *)

\* One taxpayer's incomes.
Earnings == [gross : Nat, withholding : Nat, socialSecurity : Nat]

\* The specific deduction is an amount within the income.
LEMMA SpecificNat ==
  ASSUME NEW r, Sound(r), NEW income \in Earnings
  PROVE  specificDeduction(r, income) \in Nat /\ specificDeduction(r, income) <= income.gross
<1>1. income.gross \in Nat /\ income.socialSecurity \in Nat /\ r.employmentSpecificDeduction \in Nat
  BY RestOf DEF Earnings
<1> QED BY <1>1 DEF specificDeduction, Lesser, Greater

\* The allowance of the minimum of existence is a number on each of its slopes.
LEMMA AllowanceInt ==
  ASSUME NEW r, Sound(r), NEW gross \in Nat, NEW specific \in Nat
  PROVE  minimumExistenceAllowance(r, gross, specific) \in Int
<1> DEFINE reference == r.minimumExistenceReference
<1> DEFINE expense   == r.minimumExistence.generalExpenseLimit
<1> DEFINE second    == r.minimumExistence.phaseTwoMultiplier
<1> DEFINE third     == r.minimumExistence.phaseThreeMultiplier
<1> DEFINE tenths    == r.minimumExistence.lDivisorTenths
<1> DEFINE rate      == r.brackets[1].marginalRate
<1> DEFINE end       == r.brackets[1].upper
<1> DEFINE overRate  == mulDiv(expense, Whole, rate)
<1> DEFINE more      == mulDiv(expense, 10 * Whole, rate * tenths)
<1> DEFINE upper     == mulDiv(end, 10, tenths)
<1> DEFINE l         == reference - more + upper
<1> DEFINE two       == timesPpm(gross - reference, second)
<1> DEFINE three     == timesPpm(gross - l, third)
<1> DEFINE cutoff    == mulDiv(r.ias, r.minimumExistence.cutoffIasMultiplierTenths * r.minimumExistence.months, 10)
<1> DEFINE allowance ==
            CASE gross <= reference -> reference - specific - overRate
              [] gross > reference /\ gross <= l -> reference - two - specific - overRate
              [] gross > reference /\ gross > l -> l - end - three - specific
<1>0. minimumExistenceAllowance(r, gross, specific) =
        IF gross > cutoff THEN 0 ELSE Lesser(NotNegative(allowance), NotNegative(gross - specific))
  BY DEF minimumExistenceAllowance
<1>1. /\ reference \in Nat /\ expense \in Nat /\ second \in Nat /\ third \in Nat
      /\ tenths \in Nat \ {0}
  BY RestOf
<1>2. end \in Nat /\ rate \in Nat /\ rate > 0
  BY BracketsOf
<1>3. Whole \in Nat \ {0}
  BY RatesAssumption
<1> HIDE DEF reference, expense, second, third, tenths, rate, end
<1>4. overRate \in Int
  BY <1>1, <1>2, <1>3, MulDivInt
<1>5. more \in Int
  <2>1. 10 * Whole \in Int /\ rate * tenths \in Int /\ rate * tenths > 0
    BY <1>1, <1>2, <1>3
  <2> QED BY <1>1, <2>1, MulDivInt
<1>6. upper \in Int
  BY <1>1, <1>2, MulDivInt
<1> HIDE DEF more, upper, overRate
<1>7. l \in Int
  BY <1>1, <1>5, <1>6
<1> HIDE DEF l
<1>8. two \in Int /\ three \in Int
  BY <1>1, <1>3, <1>7, MulDivInt DEF timesPpm
<1> HIDE DEF two, three
<1>9. allowance \in Int
  BY <1>1, <1>2, <1>4, <1>7, <1>8
<1> HIDE DEF allowance, cutoff
<1> QED BY <1>0, <1>9 DEF Lesser, NotNegative, Greater

\* So is the minimum of existence that is taken off.
LEMMA MinimumInt ==
  ASSUME NEW r, Sound(r), NEW income \in Earnings, NEW allowed
  PROVE  Minimum(r, income, allowed) \in Int
<1>1. income.gross \in Nat
  BY DEF Earnings
<1> QED BY <1>1, SpecificNat, AllowanceInt DEF Minimum

\* What is left of one taxpayer's income, and of a couple's, is an amount.
LEMMA NormalNat ==
  ASSUME NEW r, Sound(r), NEW income \in Earnings, NEW allow
  PROVE  NotNegative(income.gross - specificDeduction(r, income) - Minimum(r, income, allow)) \in Nat
<1> DEFINE a == specificDeduction(r, income)
<1> DEFINE b == Minimum(r, income, allow)
<1>1. income.gross \in Nat
  BY DEF Earnings
<1>2. a \in Nat
  BY SpecificNat
<1>3. b \in Int
  BY MinimumInt
<1> HIDE DEF a, b
<1>4. NotNegative(income.gross - a - b) \in Nat
  BY <1>1, <1>2, <1>3 DEF NotNegative, Greater
<1> QED BY <1>4 DEF a, b

LEMMA JointNormalNat ==
  ASSUME NEW r, Sound(r), NEW income \in Earnings, NEW other \in Earnings, NEW allow
  PROVE  NotNegative(income.gross + other.gross
                     - specificDeduction(r, income) - specificDeduction(r, other)
                     - Minimum(r, income, allow) - Minimum(r, other, allow)) \in Nat
<1> DEFINE a == specificDeduction(r, income)
<1> DEFINE b == specificDeduction(r, other)
<1> DEFINE c == Minimum(r, income, allow)
<1> DEFINE d == Minimum(r, other, allow)
<1>1. income.gross \in Nat /\ other.gross \in Nat
  BY DEF Earnings
<1>2. a \in Nat /\ b \in Nat
  BY SpecificNat
<1>3. c \in Int /\ d \in Int
  BY MinimumInt
<1> HIDE DEF a, b, c, d
<1>4. NotNegative(income.gross + other.gross - a - b - c - d) \in Nat
  BY <1>1, <1>2, <1>3 DEF NotNegative, Greater
<1> QED BY <1>4 DEF a, b, c, d

-----------------------------------------------------------------------------
(* Credits against the tax.                                                *)

\* More of an expense under no smaller a cap is no smaller a credit.
LEMMA LimitedGrows ==
  ASSUME NEW x \in Nat, NEW y \in Nat, x <= y, NEW rate \in Nat,
         NEW c \in Nat, NEW d \in Nat, c <= d
  PROVE  /\ limited(x, rate, c) \in Nat /\ limited(y, rate, d) \in Nat
         /\ limited(x, rate, c) <= limited(y, rate, d)
<1>1. /\ timesPpm(x, rate) \in Nat /\ timesPpm(y, rate) \in Nat
      /\ timesPpm(x, rate) <= timesPpm(y, rate)
  BY Rate, RateGrows
<1> QED BY <1>1 DEF limited, Lesser

\* The same, under one cap.
LEMMA LimitedUnder ==
  ASSUME NEW x \in Nat, NEW y \in Nat, x <= y, NEW rate \in Nat, NEW c \in Nat
  PROVE  /\ limited(x, rate, c) \in Nat /\ limited(y, rate, c) \in Nat
         /\ limited(x, rate, c) <= limited(y, rate, c)
<1>1. c <= c
  OBVIOUS
<1> QED BY <1>1, LimitedGrows

\* What slides from more down to less while the income grows from first to last.
Sliding(less, more, first, last, x) == less + mulDiv(more - less, last - x, last - first)

\* What slides stays between its ends and falls.
LEMMA SlidingFalls ==
  ASSUME NEW less \in Nat, NEW more \in Nat, less <= more, NEW first \in Nat, NEW last \in Nat,
         NEW x \in Nat, NEW y \in Nat, first < x, x <= y, y <= last
  PROVE  /\ Sliding(less, more, first, last, x) \in less .. more
         /\ Sliding(less, more, first, last, y) \in less .. more
         /\ Sliding(less, more, first, last, y) <= Sliding(less, more, first, last, x)
<1> DEFINE v == more - less
<1> DEFINE d == last - first
<1> DEFINE m == last - x
<1> DEFINE n == last - y
<1>1. v \in Nat /\ d \in Nat /\ d > 0 /\ n \in Nat /\ m \in Nat /\ n <= m /\ m <= d
  OBVIOUS
<1>2. \A z : Sliding(less, more, first, last, z) = less + mulDiv(v, last - z, d)
  BY DEF Sliding
<1> HIDE DEF v, d, m, n
<1>3. mulDiv(v, n, d) \in Nat /\ mulDiv(v, m, d) \in Nat /\ mulDiv(v, n, d) <= mulDiv(v, m, d)
      /\ mulDiv(v, m, d) <= v
  <2>1. mulDiv(v, n, d) \in Nat /\ mulDiv(v, m, d) \in Nat
    BY <1>1, MulDivNat
  <2>2. mulDiv(v, n, d) <= mulDiv(v, m, d)
    BY <1>1, MulDivGrows
  <2>3. mulDiv(v, m, d) <= v
    BY <1>1, MulDivPart
  <2> QED BY <2>1, <2>2, <2>3
<1>4. /\ Sliding(less, more, first, last, x) = less + mulDiv(v, m, d)
      /\ Sliding(less, more, first, last, y) = less + mulDiv(v, n, d)
  BY <1>2 DEF m, n
<1> QED BY <1>3, <1>4 DEF v

\* The cap on rent does not grow with the income.
LEMMA RentCapFalls ==
  ASSUME NEW r, Sound(r), NEW x \in Nat, NEW y \in Nat, x <= y
  PROVE  rentCap(r, x) \in Nat /\ rentCap(r, y) \in Nat /\ rentCap(r, y) <= rentCap(r, x)
<1> DEFINE first == r.brackets[1].upper
<1> DEFINE low   == r.deductions.rentTransitionLowCap
<1> DEFINE least == r.deductions.rentTransitionBaseCap
<1> DEFINE last  == r.deductions.rentTransitionUpperIncome
<1> DEFINE floor == r.deductions.rentFloorCap
<1> DEFINE transitional(t) ==
        CASE t <= first -> low
          [] t > first /\ t <= last -> least + mulDiv(low - least, last - t, last - first)
          [] t > first /\ t > last -> least
<1>1. \A t : rentCap(r, t) = Greater(transitional(t), floor)
  BY DEF rentCap
<1>2. first \in Nat /\ low \in Nat /\ least \in Nat /\ last \in Nat /\ floor \in Nat
  BY BracketsOf, LimitsOf DEF Limits, FamilyLimits
<1>3. least <= low
  BY DEF Sound, Declining
<1> HIDE DEF first, low, least, last, floor
<1>4. \A t \in Nat : t > first /\ t <= last => transitional(t) = Sliding(least, low, first, last, t)
  BY <1>2 DEF Sliding
<1>5. ASSUME NEW t \in Nat PROVE transitional(t) \in least .. low
  <2>1. CASE t > first /\ t <= last
    BY <1>2, <1>3, <1>4, <2>1, SlidingFalls
  <2>2. CASE ~(t > first /\ t <= last)
    BY <1>2, <1>3, <2>2
  <2> QED BY <2>1, <2>2
<1>6. transitional(y) <= transitional(x)
  <2>1. CASE x > first /\ y <= last
    <3>1. transitional(x) = Sliding(least, low, first, last, x) /\ transitional(y) = Sliding(least, low, first, last, y)
      BY <1>2, <1>4, <2>1
    <3> HIDE DEF transitional
    <3> QED BY <1>2, <1>3, <2>1, <3>1, SlidingFalls
  <2>2. CASE x <= first
    <3>1. transitional(x) = low
      BY <2>2, <1>2
    <3> HIDE DEF transitional
    <3> QED BY <1>2, <1>5, <3>1
  <2>3. CASE x > first /\ y > last
    <3>1. transitional(y) = least
      BY <2>3, <1>2
    <3> HIDE DEF transitional
    <3> QED BY <1>2, <1>5, <3>1
  <2> QED BY <1>2, <2>1, <2>2, <2>3
<1> HIDE DEF transitional
<1> QED BY <1>1, <1>2, <1>5, <1>6 DEF Greater

\* The cap on the credits of a group does not grow with the income; without one in the first bracket it
\* may only appear.
LEMMA OverallCapFalls ==
  ASSUME NEW r, Sound(r), NEW x \in Nat, NEW y \in Nat, x <= y, NEW n \in Nat
  PROVE  /\ overallCap(r, x, n) \in Nat \cup {None} /\ overallCap(r, y, n) \in Nat \cup {None}
         /\ overallCap(r, x, n) # None =>
               overallCap(r, y, n) # None /\ overallCap(r, y, n) <= overallCap(r, x, n)
<1> DEFINE first == r.brackets[1].upper
<1> DEFINE more  == r.deductions.overallLowIncomeCap
<1> DEFINE less  == r.deductions.overallHighIncomeCap
<1> DEFINE last  == r.deductions.overallUpperIncome
<1> DEFINE extra == r.deductions.largeFamilyIncreasePerDependent * n
<1> DEFINE cap(t) == IF t >= last THEN less ELSE less + mulDiv(more - less, last - t, last - first)
<1>1. \A t : overallCap(r, t, n) =
        CASE t <= first           -> None
          [] t > first /\ n < 3   -> cap(t)
          [] t > first /\ n >= 3  -> cap(t) + timesPpm(cap(t), extra)
  BY DEF overallCap
<1>2. first \in Nat /\ more \in Nat /\ less \in Nat /\ last \in Nat
  BY BracketsOf, LimitsOf DEF Limits, FamilyLimits
<1>3. extra \in Nat
  <2>1. r.deductions.largeFamilyIncreasePerDependent \in Nat
    BY LimitsOf DEF Rates
  <2> QED BY <2>1
<1>4. less <= more
  BY DEF Sound, Declining
<1>5. None \notin Int
  BY RatesAssumption
<1> HIDE DEF first, more, less, last, extra
<1>6. \A t : ~(t >= last) => cap(t) = Sliding(less, more, first, last, t)
  BY DEF Sliding
<1>7. ASSUME NEW t \in Nat, t > first PROVE cap(t) \in less .. more
  <2>1. CASE t >= last
    BY <1>2, <1>4, <2>1
  <2>2. CASE ~(t >= last)
    <3>1. cap(t) = Sliding(less, more, first, last, t)
      BY <1>6, <2>2
    <3> HIDE DEF cap
    <3> QED BY <1>2, <1>4, <1>7, <2>2, <3>1, SlidingFalls
  <2> QED BY <2>1, <2>2
<1>8. ASSUME x > first PROVE cap(y) <= cap(x)
  <2>1. CASE y >= last
    <3>1. cap(y) = less
      BY <2>1
    <3> HIDE DEF cap
    <3> QED BY <1>2, <1>7, <1>8, <3>1
  <2>2. CASE ~(y >= last)
    <3>1. cap(y) = Sliding(less, more, first, last, y) /\ cap(x) = Sliding(less, more, first, last, x)
      BY <1>2, <1>6, <2>2
    <3> HIDE DEF cap
    <3> QED BY <1>2, <1>4, <1>8, <2>2, <3>1, SlidingFalls
  <2> QED BY <2>1, <2>2
<1> HIDE DEF cap
<1>9. ASSUME NEW t \in Nat, t > first PROVE cap(t) \in Nat /\ timesPpm(cap(t), extra) \in Nat
  BY <1>2, <1>3, <1>7, <1>9, Rate
<1>10. x > first => timesPpm(cap(y), extra) <= timesPpm(cap(x), extra)
  BY <1>2, <1>3, <1>8, <1>9, RateGrows
<1> HIDE DEF extra
<1>11. CASE x <= first /\ y <= first
  <2>1. overallCap(r, x, n) = None
    BY <1>1, <1>2, <1>11
  <2>2. overallCap(r, y, n) = None
    BY <1>1, <1>2, <1>11
  <2> QED BY <2>1, <2>2
<1>12. CASE x <= first /\ y > first
  <2>1. overallCap(r, x, n) = None
    BY <1>1, <1>2, <1>12
  <2>2. overallCap(r, y, n) \in Nat
    BY <1>1, <1>2, <1>9, <1>12
  <2> QED BY <2>1, <2>2
<1>13. CASE x > first
  <2>1. y > first
    BY <1>2, <1>13
  <2>2. /\ cap(x) \in Nat /\ cap(y) \in Nat /\ cap(y) <= cap(x)
        /\ timesPpm(cap(x), extra) \in Nat /\ timesPpm(cap(y), extra) \in Nat
        /\ timesPpm(cap(y), extra) <= timesPpm(cap(x), extra)
    BY <1>8, <1>9, <1>10, <1>13, <2>1
  <2>3. overallCap(r, x, n) \in Nat /\ overallCap(r, y, n) \in Nat /\ overallCap(r, y, n) <= overallCap(r, x, n)
    BY <1>1, <1>2, <1>13, <2>1, <2>2
  <2> QED BY <1>5, <2>3
<1> QED BY <1>2, <1>11, <1>12, <1>13

\* The credit for PPR grows with what is paid in.
LEMMA PprGrows ==
  ASSUME NEW r, Sound(r), NEW x \in Nat, NEW y \in Nat, x <= y, NEW age \in Nat
  PROVE  pprCredit(r, x, age) \in Nat /\ pprCredit(r, y, age) \in Nat /\ pprCredit(r, x, age) <= pprCredit(r, y, age)
<1> DEFINE cap == CASE age < 35              -> r.deductions.pprUnder35Cap
                   [] age >= 35 /\ age <= 50 -> r.deductions.ppr35To50Cap
                   [] age > 50               -> r.deductions.pprOver50Cap
<1>1. r.deductions.pprRate \in Nat /\ r.deductions.pprUnder35Cap \in Nat
      /\ r.deductions.ppr35To50Cap \in Nat /\ r.deductions.pprOver50Cap \in Nat
  BY LimitsOf DEF Limits, Rates
<1>2. cap \in Nat
  BY <1>1
<1>3. \A t : pprCredit(r, t, age) = limited(t, r.deductions.pprRate, cap)
  BY DEF pprCredit
<1> HIDE DEF cap
<1>5. /\ limited(x, r.deductions.pprRate, cap) \in Nat /\ limited(y, r.deductions.pprRate, cap) \in Nat
      /\ limited(x, r.deductions.pprRate, cap) <= limited(y, r.deductions.pprRate, cap)
  BY <1>1, <1>2, LimitedUnder
<1> QED BY <1>3, <1>5

\* The credit for dependents is an amount.
LEMMA DependentNat ==
  ASSUME NEW r, Sound(r), NEW ages \in Seq(Nat)
  PROVE  dependentCredit(r, ages) \in Nat
<1> DEFINE eldest == CHOOSE i \in DOMAIN ages : \A j \in DOMAIN ages : ages[j] <= ages[i]
<1> DEFINE small == {i \in DOMAIN ages : i # eldest /\ ages[i] <= 6}
<1> DEFINE baby == ages # <<>> /\ ages[eldest] <= 3
<1> DEFINE each == Len(ages) * r.deductions.dependentBase
<1> DEFINE extra == Cardinality(small) * r.deductions.secondAndLaterUnderSixExtra
<1>1. dependentCredit(r, ages) = each + extra + (IF baby THEN r.deductions.dependentUnderThreeExtra ELSE 0)
  BY DEF dependentCredit
<1>2. Cardinality(small) \in Nat
  <2>1. IsFiniteSet(DOMAIN ages)
    <3>1. DOMAIN ages = 1 .. Len(ages) /\ 1 \in Int /\ Len(ages) \in Int
      OBVIOUS
    <3> QED BY <3>1, FS_Interval
  <2>2. small \subseteq DOMAIN ages
    OBVIOUS
  <2> HIDE DEF small
  <2> QED BY <2>1, <2>2, FS_Subset, FS_CardinalityType
<1>3. /\ r.deductions.dependentBase \in Nat /\ r.deductions.secondAndLaterUnderSixExtra \in Nat
      /\ r.deductions.dependentUnderThreeExtra \in Nat
  BY LimitsOf DEF Limits, FamilyLimits
<1> HIDE DEF small, baby
<1>4. each \in Nat
  <2>1. Len(ages) \in Nat
    OBVIOUS
  <2> QED BY <1>3, <2>1
<1>5. extra \in Nat
  BY <1>2, <1>3
<1> HIDE DEF each, extra
<1> QED BY <1>1, <1>3, <1>4, <1>5

\* No expense of the second is less than that of the first.
AtMost(d, e) == \A c \in DOMAIN d : d[c] <= e[c]

\* The credit for the VAT of invoices grows with them.
LEMMA InvoiceGrows ==
  ASSUME NEW r, Sound(r), NEW d \in Spending, NEW e \in Spending, AtMost(d, e)
  PROVE  invoiceVat(r, d) \in Nat /\ invoiceVat(r, e) \in Nat /\ invoiceVat(r, d) <= invoiceVat(r, e)
<1> DEFINE D == r.deductions
<1> DEFINE S == {"invoiceVat15", "invoiceVat30", "invoiceVat35", "invoiceVat100"}
<1>1. \A c \in S : d[c] \in Nat /\ e[c] \in Nat /\ d[c] <= e[c]
  BY DEF Spending, AtMost
<1>2. \A k \in Rates : D[k] \in Nat
  BY LimitsOf
<1>3. D["invoiceVatCap"] \in Nat
  BY LimitsOf DEF Limits, FamilyLimits
<1> HIDE DEF D
<1>4. ASSUME NEW c \in S, NEW k \in Rates
      PROVE  /\ timesPpm(d[c], D[k]) \in Nat /\ timesPpm(e[c], D[k]) \in Nat
             /\ timesPpm(d[c], D[k]) <= timesPpm(e[c], D[k])
  <2>1. d[c] \in Nat /\ e[c] \in Nat /\ d[c] <= e[c] /\ D[k] \in Nat
    BY <1>1, <1>2
  <2> QED BY <2>1, Rate, RateGrows
<1> DEFINE sum(f) == timesPpm(f["invoiceVat15"], D["invoiceVat15Rate"])
                     + timesPpm(f["invoiceVat30"], D["invoiceVat30Rate"])
                     + timesPpm(f["invoiceVat35"], D["invoiceVat35Rate"])
                     + timesPpm(f["invoiceVat100"], D["invoiceVat100Rate"])
<1>5. sum(d) \in Nat /\ sum(e) \in Nat /\ sum(d) <= sum(e)
  BY <1>4 DEF Rates
<1>6. \A f : invoiceVat(r, f) = Lesser(sum(f), D["invoiceVatCap"])
  BY DEF invoiceVat, D
<1> HIDE DEF sum
<1> QED BY <1>3, <1>5, <1>6 DEF Lesser

\* The credits before the tax itself limits them.
General(r, p, d) ==
    IF p.singleParent
    THEN limited(d.general, r.deductions.generalSingleParentRate, r.deductions.generalSingleParentCap)
    ELSE limited(d.general, r.deductions.generalRate, r.deductions.generalCapPerTaxpayer)

Group(r, d, taxable, ppr) ==
    limited(d.health, r.deductions.healthRate, r.deductions.healthCap)
    + limited(d.education, r.deductions.educationRate, r.deductions.educationCap)
    + limited(d.careHomes, r.deductions.careHomeRate, r.deductions.careHomeCap)
    + invoiceVat(r, d)
    + limited(d.rent, r.deductions.rentRate, rentCap(r, taxable))
    + ppr

Capped(r, p, group, taxable) ==
    IF overallCap(r, taxable, Len(p.ages)) = None THEN group
    ELSE Lesser(group, overallCap(r, taxable, Len(p.ages)))

\* The credits, put together from their parts.
LEMMA CreditsAre ==
  ASSUME NEW r, NEW p, NEW d, NEW taxable, NEW tax, NEW ppr
  PROVE  credits(r, p, d, taxable, tax, ppr) =
           Lesser(dependentCredit(r, p.ages) + General(r, p, d)
                  + Capped(r, p, Group(r, d, taxable, ppr), taxable), tax)
BY DEF credits, General, Group, Capped

\* The credit for general expenses grows with them.
LEMMA GeneralGrows ==
  ASSUME NEW r, Sound(r), NEW p, NEW d \in Spending, NEW e \in Spending, AtMost(d, e)
  PROVE  General(r, p, d) \in Nat /\ General(r, p, e) \in Nat /\ General(r, p, d) <= General(r, p, e)
<1>1. d["general"] \in Nat /\ e["general"] \in Nat /\ d["general"] <= e["general"]
  BY DEF Spending, Expenses, AtMost
<1>2. r.deductions["generalRate"] \in Nat /\ r.deductions["generalSingleParentRate"] \in Nat
      /\ r.deductions["generalCapPerTaxpayer"] \in Nat /\ r.deductions["generalSingleParentCap"] \in Nat
  BY LimitsOf DEF Limits, Rates
<1> DEFINE alone(f) == limited(f["general"], r.deductions["generalSingleParentRate"], r.deductions["generalSingleParentCap"])
<1> DEFINE other(f) == limited(f["general"], r.deductions["generalRate"], r.deductions["generalCapPerTaxpayer"])
<1>3. alone(d) \in Nat /\ alone(e) \in Nat /\ alone(d) <= alone(e)
  BY <1>1, <1>2, LimitedUnder
<1>4. other(d) \in Nat /\ other(e) \in Nat /\ other(d) <= other(e)
  BY <1>1, <1>2, LimitedUnder
<1>5. \A f : General(r, p, f) = IF p.singleParent THEN alone(f) ELSE other(f)
  BY DEF General
<1> HIDE DEF alone, other
<1> QED BY <1>3, <1>4, <1>5

\* The group of capped credits grows with the expenses, and is no smaller for a smaller income.
LEMMA GroupGrows ==
  ASSUME NEW r, Sound(r), NEW d \in Spending, NEW e \in Spending, AtMost(d, e),
         NEW x \in Nat, NEW y \in Nat, y <= x, NEW ppr \in Nat, NEW more \in Nat, ppr <= more
  PROVE  Group(r, d, x, ppr) \in Nat /\ Group(r, e, y, more) \in Nat /\ Group(r, d, x, ppr) <= Group(r, e, y, more)
<1> DEFINE D == r.deductions
<1> DEFINE part(f, c, rate, cap) == limited(f[c], D[rate], D[cap])
<1> DEFINE rent(f, t) == limited(f["rent"], D["rentRate"], rentCap(r, t))
<1>1. \A c \in {"health", "education", "careHomes", "rent"} : d[c] \in Nat /\ e[c] \in Nat /\ d[c] <= e[c]
  BY DEF Spending, Expenses, AtMost
<1>2. D["healthRate"] \in Nat /\ D["educationRate"] \in Nat /\ D["careHomeRate"] \in Nat /\ D["rentRate"] \in Nat
      /\ D["healthCap"] \in Nat /\ D["educationCap"] \in Nat /\ D["careHomeCap"] \in Nat
  BY LimitsOf DEF Limits, FamilyLimits, Rates
<1>3. rentCap(r, x) \in Nat /\ rentCap(r, y) \in Nat /\ rentCap(r, x) <= rentCap(r, y)
  BY RentCapFalls
<1>4. invoiceVat(r, d) \in Nat /\ invoiceVat(r, e) \in Nat /\ invoiceVat(r, d) <= invoiceVat(r, e)
  BY InvoiceGrows
<1> HIDE DEF D
<1>5. /\ part(d, "health", "healthRate", "healthCap") \in Nat
      /\ part(e, "health", "healthRate", "healthCap") \in Nat
      /\ part(d, "health", "healthRate", "healthCap") <= part(e, "health", "healthRate", "healthCap")
  BY <1>1, <1>2, LimitedUnder
<1>6. /\ part(d, "education", "educationRate", "educationCap") \in Nat
      /\ part(e, "education", "educationRate", "educationCap") \in Nat
      /\ part(d, "education", "educationRate", "educationCap") <= part(e, "education", "educationRate", "educationCap")
  BY <1>1, <1>2, LimitedUnder
<1>7. /\ part(d, "careHomes", "careHomeRate", "careHomeCap") \in Nat
      /\ part(e, "careHomes", "careHomeRate", "careHomeCap") \in Nat
      /\ part(d, "careHomes", "careHomeRate", "careHomeCap") <= part(e, "careHomes", "careHomeRate", "careHomeCap")
  BY <1>1, <1>2, LimitedUnder
<1>8. rent(d, x) \in Nat /\ rent(e, y) \in Nat /\ rent(d, x) <= rent(e, y)
  BY <1>1, <1>2, <1>3, LimitedGrows
<1>9. \A f, t, a : Group(r, f, t, a) =
        part(f, "health", "healthRate", "healthCap") + part(f, "education", "educationRate", "educationCap")
        + part(f, "careHomes", "careHomeRate", "careHomeCap") + invoiceVat(r, f) + rent(f, t) + a
  BY DEF Group, D
<1> HIDE DEF part, rent
<1> QED BY <1>4, <1>5, <1>6, <1>7, <1>8, <1>9

\* So does the group under its cap.
LEMMA CappedGrows ==
  ASSUME NEW r, Sound(r), NEW p, p.ages \in Seq(Nat), NEW x \in Nat, NEW y \in Nat, y <= x,
         NEW g \in Nat, NEW h \in Nat, g <= h
  PROVE  Capped(r, p, g, x) \in Nat /\ Capped(r, p, h, y) \in Nat /\ Capped(r, p, g, x) <= Capped(r, p, h, y)
<1> DEFINE n == Len(p.ages)
<1> DEFINE cap == overallCap(r, x, n)
<1> DEFINE wider == overallCap(r, y, n)
<1>1. n \in Nat
  OBVIOUS
<1> HIDE DEF n
<1>2. /\ cap \in Nat \cup {None} /\ wider \in Nat \cup {None}
      /\ wider # None => cap # None /\ cap <= wider
  BY <1>1, OverallCapFalls
<1>3. /\ Capped(r, p, g, x) = IF cap = None THEN g ELSE Lesser(g, cap)
      /\ Capped(r, p, h, y) = IF wider = None THEN h ELSE Lesser(h, wider)
  BY DEF Capped, n
<1> HIDE DEF cap, wider
<1>4. CASE wider = None /\ cap = None
  BY <1>3, <1>4
<1>5. CASE wider = None /\ cap # None
  BY <1>2, <1>3, <1>5 DEF Lesser
<1>6. CASE wider # None
  BY <1>2, <1>3, <1>6 DEF Lesser
<1> QED BY <1>4, <1>5, <1>6

\* Who has less tax, less taxable income and more expenses is left with less tax to pay.
LEMMA CreditsGrow ==
  ASSUME NEW r, Sound(r), NEW p, p.ages \in Seq(Nat),
         NEW d \in Spending, NEW e \in Spending, AtMost(d, e),
         NEW x \in Nat, NEW y \in Nat, y <= x, NEW ppr \in Nat, NEW more \in Nat, ppr <= more,
         NEW tax \in Nat, NEW less \in Nat, less <= tax
  PROVE  /\ credits(r, p, d, x, tax, ppr) \in 0 .. tax
         /\ credits(r, p, e, y, less, more) \in 0 .. less
         /\ less - credits(r, p, e, y, less, more) <= tax - credits(r, p, d, x, tax, ppr)
<1> DEFINE dependents == dependentCredit(r, p.ages)
<1> DEFINE a == General(r, p, d)
<1> DEFINE b == General(r, p, e)
<1> DEFINE g == Group(r, d, x, ppr)
<1> DEFINE h == Group(r, e, y, more)
<1> DEFINE s == Capped(r, p, g, x)
<1> DEFINE t == Capped(r, p, h, y)
<1>1. dependents \in Nat
  BY DependentNat
<1>2. a \in Nat /\ b \in Nat /\ a <= b
  BY GeneralGrows
<1>3. g \in Nat /\ h \in Nat /\ g <= h
  BY GroupGrows
<1>4. /\ credits(r, p, d, x, tax, ppr) = Lesser(dependents + a + s, tax)
      /\ credits(r, p, e, y, less, more) = Lesser(dependents + b + t, less)
  BY CreditsAre
<1> HIDE DEF dependents, a, b, g, h
<1>5. s \in Nat /\ t \in Nat /\ s <= t
  BY <1>3, CappedGrows
<1> HIDE DEF s, t
<1> QED BY <1>1, <1>2, <1>4, <1>5 DEF Lesser

-----------------------------------------------------------------------------
(* The adjustment for exempt income.                                       *)

\* The tax of an income at the rate of that income, for a couple by quotients.
Full(r, income, divisor) == grossTax(r, mulDiv(income, 1, divisor)) * divisor

\* That tax is an amount.
LEMMA FullNat ==
  ASSUME NEW r, Sound(r), NEW income \in Nat, NEW divisor \in Nat \ {0}
  PROVE  Full(r, income, divisor) \in Nat
<1> DEFINE g == grossTax(r, mulDiv(income, 1, divisor))
<1>1. mulDiv(income, 1, divisor) \in Nat
  BY MulDivNat
<1>2. g \in Nat
  BY <1>1, GrossTaxNat
<1>3. Full(r, income, divisor) = g * divisor
  BY DEF Full
<1> HIDE DEF g
<1> QED BY <1>2, <1>3

\* The adjustment, in terms of that tax.
LEMMA AdjustmentIs ==
  ASSUME NEW r, NEW normal \in Nat, NEW exempt \in Nat, NEW divisor
  PROVE  LET a == adjustment(r, normal, exempt, divisor)
             taxable == NotNegative(normal - exempt)
             before == Full(r, taxable + exempt, divisor)
             share == IF taxable + exempt = 0 THEN 0 ELSE mulDiv(before, exempt, taxable + exempt)
         IN  a.taxable = taxable /\ a.tax = NotNegative(before - share)
BY DEF adjustment, Full

\* With nothing exempt the adjustment changes nothing.
LEMMA NothingExempt ==
  ASSUME NEW r, Sound(r), NEW normal \in Nat, NEW divisor \in Nat \ {0}
  PROVE  /\ adjustment(r, normal, 0, divisor).taxable = normal
         /\ adjustment(r, normal, 0, divisor).tax = Full(r, normal, divisor)
<1> DEFINE t == Full(r, normal, divisor)
<1>1. t \in Nat
  BY FullNat
<1>2. 0 \in Nat /\ NotNegative(normal - 0) = normal /\ normal + 0 = normal
  BY DEF NotNegative, Greater
<1>3. /\ adjustment(r, normal, 0, divisor).taxable = normal
      /\ adjustment(r, normal, 0, divisor).tax =
           NotNegative(t - (IF normal = 0 THEN 0 ELSE mulDiv(t, 0, normal)))
  BY <1>2, AdjustmentIs
<1> HIDE DEF t
<1>4. normal # 0 => mulDiv(t, 0, normal) = 0
  BY <1>1, MulDivZero
<1>5. adjustment(r, normal, 0, divisor).tax = t
  BY <1>1, <1>3, <1>4 DEF NotNegative, Greater
<1> QED BY <1>3, <1>5 DEF t

\* The share of the tax that exempt income takes off, to the rounding of one amount.
LEMMA ShareOf ==
  ASSUME NEW t \in Nat, NEW e \in Nat, NEW n \in Nat, n > 0, e <= n
  PROVE  /\ mulDiv(t, e, n) \in Nat /\ mulDiv(t, e, n) <= t
         /\ (t - mulDiv(t, e, n)) * n + n >= t * (n - e)
<1> DEFINE share == mulDiv(t, e, n)
<1> DEFINE p == t * e
<1>1. share \in Nat /\ (2 * n) * share <= 2 * p + n
  BY MulDivBetween
<1>2. share <= t
  BY MulDivPart
<1> HIDE DEF share
<1>3. p \in Nat /\ t * (n - e) = t * n - p
  OBVIOUS
<1>4. (t - share) * n = t * n - share * n /\ (2 * n) * share = 2 * (share * n)
  BY <1>1
<1> DEFINE q == share * n
<1> DEFINE w == t * n
<1>5. q \in Nat /\ w \in Nat
  BY <1>1
<1>6. (t - share) * n = w - q /\ (2 * n) * share = 2 * q /\ t * (n - e) = w - p
  BY <1>3, <1>4
<1> HIDE DEF p, q, w
<1>7. 2 * q <= 2 * p + n
  BY <1>1, <1>6
<1>8. w - q + n >= w - p
  BY <1>3, <1>5, <1>7
<1>9. (t - share) * n + n >= t * (n - e)
  BY <1>6, <1>8
<1> QED BY <1>1, <1>2, <1>9 DEF share

\* With something exempt both the income and the tax are less, and the tax not by more than its share.
LEMMA SomethingExempt ==
  ASSUME NEW r, Sound(r), NEW normal \in Nat, NEW exempt \in Nat, NEW divisor \in Nat \ {0}
  PROVE  LET a == adjustment(r, normal, exempt, divisor)
             t == Full(r, normal, divisor)
         IN  /\ t \in Nat
             /\ a.taxable \in 0 .. normal
             /\ a.tax \in 0 .. t
             /\ a.tax * normal + normal >= t * a.taxable
<1> DEFINE a == adjustment(r, normal, exempt, divisor)
<1> DEFINE t == Full(r, normal, divisor)
<1>1. t \in Nat
  BY FullNat
<1>2. CASE exempt <= normal
  <2>1. NotNegative(normal - exempt) = normal - exempt /\ (normal - exempt) + exempt = normal
    BY <1>2 DEF NotNegative, Greater
  <2>2. /\ a.taxable = normal - exempt
        /\ a.tax = NotNegative(t - (IF normal = 0 THEN 0 ELSE mulDiv(t, exempt, normal)))
    BY <2>1, AdjustmentIs
  <2>3. CASE normal = 0
    <3>1. a.tax = t /\ a.taxable = 0
      BY <1>1, <1>2, <2>2, <2>3 DEF NotNegative, Greater
    <3> HIDE DEF a, t
    <3>2. a.tax * normal + normal >= t * a.taxable
      BY <1>1, <2>3, <3>1
    <3> QED BY <1>1, <2>3, <3>1, <3>2 DEF a, t
  <2>4. CASE normal # 0
    <3> DEFINE share == mulDiv(t, exempt, normal)
    <3>1. share \in Nat /\ share <= t /\ (t - share) * normal + normal >= t * (normal - exempt)
      <4>1. normal > 0
        BY <2>4
      <4> HIDE DEF t
      <4> QED BY <1>1, <1>2, <4>1, ShareOf
    <3>2. a.tax = NotNegative(t - share)
      BY <2>2, <2>4
    <3> HIDE DEF a, t, share
    <3>3. a.tax = t - share
      BY <1>1, <3>1, <3>2 DEF NotNegative, Greater
    <3>4. a.tax * normal + normal >= t * a.taxable
      BY <2>2, <3>1, <3>3
    <3>5. a.taxable \in 0 .. normal /\ a.tax \in 0 .. t
      BY <1>1, <1>2, <2>2, <3>1, <3>3
    <3> QED BY <1>1, <3>4, <3>5 DEF a, t
  <2> QED BY <2>3, <2>4
<1>3. CASE exempt > normal
  <2> DEFINE b == Full(r, exempt, divisor)
  <2>1. b \in Nat
    BY FullNat
  <2>2. NotNegative(normal - exempt) = 0 /\ 0 + exempt = exempt /\ exempt # 0
    BY <1>3 DEF NotNegative, Greater
  <2>3. a.taxable = 0 /\ a.tax = NotNegative(b - mulDiv(b, exempt, exempt))
    BY <2>2, AdjustmentIs
  <2> HIDE DEF b
  <2>4. mulDiv(b, exempt, exempt) = b
    BY <1>3, <2>1, MulDivWhole
  <2>5. a.tax = 0
    BY <2>1, <2>3, <2>4 DEF NotNegative, Greater
  <2> HIDE DEF a, t
  <2>6. a.tax * normal + normal >= t * a.taxable
    BY <1>1, <2>3, <2>5
  <2> QED BY <1>1, <2>3, <2>5, <2>6 DEF a, t
<1> QED BY <1>2, <1>3

-----------------------------------------------------------------------------
(* Assessments compared.                                                   *)

\* The fields of a result.
Results == [available : BOOLEAN, taxable : Int, tax : Int, credits : Int, solidarity : Int,
            due : Int, withholding : Int, balance : Int]

\* Nobody who has result y would rather have result x.
NoWorse(y, x) ==
    /\ y \in Results /\ x \in Results
    /\ y.due <= x.due /\ x.balance <= y.balance

\* As much is exempt in the second as in the first, or nothing is in the first.
Exempted(e, f) == e \in Nat /\ f \in Nat /\ (f = e \/ e = 0)

\* Where more is exempt the taxable income and the tax are no larger.
LEMMA AdjustmentFalls ==
  ASSUME NEW r, Sound(r), NEW normal \in Nat, NEW e, NEW f, Exempted(e, f), NEW divisor \in Nat \ {0}
  PROVE  LET a == adjustment(r, normal, e, divisor)
             b == adjustment(r, normal, f, divisor)
         IN  /\ a.taxable \in Nat /\ b.taxable \in Nat /\ b.taxable <= a.taxable
             /\ a.tax \in Nat /\ b.tax \in Nat /\ b.tax <= a.tax
<1> DEFINE a == adjustment(r, normal, e, divisor)
<1> DEFINE b == adjustment(r, normal, f, divisor)
<1> DEFINE t == Full(r, normal, divisor)
<1>1. e \in Nat /\ f \in Nat
  BY DEF Exempted
<1>2. /\ t \in Nat
      /\ a.taxable \in 0 .. normal /\ a.tax \in 0 .. t
      /\ b.taxable \in 0 .. normal /\ b.tax \in 0 .. t
  BY <1>1, SomethingExempt
<1>3. e = 0 => a.taxable = normal /\ a.tax = t
  BY NothingExempt
<1>4. e # 0 => a = b
  BY DEF Exempted
<1> HIDE DEF a, b, t
<1>5. /\ a.taxable \in Nat /\ b.taxable \in Nat /\ b.taxable <= a.taxable
      /\ a.tax \in Nat /\ b.tax \in Nat /\ b.tax <= a.tax
  BY <1>2, <1>3, <1>4
<1> QED BY <1>5 DEF a, b

\* A result follows the tax left after the credits.
LEMMA AssessedFalls ==
  ASSUME NEW x \in Nat, NEW y \in Nat, NEW tax \in Nat, NEW less \in Nat,
         NEW c \in Int, NEW more \in Int, less - more <= tax - c,
         NEW s \in Nat, NEW lower \in Nat, lower <= s, NEW w \in Nat
  PROVE  NoWorse(Assessed(y, less, more, lower, w), Assessed(x, tax, c, s, w))
<1> DEFINE a == Assessed(x, tax, c, s, w)
<1> DEFINE b == Assessed(y, less, more, lower, w)
<1> DEFINE m == NotNegative(tax - c) + s
<1> DEFINE n == NotNegative(less - more) + lower
<1>1. m \in Int /\ n \in Int /\ n <= m
  BY DEF NotNegative, Greater
<1>2. a \in Results /\ b \in Results
  BY <1>1 DEF Results, Assessed
<1>3. a.due = m /\ b.due = n /\ a.balance = w - m /\ b.balance = w - n
  BY DEF Assessed
<1> HIDE DEF a, b, m, n
<1>4. b.due <= a.due /\ a.balance <= b.balance
  BY <1>1, <1>3
<1> QED BY <1>2, <1>4 DEF NoWorse, a, b

\* The same income and age, and nothing less in expenses.
Spends(u, t) ==
    /\ t.income \in Earnings /\ u.income = t.income
    /\ t.age \in Nat /\ u.age = t.age
    /\ t.deductions \in Spending /\ u.deductions \in Spending /\ AtMost(t.deductions, u.deductions)

\* Who spends more on PPR has no smaller a credit for it.
LEMMA PprOf ==
  ASSUME NEW r, Sound(r), NEW t, NEW u, Spends(u, t)
  PROVE  /\ pprCredit(r, t.deductions.ppr, t.age) \in Nat /\ pprCredit(r, u.deductions.ppr, u.age) \in Nat
         /\ pprCredit(r, t.deductions.ppr, t.age) <= pprCredit(r, u.deductions.ppr, u.age)
<1>1. t.deductions["ppr"] \in Nat /\ u.deductions["ppr"] \in Nat /\ t.deductions["ppr"] <= u.deductions["ppr"]
      /\ t.age \in Nat /\ u.age = t.age
  BY DEF Spends, Spending, Expenses, AtMost
<1> QED BY <1>1, PprGrows

\* Alone, who spends more or has something exempt is not worse off.
LEMMA IndividualFalls ==
  ASSUME NEW r, Sound(r), NEW t, NEW u, Spends(u, t), NEW p, p.ages \in Seq(Nat), NEW allow,
         NEW e, NEW f, Exempted(e, f)
  PROVE  NoWorse(individual(r, u, p, allow, f), individual(r, t, p, allow, e))
<1> DEFINE normal == NotNegative(t.income.gross - specificDeduction(r, t.income) - Minimum(r, t.income, allow))
<1> DEFINE a == adjustment(r, normal, e, 1)
<1> DEFINE b == adjustment(r, normal, f, 1)
<1> DEFINE x == a.taxable
<1> DEFINE y == b.taxable
<1> DEFINE tax == a.tax
<1> DEFINE less == b.tax
<1> DEFINE ppr == pprCredit(r, t.deductions.ppr, t.age)
<1> DEFINE more == pprCredit(r, u.deductions.ppr, u.age)
<1> DEFINE c == credits(r, p, t.deductions, x, tax, ppr)
<1> DEFINE d == credits(r, p, u.deductions, y, less, more)
<1> DEFINE s == solidarityTax(r, x)
<1> DEFINE l == solidarityTax(r, y)
<1> DEFINE w == t.income.withholding
<1>1. t.income.gross \in Nat /\ w \in Nat /\ u.income = t.income
  BY DEF Spends, Earnings
<1>2. normal \in Nat
  BY NormalNat DEF Spends
<1>3. /\ individual(r, t, p, allow, e) = Assessed(x, tax, c, s, w)
      /\ individual(r, u, p, allow, f) = Assessed(y, less, d, l, w)
  BY <1>1 DEF individual
<1> HIDE DEF normal
<1>4. x \in Nat /\ y \in Nat /\ y <= x /\ tax \in Nat /\ less \in Nat /\ less <= tax
  BY <1>2, AdjustmentFalls
<1> HIDE DEF x, y, tax, less
<1>5. ppr \in Nat /\ more \in Nat /\ ppr <= more
  BY PprOf
<1> HIDE DEF ppr, more
<1>6. c \in 0 .. tax /\ d \in 0 .. less /\ less - d <= tax - c
  <2>1. t.deductions \in Spending /\ u.deductions \in Spending /\ AtMost(t.deductions, u.deductions)
    BY DEF Spends
  <2> QED BY <1>4, <1>5, <2>1, CreditsGrow
<1>7. s \in Nat /\ l \in Nat /\ l <= s
  BY <1>4, SolidarityGrows
<1> HIDE DEF c, d, s, l, w
<1>8. c \in Int /\ d \in Int
  BY <1>4, <1>6
<1>9. NoWorse(Assessed(y, less, d, l, w), Assessed(x, tax, c, s, w))
  BY <1>1, <1>4, <1>6, <1>7, <1>8, AssessedFalls
<1> QED BY Zenon, <1>3, <1>9

\* The expenses of two, added up.
LEMMA AddedAtMost ==
  ASSUME NEW d \in Spending, NEW e \in Spending, NEW f \in Spending, NEW g \in Spending,
         AtMost(d, e), AtMost(f, g)
  PROVE  add(d, f) \in Spending /\ add(e, g) \in Spending /\ AtMost(add(d, f), add(e, g))
<1> DEFINE C == Expenses \cup {"careHomes", "invoiceVat15", "invoiceVat30", "invoiceVat35", "invoiceVat100"}
<1>1. d \in [C -> Nat] /\ e \in [C -> Nat] /\ f \in [C -> Nat] /\ g \in [C -> Nat] /\ Spending = [C -> Nat]
  BY DEF Spending
<1>2. add(d, f) = [c \in C |-> d[c] + f[c]] /\ add(e, g) = [c \in C |-> e[c] + g[c]]
  BY <1>1 DEF add
<1>3. \A c \in C : d[c] <= e[c] /\ f[c] <= g[c]
  BY <1>1 DEF AtMost
<1> HIDE DEF C
<1> QED BY <1>1, <1>2, <1>3 DEF AtMost

\* Nor is a couple assessed jointly.
LEMMA JointFalls ==
  ASSUME NEW rules, Sound(rules), NEW t, NEW u, Spends(u, t), NEW v, NEW z, Spends(z, v),
         NEW p, p.ages \in Seq(Nat), NEW allow, NEW e, NEW f, Exempted(e, f)
  PROVE  NoWorse(joint(rules, u, z, p, allow, f), joint(rules, t, v, p, allow, e))
<1> DEFINE r == jointRules(rules)
<1> DEFINE divisor == r.household.jointDivisor
<1> DEFINE whole == t.income.gross + v.income.gross
                    - specificDeduction(r, t.income) - specificDeduction(r, v.income)
                    - Minimum(r, t.income, allow) - Minimum(r, v.income, allow)
<1> DEFINE normal == NotNegative(whole)
<1> DEFINE a == adjustment(r, normal, e, divisor)
<1> DEFINE b == adjustment(r, normal, f, divisor)
<1> DEFINE x == a.taxable
<1> DEFINE y == b.taxable
<1> DEFINE tax == a.tax
<1> DEFINE less == b.tax
<1> DEFINE m == mulDiv(x, 1, divisor)
<1> DEFINE n == mulDiv(y, 1, divisor)
<1> DEFINE ppr == jointPpr(r, t, v)
<1> DEFINE more == jointPpr(r, u, z)
<1> DEFINE c == credits(r, p, add(t.deductions, v.deductions), m, tax, ppr)
<1> DEFINE d == credits(r, p, add(u.deductions, z.deductions), n, less, more)
<1> DEFINE s == solidarityTax(r, m)
<1> DEFINE l == solidarityTax(r, n)
<1> DEFINE w == t.income.withholding + v.income.withholding
<1>1. Sound(r) /\ divisor \in Nat \ {0}
  BY JointSound, RestOf
<1>2. u.income = t.income /\ z.income = v.income
  BY DEF Spends
<1>3. /\ joint(rules, t, v, p, allow, e) = Assessed(x, tax, c, s * divisor, w)
      /\ joint(rules, u, z, p, allow, f) = Assessed(y, less, d, l * divisor, w)
  BY <1>2 DEF joint
<1> HIDE DEF r, divisor
<1>4. t.income \in Earnings /\ v.income \in Earnings
  BY DEF Spends
<1>5. t.income.gross \in Nat /\ v.income.gross \in Nat /\ w \in Nat
  BY <1>4 DEF Earnings
<1>6. normal \in Nat
  BY <1>1, <1>4, JointNormalNat
<1> HIDE DEF normal, w
<1>7. x \in Nat /\ y \in Nat /\ y <= x /\ tax \in Nat /\ less \in Nat /\ less <= tax
  BY <1>1, <1>6, AdjustmentFalls
<1> HIDE DEF x, y, tax, less
<1>8. m \in Nat /\ n \in Nat /\ n <= m
  BY <1>1, <1>7, QuotientGrows
<1> HIDE DEF m, n
<1>9. ppr \in Nat /\ more \in Nat /\ ppr <= more
  BY <1>1, PprOf DEF jointPpr
<1> HIDE DEF ppr, more
<1>10. c \in 0 .. tax /\ d \in 0 .. less /\ less - d <= tax - c
  <2> DEFINE g == add(t.deductions, v.deductions)
  <2> DEFINE h == add(u.deductions, z.deductions)
  <2>1. g \in Spending /\ h \in Spending /\ AtMost(g, h)
    BY AddedAtMost DEF Spends
  <2> HIDE DEF g, h
  <2>2. /\ credits(r, p, g, m, tax, ppr) \in 0 .. tax /\ credits(r, p, h, n, less, more) \in 0 .. less
        /\ less - credits(r, p, h, n, less, more) <= tax - credits(r, p, g, m, tax, ppr)
    BY <1>1, <1>7, <1>8, <1>9, <2>1, CreditsGrow
  <2> QED BY <2>2 DEF g, h
<1>11. s \in Nat /\ l \in Nat /\ l <= s
  BY <1>1, <1>8, SolidarityGrows
<1> HIDE DEF c, d, s, l
<1>12. c \in Int /\ d \in Int
  BY <1>7, <1>10
<1> DEFINE sd == s * divisor
<1> DEFINE ld == l * divisor
<1>13. sd \in Nat /\ ld \in Nat /\ ld <= sd
  BY <1>1, <1>11
<1>14. /\ joint(rules, t, v, p, allow, e) = Assessed(x, tax, c, sd, w)
       /\ joint(rules, u, z, p, allow, f) = Assessed(y, less, d, ld, w)
  BY <1>3
<1> HIDE DEF sd, ld
<1>15. less - d <= tax - c
  BY <1>10
<1>16. NoWorse(Assessed(y, less, d, ld, w), Assessed(x, tax, c, sd, w))
  BY <1>5, <1>7, <1>12, <1>13, <1>15, AssessedFalls
<1> QED BY <1>14, <1>16

-----------------------------------------------------------------------------
(* IRS Jovem.                                                              *)

\* The last return is taken when no other one is.
LEMMA LastReturn ==
  ASSUME NEW all, DOMAIN all = 1 .. 14, all[14].condition, all[14].status = "eligible",
         \A i \in 1 .. 13 : all[i].status # "eligible"
  PROVE  LET first == CHOOSE i \in DOMAIN all : all[i].condition /\ \A j \in 1 .. i - 1 : ~all[j].condition
         IN  all[first].status = "eligible" <=> \A j \in 1 .. 13 : ~all[j].condition
<1> DEFINE holds(i) == all[i].condition
<1> DEFINE first == CHOOSE i \in DOMAIN all : holds(i) /\ \A j \in 1 .. i - 1 : ~holds(j)
<1> DEFINE S == {i \in 1 .. 14 : holds(i)}
<1>1. S \in SUBSET Nat /\ 14 \in S
  OBVIOUS
<1>2. PICK m \in S : \A k \in S : m <= k
  BY <1>1, LeastOf
<1> HIDE DEF holds
<1>3. m \in DOMAIN all /\ holds(m) /\ \A j \in 1 .. m - 1 : ~holds(j)
  BY <1>2
<1>4. first \in 1 .. 14 /\ holds(first) /\ \A j \in 1 .. first - 1 : ~holds(j)
  BY <1>3
<1> HIDE DEF first
<1>5. all[first].status = "eligible" <=> \A j \in 1 .. 13 : ~holds(j)
  <2>1. CASE first = 14
    BY <1>4, <2>1
  <2>2. CASE first # 14
    BY <1>4, <2>2
  <2> QED BY <2>1, <2>2
<1> QED BY <1>5 DEF first, holds

\* The years of a history.
YearsOf(history) == {e.year : e \in history}

\* Who is eligible, with the thirteen returns that say otherwise written as one condition.
LEMMA EligibleIs ==
  ASSUME NEW r, NEW t
  PROVE  LET h == Range(t.irsJovem.history)
             n == Cardinality({e \in h : counts(e)})
         IN  /\ eligibility(r, t).status = "eligible" <=>
                  /\ t.irsJovem.requested /\ t.irsJovem.complete /\ t.irsJovem.regularized
                  /\ ~(t.age > r.irsJovem.maximumAge)
                  /\ h # {}
                  /\ Cardinality(YearsOf(h)) = Len(t.irsJovem.history)
                  /\ \A y \in YearsOf(h) : ~(y > r.taxYear) /\ y .. r.taxYear \subseteq YearsOf(h)
                  /\ \A e \in h : /\ e.year = r.taxYear => e.income /\ e.resident /\ ~e.dependent
                                  /\ e.year < r.taxYear /\ e.income => e.resident
                                  /\ ~e.incompatible
                  /\ ~(n < 1) /\ ~(n > r.irsJovem.maximumYears)
             /\ eligibility(r, t).exempt =
                  IF eligibility(r, t).status = "eligible"
                  THEN Lesser(timesPpm(t.income.gross, exemptionRate(r, n)),
                              r.ias * r.irsJovem.exemptionLimitIasMultiplier)
                  ELSE 0
<1> DEFINE answers == t.irsJovem
<1> DEFINE gross == t.income.gross
<1> DEFINE h == Range(answers.history)
<1> DEFINE years == {e.year : e \in h}
<1> DEFINE n == Cardinality({e \in h : counts(e)})
<1> DEFINE current == {e \in h : e.year = r.taxYear}
<1> DEFINE all == returns(r, t.age, gross, answers)
<1> DEFINE first == CHOOSE i \in DOMAIN all : all[i].condition /\ \A j \in 1 .. i - 1 : ~all[j].condition
<1> DEFINE status == eligibility(r, t).status
<1>1. /\ status = all[first].status
      /\ eligibility(r, t).exempt =
           IF status = "eligible"
           THEN Lesser(timesPpm(gross, exemptionRate(r, n)), r.ias * r.irsJovem.exemptionLimitIasMultiplier)
           ELSE 0
  BY DEF eligibility, evaluate
<1>2. /\ DOMAIN all = 1 .. 14
      /\ all[14].condition /\ all[14].status = "eligible"
      /\ \A i \in 1 .. 13 : all[i].status # "eligible"
      /\ all[1].condition <=> ~answers.requested
      /\ all[2].condition <=> t.age > r.irsJovem.maximumAge
      /\ all[3].condition <=> gross <= 0 /\ h = {}
      /\ all[4].condition <=> h = {} \/ ~answers.complete
      /\ all[5].condition <=> Cardinality(years) # Len(answers.history) \/ \E y \in years : y > r.taxYear
      /\ all[6].condition <=> \E y \in years : ~(y .. r.taxYear \subseteq years)
      /\ all[7].condition <=> \E e \in current : ~e.income
      /\ all[8].condition <=> \E e \in current : ~e.resident
      /\ all[9].condition <=> \E e \in h : e.year < r.taxYear /\ e.income /\ ~e.resident
      /\ all[10].condition <=> \E e \in h : e.incompatible
      /\ all[11].condition <=> \E e \in current : e.dependent
      /\ all[12].condition <=> ~answers.regularized
      /\ all[13].condition <=> n < 1 \/ n > r.irsJovem.maximumYears
  <2> DEFINE return(condition, status_) == [condition |-> condition, status |-> status_]
  <2> DEFINE c1 == ~answers.requested
  <2> DEFINE c2 == t.age > r.irsJovem.maximumAge
  <2> DEFINE c3 == gross <= 0 /\ h = {}
  <2> DEFINE c4 == h = {} \/ ~answers.complete
  <2> DEFINE c5 == Cardinality(years) # Len(answers.history) \/ \E y \in years : y > r.taxYear
  <2> DEFINE c6 == \E y \in years : ~(y .. r.taxYear \subseteq years)
  <2> DEFINE c7 == \E e \in current : ~e.income
  <2> DEFINE c8 == \E e \in current : ~e.resident
  <2> DEFINE c9 == \E e \in h : e.year < r.taxYear /\ e.income /\ ~e.resident
  <2> DEFINE c10 == \E e \in h : e.incompatible
  <2> DEFINE c11 == \E e \in current : e.dependent
  <2> DEFINE c12 == ~answers.regularized
  <2> DEFINE c13 == n < 1 \/ n > r.irsJovem.maximumYears
  <2> DEFINE c14 == TRUE
  <2> DEFINE list == << return(c1, "notRequested"),
                     return(c2, "notEligible"),
                     return(c3, "notEligible"),
                     return(c4, "needsMoreInformation"),
                     return(c5, "needsMoreInformation"),
                     return(c6, "needsMoreInformation"),
                     return(c7, "needsMoreInformation"),
                     return(c8, "notEligible"),
                     return(c9, "needsMoreInformation"),
                     return(c10, "notEligible"),
                     return(c11, "notEligible"),
                     return(c12, "notEligible"),
                     return(c13, "notEligible"),
                     return(c14, "eligible") >>
  <2>1. all = list
    BY Zenon DEF returns
  <2> HIDE DEF c1, c2, c3, c4, c5, c6, c7, c8, c9, c10, c11, c12, c13
  <2>2. DOMAIN list = 1 .. 14 /\ list[14].condition
    OBVIOUS
  <2>3. /\ list[1].condition <=> c1
        /\ list[2].condition <=> c2
        /\ list[3].condition <=> c3
        /\ list[4].condition <=> c4
        /\ list[5].condition <=> c5
        /\ list[6].condition <=> c6
        /\ list[7].condition <=> c7
        /\ list[8].condition <=> c8
        /\ list[9].condition <=> c9
        /\ list[10].condition <=> c10
        /\ list[11].condition <=> c11
        /\ list[12].condition <=> c12
        /\ list[13].condition <=> c13
    OBVIOUS
  <2>4. /\ list[1].status # "eligible"
        /\ list[2].status # "eligible"
        /\ list[3].status # "eligible"
        /\ list[4].status # "eligible"
        /\ list[5].status # "eligible"
        /\ list[6].status # "eligible"
        /\ list[7].status # "eligible"
        /\ list[8].status # "eligible"
        /\ list[9].status # "eligible"
        /\ list[10].status # "eligible"
        /\ list[11].status # "eligible"
        /\ list[12].status # "eligible"
        /\ list[13].status # "eligible"
        /\ list[14].status = "eligible"
    OBVIOUS
  <2> HIDE DEF list, all
  <2>5. \A i \in 1 .. 13 : all[i].status # "eligible"
    BY <2>1, <2>4
  <2> QED BY <2>1, <2>2, <2>3, <2>4, <2>5 DEF c1, c2, c3, c4, c5, c6, c7, c8, c9, c10, c11, c12, c13
<1> HIDE DEF all
<1>3. all[first].status = "eligible" <=> \A j \in 1 .. 13 : ~all[j].condition
  BY <1>2, LastReturn
<1> HIDE DEF first, n, h, status
<1>4. (\A j \in 1 .. 13 : ~all[j].condition) <=>
        /\ ~all[1].condition /\ ~all[2].condition /\ ~all[3].condition /\ ~all[4].condition
        /\ ~all[5].condition /\ ~all[6].condition /\ ~all[7].condition /\ ~all[8].condition
        /\ ~all[9].condition /\ ~all[10].condition /\ ~all[11].condition /\ ~all[12].condition
        /\ ~all[13].condition
  OBVIOUS
<1>5. /\ (~all[1].condition /\ ~all[12].condition) <=> (answers.requested /\ answers.regularized)
      /\ ~all[2].condition <=> ~(t.age > r.irsJovem.maximumAge)
      /\ (~all[3].condition /\ ~all[4].condition) <=> (h # {} /\ answers.complete)
      /\ ~all[13].condition <=> (~(n < 1) /\ ~(n > r.irsJovem.maximumYears))
  BY <1>2
<1>6. (~all[5].condition /\ ~all[6].condition) <=>
        /\ Cardinality(years) = Len(answers.history)
        /\ \A y \in years : ~(y > r.taxYear) /\ y .. r.taxYear \subseteq years
  <2> HIDE DEF years
  <2> QED BY <1>2
<1>7. (~all[7].condition /\ ~all[8].condition /\ ~all[9].condition /\ ~all[10].condition /\ ~all[11].condition) <=>
        \A e \in h : /\ e.year = r.taxYear => e.income /\ e.resident /\ ~e.dependent
                     /\ e.year < r.taxYear /\ e.income => e.resident
                     /\ ~e.incompatible
  <2>1. (~all[7].condition /\ ~all[8].condition /\ ~all[11].condition) <=>
          \A e \in h : e.year = r.taxYear => e.income /\ e.resident /\ ~e.dependent
    BY <1>2
  <2>2. ~all[9].condition <=> \A e \in h : e.year < r.taxYear /\ e.income => e.resident
    BY <1>2
  <2>3. ~all[10].condition <=> \A e \in h : ~e.incompatible
    BY <1>2
  <2> QED BY <2>1, <2>2, <2>3
<1> HIDE DEF years, current
<1>8. status = "eligible" <=>
        /\ answers.requested /\ answers.complete /\ answers.regularized
        /\ ~(t.age > r.irsJovem.maximumAge)
        /\ h # {}
        /\ Cardinality(years) = Len(answers.history)
        /\ \A y \in years : ~(y > r.taxYear) /\ y .. r.taxYear \subseteq years
        /\ \A e \in h : /\ e.year = r.taxYear => e.income /\ e.resident /\ ~e.dependent
                        /\ e.year < r.taxYear /\ e.income => e.resident
                        /\ ~e.incompatible
        /\ ~(n < 1) /\ ~(n > r.irsJovem.maximumYears)
  BY <1>1, <1>3, <1>4, <1>5, <1>6, <1>7
<1> QED BY <1>1, <1>8 DEF YearsOf, years, h, n, status

\* What sound rules say of IRS Jovem.
LEMMA JovemOf ==
  ASSUME NEW r, Sound(r)
  PROVE  /\ r.irsJovem.maximumAge \in Nat /\ r.irsJovem.maximumYears \in Nat
         /\ r.irsJovem.exemptionLimitIasMultiplier \in Nat
         /\ r.irsJovem.year1Rate \in Nat /\ r.irsJovem.years2To4Rate \in Nat
         /\ r.irsJovem.years5To7Rate \in Nat /\ r.irsJovem.years8To10Rate \in Nat
         /\ r.irsJovem.years2To4Rate <= r.irsJovem.year1Rate
         /\ r.irsJovem.years5To7Rate <= r.irsJovem.years2To4Rate
         /\ r.irsJovem.years8To10Rate <= r.irsJovem.years5To7Rate
BY DEF Sound, RuleBooks, Declining

\* The later the year, the smaller the exempt share.
LEMMA ExemptionRateFalls ==
  ASSUME NEW r, Sound(r), NEW n \in Nat, NEW m \in Nat, n >= 1, n <= m
  PROVE  /\ exemptionRate(r, n) \in Nat /\ exemptionRate(r, m) \in Nat
         /\ exemptionRate(r, m) <= exemptionRate(r, n)
<1> DEFINE a == r.irsJovem.year1Rate
<1> DEFINE b == r.irsJovem.years2To4Rate
<1> DEFINE c == r.irsJovem.years5To7Rate
<1> DEFINE d == r.irsJovem.years8To10Rate
<1>1. a \in Nat /\ b \in Nat /\ c \in Nat /\ d \in Nat /\ b <= a /\ c <= b /\ d <= c
  BY JovemOf
<1>2. \A y : exemptionRate(r, y) = CASE y = 1 -> a [] y > 1 /\ y <= 4 -> b [] y > 4 /\ y <= 7 -> c [] y > 7 -> d
  BY DEF exemptionRate
<1> HIDE DEF a, b, c, d
<1>3. \A y \in Nat : y >= 1 => /\ y = 1 => exemptionRate(r, y) = a
                               /\ y > 1 /\ y <= 4 => exemptionRate(r, y) = b
                               /\ y > 4 /\ y <= 7 => exemptionRate(r, y) = c
                               /\ y > 7 => exemptionRate(r, y) = d
  BY <1>2
<1> QED BY <1>1, <1>3

\* A history has finitely many years, and so many of them count.
LEMMA HistoryFinite ==
  ASSUME NEW h \in Seq(Years)
  PROVE  /\ IsFiniteSet(Range(h)) /\ Range(h) \subseteq Years
         /\ Cardinality({e \in Range(h) : counts(e)}) \in Nat
<1>1. IsFiniteSet(DOMAIN h)
  <2>1. DOMAIN h = 1 .. Len(h) /\ 1 \in Int /\ Len(h) \in Int
    OBVIOUS
  <2> QED BY <2>1, FS_Interval
<1>2. Range(h) = {h[i] : i \in DOMAIN h}
  BY DEF Range
<1>3. IsFiniteSet(Range(h))
  <2>1. h \in Surjection(DOMAIN h, Range(h))
    BY DEF Surjection, Range
  <2> QED BY <1>1, <2>1, FS_Surjection
<1>4. \A i \in DOMAIN h : h[i] \in Years
  OBVIOUS
<1>5. Range(h) \subseteq Years
  BY <1>2, <1>4
<1> DEFINE S == {e \in Range(h) : counts(e)}
<1>6. S \subseteq Range(h)
  OBVIOUS
<1> HIDE DEF S
<1>7. IsFiniteSet(S)
  BY <1>3, <1>6, FS_Subset
<1>8. Cardinality(S) \in Nat
  BY <1>7, FS_CardinalityType
<1> QED BY <1>3, <1>5, <1>8 DEF S

\* What is exempt is an amount.
LEMMA ExemptNat ==
  ASSUME NEW r, Sound(r), NEW t \in Taxpayers
  PROVE  eligibility(r, t).exempt \in Nat
<1> DEFINE n == Cardinality({e \in Range(t.irsJovem.history) : counts(e)})
<1>1. t.irsJovem.history \in Seq(Years) /\ t.income.gross \in Nat
  BY DEF Taxpayers
<1>2. n \in Nat
  BY <1>1, HistoryFinite
<1>3. /\ eligibility(r, t).status = "eligible" => ~(n < 1)
      /\ eligibility(r, t).exempt =
                  IF eligibility(r, t).status = "eligible"
                  THEN Lesser(timesPpm(t.income.gross, exemptionRate(r, n)),
                              r.ias * r.irsJovem.exemptionLimitIasMultiplier)
                  ELSE 0
  BY EligibleIs
<1> HIDE DEF n
<1>4. CASE eligibility(r, t).status = "eligible"
  <2>1. exemptionRate(r, n) \in Nat
    BY <1>2, <1>3, <1>4, ExemptionRateFalls
  <2>2. timesPpm(t.income.gross, exemptionRate(r, n)) \in Nat
    BY <1>1, <2>1, Rate
  <2>3. r.ias * r.irsJovem.exemptionLimitIasMultiplier \in Nat
    BY RestOf, JovemOf
  <2> QED BY <1>3, <1>4, <2>2, <2>3 DEF Lesser
<1>5. CASE eligibility(r, t).status # "eligible"
  BY <1>3, <1>5
<1> QED BY <1>4, <1>5

-----------------------------------------------------------------------------
(* Results compared.                                                       *)

\* Two results added up follow each of them.
LEMMA SumFalls ==
  ASSUME NEW a, NEW b, NEW c, NEW d, NoWorse(b, a), NoWorse(d, c)
  PROVE  NoWorse(sumResults(b, d), sumResults(a, c))
<1>1. a \in Results /\ b \in Results /\ c \in Results /\ d \in Results
      /\ b.due <= a.due /\ a.balance <= b.balance /\ d.due <= c.due /\ c.balance <= d.balance
  BY DEF NoWorse
<1>2. ASSUME NEW x \in Results, NEW y \in Results
      PROVE  /\ sumResults(x, y) \in Results
             /\ sumResults(x, y).due = x.due + y.due
             /\ sumResults(x, y).balance = x.balance + y.balance
  BY DEF Results, sumResults
<1>3. a.due \in Int /\ b.due \in Int /\ c.due \in Int /\ d.due \in Int
      /\ a.balance \in Int /\ b.balance \in Int /\ c.balance \in Int /\ d.balance \in Int
  BY <1>1 DEF Results
<1> QED BY <1>1, <1>2, <1>3 DEF NoWorse

\* What is exempt for a taxpayer of a simulation.
Exempt(r, s, t) ==
    IF isCouple(s) /\ "needsMoreInformation" \in {eligibility(r, s.first).status, eligibility(r, s.second).status}
    THEN 0 ELSE eligibility(r, t).exempt

\* The same simulation, but with nothing less in expenses, and nothing less exempt.
Better(r, q, s) ==
    /\ q.civil = s.civil /\ q.filing = s.filing /\ q.ages = s.ages
    /\ q.singleParent = s.singleParent /\ q.unvalidated = s.unvalidated
    /\ q.second = None <=> s.second = None
    /\ Spends(q.first, s.first) /\ Exempted(Exempt(r, s, s.first), Exempt(r, q, q.first))
    /\ s.second # None =>
          /\ Spends(q.second, s.second)
          /\ Exempted(Exempt(r, s, s.second), Exempt(r, q, q.second))
          /\ isCouple(s) => Exempted(Exempt(r, s, s.first) + Exempt(r, s, s.second),
                                     Exempt(r, q, q.first) + Exempt(r, q, q.second))

\* A better simulation is in the validated scope exactly when the other is.
LEMMA SameScope ==
  ASSUME NEW r, NEW s, NEW q, Better(r, q, s)
  PROVE  (supported(q) <=> supported(s)) /\ (isCouple(q) <=> isCouple(s))
BY DEF Better, supported, isCouple

\* The result of a simulation in each of the cases the code distinguishes.
LEMMA ResultIs ==
  ASSUME NEW r, NEW s
  PROVE  /\ ~supported(s) => calculateSimulation(r, s) = Unavailable(s.first.income.withholding)
         /\ supported(s) /\ ~isCouple(s) =>
              calculateSimulation(r, s) =
                individual(r, s.first, [ages |-> s.ages, singleParent |-> s.singleParent], TRUE, Exempt(r, s, s.first))
         /\ supported(s) /\ isCouple(s) /\ s.filing = "joint" =>
              calculateSimulation(r, s) =
                joint(r, s.first, s.second, [ages |-> s.ages, singleParent |-> FALSE],
                      allowMinimumExistence(r, s.first, s.second), Exempt(r, s, s.first) + Exempt(r, s, s.second))
         /\ supported(s) /\ isCouple(s) /\ s.filing = "separate" =>
              calculateSimulation(r, s) =
                sumResults(individual(separateRules(r), s.first, [ages |-> s.ages, singleParent |-> FALSE],
                                      allowMinimumExistence(r, s.first, s.second), Exempt(r, s, s.first)),
                           individual(separateRules(r), s.second, [ages |-> s.ages, singleParent |-> FALSE],
                                      allowMinimumExistence(r, s.first, s.second), Exempt(r, s, s.second)))
<1>1. ~supported(s) => calculateSimulation(r, s) = Unavailable(s.first.income.withholding)
  BY DEF calculateSimulation
<1>2. supported(s) /\ ~isCouple(s) =>
        calculateSimulation(r, s) =
          individual(r, s.first, [ages |-> s.ages, singleParent |-> s.singleParent], TRUE, Exempt(r, s, s.first))
  BY DEF calculateSimulation, Exempt
<1>3. supported(s) /\ isCouple(s) => calculateSimulation(r, s) = compareWithIrsJovem(r, s)[s.filing]
  BY DEF calculateSimulation
<1>4. isCouple(s) => compareWithIrsJovem(r, s) = compareExempt(r, s, Exempt(r, s, s.first), Exempt(r, s, s.second))
  BY DEF compareWithIrsJovem, Exempt
<1> DEFINE a == Exempt(r, s, s.first)
<1> DEFINE b == Exempt(r, s, s.second)
<1> HIDE DEF a, b
<1>5. /\ compareExempt(r, s, a, b)["joint"] =
                joint(r, s.first, s.second, [ages |-> s.ages, singleParent |-> FALSE],
                      allowMinimumExistence(r, s.first, s.second), a + b)
      /\ compareExempt(r, s, a, b)["separate"] =
                sumResults(individual(separateRules(r), s.first, [ages |-> s.ages, singleParent |-> FALSE],
                                      allowMinimumExistence(r, s.first, s.second), a),
                           individual(separateRules(r), s.second, [ages |-> s.ages, singleParent |-> FALSE],
                                      allowMinimumExistence(r, s.first, s.second), b))
  BY DEF compareExempt
<1> QED BY <1>1, <1>2, <1>3, <1>4, <1>5 DEF a, b

\* Who has the better simulation has no worse a result, in every case.
LEMMA ResultFalls ==
  ASSUME NEW r, Sound(r), NEW s \in AllSimulations, NEW q, Better(r, q, s)
  PROVE  NoWorse(calculateSimulation(r, q), calculateSimulation(r, s))
<1> DEFINE x == calculateSimulation(r, s)
<1> DEFINE y == calculateSimulation(r, q)
<1> DEFINE p == [ages |-> s.ages, singleParent |-> s.singleParent]
<1> DEFINE c == [ages |-> s.ages, singleParent |-> FALSE]
<1> DEFINE allow == allowMinimumExistence(r, s.first, s.second)
<1> DEFINE e == Exempt(r, s, s.first)
<1> DEFINE g == Exempt(r, s, s.second)
<1> DEFINE f == Exempt(r, q, q.first)
<1> DEFINE h == Exempt(r, q, q.second)
<1>1. (supported(q) <=> supported(s)) /\ (isCouple(q) <=> isCouple(s))
  BY SameScope
<1>2. /\ Spends(q.first, s.first) /\ Exempted(e, f)
      /\ q.ages = s.ages /\ q.singleParent = s.singleParent /\ q.filing = s.filing
      /\ s.second # None => Spends(q.second, s.second) /\ Exempted(g, h)
                            /\ (isCouple(s) => Exempted(e + g, f + h))
  BY DEF Better
<1>3. q.first.income = s.first.income /\ s.first.income \in Earnings
  BY <1>2 DEF Spends
<1>4. p.ages \in Seq(Nat) /\ c.ages \in Seq(Nat) /\ s.filing \in {"joint", "separate"}
  BY DEF AllSimulations
<1> HIDE DEF e, f, g, h
<1>5. CASE ~supported(s)
  <2>1. x = Unavailable(s.first.income.withholding) /\ y = Unavailable(s.first.income.withholding)
    BY <1>1, <1>3, <1>5, ResultIs
  <2>2. s.first.income.withholding \in Nat
    BY <1>3 DEF Earnings
  <2> HIDE DEF x, y
  <2>3. x \in Results /\ x.due = 0 /\ x.balance = 0
    BY <2>1, <2>2 DEF Unavailable, Results
  <2>4. NoWorse(y, x)
    BY <2>1, <2>3 DEF NoWorse
  <2> QED BY <2>4 DEF x, y
<1>6. CASE supported(s) /\ ~isCouple(s)
  <2>1. x = individual(r, s.first, p, TRUE, e) /\ y = individual(r, q.first, p, TRUE, f)
    BY <1>1, <1>2, <1>6, ResultIs DEF e, f
  <2> HIDE DEF p, x, y
  <2>2. NoWorse(y, x)
    BY <1>2, <1>4, <2>1, IndividualFalls
  <2> QED BY <2>2 DEF x, y
<1>7. CASE supported(s) /\ isCouple(s)
  <2>1. Spends(q.second, s.second) /\ Exempted(g, h) /\ Exempted(e + g, f + h)
    BY <1>2, <1>7 DEF supported
  <2>2. allowMinimumExistence(r, q.first, q.second) = allow
    BY <1>2, <2>1 DEF allowMinimumExistence, Spends
  <2> HIDE DEF allow
  <2>3. CASE s.filing = "joint"
    <3>1. x = joint(r, s.first, s.second, c, allow, e + g)
      BY <1>7, <2>3, ResultIs DEF e, g, allow
    <3>2. y = joint(r, q.first, q.second, c, allow, f + h)
      BY <1>1, <1>2, <1>7, <2>2, <2>3, ResultIs DEF f, h
    <3> HIDE DEF c, x, y
    <3>3. NoWorse(y, x)
      BY <1>2, <1>4, <2>1, <3>1, <3>2, JointFalls
    <3> QED BY <3>3 DEF x, y
  <2>4. CASE s.filing = "separate"
    <3> DEFINE own == separateRules(r)
    <3>1. x = sumResults(individual(own, s.first, c, allow, e), individual(own, s.second, c, allow, g))
      BY <1>7, <2>4, ResultIs DEF e, g, allow
    <3>2. y = sumResults(individual(own, q.first, c, allow, f), individual(own, q.second, c, allow, h))
      BY <1>1, <1>2, <1>7, <2>2, <2>4, ResultIs DEF f, h
    <3>3. Sound(own)
      BY SeparateSound
    <3> HIDE DEF c, x, y, own
    <3>4. NoWorse(individual(own, q.first, c, allow, f), individual(own, s.first, c, allow, e))
      BY <1>2, <1>4, <3>3, IndividualFalls
    <3>5. NoWorse(individual(own, q.second, c, allow, h), individual(own, s.second, c, allow, g))
      BY <1>4, <2>1, <3>3, IndividualFalls
    <3>6. NoWorse(y, x)
      BY <3>1, <3>2, <3>4, <3>5, SumFalls
    <3> QED BY <3>6 DEF x, y
  <2> QED BY <1>4, <2>3, <2>4
<1> QED BY <1>5, <1>6, <1>7

-----------------------------------------------------------------------------
(* The scenario on the screen.                                             *)

\* The rules of the year are sound.
LEMMA SoundRules == Sound(Rules)
BY RulesAssumption DEF Sound

\* The first taxpayer with other amounts.
LEMMA OtherIncome ==
  ASSUME NEW x \in [gross : Nat, withholding : Nat, socialSecurity : Nat], NEW a, NEW b
  PROVE  [x EXCEPT !.gross = a, !.withholding = b] = [gross |-> a, withholding |-> b, socialSecurity |-> x.socialSecurity]
<1> DEFINE y == [gross |-> a, withholding |-> b, socialSecurity |-> x.socialSecurity]
<1> DEFINE z == [x EXCEPT !.gross = a]
<1>1. z = [gross |-> a, withholding |-> x.withholding, socialSecurity |-> x.socialSecurity]
  OBVIOUS
<1> HIDE DEF z
<1>2. [z EXCEPT !.withholding = b] = y
  BY <1>1
<1> QED BY <1>2 DEF z

\* What a scenario changes of its simulation, and what it keeps.
LEMMA Applied ==
  ASSUME NEW s \in AllSimulations, NEW v \in [Sliders -> Nat]
  PROVE  /\ applyTo(s, v) \in AllSimulations
         /\ applyTo(s, v).civil = s.civil /\ applyTo(s, v).filing = s.filing /\ applyTo(s, v).ages = s.ages
         /\ applyTo(s, v).singleParent = s.singleParent /\ applyTo(s, v).unvalidated = s.unvalidated
         /\ applyTo(s, v).second = s.second
         /\ applyTo(s, v).first \in Taxpayers
         /\ applyTo(s, v).first.age = s.first.age /\ applyTo(s, v).first.irsJovem = s.first.irsJovem
         /\ applyTo(s, v).first.income =
              [gross |-> v["gross"], withholding |-> v["withholding"], socialSecurity |-> s.first.income.socialSecurity]
         /\ applyTo(s, v).first.deductions =
              [d \in DOMAIN s.first.deductions |-> IF d \in Expenses THEN v[d] ELSE s.first.deductions[d]]
<1> DEFINE t == s.first
<1> DEFINE i == [gross |-> v["gross"], withholding |-> v["withholding"], socialSecurity |-> t.income.socialSecurity]
<1> DEFINE d == [c \in DOMAIN t.deductions |-> IF c \in Expenses THEN v[c] ELSE t.deductions[c]]
<1> DEFINE u == [t EXCEPT !.income = i, !.deductions = d]
<1>1. t \in Taxpayers
  BY DEF AllSimulations
<1>2. t.income \in [gross : Nat, withholding : Nat, socialSecurity : Nat] /\ t.deductions \in Spending
  BY <1>1 DEF Taxpayers
<1>3. applyTo(s, v) = [s EXCEPT !.first = u]
  <2>1. [t.income EXCEPT !.gross = v["gross"], !.withholding = v["withholding"]] = i
    BY <1>2, OtherIncome
  <2>2. applyTo(s, v) =
          [s EXCEPT !.first = [t EXCEPT !.income = [t.income EXCEPT !.gross = v["gross"], !.withholding = v["withholding"]],
                                        !.deductions = d]]
    <3> HIDE DEF d
    <3> QED BY <1>1, <1>2 DEF applyTo, AllSimulations, Taxpayers, d
  <2> HIDE DEF d, i
  <2> QED BY <2>1, <2>2
<1> HIDE DEF u
<1>4. /\ applyTo(s, v).first = u
      /\ applyTo(s, v).civil = s.civil /\ applyTo(s, v).filing = s.filing /\ applyTo(s, v).ages = s.ages
      /\ applyTo(s, v).singleParent = s.singleParent /\ applyTo(s, v).unvalidated = s.unvalidated
      /\ applyTo(s, v).second = s.second
  BY <1>3 DEF AllSimulations
<1>5. i \in [gross : Nat, withholding : Nat, socialSecurity : Nat]
  BY <1>2 DEF Sliders, Incomes
<1>6. d \in Spending
  <2>1. \A c \in Expenses : v[c] \in Nat
    BY DEF Sliders
  <2> QED BY <1>2, <2>1 DEF Spending
<1> HIDE DEF i, d
<1>7. u \in Taxpayers /\ u.income = i /\ u.deductions = d /\ u.age = t.age /\ u.irsJovem = t.irsJovem
  BY <1>1, <1>5, <1>6 DEF u, Taxpayers
<1>8. applyTo(s, v) \in AllSimulations
  BY <1>3, <1>7 DEF AllSimulations
<1> QED BY <1>4, <1>7, <1>8 DEF i, d

\* With the sliders where the screen puts them first the scenario is the simulation itself.
LEMMA OwnAmounts ==
  ASSUME NEW s \in AllSimulations
  PROVE  amounts(s) \in [Sliders -> Nat] /\ applyTo(s, amounts(s)) = s
<1> DEFINE q == applyTo(s, amounts(s))
<1>1. s.first \in Taxpayers
  BY DEF AllSimulations
<1>2. s.first.income \in [gross : Nat, withholding : Nat, socialSecurity : Nat] /\ s.first.deductions \in Spending
  BY <1>1 DEF Taxpayers
<1>3. amounts(s) \in [Sliders -> Nat]
  <2>1. \A f \in Incomes : s.first.income[f] \in Nat
    BY <1>2 DEF Incomes
  <2>2. \A f \in Expenses : s.first.deductions[f] \in Nat
    BY <1>2 DEF Spending
  <2> QED BY <2>1, <2>2 DEF amounts, Sliders
<1>4. amounts(s)["gross"] = s.first.income.gross /\ amounts(s)["withholding"] = s.first.income.withholding
      /\ \A f \in Expenses : amounts(s)[f] = s.first.deductions[f]
  BY DEF amounts, Sliders, Incomes, Expenses
<1>5. q.first.income = s.first.income
  <2>1. q.first.income = [gross |-> s.first.income.gross, withholding |-> s.first.income.withholding,
                          socialSecurity |-> s.first.income.socialSecurity]
    <3> DEFINE v == amounts(s)
    <3>1. v \in [Sliders -> Nat] /\ v["gross"] = s.first.income.gross /\ v["withholding"] = s.first.income.withholding
      BY <1>3, <1>4
    <3>2. q = applyTo(s, v)
      OBVIOUS
    <3> HIDE DEF v, q
    <3>3. q.first.income = [gross |-> v["gross"], withholding |-> v["withholding"],
                            socialSecurity |-> s.first.income.socialSecurity]
      BY <3>1, <3>2, Applied
    <3> QED BY <3>1, <3>3
  <2> QED BY <1>2, <2>1
<1>6. q.first.deductions = s.first.deductions
  <2>1. q.first.deductions = [d \in DOMAIN s.first.deductions |->
            IF d \in Expenses THEN amounts(s)[d] ELSE s.first.deductions[d]]
    BY <1>3, Applied
  <2>2. q.first.deductions = [d \in DOMAIN s.first.deductions |-> s.first.deductions[d]]
    BY <1>4, <2>1
  <2> QED BY <1>2, <2>2 DEF Spending
<1>7. /\ q \in AllSimulations /\ q.first \in Taxpayers
      /\ q.first.age = s.first.age /\ q.first.irsJovem = s.first.irsJovem
      /\ q.civil = s.civil /\ q.filing = s.filing /\ q.ages = s.ages /\ q.second = s.second
      /\ q.singleParent = s.singleParent /\ q.unvalidated = s.unvalidated
  BY <1>3, Applied
<1> HIDE DEF q
<1>8. q.first = s.first
  BY <1>1, <1>5, <1>6, <1>7 DEF Taxpayers
<1>9. q = s
  BY <1>7, <1>8 DEF AllSimulations
<1> QED BY <1>3, <1>9 DEF q

\* The sliders leave the declared situations as they are.
LEMMA AppliedScope ==
  ASSUME NEW s \in AllSimulations, NEW v \in [Sliders -> Nat]
  PROVE  supported(applyTo(s, v)) <=> supported(s)
<1> DEFINE q == applyTo(s, v)
<1>1. /\ q.civil = s.civil /\ q.filing = s.filing /\ q.ages = s.ages /\ q.second = s.second
      /\ q.singleParent = s.singleParent /\ q.unvalidated = s.unvalidated
  BY Applied
<1> HIDE DEF q
<1>2. supported(q) <=> supported(s)
  BY <1>1 DEF supported, isCouple
<1> QED BY <1>2 DEF q

\* What the screen shows is the result of the scenario on the screen, and only a simulation within the
\* validated scope is compared.
SInv ==
    /\ saved \subseteq AllSimulations
    /\ values \in [Sliders -> Nat]
    /\ Shown => base \in AllSimulations /\ supported(base) /\ changed = result(changedSimulation)

\* No step of the screen leaves an old result beside new sliders.
LEMMA SInvStep == SInv /\ [Next]_vars => SInv'
<1> SUFFICES ASSUME SInv, [Next]_vars PROVE SInv'
  OBVIOUS
<1>0. changedSimulation' = applyTo(base', values') /\ (Shown' <=> base' # None)
  BY DEF changedSimulation, Shown
<1>1. ASSUME NEW s \in saved, Open(s) PROVE SInv'
  <2>1. s \in AllSimulations
    BY <1>1 DEF SInv
  <2>2. base' = s /\ values' = amounts(s) /\ changed' = result(s) /\ saved' = saved
    BY <1>1 DEF Open
  <2>3. amounts(s) \in [Sliders -> Nat] /\ applyTo(s, amounts(s)) = s
    BY <2>1, OwnAmounts
  <2>4. supported(s)
    <3>1. result(s).available
      BY <1>1 DEF Open
    <3>2. ~supported(s) => result(s) = Unavailable(s.first.income.withholding)
      BY ResultIs DEF result
    <3> QED BY <3>1, <3>2 DEF Unavailable
  <2> QED BY <1>0, <2>1, <2>2, <2>3, <2>4 DEF SInv
<1>2. ASSUME NEW f \in Sliders, NEW v \in Steps(f), Slide(f, v) PROVE SInv'
  <2>1. v \in Nat
    BY <1>2, StepsAssumption
  <2>2. /\ base # None /\ base' = base /\ saved' = saved
        /\ values' = [values EXCEPT ![f] = v] /\ changed' = result(applyTo(base, values'))
    BY <1>2 DEF Slide
  <2> QED BY <1>0, <2>1, <2>2 DEF SInv, Shown
<1>3. CASE SaveScenario
  <2>1. base # None /\ saved' = saved \cup {changedSimulation} /\ UNCHANGED <<base, values, changed>>
    BY <1>3 DEF SaveScenario
  <2>2. changedSimulation \in AllSimulations
    BY <2>1, Applied DEF SInv, Shown, changedSimulation
  <2>3. changedSimulation' = changedSimulation
    BY <2>1 DEF changedSimulation
  <2> QED BY <1>0, <2>1, <2>2, <2>3 DEF SInv, Shown
<1>4. CASE Close
  <2>1. base' = None /\ values' = [f \in Sliders |-> 0] /\ saved' = saved
    BY <1>4 DEF Close
  <2> QED BY <1>0, <2>1 DEF SInv
<1>5. CASE UNCHANGED vars
  <2>1. UNCHANGED <<saved, base, values, changed>>
    BY <1>5 DEF vars
  <2> QED BY <1>0, <2>1 DEF SInv, Shown, changedSimulation
<1> QED BY <1>1, <1>2, <1>3, <1>4, <1>5 DEF Next

\* Whatever was opened, moved, saved and opened again, the result on the screen is that of the scenario
\* on the screen, and every saved scenario is a simulation the application could have stored.
THEOREM ScenarioIsShown == Spec => []SInv
<1>1. Init => SInv
  <2> SUFFICES ASSUME Init PROVE SInv
    OBVIOUS
  <2>1. PICK s \in Simulations : saved = {s}
    BY DEF Init
  <2> QED BY <2>1, SimulationsAssumption DEF Init, SInv, Shown
<1> QED BY <1>1, SInvStep, PTL DEF Spec

\* Exemptions follow from the age, the gross income and the answers alone.
LEMMA SameEligibility ==
  ASSUME NEW r, NEW t, NEW u, u.age = t.age, u.income.gross = t.income.gross, u.irsJovem = t.irsJovem
  PROVE  eligibility(r, u) = eligibility(r, t)
BY DEF eligibility

\* What is exempt for each taxpayer of a simulation is an amount.
LEMMA ExemptInt ==
  ASSUME NEW r, Sound(r), NEW s \in AllSimulations
  PROVE  /\ Exempt(r, s, s.first) \in Nat
         /\ s.second # None => Exempt(r, s, s.second) \in Nat
<1>1. s.first \in Taxpayers /\ (s.second # None => s.second \in Taxpayers)
  BY DEF AllSimulations
<1>2. eligibility(r, s.first).exempt \in Nat
  BY <1>1, ExemptNat
<1>3. s.second # None => eligibility(r, s.second).exempt \in Nat
  BY <1>1, ExemptNat
<1> QED BY <1>2, <1>3 DEF Exempt

\* A slider of an expense moved up makes the better simulation.
LEMMA SpendingMore ==
  ASSUME NEW s \in AllSimulations, NEW v \in [Sliders -> Nat], NEW f \in Expenses, NEW x \in Nat, x > v[f]
  PROVE  Better(Rules, applyTo(s, [v EXCEPT ![f] = x]), applyTo(s, v))
<1> DEFINE w == [v EXCEPT ![f] = x]
<1> DEFINE a == applyTo(s, v)
<1> DEFINE b == applyTo(s, w)
<1>1. w \in [Sliders -> Nat]
  BY DEF Sliders
<1>2. /\ a \in AllSimulations
      /\ a.civil = s.civil /\ a.filing = s.filing /\ a.ages = s.ages
      /\ a.singleParent = s.singleParent /\ a.unvalidated = s.unvalidated /\ a.second = s.second
      /\ a.first \in Taxpayers /\ a.first.age = s.first.age /\ a.first.irsJovem = s.first.irsJovem
      /\ a.first.income = [gross |-> v["gross"], withholding |-> v["withholding"], socialSecurity |-> s.first.income.socialSecurity]
      /\ a.first.deductions = [d \in DOMAIN s.first.deductions |-> IF d \in Expenses THEN v[d] ELSE s.first.deductions[d]]
  BY Applied
<1> HIDE DEF a
<1>3. /\ b \in AllSimulations
      /\ b.civil = s.civil /\ b.filing = s.filing /\ b.ages = s.ages
      /\ b.singleParent = s.singleParent /\ b.unvalidated = s.unvalidated /\ b.second = s.second
      /\ b.first \in Taxpayers /\ b.first.age = s.first.age /\ b.first.irsJovem = s.first.irsJovem
      /\ b.first.income = [gross |-> w["gross"], withholding |-> w["withholding"], socialSecurity |-> s.first.income.socialSecurity]
      /\ b.first.deductions = [d \in DOMAIN s.first.deductions |-> IF d \in Expenses THEN w[d] ELSE s.first.deductions[d]]
  <2> HIDE DEF w
  <2> QED BY <1>1, Applied
<1> HIDE DEF b
<1>4. w["gross"] = v["gross"] /\ w["withholding"] = v["withholding"] /\ \A d \in Expenses : w[d] \in Nat /\ v[d] \in Nat /\ v[d] <= w[d]
  BY DEF Sliders, Incomes, Expenses
<1> HIDE DEF w
<1>5. b.first.income = a.first.income /\ b.first.age = a.first.age /\ b.first.irsJovem = a.first.irsJovem
  BY <1>2, <1>3, <1>4
<1>6. /\ a.first.income \in Earnings /\ a.first.age \in Nat
      /\ a.first.deductions \in Spending /\ b.first.deductions \in Spending
  BY <1>2, <1>3 DEF Taxpayers, Earnings
<1>7. AtMost(a.first.deductions, b.first.deductions)
  <2>1. s.first.deductions \in Spending
    BY DEF AllSimulations, Taxpayers
  <2>2. \A d \in DOMAIN s.first.deductions : s.first.deductions[d] \in Nat
    BY <2>1 DEF Spending
  <2> QED BY <1>2, <1>3, <1>4, <2>2 DEF AtMost
<1>8. Spends(b.first, a.first)
  BY <1>5, <1>6, <1>7 DEF Spends
<1>9. ASSUME s.second # None PROVE Spends(b.second, a.second)
  <2>1. s.second \in Taxpayers /\ a.second = s.second /\ b.second = s.second
    BY <1>2, <1>3, <1>9 DEF AllSimulations
  <2>2. s.second.income \in Earnings /\ s.second.age \in Nat /\ s.second.deductions \in Spending
    BY <2>1 DEF Taxpayers, Earnings
  <2>3. AtMost(s.second.deductions, s.second.deductions)
    BY <2>2 DEF AtMost, Spending
  <2> QED BY <2>1, <2>2, <2>3 DEF Spends
<1>10. eligibility(Rules, b.first) = eligibility(Rules, a.first)
  BY <1>5, SameEligibility
<1>11. /\ Exempt(Rules, b, b.first) = Exempt(Rules, a, a.first)
       /\ Exempt(Rules, b, b.second) = Exempt(Rules, a, a.second)
  BY <1>2, <1>3, <1>10 DEF Exempt, isCouple
<1>12. /\ Exempt(Rules, a, a.first) \in Nat
       /\ a.second # None => Exempt(Rules, a, a.second) \in Nat
  BY <1>2, SoundRules, ExemptInt
<1>13. /\ Exempted(Exempt(Rules, a, a.first), Exempt(Rules, b, b.first))
       /\ a.second # None =>
            /\ Exempted(Exempt(Rules, a, a.second), Exempt(Rules, b, b.second))
            /\ Exempted(Exempt(Rules, a, a.first) + Exempt(Rules, a, a.second),
                        Exempt(Rules, b, b.first) + Exempt(Rules, b, b.second))
  BY <1>11, <1>12 DEF Exempted
<1> QED BY <1>2, <1>3, <1>8, <1>9, <1>13 DEF Better, a, b, w

\* No step that only moves the slider of an expense up lowers the balance, for any sound rules, saved
\* simulation and amounts: the credits, caps that shrink with the income, shared limits and the tax that
\* limits them all (tax_engine.dart) never take more than the expense gives.
THEOREM SpendingPays == Spec => SpendingNeverCosts
<1> DEFINE A == \A f \in Expenses :
        Shown /\ Shown' /\ values'[f] > values[f] /\ values' = [values EXCEPT ![f] = values'[f]]
        => changed'.balance >= changed.balance
<1>1. SInv /\ SInv' /\ [Next]_vars => [A]_vars
  <2> SUFFICES ASSUME SInv, SInv', Next PROVE A
    BY DEF vars
  <2> SUFFICES ASSUME NEW f \in Expenses, Shown, Shown', values'[f] > values[f],
                      values' = [values EXCEPT ![f] = values'[f]]
               PROVE  changed'.balance >= changed.balance
    OBVIOUS
  <2>1. base' = base
    <3>1. ASSUME NEW s \in saved, Open(s) PROVE FALSE
      BY <3>1 DEF Open, Shown
    <3>2. ASSUME Close PROVE FALSE
      BY <3>2 DEF Close, Shown
    <3>3. ASSUME NEW g \in Sliders, NEW v \in Steps(g), Slide(g, v) PROVE base' = base
      BY <3>3 DEF Slide
    <3>4. ASSUME SaveScenario PROVE base' = base
      BY <3>4 DEF SaveScenario
    <3> QED BY <3>1, <3>2, <3>3, <3>4 DEF Next
  <2>2. base \in AllSimulations /\ values \in [Sliders -> Nat] /\ values' \in [Sliders -> Nat]
        /\ changed = result(applyTo(base, values)) /\ changed' = result(applyTo(base', values'))
    BY DEF SInv, changedSimulation
  <2>3. values'[f] \in Nat
    BY <2>2 DEF Sliders
  <2> DEFINE a == applyTo(base, values)
  <2> DEFINE b == applyTo(base, values')
  <2>4. a \in AllSimulations
    BY <2>2, Applied
  <2>5. Better(Rules, b, a)
    BY <2>2, <2>3, SpendingMore
  <2>6. changed = calculateSimulation(Rules, a) /\ changed' = calculateSimulation(Rules, b)
    BY <2>1, <2>2 DEF result
  <2> HIDE DEF a, b
  <2>7. NoWorse(changed', changed)
    BY <2>4, <2>5, <2>6, SoundRules, ResultFalls
  <2>8. changed.balance \in Int /\ changed'.balance \in Int /\ changed.balance <= changed'.balance
    BY <2>7 DEF NoWorse, Results
  <2> QED BY <2>8
<1>2. SpendingNeverCosts <=> [][A]_vars
  BY DEF SpendingNeverCosts
<1> HIDE DEF A
<1> QED BY <1>1, <1>2, ScenarioIsShown, PTL DEF Spec

-----------------------------------------------------------------------------
(* With and without IRS Jovem.                                             *)

\* A taxpayer who does not ask for IRS Jovem.
Off(t) == [t EXCEPT !.irsJovem.requested = FALSE]

\* Who does not ask has nothing exempt, and everything else as before.
LEMMA OffOf ==
  ASSUME NEW r, NEW t \in Taxpayers
  PROVE  /\ Off(t) \in Taxpayers
         /\ Off(t).age = t.age /\ Off(t).income = t.income /\ Off(t).deductions = t.deductions
         /\ eligibility(r, Off(t)).exempt = 0
<1> DEFINE a == [t.irsJovem EXCEPT !.requested = FALSE]
<1>1. t.irsJovem \in [requested : BOOLEAN, complete : BOOLEAN, regularized : BOOLEAN, history : Seq(Years)]
  BY DEF Taxpayers
<1>2. a \in [requested : BOOLEAN, complete : BOOLEAN, regularized : BOOLEAN, history : Seq(Years)] /\ a.requested = FALSE
  BY <1>1
<1>3. Off(t) = [t EXCEPT !.irsJovem = a]
  BY DEF Off
<1> HIDE DEF a
<1>4. /\ Off(t) \in Taxpayers
      /\ Off(t).age = t.age /\ Off(t).income = t.income /\ Off(t).deductions = t.deductions
      /\ Off(t).irsJovem = a
  BY <1>2, <1>3 DEF Taxpayers
<1>5. ~Off(t).irsJovem.requested
  BY <1>2, <1>4
<1>6. eligibility(r, Off(t)).status # "eligible"
  BY <1>5, EligibleIs
<1>7. eligibility(r, Off(t)).exempt = 0
  BY <1>6, EligibleIs
<1> QED BY <1>4, <1>7

\* Nobody spends less than the same.
LEMMA SpendsSame ==
  ASSUME NEW t \in Taxpayers, NEW u, u.age = t.age, u.income = t.income, u.deductions = t.deductions
  PROVE  Spends(t, u)
<1>1. t.income \in Earnings /\ t.age \in Nat /\ t.deductions \in Spending
  BY DEF Taxpayers, Earnings
<1>2. AtMost(t.deductions, t.deductions)
  BY <1>1 DEF AtMost, Spending
<1> QED BY <1>1, <1>2 DEF Spends

\* A simulation without IRS Jovem, taxpayer by taxpayer.
LEMMA WithoutJovemOf ==
  ASSUME NEW r, NEW s \in AllSimulations
  PROVE  LET q == withoutJovem(s)
         IN  /\ q.civil = s.civil /\ q.filing = s.filing /\ q.ages = s.ages
             /\ q.singleParent = s.singleParent /\ q.unvalidated = s.unvalidated
             /\ q.first = Off(s.first)
             /\ s.second = None => q.second = None
             /\ s.second # None => s.second \in Taxpayers /\ q.second = Off(s.second)
             /\ q \in AllSimulations
<1> DEFINE q == withoutJovem(s)
<1>1. s.first \in Taxpayers /\ (s.second = None \/ s.second \in Taxpayers)
  BY DEF AllSimulations
<1>2. q = [s EXCEPT !.first = Off(s.first), !.second = IF s.second = None THEN None ELSE Off(s.second)]
  BY DEF withoutJovem, Off, AllSimulations
<1>3. Off(s.first) \in Taxpayers /\ (s.second # None => Off(s.second) \in Taxpayers)
  BY <1>1, OffOf
<1> HIDE DEF q
<1>4. /\ q.civil = s.civil /\ q.filing = s.filing /\ q.ages = s.ages
      /\ q.singleParent = s.singleParent /\ q.unvalidated = s.unvalidated
      /\ q.first = Off(s.first)
      /\ q.second = IF s.second = None THEN None ELSE Off(s.second)
  BY <1>2 DEF AllSimulations
<1>5. q \in AllSimulations
  BY <1>2, <1>3 DEF AllSimulations
<1> QED BY <1>1, <1>4, <1>5 DEF q

\* It is better to have asked.
LEMMA BetterWithJovem ==
  ASSUME NEW r, Sound(r), NEW s \in AllSimulations
  PROVE  /\ Exempt(r, withoutJovem(s), withoutJovem(s).first) = 0
         /\ s.second # None => Exempt(r, withoutJovem(s), withoutJovem(s).second) = 0
         /\ Better(r, s, withoutJovem(s))
<1> DEFINE q == withoutJovem(s)
<1>1. /\ q.civil = s.civil /\ q.filing = s.filing /\ q.ages = s.ages
      /\ q.singleParent = s.singleParent /\ q.unvalidated = s.unvalidated
      /\ q.first = Off(s.first)
      /\ s.second = None => q.second = None
      /\ s.second # None => s.second \in Taxpayers /\ q.second = Off(s.second)
  BY WithoutJovemOf
<1>2. s.first \in Taxpayers
  BY DEF AllSimulations
<1> HIDE DEF q
<1>3. /\ Spends(s.first, q.first) /\ eligibility(r, q.first).exempt = 0
  BY <1>1, <1>2, OffOf, SpendsSame
<1>4. s.second # None => /\ Spends(s.second, q.second) /\ eligibility(r, q.second).exempt = 0
                         /\ q.second \in Taxpayers
  BY <1>1, OffOf, SpendsSame
<1>5. s.second = None <=> q.second = None
  BY <1>1, <1>4, NoneAssumption
<1>6. Exempt(r, q, q.first) = 0 /\ (s.second # None => Exempt(r, q, q.second) = 0)
  BY <1>3, <1>4 DEF Exempt
<1>7. Exempt(r, s, s.first) \in Nat /\ (s.second # None => Exempt(r, s, s.second) \in Nat)
  BY ExemptInt
<1>8. Better(r, s, q)
  BY <1>1, <1>3, <1>4, <1>5, <1>6, <1>7 DEF Better, Exempted
<1> QED BY <1>6, <1>8 DEF q

\* Asking for IRS Jovem never raises the tax due of a scenario, alone, jointly or separately, for any
\* sound rules and amounts: neither the adjustment of the tax (irs_jovem.dart) nor the credits and the
\* surcharge that follow the smaller taxable income undo the exemption.
THEOREM ExemptionPays == Spec => []ExemptionNeverCosts
<1>1. SInv => ExemptionNeverCosts
  <2> SUFFICES ASSUME SInv, Shown PROVE changed.due <= result(withoutJovem(changedSimulation)).due
    BY DEF ExemptionNeverCosts
  <2> DEFINE s == changedSimulation
  <2>1. s \in AllSimulations /\ changed = calculateSimulation(Rules, s)
    BY Applied DEF SInv, changedSimulation, result
  <2> HIDE DEF s
  <2>2. NoWorse(calculateSimulation(Rules, s), calculateSimulation(Rules, withoutJovem(s)))
    <3>1. withoutJovem(s) \in AllSimulations
      BY <2>1, WithoutJovemOf
    <3>2. Better(Rules, s, withoutJovem(s))
      BY <2>1, SoundRules, BetterWithJovem
    <3> QED BY <3>1, <3>2, SoundRules, ResultFalls
  <2> QED BY <2>1, <2>2 DEF NoWorse, result, s
<1> QED BY <1>1, ScenarioIsShown, PTL

-----------------------------------------------------------------------------
(* The rate of the rest.                                                   *)

\* A result with something exempt beside the one without.
StillRates(y, x) == y.tax * x.taxable + x.taxable >= x.tax * y.taxable

\* The adjustment keeps the rate.
LEMMA AdjustmentRates ==
  ASSUME NEW r, Sound(r), NEW normal \in Nat, NEW e \in Nat, NEW divisor \in Nat \ {0}
  PROVE  StillRates(adjustment(r, normal, e, divisor), adjustment(r, normal, 0, divisor))
<1> DEFINE a == adjustment(r, normal, 0, divisor)
<1> DEFINE b == adjustment(r, normal, e, divisor)
<1> DEFINE t == Full(r, normal, divisor)
<1>1. a.taxable = normal /\ a.tax = t
  BY NothingExempt
<1>2. b.tax * normal + normal >= t * b.taxable
  BY SomethingExempt
<1> HIDE DEF a, b, t
<1>3. StillRates(b, a)
  BY <1>1, <1>2 DEF StillRates
<1> QED BY <1>3 DEF a, b

\* Only the taxable income and the tax matter to this.
LEMMA SameRates ==
  ASSUME NEW a, NEW b, StillRates(b, a), NEW x, NEW y,
         x.taxable = a.taxable, x.tax = a.tax, y.taxable = b.taxable, y.tax = b.tax
  PROVE  StillRates(y, x)
BY DEF StillRates

\* Alone the rate is kept.
LEMMA IndividualRates ==
  ASSUME NEW r, Sound(r), NEW t, NEW u, Spends(t, u), NEW p, NEW allow, NEW e \in Nat
  PROVE  StillRates(individual(r, t, p, allow, e), individual(r, u, p, allow, 0))
<1> DEFINE normal == NotNegative(t.income.gross - specificDeduction(r, t.income) - Minimum(r, t.income, allow))
<1> DEFINE a == adjustment(r, normal, 0, 1)
<1> DEFINE b == adjustment(r, normal, e, 1)
<1> DEFINE x == individual(r, u, p, allow, 0)
<1> DEFINE y == individual(r, t, p, allow, e)
<1>1. t.income \in Earnings /\ u.income = t.income
  BY DEF Spends
<1>2. normal \in Nat
  BY <1>1, NormalNat
<1>3. x.taxable = a.taxable /\ x.tax = a.tax /\ y.taxable = b.taxable /\ y.tax = b.tax
  BY <1>1 DEF individual, Assessed
<1> HIDE DEF normal
<1>4. StillRates(b, a)
  <2>1. 1 \in Nat \ {0}
    OBVIOUS
  <2> QED BY <1>2, <2>1, AdjustmentRates
<1> HIDE DEF a, b, x, y
<1>5. StillRates(y, x)
  BY <1>3, <1>4, SameRates
<1> QED BY <1>5 DEF x, y

\* Jointly the rate of the quotients is kept.
LEMMA JointRates ==
  ASSUME NEW rules, Sound(rules), NEW t, NEW u, Spends(t, u), NEW v, NEW z, Spends(v, z),
         NEW p, NEW allow, NEW e \in Nat
  PROVE  StillRates(joint(rules, t, v, p, allow, e), joint(rules, u, z, p, allow, 0))
<1> DEFINE r == jointRules(rules)
<1> DEFINE divisor == r.household.jointDivisor
<1> DEFINE whole == t.income.gross + v.income.gross
                    - specificDeduction(r, t.income) - specificDeduction(r, v.income)
                    - Minimum(r, t.income, allow) - Minimum(r, v.income, allow)
<1> DEFINE normal == NotNegative(whole)
<1> DEFINE a == adjustment(r, normal, 0, divisor)
<1> DEFINE b == adjustment(r, normal, e, divisor)
<1> DEFINE x == joint(rules, u, z, p, allow, 0)
<1> DEFINE y == joint(rules, t, v, p, allow, e)
<1>1. Sound(r) /\ divisor \in Nat \ {0}
  BY JointSound, RestOf
<1>2. t.income \in Earnings /\ u.income = t.income /\ v.income \in Earnings /\ z.income = v.income
  BY DEF Spends
<1>3. x.taxable = a.taxable /\ x.tax = a.tax /\ y.taxable = b.taxable /\ y.tax = b.tax
  BY <1>2 DEF joint, Assessed
<1> HIDE DEF r, divisor
<1>4. normal \in Nat
  BY <1>1, <1>2, JointNormalNat
<1> HIDE DEF normal
<1>5. StillRates(b, a)
  BY <1>1, <1>4, AdjustmentRates
<1> HIDE DEF a, b, x, y
<1>6. StillRates(y, x)
  BY <1>3, <1>5, SameRates
<1> QED BY <1>6 DEF x, y

\* So it is for the results the screen shows.
LEMMA ResultStillRates ==
  ASSUME NEW s \in AllSimulations, supported(s), isCouple(s) => s.filing = "joint"
  PROVE  StillRates(calculateSimulation(Rules, s), calculateSimulation(Rules, withoutJovem(s)))
<1> DEFINE q == withoutJovem(s)
<1> DEFINE p == [ages |-> s.ages, singleParent |-> s.singleParent]
<1> DEFINE c == [ages |-> s.ages, singleParent |-> FALSE]
<1> DEFINE e == Exempt(Rules, s, s.first)
<1> DEFINE g == Exempt(Rules, s, s.second)
<1> DEFINE allow == allowMinimumExistence(Rules, s.first, s.second)
<1>1. Better(Rules, s, q) /\ Exempt(Rules, q, q.first) = 0 /\ (s.second # None => Exempt(Rules, q, q.second) = 0)
  BY SoundRules, BetterWithJovem
<1> HIDE DEF q
<1>2. /\ q.ages = s.ages /\ q.singleParent = s.singleParent /\ q.filing = s.filing
      /\ Spends(s.first, q.first) /\ (q.second # None => Spends(s.second, q.second))
      /\ (q.second = None <=> s.second = None)
  BY <1>1 DEF Better
<1>3. supported(q) /\ (isCouple(q) <=> isCouple(s)) /\ (isCouple(s) => s.second # None)
  <2>1. (supported(q) <=> supported(s)) /\ (isCouple(q) <=> isCouple(s))
    BY <1>1, SameScope
  <2>2. isCouple(s) => s.second # None
    BY DEF supported
  <2> QED BY <2>1, <2>2
<1>4. e \in Nat /\ (s.second # None => g \in Nat)
  BY SoundRules, ExemptInt
<1>5. CASE ~isCouple(s)
  <2>1. /\ calculateSimulation(Rules, s) = individual(Rules, s.first, p, TRUE, e)
        /\ calculateSimulation(Rules, q) = individual(Rules, q.first, p, TRUE, 0)
    BY <1>1, <1>2, <1>3, <1>5, ResultIs
  <2> HIDE DEF e, p
  <2> QED BY <1>2, <1>4, <2>1, SoundRules, IndividualRates DEF q
<1>6. CASE isCouple(s)
  <2>1. calculateSimulation(Rules, s) = joint(Rules, s.first, s.second, c, allow, e + g)
    BY <1>6, ResultIs
  <2>2. calculateSimulation(Rules, q) =
          joint(Rules, q.first, q.second, c, allowMinimumExistence(Rules, q.first, q.second), 0)
    <3>1. /\ Exempt(Rules, q, q.first) + Exempt(Rules, q, q.second) = 0
          /\ [ages |-> q.ages, singleParent |-> FALSE] = c
      BY <1>1, <1>2, <1>3, <1>6
    <3>2. supported(q) /\ isCouple(q) /\ q.filing = "joint"
      BY <1>2, <1>3, <1>6
    <3> HIDE DEF c
    <3>3. calculateSimulation(Rules, q) =
            joint(Rules, q.first, q.second, [ages |-> q.ages, singleParent |-> FALSE],
                  allowMinimumExistence(Rules, q.first, q.second),
                  Exempt(Rules, q, q.first) + Exempt(Rules, q, q.second))
      BY <3>2, ResultIs
    <3> QED BY <3>1, <3>3
  <2>3. Spends(s.first, q.first) /\ Spends(s.second, q.second)
    BY <1>2, <1>3, <1>6
  <2>4. allowMinimumExistence(Rules, q.first, q.second) = allow
    BY <2>3 DEF allowMinimumExistence, Spends
  <2>5. e + g \in Nat
    BY <1>3, <1>4, <1>6
  <2> DEFINE f == e + g
  <2> HIDE DEF c, f, e, g, allow
  <2>6. StillRates(joint(Rules, s.first, s.second, c, allow, f), joint(Rules, q.first, q.second, c, allow, 0))
    BY <2>3, <2>5, SoundRules, JointRates DEF f
  <2> QED BY <2>1, <2>2, <2>4, <2>6 DEF q, f
<1> QED BY <1>5, <1>6

\* Article 22 holds of every scenario assessed alone or jointly, for any sound rules and amounts: what is
\* not exempt is taxed at the rate of the whole income, to the rounding of one amount.
THEOREM ExemptStillRates == Spec => []ExemptIncomeStillRates
<1>1. SInv => ExemptIncomeStillRates
  <2> DEFINE s == changedSimulation
  <2> DEFINE x == result(withoutJovem(s))
  <2> SUFFICES ASSUME SInv, Shown, supported(s), isCouple(s) => s.filing = "joint"
               PROVE  changed.tax * x.taxable + x.taxable >= x.tax * changed.taxable
    BY DEF ExemptIncomeStillRates
  <2>1. s \in AllSimulations /\ changed = calculateSimulation(Rules, s)
    BY Applied DEF SInv, changedSimulation, result
  <2> HIDE DEF s
  <2>2. x = calculateSimulation(Rules, withoutJovem(s))
    BY DEF result
  <2> HIDE DEF x
  <2>3. StillRates(changed, x)
    BY <2>1, <2>2, ResultStillRates
  <2> QED BY <2>3 DEF StillRates
<1> QED BY <1>1, ScenarioIsShown, PTL

-----------------------------------------------------------------------------
(* The years of a history.                                                 *)

\* An unbroken history has an entry for each of its last years.
LEMMA Unbroken ==
  ASSUME NEW years \in SUBSET Int, NEW last \in Int, NEW n \in Nat, IsFiniteSet(years), Cardinality(years) = n,
         \A y \in years : ~(y > last) /\ y .. last \subseteq years
  PROVE  years = last - n + 1 .. last
<1> DEFINE own == last - n + 1 .. last
<1>1. IsFiniteSet(own) /\ Cardinality(own) = n
  <2>1. last - n + 1 \in Int
    OBVIOUS
  <2>2. IsFiniteSet(own) /\ Cardinality(own) = IF last - n + 1 > last THEN 0 ELSE last - (last - n + 1) + 1
    BY <2>1, FS_Interval
  <2> QED BY <2>2
<1>2. years \subseteq own
  <2> SUFFICES ASSUME NEW y \in years PROVE y \in own
    OBVIOUS
  <2>1. y \in Int /\ y <= last /\ y .. last \subseteq years
    OBVIOUS
  <2> DEFINE part == y .. last
  <2>2. Cardinality(part) = IF y > last THEN 0 ELSE last - y + 1
    BY <2>1, FS_Interval
  <2> HIDE DEF part
  <2>3. Cardinality(part) <= Cardinality(years)
    BY <2>1, FS_Subset DEF part
  <2> QED BY <2>1, <2>2, <2>3
<1> HIDE DEF own
<1>3. own = years
  BY <1>1, <1>2, FS_Subset
<1> QED BY <1>3 DEF own

\* An entry put before the others.
LEMMA Longer ==
  ASSUME NEW t \in Taxpayers, NEW e \in Years
  PROVE  LET u == [t EXCEPT !.irsJovem.history = Append(@, e)]
         IN  /\ u.age = t.age /\ u.income = t.income
             /\ u.irsJovem.requested = t.irsJovem.requested /\ u.irsJovem.complete = t.irsJovem.complete
             /\ u.irsJovem.regularized = t.irsJovem.regularized
             /\ Len(u.irsJovem.history) = Len(t.irsJovem.history) + 1
             /\ Range(u.irsJovem.history) = Range(t.irsJovem.history) \cup {e}
<1> DEFINE h == t.irsJovem.history
<1> DEFINE g == Append(h, e)
<1> DEFINE a == [t.irsJovem EXCEPT !.history = g]
<1> DEFINE u == [t EXCEPT !.irsJovem.history = Append(@, e)]
<1>1. t.irsJovem \in [requested : BOOLEAN, complete : BOOLEAN, regularized : BOOLEAN, history : Seq(Years)]
  BY DEF Taxpayers
<1>2. h \in Seq(Years)
  BY <1>1
<1> HIDE DEF h
<1>3. Len(g) = Len(h) + 1 /\ Range(g) = Range(h) \cup {e}
  <2>1. DOMAIN g = 1 .. Len(h) + 1 /\ g[Len(h) + 1] = e /\ \A i \in 1 .. Len(h) : g[i] = h[i]
    BY <1>2
  <2>2. DOMAIN h = 1 .. Len(h) /\ Len(h) \in Nat /\ Len(g) = Len(h) + 1
    BY <1>2
  <2> HIDE DEF g
  <2>3. \A i \in 1 .. Len(h) + 1 : i = Len(h) + 1 \/ i \in 1 .. Len(h)
    BY <2>2
  <2>4. \A i \in 1 .. Len(h) : i \in 1 .. Len(h) + 1
    BY <2>2
  <2>5. Len(h) + 1 \in 1 .. Len(h) + 1
    BY <2>2
  <2>6. Range(g) \subseteq Range(h) \cup {e}
    BY <2>1, <2>2, <2>3 DEF Range
  <2>7. Range(h) \cup {e} \subseteq Range(g)
    BY <2>1, <2>2, <2>4, <2>5 DEF Range
  <2> QED BY <2>2, <2>6, <2>7
<1>4. u = [t EXCEPT !.irsJovem = a]
  BY DEF h
<1> HIDE DEF g
<1>5. /\ a.requested = t.irsJovem.requested /\ a.complete = t.irsJovem.complete
      /\ a.regularized = t.irsJovem.regularized /\ a.history = g
  BY <1>1
<1> HIDE DEF a, u
<1>6. u.age = t.age /\ u.income = t.income /\ u.irsJovem = a
  BY <1>4 DEF Taxpayers
<1> QED BY <1>3, <1>5, <1>6 DEF u, h

\* Eligibility is its two fields.
LEMMA EligibilityIs ==
  ASSUME NEW r, NEW t, NEW u, eligibility(r, u).status = eligibility(r, t).status,
         eligibility(r, u).exempt = eligibility(r, t).exempt
  PROVE  eligibility(r, u) = eligibility(r, t)
<1>1. ASSUME NEW x PROVE eligibility(r, x) = [status |-> eligibility(r, x).status, exempt |-> eligibility(r, x).exempt]
  <2> DEFINE all == returns(r, x.age, x.income.gross, x.irsJovem)
  <2> DEFINE first == CHOOSE i \in DOMAIN all : all[i].condition /\ \A j \in 1 .. i - 1 : ~all[j].condition
  <2> DEFINE a == all[first].status
  <2> DEFINE year == Cardinality({e \in Range(x.irsJovem.history) : counts(e)})
  <2> DEFINE b == IF all[first].status = "eligible"
                  THEN Lesser(timesPpm(x.income.gross, exemptionRate(r, year)),
                              r.ias * r.irsJovem.exemptionLimitIasMultiplier)
                  ELSE 0
  <2>1. eligibility(r, x) = [status |-> a, exempt |-> b]
    BY Zenon DEF eligibility, evaluate
  <2> HIDE DEF a, b
  <2> QED BY <2>1
<1> QED BY <1>1

\* The gross income decides how much is exempt and not whether.
LEMMA StillEligible ==
  ASSUME NEW r, NEW t, NEW u, u.age = t.age, u.irsJovem = t.irsJovem, eligibility(r, t).status = "eligible"
  PROVE  eligibility(r, u).status = "eligible"
<1> DEFINE h == Range(t.irsJovem.history)
<1> DEFINE n == Cardinality({e \in h : counts(e)})
<1> DEFINE holds ==
        /\ t.irsJovem.requested /\ t.irsJovem.complete /\ t.irsJovem.regularized
        /\ ~(t.age > r.irsJovem.maximumAge)
        /\ h # {}
        /\ Cardinality(YearsOf(h)) = Len(t.irsJovem.history)
        /\ \A y \in YearsOf(h) : ~(y > r.taxYear) /\ y .. r.taxYear \subseteq YearsOf(h)
        /\ \A e \in h : /\ e.year = r.taxYear => e.income /\ e.resident /\ ~e.dependent
                        /\ e.year < r.taxYear /\ e.income => e.resident
                        /\ ~e.incompatible
        /\ ~(n < 1) /\ ~(n > r.irsJovem.maximumYears)
<1>1. eligibility(r, t).status = "eligible" <=> holds
  BY EligibleIs
<1>2. eligibility(r, u).status = "eligible" <=>
        /\ u.irsJovem.requested /\ u.irsJovem.complete /\ u.irsJovem.regularized
        /\ ~(u.age > r.irsJovem.maximumAge)
        /\ Range(u.irsJovem.history) # {}
        /\ Cardinality(YearsOf(Range(u.irsJovem.history))) = Len(u.irsJovem.history)
        /\ \A y \in YearsOf(Range(u.irsJovem.history)) :
              ~(y > r.taxYear) /\ y .. r.taxYear \subseteq YearsOf(Range(u.irsJovem.history))
        /\ \A e \in Range(u.irsJovem.history) :
                        /\ e.year = r.taxYear => e.income /\ e.resident /\ ~e.dependent
                        /\ e.year < r.taxYear /\ e.income => e.resident
                        /\ ~e.incompatible
        /\ ~(Cardinality({e \in Range(u.irsJovem.history) : counts(e)}) < 1)
        /\ ~(Cardinality({e \in Range(u.irsJovem.history) : counts(e)}) > r.irsJovem.maximumYears)
  BY EligibleIs
<1>3. eligibility(r, u).status = "eligible" <=> holds
  BY <1>2
<1> QED BY <1>1, <1>3

\* A year before the first either counts, and the rate is that of a later year, or changes nothing.
LEMMA OneYearMore ==
  ASSUME NEW r, Sound(r), NEW t \in Taxpayers, eligibility(r, t).status = "eligible",
         NEW e \in Years, e.year = r.taxYear - Len(t.irsJovem.history), e.resident, ~e.incompatible
  PROVE  LET u == [t EXCEPT !.irsJovem.history = Append(@, e)]
         IN  IF counts(e) THEN eligibility(r, u).exempt <= eligibility(r, t).exempt
             ELSE eligibility(r, u) = eligibility(r, t)
<1> DEFINE u == [t EXCEPT !.irsJovem.history = Append(@, e)]
<1> DEFINE k == Len(t.irsJovem.history)
<1> DEFINE h == Range(t.irsJovem.history)
<1> DEFINE g == Range(u.irsJovem.history)
<1> DEFINE last == r.taxYear
<1> DEFINE n == Cardinality({x \in h : counts(x)})
<1> DEFINE m == Cardinality({x \in g : counts(x)})
<1>1. t.irsJovem.history \in Seq(Years) /\ k \in Nat /\ last \in Nat /\ t.income.gross \in Nat
  BY RestOf DEF Taxpayers
<1>2. /\ u.age = t.age /\ u.income = t.income
      /\ u.irsJovem.requested = t.irsJovem.requested /\ u.irsJovem.complete = t.irsJovem.complete
      /\ u.irsJovem.regularized = t.irsJovem.regularized
      /\ Len(u.irsJovem.history) = k + 1 /\ g = h \cup {e}
  BY Longer
<1>3. IsFiniteSet(h) /\ h \subseteq Years /\ n \in Nat
  BY <1>1, HistoryFinite
<1>4. /\ t.irsJovem.requested /\ t.irsJovem.complete /\ t.irsJovem.regularized
      /\ ~(t.age > r.irsJovem.maximumAge)
      /\ h # {}
      /\ Cardinality(YearsOf(h)) = k
      /\ \A y \in YearsOf(h) : ~(y > last) /\ y .. last \subseteq YearsOf(h)
      /\ \A x \in h : /\ x.year = last => x.income /\ x.resident /\ ~x.dependent
                      /\ x.year < last /\ x.income => x.resident
                      /\ ~x.incompatible
      /\ ~(n < 1) /\ ~(n > r.irsJovem.maximumYears)
      /\ eligibility(r, t).exempt =
           Lesser(timesPpm(t.income.gross, exemptionRate(r, n)), r.ias * r.irsJovem.exemptionLimitIasMultiplier)
  BY EligibleIs
<1>5. /\ eligibility(r, u).status = "eligible" <=>
           /\ u.irsJovem.requested /\ u.irsJovem.complete /\ u.irsJovem.regularized
           /\ ~(u.age > r.irsJovem.maximumAge)
           /\ g # {}
           /\ Cardinality(YearsOf(g)) = Len(u.irsJovem.history)
           /\ \A y \in YearsOf(g) : ~(y > last) /\ y .. last \subseteq YearsOf(g)
           /\ \A x \in g : /\ x.year = last => x.income /\ x.resident /\ ~x.dependent
                           /\ x.year < last /\ x.income => x.resident
                           /\ ~x.incompatible
           /\ ~(m < 1) /\ ~(m > r.irsJovem.maximumYears)
      /\ eligibility(r, u).exempt =
           IF eligibility(r, u).status = "eligible"
           THEN Lesser(timesPpm(u.income.gross, exemptionRate(r, m)), r.ias * r.irsJovem.exemptionLimitIasMultiplier)
           ELSE 0
  BY EligibleIs
<1> HIDE DEF u, k, h, g, last, n, m
<1>6. YearsOf(h) \subseteq Int /\ IsFiniteSet(YearsOf(h))
  <2>1. YearsOf(h) \subseteq Int
    BY <1>3 DEF YearsOf, Years
  <2>2. IsFiniteSet(YearsOf(h))
    <3> DEFINE f == [x \in h |-> x.year]
    <3>1. f \in Surjection(h, YearsOf(h))
      BY DEF Surjection, YearsOf
    <3> HIDE DEF f
    <3> QED BY <1>3, <3>1, FS_Surjection
  <2> QED BY <2>1, <2>2
<1>7. YearsOf(h) = last - k + 1 .. last
  <2> DEFINE years == YearsOf(h)
  <2>1. /\ years \in SUBSET Int /\ IsFiniteSet(years) /\ Cardinality(years) = k
        /\ \A y \in years : ~(y > last) /\ y .. last \subseteq years
    BY <1>4, <1>6
  <2>2. last \in Int
    BY <1>1
  <2> HIDE DEF years
  <2>3. years = last - k + 1 .. last
    BY <1>1, <2>1, <2>2, Unbroken
  <2> QED BY <2>3 DEF years
<1>8. YearsOf(g) = YearsOf(h) \cup {last - k}
  BY <1>2 DEF YearsOf, k, last
<1>9. last - k \notin YearsOf(h) /\ k > 0
  <2>1. YearsOf(h) # {}
    BY <1>4 DEF YearsOf
  <2> QED BY <1>1, <1>7, <2>1
<1>10. Cardinality(YearsOf(g)) = k + 1
  <2> DEFINE years == YearsOf(h)
  <2> DEFINE y == last - k
  <2>1. IsFiniteSet(years) /\ Cardinality(years) = k /\ y \notin years /\ YearsOf(g) = years \cup {y}
    BY <1>4, <1>6, <1>8, <1>9
  <2> HIDE DEF years, y
  <2> QED BY <2>1, FS_AddElement
<1>11. \A y \in YearsOf(g) : ~(y > last) /\ y .. last \subseteq YearsOf(g)
  <2>1. YearsOf(g) = last - k .. last
    BY <1>1, <1>7, <1>8
  <2> QED BY <1>1, <2>1
<1>12. e \notin h /\ e.year # last
  BY <1>1, <1>9 DEF YearsOf, k, last
<1>13. eligibility(r, u).status = "eligible" <=> ~(m < 1) /\ ~(m > r.irsJovem.maximumYears)
  <2>1. \A x \in g : /\ x.year = last => x.income /\ x.resident /\ ~x.dependent
                     /\ x.year < last /\ x.income => x.resident
                     /\ ~x.incompatible
    BY <1>2, <1>4, <1>12
  <2>2. g # {}
    BY <1>2
  <2> QED BY <1>2, <1>4, <1>5, <1>10, <1>11, <2>1, <2>2
<1> DEFINE S == {x \in h : counts(x)}
<1>14. IsFiniteSet(S)
  <2>1. S \subseteq h
    OBVIOUS
  <2> HIDE DEF S
  <2> QED BY <1>3, <2>1, FS_Subset
<1>15. CASE ~counts(e)
  <2>1. {x \in g : counts(x)} = {x \in h : counts(x)}
    BY <1>2, <1>15
  <2>2. m = n
    BY <2>1 DEF m, n
  <2>3. eligibility(r, u).status = "eligible" /\ eligibility(r, u).exempt = eligibility(r, t).exempt
    BY <1>2, <1>4, <1>5, <1>13, <2>2
  <2> QED BY <1>15, <2>3, EligibilityIs DEF u
<1>16. CASE counts(e)
  <2>1. {x \in g : counts(x)} = S \cup {e}
    BY <1>2, <1>16
  <2>2. e \notin S /\ n = Cardinality(S)
    BY <1>12 DEF n
  <2> HIDE DEF S
  <2>3. m = n + 1
    BY <1>14, <2>1, <2>2, FS_AddElement DEF m
  <2>4. n >= 1 /\ m \in Nat /\ m >= 1 /\ n <= m
    BY <1>3, <1>4, <2>3
  <2> DEFINE a == exemptionRate(r, n)
  <2> DEFINE b == exemptionRate(r, m)
  <2> DEFINE top == r.ias * r.irsJovem.exemptionLimitIasMultiplier
  <2>5. a \in Nat /\ b \in Nat /\ b <= a
    BY <1>3, <2>4, ExemptionRateFalls
  <2>6. top \in Nat
    BY RestOf, JovemOf
  <2> HIDE DEF a, b
  <2> DEFINE p == timesPpm(t.income.gross, a)
  <2> DEFINE q == timesPpm(t.income.gross, b)
  <2>7. p \in Nat /\ q \in Nat
    BY <1>1, <2>5, Rate
  <2>8. q <= p
    BY <1>1, <2>5, MulDivGrows, RatesAssumption DEF timesPpm
  <2>9. eligibility(r, t).exempt = Lesser(p, top)
    BY <1>4 DEF a
  <2>10. eligibility(r, u).exempt = Lesser(q, top) \/ eligibility(r, u).exempt = 0
    BY <1>2, <1>5 DEF b
  <2> HIDE DEF p, q, top
  <2>11. eligibility(r, u).exempt <= eligibility(r, t).exempt
    BY <2>6, <2>7, <2>8, <2>9, <2>10 DEF Lesser
  <2> QED BY <1>16, <2>11 DEF u
<1> QED BY <1>15, <1>16

\* For every history that is eligible, of any length, the year before its first changes the exemption only
\* if it had income outside a household, and then never upwards.
THEOREM OnlyUsedYearsCount == Spec => []IdleYearsDoNotCount
<1>1. SInv => IdleYearsDoNotCount
  <2> DEFINE t == changedSimulation.first
  <2> DEFINE earliest == Rules.taxYear - Len(t.irsJovem.history) + 1
  <2> DEFINE before(income, dependent) ==
                [year |-> earliest - 1, income |-> income, dependent |-> dependent,
                 resident |-> TRUE, incompatible |-> FALSE]
  <2> DEFINE longer(e) == eligibility(Rules, [t EXCEPT !.irsJovem.history = Append(@, e)])
  <2> SUFFICES ASSUME SInv, Shown, eligibility(Rules, base.first).status = "eligible",
                      NEW income \in BOOLEAN, NEW dependent \in BOOLEAN
               PROVE  IF income /\ ~dependent
                      THEN longer(before(income, dependent)).exempt <= eligibility(Rules, t).exempt
                      ELSE longer(before(income, dependent)) = eligibility(Rules, t)
    BY DEF IdleYearsDoNotCount
  <2> DEFINE e == before(income, dependent)
  <2>1. t \in Taxpayers /\ t.age = base.first.age /\ t.irsJovem = base.first.irsJovem
    BY Applied DEF SInv, changedSimulation
  <2>2. t.irsJovem.history \in Seq(Years) /\ Rules.taxYear \in Nat
    BY <2>1, SoundRules, RestOf DEF Taxpayers
  <2> HIDE DEF t
  <2>3. eligibility(Rules, t).status = "eligible"
    BY <2>1, StillEligible
  <2>4. earliest - 1 = Rules.taxYear - Len(t.irsJovem.history) /\ earliest - 1 \in Int
    BY <2>2
  <2> HIDE DEF earliest
  <2>5. /\ e \in Years /\ e.year = Rules.taxYear - Len(t.irsJovem.history) /\ e.resident /\ ~e.incompatible
        /\ counts(e) <=> income /\ ~dependent
    BY <2>4 DEF Years, counts
  <2> HIDE DEF e
  <2>6. IF counts(e) THEN longer(e).exempt <= eligibility(Rules, t).exempt
        ELSE longer(e) = eligibility(Rules, t)
    BY <2>1, <2>3, <2>5, SoundRules, OneYearMore
  <2> QED BY <2>5, <2>6 DEF e
<1> QED BY <1>1, ScenarioIsShown, PTL

-----------------------------------------------------------------------------
(* The order of entry.                                                     *)

\* A finite family of naturals has a largest member: one that the fewest others exceed.
LEMMA LargestOf ==
  ASSUME NEW S, IsFiniteSet(S), S # {}, NEW f, \A i \in S : f[i] \in Nat
  PROVE  \E i \in S : \A j \in S : f[j] <= f[i]
<1> DEFINE above(i) == {j \in S : f[j] > f[i]}
<1> DEFINE counted == {Cardinality(above(i)) : i \in S}
<1>1. \A i \in S : above(i) \in SUBSET S /\ IsFiniteSet(above(i)) /\ Cardinality(above(i)) \in Nat
  <2> SUFFICES ASSUME NEW i \in S
               PROVE  above(i) \in SUBSET S /\ IsFiniteSet(above(i)) /\ Cardinality(above(i)) \in Nat
    OBVIOUS
  <2> DEFINE T == above(i)
  <2>1. T \in SUBSET S
    OBVIOUS
  <2> HIDE DEF T
  <2>2. IsFiniteSet(T)
    BY <2>1, FS_Subset
  <2>3. Cardinality(T) \in Nat
    BY <2>2, FS_CardinalityType
  <2> QED BY <2>1, <2>2, <2>3 DEF T
<1>2. counted \in SUBSET Nat /\ counted # {}
  BY <1>1
<1>3. PICK m \in counted : \A k \in counted : m <= k
  BY <1>2, LeastOf
<1>4. PICK i \in S : m = Cardinality(above(i))
  OBVIOUS
<1>5. ASSUME NEW j \in S, ~(f[j] <= f[i]) PROVE FALSE
  <2> DEFINE T == above(i)
  <2> DEFINE U == above(j)
  <2>1. U \subseteq T /\ j \in T /\ j \notin U
    BY <1>5
  <2>2. IsFiniteSet(T) /\ Cardinality(T) \in Nat /\ Cardinality(U) \in Nat
    BY <1>1
  <2>3. Cardinality(T) <= Cardinality(U)
    BY <1>3, <1>4
  <2> HIDE DEF T, U
  <2>4. Cardinality(U) <= Cardinality(T) /\ (Cardinality(T) = Cardinality(U) => T = U)
    BY <2>1, <2>2, FS_Subset
  <2> QED BY <2>1, <2>2, <2>3, <2>4
<1> QED BY <1>5

\* The credit for dependents, without choosing who is the eldest.
LEMMA DependentIs ==
  ASSUME NEW r, NEW ages \in Seq(Nat)
  PROVE  LET small == {i \in DOMAIN ages : ages[i] <= 6}
             none  == ages = <<>>
         IN  dependentCredit(r, ages) =
               Len(ages) * r.deductions.dependentBase
               + (IF ~none /\ small = DOMAIN ages THEN Cardinality(small) - 1 ELSE Cardinality(small))
                 * r.deductions.secondAndLaterUnderSixExtra
               + (IF ~none /\ \A i \in DOMAIN ages : ages[i] <= 3 THEN r.deductions.dependentUnderThreeExtra ELSE 0)
<1> DEFINE small == {i \in DOMAIN ages : ages[i] <= 6}
<1> DEFINE eldest == CHOOSE i \in DOMAIN ages : \A j \in DOMAIN ages : ages[j] <= ages[i]
<1> DEFINE later == {i \in DOMAIN ages : i # eldest /\ ages[i] <= 6}
<1> DEFINE baby == ages # <<>> /\ ages[eldest] <= 3
<1>1. dependentCredit(r, ages) =
        Len(ages) * r.deductions.dependentBase
        + Cardinality(later) * r.deductions.secondAndLaterUnderSixExtra
        + (IF baby THEN r.deductions.dependentUnderThreeExtra ELSE 0)
  BY DEF dependentCredit
<1>2. IsFiniteSet(DOMAIN ages) /\ (ages # <<>> => DOMAIN ages # {}) /\ \A i \in DOMAIN ages : ages[i] \in Nat
  <2>1. DOMAIN ages = 1 .. Len(ages) /\ 1 \in Int /\ Len(ages) \in Int
    OBVIOUS
  <2>2. IsFiniteSet(DOMAIN ages)
    BY <2>1, FS_Interval
  <2>3. ages # <<>> => Len(ages) >= 1
    OBVIOUS
  <2> QED BY <2>1, <2>2, <2>3
<1>3. IsFiniteSet(small)
  <2>1. small \in SUBSET DOMAIN ages
    OBVIOUS
  <2> HIDE DEF small
  <2> QED BY <1>2, <2>1, FS_Subset
<1>4. CASE ages = <<>>
  <2>1. later = small /\ ~baby
    BY <1>4
  <2> HIDE DEF later, small, baby
  <2> QED BY <1>1, <1>4, <2>1 DEF small
<1>5. CASE ages # <<>>
  <2>1. \E i \in DOMAIN ages : \A j \in DOMAIN ages : ages[j] <= ages[i]
    <3>1. DOMAIN ages # {}
      BY <1>2, <1>5
    <3> QED BY <1>2, <3>1, LargestOf
  <2>2. eldest \in DOMAIN ages /\ \A j \in DOMAIN ages : ages[j] <= ages[eldest]
    BY <2>1
  <2> HIDE DEF eldest
  <2>3. baby <=> \A i \in DOMAIN ages : ages[i] <= 3
    BY <1>2, <1>5, <2>2
  <2>4. eldest \in small <=> small = DOMAIN ages
    <3>1. ages[eldest] <= 6 <=> \A i \in DOMAIN ages : ages[i] <= 6
      BY <1>2, <2>2
    <3> QED BY <2>2, <3>1
  <2>5. later = small \ {eldest}
    OBVIOUS
  <2> HIDE DEF later, baby, small
  <2>6. Cardinality(later) = IF eldest \in small THEN Cardinality(small) - 1 ELSE Cardinality(small)
    BY <1>3, <2>5, FS_RemoveElement
  <2>7. Cardinality(later) = IF small = DOMAIN ages THEN Cardinality(small) - 1 ELSE Cardinality(small)
    BY <2>4, <2>6
  <2> QED BY <1>1, <1>5, <2>3, <2>7 DEF small
<1> QED BY <1>4, <1>5

\* The same ages, entered in another order.
Rearranged(ages, other) ==
    /\ ages \in Seq(Nat) /\ other \in Seq(Nat) /\ Len(other) = Len(ages)
    /\ \E f \in Bijection(DOMAIN ages, DOMAIN ages) : \A i \in DOMAIN ages : other[i] = ages[f[i]]

\* Such as the other way round.
LEMMA ReversedDependents == ASSUME NEW ages \in Seq(Nat) PROVE Rearranged(ages, Reverse(ages))
<1> DEFINE n == Len(ages)
<1> DEFINE back == [i \in 1 .. n |-> ages[n - i + 1]]
<1> DEFINE f == [i \in 1 .. n |-> n - i + 1]
<1>1. n \in Nat /\ DOMAIN ages = 1 .. n /\ \A i \in 1 .. n : ages[i] \in Nat
  OBVIOUS
<1>2. Reverse(ages) = back
  BY DEF Reverse
<1> HIDE DEF n
<1>3. \A i \in 1 .. n : n - i + 1 \in 1 .. n
  BY <1>1
<1>4. back \in Seq(Nat) /\ Len(back) = n
  <2>1. back \in [1 .. n -> Nat]
    BY <1>1, <1>3
  <2> HIDE DEF back
  <2> QED BY <1>1, <2>1
<1>5. f \in [1 .. n -> 1 .. n]
  BY <1>3
<1>6. \A i \in 1 .. n : f[i] \in 1 .. n /\ f[f[i]] = i
  <2> SUFFICES ASSUME NEW i \in 1 .. n PROVE f[i] \in 1 .. n /\ f[f[i]] = i
    OBVIOUS
  <2>1. f[i] = n - i + 1 /\ f[i] \in 1 .. n
    BY <1>3
  <2>2. f[n - i + 1] = n - (n - i + 1) + 1
    BY <1>3
  <2>3. n - (n - i + 1) + 1 = i
    BY <1>1
  <2> HIDE DEF f
  <2> QED BY <2>1, <2>2, <2>3
<1>7. \A i \in 1 .. n : back[i] = ages[f[i]]
  OBVIOUS
<1> HIDE DEF f, back
<1>8. f \in Bijection(1 .. n, 1 .. n)
  BY <1>5, <1>6 DEF Bijection, Injection, Surjection, IsInjective
<1> QED BY <1>1, <1>2, <1>4, <1>7, <1>8 DEF Rearranged, n

\* Some of the ages, counted where they were and where they are.
LEMMA SameCount ==
  ASSUME NEW n \in Nat, NEW f \in Bijection(1 .. n, 1 .. n), NEW S \in SUBSET (1 .. n), NEW T \in SUBSET (1 .. n),
         \A i \in 1 .. n : i \in T <=> f[i] \in S
  PROVE  Cardinality(S) = Cardinality(T) /\ (S = 1 .. n <=> T = 1 .. n)
<1> DEFINE g == [i \in T |-> f[i]]
<1>1. /\ f \in [1 .. n -> 1 .. n] /\ \A i, j \in 1 .. n : f[i] = f[j] => i = j
      /\ \A j \in 1 .. n : \E i \in 1 .. n : f[i] = j
  BY DEF Bijection, Injection, Surjection, IsInjective
<1>2. IsFiniteSet(T)
  <2>1. IsFiniteSet(1 .. n)
    BY FS_Interval
  <2> QED BY <2>1, FS_Subset
<1>3. g \in [T -> S] /\ \A i, j \in T : g[i] = g[j] => i = j
  BY <1>1
<1>4. \A j \in S : \E i \in T : g[i] = j
  <2> SUFFICES ASSUME NEW j \in S PROVE \E i \in T : g[i] = j
    OBVIOUS
  <2>1. PICK i \in 1 .. n : f[i] = j
    BY <1>1
  <2>2. i \in T /\ g[i] = j
    BY <2>1
  <2> QED BY <2>2
<1> HIDE DEF g
<1>5. ExistsBijection(T, S)
  <2>1. g \in Bijection(T, S)
    BY <1>3, <1>4 DEF Bijection, Injection, Surjection, IsInjective
  <2> QED BY <2>1 DEF ExistsBijection
<1>6. Cardinality(T) = Cardinality(S)
  BY <1>2, <1>5, FS_Bijection
<1>7. S = 1 .. n <=> T = 1 .. n
  <2>1. ASSUME S = 1 .. n PROVE T = 1 .. n
    BY <1>1, <2>1
  <2>2. ASSUME T = 1 .. n PROVE S = 1 .. n
    <3>1. \A j \in 1 .. n : j \in S
      BY <1>1, <2>2
    <3> QED BY <3>1
  <2> QED BY <2>1, <2>2
<1> QED BY <1>6, <1>7

\* Where in the list a dependent stands makes no difference to the credit.
LEMMA AnyOrderOfDependents ==
  ASSUME NEW r, NEW ages, NEW other, Rearranged(ages, other)
  PROVE  dependentCredit(r, other) = dependentCredit(r, ages)
<1> DEFINE n == Len(ages)
<1> DEFINE S == {i \in DOMAIN ages : ages[i] <= 6}
<1> DEFINE T == {i \in DOMAIN other : other[i] <= 6}
<1>1. ages \in Seq(Nat) /\ other \in Seq(Nat) /\ Len(other) = Len(ages)
  BY DEF Rearranged
<1>2. n \in Nat /\ DOMAIN ages = 1 .. n /\ DOMAIN other = 1 .. n
  BY <1>1
<1>3. other = <<>> <=> ages = <<>>
  BY <1>1
<1>4. PICK f \in Bijection(1 .. n, 1 .. n) : \A i \in 1 .. n : other[i] = ages[f[i]]
  BY <1>2 DEF Rearranged
<1>5. f \in [1 .. n -> 1 .. n] /\ \A j \in 1 .. n : \E i \in 1 .. n : f[i] = j
  BY <1>4 DEF Bijection, Injection, Surjection
<1> HIDE DEF n
<1>6. S \in SUBSET (1 .. n) /\ T \in SUBSET (1 .. n) /\ \A i \in 1 .. n : i \in T <=> f[i] \in S
  <2>1. \A i \in 1 .. n : f[i] \in 1 .. n /\ other[i] = ages[f[i]]
    BY <1>4, <1>5
  <2>2. \A i \in 1 .. n : i \in T <=> f[i] \in S
    BY <1>2, <2>1
  <2> QED BY <1>2, <2>2
<1>7. (\A i \in DOMAIN other : other[i] <= 3) <=> (\A i \in DOMAIN ages : ages[i] <= 3)
  <2>1. \A i \in 1 .. n : f[i] \in 1 .. n /\ other[i] = ages[f[i]]
    BY <1>4, <1>5
  <2>2. ASSUME \A i \in 1 .. n : other[i] <= 3, NEW j \in 1 .. n PROVE ages[j] <= 3
    <3>1. PICK i \in 1 .. n : f[i] = j
      BY <1>5
    <3> QED BY <2>1, <2>2, <3>1
  <2>3. ASSUME \A j \in 1 .. n : ages[j] <= 3, NEW i \in 1 .. n PROVE other[i] <= 3
    BY <2>1, <2>3
  <2> QED BY <1>2, <2>2, <2>3
<1> HIDE DEF S, T
<1>8. Cardinality(S) = Cardinality(T) /\ (S = DOMAIN ages <=> T = DOMAIN other)
  <2>1. Cardinality(S) = Cardinality(T) /\ (S = 1 .. n <=> T = 1 .. n)
    <3>1. f \in Bijection(1 .. n, 1 .. n) /\ n \in Nat
      BY <1>2, <1>4
    <3> QED BY <1>6, <3>1, SameCount
  <2> QED BY <1>2, <2>1
<1>9. dependentCredit(r, ages) =
        Len(ages) * r.deductions.dependentBase
        + (IF ~(ages = <<>>) /\ S = DOMAIN ages THEN Cardinality(S) - 1 ELSE Cardinality(S))
          * r.deductions.secondAndLaterUnderSixExtra
        + (IF ~(ages = <<>>) /\ \A i \in DOMAIN ages : ages[i] <= 3 THEN r.deductions.dependentUnderThreeExtra ELSE 0)
  BY <1>1, DependentIs DEF S
<1>10. dependentCredit(r, other) =
         Len(other) * r.deductions.dependentBase
         + (IF ~(other = <<>>) /\ T = DOMAIN other THEN Cardinality(T) - 1 ELSE Cardinality(T))
           * r.deductions.secondAndLaterUnderSixExtra
         + (IF ~(other = <<>>) /\ \A i \in DOMAIN other : other[i] <= 3 THEN r.deductions.dependentUnderThreeExtra ELSE 0)
  BY <1>1, DependentIs DEF T
<1> DEFINE a == Len(ages) * r.deductions.dependentBase
<1> DEFINE b == (IF ~(ages = <<>>) /\ S = DOMAIN ages THEN Cardinality(S) - 1 ELSE Cardinality(S))
                * r.deductions.secondAndLaterUnderSixExtra
<1> DEFINE c == IF ~(ages = <<>>) /\ \A i \in DOMAIN ages : ages[i] <= 3 THEN r.deductions.dependentUnderThreeExtra ELSE 0
<1>11. dependentCredit(r, other) = a + b + c
  BY <1>1, <1>3, <1>7, <1>8, <1>10
<1> QED BY <1>9, <1>11

\* A household whose dependents were entered in another order.
Reordered(p, q) == Rearranged(p.ages, q.ages) /\ q.singleParent = p.singleParent

\* So the credits are the same,
LEMMA SameCredits ==
  ASSUME NEW r, NEW p, NEW q, Reordered(p, q), NEW d, NEW taxable, NEW tax, NEW ppr
  PROVE  credits(r, q, d, taxable, tax, ppr) = credits(r, p, d, taxable, tax, ppr)
<1>1. dependentCredit(r, q.ages) = dependentCredit(r, p.ages) /\ Len(q.ages) = Len(p.ages)
  BY AnyOrderOfDependents DEF Reordered, Rearranged
<1>2. q.singleParent = p.singleParent
  BY DEF Reordered
<1> DEFINE g == Group(r, d, taxable, ppr)
<1>3. /\ credits(r, p, d, taxable, tax, ppr) =
           Lesser(dependentCredit(r, p.ages) + General(r, p, d) + Capped(r, p, g, taxable), tax)
      /\ credits(r, q, d, taxable, tax, ppr) =
           Lesser(dependentCredit(r, q.ages) + General(r, q, d) + Capped(r, q, g, taxable), tax)
  BY CreditsAre
<1> HIDE DEF g
<1>4. General(r, q, d) = General(r, p, d)
  BY <1>2 DEF General
<1>5. Capped(r, q, g, taxable) = Capped(r, p, g, taxable)
  BY <1>1 DEF Capped
<1> QED BY <1>1, <1>3, <1>4, <1>5

\* and an individual assessment,
LEMMA AnyOrderIndividual ==
  ASSUME NEW r, NEW t, NEW p, NEW q, Reordered(p, q), NEW allow, NEW e
  PROVE  individual(r, t, q, allow, e) = individual(r, t, p, allow, e)
<1>1. ASSUME NEW d, NEW taxable, NEW tax, NEW ppr
      PROVE  credits(r, q, d, taxable, tax, ppr) = credits(r, p, d, taxable, tax, ppr)
  BY SameCredits
<1> QED BY <1>1 DEF individual

\* and a joint one,
LEMMA AnyOrderJoint ==
  ASSUME NEW r, NEW t, NEW u, NEW p, NEW q, Reordered(p, q), NEW allow, NEW e
  PROVE  joint(r, t, u, q, allow, e) = joint(r, t, u, p, allow, e)
<1> DEFINE j == jointRules(r)
<1>1. ASSUME NEW d, NEW taxable, NEW tax, NEW ppr
      PROVE  credits(j, q, d, taxable, tax, ppr) = credits(j, p, d, taxable, tax, ppr)
  BY SameCredits
<1> QED BY <1>1 DEF joint

\* and the result of every simulation within the validated scope.
LEMMA AnyOrderResult ==
  ASSUME NEW r, NEW s \in AllSimulations, supported(s), NEW other, Rearranged(s.ages, other)
  PROVE  calculateSimulation(r, [s EXCEPT !.ages = other]) = calculateSimulation(r, s)
<1> DEFINE q == [s EXCEPT !.ages = other]
<1>1. s.ages \in Seq(Nat) /\ s.filing \in {"separate", "joint"}
  BY DEF AllSimulations
<1>2. /\ q.ages = other /\ q.civil = s.civil /\ q.filing = s.filing /\ q.first = s.first
      /\ q.second = s.second /\ q.singleParent = s.singleParent /\ q.unvalidated = s.unvalidated
  BY DEF AllSimulations
<1> HIDE DEF q
<1>3. /\ other \in Seq(Nat) /\ Len(other) = Len(s.ages)
      /\ \A i \in DOMAIN other : \E j \in DOMAIN s.ages : other[i] = s.ages[j]
  <2>1. other \in Seq(Nat) /\ Len(other) = Len(s.ages)
    BY DEF Rearranged
  <2>2. DOMAIN other = DOMAIN s.ages
    BY <1>1, <2>1
  <2>3. PICK f \in Bijection(DOMAIN s.ages, DOMAIN s.ages) : \A i \in DOMAIN s.ages : other[i] = s.ages[f[i]]
    BY DEF Rearranged
  <2>4. f \in [DOMAIN s.ages -> DOMAIN s.ages]
    BY <2>3 DEF Bijection, Injection
  <2> QED BY <2>1, <2>2, <2>3, <2>4
<1>4. isCouple(q) <=> isCouple(s)
  BY <1>2 DEF isCouple
<1>5. supported(q)
  <2>1. other = <<>> <=> s.ages = <<>>
    BY <1>1, <1>3
  <2>2. \A i \in DOMAIN other : other[i] \in 0 .. 25
    BY <1>3 DEF supported
  <2> QED BY <1>2, <1>4, <2>1, <2>2 DEF supported
<1>6. Exempt(r, q, q.first) = Exempt(r, s, s.first) /\ Exempt(r, q, q.second) = Exempt(r, s, s.second)
  BY <1>2, <1>4 DEF Exempt
<1> DEFINE e == Exempt(r, s, s.first)
<1> DEFINE f == Exempt(r, s, s.second)
<1> DEFINE allow == allowMinimumExistence(r, s.first, s.second)
<1> DEFINE x == calculateSimulation(r, s)
<1> DEFINE y == calculateSimulation(r, q)
<1> DEFINE p == [ages |-> s.ages, singleParent |-> s.singleParent]
<1> DEFINE pair == [ages |-> s.ages, singleParent |-> FALSE]
<1> DEFINE b == [ages |-> q.ages, singleParent |-> q.singleParent]
<1> DEFINE yes == TRUE
<1> DEFINE otherPair == [ages |-> q.ages, singleParent |-> FALSE]
<1>7. Reordered(p, b) /\ Reordered(pair, otherPair)
  BY <1>1, <1>2 DEF Reordered
<1>8. ~isCouple(s) =>
        /\ x = individual(r, s.first, p, yes, e)
        /\ y = individual(r, s.first, b, yes, e)
  <2>1. ~isCouple(s) => x = individual(r, s.first, p, yes, e)
    BY ResultIs
  <2>2. ~isCouple(s) => y = individual(r, q.first, b, yes, Exempt(r, q, q.first))
    BY <1>4, <1>5, ResultIs
  <2> HIDE DEF x, y, p, b, pair, otherPair, yes
  <2> QED BY <1>2, <1>6, <2>1, <2>2
<1>9. isCouple(s) /\ s.filing = "joint" =>
        /\ x = joint(r, s.first, s.second, pair, allow, e + f)
        /\ y = joint(r, s.first, s.second, otherPair, allow, e + f)
  <2>1. isCouple(s) /\ s.filing = "joint" => x = joint(r, s.first, s.second, pair, allow, e + f)
    BY ResultIs
  <2>2. isCouple(s) /\ s.filing = "joint" =>
          y = joint(r, q.first, q.second, otherPair, allowMinimumExistence(r, q.first, q.second),
                    Exempt(r, q, q.first) + Exempt(r, q, q.second))
    BY <1>2, <1>4, <1>5, ResultIs
  <2> HIDE DEF x, y, p, b, pair, otherPair
  <2> QED BY <1>2, <1>6, <2>1, <2>2
<1> DEFINE own == separateRules(r)
<1>10. isCouple(s) /\ s.filing = "separate" =>
        /\ x = sumResults(individual(own, s.first, pair, allow, e), individual(own, s.second, pair, allow, f))
        /\ y = sumResults(individual(own, s.first, otherPair, allow, e), individual(own, s.second, otherPair, allow, f))
  <2>1. isCouple(s) /\ s.filing = "separate" =>
          x = sumResults(individual(own, s.first, pair, allow, e), individual(own, s.second, pair, allow, f))
    BY ResultIs
  <2>2. isCouple(s) /\ s.filing = "separate" =>
          y = sumResults(individual(own, q.first, otherPair, allowMinimumExistence(r, q.first, q.second), Exempt(r, q, q.first)),
                         individual(own, q.second, otherPair, allowMinimumExistence(r, q.first, q.second), Exempt(r, q, q.second)))
    BY <1>2, <1>4, <1>5, ResultIs
  <2> HIDE DEF x, y, p, b, pair, otherPair, own
  <2> QED BY <1>2, <1>6, <2>1, <2>2
<1> HIDE DEF e, f, allow, p, b, pair, otherPair, own, yes
<1>11. individual(r, s.first, b, yes, e) = individual(r, s.first, p, yes, e)
  BY <1>7, AnyOrderIndividual
<1>12. joint(r, s.first, s.second, otherPair, allow, e + f) = joint(r, s.first, s.second, pair, allow, e + f)
  BY <1>7, AnyOrderJoint
<1>13. /\ individual(own, s.first, otherPair, allow, e) = individual(own, s.first, pair, allow, e)
       /\ individual(own, s.second, otherPair, allow, f) = individual(own, s.second, pair, allow, f)
  BY <1>7, AnyOrderIndividual
<1> HIDE DEF x, y
<1>14. x = y
  BY <1>1, <1>8, <1>9, <1>10, <1>11, <1>12, <1>13
<1> QED BY <1>14 DEF x, y, q

\* A taxpayer spends no less than she does.
LEMMA TaxpayerIs ==
  ASSUME NEW t \in Taxpayers
  PROVE  t.income \in Earnings /\ t.deductions \in Spending /\ t.age \in Nat /\ Spends(t, t)
<1>1. t.income \in Earnings /\ t.deductions \in Spending /\ t.age \in Nat
  BY DEF Taxpayers, Earnings
<1>2. AtMost(t.deductions, t.deductions)
  BY <1>1 DEF AtMost, Spending
<1> QED BY <1>1, <1>2 DEF Spends

\* In a joint assessment the spouses add up in either order.
LEMMA EitherSpouseFirst ==
  ASSUME NEW rules, Sound(rules), NEW t \in Taxpayers, NEW v \in Taxpayers, NEW p, NEW allow, NEW e
  PROVE  joint(rules, v, t, p, allow, e) = joint(rules, t, v, p, allow, e)
<1> DEFINE r == jointRules(rules)
<1> DEFINE divisor == r.household.jointDivisor
<1>1. Sound(r)
  BY JointSound
<1>2. /\ t.income \in Earnings /\ t.deductions \in Spending /\ Spends(t, t)
      /\ v.income \in Earnings /\ v.deductions \in Spending /\ Spends(v, v)
  BY TaxpayerIs
<1> HIDE DEF r
<1> DEFINE a == t.income.gross
<1> DEFINE b == v.income.gross
<1> DEFINE c == specificDeduction(r, t.income)
<1> DEFINE d == specificDeduction(r, v.income)
<1> DEFINE m == Minimum(r, t.income, allow)
<1> DEFINE n == Minimum(r, v.income, allow)
<1>3. a \in Nat /\ b \in Nat /\ t.income.withholding \in Nat /\ v.income.withholding \in Nat
  BY <1>2 DEF Earnings
<1>4. c \in Nat /\ d \in Nat
  BY <1>1, <1>2, SpecificNat
<1>5. m \in Int /\ n \in Int
  BY <1>1, <1>2, MinimumInt
<1>6. b + a - d - c - n - m = a + b - c - d - m - n
  <2> HIDE DEF a, b, c, d, m, n
  <2> QED BY <1>3, <1>4, <1>5
<1>7. add(v.deductions, t.deductions) = add(t.deductions, v.deductions)
  BY <1>2 DEF add, Spending
<1>8. jointPpr(r, v, t) = jointPpr(r, t, v)
  <2>1. pprCredit(r, t.deductions.ppr, t.age) \in Nat /\ pprCredit(r, v.deductions.ppr, v.age) \in Nat
    BY <1>1, <1>2, PprOf
  <2> QED BY <2>1 DEF jointPpr
<1>9. v.income.withholding + t.income.withholding = t.income.withholding + v.income.withholding
  BY <1>3
<1> QED BY <1>6, <1>7, <1>8, <1>9 DEF joint, r

\* So do two individual assessments.
LEMMA SumEitherWay ==
  ASSUME NEW x \in Results, NEW y \in Results
  PROVE  sumResults(y, x) = sumResults(x, y)
<1>1. \A f \in DOMAIN x : f # "available" => x[f] \in Int /\ y[f] \in Int
  BY DEF Results
<1>2. DOMAIN x = DOMAIN y
  BY DEF Results
<1>3. \A f \in DOMAIN x : f # "available" => y[f] + x[f] = x[f] + y[f]
  BY <1>1
<1> QED BY <1>2, <1>3 DEF sumResults

\* A couple within the validated scope has the same result whichever spouse was entered first.
LEMMA EitherSpouseResult ==
  ASSUME NEW r, Sound(r), NEW s \in AllSimulations, supported(s), isCouple(s)
  PROVE  calculateSimulation(r, [s EXCEPT !.first = s.second, !.second = s.first]) = calculateSimulation(r, s)
<1> DEFINE q == [s EXCEPT !.first = s.second, !.second = s.first]
<1> DEFINE t == s.first
<1> DEFINE v == s.second
<1>1. s.ages \in Seq(Nat) /\ s.filing \in {"separate", "joint"} /\ t \in Taxpayers /\ v \in Taxpayers
  BY DEF AllSimulations, supported
<1>2. /\ q.ages = s.ages /\ q.civil = s.civil /\ q.filing = s.filing /\ q.first = v
      /\ q.second = t /\ q.singleParent = s.singleParent /\ q.unvalidated = s.unvalidated
  BY DEF AllSimulations
<1> HIDE DEF q
<1>3. isCouple(q)
  BY <1>2 DEF isCouple
<1>4. supported(q)
  BY <1>1, <1>2, <1>3, NoneAssumption DEF supported
<1> DEFINE e == Exempt(r, s, t)
<1> DEFINE f == Exempt(r, s, v)
<1>5. Exempt(r, q, v) = f /\ Exempt(r, q, t) = e
  BY <1>2, <1>3 DEF Exempt
<1>6. e \in Nat /\ f \in Nat
  BY <1>1, NoneAssumption, ExemptInt
<1> DEFINE allow == allowMinimumExistence(r, t, v)
<1>7. allowMinimumExistence(r, v, t) = allow
  <2>1. t.income.gross \in Nat /\ v.income.gross \in Nat
    BY <1>1 DEF Taxpayers
  <2>2. v.income.gross + t.income.gross = t.income.gross + v.income.gross
    BY <2>1
  <2> QED BY <2>2 DEF allowMinimumExistence
<1> DEFINE x == calculateSimulation(r, s)
<1> DEFINE y == calculateSimulation(r, q)
<1> DEFINE pair == [ages |-> s.ages, singleParent |-> FALSE]
<1> DEFINE own == separateRules(r)
<1>8. s.filing = "joint" => x = joint(r, t, v, pair, allow, e + f)
  BY ResultIs
<1>9. s.filing = "joint" => y = joint(r, v, t, pair, allowMinimumExistence(r, v, t), Exempt(r, q, v) + Exempt(r, q, t))
  BY <1>2, <1>3, <1>4, ResultIs
<1>10. s.filing = "separate" => x = sumResults(individual(own, t, pair, allow, e), individual(own, v, pair, allow, f))
  BY ResultIs
<1>11. s.filing = "separate" =>
         y = sumResults(individual(own, v, pair, allowMinimumExistence(r, v, t), Exempt(r, q, v)),
                        individual(own, t, pair, allowMinimumExistence(r, v, t), Exempt(r, q, t)))
  BY <1>2, <1>3, <1>4, ResultIs
<1>12. Sound(own)
  BY SeparateSound
<1>13. pair.ages \in Seq(Nat)
  BY <1>1
<1> HIDE DEF t, v, e, f, allow, x, y, pair, own
<1>14. f + e = e + f
  BY <1>6
<1>15. CASE s.filing = "joint"
  <2>1. joint(r, v, t, pair, allow, e + f) = joint(r, t, v, pair, allow, e + f)
    BY <1>1, EitherSpouseFirst
  <2>2. y = x
    BY <1>5, <1>7, <1>8, <1>9, <1>14, <1>15, <2>1
  <2> QED BY <2>2 DEF x, y, q
<1>16. CASE s.filing = "separate"
  <2> DEFINE a == individual(own, t, pair, allow, e)
  <2> DEFINE b == individual(own, v, pair, allow, f)
  <2>1. Spends(t, t) /\ Spends(v, v) /\ Exempted(e, e) /\ Exempted(f, f)
    BY <1>1, <1>6, TaxpayerIs DEF Exempted
  <2>2. NoWorse(a, a) /\ NoWorse(b, b)
    BY <1>12, <1>13, <2>1, IndividualFalls
  <2>3. x = sumResults(a, b) /\ y = sumResults(b, a)
    BY <1>5, <1>7, <1>10, <1>11, <1>16
  <2> HIDE DEF a, b
  <2>4. sumResults(b, a) = sumResults(a, b)
    BY <2>2, SumEitherWay DEF NoWorse
  <2>5. y = x
    BY <2>3, <2>4
  <2> QED BY <2>5 DEF x, y, q
<1> QED BY <1>1, <1>15, <1>16

\* For any sound rules and any simulation on the screen, entering the spouses or the dependents in the other
\* order gives the result shown: the sorting of the ages (tax_engine.dart, the comment on UI order), the
\* common question of two histories, and every sum over the spouses are indifferent to it.
THEOREM EntryOrderIsIrrelevant == Spec => []EntryOrderIrrelevant
<1>1. SInv => EntryOrderIrrelevant
  <2> DEFINE s == changedSimulation
  <2> DEFINE others == IF isCouple(s) THEN [s EXCEPT !.first = s.second, !.second = s.first] ELSE s
  <2> DEFINE backwards == [s EXCEPT !.ages = Reverse(@)]
  <2> SUFFICES ASSUME SInv, Shown PROVE result(others) = changed /\ result(backwards) = changed
    BY DEF EntryOrderIrrelevant
  <2>1. s \in AllSimulations /\ supported(s) /\ changed = calculateSimulation(Rules, s)
    BY Applied, AppliedScope DEF SInv, changedSimulation, result
  <2> HIDE DEF s
  <2>2. calculateSimulation(Rules, backwards) = changed
    <3>1. s.ages \in Seq(Nat)
      BY <2>1 DEF AllSimulations
    <3>2. Rearranged(s.ages, Reverse(s.ages))
      BY <3>1, ReversedDependents
    <3>3. calculateSimulation(Rules, [s EXCEPT !.ages = Reverse(s.ages)]) = changed
      BY <2>1, <3>2, AnyOrderResult
    <3> QED BY Zenon, <3>3
  <2>3. calculateSimulation(Rules, others) = changed
    <3>1. ASSUME isCouple(s)
          PROVE  calculateSimulation(Rules, [s EXCEPT !.first = s.second, !.second = s.first]) = changed
      BY <2>1, <3>1, SoundRules, EitherSpouseResult
    <3> QED BY <2>1, <3>1
  <2> QED BY <2>2, <2>3 DEF result
<1> QED BY <1>1, ScenarioIsShown, PTL

\* Whatever the order of the dependents.
EveryOrderIrrelevant ==
    Shown => \A other \in Seq(Nat) :
        Rearranged(changedSimulation.ages, other) => result([changedSimulation EXCEPT !.ages = other]) = changed

\* For any number of dependents and any order of them, and not the two orders of the property alone, the
\* result shown is that of the simulation with its dependents entered in that order.
THEOREM DependentOrderIsIrrelevant == Spec => []EveryOrderIrrelevant
<1>1. SInv => EveryOrderIrrelevant
  <2> DEFINE s == changedSimulation
  <2> SUFFICES ASSUME SInv, Shown, NEW other \in Seq(Nat), Rearranged(s.ages, other)
               PROVE  result([s EXCEPT !.ages = other]) = changed
    BY DEF EveryOrderIrrelevant
  <2>1. s \in AllSimulations /\ supported(s) /\ changed = calculateSimulation(Rules, s)
    BY Applied, AppliedScope DEF SInv, changedSimulation, result
  <2> HIDE DEF s
  <2>2. calculateSimulation(Rules, [s EXCEPT !.ages = other]) = changed
    BY <2>1, AnyOrderResult
  <2> QED BY <2>2 DEF result
<1> QED BY <1>1, ScenarioIsShown, PTL

-----------------------------------------------------------------------------
(* Two equal spouses.                                                      *)

\* The first is twice the second, but for k units of rounding.
Near(a, b, k) == a \in Int /\ b \in Int /\ a <= 2 * b + k /\ 2 * b <= a + k

\* A rounded part of what is nearly twice as much is nearly twice as much.
LEMMA RoundedNear ==
  ASSUME NEW v \in Nat, NEW w \in Nat, NEW n \in Nat, NEW d \in Nat, d > 0,
         NEW k \in Nat, NEW e \in Nat, Near(v, w, k), k * n <= e * d
  PROVE  Near(mulDiv(v, n, d), mulDiv(w, n, d), e + 1)
<1> DEFINE a == mulDiv(v, n, d)
<1> DEFINE b == mulDiv(w, n, d)
<1> DEFINE p == v * n
<1> DEFINE q == w * n
<1> DEFINE x == d * a
<1> DEFINE y == d * b
<1> DEFINE z == e * d
<1>1. a \in Nat /\ 2 * x <= 2 * p + d /\ 2 * p + d < 2 * x + 2 * d
  <2>1. a \in Nat /\ (2 * d) * a <= 2 * (v * n) + d /\ 2 * (v * n) + d < (2 * d) * a + 2 * d
    BY MulDivBetween
  <2> HIDE DEF a
  <2>2. (2 * d) * a = 2 * (d * a)
    BY <2>1
  <2> QED BY <2>1, <2>2
<1>2. b \in Nat /\ 2 * y <= 2 * q + d /\ 2 * q + d < 2 * y + 2 * d
  <2>1. b \in Nat /\ (2 * d) * b <= 2 * (w * n) + d /\ 2 * (w * n) + d < (2 * d) * b + 2 * d
    BY MulDivBetween
  <2> HIDE DEF b
  <2>2. (2 * d) * b = 2 * (d * b)
    BY <2>1
  <2> QED BY <2>1, <2>2
<1>3. p <= 2 * q + z /\ 2 * q <= p + z
  <2>1. v <= 2 * w + k /\ 2 * w <= v + k
    BY DEF Near
  <2>2. v * n <= (2 * w + k) * n /\ (2 * w) * n <= (v + k) * n
    BY <2>1
  <2>3. (2 * w + k) * n = 2 * (w * n) + k * n /\ (2 * w) * n = 2 * (w * n) /\ (v + k) * n = v * n + k * n
    OBVIOUS
  <2>4. v * n \in Nat /\ w * n \in Nat /\ k * n \in Nat /\ e * d \in Nat
    OBVIOUS
  <2> QED BY <2>2, <2>3, <2>4
<1>4. p \in Nat /\ q \in Nat /\ z \in Nat
  OBVIOUS
<1>5. x \in Nat /\ y \in Nat
  <2> HIDE DEF a, b
  <2> QED BY <1>1, <1>2
<1> HIDE DEF a, b, p, q
<1>6. ~(a >= 2 * b + e + 2)
  <2> SUFFICES ASSUME a >= 2 * b + e + 2 PROVE FALSE
    OBVIOUS
  <2>1. d * (2 * b + e + 2) <= d * a
    BY <1>1, <1>2
  <2>2. d * (2 * b + e + 2) = 2 * (d * b) + e * d + 2 * d
    BY <1>2
  <2>3. 2 * y + z + 2 * d <= x
    BY <2>1, <2>2
  <2> HIDE DEF x, y, z
  <2> QED BY <1>1, <1>2, <1>3, <1>4, <1>5, <2>3
<1>7. ~(2 * b >= a + e + 2)
  <2> SUFFICES ASSUME 2 * b >= a + e + 2 PROVE FALSE
    OBVIOUS
  <2>1. d * (a + e + 2) <= d * (2 * b)
    BY <1>1, <1>2
  <2>2. d * (a + e + 2) = d * a + e * d + 2 * d /\ d * (2 * b) = 2 * (d * b)
    BY <1>1, <1>2
  <2>3. x + z + 2 * d <= 2 * y
    BY <2>1, <2>2
  <2> HIDE DEF x, y, z
  <2> QED BY <1>1, <1>2, <1>3, <1>4, <1>5, <2>3
<1>8. Near(a, b, e + 1)
  BY <1>1, <1>2, <1>6, <1>7 DEF Near
<1> QED BY <1>8 DEF a, b

\* Exactly twice as much, rounded, is off by one.
LEMMA TwiceNear ==
  ASSUME NEW w \in Nat, NEW n \in Nat, NEW d \in Nat, d > 0
  PROVE  Near(mulDiv(2 * w, n, d), mulDiv(w, n, d), 1)
<1>1. 2 * w \in Nat /\ Near(2 * w, w, 0) /\ 0 * n <= 0 * d /\ 0 \in Nat
  BY DEF Near
<1> DEFINE v == 2 * w
<1> HIDE DEF v
<1>2. Near(mulDiv(v, n, d), mulDiv(w, n, d), 0 + 1)
  BY <1>1, RoundedNear DEF v
<1> QED BY <1>2 DEF v

\* A limit is twice its rounded half, but for one.
LEMMA HalfNear ==
  ASSUME NEW c \in Nat
  PROVE  mulDiv(c, 1, 2) \in Nat /\ c <= 2 * mulDiv(c, 1, 2) /\ 2 * mulDiv(c, 1, 2) <= c + 1
<1> DEFINE h == mulDiv(c, 1, 2)
<1>1. h \in Nat /\ (2 * 2) * h <= 2 * (c * 1) + 2 /\ 2 * (c * 1) + 2 < (2 * 2) * h + 2 * 2
  BY MulDivBetween
<1> HIDE DEF h
<1>2. h \in Nat /\ c <= 2 * h /\ 2 * h <= c + 1
  BY <1>1
<1> QED BY <1>2 DEF h

\* Sums, limits and floors of what is nearly twice as much.
LEMMA NearLesser ==
  ASSUME NEW k \in Nat, NEW a, NEW b, NEW c, NEW d, Near(a, b, k), Near(c, d, k)
  PROVE  Near(Lesser(a, c), Lesser(b, d), k) /\ Near(Greater(a, c), Greater(b, d), k)
BY DEF Near, Lesser, Greater

LEMMA NearSum ==
  ASSUME NEW k \in Nat, NEW l \in Nat, NEW a, NEW b, NEW c, NEW d, Near(a, b, k), Near(c, d, l)
  PROVE  Near(a + c, b + d, k + l) /\ Near(a - c, b - d, k + l)
BY DEF Near

LEMMA NearMore ==
  ASSUME NEW k \in Nat, NEW l \in Nat, k <= l, NEW a, NEW b, Near(a, b, k)
  PROVE  Near(a, b, l)
BY DEF Near

\* A credit for an expense of both under a whole limit, and for that of each under half of it.
LEMMA LimitedNear ==
  ASSUME NEW x \in Nat, NEW y, y = 2 * x, NEW rate \in Nat, NEW same, same = rate,
         NEW k \in Nat, k > 0, NEW cap, NEW half, Near(cap, half, k)
  PROVE  Near(limited(y, rate, cap), limited(x, same, half), k)
<1> DEFINE a == timesPpm(2 * x, rate)
<1> DEFINE b == timesPpm(x, rate)
<1>1. Near(a, b, 1)
  BY TwiceNear, RatesAssumption DEF timesPpm
<1> HIDE DEF a, b
<1>2. Near(a, b, k)
  BY <1>1, NearMore
<1>3. Near(Lesser(a, cap), Lesser(b, half), k)
  BY <1>2, NearLesser
<1> QED BY <1>3 DEF limited, a, b

\* What slides between two limits, and between their halves.
LEMMA SlidingNear ==
  ASSUME NEW less \in Nat, NEW more \in Nat, less <= more, NEW first \in Nat, NEW last \in Nat,
         NEW x \in Nat, first < x, x <= last
  PROVE  LET a == Sliding(less, more, first, last, x)
             b == Sliding(mulDiv(less, 1, 2), mulDiv(more, 1, 2), first, last, x)
         IN  a \in Nat /\ b \in Nat /\ Near(a, b, 3)
<1> DEFINE l == mulDiv(less, 1, 2)
<1> DEFINE m == mulDiv(more, 1, 2)
<1>1. l \in Nat /\ m \in Nat /\ less <= 2 * l /\ 2 * l <= less + 1 /\ more <= 2 * m /\ 2 * m <= more + 1
  BY HalfNear
<1>2. l <= m
  BY MulDivGrows
<1> HIDE DEF l, m
<1> DEFINE v == more - less
<1> DEFINE w == m - l
<1> DEFINE n == last - x
<1> DEFINE d == last - first
<1>3. v \in Nat /\ w \in Nat /\ n \in Nat /\ d \in Nat /\ d > 0 /\ n <= d /\ Near(v, w, 1) /\ Near(less, l, 1)
  BY <1>1, <1>2 DEF Near
<1> DEFINE a == Sliding(less, more, first, last, x)
<1> DEFINE b == Sliding(l, m, first, last, x)
<1>4. a = less + mulDiv(v, n, d) /\ b = l + mulDiv(w, n, d)
  BY DEF Sliding
<1> HIDE DEF v, w, n, d, a, b
<1> DEFINE s == mulDiv(v, n, d)
<1> DEFINE t == mulDiv(w, n, d)
<1>5. s \in Nat /\ t \in Nat
  BY <1>3, MulDivNat
<1>6. Near(s, t, 1 + 1)
  <2>1. 1 * n <= 1 * d /\ 1 \in Nat
    BY <1>3
  <2> QED BY <1>3, <2>1, RoundedNear
<1> HIDE DEF s, t
<1>7. a \in Nat /\ b \in Nat /\ Near(a, b, 3)
  BY <1>1, <1>3, <1>4, <1>5, <1>6 DEF Near, s, t
<1> QED BY <1>7 DEF a, b, l, m

\* A couple is two, and a family's limits are halved.
OfTwo(r) == r.household.jointDivisor = 2 /\ r.household.familyLimitDivisor = 2

\* Only some limits tell the rules of a joint assessment from those of separate ones.
LEMMA RulesOfTwo ==
  ASSUME NEW r, Sound(r), OfTwo(r)
  PROVE  LET j == jointRules(r)
             o == separateRules(r)
         IN  /\ Sound(j) /\ Sound(o)
             /\ j.ias = o.ias /\ j.employmentSpecificDeduction = o.employmentSpecificDeduction
             /\ j.minimumExistenceReference = o.minimumExistenceReference
             /\ j.minimumExistence = o.minimumExistence /\ j.brackets = o.brackets
             /\ j.solidarity = o.solidarity /\ j.household = r.household
             /\ \A k \in FamilyLimits : /\ j.deductions[k] \in Nat /\ o.deductions[k] = mulDiv(j.deductions[k], 1, 2)
             /\ \A k \in (Limits \cup Rates) \ (FamilyLimits \cup {"generalCapPerTaxpayer"}) :
                   j.deductions[k] \in Nat /\ o.deductions[k] = j.deductions[k]
             /\ o.deductions["generalCapPerTaxpayer"] \in Nat
             /\ j.deductions["generalCapPerTaxpayer"] = 2 * o.deductions["generalCapPerTaxpayer"]
<1> DEFINE X == [r.deductions EXCEPT !["generalCapPerTaxpayer"] = @ * r.household.jointDivisor]
<1> DEFINE Y == [k \in DOMAIN r.deductions |->
                    IF k \in FamilyLimits THEN mulDiv(r.deductions[k], 1, r.household.familyLimitDivisor)
                    ELSE r.deductions[k]]
<1> DEFINE j == jointRules(r)
<1> DEFINE o == separateRules(r)
<1>1. Sound(j) /\ Sound(o) /\ j.household = r.household
  BY JointSound, SeparateSound
<1>2. r.deductions \in [Limits \cup Rates -> Nat] /\ r \in RuleBooks
  BY DEF Sound, RuleBooks
<1>3. j = [r EXCEPT !.deductions = X] /\ o = [r EXCEPT !.deductions = Y]
  BY DEF jointRules, separateRules
<1>4. /\ \A k \in (Limits \cup Rates) \ {"generalCapPerTaxpayer"} : X[k] = r.deductions[k]
      /\ X["generalCapPerTaxpayer"] = r.deductions["generalCapPerTaxpayer"] * 2
  BY <1>2 DEF OfTwo, Limits
<1>5. /\ \A k \in FamilyLimits : Y[k] = mulDiv(r.deductions[k], 1, 2)
      /\ \A k \in (Limits \cup Rates) \ FamilyLimits : Y[k] = r.deductions[k]
  BY <1>2 DEF OfTwo, Limits
<1> HIDE DEF X, Y, j, o
<1>6. /\ j.ias = o.ias /\ j.employmentSpecificDeduction = o.employmentSpecificDeduction
      /\ j.minimumExistenceReference = o.minimumExistenceReference
      /\ j.minimumExistence = o.minimumExistence /\ j.brackets = o.brackets
      /\ j.solidarity = o.solidarity
      /\ j.deductions = X /\ o.deductions = Y
  BY <1>2, <1>3 DEF RuleBooks
<1>7. "generalCapPerTaxpayer" \in Limits /\ "generalCapPerTaxpayer" \notin FamilyLimits /\ FamilyLimits \subseteq Limits
  BY DEF Limits, FamilyLimits
<1>8. r.deductions["generalCapPerTaxpayer"] \in Nat
  BY <1>2, <1>7
<1>9. \A k \in Limits \cup Rates : r.deductions[k] \in Nat
  BY <1>2
<1>10. \A k \in FamilyLimits : X[k] = r.deductions[k] /\ X[k] \in Nat /\ Y[k] = mulDiv(X[k], 1, 2)
  BY <1>4, <1>5, <1>7, <1>9
<1>11. \A k \in (Limits \cup Rates) \ (FamilyLimits \cup {"generalCapPerTaxpayer"}) : X[k] \in Nat /\ Y[k] = X[k]
  BY <1>4, <1>5, <1>9
<1>12. Y["generalCapPerTaxpayer"] \in Nat /\ X["generalCapPerTaxpayer"] = 2 * Y["generalCapPerTaxpayer"]
  BY <1>4, <1>5, <1>7, <1>8
<1> QED BY <1>1, <1>6, <1>10, <1>11, <1>12 DEF j, o

\* Before the credits the two kinds of assessment follow the same rules.
LEMMA SameIncome ==
  ASSUME NEW j, NEW o, j.ias = o.ias, j.employmentSpecificDeduction = o.employmentSpecificDeduction,
         j.minimumExistenceReference = o.minimumExistenceReference,
         j.minimumExistence = o.minimumExistence, j.brackets = o.brackets, j.solidarity = o.solidarity
  PROVE  /\ \A income : specificDeduction(j, income) = specificDeduction(o, income)
         /\ \A income, allow : Minimum(j, income, allow) = Minimum(o, income, allow)
         /\ \A x : grossTax(j, x) = grossTax(o, x) /\ solidarityTax(j, x) = solidarityTax(o, x)
<1>1. \A income : specificDeduction(j, income) = specificDeduction(o, income)
  BY DEF specificDeduction
<1>2. \A gross, specific : minimumExistenceAllowance(j, gross, specific) = minimumExistenceAllowance(o, gross, specific)
  BY DEF minimumExistenceAllowance
<1>3. \A income, allow : Minimum(j, income, allow) = Minimum(o, income, allow)
  BY <1>1, <1>2 DEF Minimum
<1>4. \A x : Bracket(j, x) = Bracket(o, x)
  BY Zenon DEF Bracket
<1>5. \A x : grossTax(j, x) = grossTax(o, x)
  BY <1>4 DEF grossTax
<1>6. \A x : solidarityTax(j, x) = solidarityTax(o, x)
  BY DEF solidarityTax
<1> QED BY <1>1, <1>3, <1>5, <1>6

\* The cap on rent of a couple, and of one of them.
LEMMA RentCapNear ==
  ASSUME NEW r, Sound(r), OfTwo(r), NEW x \in Nat
  PROVE  Near(rentCap(jointRules(r), x), rentCap(separateRules(r), x), 3)
<1> DEFINE j == jointRules(r)
<1> DEFINE o == separateRules(r)
<1> DEFINE first == j.brackets[1].upper
<1> DEFINE low   == j.deductions["rentTransitionLowCap"]
<1> DEFINE least == j.deductions["rentTransitionBaseCap"]
<1> DEFINE last  == j.deductions["rentTransitionUpperIncome"]
<1> DEFINE floor == j.deductions["rentFloorCap"]
<1> DEFINE lowHalf   == mulDiv(low, 1, 2)
<1> DEFINE leastHalf == mulDiv(least, 1, 2)
<1> DEFINE floorHalf == mulDiv(floor, 1, 2)
<1>1. /\ Sound(j) /\ Sound(o) /\ o.brackets = j.brackets
      /\ o.deductions["rentTransitionLowCap"] = lowHalf
      /\ o.deductions["rentTransitionBaseCap"] = leastHalf
      /\ o.deductions["rentFloorCap"] = floorHalf
      /\ o.deductions["rentTransitionUpperIncome"] = last
  <2>1. /\ "rentTransitionLowCap" \in FamilyLimits /\ "rentTransitionBaseCap" \in FamilyLimits
        /\ "rentFloorCap" \in FamilyLimits
        /\ "rentTransitionUpperIncome" \in (Limits \cup Rates) \ (FamilyLimits \cup {"generalCapPerTaxpayer"})
    BY DEF FamilyLimits, Limits
  <2> QED BY <2>1, RulesOfTwo
<1> HIDE DEF j, o
<1>2. low \in Nat /\ least \in Nat /\ last \in Nat /\ floor \in Nat /\ least <= low
  BY <1>1, LimitsOf DEF Limits, FamilyLimits, Sound, Declining
<1>3. first \in Nat
  BY <1>1, BracketsOf
<1> DEFINE now(a, b) == CASE x <= first -> a
                         [] x > first /\ x <= last -> b + mulDiv(a - b, last - x, last - first)
                         [] x > first /\ x > last -> b
<1>4. rentCap(j, x) = Greater(now(low, least), floor) /\ rentCap(o, x) = Greater(now(lowHalf, leastHalf), floorHalf)
  BY <1>1 DEF rentCap
<1>5. Near(low, lowHalf, 3) /\ Near(least, leastHalf, 3) /\ Near(floor, floorHalf, 3)
  <2>1. \A c \in Nat : Near(c, mulDiv(c, 1, 2), 3)
    <3> SUFFICES ASSUME NEW c \in Nat PROVE Near(c, mulDiv(c, 1, 2), 3)
      OBVIOUS
    <3> DEFINE h == mulDiv(c, 1, 2)
    <3>1. h \in Nat /\ c <= 2 * h /\ 2 * h <= c + 1
      BY HalfNear
    <3> HIDE DEF h
    <3>2. Near(c, h, 3)
      BY <3>1 DEF Near
    <3> QED BY <3>2 DEF h
  <2> QED BY <1>2, <2>1
<1> HIDE DEF first, low, least, last, floor
<1>6. Near(now(low, least), now(lowHalf, leastHalf), 3)
  <2>1. CASE x <= first
    BY <1>3, <1>5, <2>1
  <2>2. CASE x > first /\ x <= last
    <3>1. Near(Sliding(least, low, first, last, x), Sliding(leastHalf, lowHalf, first, last, x), 3)
      BY <1>2, <1>3, <2>2, SlidingNear
    <3>2. now(low, least) = Sliding(least, low, first, last, x)
      BY <1>2, <1>3, <2>2 DEF Sliding
    <3>3. now(lowHalf, leastHalf) = Sliding(leastHalf, lowHalf, first, last, x)
      <4> HIDE DEF lowHalf, leastHalf
      <4> QED BY <1>2, <1>3, <2>2 DEF Sliding
    <3> HIDE DEF now, lowHalf, leastHalf
    <3> QED BY <3>1, <3>2, <3>3
  <2>3. CASE x > first /\ x > last
    BY <1>3, <1>5, <2>3
  <2> QED BY <1>2, <1>3, <2>1, <2>2, <2>3
<1> HIDE DEF now
<1>7. Near(rentCap(j, x), rentCap(o, x), 3)
  BY <1>4, <1>5, <1>6, NearLesser
<1> QED BY <1>7 DEF j, o

\* A family for which the cap on a group of credits is at most tripled.
WithinTriple(r, dependents) == r.deductions.largeFamilyIncreasePerDependent * dependents <= 2 * Whole

\* The cap on the credits of a group; a large family's at most triples it.
LEMMA OverallCapNear ==
  ASSUME NEW r, Sound(r), OfTwo(r), NEW x \in Nat, NEW n \in Nat,
         WithinTriple(r, n)
  PROVE  LET a == overallCap(jointRules(r), x, n)
             b == overallCap(separateRules(r), x, n)
         IN  (a = None <=> b = None) /\ (a # None => Near(a, b, 10))
<1> DEFINE j == jointRules(r)
<1> DEFINE o == separateRules(r)
<1> DEFINE first == j.brackets[1].upper
<1> DEFINE more  == j.deductions["overallLowIncomeCap"]
<1> DEFINE less  == j.deductions["overallHighIncomeCap"]
<1> DEFINE last  == j.deductions["overallUpperIncome"]
<1> DEFINE rate  == j.deductions["largeFamilyIncreasePerDependent"]
<1> DEFINE moreHalf == mulDiv(more, 1, 2)
<1> DEFINE lessHalf == mulDiv(less, 1, 2)
<1>1. /\ Sound(j) /\ Sound(o) /\ o.brackets = j.brackets
      /\ o.deductions["overallLowIncomeCap"] = moreHalf
      /\ o.deductions["overallHighIncomeCap"] = lessHalf
      /\ o.deductions["overallUpperIncome"] = last
      /\ o.deductions["largeFamilyIncreasePerDependent"] = rate
  <2>1. /\ "overallLowIncomeCap" \in FamilyLimits /\ "overallHighIncomeCap" \in FamilyLimits
        /\ "overallUpperIncome" \in (Limits \cup Rates) \ (FamilyLimits \cup {"generalCapPerTaxpayer"})
        /\ "largeFamilyIncreasePerDependent" \in (Limits \cup Rates) \ (FamilyLimits \cup {"generalCapPerTaxpayer"})
    BY DEF FamilyLimits, Limits, Rates
  <2> QED BY <2>1, RulesOfTwo
<1>2. rate = r.deductions.largeFamilyIncreasePerDependent
  BY DEF jointRules, Sound, RuleBooks, Rates
<1> HIDE DEF j, o
<1>3. more \in Nat /\ less \in Nat /\ last \in Nat /\ rate \in Nat /\ less <= more
  BY <1>1, LimitsOf DEF Limits, FamilyLimits, Rates, Sound, Declining
<1>4. first \in Nat
  BY <1>1, BracketsOf
<1> DEFINE cap(a, b) == IF x >= last THEN b ELSE b + mulDiv(a - b, last - x, last - first)
<1> DEFINE c == cap(more, less)
<1> DEFINE d == cap(moreHalf, lessHalf)
<1> DEFINE extra == rate * n
<1>5. /\ overallCap(j, x, n) = CASE x <= first           -> None
                                 [] x > first /\ n < 3   -> c
                                 [] x > first /\ n >= 3  -> c + timesPpm(c, extra)
      /\ overallCap(o, x, n) = CASE x <= first           -> None
                                 [] x > first /\ n < 3   -> d
                                 [] x > first /\ n >= 3  -> d + timesPpm(d, extra)
  BY <1>1 DEF overallCap
<1>6. Near(less, lessHalf, 3) /\ lessHalf \in Nat
  <2>1. lessHalf \in Nat /\ less <= 2 * lessHalf /\ 2 * lessHalf <= less + 1
    BY <1>3, HalfNear
  <2> HIDE DEF less, lessHalf
  <2> QED BY <1>3, <2>1 DEF Near
<1>7. extra \in Nat /\ extra <= 2 * Whole
  BY <1>2, <1>3 DEF WithinTriple
<1> HIDE DEF first, more, less, last, rate, extra
<1>8. x > first => c \in Nat /\ d \in Nat /\ Near(c, d, 3)
  <2>1. CASE x >= last
    BY <1>3, <1>6, <2>1
  <2>2. CASE x > first /\ ~(x >= last)
    <3>1. /\ Sliding(less, more, first, last, x) \in Nat /\ Sliding(lessHalf, moreHalf, first, last, x) \in Nat
          /\ Near(Sliding(less, more, first, last, x), Sliding(lessHalf, moreHalf, first, last, x), 3)
      BY <1>3, <1>4, <2>2, SlidingNear
    <3>2. c = Sliding(less, more, first, last, x) /\ d = Sliding(lessHalf, moreHalf, first, last, x)
      BY <2>2 DEF Sliding
    <3> QED BY Zenon, <3>1, <3>2
  <2> QED BY <2>1, <2>2
<1> HIDE DEF c, d
<1>9. x > first => timesPpm(c, extra) \in Nat /\ timesPpm(d, extra) \in Nat
                   /\ Near(timesPpm(c, extra), timesPpm(d, extra), 7)
  <2> SUFFICES ASSUME x > first PROVE timesPpm(c, extra) \in Nat /\ timesPpm(d, extra) \in Nat
                   /\ Near(timesPpm(c, extra), timesPpm(d, extra), 7)
    OBVIOUS
  <2>1. Whole \in Nat /\ Whole > 0
    BY RatesAssumption
  <2>2. 3 * extra <= 6 * Whole
    BY <1>7, <2>1
  <2>3. Near(mulDiv(c, extra, Whole), mulDiv(d, extra, Whole), 6 + 1)
    BY <1>7, <1>8, <2>1, <2>2, RoundedNear
  <2>4. mulDiv(c, extra, Whole) \in Nat /\ mulDiv(d, extra, Whole) \in Nat
    BY <1>7, <1>8, <2>1, MulDivNat
  <2> QED BY <2>3, <2>4 DEF timesPpm
<1> DEFINE a == overallCap(j, x, n)
<1> DEFINE b == overallCap(o, x, n)
<1>10. (a = None <=> b = None) /\ (a # None => Near(a, b, 10))
  <2>1. CASE x <= first
    <3>1. a = None /\ b = None
      BY <1>4, <1>5, <2>1
    <3> QED BY <3>1
  <2>2. CASE x > first /\ n < 3
    <3>1. a = c /\ b = d
      BY <1>4, <1>5, <2>2
    <3> HIDE DEF a, b
    <3>2. Near(a, b, 10) /\ a \in Int /\ b \in Int
      BY <1>8, <2>2, <3>1 DEF Near
    <3> QED BY <3>2, RatesAssumption
  <2>3. CASE x > first /\ n >= 3
    <3>1. a = c + timesPpm(c, extra) /\ b = d + timesPpm(d, extra)
      BY <1>4, <1>5, <2>3
    <3> HIDE DEF a, b
    <3>2. Near(a, b, 10) /\ a \in Int /\ b \in Int
      BY <1>8, <1>9, <2>3, <3>1 DEF Near
    <3> QED BY <3>2, RatesAssumption
  <2> QED BY <1>4, <2>1, <2>2, <2>3
<1> QED BY <1>10 DEF j, o

\* The credit for dependents, each part of which is halved.
LEMMA DependentNear ==
  ASSUME NEW r, Sound(r), OfTwo(r), NEW ages \in Seq(Nat)
  PROVE  Near(dependentCredit(jointRules(r), ages), dependentCredit(separateRules(r), ages), 2 * Len(ages) + 1)
<1> DEFINE j == jointRules(r)
<1> DEFINE o == separateRules(r)
<1> DEFINE each  == j.deductions["dependentBase"]
<1> DEFINE young == j.deductions["secondAndLaterUnderSixExtra"]
<1> DEFINE tiny  == j.deductions["dependentUnderThreeExtra"]
<1> DEFINE h == mulDiv(each, 1, 2)
<1> DEFINE i == mulDiv(young, 1, 2)
<1> DEFINE k == mulDiv(tiny, 1, 2)
<1> DEFINE eldest == CHOOSE e \in DOMAIN ages : \A f \in DOMAIN ages : ages[f] <= ages[e]
<1> DEFINE small == {e \in DOMAIN ages : e # eldest /\ ages[e] <= 6}
<1> DEFINE baby == ages # <<>> /\ ages[eldest] <= 3
<1> DEFINE n == Len(ages)
<1> DEFINE m == Cardinality(small)
<1>1. /\ each \in Nat /\ young \in Nat /\ tiny \in Nat
      /\ o.deductions["dependentBase"] = h /\ o.deductions["secondAndLaterUnderSixExtra"] = i
      /\ o.deductions["dependentUnderThreeExtra"] = k
  <2>1. {"dependentBase", "secondAndLaterUnderSixExtra", "dependentUnderThreeExtra"} \subseteq FamilyLimits
    BY DEF FamilyLimits
  <2> QED BY <2>1, RulesOfTwo
<1> HIDE DEF j, o
<1>2. dependentCredit(j, ages) = n * each + m * young + (IF baby THEN tiny ELSE 0)
  BY DEF dependentCredit
<1>3. dependentCredit(o, ages) = n * h + m * i + (IF baby THEN k ELSE 0)
  BY <1>1 DEF dependentCredit
<1>4. n \in Nat /\ m \in Nat /\ m <= n
  <2>1. n \in Nat /\ DOMAIN ages = 1 .. n
    OBVIOUS
  <2>2. small \in SUBSET DOMAIN ages
    OBVIOUS
  <2> HIDE DEF small, n
  <2>3. IsFiniteSet(DOMAIN ages) /\ Cardinality(DOMAIN ages) = n
    <3>1. 1 \in Int /\ n \in Int
      BY <2>1
    <3>2. IsFiniteSet(1 .. n) /\ Cardinality(1 .. n) = IF 1 > n THEN 0 ELSE n - 1 + 1
      BY <3>1, FS_Interval
    <3> QED BY <2>1, <3>2
  <2>4. IsFiniteSet(small) /\ m <= n
    BY <2>2, <2>3, FS_Subset
  <2>5. m \in Nat
    BY <2>4, FS_CardinalityType
  <2> QED BY <2>1, <2>4, <2>5
<1>5. /\ h \in Nat /\ each <= 2 * h /\ 2 * h <= each + 1
      /\ i \in Nat /\ young <= 2 * i /\ 2 * i <= young + 1
      /\ k \in Nat /\ tiny <= 2 * k /\ 2 * k <= tiny + 1
  BY <1>1, HalfNear
<1> HIDE DEF each, young, tiny, h, i, k, baby, small, n, m
<1>6. ASSUME NEW x \in Nat, NEW c \in Nat, NEW d \in Nat, c <= 2 * d, 2 * d <= c + 1
      PROVE  x * c \in Nat /\ x * d \in Nat /\ x * c <= 2 * (x * d) /\ 2 * (x * d) <= x * c + x
  <2>1. x * c <= x * (2 * d) /\ x * (2 * d) <= x * (c + 1)
    BY <1>6
  <2>2. x * (2 * d) = 2 * (x * d) /\ x * (c + 1) = x * c + x
    OBVIOUS
  <2>3. x * c \in Nat /\ x * d \in Nat
    OBVIOUS
  <2> QED BY <2>1, <2>2, <2>3
<1> DEFINE a == n * each
<1> DEFINE b == n * h
<1> DEFINE c == m * young
<1> DEFINE d == m * i
<1>7. a \in Nat /\ b \in Nat /\ a <= 2 * b /\ 2 * b <= a + n
  BY <1>1, <1>4, <1>5, <1>6
<1>8. c \in Nat /\ d \in Nat /\ c <= 2 * d /\ 2 * d <= c + m
  BY <1>1, <1>4, <1>5, <1>6
<1> DEFINE x == dependentCredit(j, ages)
<1> DEFINE y == dependentCredit(o, ages)
<1>9. x = a + c + (IF baby THEN tiny ELSE 0) /\ y = b + d + (IF baby THEN k ELSE 0)
  BY <1>2, <1>3
<1> HIDE DEF a, b, c, d, x, y
<1>10. Near(x, y, 2 * n + 1)
  BY <1>1, <1>4, <1>5, <1>7, <1>8, <1>9 DEF Near
<1> QED BY <1>10 DEF x, y, j, o, n

\* What two of the same spend.
LEMMA AddedTwice ==
  ASSUME NEW d \in Spending
  PROVE  \A c \in DOMAIN d : d[c] \in Nat /\ add(d, d)[c] = 2 * d[c]
<1>1. \A c \in DOMAIN d : d[c] \in Nat
  BY DEF Spending
<1> QED BY <1>1 DEF add

\* The credit for the VAT of invoices.
LEMMA InvoiceNear ==
  ASSUME NEW r, Sound(r), OfTwo(r), NEW d \in Spending
  PROVE  Near(invoiceVat(jointRules(r), add(d, d)), invoiceVat(separateRules(r), d), 4)
<1> DEFINE j == jointRules(r)
<1> DEFINE o == separateRules(r)
<1> DEFINE e == add(d, d)
<1> DEFINE K == {"invoiceVat15", "invoiceVat30", "invoiceVat35", "invoiceVat100"}
<1> DEFINE L == {"invoiceVat15Rate", "invoiceVat30Rate", "invoiceVat35Rate", "invoiceVat100Rate"}
<1>1. \A c \in K : d[c] \in Nat /\ e[c] = 2 * d[c]
  <2>1. K \subseteq DOMAIN d
    BY DEF Spending
  <2> QED BY <2>1, AddedTwice
<1>2. \A c \in L : j.deductions[c] \in Nat /\ o.deductions[c] = j.deductions[c]
  <2>1. L \subseteq (Limits \cup Rates) \ (FamilyLimits \cup {"generalCapPerTaxpayer"})
    BY DEF Limits, Rates, FamilyLimits
  <2> QED BY <2>1, RulesOfTwo
<1>3. j.deductions["invoiceVatCap"] \in Nat /\ o.deductions["invoiceVatCap"] = mulDiv(j.deductions["invoiceVatCap"], 1, 2)
  <2>1. "invoiceVatCap" \in FamilyLimits
    BY DEF FamilyLimits
  <2> QED BY <2>1, RulesOfTwo
<1> HIDE DEF j, o, e
<1> DEFINE cap == j.deductions["invoiceVatCap"]
<1>4. Near(cap, o.deductions["invoiceVatCap"], 4)
  <2> DEFINE h == mulDiv(cap, 1, 2)
  <2>1. h \in Nat /\ cap <= 2 * h /\ 2 * h <= cap + 1
    BY <1>3, HalfNear
  <2>2. o.deductions["invoiceVatCap"] = h /\ cap \in Nat
    BY <1>3
  <2> HIDE DEF h, cap
  <2> QED BY <2>1, <2>2 DEF Near
<1>5. ASSUME NEW c \in K, NEW l \in L
      PROVE  Near(timesPpm(e[c], j.deductions[l]), timesPpm(d[c], o.deductions[l]), 1)
  <2>1. d[c] \in Nat /\ e[c] = 2 * d[c] /\ j.deductions[l] \in Nat /\ o.deductions[l] = j.deductions[l]
    BY <1>1, <1>2
  <2>2. Near(mulDiv(2 * d[c], j.deductions[l], Whole), mulDiv(d[c], j.deductions[l], Whole), 1)
    BY <2>1, TwiceNear, RatesAssumption
  <2> QED BY <2>1, <2>2 DEF timesPpm
<1> DEFINE s1 == timesPpm(e["invoiceVat15"], j.deductions["invoiceVat15Rate"])
<1> DEFINE s2 == timesPpm(e["invoiceVat30"], j.deductions["invoiceVat30Rate"])
<1> DEFINE s3 == timesPpm(e["invoiceVat35"], j.deductions["invoiceVat35Rate"])
<1> DEFINE s4 == timesPpm(e["invoiceVat100"], j.deductions["invoiceVat100Rate"])
<1> DEFINE t1 == timesPpm(d["invoiceVat15"], o.deductions["invoiceVat15Rate"])
<1> DEFINE t2 == timesPpm(d["invoiceVat30"], o.deductions["invoiceVat30Rate"])
<1> DEFINE t3 == timesPpm(d["invoiceVat35"], o.deductions["invoiceVat35Rate"])
<1> DEFINE t4 == timesPpm(d["invoiceVat100"], o.deductions["invoiceVat100Rate"])
<1>6. Near(s1, t1, 1) /\ Near(s2, t2, 1) /\ Near(s3, t3, 1) /\ Near(s4, t4, 1)
  BY <1>5
<1>7. /\ invoiceVat(j, e) = Lesser(s1 + s2 + s3 + s4, cap)
      /\ invoiceVat(o, d) = Lesser(t1 + t2 + t3 + t4, o.deductions["invoiceVatCap"])
  BY DEF invoiceVat
<1> HIDE DEF s1, s2, s3, s4, t1, t2, t3, t4, cap
<1>8. Near(s1 + s2 + s3 + s4, t1 + t2 + t3 + t4, 4)
  BY <1>6 DEF Near
<1>9. Near(invoiceVat(j, e), invoiceVat(o, d), 4)
  BY <1>4, <1>7, <1>8, NearLesser
<1> QED BY <1>9 DEF j, o, e

\* The credits whose sum has a cap.
LEMMA GroupNear ==
  ASSUME NEW r, Sound(r), OfTwo(r), NEW d \in Spending, NEW x \in Nat, NEW ppr \in Int
  PROVE  Near(Group(jointRules(r), add(d, d), x, ppr + ppr), Group(separateRules(r), d, x, ppr), 10)
<1> DEFINE j == jointRules(r)
<1> DEFINE o == separateRules(r)
<1> DEFINE e == add(d, d)
<1> DEFINE J == j.deductions
<1> DEFINE O == o.deductions
<1>1. \A c \in {"health", "education", "careHomes", "rent"} : d[c] \in Nat /\ e[c] = 2 * d[c]
  <2>1. {"health", "education", "careHomes", "rent"} \subseteq DOMAIN d
    BY DEF Spending, Expenses
  <2> QED BY <2>1, AddedTwice
<1>2. \A k \in {"healthRate", "educationRate", "careHomeRate", "rentRate"} : J[k] \in Nat /\ O[k] = J[k]
  <2>1. {"healthRate", "educationRate", "careHomeRate", "rentRate"}
        \subseteq (Limits \cup Rates) \ (FamilyLimits \cup {"generalCapPerTaxpayer"})
    BY DEF Limits, Rates, FamilyLimits
  <2> QED BY <2>1, RulesOfTwo
<1>3. \A k \in {"healthCap", "educationCap", "careHomeCap"} : Near(J[k], O[k], 1)
  <2>1. {"healthCap", "educationCap", "careHomeCap"} \subseteq FamilyLimits
    BY DEF FamilyLimits
  <2>2. \A k \in {"healthCap", "educationCap", "careHomeCap"} : J[k] \in Nat /\ O[k] = mulDiv(J[k], 1, 2)
    BY <2>1, RulesOfTwo
  <2>3. \A c \in Nat : Near(c, mulDiv(c, 1, 2), 1)
    <3> SUFFICES ASSUME NEW c \in Nat PROVE Near(c, mulDiv(c, 1, 2), 1)
      OBVIOUS
    <3> DEFINE h == mulDiv(c, 1, 2)
    <3>1. h \in Nat /\ c <= 2 * h /\ 2 * h <= c + 1
      BY HalfNear
    <3> HIDE DEF h
    <3>2. Near(c, h, 1)
      BY <3>1 DEF Near
    <3> QED BY <3>2 DEF h
  <2> HIDE DEF J, O
  <2> QED BY <2>2, <2>3
<1>4. Near(rentCap(j, x), rentCap(o, x), 3)
  BY RentCapNear
<1>5. Near(invoiceVat(j, e), invoiceVat(o, d), 4)
  BY InvoiceNear
<1> DEFINE s1 == limited(e["health"], J["healthRate"], J["healthCap"])
<1> DEFINE s2 == limited(e["education"], J["educationRate"], J["educationCap"])
<1> DEFINE s3 == limited(e["careHomes"], J["careHomeRate"], J["careHomeCap"])
<1> DEFINE s4 == limited(e["rent"], J["rentRate"], rentCap(j, x))
<1> DEFINE s5 == invoiceVat(j, e)
<1> DEFINE t1 == limited(d["health"], O["healthRate"], O["healthCap"])
<1> DEFINE t2 == limited(d["education"], O["educationRate"], O["educationCap"])
<1> DEFINE t3 == limited(d["careHomes"], O["careHomeRate"], O["careHomeCap"])
<1> DEFINE t4 == limited(d["rent"], O["rentRate"], rentCap(o, x))
<1> DEFINE t5 == invoiceVat(o, d)
<1>6. /\ Group(j, e, x, ppr + ppr) = s1 + s2 + s3 + s5 + s4 + (ppr + ppr)
      /\ Group(o, d, x, ppr) = t1 + t2 + t3 + t5 + t4 + ppr
  BY DEF Group
<1> HIDE DEF j, o, e, J, O
<1>7. Near(s1, t1, 1)
  <2>1. d["health"] \in Nat /\ e["health"] = 2 * d["health"]
    BY <1>1
  <2>2. J["healthRate"] \in Nat /\ O["healthRate"] = J["healthRate"]
    BY <1>2
  <2>3. Near(J["healthCap"], O["healthCap"], 1)
    BY <1>3
  <2>4. 1 \in Nat /\ 1 > 0
    OBVIOUS
  <2> QED BY <2>1, <2>2, <2>3, <2>4, LimitedNear
<1>8. Near(s2, t2, 1)
  <2>1. d["education"] \in Nat /\ e["education"] = 2 * d["education"]
    BY <1>1
  <2>2. J["educationRate"] \in Nat /\ O["educationRate"] = J["educationRate"]
    BY <1>2
  <2>3. Near(J["educationCap"], O["educationCap"], 1)
    BY <1>3
  <2>4. 1 \in Nat /\ 1 > 0
    OBVIOUS
  <2> QED BY <2>1, <2>2, <2>3, <2>4, LimitedNear
<1>9. Near(s3, t3, 1)
  <2>1. d["careHomes"] \in Nat /\ e["careHomes"] = 2 * d["careHomes"]
    BY <1>1
  <2>2. J["careHomeRate"] \in Nat /\ O["careHomeRate"] = J["careHomeRate"]
    BY <1>2
  <2>3. Near(J["careHomeCap"], O["careHomeCap"], 1)
    BY <1>3
  <2>4. 1 \in Nat /\ 1 > 0
    OBVIOUS
  <2> QED BY <2>1, <2>2, <2>3, <2>4, LimitedNear
<1>10. Near(s4, t4, 3)
  <2>1. d["rent"] \in Nat /\ e["rent"] = 2 * d["rent"]
    BY <1>1
  <2>2. J["rentRate"] \in Nat /\ O["rentRate"] = J["rentRate"]
    BY <1>2
  <2>3. 3 \in Nat /\ 3 > 0
    OBVIOUS
  <2> QED BY <1>4, <2>1, <2>2, <2>3, LimitedNear
<1>11. Near(s5, t5, 4)
  BY <1>5
<1> HIDE DEF s1, s2, s3, s4, s5, t1, t2, t3, t4, t5
<1>12. Near(s1 + s2 + s3 + s5 + s4 + (ppr + ppr), t1 + t2 + t3 + t5 + t4 + ppr, 10)
  BY <1>7, <1>8, <1>9, <1>10, <1>11 DEF Near
<1>13. Near(Group(j, e, x, ppr + ppr), Group(o, d, x, ppr), 10)
  BY <1>6, <1>12
<1> QED BY <1>13 DEF j, o, e

\* Two equal parts of a couple's income.
LEMMA Quotients ==
  ASSUME NEW x \in Nat
  PROVE  mulDiv(2 * x, 1, 2) = x /\ mulDiv(x, 1, 1) = x
<1>1. 2 * x \in Nat /\ (2 * 2) * x <= 2 * ((2 * x) * 1) + 2 /\ 2 * ((2 * x) * 1) + 2 < (2 * 2) * x + 2 * 2
  OBVIOUS
<1> DEFINE y == 2 * x
<1>2. y \in Nat /\ (2 * 2) * x <= 2 * (y * 1) + 2 /\ 2 * (y * 1) + 2 < (2 * 2) * x + 2 * 2
  BY <1>1
<1> HIDE DEF y
<1>3. mulDiv(y, 1, 2) = x
  BY <1>2, MulDivUnique
<1>4. mulDiv(x, 1, 1) = x
  BY MulDivWhole
<1> QED BY <1>3, <1>4 DEF y

\* The same share of the same tax.
LEMMA SameShare ==
  ASSUME NEW t \in Nat, NEW e \in Nat, NEW n \in Nat, n > 0
  PROVE  mulDiv(t, e + e, 2 * n) = mulDiv(t, e, n)
<1> DEFINE q == mulDiv(t, e, n)
<1> DEFINE p == t * e
<1>1. q \in Nat /\ (2 * n) * q <= 2 * p + n /\ 2 * p + n < (2 * n) * q + 2 * n
  BY MulDivBetween
<1> HIDE DEF q
<1> DEFINE f == e + e
<1> DEFINE m == 2 * n
<1>2. f \in Nat /\ m \in Nat /\ m > 0 /\ t * f = 2 * p /\ p \in Nat
  OBVIOUS
<1> DEFINE w == n * q
<1>3. (2 * n) * q = 2 * w /\ (2 * m) * q = 4 * w /\ w \in Nat
  BY <1>1
<1>4. m = 2 * n
  OBVIOUS
<1> HIDE DEF p, f, m, w
<1>5. (2 * m) * q <= 2 * (t * f) + m /\ 2 * (t * f) + m < (2 * m) * q + 2 * m
  BY <1>1, <1>2, <1>3, <1>4
<1>6. mulDiv(t, f, m) = q
  BY <1>1, <1>2, <1>5, MulDivUnique
<1> QED BY <1>6 DEF f, m, q

\* A couple of equals and each of them are taxed alike.
LEMMA AdjustmentTwice ==
  ASSUME NEW j, Sound(j), NEW o, Sound(o), \A x : grossTax(j, x) = grossTax(o, x),
         NEW normal \in Nat, NEW e \in Nat
  PROVE  LET a == adjustment(j, 2 * normal, e + e, 2)
             b == adjustment(o, normal, e, 1)
         IN  /\ a.taxable \in Nat /\ b.taxable \in Nat /\ a.taxable = 2 * b.taxable
             /\ a.tax \in Nat /\ b.tax \in Nat /\ Near(a.tax, b.tax, 1)
<1> DEFINE a == adjustment(j, 2 * normal, e + e, 2)
<1> DEFINE b == adjustment(o, normal, e, 1)
<1> DEFINE x == NotNegative(normal - e)
<1> DEFINE n == x + e
<1> DEFINE t == Full(o, n, 1)
<1> DEFINE twice == Full(j, 2 * n, 2)
<1> DEFINE whole == IF 2 * n = 0 THEN 0 ELSE mulDiv(twice, e + e, 2 * n)
<1> DEFINE half == IF n = 0 THEN 0 ELSE mulDiv(t, e, n)
<1>1. x \in Nat /\ NotNegative(2 * normal - (e + e)) = 2 * x
  BY DEF NotNegative, Greater
<1>2. b.taxable = x /\ b.tax = NotNegative(t - half)
  BY AdjustmentIs
<1>3. a.taxable = 2 * x /\ a.tax = NotNegative(twice - whole)
  <2> DEFINE m == 2 * normal
  <2> DEFINE f == e + e
  <2> DEFINE y == NotNegative(m - f)
  <2> DEFINE full == Full(j, y + f, 2)
  <2>1. m \in Nat /\ f \in Nat /\ y = 2 * x /\ y + f = 2 * n
    BY <1>1
  <2>2. a.taxable = y /\ a.tax = NotNegative(full - (IF y + f = 0 THEN 0 ELSE mulDiv(full, f, y + f)))
    BY <2>1, AdjustmentIs
  <2> HIDE DEF y, m, x, n, a
  <2> QED BY <2>1, <2>2
<1> HIDE DEF a, b, x
<1>4. n \in Nat /\ (2 * n = 0 <=> n = 0)
  BY <1>1
<1>5. t \in Nat
  BY <1>4, FullNat
<1>6. twice = 2 * t
  <2>1. mulDiv(2 * n, 1, 2) = n /\ mulDiv(n, 1, 1) = n
    BY <1>4, Quotients
  <2> HIDE DEF n
  <2>2. twice = grossTax(o, n) * 2 /\ t = grossTax(o, n) * 1
    BY <2>1 DEF Full
  <2>3. grossTax(o, n) \in Nat
    BY <1>4, GrossTaxNat
  <2> QED BY <2>2, <2>3
<1> HIDE DEF n, t, twice
<1>7. whole \in Nat /\ half \in Nat /\ Near(whole, half, 1)
  <2>1. CASE n = 0
    BY <1>4, <2>1 DEF Near
  <2>2. CASE n # 0
    <3>1. n > 0 /\ 2 * t \in Nat
      BY <1>4, <1>5, <2>2
    <3>2. mulDiv(2 * t, e + e, 2 * n) = mulDiv(2 * t, e, n)
      BY <1>4, <3>1, SameShare
    <3>3. Near(mulDiv(2 * t, e, n), mulDiv(t, e, n), 1)
      BY <1>4, <1>5, <3>1, TwiceNear
    <3>4. mulDiv(2 * t, e, n) \in Nat /\ mulDiv(t, e, n) \in Nat
      BY <1>4, <1>5, <3>1, MulDivNat
    <3>5. whole = mulDiv(2 * t, e, n) /\ half = mulDiv(t, e, n)
      BY <1>4, <1>6, <2>2, <3>2
    <3> QED BY <3>3, <3>4, <3>5
  <2> QED BY <2>1, <2>2
<1> HIDE DEF whole, half
<1>8. /\ a.taxable \in Nat /\ b.taxable \in Nat /\ a.taxable = 2 * b.taxable
      /\ a.tax \in Nat /\ b.tax \in Nat /\ Near(a.tax, b.tax, 1)
  BY <1>1, <1>2, <1>3, <1>5, <1>6, <1>7 DEF Near, NotNegative, Greater
<1> QED BY <1>8 DEF a, b

\* The credit for the general expenses of a couple.
LEMMA GeneralNear ==
  ASSUME NEW r, Sound(r), OfTwo(r), NEW d \in Spending, NEW p, ~p.singleParent
  PROVE  Near(General(jointRules(r), p, add(d, d)), General(separateRules(r), p, d), 1)
<1> DEFINE j == jointRules(r)
<1> DEFINE o == separateRules(r)
<1> DEFINE e == add(d, d)
<1> DEFINE J == j.deductions
<1> DEFINE O == o.deductions
<1>1. d["general"] \in Nat /\ e["general"] = 2 * d["general"]
  <2>1. "general" \in DOMAIN d
    BY DEF Spending, Expenses
  <2> QED BY <2>1, AddedTwice
<1>2. J["generalRate"] \in Nat /\ O["generalRate"] = J["generalRate"]
  <2>1. "generalRate" \in (Limits \cup Rates) \ (FamilyLimits \cup {"generalCapPerTaxpayer"})
    BY DEF Limits, Rates, FamilyLimits
  <2> QED BY <2>1, RulesOfTwo
<1>3. O["generalCapPerTaxpayer"] \in Nat /\ J["generalCapPerTaxpayer"] = 2 * O["generalCapPerTaxpayer"]
  BY RulesOfTwo
<1> DEFINE a == General(j, p, e)
<1> DEFINE b == General(o, p, d)
<1>4. /\ a = limited(e["general"], J["generalRate"], J["generalCapPerTaxpayer"])
      /\ b = limited(d["general"], O["generalRate"], O["generalCapPerTaxpayer"])
  BY DEF General
<1> HIDE DEF j, o, e, J, O, a, b
<1>5. Near(J["generalCapPerTaxpayer"], O["generalCapPerTaxpayer"], 1) /\ 1 \in Nat /\ 1 > 0
  BY <1>3 DEF Near
<1>6. Near(a, b, 1)
  BY <1>1, <1>2, <1>4, <1>5, LimitedNear
<1> QED BY <1>6 DEF a, b, j, o, e

\* The group under its cap.
LEMMA CappedNear ==
  ASSUME NEW r, Sound(r), OfTwo(r), NEW p, p.ages \in Seq(Nat),
         WithinTriple(r, Len(p.ages)),
         NEW x \in Nat, NEW g, NEW h, Near(g, h, 10)
  PROVE  Near(Capped(jointRules(r), p, g, x), Capped(separateRules(r), p, h, x), 10)
<1> DEFINE j == jointRules(r)
<1> DEFINE o == separateRules(r)
<1> DEFINE n == Len(p.ages)
<1> DEFINE a == overallCap(j, x, n)
<1> DEFINE b == overallCap(o, x, n)
<1>1. n \in Nat
  OBVIOUS
<1>2. WithinTriple(r, n)
  OBVIOUS
<1>3. /\ Capped(j, p, g, x) = IF a = None THEN g ELSE Lesser(g, a)
      /\ Capped(o, p, h, x) = IF b = None THEN h ELSE Lesser(h, b)
  BY DEF Capped
<1> HIDE DEF n
<1>4. (a = None <=> b = None) /\ (a # None => Near(a, b, 10))
  BY <1>1, <1>2, OverallCapNear
<1> HIDE DEF a, b
<1>5. a # None => Near(Lesser(g, a), Lesser(h, b), 10)
  BY <1>4, NearLesser
<1> HIDE DEF j, o
<1>6. Near(Capped(j, p, g, x), Capped(o, p, h, x), 10)
  BY <1>3, <1>4, <1>5
<1> QED BY <1>6 DEF j, o

\* The credit for PPR is each taxpayer's own.
LEMMA SamePpr ==
  ASSUME NEW r, Sound(r), OfTwo(r), NEW ppr \in Nat, NEW age \in Nat
  PROVE  /\ pprCredit(jointRules(r), ppr, age) = pprCredit(separateRules(r), ppr, age)
         /\ pprCredit(jointRules(r), ppr, age) \in Nat
<1> DEFINE j == jointRules(r)
<1> DEFINE o == separateRules(r)
<1> DEFINE K == {"pprRate", "pprUnder35Cap", "ppr35To50Cap", "pprOver50Cap"}
<1>1. \A k \in K : o.deductions[k] = j.deductions[k]
  <2>1. K \subseteq (Limits \cup Rates) \ (FamilyLimits \cup {"generalCapPerTaxpayer"})
    BY DEF Limits, Rates, FamilyLimits
  <2> QED BY <2>1, RulesOfTwo
<1>2. Sound(j)
  BY JointSound
<1> HIDE DEF j, o
<1>3. pprCredit(j, ppr, age) \in Nat
  BY <1>2, PprGrows
<1>4. pprCredit(j, ppr, age) = pprCredit(o, ppr, age)
  BY <1>1 DEF pprCredit
<1> QED BY <1>3, <1>4 DEF j, o

\* How far apart the rounding of the halved limits of a family can put the two assessments.
RoundingOf(dependents) == 2 * dependents + 13

\* A couple of equals owes twice what one of them does, but for the rounding of halves.
LEMMA Twins ==
  ASSUME NEW rules, Sound(rules), OfTwo(rules), NEW t, t.income \in Earnings, t.age \in Nat, t.deductions \in Spending,
         NEW p, p.ages \in Seq(Nat), ~p.singleParent,
         WithinTriple(rules, Len(p.ages)),
         NEW allow, NEW e \in Nat
  PROVE  LET own == individual(separateRules(rules), t, p, allow, e)
         IN  Near(joint(rules, t, t, p, allow, e + e).due, own.due, RoundingOf(Len(p.ages)))
<1> DEFINE j == jointRules(rules)
<1> DEFINE o == separateRules(rules)
<1> DEFINE d == t.deductions
<1> DEFINE f == add(d, d)
<1> DEFINE cut == specificDeduction(o, t.income)
<1> DEFINE min == Minimum(o, t.income, allow)
<1> DEFINE normal == NotNegative(t.income.gross - cut - min)
<1> DEFINE a == adjustment(j, 2 * normal, e + e, 2)
<1> DEFINE b == adjustment(o, normal, e, 1)
<1> DEFINE x == b.taxable
<1> DEFINE ppr == pprCredit(o, t.deductions.ppr, t.age)
<1> DEFINE c == credits(j, p, f, x, a.tax, ppr + ppr)
<1> DEFINE k == credits(o, p, d, x, b.tax, ppr)
<1> DEFINE s == solidarityTax(o, x)
<1> DEFINE w == t.income.withholding
<1> DEFINE n == Len(p.ages)
<1>1. /\ Sound(j) /\ Sound(o) /\ j.household.jointDivisor = 2
      /\ \A y : grossTax(j, y) = grossTax(o, y) /\ solidarityTax(j, y) = solidarityTax(o, y)
      /\ \A income : specificDeduction(j, income) = specificDeduction(o, income)
      /\ \A income : Minimum(j, income, allow) = Minimum(o, income, allow)
  <2>1. /\ Sound(j) /\ Sound(o)
        /\ j.ias = o.ias /\ j.employmentSpecificDeduction = o.employmentSpecificDeduction
        /\ j.minimumExistenceReference = o.minimumExistenceReference
        /\ j.minimumExistence = o.minimumExistence /\ j.brackets = o.brackets
        /\ j.solidarity = o.solidarity /\ j.household = rules.household
    BY RulesOfTwo
  <2> HIDE DEF j, o
  <2>2. j.household.jointDivisor = 2
    BY <2>1 DEF OfTwo
  <2> QED BY <2>1, <2>2, SameIncome
<1>2. t.income.gross \in Nat /\ cut \in Nat /\ min \in Int
  <2>1. t.income.gross \in Nat
    BY DEF Earnings
  <2> HIDE DEF o
  <2> QED BY <1>1, <2>1, SpecificNat, MinimumInt
<1>3. ppr \in Nat /\ jointPpr(j, t, t) = ppr + ppr
  <2>1. d["ppr"] \in Nat
    BY DEF Spending, Expenses
  <2>2. pprCredit(j, d.ppr, t.age) = ppr /\ ppr \in Nat
    BY <2>1, SamePpr
  <2> HIDE DEF ppr, j
  <2> QED BY <2>2 DEF jointPpr
<1>4. normal \in Nat
        /\ NotNegative(t.income.gross + t.income.gross - cut - cut - min - min) = 2 * normal
  <2> DEFINE g == t.income.gross
  <2> DEFINE z == g - cut - min
  <2>1. g \in Nat /\ cut \in Nat /\ min \in Int
    BY <1>2
  <2> HIDE DEF g, cut, min
  <2>2. z \in Int /\ g + g - cut - cut - min - min = 2 * z
    BY <2>1
  <2> HIDE DEF z
  <2>3. NotNegative(z) \in Nat /\ NotNegative(2 * z) = 2 * NotNegative(z)
    BY <2>2 DEF NotNegative, Greater
  <2> QED BY <2>2, <2>3 DEF g, z
<1>5. individual(o, t, p, allow, e) = Assessed(x, b.tax, k, s, w)
  BY DEF individual
<1> DEFINE m == 2 * normal
<1> DEFINE u == mulDiv(a.taxable, 1, 2)
<1>6. joint(rules, t, t, p, allow, e + e) =
        Assessed(a.taxable, a.tax, credits(j, p, f, u, a.tax, ppr + ppr), solidarityTax(j, u) * 2, w + w)
  <2> HIDE DEF cut, min, ppr, f, w, normal
  <2> DEFINE z == t.income.gross + t.income.gross - cut - cut - min - min
  <2>1. z = t.income.gross + t.income.gross - specificDeduction(j, t.income) - specificDeduction(j, t.income)
              - Minimum(j, t.income, allow) - Minimum(j, t.income, allow)
    BY <1>1 DEF cut, min
  <2>2. NotNegative(z) = 2 * normal
    BY <1>4
  <2> HIDE DEF z, j
  <2> QED BY <1>1, <1>3, <2>1, <2>2 DEF joint, j, f, w
<1> HIDE DEF normal
<1>7. /\ a.taxable \in Nat /\ x \in Nat /\ a.taxable = 2 * x
      /\ a.tax \in Nat /\ b.tax \in Nat /\ Near(a.tax, b.tax, 1)
  <2> HIDE DEF j, o
  <2> QED BY <1>1, <1>4, AdjustmentTwice
<1>8. u = x
  BY <1>7, Quotients
<1>9. joint(rules, t, t, p, allow, e + e) = Assessed(a.taxable, a.tax, c, s * 2, w + w)
  <2> HIDE DEF a, x, u, j, o, f, ppr, w
  <2>1. solidarityTax(j, x) = s
    BY <1>1
  <2> QED BY Zenon, <1>6, <1>8, <2>1
<1>10. s \in Nat
  <2>1. Sound(o) /\ x \in Nat /\ x <= x
    BY <1>1, <1>7
  <2> HIDE DEF o, x
  <2> QED BY <2>1, SolidarityGrows
<1> DEFINE tax == a.tax
<1> DEFINE less == b.tax
<1> DEFINE top == a.taxable
<1> DEFINE before == dependentCredit(j, p.ages) + General(j, p, f) + Capped(j, p, Group(j, f, x, ppr + ppr), x)
<1> DEFINE after == dependentCredit(o, p.ages) + General(o, p, d) + Capped(o, p, Group(o, d, x, ppr), x)
<1>11. c = Lesser(before, tax) /\ k = Lesser(after, less)
  BY CreditsAre
<1>12. n \in Nat /\ Near(before, after, 2 * n + 12)
  <2>1. n \in Nat
    OBVIOUS
  <2>2. Near(dependentCredit(j, p.ages), dependentCredit(o, p.ages), 2 * n + 1)
    BY DependentNear
  <2>3. Near(General(j, p, f), General(o, p, d), 1)
    BY GeneralNear
  <2> HIDE DEF x, ppr
  <2>4. ppr \in Int
    BY <1>3
  <2>5. Near(Group(j, f, x, ppr + ppr), Group(o, d, x, ppr), 10)
    BY <1>7, <2>4, GroupNear
  <2>6. Near(Capped(j, p, Group(j, f, x, ppr + ppr), x), Capped(o, p, Group(o, d, x, ppr), x), 10)
    <3> DEFINE g == Group(j, f, x, ppr + ppr)
    <3> DEFINE h == Group(o, d, x, ppr)
    <3>0. Near(g, h, 10) /\ x \in Nat
      BY <1>7, <2>5
    <3> HIDE DEF g, h
    <3>1. Near(Capped(j, p, g, x), Capped(o, p, h, x), 10)
      BY <3>0, CappedNear
    <3> QED BY <3>1 DEF g, h
  <2> DEFINE a1 == dependentCredit(j, p.ages)
  <2> DEFINE b1 == dependentCredit(o, p.ages)
  <2> DEFINE a2 == General(j, p, f)
  <2> DEFINE b2 == General(o, p, d)
  <2> DEFINE a3 == Capped(j, p, Group(j, f, x, ppr + ppr), x)
  <2> DEFINE b3 == Capped(o, p, Group(o, d, x, ppr), x)
  <2> HIDE DEF a1, b1, a2, b2, a3, b3
  <2>7. Near(a1, b1, 2 * n + 1) /\ Near(a2, b2, 1) /\ Near(a3, b3, 10)
    BY <2>2, <2>3, <2>6 DEF a1, b1, a2, b2, a3, b3
  <2> HIDE DEF n
  <2>8. Near(a1 + a2 + a3, b1 + b2 + b3, 2 * n + 12)
    BY <2>1, <2>7 DEF Near
  <2> QED BY <2>1, <2>8 DEF a1, b1, a2, b2, a3, b3, n
<1> DEFINE whole == joint(rules, t, t, p, allow, e + e)
<1> DEFINE own == individual(o, t, p, allow, e)
<1>13. whole.due = NotNegative(tax - c) + s * 2 /\ own.due = NotNegative(less - k) + s
  <2> HIDE DEF whole, own, tax, less, c, k, s, w, top, x
  <2>1. whole = Assessed(top, tax, c, s * 2, w + w) /\ own = Assessed(x, less, k, s, w)
    BY <1>5, <1>9 DEF whole, own, top, tax, less
  <2> QED BY <2>1 DEF Assessed
<1>14. tax \in Nat /\ less \in Nat /\ Near(tax, less, 1)
  BY <1>7
<1> HIDE DEF whole, own, tax, less, c, k, s, before, after, n
<1> DEFINE l == 2 * n + 13
<1>15. before \in Int /\ after \in Int /\ l \in Nat /\ Near(tax - before, less - after, l)
  BY <1>12, <1>14 DEF Near
<1>16. NotNegative(tax - c) = Greater(tax - before, 0) /\ NotNegative(less - k) = Greater(less - after, 0)
  BY <1>11, <1>14, <1>15 DEF NotNegative, Greater, Lesser
<1> DEFINE y == tax - before
<1> DEFINE z == less - after
<1> HIDE DEF l, y, z
<1>17. Near(Greater(y, 0), Greater(z, 0), l)
  <2>1. Near(y, z, l) /\ l \in Nat
    BY <1>15 DEF y, z
  <2>2. Near(0, 0, l)
    BY <2>1 DEF Near
  <2> QED BY <2>1, <2>2, NearLesser
<1>18. whole.due = Greater(y, 0) + s * 2 /\ own.due = Greater(z, 0) + s
  BY <1>13, <1>16 DEF y, z
<1>19. Near(whole.due, own.due, l)
  <2> DEFINE g == Greater(y, 0)
  <2> DEFINE h == Greater(z, 0)
  <2> HIDE DEF g, h
  <2>1. Near(g, h, l) /\ whole.due = g + s * 2 /\ own.due = h + s /\ s \in Nat /\ l \in Nat
    BY <1>10, <1>15, <1>17, <1>18 DEF g, h
  <2> DEFINE v == whole.due
  <2> DEFINE q == own.due
  <2> HIDE DEF v, q
  <2>2. Near(v, q, l)
    BY <2>1 DEF Near, v, q
  <2> QED BY <2>2 DEF v, q
<1> QED BY <1>19 DEF whole, own, n, o, l, RoundingOf

\* Two equal spouses owe the same jointly and separately, but for the rounding of halves.
LEMMA EqualSpouses ==
  ASSUME OfTwo(Rules), NEW s \in AllSimulations, WithinTriple(Rules, Len(s.ages))
  PROVE  LET twins == compareWithIrsJovem(Rules, [s EXCEPT !.second = s.first])
             k == RoundingOf(Len(s.ages))
         IN  k \in Nat /\ twins.joint.due - twins.separate.due \in -k .. k
<1> DEFINE t == s.first
<1> DEFINE q == [s EXCEPT !.second = s.first]
<1> DEFINE p == [ages |-> s.ages, singleParent |-> FALSE]
<1> DEFINE own == separateRules(Rules)
<1> DEFINE k == RoundingOf(Len(s.ages))
<1> DEFINE twins == compareWithIrsJovem(Rules, q)
<1> DEFINE allow == allowMinimumExistence(Rules, t, t)
<1> DEFINE e == IF "needsMoreInformation" \in {eligibility(Rules, t).status, eligibility(Rules, t).status}
                THEN 0 ELSE eligibility(Rules, t).exempt
<1> DEFINE whole == joint(Rules, t, t, p, allow, e + e)
<1> DEFINE half == individual(own, t, p, allow, e)
<1>1. /\ t \in Taxpayers /\ t.income \in Earnings /\ t.age \in Nat /\ t.deductions \in Spending
      /\ s.ages \in Seq(Nat) /\ p.ages = s.ages /\ ~p.singleParent
  BY DEF AllSimulations, Taxpayers, Earnings
<1>2. q.first = t /\ q.second = t /\ q.ages = s.ages
  BY DEF AllSimulations
<1>3. e \in Nat
  <2>1. eligibility(Rules, t).exempt \in Nat
    BY <1>1, SoundRules, ExemptNat
  <2> QED BY <2>1
<1>4. twins.joint = whole /\ twins.separate = sumResults(half, half)
  <2>1. twins = compareExempt(Rules, q, e, e)
    <3> HIDE DEF q, t
    <3> QED BY Zenon, <1>2 DEF compareWithIrsJovem
  <2>2. compareExempt(Rules, q, e, e) = [separate |-> sumResults(half, half), joint |-> whole]
    <3> HIDE DEF q, t, e
    <3> QED BY Zenon, <1>2 DEF compareExempt
  <2> HIDE DEF twins, whole, half
  <2> QED BY <2>1, <2>2
<1>5. Near(whole.due, half.due, k)
  <2>1. WithinTriple(Rules, Len(p.ages)) /\ p.ages \in Seq(Nat)
    BY <1>1
  <2>2. RoundingOf(Len(p.ages)) = k
    BY <1>1
  <2> HIDE DEF t, p, e, allow, k
  <2>3. Near(whole.due, half.due, RoundingOf(Len(p.ages)))
    BY <1>1, <1>3, <2>1, SoundRules, Twins
  <2> QED BY <2>2, <2>3
<1>6. sumResults(half, half).due = half.due + half.due
  BY DEF individual, Assessed, sumResults
<1>7. k \in Nat
  BY <1>1 DEF RoundingOf
<1> HIDE DEF twins, whole, half, k
<1>8. twins.joint.due - twins.separate.due \in -k .. k
  <2> DEFINE a == whole.due
  <2> DEFINE b == half.due
  <2>1. Near(a, b, k) /\ twins.joint.due = a /\ twins.separate.due = b + b
    BY <1>4, <1>5, <1>6
  <2> HIDE DEF a, b
  <2> QED BY <1>7, <2>1 DEF Near
<1> QED BY <1>7, <1>8 DEF twins, k

\* The screen's bound for a couple of a given family.
NearlyIndifferent ==
    Shown /\ isCouple(base) /\ WithinTriple(Rules, Len(base.ages)) =>
        LET s == changedSimulation
            twins == compareWithIrsJovem(Rules, [s EXCEPT !.second = s.first])
        IN  twins.joint.due - twins.separate.due \in -RoundingOf(Len(base.ages)) .. RoundingOf(Len(base.ages))

\* For every book of rules that halves the limits of a family and divides a couple's income by two, and
\* for every amount: assessed jointly and separately two equal spouses owe the same, up to the rounding
\* of the halved limits, a few units and two for every dependent.
THEOREM EqualSpousesAreIndifferent ==
  ASSUME OfTwo(Rules)
  PROVE  Spec => []NearlyIndifferent
<1>1. SInv => NearlyIndifferent
  <2> SUFFICES ASSUME SInv, Shown, isCouple(base), WithinTriple(Rules, Len(base.ages)) PROVE NearlyIndifferent
    BY DEF NearlyIndifferent
  <2>1. changedSimulation \in AllSimulations /\ changedSimulation.ages = base.ages
    BY Applied DEF SInv, changedSimulation
  <2> DEFINE s == changedSimulation
  <2> HIDE DEF s
  <2> DEFINE twins == compareWithIrsJovem(Rules, [s EXCEPT !.second = s.first])
  <2>2. s \in AllSimulations /\ s.ages = base.ages /\ WithinTriple(Rules, Len(s.ages))
    BY <2>1 DEF s
  <2>3. twins.joint.due - twins.separate.due \in -RoundingOf(Len(s.ages)) .. RoundingOf(Len(s.ages))
    BY <2>2, EqualSpouses
  <2> HIDE DEF twins
  <2>4. twins.joint.due - twins.separate.due \in -RoundingOf(Len(base.ages)) .. RoundingOf(Len(base.ages))
    BY <2>2, <2>3
  <2> QED BY <2>4 DEF NearlyIndifferent, s, twins
<1> QED BY <1>1, ScenarioIsShown, PTL

\* Scenarios keep the dependents of the simulations the wizard saved.
SameFamilies ==
    /\ \A s \in saved : \E q \in Simulations : s.ages = q.ages
    /\ Shown => \E q \in Simulations : base.ages = q.ages

\* No step of the screen changes who the dependents are.
LEMMA FamiliesStep == SInv /\ SameFamilies /\ [Next]_vars => SameFamilies'
<1> SUFFICES ASSUME SInv, SameFamilies, [Next]_vars PROVE SameFamilies'
  OBVIOUS
<1>0. Shown' <=> base' # None
  BY DEF Shown
<1>1. ASSUME NEW s \in saved, Open(s) PROVE SameFamilies'
  BY <1>0, <1>1 DEF Open, SameFamilies
<1>2. ASSUME NEW f \in Sliders, NEW v \in Steps(f), Slide(f, v) PROVE SameFamilies'
  BY <1>2 DEF Slide, SameFamilies, Shown
<1>3. CASE SaveScenario
  <2>1. base # None /\ saved' = saved \cup {changedSimulation} /\ base' = base
    BY <1>3 DEF SaveScenario
  <2>2. changedSimulation.ages = base.ages
    BY <2>1, Applied DEF SInv, Shown, changedSimulation
  <2> QED BY <2>1, <2>2 DEF SameFamilies, Shown
<1>4. CASE Close
  BY <1>0, <1>4 DEF Close, SameFamilies
<1>5. CASE UNCHANGED vars
  BY <1>5 DEF vars, SameFamilies, Shown
<1> QED BY <1>1, <1>2, <1>3, <1>4, <1>5 DEF Next

\* The bound of the property, where it leaves room for the rounding in every family the wizard saves.
THEOREM EqualSpousesAreIndifferentWithin ==
  ASSUME OfTwo(Rules), Rounding \in Nat,
         \A s \in Simulations : WithinTriple(Rules, Len(s.ages)) /\ RoundingOf(Len(s.ages)) <= Rounding
  PROVE  Spec => []EqualSpousesIndifferent
<1>1. Init => SameFamilies
  BY DEF Init, SameFamilies, Shown
<1>2. Spec => []SameFamilies
  BY <1>1, ScenarioIsShown, FamiliesStep, PTL DEF Spec
<1>3. SInv /\ SameFamilies => EqualSpousesIndifferent
  <2> SUFFICES ASSUME SInv, SameFamilies, Shown, isCouple(base) PROVE EqualSpousesIndifferent
    BY DEF EqualSpousesIndifferent
  <2>1. changedSimulation \in AllSimulations /\ changedSimulation.ages = base.ages
    BY Applied DEF SInv, changedSimulation
  <2> DEFINE s == changedSimulation
  <2> HIDE DEF s
  <2> DEFINE twins == compareWithIrsJovem(Rules, [s EXCEPT !.second = s.first])
  <2> DEFINE k == RoundingOf(Len(s.ages))
  <2>2. s \in AllSimulations /\ WithinTriple(Rules, Len(s.ages)) /\ k <= Rounding
    <3>1. PICK q \in Simulations : base.ages = q.ages
      BY DEF SameFamilies
    <3> QED BY <2>1, <3>1 DEF s
  <2>3. k \in Nat /\ twins.joint.due - twins.separate.due \in -k .. k
    BY <2>2, EqualSpouses
  <2> HIDE DEF twins, k
  <2>4. twins.joint.due - twins.separate.due \in -Rounding .. Rounding
    BY <2>2, <2>3
  <2> QED BY <2>4 DEF EqualSpousesIndifferent, s, twins
<1> QED BY <1>2, <1>3, ScenarioIsShown, PTL
==============================================================================
