------------------------------- MODULE TaxEngine -------------------------------
(***************************************************************************)
(* The tax engine: the assessment of one taxpayer's employment income and  *)
(* the credits against the tax.  All operators are pure; r is a record of  *)
(* the rules of a year and region.                                         *)
(*                                                                         *)
(* An amount is an integer in the unit of the rules, a rate an integer in  *)
(* parts of Whole; in the code these are cents and parts per million.      *)
(* Every product is rounded where the code rounds it, half up.             *)
(***************************************************************************)
EXTENDS Integers, Sequences, FiniteSets, TLC, SequencesExt

CONSTANTS
    Whole,      \* the rate of 100%
    None

Lesser(a, b) == IF a <= b THEN a ELSE b
Greater(a, b) == IF a >= b THEN a ELSE b
NotNegative(a) == Greater(a, 0)

\* v * n / d to the nearest integer, halves away from zero.
mulDiv(v, n, d) ==
    LET p == v * n
    IN  IF p < 0 THEN -((d - 2 * p) \div (2 * d)) ELSE (2 * p + d) \div (2 * d)

timesPpm(v, rate) == mulDiv(v, rate, Whole)
-----------------------------------------------------------------------------
(* One taxpayer.                                                           *)

specificDeduction(r, income) ==
    Lesser(Greater(r.employmentSpecificDeduction, income.socialSecurity), income.gross)

\* Article 70: full protection up to a reference income, then two slopes down to nothing.
minimumExistenceAllowance(r, gross, specific) ==
    LET reference == r.minimumExistenceReference
        me        == r.minimumExistence
        first     == r.brackets[1]
        overRate  == mulDiv(me.generalExpenseLimit, Whole, first.marginalRate)
        l         == reference
                     - mulDiv(me.generalExpenseLimit, 10 * Whole, first.marginalRate * me.lDivisorTenths)
                     + mulDiv(first.upper, 10, me.lDivisorTenths)
        allowance ==
            CASE gross <= reference -> reference - specific - overRate
              [] gross > reference /\ gross <= l ->
                    reference - timesPpm(gross - reference, me.phaseTwoMultiplier) - specific - overRate
              [] gross > reference /\ gross > l ->
                    l - first.upper - timesPpm(gross - l, me.phaseThreeMultiplier) - specific
    IN  IF gross > mulDiv(r.ias, me.cutoffIasMultiplierTenths * me.months, 10) THEN 0
        ELSE Lesser(NotNegative(allowance), NotNegative(gross - specific))

\* The bracket an income ends in; the last one has no upper limit.
Bracket(r, taxable) ==
    LET n == Len(r.brackets)
        ends(i) == i = n \/ taxable <= r.brackets[i].upper
    IN  CHOOSE i \in 1 .. n : ends(i) /\ \A j \in 1 .. i - 1 : ~ends(j)

\* Mutant: the average rate of the bracket itself.
grossTaxOwnAverage(r, taxable) ==
    LET i == Bracket(r, taxable)
        lower == r.brackets[i - 1].upper
    IN  CASE taxable <= 0          -> 0
          [] taxable > 0 /\ i = 1  -> timesPpm(taxable, r.brackets[1].marginalRate)
          [] taxable > 0 /\ i # 1  -> timesPpm(lower, r.brackets[Lesser(i, Len(r.brackets) - 1)].averageRate)
                                      + timesPpm(taxable - lower, r.brackets[i].marginalRate)

\* The average rate up to the bracket and its marginal rate above, rounded one by one.
grossTax(r, taxable) ==
    LET i == Bracket(r, taxable)
        lower == r.brackets[i - 1].upper
    IN  CASE taxable <= 0          -> 0
          [] taxable > 0 /\ i = 1  -> timesPpm(taxable, r.brackets[1].marginalRate)
          [] taxable > 0 /\ i # 1  -> timesPpm(lower, r.brackets[i - 1].averageRate)
                                      + timesPpm(taxable - lower, r.brackets[i].marginalRate)

solidarityTax(r, taxable) ==
    LET s == r.solidarity
    IN  IF taxable <= s.firstThreshold THEN 0
        ELSE timesPpm(Lesser(taxable, s.secondThreshold) - s.firstThreshold, s.firstRate)
             + timesPpm(NotNegative(taxable - s.secondThreshold), s.secondRate)
-----------------------------------------------------------------------------
(* Credits against the tax.                                                *)

\* Sorted from the oldest, the first dependent has an extra up to an age, the others a larger one up to
\* another: all but the first count alike, and whichever of two oldest comes first changes nothing.
dependentCredit(r, ages) ==
    LET d             == r.deductions
        eldest        == CHOOSE i \in DOMAIN ages : \A j \in DOMAIN ages : ages[j] <= ages[i]
        laterAndSmall == {i \in DOMAIN ages : i # eldest /\ ages[i] <= 6}
        firstIsBaby   == ages # <<>> /\ ages[eldest] <= 3
    IN  Len(ages) * d.dependentBase
        + Cardinality(laterAndSmall) * d.secondAndLaterUnderSixExtra
        + (IF firstIsBaby THEN d.dependentUnderThreeExtra ELSE 0)

\* Mutant: an expense above its cap is refused.
limitedOrNothing(expense, rate, cap) ==
    IF timesPpm(expense, rate) > cap THEN 0 ELSE timesPpm(expense, rate)

limited(expense, rate, cap) == Lesser(timesPpm(expense, rate), cap)

rentCap(r, taxable) ==
    LET d == r.deductions
        first == r.brackets[1].upper
        transitional ==
            CASE taxable <= first -> d.rentTransitionLowCap
              [] taxable > first /\ taxable <= d.rentTransitionUpperIncome ->
                    d.rentTransitionBaseCap
                    + mulDiv(d.rentTransitionLowCap - d.rentTransitionBaseCap,
                             d.rentTransitionUpperIncome - taxable,
                             d.rentTransitionUpperIncome - first)
              [] taxable > first /\ taxable > d.rentTransitionUpperIncome -> d.rentTransitionBaseCap
    IN  Greater(transitional, d.rentFloorCap)

pprCredit(r, ppr, age) ==
    LET d == r.deductions
    IN  limited(ppr, d.pprRate, CASE age < 35               -> d.pprUnder35Cap
                                  [] age >= 35 /\ age <= 50 -> d.ppr35To50Cap
                                  [] age > 50               -> d.pprOver50Cap)

\* The cap on the credits of a group; none in the first bracket (None), more for families
\* of three dependents or more.
overallCap(r, taxable, dependents) ==
    LET d == r.deductions
        first == r.brackets[1].upper
        cap == IF taxable >= d.overallUpperIncome THEN d.overallHighIncomeCap
               ELSE d.overallHighIncomeCap
                    + mulDiv(d.overallLowIncomeCap - d.overallHighIncomeCap,
                             d.overallUpperIncome - taxable, d.overallUpperIncome - first)
    IN  CASE taxable <= first                     -> None
          [] taxable > first /\ dependents < 3    -> cap
          [] taxable > first /\ dependents >= 3   ->
                cap + timesPpm(cap, d.largeFamilyIncreasePerDependent * dependents)

invoiceVat(r, d) ==
    LET rules == r.deductions
    IN  Lesser(timesPpm(d.invoiceVat15, rules.invoiceVat15Rate)
               + timesPpm(d.invoiceVat30, rules.invoiceVat30Rate)
               + timesPpm(d.invoiceVat35, rules.invoiceVat35Rate)
               + timesPpm(d.invoiceVat100, rules.invoiceVat100Rate), rules.invoiceVatCap)

\* p: ages of the dependents and whether a single parent; ppr: the credit for it.
credits(r, p, d, taxable, tax, ppr) ==
    LET rules   == r.deductions
        general == IF p.singleParent
                   THEN limited(d.general, rules.generalSingleParentRate, rules.generalSingleParentCap)
                   ELSE limited(d.general, rules.generalRate, rules.generalCapPerTaxpayer)
        group   == limited(d.health, rules.healthRate, rules.healthCap)
                   + limited(d.education, rules.educationRate, rules.educationCap)
                   + limited(d.careHomes, rules.careHomeRate, rules.careHomeCap)
                   + invoiceVat(r, d)
                   + limited(d.rent, rules.rentRate, rentCap(r, taxable))
                   + ppr
        cap     == overallCap(r, taxable, Len(p.ages))
    IN  Lesser(dependentCredit(r, p.ages) + general
               + (IF cap = None THEN group ELSE Lesser(group, cap)), tax)
-----------------------------------------------------------------------------
(* Assessments.                                                            *)

\* Mutant: the rate is that of the remaining income.
adjustmentOfRest(r, normalTaxable, exempt, divisor) ==
    LET taxable == NotNegative(normalTaxable - exempt)
    IN  [taxable |-> taxable, tax |-> grossTax(r, mulDiv(taxable, 1, divisor)) * divisor]

\* Mutant: the rate is that of the whole income and the exempt part once more.
adjustmentCountedTwice(r, normalTaxable, exempt, divisor) ==
    LET rateIncome == normalTaxable + exempt
        before     == grossTax(r, mulDiv(rateIncome, 1, divisor)) * divisor
        share      == IF rateIncome = 0 THEN 0 ELSE mulDiv(before, exempt, rateIncome)
    IN  [taxable |-> NotNegative(normalTaxable - exempt), tax |-> NotNegative(before - share)]

\* IrsJovemTaxAdjustment: exempt income still counts for the rate, and its share of the
\* tax is taken off.
adjustment(r, normalTaxable, exempt, divisor) ==
    LET taxable    == NotNegative(normalTaxable - exempt)
        rateIncome == taxable + exempt
        before     == grossTax(r, mulDiv(rateIncome, 1, divisor)) * divisor
        share      == IF rateIncome = 0 THEN 0 ELSE mulDiv(before, exempt, rateIncome)
    IN  [taxable |-> taxable, tax |-> NotNegative(before - share)]

Unavailable(withholding) ==
    [available |-> FALSE, taxable |-> 0, tax |-> 0, credits |-> 0, solidarity |-> 0,
     due |-> 0, withholding |-> withholding, balance |-> 0]

Assessed(taxable, tax, credit, solidarity, withholding) ==
    LET due == NotNegative(tax - credit) + solidarity
    IN  [available |-> TRUE, taxable |-> taxable, tax |-> tax, credits |-> credit,
         solidarity |-> solidarity, due |-> due, withholding |-> withholding,
         balance |-> withholding - due]

Minimum(r, income, allowed) ==
    IF allowed THEN minimumExistenceAllowance(r, income.gross, specificDeduction(r, income)) ELSE 0

\* t: age, income and deductions of one taxpayer.
individual(r, t, p, allowMinimum, exempt) ==
    LET normal == NotNegative(t.income.gross - specificDeduction(r, t.income)
                              - Minimum(r, t.income, allowMinimum))
        a == adjustment(r, normal, exempt, 1)
    IN  Assessed(a.taxable, a.tax,
                 credits(r, p, t.deductions, a.taxable, a.tax, pprCredit(r, t.deductions.ppr, t.age)),
                 solidarityTax(r, a.taxable), t.income.withholding)
=============================================================================
