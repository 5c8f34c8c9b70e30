------------------------------ MODULE HouseholdTax ------------------------------
(***************************************************************************)
(* The assessment of a simulation: of one taxpayer, or of a couple jointly *)
(* and separately, with IRS Jovem where asked for, and nothing at all      *)
(* outside the scope the rules are validated for.                          *)
(*                                                                         *)
(* A simulation is                                                         *)
(*   [civil: "single" or "couple", filing: "separate" or "joint",          *)
(*    ages: of the dependents, singleParent, unvalidated: the other        *)
(*    situations it declares that nobody validated,                        *)
(*    first: a taxpayer, second: a taxpayer or None]                       *)
(* and a taxpayer [age, income, deductions, irsJovem].  The expenses of    *)
(* the dependents themselves are left out: the application never sets them.*)
(***************************************************************************)
EXTENDS IrsJovem

isCouple(s) == s.civil = "couple"

\* SupportedScopeValidator finds no issue.
supported(s) ==
    /\ s.unvalidated = {}
    /\ isCouple(s) <=> s.second # None
    /\ s.filing = "joint" => isCouple(s)
    /\ s.ages # <<>> => isCouple(s) \/ s.singleParent
    /\ s.singleParent => s.ages # <<>> /\ ~isCouple(s)
    /\ \A i \in DOMAIN s.ages : s.ages[i] \in 0 .. 25
-----------------------------------------------------------------------------
add(d, e) == [c \in DOMAIN d |-> d[c] + e[c]]

\* In a joint assessment the cap on general expenses is that of two taxpayers.
jointRules(r) ==
    [r EXCEPT !.deductions.generalCapPerTaxpayer = @ * r.household.jointDivisor]

\* The limits that belong to a family and not to a taxpayer.
FamilyLimits ==
    {"dependentBase", "dependentUnderThreeExtra", "secondAndLaterUnderSixExtra", "healthCap",
     "educationCap", "careHomeCap", "invoiceVatCap", "rentFloorCap", "rentTransitionLowCap",
     "rentTransitionBaseCap", "overallLowIncomeCap", "overallHighIncomeCap"}

\* Mutant: the limit on health expenses is forgotten.
separateRulesButHealth(r) ==
    [r EXCEPT !.deductions = [k \in DOMAIN r.deductions |->
        IF k \in FamilyLimits \ {"healthCap"}
        THEN mulDiv(r.deductions[k], 1, r.household.familyLimitDivisor) ELSE r.deductions[k]]]

separateRules(r) ==
    [r EXCEPT !.deductions = [k \in DOMAIN r.deductions |->
        IF k \in FamilyLimits THEN mulDiv(r.deductions[k], 1, r.household.familyLimitDivisor)
        ELSE r.deductions[k]]]

\* Mutant: the PPR of both under the limit of the first.
jointPprOfFirst(r, a, b) == pprCredit(r, a.deductions.ppr + b.deductions.ppr, a.age)

\* The limit on PPR stays with each taxpayer.
jointPpr(r, a, b) == pprCredit(r, a.deductions.ppr, a.age) + pprCredit(r, b.deductions.ppr, b.age)

joint(rules, a, b, p, allowMinimum, exempt) ==
    LET r       == jointRules(rules)
        divisor == r.household.jointDivisor
        normal  == NotNegative(a.income.gross + b.income.gross
                               - specificDeduction(r, a.income) - specificDeduction(r, b.income)
                               - Minimum(r, a.income, allowMinimum) - Minimum(r, b.income, allowMinimum))
        adj      == adjustment(r, normal, exempt, divisor)
        quotient == mulDiv(adj.taxable, 1, divisor)
    IN  Assessed(adj.taxable, adj.tax,
                 credits(r, p, add(a.deductions, b.deductions), quotient, adj.tax, jointPpr(r, a, b)),
                 solidarityTax(r, quotient) * divisor,
                 a.income.withholding + b.income.withholding)

\* The sum of two individual assessments.
sumResults(x, y) == [f \in DOMAIN x |-> IF f = "available" THEN x[f] /\ y[f] ELSE x[f] + y[f]]

\* Above twice the cutoff of one taxpayer neither keeps the minimum of existence.
allowMinimumExistence(r, a, b) ==
    a.income.gross + b.income.gross
        <= mulDiv(r.ias, r.minimumExistence.cutoffIasMultiplierTenths * r.minimumExistence.months * 2, 10)

compareExempt(r, s, exemptA, exemptB) ==
    LET a == s.first
        b == s.second
        p == [ages |-> s.ages, singleParent |-> FALSE]
        allow == allowMinimumExistence(r, a, b)
        own   == separateRules(r)
    IN  [separate |-> sumResults(individual(own, a, p, allow, exemptA),
                                 individual(own, b, p, allow, exemptB)),
         joint    |-> joint(r, a, b, p, allow, exemptA + exemptB)]

\* Nobody's exemption is applied while anybody's history leaves a question open.
compareWithIrsJovem(r, s) ==
    LET a == eligibility(r, s.first)
        b == eligibility(r, s.second)
        open == "needsMoreInformation" \in {a.status, b.status}
    IN  compareExempt(r, s, IF open THEN 0 ELSE a.exempt, IF open THEN 0 ELSE b.exempt)

\* The result the application shows for a simulation.
calculateSimulation(r, s) ==
    LET t == s.first
    IN  CASE ~supported(s) -> Unavailable(t.income.withholding)
          [] supported(s) /\ ~isCouple(s) ->
                individual(r, t, [ages |-> s.ages, singleParent |-> s.singleParent], TRUE,
                           eligibility(r, t).exempt)
          [] supported(s) /\ isCouple(s) -> compareWithIrsJovem(r, s)[s.filing]
=============================================================================
