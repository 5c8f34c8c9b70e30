------------------------------ MODULE TaxScenarios ------------------------------
(***************************************************************************)
(* The screen that compares a simulation with a hypothetical scenario: a   *)
(* slider for each of the first taxpayer's amounts, both results           *)
(* recalculated at every change, and a scenario that can be saved as a     *)
(* simulation of its own and opened in turn.                               *)
(***************************************************************************)
EXTENDS HouseholdTax

CONSTANTS
    Rules,          \* the rules of the year and region
    Simulations,    \* the simulations the wizard saves
    Steps(_),       \* the values a slider is moved to
    MaxSaved,       \* bound: simulations saved
    Rounding,       \* bound: the rounding of halved limits
    MaxChanged      \* bound: sliders away from the simulation's own amounts

Incomes == {"gross", "withholding"}
Expenses == {"ppr", "health", "education", "rent", "general"}
Sliders == Incomes \cup Expenses

\* A simulation and a book of rules, as the code stores and loads them.
Years == [year : Int, income : BOOLEAN, dependent : BOOLEAN, resident : BOOLEAN, incompatible : BOOLEAN]

Spending ==
    [Expenses \cup {"careHomes", "invoiceVat15", "invoiceVat30", "invoiceVat35", "invoiceVat100"} -> Nat]

Taxpayers ==
    [age : Nat, income : [gross : Nat, withholding : Nat, socialSecurity : Nat], deductions : Spending,
     irsJovem : [requested : BOOLEAN, complete : BOOLEAN, regularized : BOOLEAN, history : Seq(Years)]]

AllSimulations ==
    [civil : {"single", "couple"}, filing : {"separate", "joint"}, ages : Seq(Nat),
     singleParent : BOOLEAN, unvalidated : SUBSET STRING,
     first : Taxpayers, second : Taxpayers \cup {None}]

Limits == FamilyLimits \cup
    {"generalCapPerTaxpayer", "generalSingleParentCap", "pprUnder35Cap", "ppr35To50Cap",
     "pprOver50Cap", "rentTransitionUpperIncome", "overallUpperIncome"}

Rates == {"generalRate", "generalSingleParentRate", "healthRate", "educationRate", "careHomeRate",
          "invoiceVat15Rate", "invoiceVat30Rate", "invoiceVat35Rate", "invoiceVat100Rate",
          "pprRate", "rentRate", "largeFamilyIncreasePerDependent"}

RuleBooks ==
    [taxYear : Nat, ias : Nat, employmentSpecificDeduction : Nat, minimumExistenceReference : Nat,
     minimumExistence : [generalExpenseLimit : Nat, phaseTwoMultiplier : Nat,
                         phaseThreeMultiplier : Nat, cutoffIasMultiplierTenths : Nat,
                         months : Nat, lDivisorTenths : Nat \ {0}],
     brackets : Seq([upper : Nat \cup {None}, marginalRate : Nat, averageRate : Nat \cup {None}]),
     solidarity : [firstThreshold : Nat, secondThreshold : Nat, firstRate : Nat, secondRate : Nat],
     household : [jointDivisor : Nat \ {0}, familyLimitDivisor : Nat \ {0}],
     irsJovem : [maximumAge : Nat, maximumYears : Nat, exemptionLimitIasMultiplier : Nat,
                 year1Rate : Nat, years2To4Rate : Nat, years5To7Rate : Nat, years8To10Rate : Nat],
     deductions : [Limits \cup Rates -> Nat]]

\* Only the last bracket has no upper limit and no average rate, and the first taxes.
ProperBrackets(r) ==
    /\ Len(r.brackets) > 1
    /\ r.brackets[1].marginalRate > 0
    /\ \A i \in 1 .. Len(r.brackets) - 1 : r.brackets[i].upper # None /\ r.brackets[i].averageRate # None

\* What the law grants less of as the income grows, and as the years of IRS Jovem pass.
Declining(r) ==
    /\ r.solidarity.firstThreshold <= r.solidarity.secondThreshold
    /\ r.deductions.rentTransitionBaseCap <= r.deductions.rentTransitionLowCap
    /\ r.deductions.overallHighIncomeCap <= r.deductions.overallLowIncomeCap
    /\ r.irsJovem.years2To4Rate <= r.irsJovem.year1Rate
    /\ r.irsJovem.years5To7Rate <= r.irsJovem.years2To4Rate
    /\ r.irsJovem.years8To10Rate <= r.irsJovem.years5To7Rate

ASSUME RatesAssumption == Whole \in Nat \ {0} /\ None \notin Int
ASSUME NoneAssumption == None \notin Taxpayers
ASSUME RulesAssumption == Rules \in RuleBooks /\ ProperBrackets(Rules) /\ Declining(Rules)
ASSUME SimulationsAssumption == Simulations \subseteq AllSimulations
ASSUME StepsAssumption == \A f \in Sliders : Steps(f) \subseteq Nat

VARIABLES
    saved,          \* the saved simulations
    base,           \* the simulation the screen was opened with, None when it is closed
    values,         \* where the sliders are
    original,       \* the result of the simulation, and
    changed         \* that of the scenario, as the screen shows them

vars == <<saved, base, values, original, changed>>

result(s) == calculateSimulation(Rules, s)

amounts(s) == [f \in Sliders |-> IF f \in Incomes THEN s.first.income[f] ELSE s.first.deductions[f]]

\* ScenarioOverrides.applyTo; only the first taxpayer has sliders.
applyTo(s, v) ==
    [s EXCEPT !.first.income.gross = v["gross"], !.first.income.withholding = v["withholding"],
              !.first.deductions = [d \in DOMAIN @ |-> IF d \in Expenses THEN v[d] ELSE @[d]]]

changedSimulation == applyTo(base, values)

clamp(a, low, high) == Greater(low, Lesser(a, high))

\* The end of a slider, for incomes in proportion to the simulation's own.
maximum(f) ==
    CASE f = "gross"       -> clamp(2 * base.first.income.gross, 100, 50000)
      [] f = "withholding" -> clamp(2 * base.first.income.withholding, 100, 10000)
      [] f = "ppr"         -> 500
      [] f = "health"      -> 800
      [] f = "education"   -> 500
      [] f = "rent"        -> 1500
      [] f = "general"     -> 300

Init ==
    /\ \E s \in Simulations : saved = {s}
    /\ base = None
    /\ values = [f \in Sliders |-> 0]
    /\ original = None
    /\ changed = None

\* Only a simulation with a result can be compared.
Open(s) ==
    /\ base = None
    /\ original' = result(s)
    /\ original'.available
    /\ base' = s
    /\ values' = amounts(s)
    /\ changed' = original'
    /\ UNCHANGED saved

Slide(f, v) ==
    /\ base # None
    /\ v <= Greater(maximum(f), values[f])
    /\ values' = [values EXCEPT ![f] = v]
    /\ Cardinality({g \in Sliders : values'[g] # amounts(base)[g]}) <= MaxChanged
    /\ changed' = result(applyTo(base, values'))
    /\ UNCHANGED <<saved, base, original>>

\* Offered when the scenario makes a difference.
SaveScenario ==
    /\ base # None
    /\ Cardinality(saved) < MaxSaved
    /\ changed.balance # original.balance
    /\ saved' = saved \cup {changedSimulation}
    /\ UNCHANGED <<base, values, original, changed>>

Close ==
    /\ base # None
    /\ base' = None
    /\ values' = [f \in Sliders |-> 0]
    /\ original' = None
    /\ changed' = None
    /\ UNCHANGED saved

Next ==
    \/ \E s \in saved : Open(s)
    \/ \E f \in Sliders : \E v \in Steps(f) : Slide(f, v)
    \/ SaveScenario
    \/ Close

Spec == Init /\ [][Next]_vars
-----------------------------------------------------------------------------
(* Properties.  They speak of the scenario on the screen.                  *)

Shown == base # None

\* Whoever spends more on something deductible pays no more: a slider of an expense moved up
\* never lowers the balance, whatever caps, shared limits and the tax itself take away.
SpendingNeverCosts ==
    [][\A f \in Expenses :
        Shown /\ Shown' /\ values'[f] > values[f] /\ values' = [values EXCEPT ![f] = values'[f]]
        => changed'.balance >= changed.balance]_vars

keepsMinimum(s) == ~isCouple(s) \/ allowMinimumExistence(Rules, s.first, s.second)

\* Whoever earns more keeps more: with a slider of gross income moved up the tax due grows by
\* no more than the income, over brackets, the slopes of the minimum of existence, shrinking caps
\* and IRS Jovem.  A couple that loses the minimum of existence of both at the common cutoff
\* is the exception the rules make.
EarningMorePays ==
    [][/\ Shown /\ Shown' /\ values'["gross"] > values["gross"]
       /\ keepsMinimum(changedSimulation) = keepsMinimum(changedSimulation')
       => changed'.due - changed.due <= values'["gross"] - values["gross"]]_vars

withoutJovem(s) ==
    [s EXCEPT !.first.irsJovem.requested = FALSE,
              !.second = IF @ = None THEN None ELSE [@ EXCEPT !.irsJovem.requested = FALSE]]

\* Asking for IRS Jovem never costs anything, alone or as a couple, jointly or separately.
ExemptionNeverCosts ==
    Shown => changed.due <= result(withoutJovem(changedSimulation)).due

\* Article 22: exempt income still counts for the rate, so that the rest is taxed at the rate
\* of the whole and not at that of a smaller income (up to the rounding of one amount).
ExemptIncomeStillRates ==
    Shown /\ supported(changedSimulation) /\ (isCouple(changedSimulation) => changedSimulation.filing = "joint") =>
        LET whole == result(withoutJovem(changedSimulation))
        IN  changed.tax * whole.taxable + whole.taxable >= whole.tax * changed.taxable

\* Which spouse was entered first makes no difference, nor does the order of the dependents,
\* whose credit takes one of the oldest where the code sorts.
EntryOrderIrrelevant ==
    Shown =>
        LET s == changedSimulation
            others == IF isCouple(s) THEN [s EXCEPT !.first = s.second, !.second = s.first] ELSE s
        IN  \A t \in {others, [s EXCEPT !.ages = Reverse(@)]} : result(t) = changed

\* For two spouses with the same income, expenses and age it makes no difference whether they
\* are assessed jointly, under the limits of a family, or separately, under half of each
\* (up to the rounding of the halves).
EqualSpousesIndifferent ==
    Shown /\ isCouple(base) =>
        LET s == changedSimulation
            twins == compareWithIrsJovem(Rules, [s EXCEPT !.second = s.first])
        IN  twins.joint.due - twins.separate.due \in -Rounding .. Rounding

\* A year before the first of a history changes nothing if it had no income or was spent as a
\* dependent, and with income it never makes the exemption larger.
IdleYearsDoNotCount ==
    Shown /\ eligibility(Rules, base.first).status = "eligible" =>
        LET t == changedSimulation.first
            earliest == Rules.taxYear - Len(t.irsJovem.history) + 1
            before(income, dependent) ==
                [year |-> earliest - 1, income |-> income, dependent |-> dependent,
                 resident |-> TRUE, incompatible |-> FALSE]
            longer(e) == eligibility(Rules, [t EXCEPT !.irsJovem.history = Append(@, e)])
        IN  \A income, dependent \in BOOLEAN :
                IF income /\ ~dependent
                THEN longer(before(income, dependent)).exempt <= eligibility(Rules, t).exempt
                ELSE longer(before(income, dependent)) = eligibility(Rules, t)
=============================================================================
