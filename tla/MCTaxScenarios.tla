---------------------------- MODULE MCTaxScenarios ----------------------------
(* The rules of 2025 for the mainland, in units of 10 euros and rates of 100000, and the    *)
(* simulations and slider positions of the runs.                                            *)
EXTENDS TaxScenarios

bracket(upper, marginal, average) == [upper |-> upper, marginalRate |-> marginal, averageRate |-> average]

Rules2025 ==
  [taxYear |-> 2025, ias |-> 52, employmentSpecificDeduction |-> 446,
   minimumExistenceReference |-> 1218,
   minimumExistence |-> [generalExpenseLimit |-> 25, phaseTwoMultiplier |-> 260000,
                         phaseThreeMultiplier |-> 135000, cutoffIasMultiplierTenths |-> 22,
                         months |-> 14, lDivisorTenths |-> 36],
   brackets |-> << bracket(806, 12500, 12500), bracket(1216, 16000, 13680),
                   bracket(1723, 21500, 15982), bracket(2231, 24400, 17897),
                   bracket(2840, 31400, 20794), bracket(4163, 34900, 25277),
                   bracket(4499, 43100, 26607), bracket(8370, 44600, 34929),
                   bracket(None, 48000, None) >>,
   solidarity |-> [firstThreshold |-> 8000, secondThreshold |-> 25000,
                   firstRate |-> 2500, secondRate |-> 5000],
   household |-> [jointDivisor |-> 2, familyLimitDivisor |-> 2],
   irsJovem |-> [maximumAge |-> 35, maximumYears |-> 10, exemptionLimitIasMultiplier |-> 55,
                 year1Rate |-> 100000, years2To4Rate |-> 75000, years5To7Rate |-> 50000,
                 years8To10Rate |-> 25000],
   deductions |->
     [dependentBase |-> 60, dependentUnderThreeExtra |-> 13, secondAndLaterUnderSixExtra |-> 30,
      generalRate |-> 35000, generalCapPerTaxpayer |-> 25,
      generalSingleParentRate |-> 45000, generalSingleParentCap |-> 34,
      healthRate |-> 15000, healthCap |-> 100, educationRate |-> 30000, educationCap |-> 80,
      careHomeRate |-> 25000, careHomeCap |-> 40,
      invoiceVat15Rate |-> 15000, invoiceVat30Rate |-> 30000, invoiceVat35Rate |-> 35000,
      invoiceVat100Rate |-> 100000, invoiceVatCap |-> 25,
      pprRate |-> 20000, pprUnder35Cap |-> 40, ppr35To50Cap |-> 35, pprOver50Cap |-> 30,
      rentRate |-> 15000, rentFloorCap |-> 70, rentTransitionLowCap |-> 100,
      rentTransitionBaseCap |-> 70, rentTransitionUpperIncome |-> 3000,
      overallLowIncomeCap |-> 250, overallHighIncomeCap |-> 100, overallUpperIncome |-> 8000,
      largeFamilyIncreasePerDependent |-> 5000]]
-----------------------------------------------------------------------------
(* A year of a history: working, idle, or still a dependent.                               *)
worked(y) == [year |-> y, income |-> TRUE, dependent |-> FALSE, resident |-> TRUE, incompatible |-> FALSE]
idle(y) == [worked(y) EXCEPT !.income = FALSE]
student(y) == [worked(y) EXCEPT !.dependent = TRUE]
abroad(y) == [worked(y) EXCEPT !.resident = FALSE]

answers(history) == [requested |-> TRUE, complete |-> TRUE, regularized |-> TRUE, history |-> history]
NoJovem == [requested |-> FALSE, complete |-> FALSE, regularized |-> TRUE, history |-> <<>>]
working(n) == [i \in 1 .. n |-> worked(2026 - i)]

spent(general, health, education, rent, careHomes, ppr) ==
    [general |-> general, health |-> health, education |-> education, rent |-> rent,
     careHomes |-> careHomes, invoiceVat15 |-> 30, invoiceVat30 |-> 0, invoiceVat35 |-> 0,
     invoiceVat100 |-> 5, ppr |-> ppr]

earning(age, gross, deductions, jovem) ==
    [age |-> age,
     income |-> [gross |-> gross, withholding |-> gross \div 8, socialSecurity |-> (gross * 11) \div 100],
     deductions |-> deductions, irsJovem |-> jovem]

Little == spent(30, 20, 0, 0, 0, 0)
Much == spent(100, 300, 150, 500, 100, 120)
Saving == spent(60, 100, 0, 0, 0, 300)

single(t, ages) ==
    [civil |-> "single", filing |-> "separate", ages |-> ages, singleParent |-> ages # <<>>,
     unvalidated |-> {}, first |-> t, second |-> None]
couple(filing, a, b, ages) ==
    [civil |-> "couple", filing |-> filing, ages |-> ages, singleParent |-> FALSE,
     unvalidated |-> {}, first |-> a, second |-> b]

Wizard2025 ==
  { single(earning(40, 1620, Little, NoJovem), <<>>),
    single(earning(55, 4800, Much, NoJovem), <<2, 9, 5>>),
    single(earning(27, 2400, Much, answers(working(1))), <<>>),
    single(earning(27, 4700, Little, answers(working(4) \o <<student(2021), idle(2020)>>)), <<>>),
    single(earning(33, 2900, Little, answers(working(10))), <<1>>),
    single(earning(30, 2900, Little, answers(working(2) \o <<abroad(2023)>>)), <<>>),
    couple("joint", earning(31, 2600, Saving, answers(working(5))), earning(36, 2600, Little, NoJovem), <<1, 3>>),
    couple("separate", earning(52, 2000, Little, NoJovem), earning(34, 4300, Much, answers(working(8))), <<2, 9, 5>>),
    couple("joint", earning(45, 1500, Much, NoJovem), earning(38, 1500, Much, NoJovem), <<>>),
    couple("separate", earning(36, 4900, Much, NoJovem), earning(30, 1200, Little, answers(working(2))), <<7>>),
    \* The mark of a single parent outlives a change of civil status.
    [couple("joint", earning(45, 1500, Much, NoJovem), earning(38, 1500, Much, NoJovem), <<4>>)
        EXCEPT !.singleParent = TRUE] }

Steps2025(f) ==
    CASE f = "gross"       -> {0, 1600, 1660, 1670, 9000}
      [] f = "withholding" -> {200}
      [] f = "ppr"         -> {500}
      [] f = "health"      -> {800}
      [] f = "education"   -> {500}
      [] f = "rent"        -> {1500}
      [] f = "general"     -> {300}
=============================================================================
