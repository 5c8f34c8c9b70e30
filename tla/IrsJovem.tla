-------------------------------- MODULE IrsJovem --------------------------------
(***************************************************************************)
(* IRS Jovem: who is exempt, from which part of the income, in which year  *)
(* of ten, judged by the history of incomes the taxpayer declares.  The    *)
(* transitional answers without a history are left out: the wizard never   *)
(* gives them.                                                             *)
(*                                                                         *)
(* A history is a sequence of years                                        *)
(*   [year, income (A or B), dependent, resident, incompatible].           *)
(***************************************************************************)
EXTENDS TaxEngine

\* Mutant: a year with income counts also when the taxpayer was still a dependent.
countsAnyIncome(e) == e.income /\ e.resident

\* The years that use up the ten years of the benefit.
counts(e) == e.income /\ e.resident /\ ~e.dependent

\* The share of the income exempt in the n-th of the ten years.
exemptionRate(r, year) ==
    CASE year = 1              -> r.irsJovem.year1Rate
      [] year > 1 /\ year <= 4 -> r.irsJovem.years2To4Rate
      [] year > 4 /\ year <= 7 -> r.irsJovem.years5To7Rate
      [] year > 7              -> r.irsJovem.years8To10Rate

\* The early returns in their order; the first whose condition holds decides.
returns(r, age, gross, answers) ==
    LET history == Range(answers.history)
        years   == {e.year : e \in history}
        current == {e \in history : e.year = r.taxYear}
        year    == Cardinality({e \in history : counts(e)})
        return(condition, status) == [condition |-> condition, status |-> status]
    IN  << return(~answers.requested, "notRequested"),
           return(age > r.irsJovem.maximumAge, "notEligible"),
           return(gross <= 0 /\ history = {}, "notEligible"),
           return(history = {} \/ ~answers.complete, "needsMoreInformation"),
           return(Cardinality(years) # Len(answers.history) \/ \E y \in years : y > r.taxYear,
                  "needsMoreInformation"),
           return(\E y \in years : ~(y .. r.taxYear \subseteq years), "needsMoreInformation"),
           return(\E e \in current : ~e.income, "needsMoreInformation"),
           return(\E e \in current : ~e.resident, "notEligible"),
           return(\E e \in history : e.year < r.taxYear /\ e.income /\ ~e.resident,
                  "needsMoreInformation"),
           return(\E e \in history : e.incompatible, "notEligible"),
           return(\E e \in current : e.dependent, "notEligible"),
           return(~answers.regularized, "notEligible"),
           return(year < 1 \/ year > r.irsJovem.maximumYears, "notEligible"),
           return(TRUE, "eligible") >>

evaluate(r, age, gross, answers) ==
    LET all   == returns(r, age, gross, answers)
        first == CHOOSE i \in DOMAIN all :
                    all[i].condition /\ \A j \in 1 .. i - 1 : ~all[j].condition
        year  == Cardinality({e \in Range(answers.history) : counts(e)})
        limit == r.ias * r.irsJovem.exemptionLimitIasMultiplier
    IN  [status |-> all[first].status,
         exempt |-> IF all[first].status = "eligible"
                    THEN Lesser(timesPpm(gross, exemptionRate(r, year)), limit) ELSE 0]

\* The answers of one taxpayer.
eligibility(r, t) == evaluate(r, t.age, t.income.gross, t.irsJovem)
=============================================================================
