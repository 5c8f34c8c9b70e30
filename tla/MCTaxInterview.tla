---------------------------- MODULE MCTaxInterview ----------------------------
(* TaxInterview on small questionnaires. *)
EXTENDS TaxInterview

\* A questionnaire with questions that hide others and an amount that a document
\* may prove; the profile is of an employed single taxpayer.
MCAsked == {"civilStatus", "jointTaxation", "employmentIncome",
            "withholdingCents", "reviewConfirmed"}
Unknown == [q \in ProfileFields |-> None]
Employee == [Unknown EXCEPT !["civilStatus"] = "single", !["employmentIncome"] = "yes"]
MCProfiles == {Employee}
MCLedger == [employmentGrossCents |-> None, expensesReviewed |-> None]
=============================================================================
