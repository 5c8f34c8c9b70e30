------------------------- MODULE TaxInterview_proofs -------------------------
(***************************************************************************)
(* What TaxInterview promises of any questionnaire, profile, documents and *)
(* number of calls in flight.                                              *)
(***************************************************************************)
EXTENDS TaxInterview, SequenceTheorems, TLAPS

-----------------------------------------------------------------------------
(* The engine.                                                             *)

LEMMA QuestionNames ==
  Questions = {
    "residentPortugal", "region", "age", "civilStatus", "jointTaxation",
    "dependentCount", "employmentIncome", "employmentGrossCents",
    "selfEmploymentIncome", "pensionIncome", "foreignIncome", "rentalIncome",
    "expensesReviewed", "withholdingCents", "socialSecurityCents",
    "reviewConfirmed"}
<1>1. ASSUME NEW q \in Questions
      PROVE  \E i \in 1 .. 16 : q = questions[i]
  BY DEF Questions
<1>2. \A i \in 1 .. 16 : questions[i] \in Questions
  BY DEF Questions
<1>3. /\ questions[1] = "residentPortugal" /\ questions[2] = "region" /\ questions[3] = "age"
      /\ questions[4] = "civilStatus" /\ questions[5] = "jointTaxation"
      /\ questions[6] = "dependentCount" /\ questions[7] = "employmentIncome"
      /\ questions[8] = "employmentGrossCents" /\ questions[9] = "selfEmploymentIncome"
      /\ questions[10] = "pensionIncome" /\ questions[11] = "foreignIncome"
      /\ questions[12] = "rentalIncome" /\ questions[13] = "expensesReviewed"
      /\ questions[14] = "withholdingCents" /\ questions[15] = "socialSecurityCents"
      /\ questions[16] = "reviewConfirmed"
  BY DEF questions
<1> QED
  BY <1>1, <1>2, <1>3

LEMMA Positions ==
  ASSUME NEW q \in Questions
  PROVE  Position[q] \in 1 .. 16 /\ questions[Position[q]] = q
<1>1. \E i \in 1 .. 16 : questions[i] = q
  BY DEF Questions
<1>2. Position[q] = CHOOSE i \in 1 .. 16 : questions[i] = q
  BY DEF Position
<1> QED
  BY <1>1, <1>2

\* No two questions have the same place.
LEMMA PositionsDiffer ==
  ASSUME NEW p \in Questions, NEW q \in Questions, Position[p] = Position[q]
  PROVE  p = q
BY Positions

LEMMA Driven ==
  /\ Position["residentPortugal"] = 1
  /\ Position["region"] = 2
  /\ Position["civilStatus"] < Position["jointTaxation"]
  /\ \A q \in Earnings : q \in Questions /\ Position["employmentIncome"] < Position[q]
<1>1. \A i \in 1 .. 16 :
        /\ questions[i] = "residentPortugal" => i = 1
        /\ questions[i] = "region" => i = 2
        /\ questions[i] = "civilStatus" => i = 4
        /\ questions[i] = "jointTaxation" => i = 5
        /\ questions[i] = "employmentIncome" => i = 7
        /\ questions[i] = "employmentGrossCents" => i = 8
        /\ questions[i] = "withholdingCents" => i = 14
        /\ questions[i] = "socialSecurityCents" => i = 15
  BY DEF questions
<1>2. {"residentPortugal", "region", "civilStatus", "jointTaxation", "employmentIncome"}
        \cup Earnings \subseteq Questions
  BY QuestionNames DEF Earnings
<1> QED
  BY <1>1, <1>2, Positions DEF Earnings

LEMMA Least ==
  ASSUME NEW T \in SUBSET (1 .. 16), T # {}
  PROVE  \E x \in T : \A y \in T : x <= y
<1> SUFFICES ASSUME \A x \in T : \E y \in T : y < x
             PROVE  FALSE
  OBVIOUS
<1>1. 1 \notin T /\ 2 \notin T /\ 3 \notin T /\ 4 \notin T
  OBVIOUS
<1>2. 5 \notin T /\ 6 \notin T /\ 7 \notin T /\ 8 \notin T
  BY <1>1
<1>3. 9 \notin T /\ 10 \notin T /\ 11 \notin T /\ 12 \notin T
  BY <1>1, <1>2
<1>4. 13 \notin T /\ 14 \notin T /\ 15 \notin T /\ 16 \notin T
  BY <1>1, <1>2, <1>3
<1>5. PICK x \in T : x \in 1 .. 16
  OBVIOUS
<1> QED
  BY <1>1, <1>2, <1>3, <1>4, <1>5

LEMMA FirstOf ==
  ASSUME NEW qs \in SUBSET Questions, qs # {}
  PROVE  First(qs) \in qs /\ \A p \in qs : Position[First(qs)] <= Position[p]
<1> DEFINE T == {Position[q] : q \in qs}
<1>1. T \subseteq 1 .. 16 /\ T # {}
  BY Positions
<1>2. PICK x \in T : \A y \in T : x <= y
  BY <1>1, Least
<1>3. \E q \in qs : \A p \in qs : Position[q] <= Position[p]
  BY <1>2
<1> QED
  BY <1>3 DEF First

LEMMA LastOf ==
  ASSUME NEW qs \in SUBSET Questions, qs # {}
  PROVE  Last(qs) \in qs /\ \A p \in qs : Position[p] <= Position[Last(qs)]
<1> DEFINE T == {17 - Position[q] : q \in qs}
<1>1. T \subseteq 1 .. 16 /\ T # {}
  BY Positions
<1>2. PICK x \in T : \A y \in T : x <= y
  BY <1>1, Least
<1>3. PICK q \in qs : x = 17 - Position[q]
  BY <1>2
<1>4. ASSUME NEW p \in qs
      PROVE  Position[p] <= Position[q]
  <2>1. 17 - Position[q] <= 17 - Position[p]
    BY <1>2, <1>3
  <2> QED
    BY <2>1, Positions
<1> QED
  BY <1>4 DEF Last
-----------------------------------------------------------------------------
(* The types of what the engine returns.                                   *)

\* A function of the questions that gives each a possible answer.
LEMMA IsAnswers ==
  ASSUME NEW a, a = [q \in Questions |-> a[q]],
         \A q \in Questions : a[q] \in Choices(q) \cup {None}
  PROVE  a \in Answers
<1>1. \A q \in Questions : a[q] \in AllChoices \cup {None}
  BY DEF AllChoices
<1> QED
  BY <1>1 DEF Answers, Possible

LEMMA AnswersGive ==
  ASSUME NEW a \in Answers
  PROVE  /\ a \in [Questions -> AllChoices \cup {None}]
         /\ \A q \in Questions : a[q] \in Choices(q) \cup {None}
BY DEF Answers, Possible

LEMMA IsProfile ==
  ASSUME NEW a, a = [q \in ProfileFields |-> a[q]],
         \A q \in ProfileFields : a[q] \in Choices(q) \cup {None}
  PROVE  a \in ProfileType
<1>1. ProfileFields \subseteq Questions
  BY QuestionNames DEF ProfileFields
<1>2. \A q \in ProfileFields : a[q] \in AllChoices \cup {None}
  BY <1>1 DEF AllChoices
<1> QED
  BY <1>1, <1>2 DEF ProfileType, Possible

LEMMA ProfileGives ==
  ASSUME NEW a \in ProfileType
  PROVE  /\ a \in [ProfileFields -> AllChoices \cup {None}]
         /\ \A q \in ProfileFields : q \in Questions /\ a[q] \in Choices(q) \cup {None}
<1>1. ProfileFields \subseteq Questions
  BY QuestionNames DEF ProfileFields
<1> QED
  BY <1>1 DEF ProfileType, Possible

LEMMA InterviewParts ==
  ASSUME NEW i \in Interviews
  PROVE  /\ i = [answers |-> i.answers, imported |-> i.imported, resolved |-> i.resolved,
                 current |-> i.current, completed |-> i.completed]
         /\ i.answers \in Answers /\ i.imported \in SUBSET Documented
         /\ i.resolved \in [Questions -> Pairs \cup {None}]
         /\ i.current \in Asked /\ i.completed \in BOOLEAN
         /\ i # None
BY NoneAssumption DEF Interviews

LEMMA Places ==
  /\ Asked \subseteq Questions /\ "reviewConfirmed" \in Asked
  /\ Documented \subseteq Earnings /\ Documented \subseteq Asked
  /\ Documented \subseteq Questions /\ Documented \cap ProfileFields = {}
  /\ ProfileFields \subseteq Questions /\ "employmentIncome" \in Questions
  /\ \A q \in Earnings : Choices(q) = Amounts
  /\ Choices("employmentIncome") = {"yes", "no"}
BY InterviewAssumption, QuestionNames
   DEF Earnings, ProfileFields, Choices, Numeric

LEMMA VisibleAreAsked ==
  ASSUME NEW answers
  PROVE  visibleQuestions(answers) \subseteq Asked /\ visibleQuestions(answers) \subseteq Questions
BY Places DEF visibleQuestions

LEMMA AnswerTypes ==
  ASSUME NEW i \in Interviews, NEW q \in Questions, NEW v \in Choices(q)
  PROVE  /\ answer(i, q, v).answers \in Answers
         /\ answer(i, q, v).imported \in SUBSET Documented
<1> DEFINE updated == [i.answers EXCEPT ![q] = v]
           kept == {p \in Questions : Visible(p, updated)}
           answers == [p \in Questions |-> IF p \in kept THEN updated[p] ELSE None]
<1>1. i.answers \in [Questions -> AllChoices \cup {None}]
      /\ \A p \in Questions : i.answers[p] \in Choices(p) \cup {None}
  BY InterviewParts, AnswersGive
<1>2. \A p \in Questions : updated[p] \in Choices(p) \cup {None}
  BY <1>1
<1>3. answers \in Answers
  <2> HIDE DEF updated, kept
  <2>1. answers = [p \in Questions |-> answers[p]]
    OBVIOUS
  <2>2. \A p \in Questions : answers[p] \in Choices(p) \cup {None}
    BY <1>2
  <2> HIDE DEF answers
  <2> QED
    BY <2>1, <2>2, IsAnswers
<1>4. answer(i, q, v).answers = answers
  BY DEF answer
<1>5. answer(i, q, v).imported = i.imported \cap (kept \ {q})
  BY DEF answer
<1> QED
  BY <1>3, <1>4, <1>5, InterviewParts

LEMMA PrefillType ==
  ASSUME NEW known \in ProfileType
  PROVE  /\ Prefill(known) \in Interviews
         /\ Prefill(known).completed = FALSE
         /\ \E open \in SUBSET visibleQuestions(Prefill(known).answers) :
              /\ open = {q \in visibleQuestions(Prefill(known).answers) :
                            Prefill(known).answers[q] = None}
              /\ open # {} /\ Prefill(known).current = First(open)
<1> DEFINE answers == [q \in Questions |->
            IF q \notin Asked THEN None
            ELSE IF q \in {"employmentGrossCents", "expensesReviewed"} THEN Ledger[q]
            ELSE IF q \notin ProfileFields THEN None
            ELSE IF q = "employmentIncome" /\ Ledger.employmentGrossCents # None THEN "yes"
            ELSE known[q]]
           open == {q \in visibleQuestions(answers) : answers[q] = None}
           imported == {q \in Documented : answers[q] # None}
           resolved == [q \in Questions |-> None]
<1>1. \A q \in Questions : answers[q] \in Choices(q) \cup {None}
  <2> SUFFICES ASSUME NEW q \in Questions
               PROVE  answers[q] \in Choices(q) \cup {None}
    OBVIOUS
  <2>1. q \in ProfileFields => known[q] \in Choices(q) \cup {None}
    BY ProfileGives
  <2>2. /\ Ledger["employmentGrossCents"] \in Amounts \cup {None}
        /\ Ledger["expensesReviewed"] \in {"yes", None}
    BY InterviewAssumption
  <2>3. Choices("employmentGrossCents") = Amounts /\ "yes" \in Choices("expensesReviewed")
        /\ "yes" \in Choices("employmentIncome")
    BY DEF Choices, Numeric
  <2> QED
    BY <2>1, <2>2, <2>3
<1>2. answers \in Answers
  <2>1. answers = [q \in Questions |-> answers[q]]
    OBVIOUS
  <2> HIDE DEF answers
  <2> QED
    BY <1>1, <2>1, IsAnswers
<1>3. "reviewConfirmed" \in open
  <2>1. answers["reviewConfirmed"] = None
    BY Places DEF ProfileFields
  <2> HIDE DEF answers
  <2>2. "reviewConfirmed" \in visibleQuestions(answers)
    BY Places DEF visibleQuestions, Visible, Earnings
  <2> QED
    BY <2>1, <2>2
<1>4. open # {} /\ open \subseteq visibleQuestions(answers)
  BY <1>3
<1>5. Prefill(known) = [answers |-> answers, imported |-> imported, resolved |-> resolved,
                        current |-> First(open), completed |-> FALSE]
  <2>1. Prefill(known) = [answers |-> answers, imported |-> imported, resolved |-> resolved,
                 current |-> IF open = {} THEN "reviewConfirmed" ELSE First(open),
                 completed |-> FALSE]
    BY DEF Prefill
  <2> HIDE DEF open, answers, imported, resolved
  <2> QED
    BY <1>4, <2>1
<1>6. First(open) \in Asked
  <2> HIDE DEF open, answers
  <2>1. open \in SUBSET Questions
    BY <1>4, VisibleAreAsked
  <2> QED
    BY <1>4, <2>1, FirstOf, VisibleAreAsked
<1>7. resolved \in [Questions -> Pairs \cup {None}]
  OBVIOUS
<1>8. imported \in SUBSET Documented
  OBVIOUS
<1>9. Prefill(known) \in Interviews
  <2> HIDE DEF open, answers, imported, resolved
  <2> QED
    BY <1>2, <1>5, <1>6, <1>7, <1>8 DEF Interviews
<1>10. /\ Prefill(known).answers = answers /\ Prefill(known).current = First(open)
       /\ Prefill(known).completed = FALSE
  <2> HIDE DEF open, answers, imported, resolved
  <2> QED
    BY <1>5
<1> QED
  <2>1. open = {q \in visibleQuestions(Prefill(known).answers) : Prefill(known).answers[q] = None}
    BY <1>10
  <2>2. open \in SUBSET visibleQuestions(Prefill(known).answers)
    BY <1>4, <1>10
  <2> HIDE DEF open, answers, imported, resolved
  <2> QED
    BY <1>4, <1>9, <1>10, <2>1, <2>2

LEMMA ProfileOfInterview ==
  ASSUME NEW a \in Answers, NEW base \in ProfileType
  PROVE  profileFromInterview(a, base) \in ProfileType
<1> DEFINE p == profileFromInterview(a, base)
<1>1. p = [q \in ProfileFields |-> IF a[q] = None THEN base[q] ELSE a[q]]
  BY DEF profileFromInterview
<1>2. \A q \in ProfileFields : p[q] \in Choices(q) \cup {None}
  BY <1>1, AnswersGive, ProfileGives, Places
<1>3. p = [q \in ProfileFields |-> p[q]]
  BY <1>1
<1> QED
  BY <1>2, <1>3, IsProfile

\* The evidence is an amount of a document or that there was an employment.
LEMMA EvidenceType ==
  ASSUME documents \in DocumentType, NEW e \in Evidence
  PROVE  /\ e = [id |-> e.id, value |-> e.value]
         /\ e.id \in Documented \cup {"employmentIncome"}
         /\ e.id = "employmentIncome" => "employmentGrossCents" \in Documented
         /\ e.id \in Questions
         /\ e.value \in Choices(e.id) /\ Choices(e.id) \subseteq Amounts \cup {"yes", "no"}
<1>1. CASE e \in {[id |-> q, value |-> documents[q]] : q \in {p \in Documented : documents[p] # None}}
  <2>1. PICK q \in Documented : documents[q] # None /\ e = [id |-> q, value |-> documents[q]]
    BY <1>1
  <2>2. documents[q] \in Amounts
    BY <2>1 DEF DocumentType
  <2>3. q # "employmentIncome"
    BY Places DEF ProfileFields
  <2> QED
    BY <2>1, <2>2, <2>3, Places
<1>2. CASE e \in {[id |-> "employmentIncome", value |-> "yes"] :
             q \in {p \in Documented : p = "employmentGrossCents" /\ documents[p] # None}}
  <2>1. e = [id |-> "employmentIncome", value |-> "yes"] /\ "employmentGrossCents" \in Documented
    BY <1>2
  <2> QED
    BY <2>1, Places
<1> QED
  BY <1>1, <1>2 DEF Evidence

LEMMA ResolutionType ==
  ASSUME documents \in DocumentType, NEW i \in Interviews, NEW e \in Conflicts(i),
         NEW v \in {e.value, i.answers[e.id]}
  PROVE  /\ applyConflictResolution(i, e, v) \in Interviews
         /\ applyConflictResolution(i, e, v).completed = i.completed
         /\ applyConflictResolution(i, e, v).current = i.current
         /\ applyConflictResolution(i, e, v).answers = [i.answers EXCEPT ![e.id] = v]
         /\ ~Undecided(applyConflictResolution(i, e, v))
         /\ e \in Evidence
<1> DEFINE other == IF v = e.value THEN i.answers[e.id] ELSE e.value
           imported == IF v = e.value THEN i.imported \cup ({e.id} \cap Documented) ELSE i.imported
           answers == [i.answers EXCEPT ![e.id] = v]
           pair == [selected |-> v, competing |-> other]
           resolved == [i.resolved EXCEPT ![e.id] = pair]
           r == applyConflictResolution(i, e, v)
<1>1. e \in Evidence /\ i.answers[e.id] \notin {None, e.value}
  BY DEF Conflicts
<1>2. /\ e.id \in Questions /\ e.value \in Choices(e.id)
      /\ Choices(e.id) \subseteq Amounts \cup {"yes", "no"}
  BY <1>1, EvidenceType
<1>3. /\ i.answers \in [Questions -> AllChoices \cup {None}]
      /\ \A q \in Questions : i.answers[q] \in Choices(q) \cup {None}
  BY InterviewParts, AnswersGive
<1>4. v \in Choices(e.id) /\ other \in Choices(e.id)
  BY <1>1, <1>2, <1>3
<1>5. pair \in Pairs
  <2> HIDE DEF other
  <2> QED
    BY <1>2, <1>4 DEF Pairs
<1>6. answers \in Answers
  <2>1. \A q \in Questions : answers[q] \in Choices(q) \cup {None}
    BY <1>2, <1>3, <1>4
  <2>2. answers = [q \in Questions |-> answers[q]]
    BY <1>3
  <2> HIDE DEF answers
  <2> QED
    BY <2>1, <2>2, IsAnswers
<1>7. resolved \in [Questions -> Pairs \cup {None}] /\ resolved[e.id] # None
  <2> HIDE DEF pair
  <2> QED
    BY <1>2, <1>5, InterviewParts, NoneAssumption
<1>8. imported \in SUBSET Documented
  BY InterviewParts
<1>9. r = [answers |-> answers, imported |-> imported, resolved |-> resolved,
           current |-> i.current, completed |-> i.completed]
  <2>1. r = [i EXCEPT !.answers[e.id] = v, !.imported = imported, !.resolved[e.id] = pair]
    BY DEF applyConflictResolution
  <2> HIDE DEF imported, pair
  <2>2. r = [i EXCEPT !.answers = answers, !.imported = imported, !.resolved = resolved]
    BY <2>1
  <2> HIDE DEF answers, resolved
  <2> QED
    BY <2>2, InterviewParts
<1> HIDE DEF answers, imported, resolved
<1>10. r \in Interviews /\ r.completed = i.completed /\ r.current = i.current
       /\ r.answers = answers /\ r.resolved = resolved
  BY <1>6, <1>7, <1>8, <1>9, InterviewParts DEF Interviews
<1>11. ~Undecided(r)
  BY <1>2, <1>7, <1>10 DEF Undecided
<1> QED
  BY <1>1, <1>10, <1>11 DEF answers

\* Documents change the answers of the amounts they prove, and say that there was
\* an employment when they prove its income.
LEMMA ReconcileType ==
  ASSUME NEW i \in Interviews, NEW old \in DocumentType, NEW new \in DocumentType
  PROVE  /\ reconcile(i, old, new) \in Interviews
         /\ reconcile(i, old, new).completed = i.completed
         /\ reconcile(i, old, new).current = i.current
         /\ reconcile(i, old, new).resolved = i.resolved
         /\ \A q \in Questions \ Documented :
              \/ reconcile(i, old, new).answers[q] = i.answers[q]
              \/ /\ q = "employmentIncome" /\ i.answers[q] = None
                 /\ reconcile(i, old, new).answers[q] = "yes"
                 /\ "employmentGrossCents" \in Documented
<1> DEFINE follows == {q \in Documented :
                         old[q] # None /\ q \in i.imported /\ i.answers[q] = old[q]}
           goes == {q \in follows : new[q] = None}
           taken == {q \in Documented :
                       new[q] # None /\ (i.answers[q] = None \/ q \in follows)}
           income == "employmentGrossCents" \in Documented
                        /\ new["employmentGrossCents"] # None
           answers == [q \in Questions |->
                         IF q \in goes THEN None
                         ELSE IF q \in taken THEN new[q]
                         ELSE IF q = "employmentIncome" /\ i.answers[q] = None /\ income THEN "yes"
                         ELSE i.answers[q]]
           imported == (i.imported \ goes) \cup taken
           r == reconcile(i, old, new)
<1>1. r = [i EXCEPT !.answers = answers, !.imported = imported]
  BY DEF reconcile
<1>2. goes \subseteq Documented /\ taken \subseteq Documented
  OBVIOUS
<1>3. \A q \in taken : new[q] \in Amounts /\ new[q] # None
  BY DEF DocumentType
<1>4. \A q \in Questions : i.answers[q] \in Choices(q) \cup {None}
  BY InterviewParts, AnswersGive
<1>5. \A q \in Questions : answers[q] \in Choices(q) \cup {None}
  <2> HIDE DEF goes, taken, income
  <2> QED
    BY <1>2, <1>3, <1>4, Places
<1>6. answers \in Answers
  <2>1. answers = [q \in Questions |-> answers[q]]
    OBVIOUS
  <2> HIDE DEF answers
  <2> QED
    BY <1>5, <2>1, IsAnswers
<1>7. imported \in SUBSET Documented
  BY InterviewParts
<1>8. ASSUME NEW q \in Questions \ Documented
      PROVE  \/ answers[q] = i.answers[q]
             \/ /\ q = "employmentIncome" /\ i.answers[q] = None
                /\ answers[q] = "yes"
                /\ "employmentGrossCents" \in Documented
  <2> HIDE DEF goes, taken
  <2> QED
    BY <1>2
<1> HIDE DEF answers, imported
<1>9. r = [answers |-> answers, imported |-> imported, resolved |-> i.resolved,
           current |-> i.current, completed |-> i.completed]
  BY <1>1, InterviewParts
<1>10. r \in Interviews /\ r.completed = i.completed /\ r.current = i.current
       /\ r.answers = answers /\ r.resolved = i.resolved
  BY <1>6, <1>7, <1>9, InterviewParts DEF Interviews
<1> QED
  BY <1>8, <1>10

Simulations == [SimulationFacts -> AllChoices \cup {None}]

LEMMA SimulationType ==
  ASSUME NEW a \in Answers
  PROVE  \/ simulationFromInterview(a) = None
         \/ simulationFromInterview(a) \in Simulations
            /\ \A q \in SimulationFacts : simulationFromInterview(a)[q] = a[q]
<1>1. SimulationFacts \subseteq Questions
  BY QuestionNames DEF SimulationFacts
<1>2. [q \in SimulationFacts |-> a[q]] \in Simulations
  BY <1>1, AnswersGive DEF Simulations
<1> QED
  BY <1>2 DEF simulationFromInterview
-----------------------------------------------------------------------------
(* The calls in flight.                                                    *)

Awaited == {"product", "interview", "simulation"}

Calls == [what : {"load", "unmounted"}, of : {None}]
         \cup [what : {"product"}, of : ProfileType]
         \cup [what : {"shown", "interview"}, of : Interviews]
         \cup [what : {"simulation"}, of : Simulations]

\* What a call that a task waits for carries.
Carries(c, t) ==
    /\ c.what = "interview" => c.of = t.interview
    /\ c.what = "simulation" =>
        /\ c.of = simulationFromInterview(t.interview.answers) /\ c.of # None
        /\ t.interview.completed /\ canEstimate(t.interview.answers)

(***************************************************************************)
(* A task waits for exactly one of the calls in flight, and at most one of *)
(* them loads.                                                             *)
(***************************************************************************)
Waiting(cs, t) ==
    /\ cs \in Seq(Calls)
    /\ \A i \in DOMAIN cs : Carries(cs[i], t)
    /\ t = None => \A i \in DOMAIN cs : cs[i].what \notin Awaited
    /\ t # None =>
        /\ \E i \in DOMAIN cs : cs[i].what \in Awaited
        /\ \A i, j \in DOMAIN cs : cs[i].what \in Awaited /\ cs[j].what \in Awaited => i = j
    /\ \A i, j \in DOMAIN cs : cs[i].what = "load" /\ cs[j].what = "load" => i = j

LEMMA Appended ==
  ASSUME NEW S, NEW cs \in Seq(S), NEW c \in S
  PROVE  /\ Append(cs, c) \in Seq(S) /\ Len(Append(cs, c)) = Len(cs) + 1 /\ Len(cs) \in Nat
         /\ DOMAIN cs = 1 .. Len(cs) /\ DOMAIN Append(cs, c) = 1 .. Len(cs) + 1
         /\ \A i \in DOMAIN cs : Append(cs, c)[i] = cs[i]
         /\ Append(cs, c)[Len(cs) + 1] = c
OBVIOUS

LEMMA Taken ==
  ASSUME NEW S, NEW cs \in Seq(S), cs # << >>
  PROVE  /\ Tail(cs) \in Seq(S) /\ Len(Tail(cs)) = Len(cs) - 1 /\ Len(cs) \in Nat \ {0}
         /\ DOMAIN cs = 1 .. Len(cs) /\ DOMAIN Tail(cs) = 1 .. Len(cs) - 1
         /\ 1 \in DOMAIN cs /\ Head(cs) = cs[1] /\ Head(cs) \in S
         /\ \A i \in DOMAIN Tail(cs) : i + 1 \in DOMAIN cs /\ Tail(cs)[i] = cs[i + 1]
OBVIOUS

\* A call that nobody waits for is asked for.
LEMMA AskPlain ==
  ASSUME NEW cs, NEW t, Waiting(cs, t), NEW c \in Calls, c.what \notin Awaited,
         c.what = "load" => \A i \in DOMAIN cs : cs[i].what # "load"
  PROVE  Waiting(Append(cs, c), t)
<1> DEFINE new == Append(cs, c)
<1>1. /\ new \in Seq(Calls) /\ DOMAIN new = 1 .. Len(cs) + 1 /\ DOMAIN cs = 1 .. Len(cs)
      /\ Len(cs) \in Nat
      /\ \A i \in DOMAIN cs : new[i] = cs[i]
      /\ new[Len(cs) + 1] = c
  BY Appended DEF Waiting
<1>2. \A i \in DOMAIN new : (i \in DOMAIN cs /\ new[i] = cs[i]) \/ (i = Len(cs) + 1 /\ new[i] = c)
  BY <1>1
<1>3. Carries(c, t)
  BY DEF Carries, Awaited
<1>4. DOMAIN cs \subseteq DOMAIN new
  BY <1>1
<1> HIDE DEF new
<1> QED
  BY <1>1, <1>2, <1>3, <1>4 DEF Waiting

\* A call that nobody waits for takes effect.
LEMMA TakePlain ==
  ASSUME NEW cs, NEW t, Waiting(cs, t), cs # << >>, Head(cs).what \notin Awaited
  PROVE  Waiting(Tail(cs), t)
<1> DEFINE new == Tail(cs)
<1>1. /\ new \in Seq(Calls) /\ DOMAIN new = 1 .. Len(cs) - 1 /\ DOMAIN cs = 1 .. Len(cs)
      /\ Len(cs) \in Nat /\ Head(cs) = cs[1]
      /\ \A i \in DOMAIN new : i + 1 \in DOMAIN cs /\ new[i] = cs[i + 1]
  BY Taken DEF Waiting
<1>2. ASSUME NEW i \in DOMAIN cs, cs[i].what \in Awaited
      PROVE  i - 1 \in DOMAIN new /\ new[i - 1] = cs[i]
  <2>1. i # 1
    BY <1>1, <1>2
  <2> QED
    BY <1>1, <2>1
<1>3. t # None => \E i \in DOMAIN new : new[i].what \in Awaited
  BY <1>2 DEF Waiting
<1>4. ASSUME NEW i \in DOMAIN new, NEW j \in DOMAIN new
      PROVE  /\ i \in Int /\ j \in Int
             /\ i + 1 = j + 1 => i = j
             /\ t # None /\ new[i].what \in Awaited /\ new[j].what \in Awaited => i + 1 = j + 1
             /\ new[i].what = "load" /\ new[j].what = "load" => i + 1 = j + 1
  BY <1>1 DEF Waiting
<1> HIDE DEF new
<1> QED
  BY <1>1, <1>3, <1>4 DEF Waiting

LEMMA Begins ==
  ASSUME NEW cs, Waiting(cs, None), NEW t \in Tasks, NEW p \in ProfileType
  PROVE  Waiting(Append(cs, Save("product", p)), t)
<1> DEFINE c == Save("product", p)
           new == Append(cs, c)
<1>0. c \in Calls /\ c.what = "product"
  BY DEF Calls, Save
<1>1. /\ new \in Seq(Calls) /\ DOMAIN new = 1 .. Len(cs) + 1 /\ DOMAIN cs = 1 .. Len(cs)
      /\ Len(cs) \in Nat
      /\ \A i \in DOMAIN cs : new[i] = cs[i]
      /\ new[Len(cs) + 1] = c
  <2> HIDE DEF c
  <2> QED
    BY <1>0, Appended DEF Waiting
<1>2. \A i \in DOMAIN new : (i \in DOMAIN cs /\ new[i] = cs[i]) \/ (i = Len(cs) + 1 /\ new[i] = c)
  BY <1>1
<1>3. \A i \in DOMAIN cs : cs[i].what \notin Awaited
  BY DEF Waiting
<1>4. Len(cs) + 1 \in DOMAIN new
  BY <1>1
<1>5. t # None
  BY NoneAssumption
<1> HIDE DEF new, c
<1>6. \A i \in DOMAIN new : Carries(new[i], t)
  BY <1>0, <1>2, <1>3 DEF Carries, Awaited
<1>7. \A i \in DOMAIN new : new[i].what \in Awaited => i = Len(cs) + 1
  BY <1>2, <1>3
<1>8. \A i, j \in DOMAIN new : new[i].what = "load" /\ new[j].what = "load" => i = j
  BY <1>0, <1>2 DEF Waiting
<1>9. new[Len(cs) + 1].what \in Awaited
  BY <1>0, <1>1 DEF Awaited
<1> QED
  BY <1>1, <1>4, <1>5, <1>6, <1>7, <1>8, <1>9 DEF Waiting, c, new

\* The next call of a task is asked for when the one before took effect.
LEMMA Proceeds ==
  ASSUME NEW cs, NEW t \in Tasks, Waiting(cs, t), cs # << >>, Head(cs).what \in Awaited,
         NEW c \in Calls, c.what \in Awaited, Carries(c, t)
  PROVE  Waiting(Append(Tail(cs), c), t)
<1> DEFINE rest == Tail(cs)
           new == Append(rest, c)
<1>1. /\ rest \in Seq(Calls) /\ DOMAIN rest = 1 .. Len(cs) - 1 /\ DOMAIN cs = 1 .. Len(cs)
      /\ Len(cs) \in Nat \ {0} /\ Head(cs) = cs[1] /\ Len(rest) = Len(cs) - 1
      /\ \A i \in DOMAIN rest : i + 1 \in DOMAIN cs /\ rest[i] = cs[i + 1]
  BY Taken DEF Waiting
<1>2. t # None
  BY NoneAssumption
<1>3. ASSUME NEW i \in DOMAIN rest
      PROVE  rest[i].what \notin Awaited
  <2>1. i + 1 # 1 /\ 1 \in DOMAIN cs
    BY <1>1
  <2> QED
    BY <1>1, <1>2, <2>1 DEF Waiting
<1> HIDE DEF rest
<1>4. /\ new \in Seq(Calls) /\ DOMAIN new = 1 .. Len(cs) /\ Len(cs) \in DOMAIN new
      /\ \A i \in DOMAIN rest : new[i] = rest[i]
      /\ new[Len(cs)] = c
  <2>1. /\ new \in Seq(Calls) /\ DOMAIN new = 1 .. Len(rest) + 1
        /\ \A i \in DOMAIN rest : new[i] = rest[i]
        /\ new[Len(rest) + 1] = c
    <3>1. rest \in Seq(Calls)
      BY <1>1
    <3> QED
      BY <3>1, Appended
  <2>2. Len(rest) + 1 = Len(cs) /\ Len(cs) \in 1 .. Len(cs)
    BY <1>1
  <2> HIDE DEF new
  <2> QED
    BY <2>1, <2>2
<1>5. \A i \in DOMAIN new : (i \in DOMAIN rest /\ new[i] = rest[i]) \/ (i = Len(cs) /\ new[i] = c)
  <2> HIDE DEF new
  <2>1. ASSUME NEW i \in DOMAIN new
        PROVE  i \in DOMAIN rest \/ i = Len(cs)
    BY <1>1, <1>4
  <2> QED
    BY <1>4, <2>1
<1>6. ASSUME NEW i \in DOMAIN rest, NEW j \in DOMAIN rest,
             rest[i].what = "load", rest[j].what = "load"
      PROVE  i = j
  <2>1. i + 1 = j + 1
    BY <1>1, <1>6 DEF Waiting
  <2> QED
    BY <1>1, <2>1
<1>7. c.what # "load"
  BY DEF Awaited
<1>8. \A i \in DOMAIN rest : Carries(rest[i], t)
  BY <1>1 DEF Waiting
<1> HIDE DEF new
<1> QED
  BY <1>2, <1>3, <1>4, <1>5, <1>6, <1>7, <1>8 DEF Waiting, new, rest

LEMMA Ends ==
  ASSUME NEW cs, NEW t \in Tasks, Waiting(cs, t), cs # << >>, Head(cs).what \in Awaited
  PROVE  Waiting(Tail(cs), None)
<1> DEFINE new == Tail(cs)
<1>1. /\ new \in Seq(Calls) /\ DOMAIN new = 1 .. Len(cs) - 1 /\ DOMAIN cs = 1 .. Len(cs)
      /\ Len(cs) \in Nat \ {0} /\ Head(cs) = cs[1]
      /\ \A i \in DOMAIN new : i + 1 \in DOMAIN cs /\ new[i] = cs[i + 1]
  BY Taken DEF Waiting
<1>2. t # None
  BY NoneAssumption
<1>3. ASSUME NEW i \in DOMAIN new
      PROVE  new[i].what \notin Awaited
  <2>1. i + 1 # 1 /\ 1 \in DOMAIN cs
    BY <1>1
  <2> QED
    BY <1>1, <1>2, <2>1 DEF Waiting
<1>4. ASSUME NEW i \in DOMAIN new, NEW j \in DOMAIN new,
             new[i].what = "load", new[j].what = "load"
      PROVE  i = j
  <2>1. i + 1 = j + 1
    BY <1>1, <1>4 DEF Waiting
  <2> QED
    BY <1>1, <2>1
<1> HIDE DEF new
<1>5. \A i \in DOMAIN new : Carries(new[i], None)
  BY <1>3 DEF Carries, Awaited
<1> QED
  BY <1>1, <1>3, <1>4, <1>5 DEF Waiting, new

\* What a call carries does not depend on whether the widget is mounted.
LEMMA Unmounts ==
  ASSUME NEW cs, NEW t \in Tasks, Waiting(cs, t)
  PROVE  /\ [t EXCEPT !.mounted = FALSE] \in Tasks
         /\ Waiting(cs, [t EXCEPT !.mounted = FALSE])
<1> DEFINE u == [t EXCEPT !.mounted = FALSE]
<1>1. u \in Tasks /\ u.interview = t.interview
  BY DEF Tasks
<1>2. t # None /\ u # None
  BY <1>1, NoneAssumption
<1> HIDE DEF u
<1>3. \A i \in DOMAIN cs : Carries(cs[i], u)
  BY <1>1 DEF Waiting, Carries
<1> QED
  BY <1>1, <1>2, <1>3 DEF Waiting, u

LEMMA Abandons ==
  ASSUME Waiting(calls, task)
  PROVE  /\ Waiting(Abandoned, task)
         /\ \A i \in DOMAIN Abandoned : Abandoned[i].what # "load"
         /\ Len(Abandoned) = Len(calls) /\ DOMAIN Abandoned = DOMAIN calls
         /\ \A i \in DOMAIN calls :
              Abandoned[i] = calls[i] \/ Abandoned[i] = Save("unmounted", None)
<1> DEFINE u == Save("unmounted", None)
<1>1. u \in Calls /\ u.what = "unmounted"
  BY DEF Save, Calls
<1>2. /\ DOMAIN calls = 1 .. Len(calls) /\ Len(calls) \in Nat
      /\ \A i \in DOMAIN calls : calls[i] \in Calls
  BY DEF Waiting
<1>3. /\ DOMAIN Abandoned = DOMAIN calls
      /\ \A i \in DOMAIN calls :
           Abandoned[i] = IF calls[i].what = "load" THEN u ELSE calls[i]
  BY DEF Abandoned
<1> HIDE DEF u
<1>4. \A i \in DOMAIN calls : Abandoned[i] \in Calls
  BY <1>1, <1>2, <1>3
<1>5. Abandoned \in Seq(Calls) /\ Len(Abandoned) = Len(calls)
  <2>1. Abandoned = [i \in 1 .. Len(calls) |-> Abandoned[i]]
    BY <1>2, <1>3 DEF Abandoned
  <2>2. \A i \in 1 .. Len(calls) : Abandoned[i] \in Calls
    BY <1>2, <1>4
  <2> HIDE DEF Abandoned
  <2> QED
    BY <1>2, <2>1, <2>2
<1>6. \A i \in DOMAIN calls : /\ Abandoned[i].what # "load"
                              /\ Abandoned[i].what \in Awaited <=> calls[i].what \in Awaited
                              /\ Abandoned[i] # calls[i] => Abandoned[i] = u
  BY <1>1, <1>3 DEF Awaited
<1>7. \A i \in DOMAIN calls : Carries(Abandoned[i], task)
  BY <1>1, <1>6 DEF Waiting, Carries
<1>8. Waiting(Abandoned, task)
  BY <1>3, <1>5, <1>6, <1>7 DEF Waiting
<1> QED
  BY <1>3, <1>5, <1>6, <1>8 DEF u
-----------------------------------------------------------------------------
(***************************************************************************)
(* The inductive invariant.  TypeOK alone is not inductive: that a handler *)
(* may show its interview depends on the screen it runs on (Owner), that a *)
(* load finds its screen on there being one (Loading), and what a call     *)
(* carries on the task that waits for it (Waiting).                        *)
(***************************************************************************)
Scalars ==
    /\ screen \in {"home", "loading", "failed", "asking", "review", "documents"}
    /\ shown \in Interviews \cup {None}
    /\ screen \in {"asking", "review", "documents"} => shown # None
    /\ override \in Interviews \cup {None}
    /\ override # None => screen \in {"review", "documents"}
    /\ stored \in Interviews \cup {None}
    /\ profile \in ProfileType
    /\ simulation \in Simulations \cup {None}
    /\ documents \in DocumentType
    /\ before \in DocumentType \cup {None}
    /\ before # None <=> screen = "documents"
    /\ task \in Tasks \cup {None}

\* A handler whose widget is mounted runs on a screen that widget is part of.
Owner ==
    task # None /\ task.mounted =>
        /\ task.by = "continue" => screen = "asking"
        /\ task.by = "resolve" => screen \in {"review", "documents"}
        /\ task.by = "documents" => screen \in {"asking", "review", "documents"}

Bound ==
    /\ Len(calls) <= MaxCalls
    /\ screen = "documents" => Len(calls) < MaxCalls

\* A load that is still waited for finds the screen that asked.
Loading == \A i \in DOMAIN calls : calls[i].what = "load" => screen = "loading"

IInv == Scalars /\ Owner /\ Bound /\ Loading /\ Waiting(calls, task)

LEMMA InitIInv ==
  ASSUME Init
  PROVE  IInv
<1>1. calls = << >> /\ calls \in Seq(Calls) /\ DOMAIN calls = {} /\ Len(calls) = 0
  BY DEF Init
<1>2. documents \in DocumentType
  BY DEF Init, DocumentType
<1>3. Scalars /\ Owner
  BY <1>2, InterviewAssumption, NoneAssumption DEF Init, Scalars, Owner
<1>4. Bound
  BY <1>1, InterviewAssumption DEF Bound
<1>5. Loading
  BY <1>1 DEF Loading
<1>6. Waiting(calls, task)
  BY <1>1 DEF Waiting, Init
<1> QED
  BY <1>3, <1>4, <1>5, <1>6 DEF IInv

LEMMA IInvIsTyped ==
  ASSUME IInv
  PROVE  TypeOK
<1>1. simulation = None \/ DOMAIN simulation = SimulationFacts
  BY DEF IInv, Scalars, Simulations
<1>2. DOMAIN calls = 1 .. Len(calls) /\ \A i \in DOMAIN calls : calls[i] \in Calls
  BY DEF IInv, Waiting
<1>3. ASSUME NEW i \in 1 .. Len(calls)
      PROVE  \/ calls[i].what \in {"load", "unmounted"} /\ calls[i].of = None
             \/ calls[i].what = "product" /\ calls[i].of \in ProfileType
             \/ /\ calls[i].what = "simulation"
                /\ calls[i].of = simulationFromInterview(task.interview.answers)
             \/ calls[i].what \in {"shown", "interview"} /\ calls[i].of \in Interviews
  <2>1. calls[i] \in Calls /\ Carries(calls[i], task)
    BY <1>2 DEF IInv, Waiting
  <2> QED
    BY <2>1 DEF Calls, Carries
<1> DEFINE awaited == {i \in 1 .. Len(calls) : calls[i].what \in Awaited}
<1>4. task = None => awaited = {}
  BY <1>2 DEF IInv, Waiting
<1>5. task # None => \E i \in awaited : awaited = {i}
  <2> SUFFICES ASSUME task # None
               PROVE  \E i \in awaited : awaited = {i}
    OBVIOUS
  <2>1. PICK i \in DOMAIN calls : calls[i].what \in Awaited
    BY DEF IInv, Waiting
  <2>2. \A j \in awaited : j = i
    BY <1>2, <2>1 DEF IInv, Waiting
  <2> QED
    BY <1>2, <2>1, <2>2
<1>6. CallType
  BY <1>3, <1>4, <1>5 DEF CallType, Awaited, IInv, Bound
<1> QED
  BY <1>1, <1>6 DEF TypeOK, IInv, Scalars
-----------------------------------------------------------------------------
(* The calls that take effect.                                             *)

LEMMA Delivered ==
  ASSUME IInv, calls # << >>
  PROVE  /\ Head(calls) \in Calls /\ Carries(Head(calls), task)
         /\ Len(Tail(calls)) < MaxCalls
         /\ \A c \in Calls : Len(Append(Tail(calls), c)) = Len(calls)
         /\ \A i \in DOMAIN Tail(calls) :
              Tail(calls)[i].what = "load" => screen = "loading" /\ Head(calls).what # "load"
         /\ Head(calls).what = "load" => screen = "loading"
         /\ Head(calls).what \in Awaited => task \in Tasks
<1> DEFINE rest == Tail(calls)
<1>1. /\ rest \in Seq(Calls) /\ DOMAIN rest = 1 .. Len(calls) - 1
      /\ Len(rest) = Len(calls) - 1 /\ Len(calls) \in Nat \ {0}
      /\ DOMAIN calls = 1 .. Len(calls)
      /\ 1 \in DOMAIN calls /\ Head(calls) = calls[1] /\ Head(calls) \in Calls
      /\ \A i \in DOMAIN rest : i + 1 \in DOMAIN calls /\ rest[i] = calls[i + 1]
  BY Taken DEF IInv, Waiting
<1> HIDE DEF rest
<1>2. Carries(Head(calls), task)
  BY <1>1 DEF IInv, Waiting
<1>3. Len(rest) < MaxCalls
  BY <1>1, InterviewAssumption DEF IInv, Bound
<1>4. ASSUME NEW c \in Calls
      PROVE  Len(Append(rest, c)) = Len(calls)
  <2>1. rest \in Seq(Calls)
    BY <1>1
  <2>2. Len(Append(rest, c)) = Len(rest) + 1
    BY <2>1
  <2> HIDE DEF Calls
  <2> QED
    BY <1>1, <2>2
<1>5. ASSUME NEW i \in DOMAIN rest, rest[i].what = "load"
      PROVE  screen = "loading" /\ Head(calls).what # "load"
  <2>1. i + 1 # 1 /\ i + 1 \in DOMAIN calls /\ calls[i + 1].what = "load"
    BY <1>1, <1>5
  <2> QED
    BY <1>1, <2>1 DEF IInv, Loading, Waiting
<1>6. Head(calls).what = "load" => screen = "loading"
  BY <1>1 DEF IInv, Loading
<1>7. Head(calls).what \in Awaited => task \in Tasks
  BY <1>1 DEF IInv, Waiting, Scalars
<1> QED
  BY <1>1, <1>2, <1>3, <1>4, <1>5, <1>6, <1>7 DEF rest

\* The calls that no handler waits for.
LEMMA PlainTaken ==
  ASSUME IInv, Loaded \/ LoadFails \/ LoadedUnmounted \/ Persisted
  PROVE  IInv'
<1>1. calls # << >> /\ calls' = Tail(calls) /\ task' = task /\ Head(calls).what \notin Awaited
  BY DEF Loaded, LoadFails, LoadedUnmounted, Persisted, Take, Awaited, files
<1>2. Waiting(calls', task')
  BY <1>1, TakePlain DEF IInv
<1>3. /\ Head(calls) \in Calls /\ Len(calls') < MaxCalls
      /\ \A i \in DOMAIN calls' :
           calls'[i].what = "load" => screen = "loading" /\ Head(calls).what # "load"
      /\ Head(calls).what = "load" => screen = "loading"
  BY <1>1, Delivered
<1>4. Bound'
  <2>1. Len(Tail(calls)) \in Nat
    <3>1. Tail(calls) \in Seq(Calls)
      BY <1>1, Taken DEF IInv, Waiting
    <3> QED
      BY <3>1
  <2> QED
    BY <1>1, <1>3, <2>1, InterviewAssumption DEF Bound
<1>5. (Loaded \/ LoadFails) => Scalars' /\ Owner' /\ Loading'
  <2> SUFFICES ASSUME Loaded \/ LoadFails
               PROVE  Scalars' /\ Owner' /\ Loading'
    OBVIOUS
  <2>1. /\ Head(calls).what = "load" /\ screen = "loading"
        /\ override' = override /\ before' = before
        /\ stored' = stored /\ profile' = profile /\ simulation' = simulation
        /\ documents' = documents
    BY <1>3 DEF Loaded, LoadFails, Take, files
  <2>2. /\ shown' \in Interviews \cup {None}
        /\ screen' \in {"failed", "asking", "review"}
        /\ screen' \in {"asking", "review", "documents"} => shown' # None
    <3>1. Prefill(profile) \in Interviews /\ (stored # None => stored \in Interviews)
      BY PrefillType DEF IInv, Scalars
    <3>2. shown \in Interviews \cup {None}
      BY DEF IInv, Scalars
    <3>3. Loaded => shown' \in Interviews /\ screen' \in {"asking", "review"}
      BY <3>1 DEF Loaded
    <3>4. LoadFails => shown' = shown /\ screen' = "failed"
      BY DEF LoadFails
    <3> QED
      BY <3>2, <3>3, <3>4, NoneAssumption
  <2>3. Scalars'
    BY <1>1, <2>1, <2>2 DEF IInv, Scalars
  <2>4. Owner'
    BY <1>1, <2>1 DEF IInv, Owner, Scalars, Tasks
  <2>5. Loading'
    BY <1>3, <2>1 DEF Loading
  <2> QED
    BY <2>3, <2>4, <2>5
<1>6. (LoadedUnmounted \/ Persisted) => Scalars' /\ Owner' /\ Loading'
  <2> SUFFICES ASSUME LoadedUnmounted \/ Persisted
               PROVE  Scalars' /\ Owner' /\ Loading'
    OBVIOUS
  <2>1. /\ UNCHANGED <<screen, shown, override, before, profile, simulation, documents>>
        /\ stored' = stored \/ (Head(calls).what = "shown" /\ stored' = Head(calls).of)
    BY DEF LoadedUnmounted, Persisted, Take, ui, files
  <2>2. stored' \in Interviews \cup {None}
    BY <1>3, <2>1 DEF IInv, Scalars, Calls
  <2>3. Scalars' /\ Owner'
    BY <1>1, <2>1, <2>2 DEF IInv, Scalars, Owner
  <2>4. Loading'
    BY <1>3, <2>1 DEF Loading
  <2> QED
    BY <2>3, <2>4
<1> QED
  BY <1>2, <1>4, <1>5, <1>6 DEF IInv

\* What the last setState of a handler leaves.
LEMMA Shows ==
  ASSUME IInv, task \in Tasks, Show, UNCHANGED before
  PROVE  /\ task' = None
         /\ screen' \in {"home", "loading", "failed", "asking", "review", "documents"}
         /\ shown' \in Interviews \cup {None}
         /\ screen' \in {"asking", "review", "documents"} => shown' # None
         /\ override' \in Interviews \cup {None}
         /\ override' # None => screen' \in {"review", "documents"}
         /\ before' # None <=> screen' = "documents"
         /\ screen' = screen \/ (screen = "asking" /\ screen' = "review")
<1>1. /\ task # None /\ task.by \in {"continue", "resolve", "documents"}
      /\ task.interview \in Interviews /\ task.interview # None /\ task.mounted \in BOOLEAN
  BY NoneAssumption DEF Tasks
<1>2. /\ task' = None
      /\ \/ /\ task.mounted /\ task.by = "continue" /\ shown' = task.interview
            /\ screen' = "review" /\ override' = override
         \/ /\ task.mounted /\ task.by = "documents" /\ shown' = task.interview
            /\ screen' = screen /\ override' = override
         \/ /\ task.mounted /\ task.by = "resolve" /\ override' = task.interview
            /\ screen' = screen /\ shown' = shown
         \/ screen' = screen /\ shown' = shown /\ override' = override
  BY DEF Show
<1>3. /\ screen \in {"home", "loading", "failed", "asking", "review", "documents"}
      /\ shown \in Interviews \cup {None} /\ override \in Interviews \cup {None}
      /\ screen \in {"asking", "review", "documents"} => shown # None
      /\ override # None => screen \in {"review", "documents"}
      /\ before' # None <=> screen = "documents"
      /\ task.mounted /\ task.by = "continue" => screen = "asking"
      /\ task.mounted /\ task.by = "resolve" => screen \in {"review", "documents"}
  BY <1>1 DEF IInv, Scalars, Owner
<1> QED
  BY <1>1, <1>2, <1>3

\* The calls that a handler waits for.
LEMMA AwaitedTaken ==
  ASSUME IInv, ProductSaved \/ InterviewSaved \/ SimulationSaved
  PROVE  IInv'
<1>1. /\ calls # << >> /\ Head(calls).what \in Awaited /\ documents' = documents
      /\ before' = before
  BY DEF ProductSaved, InterviewSaved, SimulationSaved, Take, Awaited, ui
<1>2. /\ Head(calls) \in Calls /\ Carries(Head(calls), task) /\ task \in Tasks
      /\ Len(Tail(calls)) < MaxCalls
      /\ \A c \in Calls : Len(Append(Tail(calls), c)) = Len(calls)
      /\ \A i \in DOMAIN Tail(calls) : Tail(calls)[i].what = "load" => screen = "loading"
  BY <1>1, Delivered
<1>3. /\ stored' \in Interviews \cup {None} /\ profile' \in ProfileType
      /\ simulation' \in Simulations \cup {None}
  <2>1. /\ stored' = stored \/ (Head(calls).what = "interview" /\ stored' = Head(calls).of)
        /\ profile' = profile \/ (Head(calls).what = "product" /\ profile' = Head(calls).of)
        /\ \/ simulation' = simulation
           \/ Head(calls).what = "simulation" /\ simulation' = Head(calls).of
    BY DEF ProductSaved, InterviewSaved, SimulationSaved, Take
  <2> QED
    BY <1>2, <2>1 DEF Calls, IInv, Scalars
<1>4. ASSUME NEW c \in Calls, c.what \in Awaited, Carries(c, task),
             calls' = Append(Tail(calls), c),
             UNCHANGED <<screen, shown, override, task>>
      PROVE  IInv'
  <2>1. Waiting(calls', task')
    BY <1>1, <1>2, <1>4, Proceeds DEF IInv
  <2>2. Bound'
    <3>1. Len(calls') = Len(calls)
      BY <1>2, <1>4
    <3> QED
      BY <1>4, <3>1 DEF IInv, Bound
  <2>3. Loading'
    <3>1. Tail(calls) \in Seq(Calls)
      BY <1>1, Taken DEF IInv, Waiting
    <3>2. /\ DOMAIN Tail(calls) = 1 .. Len(Tail(calls)) /\ Len(Tail(calls)) \in Nat
          /\ DOMAIN calls' = 1 .. Len(Tail(calls)) + 1
          /\ \A i \in DOMAIN Tail(calls) : calls'[i] = Tail(calls)[i]
          /\ calls'[Len(Tail(calls)) + 1] = c
      BY <1>4, <3>1, Appended
    <3>3. c.what # "load"
      BY <1>4 DEF Awaited
    <3>4. ASSUME NEW i \in DOMAIN calls'
          PROVE  i \in DOMAIN Tail(calls) \/ calls'[i] = c
      BY <3>2
    <3> QED
      BY <1>2, <1>4, <3>2, <3>3, <3>4 DEF Loading
  <2>4. Scalars' /\ Owner'
    BY <1>1, <1>3, <1>4 DEF IInv, Scalars, Owner
  <2> QED
    BY <2>1, <2>2, <2>3, <2>4 DEF IInv
<1>5. ASSUME calls' = Tail(calls), Show
      PROVE  IInv'
  <2>1. /\ task' = None
        /\ screen' \in {"home", "loading", "failed", "asking", "review", "documents"}
        /\ shown' \in Interviews \cup {None}
        /\ screen' \in {"asking", "review", "documents"} => shown' # None
        /\ override' \in Interviews \cup {None}
        /\ override' # None => screen' \in {"review", "documents"}
        /\ before' # None <=> screen' = "documents"
        /\ screen' = screen \/ (screen = "asking" /\ screen' = "review")
    BY <1>1, <1>2, <1>5, Shows
  <2>2. Waiting(calls', task')
    BY <1>1, <1>2, <1>5, <2>1, Ends DEF IInv
  <2>3. Scalars'
    BY <1>1, <1>3, <2>1 DEF IInv, Scalars
  <2>6. Owner'
    BY <2>1 DEF Owner
  <2>4. Bound'
    <3>1. Len(Tail(calls)) \in Nat
      <4>1. Tail(calls) \in Seq(Calls)
        BY <1>1, Taken DEF IInv, Waiting
      <4> QED
        BY <4>1
    <3> QED
      BY <1>2, <1>5, <3>1, InterviewAssumption DEF Bound
  <2>5. Loading'
    BY <1>2, <1>5, <2>1 DEF Loading
  <2> QED
    BY <2>2, <2>3, <2>4, <2>5, <2>6 DEF IInv
<1>6. ProductSaved => IInv'
  <2> SUFFICES ASSUME ProductSaved
               PROVE  IInv'
    OBVIOUS
  <2> DEFINE c == Save("interview", task.interview)
  <2>1. c \in Calls /\ c.what \in Awaited /\ Carries(c, task)
    BY <1>2 DEF Save, Calls, Awaited, Carries, Tasks
  <2>2. \/ calls' = Append(Tail(calls), c) /\ UNCHANGED <<screen, shown, override, task>>
        \/ calls' = Tail(calls) /\ Show
    BY DEF ProductSaved, Show, ui
  <2> HIDE DEF c
  <2> QED
    BY <1>4, <1>5, <2>1, <2>2
<1>7. InterviewSaved => IInv'
  <2> SUFFICES ASSUME InterviewSaved
               PROVE  IInv'
    OBVIOUS
  <2> DEFINE c == Save("simulation", simulationFromInterview(task.interview.answers))
  <2>1. Estimates => c \in Calls /\ c.what \in Awaited /\ Carries(c, task)
    <3>1. task.interview.answers \in Answers
      BY <1>2, InterviewParts DEF Tasks
    <3> QED
      BY <3>1, SimulationType DEF Estimates, Save, Calls, Awaited, Carries
  <2>2. \/ /\ Estimates
           /\ calls' = Append(Tail(calls), c) /\ UNCHANGED <<screen, shown, override, task>>
        \/ calls' = Tail(calls) /\ Show
    BY DEF InterviewSaved
  <2> HIDE DEF c
  <2> QED
    BY <1>4, <1>5, <2>1, <2>2
<1>8. SimulationSaved => IInv'
  BY <1>5 DEF SimulationSaved
<1> QED
  BY <1>6, <1>7, <1>8
-----------------------------------------------------------------------------
(* What the user does.                                                     *)

\* The question on the screen is one of those that are asked.
LEMMA QuestionIsVisible ==
  ASSUME NEW i \in Interviews
  PROVE  /\ "reviewConfirmed" \in visibleQuestions(i.answers)
         /\ First(visibleQuestions(i.answers)) \in visibleQuestions(i.answers)
         /\ i = shown => Question \in visibleQuestions(i.answers)
<1>1. "reviewConfirmed" \in visibleQuestions(i.answers)
  BY Places DEF visibleQuestions, Visible, Earnings
<1>2. First(visibleQuestions(i.answers)) \in visibleQuestions(i.answers)
  BY <1>1, VisibleAreAsked, FirstOf
<1> QED
  BY <1>1, <1>2 DEF Question

\* A handler that asks for a call of its own.
LEMMA Asks ==
  ASSUME IInv, Len(calls) < MaxCalls, NEW c \in Calls, Ask(c)
  PROVE  /\ Len(calls') <= MaxCalls
         /\ \A i \in DOMAIN calls' : calls'[i] = c \/ (i \in DOMAIN calls /\ calls'[i] = calls[i])
<1>1. /\ DOMAIN calls = 1 .. Len(calls) /\ DOMAIN calls' = 1 .. Len(calls) + 1
      /\ Len(calls') = Len(calls) + 1 /\ Len(calls) \in Nat
      /\ \A i \in DOMAIN calls : calls'[i] = calls[i]
      /\ calls'[Len(calls) + 1] = c
  BY Appended DEF IInv, Waiting, Ask
<1>2. ASSUME NEW i \in DOMAIN calls'
      PROVE  i \in DOMAIN calls \/ i = Len(calls) + 1
  BY <1>1
<1> QED
  BY <1>1, <1>2, InterviewAssumption

LEMMA SetAnswerShows ==
  ASSUME IInv, NEW v, SetAnswer(v)
  PROVE  /\ shown \in Interviews /\ shown' \in Interviews
         /\ Question \in visibleQuestions(shown.answers) /\ v \in Choices(Question)
         /\ shown'.answers = answer(shown, Question, v).answers
         /\ shown'.resolved = shown.resolved
         /\ shown'.current = shown.current /\ shown'.completed = shown.completed
<1>1. shown \in Interviews
  BY DEF IInv, Scalars, SetAnswer
<1>2. Question \in visibleQuestions(shown.answers) /\ Question \in Questions
  BY <1>1, QuestionIsVisible, VisibleAreAsked
<1>3. v \in Choices(Question)
  BY DEF SetAnswer
<1> DEFINE updated == answer(shown, Question, v)
<1>4. updated.answers \in Answers /\ updated.imported \in SUBSET Documented
  BY <1>1, <1>2, <1>3, AnswerTypes
<1>5. shown' = [shown EXCEPT !.answers = updated.answers, !.imported = updated.imported]
  BY DEF SetAnswer
<1> HIDE DEF updated
<1>6. shown' = [answers |-> updated.answers, imported |-> updated.imported,
                resolved |-> shown.resolved, current |-> shown.current,
                completed |-> shown.completed]
  <2> DEFINE asked == [shown EXCEPT !.answers = updated.answers]
  <2>1. asked = [answers |-> updated.answers, imported |-> shown.imported,
                 resolved |-> shown.resolved, current |-> shown.current,
                 completed |-> shown.completed]
    BY <1>1, InterviewParts
  <2>2. shown' = [asked EXCEPT !.imported = updated.imported]
    BY <1>5
  <2> HIDE DEF asked
  <2> QED
    BY <2>1, <2>2
<1>7. shown' \in Interviews
  BY <1>1, <1>4, <1>6, InterviewParts DEF Interviews
<1> QED
  BY <1>1, <1>2, <1>3, <1>6, <1>7 DEF updated

LEMMA GoToShows ==
  ASSUME NEW q \in Asked, shown \in Interviews, GoTo(q)
  PROVE  /\ shown' \in Interviews /\ shown'.answers = shown.answers
         /\ shown'.resolved = shown.resolved
         /\ shown'.current = q /\ shown'.completed = shown.completed
<1>1. shown' = [shown EXCEPT !.current = q]
  BY DEF GoTo
<1>2. shown' = [answers |-> shown.answers, imported |-> shown.imported,
                resolved |-> shown.resolved, current |-> q, completed |-> shown.completed]
  BY <1>1, InterviewParts
<1> QED
  BY <1>2, InterviewParts DEF Interviews

\* Where Continue and Back go: to a visible question.
LEMMA Goes ==
  ASSUME IInv, Continue \/ Back
  PROVE  /\ shown \in Interviews
         /\ \E q \in visibleQuestions(shown.answers) :
              /\ GoTo(q)
              /\ \/ CanContinue /\ Unanswered # {} /\ q = First(Unanswered)
                 \/ Position[q] < Position[Question]
<1>1. shown \in Interviews
  BY DEF IInv, Scalars, Continue, Back
<1>2. visibleQuestions(shown.answers) \subseteq Questions
  BY VisibleAreAsked
<1>3. ASSUME Continue
      PROVE  /\ CanContinue /\ Unanswered # {} /\ GoTo(First(Unanswered))
             /\ First(Unanswered) \in visibleQuestions(shown.answers)
  <2>1. Unanswered \subseteq visibleQuestions(shown.answers)
    BY DEF Unanswered, After
  <2>2. CanContinue /\ Unanswered # {} /\ GoTo(First(Unanswered))
    BY <1>3 DEF Continue
  <2> QED
    BY <1>2, <2>1, <2>2, FirstOf
<1> DEFINE earlier == {q \in visibleQuestions(shown.answers) : Position[q] < Position[Question]}
<1>4. ASSUME Back
      PROVE  Last(earlier) \in earlier /\ GoTo(Last(earlier))
  <2>1. earlier # {} /\ GoTo(Last(earlier)) /\ earlier \subseteq Questions
    BY <1>2, <1>4 DEF Back
  <2> HIDE DEF earlier
  <2> QED
    BY <2>1, LastOf
<1> QED
  BY <1>1, <1>3, <1>4

\* A load or a save of the interview that nobody waits for.
LEMMA Asking ==
  ASSUME IInv, Open \/ (\E v \in Values : SetAnswer(v)) \/ Continue \/ Back
  PROVE  IInv'
<1>1. Len(calls) < MaxCalls /\ UNCHANGED <<override, before, files, task>>
  BY DEF Open, SetAnswer, Continue, Back, UserActs, GoTo
<1>2. ASSUME NEW c \in Calls, c.what \notin Awaited, Ask(c),
             c.what = "load" => screen = "home" /\ screen' = "loading",
             screen' = screen \/ (screen = "home" /\ screen' = "loading"),
             screen' # "documents",
             shown' \in Interviews \cup {None},
             screen' \in {"asking", "review", "documents"} => shown' # None
      PROVE  IInv'
  <2>1. \A i \in DOMAIN calls : calls[i].what = "load" => screen = "loading"
    BY DEF IInv, Loading
  <2>2. Waiting(calls', task')
    BY <1>1, <1>2, <2>1, AskPlain DEF IInv, Ask
  <2>3. /\ Len(calls') <= MaxCalls
        /\ \A i \in DOMAIN calls' : calls'[i] = c \/ (i \in DOMAIN calls /\ calls'[i] = calls[i])
    BY <1>1, <1>2, Asks
  <2>4. Bound'
    BY <1>2, <2>3 DEF Bound
  <2>5. Loading'
    BY <1>2, <2>1, <2>3 DEF Loading
  <2>6. Scalars'
    BY <1>1, <1>2 DEF IInv, Scalars, files
  <2>7. Owner'
    BY <1>1, <1>2 DEF IInv, Owner, Scalars, Tasks
  <2> QED
    BY <2>2, <2>4, <2>5, <2>6, <2>7 DEF IInv
<1>3. ASSUME shown' \in Interviews, Ask(Save("shown", shown')), screen = "asking",
             screen' = screen
      PROVE  IInv'
  <2> DEFINE c == Save("shown", shown')
  <2>1. c \in Calls /\ c.what = "shown"
    BY <1>3 DEF Save, Calls
  <2>2. Ask(c)
    BY <1>3
  <2> HIDE DEF c
  <2>3. shown' # None /\ screen' # "documents"
    BY <1>3, NoneAssumption
  <2> QED
    BY <1>2, <1>3, <2>1, <2>2, <2>3 DEF Awaited
<1>4. Open => IInv'
  <2> SUFFICES ASSUME Open
               PROVE  IInv'
    OBVIOUS
  <2>1. /\ Ask(Load) /\ screen = "home" /\ screen' = "loading" /\ shown' = None
    BY DEF Open
  <2>2. Load \in Calls /\ Load.what = "load"
    BY DEF Load, Calls
  <2> QED
    BY <1>2, <2>1, <2>2 DEF Awaited
<1>5. (\E v \in Values : SetAnswer(v)) => IInv'
  <2> SUFFICES ASSUME NEW v \in Values, SetAnswer(v)
               PROVE  IInv'
    OBVIOUS
  <2>1. shown' \in Interviews
    BY SetAnswerShows
  <2> QED
    BY <1>3, <2>1 DEF SetAnswer
<1>6. (Continue \/ Back) => IInv'
  <2> SUFFICES ASSUME Continue \/ Back
               PROVE  IInv'
    OBVIOUS
  <2>1. PICK q \in visibleQuestions(shown.answers) : GoTo(q)
    BY Goes
  <2>2. shown \in Interviews
    BY Goes
  <2>3. shown' \in Interviews
    BY <2>1, <2>2, GoToShows, VisibleAreAsked
  <2> QED
    BY <1>3, <2>1, <2>3 DEF Continue, Back, GoTo
<1> QED
  BY <1>4, <1>5, <1>6

\* A handler starts: its first call saves the profile that follows from the
\* interview it captured.
LEMMA Started ==
  ASSUME IInv, task = None, Len(calls) < MaxCalls,
         NEW by \in {"continue", "resolve", "documents"}, NEW i \in Interviews, Starts(by, i)
  PROVE  /\ task' = [by |-> by, interview |-> i, mounted |-> TRUE] /\ task' \in Tasks
         /\ Waiting(calls', task') /\ Len(calls') <= MaxCalls
         /\ \A j \in DOMAIN calls' :
              \/ calls'[j] = Save("product", profileFromInterview(i.answers, profile))
              \/ j \in DOMAIN calls /\ calls'[j] = calls[j]
         /\ \A j \in DOMAIN calls' : calls'[j].what = "load" => screen = "loading"
<1> DEFINE p == profileFromInterview(i.answers, profile)
           c == Save("product", p)
<1>1. task' = [by |-> by, interview |-> i, mounted |-> TRUE] /\ task' \in Tasks
  BY DEF Starts, Tasks
<1>2. p \in ProfileType
  BY InterviewParts, ProfileOfInterview DEF IInv, Scalars
<1>3. c \in Calls /\ c.what = "product"
  <2> HIDE DEF p
  <2> QED
    BY <1>2 DEF Save, Calls
<1>4. Ask(c)
  BY DEF Starts
<1>5. Waiting(calls', task')
  <2>1. calls' = Append(calls, c) /\ Waiting(calls, None)
    BY <1>4 DEF Ask, IInv
  <2> HIDE DEF p
  <2> QED
    BY <1>1, <1>2, <2>1, Begins
<1> HIDE DEF c
<1>6. /\ Len(calls') <= MaxCalls
      /\ \A j \in DOMAIN calls' : calls'[j] = c \/ (j \in DOMAIN calls /\ calls'[j] = calls[j])
  BY <1>3, <1>4, Asks
<1>7. \A j \in DOMAIN calls' : calls'[j].what = "load" => screen = "loading"
  BY <1>3, <1>6 DEF IInv, Loading
<1> QED
  BY <1>1, <1>5, <1>6, <1>7 DEF c

\* The resolved interview.
LEMMA Resolves ==
  ASSUME IInv, Resolve
  PROVE  /\ screen = "review" /\ task = None /\ Len(calls) < MaxCalls
         /\ Displayed \in Interviews
         /\ \E e \in Conflicts(Displayed) :
              \E v \in {e.value, Displayed.answers[e.id]} :
                /\ Starts("resolve", applyConflictResolution(Displayed, e, v))
                /\ applyConflictResolution(Displayed, e, v) \in Interviews
<1>1. Displayed \in Interviews /\ documents \in DocumentType
  BY DEF Resolve, IInv, Scalars, Displayed
<1>2. PICK e \in Conflicts(Displayed) : \E v \in {e.value, Displayed.answers[e.id]} :
        Starts("resolve", applyConflictResolution(Displayed, e, v))
  BY DEF Resolve
<1>3. PICK v \in {e.value, Displayed.answers[e.id]} :
        Starts("resolve", applyConflictResolution(Displayed, e, v))
  BY <1>2
<1>4. applyConflictResolution(Displayed, e, v) \in Interviews
  BY <1>1, ResolutionType
<1> QED
  BY <1>1, <1>3, <1>4 DEF Resolve, UserActs

\* Back from the documents.
LEMMA Reconciles ==
  ASSUME IInv, CloseDocuments
  PROVE  /\ screen = "documents" /\ task = None /\ Len(calls) < MaxCalls
         /\ shown \in Interviews /\ before \in DocumentType
         /\ reconcile(shown, before, documents) \in Interviews
         /\ \/ Starts("documents", reconcile(shown, before, documents))
            \/ UNCHANGED <<calls, task>>
<1>1. screen = "documents" /\ shown \in Interviews /\ before \in DocumentType
      /\ documents \in DocumentType
  BY DEF CloseDocuments, IInv, Scalars
<1> QED
  BY <1>1, ReconcileType DEF CloseDocuments, IInv, Bound

LEMMA Beginning ==
  ASSUME IInv, Finish \/ Resolve \/ (CloseDocuments /\ task' # task)
  PROVE  IInv'
<1>1. ASSUME NEW by \in {"continue", "resolve", "documents"}, NEW i \in Interviews,
             Starts(by, i), task = None, Len(calls) < MaxCalls,
             UNCHANGED <<shown, override, files>>,
             by = "continue" => screen = "asking",
             by \in {"resolve", "documents"} => screen' = "review",
             screen \in {"asking", "review", "documents"},
             \/ screen # "documents" /\ UNCHANGED <<screen, before>>
             \/ screen = "documents" /\ screen' = "review" /\ before' = None
      PROVE  IInv'
  <2>1. /\ task' = [by |-> by, interview |-> i, mounted |-> TRUE] /\ task' \in Tasks
        /\ Waiting(calls', task') /\ Len(calls') <= MaxCalls
        /\ \A j \in DOMAIN calls' : calls'[j].what = "load" => screen = "loading"
    BY <1>1, Started
  <2>2. Bound'
    BY <1>1, <2>1 DEF Bound
  <2>3. Loading'
    BY <1>1, <2>1 DEF Loading
  <2>4. Owner'
    BY <1>1, <2>1 DEF Owner
  <2>5. Scalars'
    BY <1>1, <2>1 DEF IInv, Scalars, files
  <2> QED
    BY <2>1, <2>2, <2>3, <2>4, <2>5 DEF IInv
<1>2. Finish => IInv'
  <2> SUFFICES ASSUME Finish
               PROVE  IInv'
    OBVIOUS
  <2> DEFINE i == [shown EXCEPT !.completed = TRUE]
  <2>1. /\ screen = "asking" /\ task = None /\ Len(calls) < MaxCalls
        /\ Starts("continue", i) /\ UNCHANGED <<screen, before>>
        /\ UNCHANGED <<shown, override, files>>
    BY DEF Finish, UserActs, ui
  <2>2. shown \in Interviews
    BY <2>1 DEF IInv, Scalars
  <2>3. i \in Interviews
    BY <2>2 DEF Interviews
  <2> HIDE DEF i
  <2> QED
    BY <1>1, <2>1, <2>3
<1>3. Resolve => IInv'
  <2> SUFFICES ASSUME Resolve
               PROVE  IInv'
    OBVIOUS
  <2>1. UNCHANGED <<screen, before>> /\ UNCHANGED <<shown, override, files>>
    BY DEF Resolve, ui
  <2>2. \E i \in Interviews : Starts("resolve", i)
    BY Resolves
  <2> QED
    BY <1>1, <2>1, <2>2, Resolves
<1>4. CloseDocuments /\ task' # task => IInv'
  <2> SUFFICES ASSUME CloseDocuments, task' # task
               PROVE  IInv'
    OBVIOUS
  <2>1. screen' = "review" /\ before' = None /\ UNCHANGED <<shown, override, files>>
    BY DEF CloseDocuments
  <2>2. /\ screen = "documents" /\ task = None /\ Len(calls) < MaxCalls
        /\ reconcile(shown, before, documents) \in Interviews
        /\ Starts("documents", reconcile(shown, before, documents))
    BY Reconciles
  <2> HIDE DEF Starts
  <2> QED
    BY <1>1, <2>1, <2>2
<1> QED
  BY <1>2, <1>3, <1>4

LEMMA EditShows ==
  ASSUME IInv, Edit
  PROVE  /\ screen = "review" /\ shown \in Interviews /\ shown' \in Interviews
         /\ shown'.answers = shown.answers /\ shown'.resolved = shown.resolved
         /\ shown'.completed = FALSE
         /\ shown'.current \in visibleQuestions(Displayed.answers) \cup ({"region"} \cap Asked)
<1>1. screen = "review" /\ shown \in Interviews
  BY DEF Edit, IInv, Scalars
<1>2. PICK q \in visibleQuestions(Displayed.answers) \cup ({"region"} \cap Asked) :
        shown' = [shown EXCEPT !.current = q, !.completed = FALSE]
  BY DEF Edit
<1>3. q \in Asked
  BY <1>2, VisibleAreAsked
<1> DEFINE at == [shown EXCEPT !.current = q]
<1>4. at = [answers |-> shown.answers, imported |-> shown.imported,
            resolved |-> shown.resolved, current |-> q, completed |-> shown.completed]
  BY <1>1, InterviewParts
<1>5. shown' = [at EXCEPT !.completed = FALSE]
  BY <1>2
<1> HIDE DEF at
<1>6. shown' = [answers |-> shown.answers, imported |-> shown.imported,
                resolved |-> shown.resolved, current |-> q, completed |-> FALSE]
  BY <1>4, <1>5
<1>7. shown' \in Interviews
  BY <1>1, <1>3, <1>6, InterviewParts DEF Interviews
<1> QED
  BY <1>1, <1>2, <1>6, <1>7

\* What asks for nothing.
LEMMA Browsing ==
  ASSUME IInv,
         \/ Edit \/ OpenDocuments \/ (CloseDocuments /\ task' = task)
         \/ \E q \in Documented, v \in Proven \cup {None} : SetDocument(q, v)
  PROVE  IInv'
<1>1. Edit => IInv'
  <2> SUFFICES ASSUME Edit
               PROVE  IInv'
    OBVIOUS
  <2>1. /\ screen = "review" /\ screen' = "asking" /\ override' = None
        /\ UNCHANGED <<before, files, calls>>
        /\ shown' \in Interviews /\ shown' # None
    BY EditShows, NoneAssumption DEF Edit
  <2>2. task' = task \/ /\ task \in Tasks /\ task' = [task EXCEPT !.mounted = FALSE]
    BY DEF Edit, IInv, Scalars
  <2>3. task' \in Tasks \cup {None} /\ Waiting(calls', task')
    <3>1. CASE task' = task
      BY <2>1, <3>1 DEF IInv, Scalars
    <3>2. CASE task \in Tasks /\ task' = [task EXCEPT !.mounted = FALSE]
      BY <2>1, <3>2, Unmounts DEF IInv
    <3> QED
      BY <2>2, <3>1, <3>2
  <2>4. Scalars'
    BY <2>1, <2>3 DEF IInv, Scalars, files
  <2>5. Owner'
    <3>1. task' # task => task'.mounted = FALSE
      BY <2>2 DEF Tasks
    <3>2. task' = task /\ task # None /\ task.mounted => task.by # "resolve"
      <4>1. task # None /\ task.by = "resolve" => task' = [task EXCEPT !.mounted = FALSE]
        BY DEF Edit
      <4>2. task # None => task \in Tasks
        BY DEF IInv, Scalars
      <4> QED
        BY <4>1, <4>2 DEF Tasks
    <3> QED
      BY <2>1, <3>1, <3>2 DEF IInv, Owner
  <2>6. Bound' /\ Loading'
    BY <2>1 DEF IInv, Bound, Loading
  <2> QED
    BY <2>3, <2>4, <2>5, <2>6 DEF IInv
<1>2. OpenDocuments => IInv'
  <2> SUFFICES ASSUME OpenDocuments
               PROVE  IInv'
    OBVIOUS
  <2>1. /\ screen = "review" /\ screen' = "documents" /\ before' = documents
        /\ Len(calls) < MaxCalls
        /\ UNCHANGED <<shown, override, stored, profile, simulation, documents, calls, task>>
    BY DEF OpenDocuments, UserActs, files
  <2>2. Scalars'
    BY <2>1, NoneAssumption DEF IInv, Scalars
  <2>3. Owner' /\ Bound' /\ Loading' /\ Waiting(calls', task')
    BY <2>1 DEF IInv, Owner, Bound, Loading
  <2> QED
    BY <2>2, <2>3 DEF IInv
<1>3. CloseDocuments /\ task' = task => IInv'
  <2> SUFFICES ASSUME CloseDocuments, task' = task
               PROVE  IInv'
    OBVIOUS
  <2>1. /\ screen = "documents" /\ task = None /\ screen' = "review" /\ before' = None
        /\ UNCHANGED <<shown, override, files>>
    BY DEF CloseDocuments
  <2>2. UNCHANGED calls
    BY <2>1, NoneAssumption, Reconciles, Started
  <2>3. Scalars'
    BY <2>1 DEF IInv, Scalars, files
  <2>4. Owner' /\ Bound' /\ Loading' /\ Waiting(calls', task')
    BY <2>1, <2>2 DEF IInv, Owner, Bound, Loading
  <2> QED
    BY <2>3, <2>4 DEF IInv
<1>4. ASSUME NEW q \in Documented, NEW v \in Proven \cup {None}, SetDocument(q, v)
      PROVE  IInv'
  <2>1. documents' \in DocumentType
    BY <1>4, InterviewAssumption DEF SetDocument, IInv, Scalars, DocumentType
  <2>2. UNCHANGED <<screen, shown, override, before, stored, profile, simulation, calls, task>>
    BY <1>4 DEF SetDocument, ui
  <2>3. Scalars'
    BY <2>1, <2>2 DEF IInv, Scalars
  <2>4. Owner' /\ Bound' /\ Loading' /\ Waiting(calls', task')
    BY <2>2 DEF IInv, Owner, Bound, Loading
  <2> QED
    BY <2>3, <2>4 DEF IInv
<1> QED
  BY <1>1, <1>2, <1>3, <1>4

LEMMA Popping ==
  ASSUME IInv, Pop
  PROVE  IInv'
<1>1. /\ screen \in {"loading", "failed", "asking", "review"} /\ screen' = "home"
      /\ override' = None /\ UNCHANGED <<shown, before, files>>
      /\ Len(calls) < MaxCalls
  BY DEF Pop, UserActs, IInv, Scalars
<1>2. \/ task' = task /\ task = None
      \/ task \in Tasks /\ task' = [task EXCEPT !.mounted = FALSE]
  BY DEF Pop, IInv, Scalars
<1>3. task' \in Tasks \cup {None}
  BY <1>2 DEF Tasks
<1>10. ASSUME NEW cs, Waiting(cs, task)
       PROVE  Waiting(cs, task')
  <2>1. CASE task' = task /\ task = None
    BY <1>10, <2>1
  <2>2. CASE task \in Tasks /\ task' = [task EXCEPT !.mounted = FALSE]
    <3>1. Waiting(cs, [task EXCEPT !.mounted = FALSE])
      BY <1>10, <2>2, Unmounts
    <3> QED
      BY <2>2, <3>1
  <2> QED
    BY <1>2, <2>1, <2>2
<1>4. task' # None => ~task'.mounted
  BY <1>2 DEF Tasks
<1>5. Scalars'
  BY <1>1, <1>3 DEF IInv, Scalars, files
<1>6. Owner'
  BY <1>4 DEF Owner
<1>7. CASE screen = "loading" /\ calls' = Abandoned
  <2>1. /\ Waiting(calls', task) /\ Len(calls') = Len(calls)
        /\ \A i \in DOMAIN calls' : calls'[i].what # "load"
    BY <1>7, Abandons DEF IInv
  <2>2. Bound'
    BY <1>1, <2>1 DEF IInv, Bound
  <2> QED
    BY <1>5, <1>6, <1>10, <2>1, <2>2 DEF IInv, Loading
<1>8. CASE screen = "failed" /\ UNCHANGED calls
  <2>1. Bound' /\ Loading'
    BY <1>1, <1>8 DEF IInv, Bound, Loading
  <2> QED
    BY <1>5, <1>6, <1>10, <1>8, <2>1 DEF IInv
<1>9. CASE screen \in {"asking", "review"} /\ Ask(Save("shown", shown))
  <2> DEFINE c == Save("shown", shown)
  <2>1. c \in Calls /\ c.what = "shown"
    BY <1>9 DEF IInv, Scalars, Save, Calls
  <2>2. Ask(c)
    BY <1>9
  <2> HIDE DEF c
  <2>3. Waiting(calls', task)
    BY <2>1, <2>2, AskPlain DEF IInv, Ask, Awaited
  <2>4. /\ Len(calls') <= MaxCalls
        /\ \A i \in DOMAIN calls' : calls'[i] = c \/ (i \in DOMAIN calls /\ calls'[i] = calls[i])
    BY <1>1, <2>1, <2>2, Asks
  <2>5. Bound'
    BY <1>1, <2>4 DEF Bound
  <2>6. Loading'
    BY <1>9, <2>1, <2>4 DEF IInv, Loading
  <2> QED
    BY <1>5, <1>6, <1>10, <2>3, <2>5, <2>6 DEF IInv
<1> QED
  BY <1>7, <1>8, <1>9 DEF Pop

LEMMA Killing ==
  ASSUME IInv, Killed
  PROVE  IInv'
<1>1. /\ screen' = "home" /\ shown' = None /\ override' = None /\ before' = None
      /\ task' = None /\ UNCHANGED files
      /\ calls' = << >> /\ calls' \in Seq(Calls) /\ DOMAIN calls' = {} /\ Len(calls') = 0
  BY DEF Killed
<1>2. Scalars'
  BY <1>1 DEF IInv, Scalars, files
<1>3. Owner' /\ Loading' /\ Waiting(calls', task')
  BY <1>1 DEF Owner, Loading, Waiting
<1>4. Bound'
  BY <1>1, InterviewAssumption DEF Bound
<1> QED
  BY <1>2, <1>3, <1>4 DEF IInv

LEMMA StepIInv ==
  ASSUME IInv, [Next]_vars
  PROVE  IInv'
<1>1. UNCHANGED vars => IInv'
  BY DEF vars, ui, files, IInv, Scalars, Owner, Bound, Loading
<1>2. Next => \/ Loaded \/ LoadFails \/ LoadedUnmounted \/ Persisted
              \/ ProductSaved \/ InterviewSaved \/ SimulationSaved
              \/ Open \/ (\E v \in Values : SetAnswer(v)) \/ Continue \/ Back
              \/ Finish \/ Resolve \/ (CloseDocuments /\ task' # task)
              \/ Edit \/ OpenDocuments \/ (CloseDocuments /\ task' = task)
              \/ (\E q \in Documented, v \in Proven \cup {None} : SetDocument(q, v))
              \/ Pop \/ Killed
  BY DEF Next
<1> QED
  BY <1>1, <1>2, PlainTaken, AwaitedTaken, Asking, Beginning, Browsing, Popping, Killing

LEMMA Safety == Spec => []IInv
<1>1. Init => IInv
  BY InitIInv
<1>2. IInv /\ [Next]_vars => IInv'
  BY StepIInv
<1> QED
  BY <1>1, <1>2, PTL DEF Spec

(***************************************************************************)
(* The screens, the stored files and the calls in flight are typed, and a  *)
(* handler waits for exactly one call, whatever the user does meanwhile:   *)
(* guided_tax_screen.dart, guided_tax_review_screen.dart.                  *)
(***************************************************************************)
THEOREM TypeCorrect == Spec => []TypeOK
<1>1. IInv => TypeOK
  BY IInvIsTyped
<1> QED
  BY <1>1, Safety, PTL
-----------------------------------------------------------------------------
(* What is estimated.                                                      *)

LEMMA Confirmed ==
  ASSUME IInv, Next, simulation' # simulation
  PROVE  LET given == task.interview.answers
         IN  /\ task.interview.completed
             /\ given["reviewConfirmed"] = "yes"
             /\ given["employmentIncome"] = "yes" /\ given["civilStatus"] = "single"
             /\ \A q \in visibleQuestions(given) \ Optional : given[q] # None
             /\ \A q \in Unsupported : given[q] # "yes"
             /\ \A q \in Numbers \cap Asked : simulation'[q] \in Amounts
<1> DEFINE given == task.interview.answers
<1>1. SimulationSaved
  BY DEF Next, Loaded, LoadFails, LoadedUnmounted, Persisted, ProductSaved, InterviewSaved,
         Open, SetAnswer, Continue, Back, GoTo, Finish, Pop, Resolve, Edit, OpenDocuments,
         CloseDocuments, SetDocument, Killed, ui, files
<1>2. calls # << >> /\ Head(calls).what = "simulation" /\ simulation' = Head(calls).of
  BY <1>1 DEF SimulationSaved, Take
<1>3. Carries(Head(calls), task) /\ task \in Tasks
  BY <1>2, Delivered DEF Awaited
<1>4. given \in Answers
  BY <1>3, InterviewParts DEF Tasks
<1>5. /\ simulation' = simulationFromInterview(given) /\ simulation' # None
      /\ Missing(given) = {} /\ Supported(given) /\ task.interview.completed
  BY <1>2, <1>3 DEF Carries, canEstimate
<1> HIDE DEF given
<1>6. given["reviewConfirmed"] = "yes"
  <2>1. "reviewConfirmed" \in visibleQuestions(given) \ Optional
    BY Places DEF visibleQuestions, Visible, Earnings, Optional
  <2> QED
    BY <1>5, <2>1 DEF Missing, Confirmations
<1>7. \A q \in visibleQuestions(given) \ Optional : given[q] # None
  BY <1>5 DEF Missing
<1>8. /\ given["employmentIncome"] = "yes" /\ given["civilStatus"] = "single"
      /\ \A q \in Unsupported : given[q] # "yes"
  BY <1>5 DEF Supported
<1>9. ASSUME NEW q \in Numbers \cap Asked
      PROVE  simulation'[q] \in Amounts
  <2>1. given[q] # None
    BY <1>5 DEF simulationFromInterview
  <2>2. q \in Questions /\ q \in SimulationFacts /\ Choices(q) = Amounts
    BY Places DEF Numbers, SimulationFacts, Choices, Numeric
  <2>3. simulation'[q] = given[q]
    BY <1>4, <1>5, <2>2, SimulationType
  <2> QED
    BY <1>4, <2>1, <2>2, <2>3, AnswersGive
<1> QED
  BY <1>5, <1>6, <1>7, <1>8, <1>9 DEF given

LEMMA EstimatingStays ==
  ASSUME NEW cs \in Seq(Calls), ~Estimating(cs)
  PROVE  /\ \A c : c.what # "simulation" => ~Estimating(Append(cs, c))
         /\ cs # << >> => Tail(cs) \in Seq(Calls) /\ ~Estimating(Tail(cs))
<1>1. ASSUME NEW c, c.what # "simulation"
      PROVE  ~Estimating(Append(cs, c))
  BY <1>1 DEF Estimating
<1>2. ASSUME cs # << >>
      PROVE  Tail(cs) \in Seq(Calls) /\ ~Estimating(Tail(cs))
  BY <1>2 DEF Estimating
<1> QED
  BY <1>1, <1>2

\* Only a handler whose interview has just been stored asks for it.
LEMMA EstimateFollowsStore ==
  ASSUME IInv, Next, ~Estimating(calls), Estimating(calls')
  PROVE  stored' = task.interview
<1>1. calls \in Seq(Calls)
  BY DEF IInv, Waiting
<1>2. /\ \A c : c.what # "simulation" => ~Estimating(Append(calls, c))
      /\ calls # << >> =>
           /\ Tail(calls) \in Seq(Calls) /\ ~Estimating(Tail(calls))
           /\ \A c : c.what # "simulation" => ~Estimating(Append(Tail(calls), c))
  BY <1>1, EstimatingStays
<1>3. calls' # calls /\ (calls # << >> => calls' # Tail(calls))
  BY <1>2
<1>4. ASSUME NEW what, NEW value, what # "simulation"
      PROVE  /\ calls' # Append(calls, Save(what, value))
             /\ calls # << >> => calls' # Append(Tail(calls), Save(what, value))
  <2>1. Save(what, value).what # "simulation"
    BY <1>4 DEF Save
  <2> QED
    BY <1>2, <2>1
<1>5. calls' # Append(calls, Load)
  <2>1. Load.what # "simulation"
    BY DEF Load
  <2> QED
    BY <1>2, <2>1
<1>6. calls' # Abandoned /\ calls' # << >>
  <2>1. ~Estimating(Abandoned) /\ ~Estimating(<< >>)
    BY <1>1 DEF Estimating, Abandoned, Save
  <2> QED
    BY <2>1
<1>7. InterviewSaved
  <2>1. ~(Loaded \/ LoadFails \/ LoadedUnmounted \/ Persisted \/ SimulationSaved)
    BY <1>3 DEF Loaded, LoadFails, LoadedUnmounted, Persisted, SimulationSaved, Take
  <2>2. ~ProductSaved
    BY <1>3, <1>4 DEF ProductSaved, Take
  <2>3. ~(Open \/ Continue \/ Back \/ Finish \/ \E v \in Values : SetAnswer(v))
    BY <1>4, <1>5 DEF Open, Continue, Back, GoTo, Finish, Starts, SetAnswer, Ask
  <2>4. ~(Pop \/ Killed)
    BY <1>3, <1>4, <1>6 DEF Pop, Killed, Ask
  <2>5. ~(Resolve \/ Edit \/ OpenDocuments \/ CloseDocuments)
    BY <1>3, <1>4 DEF Resolve, Edit, OpenDocuments, CloseDocuments, Starts, Ask
  <2>6. ~\E q \in Documented, v \in Proven \cup {None} : SetDocument(q, v)
    BY <1>3 DEF SetDocument
  <2> QED
    BY <2>1, <2>2, <2>3, <2>4, <2>5, <2>6 DEF Next
<1>8. Carries(Head(calls), task) /\ Head(calls).what = "interview"
  BY <1>7, Delivered DEF InterviewSaved, Take, Awaited
<1> QED
  BY <1>7, <1>8 DEF InterviewSaved, Carries

(***************************************************************************)
(* An estimate is saved only of a completed interview the taxpayer         *)
(* confirmed: an employed single taxpayer, every required question         *)
(* answered, no income of an unsupported kind, every number given; and     *)
(* that interview is stored when the save is asked for:                    *)
(* guided_tax_screen.dart, _continue and _openDocumentEvidence.            *)
(***************************************************************************)
THEOREM EstimatesConfirmed == Spec => EstimateIsConfirmed
<1> DEFINE A == /\ simulation' # simulation =>
                     LET given == task.interview.answers
                     IN  /\ task.interview.completed
                         /\ given["reviewConfirmed"] = "yes"
                         /\ given["employmentIncome"] = "yes" /\ given["civilStatus"] = "single"
                         /\ \A q \in visibleQuestions(given) \ Optional : given[q] # None
                         /\ \A q \in Unsupported : given[q] # "yes"
                         /\ \A q \in Numbers \cap Asked : simulation'[q] \in Amounts
                /\ ~Estimating(calls) /\ Estimating(calls') => stored' = task.interview
<1>1. IInv /\ [Next]_vars => [A]_vars
  <2>1. IInv /\ Next => A
    BY Confirmed, EstimateFollowsStore
  <2> HIDE DEF A
  <2> QED
    BY <2>1
<1>2. EstimateIsConfirmed <=> [][A]_vars
  BY DEF EstimateIsConfirmed
<1> HIDE DEF A
<1> QED
  BY <1>1, <1>2, Safety, PTL DEF Spec
-----------------------------------------------------------------------------
(***************************************************************************)
(* Nothing is skipped.  The invariant says it of every interview there is: *)
(* shown, stored, being saved, held by a handler.                          *)
(***************************************************************************)

\* The question an interview is shown at.
QuestionOf(i) ==
    IF i.current \in visibleQuestions(i.answers) THEN i.current
    ELSE First(visibleQuestions(i.answers))

Required(i) == visibleQuestions(i.answers) \ (Optional \cup Documented)

NothingBehind(i) ==
    Undecided(i) =>
        \A q \in Required(i) :
            i.answers[q] # None \/ (~i.completed /\ Position[QuestionOf(i)] <= Position[q])

\* A hidden current question that appears again is still the first one.
CurrentIsFirst(i) ==
    \/ i.current \in visibleQuestions(i.answers)
    \/ i.current = "region"
    \/ "residentPortugal" \in Asked

Orderly(i) == NothingBehind(i) /\ CurrentIsFirst(i)

Drivers == {"residentPortugal", "civilStatus", "employmentIncome"}

\* Three answers decide which questions are asked.
LEMMA DriversDecide ==
  ASSUME NEW a, NEW b, \A d \in Drivers : a[d] = b[d]
  PROVE  visibleQuestions(a) = visibleQuestions(b)
BY DEF visibleQuestions, Visible, Drivers

\* An answer shows or hides later questions only.
LEMMA AnswerDecides ==
  ASSUME NEW i \in Interviews, NEW q \in visibleQuestions(i.answers), NEW v \in Choices(q)
  PROVE  LET a == i.answers
             b == answer(i, q, v).answers
         IN  /\ q \in visibleQuestions(b) /\ b[q] = v
             /\ \A p \in visibleQuestions(b) \ {q} : b[p] = a[p]
             /\ \A p \in visibleQuestions(b) \ visibleQuestions(a) :
                  Position[q] < Position[p] /\ (q = "residentPortugal" => p = "region")
                  /\ (p = "region" => q = "residentPortugal")
<1> DEFINE a == i.answers
           updated == [a EXCEPT ![q] = v]
           kept == {p \in Questions : Visible(p, updated)}
           b == answer(i, q, v).answers
<1>1. a \in [Questions -> AllChoices \cup {None}] /\ q \in Questions /\ q \in Asked
  BY InterviewParts, AnswersGive, VisibleAreAsked
<1>2. updated[q] = v /\ \A p \in Questions \ {q} : updated[p] = a[p]
  BY <1>1
<1>3. b = [p \in Questions |-> IF p \in kept THEN updated[p] ELSE None]
  BY DEF answer
<1> HIDE DEF updated, a
<1>4. Drivers \subseteq Questions /\ Drivers \subseteq kept
  BY QuestionNames DEF Drivers, Visible, Earnings
<1>5. \A d \in Drivers : b[d] = updated[d]
  BY <1>3, <1>4
<1>6. visibleQuestions(b) = visibleQuestions(updated)
  <2> HIDE DEF b, kept
  <2> QED
    BY <1>5, DriversDecide
<1>7. \A p \in visibleQuestions(updated) : p \in Questions /\ p \in kept /\ b[p] = updated[p]
  <2>1. \A p \in visibleQuestions(updated) : p \in Questions /\ p \in kept
    BY VisibleAreAsked DEF visibleQuestions
  <2> QED
    BY <1>3, <2>1
<1>8. q \in visibleQuestions(updated)
  <2>1. Visible(q, a)
    BY DEF visibleQuestions, a
  <2>2. Visible(q, updated)
    BY <1>2, <1>4, <2>1 DEF Visible, Earnings, Drivers
  <2> QED
    BY <1>1, <2>2 DEF visibleQuestions
<1>9. ASSUME NEW p \in visibleQuestions(updated) \ visibleQuestions(a)
      PROVE  /\ Position[q] < Position[p]
             /\ q = "residentPortugal" => p = "region"
             /\ p = "region" => q = "residentPortugal"
  <2>1. Visible(p, updated) /\ ~Visible(p, a)
    BY <1>9 DEF visibleQuestions
  <2>2. \/ p = "region" /\ q = "residentPortugal"
        \/ p = "jointTaxation" /\ q = "civilStatus"
        \/ p \in Earnings /\ q = "employmentIncome"
    BY <1>2, <1>4, <2>1 DEF Visible, Drivers
  <2> QED
    BY <2>2, Driven DEF Earnings
<1> HIDE DEF b, kept
<1> QED
  BY <1>2, <1>6, <1>7, <1>8, <1>9 DEF a, b

LEMMA AnswerInOrder ==
  ASSUME NEW i \in Interviews, Orderly(i), ~i.completed,
         NEW v \in Choices(QuestionOf(i)), NEW j \in Interviews,
         j.answers = answer(i, QuestionOf(i), v).answers, j.resolved = i.resolved,
         j.current = i.current, j.completed = i.completed
  PROVE  Orderly(j)
<1> DEFINE q == QuestionOf(i)
           old == visibleQuestions(i.answers)
           new == visibleQuestions(j.answers)
<1>1. q \in old /\ old \subseteq Questions /\ new \subseteq Questions
  BY QuestionIsVisible, VisibleAreAsked DEF QuestionOf
<1>2. /\ q \in new /\ j.answers[q] = v
      /\ \A p \in new \ {q} : j.answers[p] = i.answers[p]
      /\ \A p \in new \ old :
           Position[q] < Position[p] /\ (q = "residentPortugal" => p = "region")
           /\ (p = "region" => q = "residentPortugal")
  BY <1>1, AnswerDecides
<1>3. v # None
  BY <1>1, NoneAssumption DEF AllChoices
<1>4. i.current \in old => q = i.current
  BY DEF QuestionOf
<1>5. i.current \notin old => q = First(old) /\ \A p \in old : Position[q] <= Position[p]
  BY <1>1, FirstOf DEF QuestionOf
<1>6. QuestionOf(j) = IF i.current \in new THEN i.current ELSE First(new)
  BY DEF QuestionOf
<1>7. \A p \in new : Position[First(new)] <= Position[p]
  BY <1>1, <1>2, FirstOf
<1>8. i.current \in new \ old => q = "residentPortugal" /\ i.current = "region"
  <2> SUFFICES ASSUME i.current \in new \ old
               PROVE  q = "residentPortugal" /\ i.current = "region"
    OBVIOUS
  <2>1. i.current = "region" => q = "residentPortugal"
    BY <1>2
  <2>2. "residentPortugal" \in Asked => q = "residentPortugal"
    <3> SUFFICES ASSUME "residentPortugal" \in Asked
                 PROVE  q = "residentPortugal"
      OBVIOUS
    <3>1. "residentPortugal" \in old
      BY DEF visibleQuestions, Visible, Earnings
    <3>2. Position[q] <= 1 /\ Position[q] \in 1 .. 16 /\ Position["residentPortugal"] = 1
      BY <1>1, <1>5, <3>1, Driven, Positions
    <3> QED
      BY <1>1, <3>1, <3>2, PositionsDiffer
  <2> QED
    BY <1>2, <2>1, <2>2 DEF Orderly, CurrentIsFirst
<1> HIDE DEF q, old, new
<1>9. CurrentIsFirst(j)
  BY <1>2, <1>4 DEF Orderly, CurrentIsFirst, old, new
<1>10. ASSUME Undecided(j), NEW p \in new, p \notin Optional \cup Documented,
              j.answers[p] = None
       PROVE  Position[QuestionOf(j)] <= Position[p]
  <2>1. p # q /\ i.answers[p] = None /\ Undecided(i)
    BY <1>2, <1>3, <1>10 DEF Undecided
  <2>2. Position[p] \in 1 .. 16 /\ Position[q] \in 1 .. 16
    BY <1>1, <1>10, Positions
  <2>3. Position[q] <= Position[p]
    <3>1. CASE p \in old
      BY <1>10, <2>1, <3>1 DEF Orderly, NothingBehind, Required, old, q
    <3>2. CASE p \notin old
      BY <1>2, <1>10, <2>2, <3>2
    <3> QED
      BY <3>1, <3>2
  <2>4. CASE i.current \in old
    BY <1>2, <1>4, <1>6, <2>3, <2>4
  <2>5. CASE i.current \in new \ old
    <3>1. q = "residentPortugal" /\ QuestionOf(j) = "region"
      BY <1>6, <1>8, <2>5
    <3>2. Position[q] = 1 /\ Position["region"] = 2
      BY <3>1, Driven
    <3>3. Position[p] # 1
      BY <1>1, <1>10, <2>1, <3>2, PositionsDiffer
    <3> QED
      BY <2>2, <3>1, <3>2, <3>3
  <2>6. CASE i.current \notin new
    BY <1>6, <1>7, <1>10, <2>6
  <2> QED
    BY <2>4, <2>5, <2>6
<1>11. NothingBehind(j)
  BY <1>10 DEF NothingBehind, Required, new
<1> QED
  BY <1>9, <1>11 DEF Orderly

LEMMA PrefillInOrder ==
  ASSUME NEW known \in ProfileType
  PROVE  Orderly(Prefill(known))
<1> DEFINE i == Prefill(known)
<1>1. PICK open \in SUBSET visibleQuestions(i.answers) :
        /\ open = {q \in visibleQuestions(i.answers) : i.answers[q] = None}
        /\ open # {} /\ i.current = First(open)
  BY PrefillType
<1>2. i.completed = FALSE
  BY PrefillType
<1> HIDE DEF i
<1>3. open \subseteq Questions
  BY VisibleAreAsked
<1>4. i.current \in open /\ \A q \in open : Position[i.current] <= Position[q]
  BY <1>1, <1>3, FirstOf
<1>5. QuestionOf(i) = i.current
  BY <1>4 DEF QuestionOf
<1>6. NothingBehind(i)
  BY <1>1, <1>2, <1>4, <1>5 DEF NothingBehind, Required
<1> QED
  BY <1>4, <1>6 DEF Orderly, CurrentIsFirst, i

\* Every open question is the one on the screen or comes after it.
LEMMA OpenQuestions ==
  ASSUME shown \in Interviews, Orderly(shown), Undecided(shown), CanContinue,
         NEW q \in Required(shown), shown.answers[q] = None
  PROVE  ~shown.completed /\ q \in Unanswered
<1>1. Question = QuestionOf(shown) /\ Question \in visibleQuestions(shown.answers)
  BY QuestionIsVisible DEF Question, QuestionOf
<1>2. ~shown.completed /\ Position[Question] <= Position[q]
  BY <1>1 DEF Orderly, NothingBehind
<1>3. q \in Missing(shown.answers)
  BY DEF Required, Missing
<1>4. q # Question
  BY <1>3 DEF CanContinue
<1>5. q \in Questions /\ Question \in Questions /\ q \in visibleQuestions(shown.answers)
  BY <1>1, VisibleAreAsked DEF Required
<1>6. Position[Question] # Position[q]
  BY <1>4, <1>5, PositionsDiffer
<1>7. Position[q] > Position[Question]
  BY <1>2, <1>5, <1>6, Positions
<1> QED
  BY <1>2, <1>5, <1>7 DEF Unanswered, After

LEMMA GoInOrder ==
  ASSUME IInv, Continue \/ Back, Orderly(shown), ~shown.completed
  PROVE  /\ shown \in Interviews /\ shown' \in Interviews /\ Orderly(shown')
         /\ shown'.answers = shown.answers /\ shown'.completed = FALSE
         /\ Ask(Save("shown", shown')) /\ screen = "asking"
         /\ UNCHANGED <<screen, override, before, files, task>>
<1>1. PICK q \in visibleQuestions(shown.answers) :
        /\ GoTo(q)
        /\ \/ CanContinue /\ Unanswered # {} /\ q = First(Unanswered)
           \/ Position[q] < Position[Question]
  BY Goes
<1>2. shown \in Interviews
  BY Goes
<1>3. /\ shown' \in Interviews /\ shown'.answers = shown.answers
      /\ shown'.resolved = shown.resolved
      /\ shown'.current = q /\ shown'.completed = shown.completed
  BY <1>1, <1>2, GoToShows, VisibleAreAsked
<1>4. QuestionOf(shown') = q /\ visibleQuestions(shown'.answers) = visibleQuestions(shown.answers)
  BY <1>3 DEF QuestionOf
<1>5. ASSUME Undecided(shown'), NEW p \in Required(shown), shown.answers[p] = None
      PROVE  Position[q] <= Position[p]
  <2>1. Undecided(shown)
    BY <1>3, <1>5 DEF Undecided
  <2>2. CASE CanContinue /\ Unanswered # {} /\ q = First(Unanswered)
    <3>1. p \in Unanswered
      BY <1>2, <1>5, <2>1, <2>2, OpenQuestions
    <3>2. Unanswered \subseteq Questions
      BY VisibleAreAsked DEF Unanswered, After
    <3> QED
      BY <2>2, <3>1, <3>2, FirstOf
  <2>3. CASE Position[q] < Position[Question]
    <3>1. Question = QuestionOf(shown) /\ Question \in visibleQuestions(shown.answers)
      BY <1>2, QuestionIsVisible DEF Question, QuestionOf
    <3>2. Position[Question] <= Position[p]
      BY <1>5, <2>1, <3>1 DEF Orderly, NothingBehind
    <3>3. p \in Questions /\ q \in Questions /\ Question \in Questions
      BY <3>1, VisibleAreAsked DEF Required
    <3> QED
      BY <2>3, <3>2, <3>3, Positions
  <2> QED
    BY <1>1, <2>2, <2>3
<1>6. NothingBehind(shown')
  BY <1>3, <1>4, <1>5 DEF NothingBehind, Required
<1>7. CurrentIsFirst(shown')
  BY <1>3, <1>4 DEF CurrentIsFirst
<1>8. /\ Ask(Save("shown", shown')) /\ screen = "asking"
      /\ UNCHANGED <<screen, override, before, files, task>>
  BY <1>1 DEF GoTo, Continue, Back
<1> QED
  BY <1>2, <1>3, <1>6, <1>7, <1>8 DEF Orderly

\* An interview that is completed left nothing open.
LEMMA FinishInOrder ==
  ASSUME IInv, Finish, Orderly(shown)
  PROVE  \E i \in Interviews :
           /\ Starts("continue", i) /\ Orderly(i)
           /\ i.answers = shown.answers /\ i.completed = TRUE
<1> DEFINE i == [shown EXCEPT !.completed = TRUE]
<1>1. shown \in Interviews /\ CanContinue /\ Unanswered = {} /\ Starts("continue", i)
  BY DEF IInv, Scalars, Finish
<1>4. /\ i \in Interviews /\ i.answers = shown.answers /\ i.resolved = shown.resolved
      /\ i.current = shown.current /\ i.completed = TRUE
  BY <1>1 DEF Interviews
<1> HIDE DEF i
<1>5. ASSUME Undecided(i), NEW q \in Required(i)
      PROVE  i.answers[q] # None
  <2>1. Undecided(shown) /\ q \in Required(shown)
    BY <1>4, <1>5 DEF Undecided, Required
  <2> QED
    BY <1>1, <1>4, <2>1, OpenQuestions
<1>6. NothingBehind(i) /\ CurrentIsFirst(i)
  BY <1>4, <1>5 DEF NothingBehind, Orderly, CurrentIsFirst
<1> QED
  BY <1>1, <1>4, <1>6 DEF Orderly

\* Answers that differ only in amounts that documents prove.
SameOutside(a, b) == \A q \in Questions \ Documented : a[q] = b[q]

LEMMA SameVisible ==
  ASSUME NEW a, NEW b, SameOutside(a, b)
  PROVE  visibleQuestions(a) = visibleQuestions(b)
<1>1. Drivers \subseteq Questions \ Documented
  BY Places, QuestionNames DEF Drivers, Earnings
<1> QED
  BY <1>1, DriversDecide DEF SameOutside

LEMMA ResolvedInOrder ==
  ASSUME documents \in DocumentType, NEW i \in Interviews, NEW e \in Conflicts(i),
         NEW v \in {e.value, i.answers[e.id]}, Orderly(i),
         "employmentGrossCents" \in Documented => "residentPortugal" \in Asked
  PROVE  LET r == applyConflictResolution(i, e, v)
         IN  /\ r \in Interviews /\ r.completed = i.completed /\ Orderly(r)
             /\ "employmentGrossCents" \notin Documented => SameOutside(r.answers, i.answers)
<1> DEFINE r == applyConflictResolution(i, e, v)
<1>1. /\ r \in Interviews /\ r.completed = i.completed /\ r.current = i.current
      /\ r.answers = [i.answers EXCEPT ![e.id] = v]
      /\ ~Undecided(r) /\ e \in Evidence
  BY ResolutionType
<1> HIDE DEF r
<1>2. e.id \in Documented \cup {"employmentIncome"}
      /\ (e.id = "employmentIncome" => "employmentGrossCents" \in Documented)
  BY <1>1, EvidenceType
<1>3. i.answers \in [Questions -> AllChoices \cup {None}]
  BY InterviewParts, AnswersGive
<1>4. "employmentGrossCents" \notin Documented => SameOutside(r.answers, i.answers)
  BY <1>1, <1>2, <1>3 DEF SameOutside
<1>5. CurrentIsFirst(r)
  BY <1>1, <1>4, SameVisible DEF Orderly, CurrentIsFirst
<1> QED
  BY <1>1, <1>4, <1>5 DEF Orderly, NothingBehind, r

LEMMA ReconciledInOrder ==
  ASSUME NEW i \in Interviews, NEW old \in DocumentType, NEW new \in DocumentType,
         Orderly(i), i.completed = TRUE,
         "employmentGrossCents" \in Documented =>
            {"residentPortugal", "employmentIncome"} \subseteq Asked
  PROVE  LET r == reconcile(i, old, new)
         IN  /\ r \in Interviews /\ r.completed = i.completed /\ Orderly(r)
             /\ "employmentGrossCents" \notin Documented => SameOutside(r.answers, i.answers)
<1> DEFINE r == reconcile(i, old, new)
<1>1. /\ r \in Interviews /\ r.completed = i.completed /\ r.current = i.current
      /\ r.resolved = i.resolved
  BY ReconcileType
<1>6. ASSUME NEW q \in Questions \ Documented, r.answers[q] # i.answers[q]
      PROVE  /\ q = "employmentIncome" /\ i.answers[q] = None
             /\ "employmentGrossCents" \in Documented
  BY <1>6, ReconcileType
<1> HIDE DEF r
<1>2. "employmentGrossCents" \notin Documented => SameOutside(r.answers, i.answers)
  BY <1>6 DEF SameOutside
<1>3. ASSUME Undecided(r)
      PROVE  SameOutside(r.answers, i.answers)
  <2>1. CASE "employmentGrossCents" \notin Documented
    BY <1>2, <2>1
  <2>2. CASE "employmentGrossCents" \in Documented
    <3>1. Undecided(i)
      BY <1>1, <1>3 DEF Undecided
    <3>2. "employmentIncome" \in Required(i)
      BY <2>2, Places
         DEF Required, visibleQuestions, Visible, Earnings, Optional
    <3>3. i.answers["employmentIncome"] # None
      BY <3>1, <3>2 DEF Orderly, NothingBehind
    <3> QED
      BY <1>6, <3>3 DEF SameOutside
  <2> QED
    BY <2>1, <2>2
<1>4. NothingBehind(r)
  <2> SUFFICES ASSUME Undecided(r), NEW q \in Required(r)
               PROVE  r.answers[q] # None
    BY DEF NothingBehind
  <2>1. Undecided(i) /\ SameOutside(r.answers, i.answers)
    BY <1>1, <1>3 DEF Undecided
  <2>2. q \in Required(i) /\ q \in Questions \ Documented
    BY <2>1, SameVisible, VisibleAreAsked DEF Required
  <2>3. i.answers[q] # None
    BY <2>1, <2>2 DEF Orderly, NothingBehind
  <2> QED
    BY <2>1, <2>2, <2>3 DEF SameOutside
<1>5. CurrentIsFirst(r)
  BY <1>1, <1>2, SameVisible DEF Orderly, CurrentIsFirst
<1> QED
  BY <1>1, <1>2, <1>4, <1>5 DEF Orderly, r

\* The whole questionnaire asks these; a smaller one that lets documents prove the
\* income has to ask them too.
Regular ==
    "employmentGrossCents" \in Documented =>
        {"residentPortugal", "employmentIncome"} \subseteq Asked

\* The user waits for the handlers of the review.
ReviewIsPatient == {"resolve", "documents"} \subseteq Patient

OfReview(t) == t # None /\ t.by \in {"resolve", "documents"}

\* What is shown while it is asked is not completed, what is reviewed is.
Course ==
    /\ screen = "asking" => shown.completed = FALSE
    /\ screen \in {"review", "documents"} => shown.completed = TRUE
    /\ screen \in {"loading", "failed"} => shown = None
    /\ override # None => override.completed = TRUE
    /\ task # None => task.interview.completed = TRUE
    /\ OfReview(task) => task.mounted = TRUE /\ screen = "review"

\* A resolution changes no question that is asked, unless it is of the employment.
Alike ==
    "employmentGrossCents" \notin Documented =>
        /\ override # None => SameOutside(override.answers, shown.answers)
        /\ OfReview(task) => SameOutside(task.interview.answers, shown.answers)

AllOrderly ==
    /\ shown # None => Orderly(shown)
    /\ override # None => Orderly(override)
    /\ stored # None => Orderly(stored)
    /\ task # None => Orderly(task.interview)
    /\ \A i \in DOMAIN calls : calls[i].what = "shown" => Orderly(calls[i].of)

QInv == Course /\ Alike /\ AllOrderly

\* Where the calls that are left come from.
LEMMA Left ==
  ASSUME IInv, calls # << >>
  PROVE  /\ 1 \in DOMAIN calls /\ Head(calls) = calls[1]
         /\ \A i \in DOMAIN Tail(calls) :
              i \in Nat \ {0} /\ i + 1 \in DOMAIN calls /\ Tail(calls)[i] = calls[i + 1]
         /\ \A c \in Calls : \A i \in DOMAIN Append(Tail(calls), c) :
              \/ i \in DOMAIN Tail(calls) /\ Append(Tail(calls), c)[i] = Tail(calls)[i]
              \/ i = Len(calls) /\ Append(Tail(calls), c)[i] = c
<1> DEFINE rest == Tail(calls)
<1>1. /\ rest \in Seq(Calls) /\ DOMAIN rest = 1 .. Len(calls) - 1
      /\ Len(rest) = Len(calls) - 1 /\ Len(calls) \in Nat \ {0}
      /\ DOMAIN calls = 1 .. Len(calls)
      /\ 1 \in DOMAIN calls /\ Head(calls) = calls[1]
      /\ \A i \in DOMAIN rest : i + 1 \in DOMAIN calls /\ rest[i] = calls[i + 1]
  BY Taken DEF IInv, Waiting
<1> HIDE DEF rest
<1>2. ASSUME NEW c \in Calls, NEW i \in DOMAIN Append(rest, c)
      PROVE  \/ i \in DOMAIN rest /\ Append(rest, c)[i] = rest[i]
             \/ i = Len(calls) /\ Append(rest, c)[i] = c
  <2> DEFINE new == Append(rest, c)
  <2>1. rest \in Seq(Calls)
    BY <1>1
  <2>2. /\ DOMAIN new = 1 .. Len(rest) + 1 /\ DOMAIN rest = 1 .. Len(rest)
        /\ Len(rest) \in Nat
        /\ \A j \in DOMAIN rest : new[j] = rest[j]
        /\ new[Len(rest) + 1] = c
    BY <2>1, Appended
  <2>3. i \in DOMAIN new
    BY <1>2
  <2> HIDE DEF new
  <2>4. i \in DOMAIN rest \/ i = Len(rest) + 1
    BY <2>2, <2>3
  <2>5. Len(rest) + 1 = Len(calls)
    BY <1>1
  <2> QED
    BY <2>2, <2>4, <2>5 DEF new
<1>3. \A i \in DOMAIN rest : i \in Nat \ {0}
  BY <1>1
<1> QED
  BY <1>1, <1>2, <1>3 DEF rest

LEMMA InitQInv ==
  ASSUME Init
  PROVE  QInv
BY DEF Init, QInv, Course, Alike, AllOrderly, OfReview

LEMMA PlainTakenQ ==
  ASSUME IInv, QInv, Loaded \/ LoadFails \/ LoadedUnmounted \/ Persisted
  PROVE  QInv'
<1>1. calls # << >> /\ calls' = Tail(calls) /\ task' = task /\ override' = override
  BY DEF Loaded, LoadFails, LoadedUnmounted, Persisted, Take, files, ui
<1>2. \A i \in DOMAIN calls' : calls'[i].what = "shown" => Orderly(calls'[i].of)
  BY <1>1, Left DEF QInv, AllOrderly
<1>3. Head(calls).what = "shown" => Orderly(Head(calls).of)
  BY <1>1, Left DEF QInv, AllOrderly
<1>4. (Loaded \/ LoadFails) => screen = "loading" /\ override = None /\ ~OfReview(task)
                                /\ shown = None /\ stored' = stored
  <2> SUFFICES ASSUME Loaded \/ LoadFails
               PROVE  screen = "loading" /\ override = None /\ ~OfReview(task)
                      /\ shown = None /\ stored' = stored
    OBVIOUS
  <2>1. Head(calls).what = "load" /\ stored' = stored
    BY DEF Loaded, LoadFails, Take, files
  <2>2. screen = "loading"
    BY <1>1, <2>1, Delivered
  <2> QED
    BY <2>1, <2>2 DEF IInv, Scalars, QInv, Course
<1>5. Loaded => QInv'
  <2> SUFFICES ASSUME Loaded
               PROVE  QInv'
    OBVIOUS
  <2>1. /\ shown' \in Interviews /\ Orderly(shown')
        /\ screen' = IF shown'.completed THEN "review" ELSE "asking"
    <3>1. shown' = IF stored = None THEN Prefill(profile) ELSE stored
      BY DEF Loaded
    <3>2. Prefill(profile) \in Interviews /\ Orderly(Prefill(profile))
      BY PrefillType, PrefillInOrder DEF IInv, Scalars
    <3>3. stored # None => stored \in Interviews /\ Orderly(stored)
      BY DEF IInv, Scalars, QInv, AllOrderly
    <3> QED
      BY <3>1, <3>2, <3>3 DEF Loaded
  <2>2. shown'.completed \in BOOLEAN
    BY <2>1, InterviewParts
  <2>3. \/ shown'.completed = TRUE /\ screen' = "review"
        \/ shown'.completed = FALSE /\ screen' = "asking"
    BY <2>1, <2>2
  <2>4. Course'
    BY <1>1, <1>4, <2>3 DEF QInv, Course, OfReview
  <2>5. Alike'
    BY <1>1, <1>4 DEF Alike, OfReview
  <2>6. AllOrderly'
    BY <1>1, <1>2, <1>4, <2>1 DEF QInv, AllOrderly
  <2> QED
    BY <2>4, <2>5, <2>6 DEF QInv
<1>6. LoadFails => QInv'
  <2> SUFFICES ASSUME LoadFails
               PROVE  QInv'
    OBVIOUS
  <2>1. screen' = "failed" /\ shown' = shown
    BY DEF LoadFails
  <2> QED
    BY <1>1, <1>2, <1>4, <2>1 DEF QInv, Course, Alike, AllOrderly, OfReview
<1>7. (LoadedUnmounted \/ Persisted) => QInv'
  <2> SUFFICES ASSUME LoadedUnmounted \/ Persisted
               PROVE  QInv'
    OBVIOUS
  <2>1. /\ screen' = screen /\ shown' = shown
        /\ stored' = stored \/ (Head(calls).what = "shown" /\ stored' = Head(calls).of)
    BY DEF LoadedUnmounted, Persisted, Take, ui, files
  <2>2. Course' /\ Alike'
    BY <1>1, <2>1 DEF QInv, Course, Alike, OfReview
  <2>3. AllOrderly'
    BY <1>1, <1>2, <1>3, <2>1 DEF QInv, AllOrderly
  <2> QED
    BY <2>2, <2>3 DEF QInv
<1> QED
  BY <1>5, <1>6, <1>7

LEMMA ShowsQ ==
  ASSUME IInv, QInv, task \in Tasks, Show
  PROVE  /\ Course' /\ Alike'
         /\ shown' # None => Orderly(shown')
         /\ override' # None => Orderly(override')
<1>1. /\ task # None /\ task.interview.completed = TRUE /\ Orderly(task.interview)
      /\ task.by \in {"continue", "resolve", "documents"}
  BY NoneAssumption DEF QInv, Course, AllOrderly, Tasks
<1>2. task' = None /\ ~OfReview(task)'
  BY DEF Show, OfReview
<1>3. /\ OfReview(task) => screen = "review"
      /\ "employmentGrossCents" \notin Documented =>
           /\ override # None => SameOutside(override.answers, shown.answers)
           /\ OfReview(task) => SameOutside(task.interview.answers, shown.answers)
      /\ screen = "asking" => override = None
      /\ task.mounted /\ task.by = "continue" => screen = "asking"
  BY <1>1 DEF QInv, Course, Alike, IInv, Scalars, Owner
<1>4. CASE /\ task.mounted /\ task.by = "continue" /\ shown' = task.interview
           /\ screen' = "review" /\ override' = override
  <2>1. override' = None
    BY <1>3, <1>4
  <2> QED
    BY <1>1, <1>2, <1>4, <2>1 DEF Course, Alike, OfReview
<1>5. CASE /\ task.mounted /\ task.by = "documents" /\ shown' = task.interview
           /\ screen' = screen /\ override' = override
  <2>1. screen' = "review"
    BY <1>1, <1>3, <1>5 DEF OfReview
  <2>2. "employmentGrossCents" \notin Documented /\ override # None =>
           SameOutside(override.answers, task.interview.answers)
    BY <1>1, <1>3, <1>5 DEF OfReview, SameOutside
  <2> QED
    BY <1>1, <1>2, <1>5, <2>1, <2>2 DEF QInv, Course, Alike, AllOrderly, OfReview
<1>6. CASE /\ task.mounted /\ task.by = "resolve" /\ override' = task.interview
           /\ screen' = screen /\ shown' = shown
  BY <1>1, <1>2, <1>3, <1>6 DEF QInv, Course, Alike, AllOrderly, OfReview
<1>7. CASE screen' = screen /\ shown' = shown /\ override' = override
  BY <1>1, <1>2, <1>7 DEF QInv, Course, Alike, AllOrderly, OfReview
<1> QED
  BY <1>4, <1>5, <1>6, <1>7 DEF Show

LEMMA AwaitedTakenQ ==
  ASSUME IInv, QInv, ProductSaved \/ InterviewSaved \/ SimulationSaved
  PROVE  QInv'
<1>1. calls # << >> /\ Head(calls).what \in Awaited
  BY DEF ProductSaved, InterviewSaved, SimulationSaved, Take, Awaited
<1>2. task \in Tasks /\ Carries(Head(calls), task)
  BY <1>1, Delivered
<1>3. task # None /\ Orderly(task.interview)
  BY <1>2, NoneAssumption DEF QInv, AllOrderly
<1>4. stored' # None => Orderly(stored')
  <2>1. \/ stored' = stored
        \/ Head(calls).what = "interview" /\ stored' = Head(calls).of
    BY DEF ProductSaved, InterviewSaved, SimulationSaved, Take
  <2> QED
    BY <1>2, <1>3, <2>1 DEF Carries, QInv, AllOrderly
<1>5. \A i \in DOMAIN Tail(calls) : Tail(calls)[i].what = "shown" => Orderly(Tail(calls)[i].of)
  BY <1>1, Left DEF QInv, AllOrderly
<1>6. ASSUME NEW c \in Calls, c.what \in Awaited, calls' = Append(Tail(calls), c),
             UNCHANGED <<screen, shown, override, task>>
      PROVE  QInv'
  <2>1. \A i \in DOMAIN calls' : calls'[i].what = "shown" => Orderly(calls'[i].of)
    BY <1>1, <1>5, <1>6, Left DEF Awaited
  <2>2. Course' /\ Alike'
    BY <1>6 DEF QInv, Course, Alike, OfReview
  <2>3. AllOrderly'
    BY <1>4, <1>6, <2>1 DEF QInv, AllOrderly
  <2> QED
    BY <2>2, <2>3 DEF QInv
<1>7. ASSUME calls' = Tail(calls), Show
      PROVE  QInv'
  <2>1. Course' /\ Alike' /\ (shown' # None => Orderly(shown'))
        /\ (override' # None => Orderly(override')) /\ task' = None
    BY <1>2, <1>7, ShowsQ DEF Show
  <2>2. AllOrderly'
    BY <1>4, <1>5, <1>7, <2>1 DEF AllOrderly
  <2> QED
    BY <2>1, <2>2 DEF QInv
<1>8. ProductSaved => QInv'
  <2> SUFFICES ASSUME ProductSaved
               PROVE  QInv'
    OBVIOUS
  <2> DEFINE c == Save("interview", task.interview)
  <2>1. c \in Calls /\ c.what \in Awaited
    BY <1>2 DEF Save, Calls, Awaited, Tasks
  <2>2. \/ calls' = Append(Tail(calls), c) /\ UNCHANGED <<screen, shown, override, task>>
        \/ calls' = Tail(calls) /\ Show
    BY DEF ProductSaved, Show, ui
  <2> HIDE DEF c
  <2> QED
    BY <1>6, <1>7, <2>1, <2>2
<1>9. InterviewSaved => QInv'
  <2> SUFFICES ASSUME InterviewSaved
               PROVE  QInv'
    OBVIOUS
  <2> DEFINE c == Save("simulation", simulationFromInterview(task.interview.answers))
  <2>1. Estimates => c \in Calls /\ c.what \in Awaited
    <3>1. task.interview.answers \in Answers
      BY <1>2, InterviewParts DEF Tasks
    <3> QED
      BY <3>1, SimulationType DEF Estimates, Save, Calls, Awaited
  <2>2. \/ /\ Estimates
           /\ calls' = Append(Tail(calls), c) /\ UNCHANGED <<screen, shown, override, task>>
        \/ calls' = Tail(calls) /\ Show
    BY DEF InterviewSaved
  <2> HIDE DEF c
  <2> QED
    BY <1>6, <1>7, <2>1, <2>2
<1>10. SimulationSaved => QInv'
  BY <1>7 DEF SimulationSaved
<1> QED
  BY <1>8, <1>9, <1>10

\* The user who acts while a handler runs has left the questions.
LEMMA NotInReview ==
  ASSUME ReviewIsPatient, UserActs
  PROVE  ~OfReview(task)
BY DEF ReviewIsPatient, UserActs, OfReview

LEMMA AskingQ ==
  ASSUME IInv, QInv, ReviewIsPatient,
         Open \/ (\E v \in Values : SetAnswer(v)) \/ Continue \/ Back
  PROVE  QInv'
<1>1. /\ Len(calls) < MaxCalls /\ UNCHANGED <<override, before, files, task>>
      /\ screen \in {"home", "asking"}
  BY DEF Open, SetAnswer, Continue, Back, UserActs, GoTo
<1>2. override = None /\ ~OfReview(task) /\ UNCHANGED stored
  BY <1>1, NotInReview DEF IInv, Scalars, Open, SetAnswer, Continue, Back, files
<1>3. ASSUME Ask(Save("shown", shown')), Orderly(shown'), shown' \in Interviews,
             shown'.completed = FALSE, screen = "asking", screen' = screen
      PROVE  QInv'
  <2> DEFINE c == Save("shown", shown')
  <2>1. c \in Calls /\ c.of = shown'
    BY <1>3 DEF Save, Calls
  <2>2. Ask(c)
    BY <1>3
  <2> HIDE DEF c
  <2>3. \A i \in DOMAIN calls' : calls'[i].what = "shown" => Orderly(calls'[i].of)
    <3>1. \A i \in DOMAIN calls' : calls'[i] = c \/ (i \in DOMAIN calls /\ calls'[i] = calls[i])
      BY <1>1, <2>1, <2>2, Asks
    <3> QED
      BY <1>3, <2>1, <3>1 DEF QInv, AllOrderly
  <2>4. Course' /\ Alike'
    BY <1>1, <1>2, <1>3 DEF QInv, Course, Alike, OfReview
  <2>5. AllOrderly'
    BY <1>1, <1>2, <1>3, <2>3 DEF QInv, AllOrderly
  <2> QED
    BY <2>4, <2>5 DEF QInv
<1>4. Open => QInv'
  <2> SUFFICES ASSUME Open
               PROVE  QInv'
    OBVIOUS
  <2>1. screen' = "loading" /\ shown' = None /\ Ask(Load)
    BY DEF Open
  <2>2. Load \in Calls /\ Load.what = "load"
    BY DEF Load, Calls
  <2>3. \A i \in DOMAIN calls' : calls'[i].what = "shown" => Orderly(calls'[i].of)
    <3>1. \A i \in DOMAIN calls' : calls'[i] = Load \/ (i \in DOMAIN calls /\ calls'[i] = calls[i])
      BY <1>1, <2>1, <2>2, Asks
    <3> QED
      BY <2>2, <3>1 DEF QInv, AllOrderly
  <2>4. Course' /\ Alike'
    BY <1>1, <1>2, <2>1 DEF QInv, Course, Alike, OfReview
  <2>5. AllOrderly'
    BY <1>1, <1>2, <2>1, <2>3 DEF QInv, AllOrderly
  <2> QED
    BY <2>4, <2>5 DEF QInv
<1>5. (\E v \in Values : SetAnswer(v)) => QInv'
  <2> SUFFICES ASSUME NEW v \in Values, SetAnswer(v)
               PROVE  QInv'
    OBVIOUS
  <2>1. /\ screen = "asking" /\ screen' = screen /\ Ask(Save("shown", shown'))
        /\ shown.completed = FALSE
    BY DEF SetAnswer, QInv, Course
  <2>2. /\ shown \in Interviews /\ shown' \in Interviews
        /\ Question = QuestionOf(shown) /\ v \in Choices(Question)
        /\ shown'.answers = answer(shown, Question, v).answers
        /\ shown'.resolved = shown.resolved
        /\ shown'.current = shown.current /\ shown'.completed = shown.completed
    BY SetAnswerShows DEF Question, QuestionOf
  <2>3. Orderly(shown)
    BY <2>2, NoneAssumption DEF QInv, AllOrderly
  <2>4. ~shown.completed
    BY <2>1
  <2>5. Orderly(shown')
    BY <2>2, <2>3, <2>4, AnswerInOrder
  <2> QED
    BY <1>3, <2>1, <2>2, <2>5
<1>6. (Continue \/ Back) => QInv'
  <2> SUFFICES ASSUME Continue \/ Back
               PROVE  QInv'
    OBVIOUS
  <2>1. screen = "asking" /\ shown \in Interviews /\ shown # None
    BY DEF Continue, Back, IInv, Scalars
  <2>2. Orderly(shown) /\ ~shown.completed
    BY <2>1 DEF QInv, AllOrderly, Course
  <2>3. /\ shown' \in Interviews /\ Orderly(shown') /\ shown'.completed = FALSE
        /\ Ask(Save("shown", shown')) /\ screen = "asking" /\ screen' = screen
    BY <2>2, GoInOrder
  <2> QED
    BY <1>3, <2>3
<1> QED
  BY <1>4, <1>5, <1>6

LEMMA BeginningQ ==
  ASSUME IInv, QInv, Regular, Finish \/ Resolve \/ (CloseDocuments /\ task' # task)
  PROVE  QInv'
<1>1. ASSUME NEW by \in {"continue", "resolve", "documents"}, NEW i \in Interviews,
             Starts(by, i), Orderly(i), i.completed = TRUE, task = None, Len(calls) < MaxCalls,
             UNCHANGED <<shown, override, files>>,
             by = "continue" => screen' = "asking" /\ screen = "asking",
             by # "continue" => screen' = "review" /\ screen \in {"review", "documents"},
             "employmentGrossCents" \notin Documented /\ by # "continue" =>
                SameOutside(i.answers, shown.answers)
      PROVE  QInv'
  <2>1. /\ task' = [by |-> by, interview |-> i, mounted |-> TRUE]
        /\ \A j \in DOMAIN calls' :
              \/ calls'[j] = Save("product", profileFromInterview(i.answers, profile))
              \/ j \in DOMAIN calls /\ calls'[j] = calls[j]
    BY <1>1, Started
  <2>2. \A j \in DOMAIN calls' : calls'[j].what = "shown" =>
           j \in DOMAIN calls /\ calls'[j] = calls[j]
    BY <2>1 DEF Save
  <2>3. /\ task'.interview = i /\ task'.by = by /\ task'.mounted = TRUE /\ UNCHANGED stored
    BY <1>1, <2>1 DEF files
  <2>4. Course'
    BY <1>1, <2>3 DEF QInv, Course, OfReview
  <2>5. Alike'
    BY <1>1, <2>3 DEF QInv, Alike, OfReview
  <2>6. AllOrderly'
    BY <1>1, <2>2, <2>3 DEF QInv, AllOrderly
  <2> QED
    BY <2>4, <2>5, <2>6 DEF QInv
<1>2. Finish => QInv'
  <2> SUFFICES ASSUME Finish
               PROVE  QInv'
    OBVIOUS
  <2>1. /\ screen = "asking" /\ screen' = screen /\ task = None /\ Len(calls) < MaxCalls
        /\ UNCHANGED <<shown, override, files>> /\ shown # None
    BY DEF Finish, UserActs, ui, IInv, Scalars
  <2>2. \E i \in Interviews : Starts("continue", i) /\ Orderly(i) /\ i.completed = TRUE
    BY <2>1, FinishInOrder DEF QInv, AllOrderly
  <2> QED
    BY <1>1, <2>1, <2>2
<1>3. Resolve => QInv'
  <2> SUFFICES ASSUME Resolve
               PROVE  QInv'
    OBVIOUS
  <2>1. /\ screen = "review" /\ screen' = screen /\ task = None /\ Len(calls) < MaxCalls
        /\ Displayed \in Interviews /\ UNCHANGED <<shown, override, files>>
        /\ documents \in DocumentType
    BY Resolves DEF Resolve, ui, IInv, Scalars
  <2>2. PICK e \in Conflicts(Displayed) : \E v \in {e.value, Displayed.answers[e.id]} :
          Starts("resolve", applyConflictResolution(Displayed, e, v))
    BY Resolves
  <2>3. PICK v \in {e.value, Displayed.answers[e.id]} :
          Starts("resolve", applyConflictResolution(Displayed, e, v))
    BY <2>2
  <2> DEFINE r == applyConflictResolution(Displayed, e, v)
  <2>4. /\ Orderly(Displayed) /\ Displayed.completed = TRUE
        /\ "employmentGrossCents" \notin Documented =>
             SameOutside(Displayed.answers, shown.answers)
    BY <2>1 DEF Displayed, QInv, AllOrderly, Course, Alike, SameOutside, IInv, Scalars
  <2>5. /\ r \in Interviews /\ r.completed = Displayed.completed /\ Orderly(r)
        /\ "employmentGrossCents" \notin Documented =>
             SameOutside(r.answers, Displayed.answers)
    BY <2>1, <2>4, ResolvedInOrder DEF Regular
  <2>6. Starts("resolve", r)
    BY <2>3
  <2> HIDE DEF r
  <2>7. "employmentGrossCents" \notin Documented => SameOutside(r.answers, shown.answers)
    BY <2>4, <2>5 DEF SameOutside
  <2>8. r.completed = TRUE
    BY <2>4, <2>5
  <2> QED
    BY <1>1, <2>1, <2>5, <2>6, <2>7, <2>8
<1>4. CloseDocuments /\ task' # task => QInv'
  <2> SUFFICES ASSUME CloseDocuments, task' # task
               PROVE  QInv'
    OBVIOUS
  <2>1. screen' = "review" /\ UNCHANGED <<shown, override, files>>
    BY DEF CloseDocuments
  <2> DEFINE r == reconcile(shown, before, documents)
  <2>2. /\ screen = "documents" /\ task = None /\ Len(calls) < MaxCalls
        /\ shown \in Interviews /\ before \in DocumentType /\ documents \in DocumentType
        /\ Starts("documents", r)
    BY Reconciles DEF IInv, Scalars
  <2>3. Orderly(shown) /\ shown.completed = TRUE
    BY <2>2, NoneAssumption DEF QInv, AllOrderly, Course
  <2>4. /\ r \in Interviews /\ r.completed = shown.completed /\ Orderly(r)
        /\ "employmentGrossCents" \notin Documented => SameOutside(r.answers, shown.answers)
    BY <2>2, <2>3, ReconciledInOrder DEF Regular
  <2> HIDE DEF r
  <2>5. r.completed = TRUE
    BY <2>3, <2>4
  <2> QED
    BY <1>1, <2>1, <2>2, <2>4, <2>5
<1> QED
  BY <1>2, <1>3, <1>4

LEMMA BrowsingQ ==
  ASSUME IInv, QInv, ReviewIsPatient, Regular,
         \/ Edit \/ OpenDocuments \/ (CloseDocuments /\ task' = task)
         \/ \E q \in Documented, v \in Proven \cup {None} : SetDocument(q, v)
  PROVE  QInv'
<1>1. Edit => QInv'
  <2> SUFFICES ASSUME Edit
               PROVE  QInv'
    OBVIOUS
  <2>1. ~OfReview(task)
    BY NotInReview DEF Edit
  <2>2. /\ screen' = "asking" /\ override' = None /\ UNCHANGED <<calls, stored>>
        /\ task' = task
    BY <2>1 DEF Edit, files, OfReview
  <2>3. /\ screen = "review" /\ shown \in Interviews /\ shown' \in Interviews
        /\ shown'.answers = shown.answers /\ shown'.resolved = shown.resolved
        /\ shown'.completed = FALSE
        /\ shown'.current \in visibleQuestions(Displayed.answers) \cup ({"region"} \cap Asked)
    BY EditShows
  <2>4. Orderly(shown) /\ shown.completed = TRUE
    BY <2>3, NoneAssumption DEF QInv, AllOrderly, Course
  <2>5. NothingBehind(shown')
    <3> SUFFICES ASSUME Undecided(shown'), NEW q \in Required(shown')
                 PROVE  shown'.answers[q] # None
      BY DEF NothingBehind
    <3>1. Undecided(shown) /\ q \in Required(shown)
      BY <2>3 DEF Undecided, Required
    <3> QED
      BY <2>3, <2>4, <3>1 DEF Orderly, NothingBehind
  <2>6. CurrentIsFirst(shown')
    <3>1. "employmentGrossCents" \notin Documented =>
             visibleQuestions(Displayed.answers) = visibleQuestions(shown.answers)
      BY SameVisible DEF QInv, Alike, Displayed
    <3> QED
      BY <2>3, <3>1 DEF CurrentIsFirst, Regular
  <2>7. Course' /\ Alike'
    BY <2>1, <2>2, <2>3 DEF QInv, Course, Alike, OfReview
  <2>8. AllOrderly'
    BY <2>2, <2>5, <2>6 DEF QInv, AllOrderly, Orderly
  <2> QED
    BY <2>7, <2>8 DEF QInv
<1>2. OpenDocuments => QInv'
  <2> SUFFICES ASSUME OpenDocuments
               PROVE  QInv'
    OBVIOUS
  <2>1. ~OfReview(task)
    BY NotInReview DEF OpenDocuments
  <2>2. /\ screen = "review" /\ screen' = "documents"
        /\ UNCHANGED <<shown, override, stored, calls, task>>
    BY DEF OpenDocuments, files
  <2> QED
    BY <2>1, <2>2 DEF QInv, Course, Alike, AllOrderly, OfReview
<1>3. CloseDocuments /\ task' = task => QInv'
  <2> SUFFICES ASSUME CloseDocuments, task' = task
               PROVE  QInv'
    OBVIOUS
  <2>1. /\ screen = "documents" /\ task = None /\ screen' = "review"
        /\ UNCHANGED <<shown, override, files>>
    BY DEF CloseDocuments
  <2>2. UNCHANGED <<calls, stored>>
    BY <2>1, NoneAssumption, Reconciles, Started DEF files
  <2> QED
    BY <2>1, <2>2 DEF QInv, Course, Alike, AllOrderly, OfReview
<1>4. ASSUME NEW q \in Documented, NEW v \in Proven \cup {None}, SetDocument(q, v)
      PROVE  QInv'
  <2>1. UNCHANGED <<screen, shown, override, stored, calls, task>>
    BY <1>4 DEF SetDocument, ui
  <2> QED
    BY <2>1 DEF QInv, Course, Alike, AllOrderly, OfReview
<1> QED
  BY <1>1, <1>2, <1>3, <1>4

LEMMA LeavingQ ==
  ASSUME IInv, QInv, ReviewIsPatient, Pop \/ Killed
  PROVE  QInv'
<1>1. Pop => QInv'
  <2> SUFFICES ASSUME Pop
               PROVE  QInv'
    OBVIOUS
  <2>1. /\ screen \in {"loading", "failed", "asking", "review"} /\ screen' = "home"
        /\ override' = None /\ UNCHANGED <<shown, stored>> /\ Len(calls) < MaxCalls
        /\ ~OfReview(task)
    BY NotInReview DEF Pop, UserActs, IInv, Scalars, files
  <2>2. /\ task' = None \/ (task' # None /\ task # None)
        /\ task' # None => task'.interview = task.interview /\ task'.by = task.by
    <3>1. task # None => task \in Tasks
      BY DEF IInv, Scalars
    <3> QED
      BY <3>1 DEF Pop, Tasks
  <2>3. ASSUME NEW i \in DOMAIN calls', calls'[i].what = "shown"
        PROVE  Orderly(calls'[i].of)
    <3>1. CASE screen = "loading" /\ calls' = Abandoned
      <4>1. i \in DOMAIN calls /\ (calls'[i] = calls[i] \/ calls'[i] = Save("unmounted", None))
        BY <2>3, <3>1, Abandons DEF IInv
      <4> QED
        BY <2>3, <4>1 DEF Save, QInv, AllOrderly
    <3>2. CASE screen = "failed" /\ UNCHANGED calls
      BY <2>3, <3>2 DEF QInv, AllOrderly
    <3>3. CASE screen \in {"asking", "review"} /\ Ask(Save("shown", shown))
      <4> DEFINE c == Save("shown", shown)
      <4>1. c \in Calls /\ c.of = shown /\ Orderly(shown)
        BY <3>3, NoneAssumption DEF IInv, Scalars, Save, Calls, QInv, AllOrderly
      <4>2. Ask(c)
        BY <3>3
      <4> HIDE DEF c
      <4>3. calls'[i] = c \/ (i \in DOMAIN calls /\ calls'[i] = calls[i])
        BY <2>1, <4>1, <4>2, Asks
      <4> QED
        BY <2>3, <4>1, <4>3 DEF QInv, AllOrderly
    <3> QED
      BY <3>1, <3>2, <3>3 DEF Pop
  <2>4. ~OfReview(task)'
    BY <2>1, <2>2 DEF OfReview
  <2>5. Course' /\ Alike'
    BY <2>1, <2>2, <2>4 DEF QInv, Course, Alike
  <2>6. AllOrderly'
    BY <2>1, <2>2, <2>3 DEF QInv, AllOrderly
  <2> QED
    BY <2>5, <2>6 DEF QInv
<1>2. Killed => QInv'
  BY DEF Killed, files, QInv, Course, Alike, AllOrderly, OfReview
<1> QED
  BY <1>1, <1>2

LEMMA StepQInv ==
  ASSUME ReviewIsPatient, Regular, IInv, QInv, [Next]_vars
  PROVE  QInv'
<1>1. UNCHANGED vars => QInv'
  BY DEF vars, ui, files, QInv, Course, Alike, AllOrderly, OfReview
<1>2. Next => \/ Loaded \/ LoadFails \/ LoadedUnmounted \/ Persisted
              \/ ProductSaved \/ InterviewSaved \/ SimulationSaved
              \/ Open \/ (\E v \in Values : SetAnswer(v)) \/ Continue \/ Back
              \/ Finish \/ Resolve \/ (CloseDocuments /\ task' # task)
              \/ Edit \/ OpenDocuments \/ (CloseDocuments /\ task' = task)
              \/ (\E q \in Documented, v \in Proven \cup {None} : SetDocument(q, v))
              \/ Pop \/ Killed
  BY DEF Next
<1> QED
  BY <1>1, <1>2, PlainTakenQ, AwaitedTakenQ, AskingQ, BeginningQ, BrowsingQ, LeavingQ

LEMMA QInvSkipsNothing ==
  ASSUME IInv, QInv
  PROVE  NothingSkipped
<1> SUFFICES ASSUME shown # None, Undecided(shown), NEW q \in Required(shown),
                    shown.answers[q] = None
             PROVE  \/ screen = "asking" /\ Position[Question] <= Position[q]
                    \/ screen = "home" /\ ~shown.completed
  BY DEF NothingSkipped, Required
<1>1. ~shown.completed /\ Position[QuestionOf(shown)] <= Position[q]
  BY DEF QInv, AllOrderly, Orderly, NothingBehind
<1>2. Question = QuestionOf(shown)
  BY DEF Question, QuestionOf
<1>3. screen \in {"home", "asking"}
  BY <1>1 DEF IInv, Scalars, QInv, Course
<1> QED
  BY <1>1, <1>2, <1>3

(***************************************************************************)
(* No way through the questions leaves a required one behind, of whatever  *)
(* questionnaire and however many saves are pending, if the user waits for *)
(* the review's own handlers: tax_interview_engine.dart,                   *)
(* guided_tax_screen.dart.                                                 *)
(***************************************************************************)
THEOREM QuestionsComplete ==
  ReviewIsPatient /\ Regular => (Spec => []NothingSkipped)
<1> SUFFICES ASSUME ReviewIsPatient, Regular
             PROVE  Spec => []NothingSkipped
  OBVIOUS
<1>1. Init => QInv
  BY InitQInv
<1>2. IInv /\ QInv /\ [Next]_vars => QInv'
  BY StepQInv
<1>3. IInv /\ QInv => NothingSkipped
  BY QInvSkipsNothing
<1> QED
  BY <1>1, <1>2, <1>3, Safety, PTL DEF Spec
=============================================================================
