----------------------------- MODULE TaxInterview -----------------------------
(***************************************************************************)
(* The guided tax interview of one fiscal year: GuidedTaxScreen, which     *)
(* asks the questions, the review it ends in, the documents confirmed from *)
(* there, the question engine, and the repositories they write: interview, *)
(* product profile, simulation, document evidence.                         *)
(*                                                                         *)
(* What a handler writes is an await: the calls it has asked for are in    *)
(* `calls` and take effect in the order asked for (what overlapping calls  *)
(* do to one file is the subject of StagedFile), while the user goes on.   *)
(* _continue, _resolve and _openDocumentEvidence await their calls one by  *)
(* one: what is left of such a handler is `task`.  They have no guard      *)
(* against each other; the model runs one at a time.                       *)
(*                                                                         *)
(* Amounts and counts are abstracted to two values, and the provenance of  *)
(* an answer is kept for the amounts that documents prove.                 *)
(***************************************************************************)
EXTENDS Naturals, Sequences

CONSTANTS
    Asked,      \* the questions of this instance; the others stay unanswered
    Values,     \* the values of this instance
    Profiles,   \* civilStatus, employmentIncome... as the profile may know them
    Ledger,     \* what the ledgers know: the gross income, expenses, or None
    Documented, \* the amounts that documents are confirmed for
    Proven,     \* the values on the documents of this instance
    Patient,    \* the handlers the user waits for, see task
    MaxCalls,   \* bound: calls pending when the user acts
    None

\* TaxInterviewEngine.questions, in the order they are asked.
questions ==
    << "residentPortugal", "region", "age", "civilStatus", "jointTaxation",
       "dependentCount", "employmentIncome", "employmentGrossCents",
       "selfEmploymentIncome", "pensionIncome", "foreignIncome", "rentalIncome",
       "expensesReviewed", "withholdingCents", "socialSecurityCents",
       "reviewConfirmed" >>
Questions == {questions[i] : i \in 1 .. 16}
Position == [q \in Questions |-> CHOOSE i \in 1 .. 16 : questions[i] = q]
Optional == {"expensesReviewed"}
Confirmations == {"expensesReviewed", "reviewConfirmed"}
Unsupported ==
    {"selfEmploymentIncome", "pensionIncome", "foreignIncome", "rentalIncome"}
\* The amounts of an employed taxpayer, which documents may prove.
Earnings == {"employmentGrossCents", "withholdingCents", "socialSecurityCents"}
ProfileFields == {"region", "civilStatus", "dependentCount", "employmentIncome",
                  "selfEmploymentIncome"}

Amounts == {"low", "high"}
Numeric == {"age", "dependentCount", "employmentGrossCents", "withholdingCents",
            "socialSecurityCents"}
Choices(q) ==
    IF q = "region" THEN {"continent", "madeira", "azores"}
    ELSE IF q = "civilStatus" THEN {"single", "married", "deFacto"}
    ELSE IF q \in Numeric THEN Amounts
    ELSE {"yes", "no"}
AllChoices == UNION {Choices(q) : q \in Questions}

\* What a question may be answered with, if at all, here and in the profile.
Possible == [q \in Questions |-> Choices(q) \cup {None}]
Answers == {a \in [Questions -> AllChoices \cup {None}] :
               \A q \in Questions : a[q] \in Possible[q]}
ProfileType == {a \in [ProfileFields -> AllChoices \cup {None}] :
                   \A q \in ProfileFields : a[q] \in Possible[q]}

\* A chosen value and the one it was preferred to.
Pairs == LET values == Amounts \cup {"yes", "no"}
         IN  [selected : values, competing : values]

Interviews ==
    [answers : Answers, imported : SUBSET Documented,
     resolved : [Questions -> Pairs \cup {None}], current : Asked, completed : BOOLEAN]

\* What is left of a handler, with the interview it captured.
Tasks == [by : {"continue", "resolve", "documents"}, interview : Interviews,
          mounted : BOOLEAN]

DocumentType == [Documented -> Amounts \cup {None}]

ASSUME InterviewAssumption ==
    /\ Asked \subseteq Questions
    /\ "reviewConfirmed" \in Asked
    /\ Profiles \subseteq ProfileType
    /\ Ledger \in [employmentGrossCents : Amounts \cup {None},
                  expensesReviewed : {"yes", None}]
    /\ Documented \subseteq Asked \cap Earnings
    /\ Proven \subseteq Amounts
    /\ Patient \subseteq {"continue", "resolve", "documents"}
    /\ MaxCalls \in Nat \ {0}

\* null is not a value.
ASSUME NoneAssumption ==
    None \notin AllChoices /\ None \notin Pairs /\ None \notin Interviews
    /\ None \notin Tasks /\ None \notin DocumentType

VARIABLES
    screen,     \* "home", "loading", "failed", "asking", "review", "documents"
    shown,      \* _interview of the guided screen; kept when the screen is left
    override,   \* _resolvedInterview of the review in it
    stored,     \* the interview in its file
    profile,    \* the fiscal profile in its file
    simulation, \* the answers the stored simulation was made of
    documents,  \* the amounts of the confirmed documents
    before,     \* documents when their screen was opened
    calls,      \* repository calls in flight, oldest first
    task        \* the handler that awaits one: "continue", "resolve", "documents"

ui == <<screen, shown, override, before>>
files == <<stored, profile, simulation, documents>>
vars == <<ui, files, calls, task>>
-----------------------------------------------------------------------------
(* TaxInterviewEngine.                                                     *)

Visible(q, answers) ==
    /\ q = "region" => answers["residentPortugal"] = "yes"
    /\ q = "jointTaxation" => answers["civilStatus"] \in {"married", "deFacto"}
    /\ q \in Earnings => answers["employmentIncome"] = "yes"

visibleQuestions(answers) == {q \in Asked : Visible(q, answers)}

First(qs) == CHOOSE q \in qs : \A p \in qs : Position[q] <= Position[p]
Last(qs) == CHOOSE q \in qs : \A p \in qs : Position[p] <= Position[q]
After(q, qs) == {p \in qs : Position[p] > Position[q]}

\* An answer hides questions, whose answers and resolutions go.  The caller uses
\* only the answers of the interview that is returned.
answer(i, q, v) ==
    LET updated == [i.answers EXCEPT ![q] = v]
        kept    == {p \in Questions : Visible(p, updated)}
        answers == [p \in Questions |-> IF p \in kept THEN updated[p] ELSE None]
        list    == visibleQuestions(answers)
    IN  [answers   |-> answers,
         imported  |-> i.imported \cap (kept \ {q}),
         resolved  |-> [p \in Questions |->
                          IF p \in kept \ {q} THEN i.resolved[p] ELSE None],
         current   |-> IF After(q, list) # {} THEN First(After(q, list)) ELSE Last(list),
         completed |-> FALSE]

\* Mutant: a confirmation only has to be answered.
MissingUnconfirmed(answers) ==
    {q \in visibleQuestions(answers) \ Optional : answers[q] = None}

\* The required answers that result() misses: those not given, and confirmations
\* that are not "yes".
Missing(answers) ==
    {q \in visibleQuestions(answers) \ Optional :
        \/ answers[q] = None
        \/ q \in Confirmations /\ answers[q] # "yes"}

Supported(answers) ==
    /\ answers["employmentIncome"] = "yes"
    /\ answers["civilStatus"] = "single"
    /\ \A q \in Unsupported : answers[q] # "yes"

canEstimate(answers) == Missing(answers) = {} /\ Supported(answers)

\* simulationFromInterview: the answers a TaxSimulation is made of.
SimulationFacts == {"residentPortugal", "region", "age", "dependentCount",
                    "employmentGrossCents", "withholdingCents", "socialSecurityCents"}
Numbers == {"age", "employmentGrossCents", "withholdingCents", "socialSecurityCents"}
simulationFromInterview(answers) ==
    IF Supported(answers) /\ \A q \in Numbers \cap Asked : answers[q] # None
    THEN [q \in SimulationFacts |-> answers[q]]
    ELSE None

\* Mutant: only fills in what the profile does not know.
profileCompleted(answers, base) ==
    [q \in ProfileFields |-> IF base[q] # None THEN base[q] ELSE answers[q]]

profileFromInterview(answers, base) ==
    [q \in ProfileFields |-> IF answers[q] = None THEN base[q] ELSE answers[q]]

\* _prefill: what the profile and the ledger know of the year.
Prefill(known) ==
    LET answers == [q \in Questions |->
            IF q \notin Asked THEN None
            ELSE IF q \in {"employmentGrossCents", "expensesReviewed"} THEN Ledger[q]
            ELSE IF q \notin ProfileFields THEN None
            ELSE IF q = "employmentIncome" /\ Ledger.employmentGrossCents # None THEN "yes"
            ELSE known[q]]
        open == {q \in visibleQuestions(answers) : answers[q] = None}
    IN  [answers   |-> answers,
         imported  |-> {q \in Documented : answers[q] # None},
         resolved  |-> [q \in Questions |-> None],
         current   |-> IF open = {} THEN "reviewConfirmed" ELSE First(open),
         completed |-> FALSE]
-----------------------------------------------------------------------------
(* The repositories.                                                       *)

Init ==
    /\ screen = "home"
    /\ shown = None
    /\ override = None
    /\ stored = None
    /\ profile \in Profiles
    /\ simulation = None
    /\ documents = [q \in Documented |-> None]
    /\ before = None
    /\ calls = <<>>
    /\ task = None

Load == [what |-> "load", of |-> None]
Save(what, value) == [what |-> what, of |-> value]

\* A handler asks for a call and goes on; _persist is Ask(Save("shown", shown')).
Ask(call) == calls' = Append(calls, call)

\* What the user may do while calls are in flight.
UserActs ==
    /\ Len(calls) < MaxCalls
    /\ task # None => task.by \notin Patient

Take(what) == calls # <<>> /\ Head(calls).what = what

\* _load: the stored interview, or one prefilled from the product state.
Loaded ==
    /\ Take("load")
    /\ calls' = Tail(calls)
    /\ shown' = IF stored = None THEN Prefill(profile) ELSE stored
    /\ screen' = IF shown'.completed THEN "review" ELSE "asking"
    /\ UNCHANGED <<override, before, files, task>>

\* An unreadable file, or one of another year: the screen says so.
LoadFails ==
    /\ Take("load")
    /\ calls' = Tail(calls)
    /\ screen' = "failed"
    /\ UNCHANGED <<shown, override, before, files, task>>

\* The screen that asked has been left.
LoadedUnmounted ==
    /\ Take("unmounted")
    /\ calls' = Tail(calls)
    /\ UNCHANGED <<ui, files, task>>

\* A save that _persist did not wait for.
Persisted ==
    /\ Take("shown")
    /\ stored' = Head(calls).of
    /\ calls' = Tail(calls)
    /\ UNCHANGED <<ui, profile, simulation, documents, task>>
-----------------------------------------------------------------------------
(* The guided screen.                                                      *)

\* The question on the screen; a hidden current one gives way to the first.
Question ==
    LET list == visibleQuestions(shown.answers)
    IN  IF shown.current \in list THEN shown.current ELSE First(list)

Open ==
    /\ screen = "home" /\ UserActs
    /\ screen' = "loading"
    /\ shown' = None
    /\ Ask(Load)
    /\ UNCHANGED <<override, before, files, task>>

SetAnswer(v) ==
    /\ screen = "asking" /\ UserActs
    /\ v \in Choices(Question) \cap Values
    /\ LET updated == answer(shown, Question, v)
       IN  shown' = [shown EXCEPT !.answers = updated.answers,
                                  !.imported = updated.imported]
    /\ Ask(Save("shown", shown'))
    /\ UNCHANGED <<screen, override, before, files, task>>

\* Mutant: the button is always enabled.
AlwaysContinue == TRUE

\* The button to go on is enabled by an answer to a required question, and by
\* "yes" to a required confirmation.
CanContinue == Question \notin Missing(shown.answers)

Unanswered ==
    {q \in After(Question, visibleQuestions(shown.answers)) : shown.answers[q] = None}

GoTo(q) ==
    /\ shown' = [shown EXCEPT !.current = q]
    /\ Ask(Save("shown", shown'))
    /\ UNCHANGED <<screen, override, before, files, task>>

\* _continue: to the next question without an answer...
Continue ==
    /\ screen = "asking" /\ UserActs /\ CanContinue
    /\ Unanswered # {}
    /\ GoTo(First(Unanswered))

Back ==
    /\ screen = "asking" /\ UserActs
    /\ LET earlier == {q \in visibleQuestions(shown.answers) :
                          Position[q] < Position[Question]}
       IN  earlier # {} /\ GoTo(Last(earlier))

\* A handler that saves the profile that follows from an interview, then the
\* interview, then (unless it is _resolve) its simulation, and then shows it.
Starts(by, interview) ==
    /\ task' = [by |-> by, interview |-> interview, mounted |-> TRUE]
    /\ Ask(Save("product", profileFromInterview(interview.answers, profile)))

\* ... or, when none is left, completed.
Finish ==
    /\ screen = "asking" /\ UserActs /\ CanContinue
    /\ Unanswered = {}
    /\ task = None
    /\ Starts("continue", [shown EXCEPT !.completed = TRUE])
    /\ UNCHANGED <<ui, files>>

\* The load of a screen that is left has no effect.
Abandoned == [i \in DOMAIN calls |->
    IF calls[i].what = "load" THEN Save("unmounted", None) ELSE calls[i]]

\* PopScope saves what the screen holds; a handler that still runs will find
\* itself unmounted, and the call it awaits still takes effect.
Pop ==
    /\ screen \notin {"home", "documents"} /\ UserActs
    /\ screen' = "home"
    /\ override' = None
    /\ task' = IF task = None THEN None ELSE [task EXCEPT !.mounted = FALSE]
    /\ \/ screen = "loading" /\ calls' = Abandoned
       \/ screen = "failed" /\ UNCHANGED calls
       \/ screen \in {"asking", "review"} /\ Ask(Save("shown", shown))
    /\ UNCHANGED <<shown, before, files>>
-----------------------------------------------------------------------------
(* The review.                                                             *)

Displayed == IF override = None THEN shown ELSE override

\* What the documents say and the interview does not, unless that pair of values
\* has been decided.
Evidence ==
    {[id |-> q, value |-> documents[q]] : q \in {p \in Documented : documents[p] # None}}
    \cup {[id |-> "employmentIncome", value |-> "yes"] :
             q \in {p \in Documented : p = "employmentGrossCents" /\ documents[p] # None}}

Conflicts(i) ==
    {e \in Evidence :
        /\ i.answers[e.id] \notin {None, e.value}
        /\ i.resolved[e.id] \notin
             {[selected |-> i.answers[e.id], competing |-> e.value],
              [selected |-> e.value, competing |-> i.answers[e.id]]}}

applyConflictResolution(i, e, v) ==
    LET other == IF v = e.value THEN i.answers[e.id] ELSE e.value
    IN  [i EXCEPT !.answers[e.id] = v,
                  !.imported = IF v = e.value THEN @ \cup ({e.id} \cap Documented) ELSE @,
                  !.resolved[e.id] = [selected |-> v, competing |-> other]]

\* _resolve; the buttons of all conflicts are disabled while it runs.
Resolve ==
    /\ screen = "review" /\ UserActs
    /\ task = None
    /\ \E e \in Conflicts(Displayed) : \E v \in {e.value, Displayed.answers[e.id]} :
          Starts("resolve", applyConflictResolution(Displayed, e, v))
    /\ UNCHANGED <<ui, files>>

\* Mutant: the resolved interview outlives its review.
EditKeepsResolved ==
    /\ screen = "review" /\ UserActs
    /\ \E q \in visibleQuestions(Displayed.answers) :
          shown' = [shown EXCEPT !.current = q, !.completed = FALSE]
    /\ screen' = "asking"
    /\ UNCHANGED <<override, before, files, calls, task>>

\* onEditQuestion, with an answered or missing question: the review is disposed.
Edit ==
    /\ screen = "review" /\ UserActs
    /\ \E q \in visibleQuestions(Displayed.answers) \cup ({"region"} \cap Asked) :
          shown' = [shown EXCEPT !.current = q, !.completed = FALSE]
    /\ screen' = "asking"
    /\ override' = None
    /\ task' = IF task # None /\ task.by = "resolve"
               THEN [task EXCEPT !.mounted = FALSE] ELSE task
    /\ UNCHANGED <<before, files, calls>>
-----------------------------------------------------------------------------
(* The documents of the year.                                              *)

\* reconcileDocumentEvidenceAnswers: an imported answer goes with its document and
\* changes with it; a document fills in what has no answer.
reconcile(i, old, new) ==
    LET follows == {q \in Documented :
                      old[q] # None /\ q \in i.imported /\ i.answers[q] = old[q]}
        goes    == {q \in follows : new[q] = None}
        taken   == {q \in Documented :
                      new[q] # None /\ (i.answers[q] = None \/ q \in follows)}
        income  == "employmentGrossCents" \in Documented
                     /\ new["employmentGrossCents"] # None
    IN  [i EXCEPT
           !.answers = [q \in Questions |->
               IF q \in goes THEN None
               ELSE IF q \in taken THEN new[q]
               ELSE IF q = "employmentIncome" /\ @[q] = None /\ income THEN "yes"
               ELSE @[q]],
           !.imported = (@ \ goes) \cup taken]

OpenDocuments ==
    /\ screen = "review" /\ UserActs
    /\ screen' = "documents"
    /\ before' = documents
    /\ UNCHANGED <<shown, override, files, calls, task>>

\* A document is confirmed, with an amount, or removed; its screen waits for that.
SetDocument(q, v) ==
    /\ screen = "documents"
    /\ documents' = [documents EXCEPT ![q] = v]
    /\ UNCHANGED <<ui, stored, profile, simulation, calls, task>>

\* Back in _openDocumentEvidence, which goes on if the documents change an answer
\* of the interview that the guided screen holds.
CloseDocuments ==
    /\ screen = "documents"
    /\ task = None
    /\ screen' = "review"
    /\ before' = None
    /\ IF reconcile(shown, before, documents) = shown
       THEN UNCHANGED <<calls, task>>
       ELSE Starts("documents", reconcile(shown, before, documents))
    /\ UNCHANGED <<shown, override, files>>
-----------------------------------------------------------------------------
(* The awaits of these handlers.  Once its widget is gone a handler dies   *)
(* at its next use of `ref`, which throws.                                 *)

ProductSaved ==
    /\ Take("product")
    /\ profile' = Head(calls).of
    /\ IF task.mounted
       THEN /\ calls' = Append(Tail(calls), Save("interview", task.interview))
            /\ task' = task
       ELSE /\ calls' = Tail(calls)
            /\ task' = None
    /\ UNCHANGED <<ui, stored, simulation, documents>>

Estimates ==
    /\ task.mounted
    /\ task.by # "resolve" /\ task.interview.completed
    /\ canEstimate(task.interview.answers)
    /\ simulationFromInterview(task.interview.answers) # None

\* The last setState of the handler, if its widget is still there.
Show ==
    /\ task' = None
    /\ \/ /\ task.mounted /\ task.by = "continue"
          /\ shown' = task.interview
          /\ screen' = "review"
          /\ UNCHANGED override
       \/ /\ task.mounted /\ task.by = "documents"
          /\ shown' = task.interview
          /\ UNCHANGED <<screen, override>>
       \/ /\ task.mounted /\ task.by = "resolve"
          /\ override' = task.interview
          /\ UNCHANGED <<screen, shown>>
       \/ ~task.mounted /\ UNCHANGED <<screen, shown, override>>

InterviewSaved ==
    /\ Take("interview")
    /\ stored' = Head(calls).of
    /\ IF Estimates
       THEN /\ calls' = Append(Tail(calls), Save("simulation",
                          simulationFromInterview(task.interview.answers)))
            /\ UNCHANGED <<screen, shown, override, task>>
       ELSE calls' = Tail(calls) /\ Show
    /\ UNCHANGED <<before, profile, simulation, documents>>

SimulationSaved ==
    /\ Take("simulation")
    /\ simulation' = Head(calls).of
    /\ calls' = Tail(calls)
    /\ Show
    /\ UNCHANGED <<before, stored, profile, documents>>

\* Android kills the process; calls not yet done are lost.
Killed ==
    /\ screen' = "home"
    /\ shown' = None
    /\ override' = None
    /\ before' = None
    /\ calls' = <<>>
    /\ task' = None
    /\ UNCHANGED files

Next ==
    \/ Loaded \/ LoadFails \/ LoadedUnmounted \/ Persisted
    \/ ProductSaved \/ InterviewSaved \/ SimulationSaved
    \/ Open \/ (\E v \in Values : SetAnswer(v)) \/ Continue \/ Back \/ Finish
    \/ Pop \/ Resolve \/ Edit \/ OpenDocuments \/ CloseDocuments
    \/ (\E q \in Documented, v \in Proven \cup {None} : SetDocument(q, v))
    \/ Killed

Spec == Init /\ [][Next]_vars
-----------------------------------------------------------------------------
(* Properties.                                                             *)

\* What the calls in flight carry; a task is waiting for exactly one of them.
CallType ==
    /\ Len(calls) <= MaxCalls
    /\ \A i \in 1 .. Len(calls) :
          \/ calls[i].what \in {"load", "unmounted"} /\ calls[i].of = None
          \/ calls[i].what = "product" /\ calls[i].of \in ProfileType
          \/ /\ calls[i].what = "simulation"
             /\ calls[i].of = simulationFromInterview(task.interview.answers)
          \/ calls[i].what \in {"shown", "interview"} /\ calls[i].of \in Interviews
    /\ LET awaited == {i \in 1 .. Len(calls) :
                          calls[i].what \in {"product", "interview", "simulation"}}
       IN  IF task = None THEN awaited = {} ELSE \E i \in awaited : awaited = {i}

TypeOK ==
    /\ screen \in {"home", "loading", "failed", "asking", "review", "documents"}
    /\ shown \in Interviews \cup {None}
    /\ screen \in {"asking", "review", "documents"} => shown # None
    /\ override \in Interviews \cup {None}
    /\ override # None => screen \in {"review", "documents"}
    /\ stored \in Interviews \cup {None}
    /\ profile \in ProfileType
    /\ simulation = None \/ DOMAIN simulation = SimulationFacts
    /\ documents \in DocumentType
    /\ before # None <=> screen = "documents"
    /\ task \in Tasks \cup {None}
    /\ CallType

\* The product profile is the one source of truth: whatever is interrupted, a stored
\* interview that says it is completed agrees with the stored profile, for a user who
\* keeps few calls waiting behind a handler and has no document that proves the income.
CompletedMatchesProfile ==
    stored # None /\ stored.completed =>
        \A q \in ProfileFields : stored.answers[q] \in {None, profile[q]}

\* No way through the questions, by answers that show or hide others, Back, an edit
\* from the review or a resumed interview, leaves a required question behind, as
\* long as no conflict is resolved (that may open one) and apart from amounts
\* whose document was removed.
Undecided(i) == \A q \in Questions : i.resolved[q] = None
NothingSkipped ==
    shown # None /\ Undecided(shown) =>
        \A q \in visibleQuestions(shown.answers) \ (Optional \cup Documented) :
            \/ shown.answers[q] # None
            \/ screen = "asking" /\ Position[Question] <= Position[q]
            \/ screen = "home" /\ ~shown.completed

\* A simulation is saved of a completed interview alone, which its user reviewed:
\* that of an employed single taxpayer, without income of an unsupported kind, with
\* no required question open and every number there.  The interview is the stored
\* one when that save is asked for; an answer may be stored before it is done.
\* Residence is not looked at, neither here nor in the code.
Estimating(pending) == \E i \in DOMAIN pending : pending[i].what = "simulation"
EstimateIsConfirmed ==
    [][/\ simulation' # simulation =>
              LET given == task.interview.answers
              IN  /\ task.interview.completed
                  /\ given["reviewConfirmed"] = "yes"
                  /\ given["employmentIncome"] = "yes" /\ given["civilStatus"] = "single"
                  /\ \A q \in visibleQuestions(given) \ Optional : given[q] # None
                  /\ \A q \in Unsupported : given[q] # "yes"
                  /\ \A q \in Numbers \cap Asked : simulation'[q] \in Amounts
       /\ ~Estimating(calls) /\ Estimating(calls') => stored' = task.interview]_vars

\* "Explicit conflict resolutions are persisted in the same year-scoped interview":
\* a resolution that was stored gives way only to another one.
ResolutionRetained ==
    [][\A q \in Questions :
          stored # None /\ stored.resolved[q] # None => stored'.resolved[q] # None]_vars
=============================================================================
