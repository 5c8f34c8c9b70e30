# Formal models of Taxy

Taxy is an Android-first Flutter application for Portuguese income tax (IRS):
a guided interview and a wizard collect facts, a deterministic engine estimates
the tax, an experimental read-only connection fetches e-Fatura aggregates, and
everything is kept in JSON files of the private application directory. This
directory holds TLA+ models of that program and of the Node scripts that try the
tax authority's web services (`tools/at_connector`), TLC configurations that
check them on small instances, and TLAPS proofs of their main results.

## The system and what is hard about it

Dart runs one event loop: code between two awaits is atomic, handlers interleave
at every await, and nothing in the application queues or locks. The process may
be killed between any two steps. What survives is the secure store (one token),
the JSON files and the backend. A script of the connector is one process with one
event loop too: it waits for a reply over UDP and for answers over TLS, with
timers and error events that race with them, and nothing survives it but its
report.

| Component | State | Operations | Makes it correct |
|---|---|---|---|
| e-Fatura screen, service, bridge | status, overview, invoices, token in memory, handler in flight | connect, refresh, load invoices, disconnect, initialise, retry | what is shown is of one session; progress ends; disconnect leaves nothing |
| Token store, backend sessions | one token; live and ended sessions | write, read, delete; create, expire, revoke | a token is stored once and never comes back |
| Companion evidence | two counts of the year | saved after a request, cleared after a disconnect | of one taxpayer; a disconnect asks for them to go |
| JSON repositories | file and `.tmp` | put, add, remove, clear | complete or absent; each call takes effect once |
| Guided interview | answers, resolutions, current question, completed | answer, go to, continue, edit, resolve a conflict | visible answers only, stored = shown, no stale completion |
| Fiscal data orchestrator | facts by source and year | consolidate, resolve, snapshot | priority of sources, no conflict lost |
| Captured documents | capture slot, encrypted raw file, metadata | photo, file, confirm, delete, expire | raw file gone after confirmation or 24 h |
| Product state | one file: profile, incomes, expenses, snapshots | edited by five screens | no edit lost |
| IRS wizard | draft, step index | next, back, restore, finish | draft is resumed, never half a result |
| DM3IRS history | certificate probe, candidates, confirmations | fetch, confirm | only confirmed values are used |
| Tax engine, IRS Jovem, scope | none (pure) | calculate | monotone, indifferent to order, fail closed |
| Scenario comparison | base simulation, sliders, saved simulations | open, slide, save | differences that follow from the change |
| AT connector: gates | none (pure) | inspect settings, bundle, certificate, evidence | no unready machine reaches the network |
| AT connector: time | one UDP exchange | query, settle | fresh or refused, never left open |
| AT connector: requests and reports | requests, answers, buffers, counter | send, receive, go on, report | nothing is retried, wiped or confirmed wrongly, every run ends |
| AT validation | none (pure) | compare | privacy and comparison rules |

PROJECT.json lists the components with their status and the hazards with the
line where each bites.

## Plan

Modules in order; the first six groups exist.

1. `EfaturaSession` (with the abstract `SessionVault`), `EfaturaSession_proofs`.
2. `StagedFile` (with the abstract `JsonStore`), `StagedFile_proofs`.
3. `TaxInterview`: engine, screen and review of the guided interview, the
   documents confirmed from it and the repositories they write;
   `TaxInterview_proofs`.
4. `DocumentCapture`: capture slot, executor, encrypted files, the record file
   and the screens of the captured documents; `DocumentCapture_proofs`.
5. `TaxEngine`, `IrsJovem`, `HouseholdTax`: the rules as operators, with
   `TaxScenarios`, the screen that compares scenarios, on top;
   `TaxScenarios_proofs`.
6. The AT connector: `TimeSource` (abstract) and `NtpExchange`,
   `NtpExchange_proofs`; `ResponseFraming`, `FactIntParser`, `LocalGates` and
   `AtScripts` as operators, with `LiveHarness`, the run of a script, on top;
   `LiveHarness_proofs` and `LiveHarness_reports`.
7. `Wizard`: draft, question engine and the three saves at its end, composed with
   the scenarios it is opened with.
8. `FiscalData`: consolidation over all sources, sections, presentation policy
   and the next action, as operators with reference definitions.
9. `ProductState`: the screens that save the whole state after a dialog.
10. DM3IRS history, the native fact interview, preferences and AT validation.

Proofs planned: lemmas on consolidation, once `FiscalData` is written.

## EfaturaSession

An element of `Screens` is a slot for one screen instance with its own bridge;
`_openEfatura` builds a new pair each time, so two may overlap when a screen is
popped with a request in flight. Each handler is a task: `op` says which, `pc`
its await, `tok` the token it is about. An action runs from one await to the
next. The overview, the invoices and the counts are abstracted to the token of
the session that supplied them, which is what the properties compare. `boot` is
the start-up task `_initialize`, which may run beside a handler. The secure
store serves calls in order (a platform channel), so a call takes effect when it
is issued and only its answer is awaited; the answers of one bridge come in the
order of the calls (`behind`). `Faults` says which calls may throw.

`SessionVault` states what the store promises: a token enters it once and never
comes back. `StoreIsVault` is that specification under a refinement mapping.

## StagedFile

One file, its `.tmp`, and the calls in flight; every file operation is an await.
A descriptor follows its file through a rename (`at`), an opened file is
truncated, and an overlapped or interrupted write may be torn. `Serial` says
that callers wait for each other. The stored JSON is a set of identities.
`JsonStore` is the abstract store: a call is asked for and takes effect in one
step; one that does not end has no effect (`AtomicSpec`) or empties the file
(`Spec`). `Value` and `Asked` are the refinement mapping: once a call has deleted
the old file, the file stands for what the call staged.

Nothing in the code makes callers wait for each other. Those that do not (two
saves of the wizard's draft, `Serial` FALSE) break both properties: one truncates
or overwrites the shared `.tmp` that the other is about to rename, so that
`NeverLeftPartial` fails, and edits what it read before the other's edit, so that
`EditsOrLosesAll` fails. What `file_serial` shows is what a death in the middle of
a call does; it says nothing of overlapping calls.

## TaxInterview

The interview of one year from `GuidedTaxScreen`: `screen` is where the user is,
`shown` the `_interview` of the guided screen, `override` the
`_resolvedInterview` of the review inside it; `stored`, `profile`, `simulation`
and `documents` are what the repositories hold. The engine is a set of operators
(`Visible`, `answer`, `Missing`, `Supported`), as are `profileFromInterview`,
`simulationFromInterview`, `applyConflictResolution` and
`reconcileDocumentEvidenceAnswers` (`reconcile`).

A save is an await, and `_persist` is not waited for: `calls` holds the
repository calls in flight, which take effect in the order they were asked for.
What overlapping calls do to one file is the subject of `StagedFile` and is left
out here. `_continue`, `_resolve` and `_openDocumentEvidence` await two or three
saves one by one; what is left of such a handler is `task`, with the interview it
captured and whether its widget is still mounted. A handler whose screen was left
goes on until it next uses `ref`, which throws: the call it awaits still takes effect,
but `_continue` never asks for the interview's save after the profile's, nor for an
estimate after the interview's. A load goes on after its screen
was left (`Abandoned`) and then shows nothing (`LoadedUnmounted`). `Killed` loses
the calls and the screen at any point. Amounts are abstracted to two values, and the questions
of an instance to the subset `Asked`.

`Patient` names the handlers a user waits for, which nothing in the code makes
them do. `interview_flow` says what holds of a user who waits only for the saves
after a document change (`"documents"`); without that wait, the handler marks an
interview completed that is being edited again and `CompletedMatchesProfile`
fails. A document of the run proves the withholding; what one that proves the income
changes is under Observations.

`EstimateIsConfirmed` says of what interview an estimate may be saved, and that this
interview is the stored one when the save is asked for, not when it is done: an
answer given in between is stored first. It does not look at the residence, as
the code does not (Observations).

## DocumentCapture

`pending` is the one slot of `SecureDocumentCaptureBridge` and says whether its
capture is outside, in the camera or the picker, or in the executor; `jobs` is
the queue of that executor, which runs one job at a time. `camera` and `secure`
are the files by document, `old` what has passed its day. The raw file and the
preview count as one file, written and deleted together. On the Dart side there
are the evidence screen (`listed` is its `_pending`), its handler `_capture`, and
the review of one document with the handlers `_confirm` and `_delete`.

The record file is modelled operation by operation: `io` holds, for each of its
callers, the operation its call is at. That detail matters because `_file()`, which
every call starts with, deletes a staging file it finds, so even a load can take a
write's only copy away. The evidence file is written in whole calls; a rollback
takes out what was confirmed (`EvidenceRemoved`) and then puts back what was there
before, so that a kill may fall in between. `Faults` says which sides may throw;
`Closed` is a kill, or a detach that deletes the photo of a pending capture and may
fail the running job.

`SlotIsAwaited` holds of any user. `ListIsCurrent` and `AllOrNothing` are checked of
a `Patient` one, who touches nothing while the record file is in use; nothing in
the code makes a user wait, and of one who does not, both fail: a Back during a
confirmation reloads the list, the load deletes the staging file between the
deletion of the old file and the rename, and all records are gone while their
encrypted files stay for a day. The same loss follows from a kill at that point,
whatever the user does (Observations). No property claims that a record outlives its
file.

## TaxEngine, IrsJovem, HouseholdTax, TaxScenarios

`TaxEngine` holds the rules for one taxpayer (`TaxEngine` and
`IrsJovemTaxAdjustment` of the code), `IrsJovem` the eligibility with its early
returns in order, `HouseholdTax` couples, the scope and the choice of assessment
(`HouseholdTaxEngine`, `SupportedScopeValidator`, `_calculateSimulation`). The
rules are a record, `Rules`, that a run gives a value. The code calculates in
cents and parts per million and rounds every product to the nearest cent; the
operators calculate in whatever unit the rules are given in and round in the
same places. The code sorts the ages of the dependents and treats the first apart;
the credit picks one of the oldest instead, which is the same amount, and the
proofs can reason about it. TLC's integers have 32 bits, so the run takes the rules of
`assets/tax_rules/2025/base.json` in units of 10 euros and rates of 100 000; no
product of the run overflows (TLC stops at one). Every situation the scope
validator refuses without looking further (region, residence, other incomes,
special situations) is an element of `unvalidated`.

`TaxScenarios` is the comparison screen over the simulations the wizard saves:
`Open` needs a result, `Slide` moves one of seven amounts of the first taxpayer
within the slider's range and recalculates, as every rebuild of the screen does
(`original`, `changed`), `SaveScenario` adds the changed simulation, which may
be opened in turn. The properties compare results: of a state with the next one
(`SpendingNeverCosts`, `EarningMorePays`), with and without IRS Jovem
(`ExemptionNeverCosts`, `ExemptIncomeStillRates`), of a simulation entered in
another order (`EntryOrderIrrelevant`), of the joint and the separate assessment
of two equal spouses (`EqualSpousesIndifferent`) and of two histories
(`IdleYearsDoNotCount`). One household of the run has no result: the mark of a
single parent stays when the wizard's civil status is changed to married, and
the scope refuses it.

`EarningMorePays` leaves out one step: above twice the cutoff of one taxpayer a
couple loses the minimum of existence of both at once, so one more euro of
income may cost several hundred. That is what the rules say.

## NtpExchange, TimeSource

`queryNtpTime` and `exchangeNtpUdp` make one query: a socket, a timer, and the
first of message, error, send error and timer settles it. The network is external:
it loses, delays, duplicates and reorders datagrams, and what is under way when a
query settles may reach the socket of a later one. A reply is abstracted to the
query it names (`originate`), the time it was sent and one flaw; `Flaws` are the
reasons for which `parseNtpResponse` refuses a reply. Time is a counter that the
local clock follows: the code compares the originate timestamp with its own
request, so that a wrong but advancing clock changes nothing but the numbers.

`TimeSource` states what a script may rely on: between the question and the answer
lies the time given, or the question is refused, or the process dies. `Implements`
is that specification under the identity mapping.

## LiveHarness, AtScripts

`LiveHarness` is one run of any of thirteen scripts. Between two events the code
runs to the next await, and that is an action: the gates (`Blocked`, `Ready`), the
question for the time, building and sending the request (`TimeArrives`), the
events of the connection (`stage`), the end of an answer (`Receive`), the errors
and the end of the process. The scripts share this course and copy its code;
`AtScripts` has what each does differently: its gates in its own order, what it
counts, which buffers it keeps and wipes and when, whether an answer is followed
by another request, and what it reports. The actions cite the script that shows
the step best.

`live` is the set of buffers that hold something to wipe: the bundle, for each
request the session key of the script (`"key"`) and the copy of it that
`buildFactIntWsSecurityMaterial` makes (`"copy"`), and the bytes of each answer
(`"body"`), whether the script keeps them in a variable or drops them. Nothing in the
code wipes the copies, nor the bytes that `factintws-live-once`,
`factintws-bootstrap-live` and `factintws-invoices-live` drop; `NeverWiped` names
both, and `WipedAtEnd` is about everything else.

`LocalGates` has the checks as sequences; a machine is the set of its defects, and
the first check that finds one decides. The evidence gates are computed from the
fields the code lists as unknown. `ResponseFraming` has the three ways in which
bytes become text, `FactIntParser` what the two parsers and the classifiers read
from it: a document is a record of the alternatives they tell apart, and it may come
in a text of any shape (`TaggedShapes`), an envelope of SOAP or not. The parser of
FactIntWS insists on the envelope; the historical one looks for its tags in whatever
text it is given.

The harness asks a `TimeSource` for its time, which `NtpExchange` is proved to
implement. `FreshSecurity`, `NeverUnderCounted`, `StopsAtFirstFailure` and
`WipedAtEnd` relate requests, answers, counter and buffers on every path to a
report, and `ConfirmedExactly` states over the wire what the scripts conclude from
decoded and parsed text. It is as strict as each script is: the current
configuration and the recovery confirm exactly on a complete document in SOAP with
status 200, the bootstrap and a population without invoices on nothing less, while
the single request, the invoices and a population with an invoice do not look at the
status, and the historical client confirms a number in `EstadoOperacao` in any text
of a successful answer that does not begin like XML with a fault. `EventuallyEnds`
names the one case it has to leave out: the scripts of FactIntWS limit only how long
a connection is idle.

## Runs

| Run | Checks | Instance |
|---|---|---|
| `efatura_single` | OneSession, NoIdleProgress, DisconnectedIsClean, ProgressEnds | one slot, two tokens of two taxpayers, the store may refuse a token |
| `efatura_overlap` | TypeOK, UnstoredTokenIsPrivate, StoreIsVault | two slots, one token, all faults but slow store answers |
| `efatura_relogin` | EvidenceOfOneTaxpayer is violated | one slot, two tokens, no faults |
| `file_serial` | TypeOK, NeverLeftPartial, EditsOrLosesAll | one call at a time, three items, deaths and errors |
| `file_killed` | Atomic is violated | as above, puts only, deaths only |
| `interview_flow` | TypeOK, CompletedMatchesProfile, NothingSkipped, EstimateIsConfirmed | five questions, two of them conditional, one documented amount, two calls in flight, a user who waits only for the saves after a document change |
| `interview_resolved` | ResolutionRetained is violated | as above, one call in flight, a user who waits |
| `tax_scenarios` | EarningMorePays, SpendingNeverCosts, ExemptionNeverCosts, ExemptIncomeStillRates, EntryOrderIrrelevant, EqualSpousesIndifferent, IdleYearsDoNotCount | eleven households, the rules of 2025 in units of 10 euros, two sliders moved, one saved scenario |
| `capture_flow` | TypeOK, SlotIsAwaited, ListIsCurrent, AllOrNothing | two documents, two amounts, a native side and a record file that may fail, a patient user |
| `ntp_exchange` | TypeOK, TimeIsFresh, HeldWhileOpen, Implements, Settles | three points in time, three datagrams under way |
| `ntp_lookup` | FailuresAreReported is violated | as above, one datagram |
| `live_scripts` | TypeOK, GatesBeforeNetwork, FreshSecurity, NeverUnderCounted, StopsAtFirstFailure, ConfirmedExactly, WipedAtEnd, EventuallyEnds | all scripts and arguments, machines with up to two defects, any answer |

Two tokens let a session end and another user log in; two slots are the smallest
overlap, and the store holds one token whatever their number. Three items make
an edit, a neighbour that must survive it and a removal distinct. The five
questions are one that another depends on for each of the two kinds of
dependence (civil status and joint taxation, employment and withholding), and the
closing confirmation; the documented amount can be absent, equal or in conflict.
Two calls in flight let an answer be saved behind a save or a load, and a finish
behind an answer. The bound is on new calls only: a handler always gets to ask
for its next one. Two documents are one under review and one being captured, two
amounts the least that a rollback can restore in part. `MaxJobs` bounds the
executor's queue when the documents are opened again, which may otherwise be
repeated for ever; a capture or a deletion is always queued. The slider positions
of `tax_scenarios` lie on both sides of the limits where a cliff could be (first
brackets, cutoff of the minimum of existence, caps); `MaxChanged` lets two sliders
be away from the simulation's amounts, which is one to set the scene and one to
move, `MaxSaved` one scenario be saved, and `Rounding` is what halving whole units
may lose over several caps. Deadlock is not checked there: a simulation without a result
cannot be opened, and the screen is all the module has.

In `ntp_exchange` three points in time (`MaxClock`) hold two queries that are over
and one that waits, and three datagrams (`MaxReplies`) the replies to all of them; a
datagram is never used up, so that each may arrive again, late or not at all. In
`live_scripts` every script meets every single defect; pairs start with a defect
that all scripts, only the older ones or only the building of a request look for, as
more would only repeat which check comes first. A script with one request meets
every status, coding and text (`WideAnswers`), a sequence the answers it tells
apart. Deadlock is not checked in either: a process ends.

Fairness: `efatura_single` assumes that the event loop runs continuations and
that every request is answered or times out (the transport sets a connection and
a response timeout). Users owe nothing. `ntp_exchange` assumes that a timer which
is not cleared goes off and that a rejected promise is delivered; the network and
the server owe nothing. `live_scripts` assumes that the gates, which are
synchronous, run, that the source of time answers, refuses or dies (`Settles`
shows it of the exchange), and that an idle connection times out (`TimesOut`,
both kinds of client set a limit). No other run needs fairness.

The violation runs are disagreements between a document and the code; the
findings in PROJECT.json quote both.

## Proofs

`EfaturaSession_proofs` proves for any `Screens`, `Tokens` and `Faults`: types
(`TypeCorrect`), that an unstored token is private (`UnstoredTokensArePrivate`) and
the refinement (`StoreIsAVault`). The inductive invariant `TokenInv` adds to the
types which tokens are unused, held by one login only, or settled; without it a
second handler could hold a token whose answer is still to be handled.
`ProgressIsReal` (`NoIdleProgress`) is proved for any number of screens, under
`NothingEscapes`: neither a read nor a deletion of the token nor the HTTP client
throws (the first observation below is what happens otherwise). For one screen at a
time and a store that serves every call but perhaps a write (`OneScreen`,
`StoreServes`), `OneSessionShown` and `DisconnectedClean` follow from `ScreenInv`:
the bridge knows what the store holds, except while a write or a start-up read is
under way; no handler but a login or a disconnect runs beside such a read; and
whatever is shown is of the bridge's token or about to be taken away. Evidence files
and the HTTP client may fail, which `efatura_single` leaves out.

`StagedFile_proofs` proves the types, for any calls, overlapping or not.

`NtpExchange_proofs` proves for any bounds on time and datagrams the types
(`TypeCorrect`), `TimeIsFresh` (`Fresh`), `HeldWhileOpen` (`Released`) and the
refinement of `TimeSource` (`Refinement`). What makes an accepted time fresh is
the conjunct `Honest` of its inductive invariant: a flawless reply names a
request that was made before the reply was sent, or none.

Two modules prove the seven safety properties of `LiveHarness`, for any set of
scripts, machines with any set of defects, answers within `Responses` and any
bound on time; the machines and answers of `live_scripts` are a small part of
those.

- `LiveHarness_proofs` starts with what the operators of `AtScripts` return: a result
  comes only from a complete document, a body is read as what was sent or as no
  SOAP at all, when a script goes on, what each outcome confirms and how it exits.
  Its inductive invariant `IInv` adds to the types how requests, answers and the
  counter advance together at each stage, that the time of a request was asked for
  after the last answer, and that every answer followed by a request allowed it;
  from it follow `SignedAfresh`, `CountedExactly` and `SequencesStop`.
- `LiveHarness_reports` shows for the gates of each script which defects they look
  for, whatever their order, and with the invariant `Met` (a run past its gates has
  met them) `GatesHold`. Two more invariants, `Reported` (a report comes from a
  complete sequence of answers, or confirms nothing) and `Wipeable` (every buffer
  held is of a kind the script wipes or of one nothing wipes, and the key and answer
  of the population query belong to its current request), give `ConfirmedRightly`
  and `WipedWhenReported`; how a run ends, and its types (`TypeCorrect`), follow
  from what the outcomes are.

`DocumentCapture_proofs` proves for any documents, types of evidence, faults and
length of the executor's queue the types and `SlotAwaited`: the slot of the bridge
is taken exactly while a handler of the application, mounted or not, waits for the
answer of that capture, and the executor has its job at most once. The inductive
invariant `IInv` says who each job and each call on the record file belongs to.

`TaxInterview_proofs` is about any questionnaire, values, profiles, documents and
bound on the calls.

- `TypeCorrect` and `EstimatesConfirmed` need no hypothesis. The inductive
  invariant `IInv` has the types of what every call and handler carries, which
  calls belong to the handler under way and in which order (`Owner`, `Waiting`),
  that a load is awaited or abandoned (`Loading`) and how many calls there may be
  (`Bound`). `EstimatesConfirmed` is `EstimateIsConfirmed`: whatever an estimate is
  made of was completed, confirmed and within what the interview supports when its
  handler started (`Carries`), that does not change while the handler waits
  (`EstimatingStays`), and the handler asks for the estimate in the step in which the
  save of the same interview takes effect (`EstimateFollowsStore`).
- `QuestionsComplete` (`NothingSkipped`) assumes that the user waits for the
  handlers of the review (`ReviewIsPatient`) and that a questionnaire whose
  documents prove the income asks whether there is any (`Regular`, which the real
  one is). Every interview shown, stored or about to be stored has no open
  question before its current one (`Orderly`); the invariant is about all of
  them, since any may be loaded again after a kill.

`TaxScenarios_proofs` is about any rules of the shape the code loads, any
simulations and any amounts, at the precision of cents as well as of the run.

- `ScenarioIsShown` is the inductive invariant `SInv`: after any opening, sliding,
  saving and reopening, the result on the screen is that of the scenario on the
  screen, which is a simulation the application could store and within the
  validated scope. The other theorems follow from it and from what
  `calculateSimulation` returns for two related simulations.
- `SpendingPays` (`SpendingNeverCosts`) and `ExemptionPays`
  (`ExemptionNeverCosts`) follow from one lemma, `ResultFalls`: a simulation that
  spends no less, and has something exempt where the other has nothing, gets no
  worse a result. It starts with rounding (`MulDivGrows`: a rounded product grows
  with each factor), goes on to each credit under caps that shrink with the income
  (`CreditsGrow`) and to the adjustment for exempt income (`AdjustmentFalls`), and
  ends with the four cases of a result. What is exempt lowers the tax, and a
  credit limited by the tax shrinks by no more than the tax does.
- `ExemptStillRates` (`ExemptIncomeStillRates`) is the rounding of the one product
  that takes off the exempt share of the tax.
- `OnlyUsedYearsCount` (`IdleYearsDoNotCount`) characterises an eligible history
  (`EligibleIs`): its years are consecutive up to the tax year (`Unbroken`), so a
  year put before them keeps it eligible unless it is one year of benefit too many.
- `EntryOrderIsIrrelevant` (`EntryOrderIrrelevant`) shows the credit for dependents
  without choosing an eldest (`DependentIs`), and that every sum over two
  spouses commutes. `DependentOrderIsIrrelevant` says more than the property, which
  tries one other order: any rearrangement of any number of dependents gives the
  same result (`Rearranged` is a bijection of the positions, `SameCount` counts the
  small children through it).
- `EqualSpousesAreIndifferent` follows each amount of a couple of equals from the
  joint assessment to that of one of them alone: it is twice as much but for some
  units (`Near`). Incomes and the tax before the exempt share are exactly twice, a
  rounded product adds one unit (`RoundedNear`), a halved limit one, each dependent
  two, the caps that slide with the income three and ten, and sums, caps and floors
  pass the difference on. Two equal spouses therefore owe the same either way within
  `RoundingOf(n) == 2 * n + 13` units, in the code cents, of whatever rules halve a
  family's limits and divide a couple's income by two (`OfTwo`, as both books in
  `assets/tax_rules` do) and for families whose cap on a group of credits at most
  triples (`WithinTriple`: 40 dependents with the 5% each of those books).
  `EqualSpousesAreIndifferentWithin` is the property `EqualSpousesIndifferent`, for
  every `Rounding` that leaves room for this in each family the wizard saves, which
  no screen changes (`SameFamilies`). The run checks a tighter bound, 3, that the
  households and rules it takes happen to meet.

The assumptions are those of `TaxScenarios`: `RulesAssumption` gives the types of a
book of rules, the upper limits that `_validateResolved` insists on, an average
rate where there is an upper limit, a positive first rate (`ProperBrackets`), and
that caps and rates which the law lowers with the income or the years are not
written the other way round (`Declining`). Every file in `assets/tax_rules`
satisfies them, and TLC evaluates them for the rules of the run. Nothing is assumed
of the sizes of rates, limits and amounts, nor of the number of brackets.

The only assumptions are those named in the modules.

Model-checked only:

- `EarningMorePays`. It does not follow from the shape of the rules: it needs every
  marginal rate, the slopes of the minimum of existence and the decline of the caps
  to stay below one together, which is a fact about the rules of a year and which
  the run takes as they are. Nor does it hold of every step: one more cent earned
  may round the tax up and a sliding cap down by a cent each. The tight bound of
  `EqualSpousesIndifferent` is of the same kind, and only the general one is proved.
- `NeverLeftPartial` and `EditsOrLosesAll` (callers that wait for each other),
  `ListIsCurrent` and `AllOrNothing` (a user who waits), and
  `CompletedMatchesProfile` (a user who waits for the saves after a document change,
  a bound on the calls in flight). Each fails without its wait, which the code does not impose,
  so that a theorem would say little more than the run.
- Liveness (`ProgressEnds`, `Settles`, `EventuallyEnds`), which is beyond the
  provers, as are facts that need ENABLED or an induction over data.

## Observations

Besides the findings, what the models show of the code where a document says
otherwise or says nothing:

- An exception of the HTTP client that the bridge has no clause for (fault
  `"http"`) leaves the progress indicator on: `NoIdleProgress` fails, against
  `APP_STATE_SEMANTICS.md` ("No screen may show indefinite progress").
- A screen popped with a request in flight saves the counts after another screen
  has disconnected: with two slots, that there are no counts while the last screen
  says disconnected fails, against `FISCAL_DATA_ORCHESTRATION.md` ("Disconnect clears
  only e-Fatura evidence"). With one slot the clearing is awaited by the handler that
  disconnects, and nothing is left to go wrong but the file; no property is made of it.
- Of an impatient user, `_continue` saves the interview it captured over a later
  answer, against `GUIDED_TAX_INTERVIEW_ARCHITECTURE.md` ("Progress is atomically
  written ... after each" answer).
- A document that proves the employment income makes a resolution change the
  profile (`_resolve`), which is saved before the interview: in between, or for good
  after a kill, a stored interview that says it is completed disagrees with the
  profile, against `CompletedMatchesProfile`.
- An estimate is saved for a taxpayer who is not resident: neither the engine
  (`tax_interview_engine.dart:258-262`) nor `guided_tax_simulation.dart:46` looks at
  `residentPortugal`, against `GUIDED_TAX_INTERVIEW_ARCHITECTURE.md:65-67` ("supported
  full-year, single-taxpayer employment case"). The scope validator refuses to
  calculate it later.
- A handler whose screen was left dies at its next `ref.read`: a finished interview's
  profile may be saved without the interview (`ProductSaved`).
- A kill between the deletion of the record file and the rename, or a load at that
  point, loses every captured-document record while the encrypted files stay
  (`DocumentCapture`).
- With three calls under way (`MaxCalls`) every property of `interview_flow` holds
  too, over 22.7 million states, more than a run is given time for. A
  user who does not wait for the saves after a document change breaks
  `CompletedMatchesProfile` with two.
- When a connection closes in the middle of a body (`Cut`), the FactIntWS scripts
  end with code 0, without a report and with their buffers unwiped.
- The population script ends with code 0 on POPULATION_DIAGNOSTIC_INCOMPLETE, and
  goes on after a fault, an HTML page or a status 500.
- A fault about authorization counts as AUTH_ERROR: the pattern for
  authentication comes first and matches it.
- The historical script takes an empty `EstadoOperacao` for the number 0 and
  confirms the answer, in whatever text the tag is found: no envelope or namespace is
  looked for.
- `factintws-live-once`, `factintws-invoices-live` and a population query that finds an
  invoice confirm whatever the HTTP status.
- The second copy of a session key (`factintws.mjs:190`) is never wiped, nor the
  bytes of an answer in `factintws-live-once.mjs:58`, `factintws-bootstrap-live.mjs:42`
  and the invoices script, line 36.
- A script that counts a request before it makes it (`countsFirst`) may report
  one that was never sent. The FactIntWS scripts wait without limit for a body
  that drips in.

## Limits

Wording, layout, JSON fields, URL rules and logging are left out. The backend is
external: it creates, ends and rejects sessions. A store call that is still
pending when the user confirms a dialog (`"slow"`) is in the model and in the
proofs but in no run.

`TaxInterview` runs one of its three awaiting handlers at a time, though the code
has no guard against two. It leaves out a save that throws while the application
lives, a profile edited on another screen meanwhile, the review opened from Home
and the IRS history opened from the review (behind a build flag). `_resetTaxYear`
and the older result view are unreachable: `_result` returns the review whenever
there is an interview. `stored` and `simulation` are the entries of one year.

`DocumentCapture` runs one review handler and one load of the screen at a time: a
reload takes the place of one that has not ended. The purge of the start is over
when the documents are opened. `clearTemporary` and `clearUnconfirmed` are called
from the unreachable `_resetTaxYear` only. The result of `File.delete`, which the
bridge drops, is always success; the evidence is read without failing; two
writers do not tear a file, which is the subject of `StagedFile`. The
recognition of amounts in a text, image handling and encryption are left out.

`HouseholdTax` leaves out the transitional IRS Jovem answers without a history and
the dependents' own expenses, which the wizard never sets, and `TaxEngine` the
texts, warnings and the trace of a result.

The connector leaves out bytes (encryption, signatures, envelopes, fingerprints),
the chunks of an answer and the strings decoded from it, which no script wipes, the
copies of a key inside its digest,
redaction and the wording of reports, the metadata of the live bundle, the
discovery script and `soap.mjs` with what only tests call. The era of the NTP
timestamps that starts in 2036 is a flaw, as the code refuses it. A file that
changes between two reads is a throw (`"unreadable"`), a write of a report always
succeeds, and the events after the first that settles a request have no effect,
as in the code.

## Not modelled

- DM3IRS history prefill: a form of candidate values, all confirmed by hand, behind a build
  flag; planned.
- Native FactIntWS client: an experimental path that the application no longer opens;
  one request at a time, in the course of a script of the connector.
- AT validation: developer tooling that compares results with official assessments,
  without state; a candidate for pure operators.
- The parts of the components that PROJECT.json marks as partly modelled: the
  wizard with its draft, consolidation over all sources, the screens that save
  the whole product state, preferences and navigation.
