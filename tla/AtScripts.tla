------------------------------ MODULE AtScripts ------------------------------
(***************************************************************************)
(* The AT scripts: for each of them its gates, how it handles its buffers  *)
(* and its counter, and what it reports of answers and errors.  A report   *)
(* is abstracted to its classification, to whether it confirms that the    *)
(* service works (by its classification, or as runtime evidence), and to   *)
(* the exit code.                                                          *)
(***************************************************************************)
EXTENDS FactIntParser, LocalGates

FactIntPrograms == {
    "liveOnce", "framing", "currentConfig", "bootstrap", "recovery", "invoices", "population"}
MtlsPrograms == {"historical", "probe"}
DryPrograms == {"historicalDry", "inspect", "authenticated", "feasibility"}
AllPrograms == FactIntPrograms \cup MtlsPrograms \cup DryPrograms

Says(verdict, exit, confirmed) == [verdict |-> verdict, exit |-> exit, confirmed |-> confirmed]

\* A request: its operation, and the Created in its header.
Request(op, created) == [op |-> op, created |-> created]

\* A bundle that no TLS context accepts.
BundleDefects == {"wrong-bundle-password", "bundle-broken"}

\* How a script works: its gates; whether it reads the bundle before it asks
\* for the time, and counts a request before it makes it; and which buffers
\* its finally blocks wipe, at the end and after each request.
Works(gates, opensFirst, countsFirst, wipes, wipesEach) == [
    gates |-> gates, opensFirst |-> opensFirst, countsFirst |-> countsFirst,
    wipes |-> wipes, wipesEach |-> wipesEach]

FactIntGates == LiveChecks \o UsernameCheck \o PfxChecks \o CipherCheck \o ChannelCheck
NotReady == << Fails("matrix", "FACTINTWS_LIVE_NOT_READY") >>
-----------------------------------------------------------------------------
\* factintws-live-once: one EcraInicial.
LiveOnce == Works(
    FactIntGates \o << Fails("matrix", "FACTINTWS_CHANNEL_VALUES_UNKNOWN") >>,
    FALSE, TRUE, {"key", "bundle"}, {})

LiveOnceOutcome(answer) ==
    LET text == Gunzip(answer)
        parsed == Parse(text, "EcraInicial")
    IN  CASE text = Undecodable -> Says("UNKNOWN", 2, FALSE)
          [] text # Undecodable /\ parsed = Malformed -> Says("PARSING_ERROR", 2, FALSE)
          [] parsed.kind = "fault" -> Says(FaultVerdict(parsed.words, "REMOTE_FAULT"), 2, FALSE)
          [] parsed.kind = "result" -> Says("FACTINTWS_8443_TLS_RUNTIME_CONFIRMED", 0, TRUE)

LiveOnceCaught(error) ==
    CASE error = "NTP_TIME_UNAVAILABLE" -> error
      [] error = "bad-record-MAC" -> "TLS12_DID_NOT_RESOLVE_BAD_RECORD_MAC"
      [] error = "identity" -> "FACTINTWS_TLS_IDENTITY_NOT_ACCEPTED"
      [] error = "tls" -> "TLS_ERROR"
      [] OTHER -> "UNKNOWN"
-----------------------------------------------------------------------------
\* factintws-framing-live: the same request, and how its answer is framed.
Framing == Works(
    FactIntGates \o NotReady,
    FALSE, FALSE, {"key", "bundle", "body"}, {})

FramingOutcome(answer) ==
    LET text == DecodeHttpEntity(answer)
        seen == Analysis(answer, text)
    IN  CASE text = Undecodable -> Says("FRAMING_DIAGNOSTIC_INCOMPLETE", 2, FALSE)
          [] seen.soap -> Says(IF Parse(text, "EcraInicial") = Malformed
                               THEN "SOAP_FUNCTIONAL_PARSING_ERROR"
                               ELSE "SOAP_FRAMING_VALID", 0, FALSE)
          [] seen.html -> Says("HTML_ERROR_PAGE", 0, FALSE)
          [] seen.json -> Says("JSON_RESPONSE", 0, FALSE)
          [] seen.xml /\ ~seen.soap /\ ~seen.html -> Says("XML_NON_SOAP_WRAPPER", 0, FALSE)
          [] seen.packed /\ ~seen.xml /\ ~seen.json -> Says("COMPRESSED_BYTES", 0, FALSE)
          [] OTHER -> Says("UNKNOWN_FRAMING", 0, FALSE)
-----------------------------------------------------------------------------
\* factintws-current-config-live: one EcraInicial or DadosContribuinte.
CurrentConfig == Works(
    LiveChecks \o UsernameCheck \o << Throws("odd-argument", "TypeError") >>
        \o PfxChecks \o CipherCheck \o ChannelCheck \o NotReady,
    FALSE, FALSE, {"key", "bundle", "body"}, {})

CurrentConfigOutcome(answer, op) ==
    LET text == DecodeHttpEntity(answer)
        parsed == Parse(text, op)
        soap == Analysis(answer, text).soap
    IN  CASE text = Undecodable -> Says("CURRENT_CONFIG_LIVE_INCOMPLETE", 2, FALSE)
          [] Functional(answer.status, parsed) ->
              Says(IF op = "EcraInicial" THEN "ECRAINICIAL_CURRENT_CONFIG_FUNCTIONAL"
                   ELSE "READ_ONLY_OPERATION_FUNCTIONAL", 0, TRUE)
          [] answer.status = 500 /\ ~soap /\ text # Undecodable ->
              Says("CURRENT_CONFIG_REPRODUCES_HTTP_500", 2, FALSE)
          [] soap /\ parsed.kind = "fault" -> Says("SOAP_FAULT", 2, FALSE)
          [] soap /\ parsed = Malformed -> Says("PARSING_ERROR", 2, FALSE)
          [] OTHER -> Says("UNKNOWN_RESPONSE", 2, FALSE)
-----------------------------------------------------------------------------
\* factintws-bootstrap-live: EcraInicial, DadosContribuinte, EcraInicial.
Bootstrap == Works(
    FactIntGates \o NotReady,
    TRUE, FALSE, {"key", "bundle"}, {})

\* Mutant: any answer that parses will do for the next request.
BootstrapGoesOn(answer, op) == Parse(Gunzip(answer), op) # Malformed

\* runFactIntWsBootstrapSequence
BootstrapGoes(answer, op) == Functional(answer.status, Parse(Gunzip(answer), op))

BootstrapOutcome(plan, answers) ==
    LET last == answers[Len(answers)]
        parsed == Parse(Gunzip(last), plan[Len(answers)])
        complete == Len(answers) = Len(plan) /\ Functional(last.status, parsed)
    IN  CASE ~complete -> Says("BOOTSTRAP_SEQUENCE_INCOMPLETE", 2, FALSE)
          [] complete /\ parsed.figures = "some" ->
              Says("BOOTSTRAP_CALL_MISSING_CONFIRMED", 0, TRUE)
          [] OTHER -> Says("BOOTSTRAP_CALL_SEQUENCE_NOT_SUFFICIENT", 0, TRUE)
-----------------------------------------------------------------------------
\* factintws-recovery-sequence-live: the same operations over one agent.
Recovery == Works(
    << Fails("no-opt-in", "LIVE_CONFIGURATION_MISSING"),
       Fails("no-bundle-settings", "LIVE_CONFIGURATION_MISSING"),
       Fails("no-credentials", "LIVE_CONFIGURATION_MISSING") >>
        \o UsernameCheck \o PfxChecks \o CipherCheck \o ChannelCheck,
    TRUE, FALSE, {"key", "bundle", "body"}, {})

\* Every phase is tried, whatever the one before it was answered with.
RecoveryGoes(answer) == DecodeHttpEntity(answer) # Undecodable

RecoveryOutcome(plan, answers) ==
    LET last == answers[Len(answers)]
        text == DecodeHttpEntity(last)
        recovered == Functional(last.status, Parse(text, plan[Len(answers)]))
    IN  CASE text = Undecodable -> Says("RECOVERY_SEQUENCE_INCOMPLETE", 2, FALSE)
          [] text # Undecodable /\ recovered -> Says("ECRAINICIAL_TRANSPORT_RECOVERED", 0, TRUE)
          [] OTHER -> Says("BOOTSTRAP_CALL_SEQUENCE_NOT_SUFFICIENT", 2, FALSE)
-----------------------------------------------------------------------------
\* Mutant: the certificate that encrypts the session key is not inspected.
InvoicesUninspected == Works(
    << Fails("odd-argument", "INVALID_OPERATION") >> \o LiveChecks \o UsernameCheck
        \o PfxChecks \o ChannelCheck \o NotReady,
    FALSE, FALSE, {"key", "bundle"}, {})

\* factintws-invoices-live: one EcraInicial, FaturasPorClassificar or
\* FaturasPorSetor.
Invoices == Works(
    << Fails("odd-argument", "INVALID_OPERATION") >> \o FactIntGates \o NotReady,
    FALSE, FALSE, {"key", "bundle"}, {})

InvoicesOutcome(answer, op) ==
    LET text == Gunzip(answer)
        parsed == Parse(text, op)
    IN  CASE text = Undecodable -> Says("undecodable", 2, FALSE)
          [] text # Undecodable /\ parsed = Malformed -> Says("PARSING_ERROR", 2, FALSE)
          [] OTHER -> Says(ParsedVerdict(parsed), IF parsed.kind = "fault" THEN 2 ELSE 0,
                           parsed.kind = "result")

\* An error's own code, if it has one.
InvoicesCaught(error) ==
    IF error \in {"timeout", "TypeError", "AtCryptoError"} THEN "UNKNOWN_RESPONSE" ELSE error
-----------------------------------------------------------------------------
\* Mutant: the keys and answers of a request are kept.
PopulationKeeping == Works(
    AllThrow(FactIntGates \o NotReady),
    TRUE, FALSE, {"bundle"}, {})

\* factintws-population-live: FaturasPorSetor, then FaturasPorClassificar.
Population == Works(
    AllThrow(FactIntGates \o NotReady),
    TRUE, FALSE, {"key", "bundle", "body"}, {"key", "body"})

\* A fault or an answer that is no SOAP has no invoices and no parser error.
PopulationGoes(answer, op) ==
    LET text == DecodeHttpEntity(answer)
        parsed == Parse(text, op)
    IN  /\ text # Undecodable
        /\ text.shape = "soap" => parsed # Malformed
        /\ parsed.kind = "result" => parsed.invoices = "none"

PopulationOutcome(plan, answers) ==
    LET text(i) == DecodeHttpEntity(answers[i])
        parsed(i) == Parse(text(i), plan[i])
        tried == 1 .. Len(answers)
        real == \E i \in tried : parsed(i).kind = "result" /\ parsed(i).invoices = "some"
        controlled == \A i \in tried : Functional(answers[i].status, parsed(i))
        failed == text(Len(answers)) = Undecodable
    IN  CASE failed -> Says("POPULATION_DIAGNOSTIC_INCOMPLETE", 2, FALSE)
          [] ~failed /\ real -> Says("REAL_INVOICE_OBSERVED", 0, TRUE)
          [] ~failed /\ ~real /\ controlled ->
              Says("ACCOUNT_POPULATION_CONTEXT_MISMATCH_REINFORCED", 0, TRUE)
          [] OTHER -> Says("POPULATION_DIAGNOSTIC_INCOMPLETE", 0, FALSE)
-----------------------------------------------------------------------------
\* historical-soap-fetch: one InvoicesRequest to the test endpoint of the
\* older service.  Its envelope is built once before the request is counted.
EnvelopeChecks ==
    << Throws("historical", "SOAP_CONTRACT_UNRESOLVED") >> \o DateChecks
        \o UsernameCheck \o CipherCheck

Historical == Works(
    ConfigChecks(TRUE) \o << Throws("no-dates", "Error") >>
        \o << Throws("no-opt-in", "LIVE_TEST_DISABLED") >> \o EnvelopeChecks,
    FALSE, TRUE, {}, {})

HistoricalDry == Works(
    ConfigChecks(TRUE) \o << Throws("no-dates", "Error") >> \o EnvelopeChecks,
    FALSE, FALSE, {}, {})

\* classify and evidenceStatus
HistoricalOutcome(answer) ==
    LET parsed == ParseHistorical(AsReceived(answer))
        successful == answer.status \in 200 .. 299
    IN  CASE parsed = Malformed -> Says("PARSING_ERROR", 2, FALSE)
          [] parsed # Malformed /\ answer.status = 401 -> Says("AUTH_ERROR", 0, FALSE)
          [] parsed # Malformed /\ answer.status = 403 -> Says("AUTHORIZATION_ERROR", 0, FALSE)
          [] OTHER ->
              LET finite == parsed.kind = "result" /\ parsed.finite IN
              Says(CASE parsed.words = "credentials" -> "AUTH_ERROR"
                     [] parsed.words = "permission" -> "AUTHORIZATION_ERROR"
                     [] parsed.kind = "fault" /\ parsed.words = "protocol" -> "SOAP_PROTOCOL_ERROR"
                     [] parsed.kind = "fault" /\ parsed.words \in {"authorization", "other"} ->
                         "REMOTE_FAULT"
                     [] finite /\ parsed.words \notin {"credentials", "permission"} -> "SUCCESS"
                     [] OTHER -> "UNKNOWN",
                   0, finite /\ successful)

\* classifyError
HistoricalCaught(error) ==
    IF error \in {"timeout", "reset", "tls", "identity", "bad-record-MAC", "unreadable"}
    THEN "TLS_ERROR" ELSE "UNKNOWN"
-----------------------------------------------------------------------------
\* cli: the probe sends an empty request, "inspect" loads the bundle only.
Probe == Works(
    ConfigChecks(FALSE) \o << Throws("odd-argument", "Error") >>,
    FALSE, FALSE, {}, {})

Inspect == Works(
    ConfigChecks(FALSE) \o << Throws("wrong-bundle-password", "Error"),
                              Throws("bundle-broken", "Error") >>,
    FALSE, FALSE, {}, {})

ProbeOutcome(answer) ==
    Says(IF IsXml(AsReceived(answer)) THEN "REAL_XML_RESPONSE_RECEIVED"
         ELSE "NON_XML_RESPONSE_RECEIVED", 0, FALSE)

\* test-authenticated-consultation, which has no transport at all.
Authenticated == Works(
    << Throws("not-a-dry-run", "Error") >> \o ConfigChecks(TRUE)
        \o << Throws("consultation", ConsultationEvidence) >>,
    FALSE, FALSE, {}, {})

\* runFactIntWsFeasibility
Feasibility == Works(<< Fails("readiness", Readiness) >>, FALSE, FALSE, {}, {})
-----------------------------------------------------------------------------
Scripts == [
    liveOnce |-> LiveOnce, framing |-> Framing, currentConfig |-> CurrentConfig,
    bootstrap |-> Bootstrap, recovery |-> Recovery, invoices |-> Invoices,
    population |-> Population, historical |-> Historical, probe |-> Probe,
    historicalDry |-> HistoricalDry, inspect |-> Inspect,
    authenticated |-> Authenticated, feasibility |-> Feasibility]

\* The operations a script may be asked for, where its argument chooses one.
Arguments(prog) ==
    CASE prog = "currentConfig" -> {"EcraInicial", "DadosContribuinte"}
      [] prog = "invoices" -> {"EcraInicial", "FaturasPorClassificar", "FaturasPorSetor"}
      [] OTHER -> {"EcraInicial"}

\* The requests of a run that goes well.
PlanOf(prog, wanted) ==
    CASE prog \in {"liveOnce", "framing", "currentConfig", "invoices"} -> << wanted >>
      [] prog \in {"bootstrap", "recovery"} -> << "EcraInicial", "DadosContribuinte", "EcraInicial" >>
      [] prog = "population" -> << "FaturasPorSetor", "FaturasPorClassificar" >>
      [] prog \in MtlsPrograms -> << prog >>
      [] prog \in DryPrograms -> << >>

\* Whether an answer is followed by a further request, and the report if not.
Goes(prog, plan, answers) ==
    LET last == answers[Len(answers)]
        op == plan[Len(answers)]
    IN  /\ Len(answers) < Len(plan)
        /\ CASE prog = "bootstrap" -> BootstrapGoes(last, op)
             [] prog = "recovery" -> RecoveryGoes(last)
             [] prog = "population" -> PopulationGoes(last, op)

Outcome(prog, plan, answers) ==
    LET last == answers[Len(answers)] IN
    CASE prog = "liveOnce" -> LiveOnceOutcome(last)
      [] prog = "framing" -> FramingOutcome(last)
      [] prog = "currentConfig" -> CurrentConfigOutcome(last, plan[1])
      [] prog = "bootstrap" -> BootstrapOutcome(plan, answers)
      [] prog = "recovery" -> RecoveryOutcome(plan, answers)
      [] prog = "invoices" -> InvoicesOutcome(last, plan[1])
      [] prog = "population" -> PopulationOutcome(plan, answers)
      [] prog = "historical" -> HistoricalOutcome(last)
      [] prog = "probe" -> ProbeOutcome(last)

\* What main().catch reports; the older command line exits with 1.
Caught(prog, error) ==
    CASE prog = "liveOnce" -> Says(LiveOnceCaught(error), 2, FALSE)
      [] prog = "framing" -> Says("FRAMING_DIAGNOSTIC_INCOMPLETE", 2, FALSE)
      [] prog = "currentConfig" -> Says("CURRENT_CONFIG_LIVE_INCOMPLETE", 2, FALSE)
      [] prog = "bootstrap" -> Says("BOOTSTRAP_SEQUENCE_INCOMPLETE", 2, FALSE)
      [] prog = "recovery" -> Says("RECOVERY_SEQUENCE_INCOMPLETE", 2, FALSE)
      [] prog = "invoices" -> Says(InvoicesCaught(error), 2, FALSE)
      [] prog = "population" -> Says("POPULATION_DIAGNOSTIC_INCOMPLETE", 2, FALSE)
      [] prog \in {"historical", "historicalDry"} -> Says(HistoricalCaught(error), 2, FALSE)
      [] prog \in {"probe", "inspect"} -> Says("at.command.failed", 1, FALSE)
      [] prog = "authenticated" -> Says("BLOCKED", 2, FALSE)

DryRunReport(prog) ==
    CASE prog = "historicalDry" -> Says("DRY_RUN", 0, FALSE)
      [] prog = "inspect" -> Says("loaded", 0, FALSE)
      [] prog = "feasibility" -> Says("READY_FOR_SEPARATELY_APPROVED_SINGLE_LIVE_TEST", 0, FALSE)
=============================================================================
