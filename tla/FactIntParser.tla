---------------------------- MODULE FactIntParser ----------------------------
(***************************************************************************)
(* What the AT scripts read from the SOAP document of an answer: a fault,  *)
(* a result, or nothing because the document is malformed.                 *)
(***************************************************************************)
EXTENDS ResponseFraming

Malformed == [kind |-> "malformed"]
-----------------------------------------------------------------------------
\* Mutant: a malformed invoice is skipped.
ParseSkipping(text, op) ==
    CASE text.shape # "soap" -> Malformed
      [] text.shape = "soap" /\ text.doc.fault -> [kind |-> "fault", words |-> text.doc.words]
      [] OTHER ->
          LET doc == text.doc IN
          IF \/ ~doc.block
             \/ doc.status \in {"empty", "missing"} \/ ~doc.desc
             \/ doc.figures = "malformed" /\ op # "DadosContribuinte"
          THEN Malformed
          ELSE [kind |-> "result", invoices |-> doc.invoices, figures |-> doc.figures]

\* parseFactIntWsResponse: a fault is looked for before the response element,
\* and one malformed invoice or figure spoils the whole document.
Parse(text, op) ==
    CASE text.shape # "soap" -> Malformed
      [] text.shape = "soap" /\ text.doc.fault -> [kind |-> "fault", words |-> text.doc.words]
      [] OTHER ->
          LET doc == text.doc IN
          IF \/ ~doc.block
             \/ doc.status \in {"empty", "missing"} \/ ~doc.desc
             \/ doc.invoices = "malformed"
             \/ doc.figures = "malformed" /\ op # "DadosContribuinte"
          THEN Malformed
          ELSE [kind |-> "result", invoices |-> doc.invoices, figures |-> doc.figures]

\* The patterns for credentials also match "authorization", and come first.
FaultVerdict(words, otherwise) ==
    CASE words \in {"credentials", "authorization"} -> "AUTH_ERROR"
      [] words = "permission" -> "AUTHORIZATION_ERROR"
      [] OTHER -> otherwise

\* classifyFactIntWsParsedResult
ParsedVerdict(parsed) ==
    CASE parsed.kind = "fault" -> FaultVerdict(parsed.words, "SOAP_PROTOCOL_ERROR")
      [] parsed.kind = "result" /\ parsed.invoices = "some" -> "SUCCESS_NON_EMPTY_RESULT"
      [] OTHER -> "SUCCESS_EMPTY_RESULT"

\* functionalReadOnlyResult
Functional(status, parsed) == status = 200 /\ parsed.kind = "result"
-----------------------------------------------------------------------------
\* parseSoapResponse of the older client: is the text XML at all?
IsXml(text) == text.shape \in {"soap", "envelope", "xml", "cut", "html", "doctype"}

\* fetchOnce: a fault is looked for in XML only; without one, any text in which
\* EstadoOperacao is found is the list, SOAP or not.  Its status may not be a
\* number; an empty one is the number 0.
ParseHistorical(text) ==
    LET doc == text.doc
        fault == IsXml(text) /\ doc.fault
    IN  CASE fault -> [kind |-> "fault", words |-> doc.words]
          [] ~fault /\ doc.status # "missing" ->
              [kind |-> "result", words |-> doc.words, finite |-> doc.status # "odd"]
          [] OTHER -> Malformed
=============================================================================
