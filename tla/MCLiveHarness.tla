---------------------------- MODULE MCLiveHarness ----------------------------
(***************************************************************************)
(* LiveHarness on a small instance: machines with one or two defects, any  *)
(* answer to the scripts that make one request, and to those that make     *)
(* several the answers that their sequences tell apart.                    *)
(***************************************************************************)
EXTENDS LiveHarness, TLC

Defects == {
    "no-opt-in", "no-bundle-settings", "no-credentials", "odd-username", "bundle-missing",
    "wrong-bundle-password", "bundle-broken", "no-openssl", "bundle-unknown-to-openssl",
    "no-certificate-in-bundle", "no-key-in-bundle", "no-client-certificate",
    "not-for-client-use", "no-issuer-in-bundle", "issuer-does-not-vouch",
    "certificate-missing", "certificate-not-RSA", "odd-device-metadata", "odd-argument",
    "odd-year", "odd-sector", "odd-environment", "production", "no-dates",
    "dates-out-of-range", "not-a-dry-run"}

LongPrograms == {"bootstrap", "recovery", "population"}

\* Any defect, and two of them where the first is one that every script, the
\* older clients or only the building of a request looks for.
MCEnvs == [p \in AllPrograms |->
    {{}} \cup {{d} : d \in Defects}
    \cup (IF p \in LongPrograms THEN {}
          ELSE {{d, e} : d \in {"bundle-missing", "no-dates", "odd-year"}, e \in Defects})]

Answer(status, encoding, wrap, text) ==
    [status |-> status, encoding |-> encoding, wrap |-> wrap, text |-> text]

Good == [fault |-> FALSE, words |-> "other", block |-> TRUE, status |-> "number",
         desc |-> TRUE, invoices |-> "none", figures |-> "zero"]

\* A good document with one part changed, and faults about anything.
NearlyGood ==
    {Good, [Good EXCEPT !.block = FALSE], [Good EXCEPT !.desc = FALSE],
     [Good EXCEPT !.words = "permission"]}
    \cup {[Good EXCEPT !.status = status] : status \in {"odd", "empty", "missing"}}
    \cup {[Good EXCEPT !.invoices = invoices] : invoices \in {"some", "malformed"}}
    \cup {[Good EXCEPT !.figures = figures] : figures \in {"some", "malformed"}}
Faults == {[Good EXCEPT !.fault = TRUE, !.words = words] : words \in Words}

\* Every status for every text, every coding for a good document and a page;
\* the tags of a document, or of a fault, in texts that are no SOAP.
WideAnswers ==
    {Answer(status, "none", "none", text) :
        status \in {200, 401, 500},
        text \in {Soap(doc) : doc \in NearlyGood \cup Faults}
                \cup {Other(shape) : shape \in (TaggedShapes \ {"soap"}) \cup BareShapes}}
    \cup {Answer(200, encoding, wrap, text) :
        encoding \in Headers, wrap \in Wraps, text \in {Soap(Good), Other("html")}}
    \cup {Answer(status, "none", "none", Text(shape, doc)) :
        status \in {200, 401}, shape \in TaggedShapes \ {"soap"},
        doc \in {Good, [Good EXCEPT !.fault = TRUE]}}

StepAnswers ==
    {Answer(200, "none", "none", Soap(doc)) :
        doc \in {Good, [Good EXCEPT !.figures = "some"], [Good EXCEPT !.invoices = "some"],
                 [Good EXCEPT !.invoices = "malformed"], [Good EXCEPT !.fault = TRUE]}}
    \cup {Answer(500, "none", "none", Soap(Good))}

\* All that matters to a sequence that goes on whatever the answer says.
FramedAnswers == {
    Answer(500, "none", "none", Other("html")),
    Answer(200, "gzip", "none", Soap(Good)),
    Answer(200, "gzip", "damaged", Soap(Good)),
    Answer(200, "none", "none", Soap([Good EXCEPT !.invoices = "malformed"]))}

MCAnswers == [p \in AllPrograms |->
    CASE p = "recovery" -> FramedAnswers
      [] p \in LongPrograms \ {"recovery"} -> StepAnswers \cup FramedAnswers
      [] p \notin LongPrograms -> WideAnswers]
=============================================================================
