------------------------- MODULE LiveHarness_proofs -------------------------
(***************************************************************************)
(* What LiveHarness promises of any scripts, machines, answers and times,  *)
(* and before that what the operators of AtScripts return, for any answer  *)
(* and any machine: the plan of a script, what it reads from an answer,    *)
(* when it goes on, and what it confirms.                                  *)
(***************************************************************************)
EXTENDS LiveHarness, SequenceTheorems, TLAPS

Operations == {
    "EcraInicial", "DadosContribuinte", "FaturasPorClassificar", "FaturasPorSetor",
    "historical", "probe"}

Requests == [op : Operations, created : Nat]

\* The plan of any script is a sequence of operations, empty for a dry run.
LEMMA PlanType ==
  ASSUME NEW p \in AllPrograms, NEW w \in Arguments(p)
  PROVE  /\ PlanOf(p, w) \in Seq(Operations)
         /\ p \notin DryPrograms => Len(PlanOf(p, w)) > 0
<1> USE DEF AllPrograms, FactIntPrograms, MtlsPrograms, DryPrograms
<1>1. CASE p \in {"liveOnce", "framing", "currentConfig", "invoices"}
  <2>1. w \in Operations
    BY <1>1 DEF Arguments, Operations
  <2>2. PlanOf(p, w) = <<w>>
    BY <1>1 DEF PlanOf
  <2> QED
    BY <2>1, <2>2
<1>2. CASE p \in {"bootstrap", "recovery"}
  <2>1. PlanOf(p, w) = << "EcraInicial", "DadosContribuinte", "EcraInicial" >>
    BY <1>2 DEF PlanOf
  <2> QED
    BY <2>1 DEF Operations
<1>3. CASE p = "population"
  <2>1. PlanOf(p, w) = << "FaturasPorSetor", "FaturasPorClassificar" >>
    BY <1>3 DEF PlanOf
  <2> QED
    BY <2>1 DEF Operations
<1>4. CASE p \in MtlsPrograms
  <2>1. PlanOf(p, w) = <<p>>
    BY <1>4 DEF PlanOf
  <2> QED
    BY <1>4, <2>1 DEF Operations
<1>5. CASE p \in DryPrograms
  <2>1. PlanOf(p, w) = << >>
    BY <1>5 DEF PlanOf
  <2> QED
    BY <1>5, <2>1
<1> QED
  BY <1>1, <1>2, <1>3, <1>4, <1>5

(***************************************************************************)
(* What holds before an answer is followed by a further request.           *)
(***************************************************************************)
MayFollow(p, answer, op) ==
    /\ p = "bootstrap" => FunctionalAnswer(answer, op)
    /\ p = "population" /\ answer.text.shape = "soap"
       /\ answer.wrap \in {"none", answer.encoding} =>
           \/ answer.text.doc.fault
           \/ /\ answer.text.doc.invoices = "none"
              /\ answer.text.doc.figures # "malformed"

\* A result comes from a document that is complete.
LEMMA ResultIsComplete ==
  ASSUME NEW text, NEW op, Parse(text, op).kind = "result"
  PROVE  /\ text.shape = "soap"
         /\ ~text.doc.fault
         /\ text.doc.block
         /\ text.doc.desc
         /\ text.doc.status \notin {"empty", "missing"}
         /\ text.doc.invoices # "malformed"
         /\ text.doc.figures # "malformed" \/ op = "DadosContribuinte"
         /\ Parse(text, op).invoices = text.doc.invoices
<1>1. CASE text.shape # "soap"
  <2>1. Parse(text, op) = Malformed
    BY <1>1 DEF Parse
  <2> QED
    BY <2>1 DEF Malformed
<1>2. CASE text.shape = "soap" /\ text.doc.fault
  <2>1. Parse(text, op).kind = "fault"
    BY <1>2 DEF Parse
  <2> QED
    BY <2>1
<1>3. CASE text.shape = "soap" /\ ~text.doc.fault
  BY <1>3 DEF Parse, Malformed
<1> QED
  BY <1>1, <1>2, <1>3

\* The text of an answer is what came over the wire, or no SOAP at all.
LEMMA GunzipSoap ==
  ASSUME NEW answer \in Responses, Gunzip(answer).shape = "soap"
  PROVE  Gunzip(answer) = answer.text /\ answer.wrap \in {"none", answer.encoding}
BY DEF Gunzip, Undecodable, Undecoded, Other, Text

LEMMA DecodedSoap ==
  ASSUME NEW answer \in Responses, DecodeHttpEntity(answer).shape = "soap"
  PROVE  DecodeHttpEntity(answer) = answer.text /\ answer.wrap \in {"none", answer.encoding}
BY DEF DecodeHttpEntity, Undecodable, Undecoded, Other, Text

LEMMA DocOfText ==
  ASSUME NEW answer \in Responses
  PROVE  answer.text.doc \in Docs
<1>1. NoTags \in Docs
  BY DEF NoTags, Docs, Words
<1>2. answer.text \in Texts
  BY DEF Responses
<1>3. \/ answer.text \in {Text(shape, doc) : shape \in TaggedShapes, doc \in Docs}
      \/ answer.text \in {Other(shape) : shape \in BareShapes}
  BY <1>2 DEF Texts
<1>4. CASE answer.text \in {Text(shape, doc) : shape \in TaggedShapes, doc \in Docs}
  BY <1>4 DEF Text
<1>5. CASE answer.text \in {Other(shape) : shape \in BareShapes}
  BY <1>1, <1>5 DEF Other, Text
<1> QED
  BY <1>3, <1>4, <1>5

\* What a script reads as a result is a document, as it came over the wire.
LEMMA ReadIsDocument ==
  ASSUME NEW answer \in Responses, NEW op,
         NEW text, text = answer.text, answer.wrap \in {"none", answer.encoding},
         Parse(text, op).kind = "result"
  PROVE  /\ Document(answer, op)
         /\ Parse(text, op).invoices = answer.text.doc.invoices
<1>1. answer.text.doc \in Docs
  BY DocOfText
<1>2. answer.text.doc.status \in {"number", "odd", "empty", "missing"}
  BY <1>1 DEF Docs
<1> QED
  BY <1>2, ResultIsComplete DEF Document

LEMMA GunzippedResult ==
  ASSUME NEW answer \in Responses, NEW op, Parse(Gunzip(answer), op).kind = "result"
  PROVE  Document(answer, op)
<1>1. Gunzip(answer).shape = "soap"
  BY ResultIsComplete
<1> QED
  BY <1>1, GunzipSoap, ReadIsDocument

LEMMA DecodedResult ==
  ASSUME NEW answer \in Responses, NEW op, Parse(DecodeHttpEntity(answer), op).kind = "result"
  PROVE  /\ Document(answer, op)
         /\ Parse(DecodeHttpEntity(answer), op).invoices = answer.text.doc.invoices
<1>1. DecodeHttpEntity(answer).shape = "soap"
  BY ResultIsComplete
<1> QED
  BY <1>1, DecodedSoap, ReadIsDocument

LEMMA FunctionalBootstrap ==
  ASSUME NEW answer \in Responses, NEW op, BootstrapGoes(answer, op)
  PROVE  FunctionalAnswer(answer, op)
BY GunzippedResult DEF BootstrapGoes, Functional, FunctionalAnswer

LEMMA ReadablePopulation ==
  ASSUME NEW answer \in Responses, NEW op, op # "DadosContribuinte",
         PopulationGoes(answer, op),
         answer.text.shape = "soap", answer.wrap \in {"none", answer.encoding}
  PROVE  \/ answer.text.doc.fault
         \/ /\ answer.text.doc.invoices = "none"
            /\ answer.text.doc.figures # "malformed"
<1> DEFINE text == DecodeHttpEntity(answer)
<1>1. text = answer.text
  BY DEF DecodeHttpEntity
<1>2. Parse(text, op) # Malformed
  BY <1>1 DEF PopulationGoes
<1>3. CASE text.doc.fault
  BY <1>1, <1>3
<1>4. CASE ~text.doc.fault
  <2>1. Parse(text, op).kind = "result"
    BY <1>1, <1>2, <1>4 DEF Parse
  <2>2. Parse(text, op).invoices = "none"
    BY <2>1 DEF PopulationGoes
  <2> QED
    BY <1>1, <2>1, <2>2, ResultIsComplete
<1> QED
  BY <1>3, <1>4

\* A script goes on only within its plan, and after an answer that lets it.
LEMMA GoesOnlyAfter ==
  ASSUME NEW p \in AllPrograms, NEW w \in Arguments(p),
         NEW plan, plan = PlanOf(p, w),
         NEW replies \in Seq(Responses), replies # << >>,
         Goes(p, plan, replies)
  PROVE  /\ Len(replies) < Len(plan)
         /\ MayFollow(p, replies[Len(replies)], plan[Len(replies)])
<1> DEFINE last == replies[Len(replies)]
           op == plan[Len(replies)]
<1>1. Len(replies) < Len(plan)
  BY DEF Goes
<1>2. last \in Responses
  OBVIOUS
<1>3. ASSUME p = "bootstrap"
      PROVE  FunctionalAnswer(last, op)
  <2>1. BootstrapGoes(last, op)
    BY <1>3 DEF Goes
  <2> QED
    BY <1>2, <2>1, FunctionalBootstrap
<1>4. ASSUME p = "population",
             last.text.shape = "soap", last.wrap \in {"none", last.encoding}
      PROVE  \/ last.text.doc.fault
             \/ /\ last.text.doc.invoices = "none"
                /\ last.text.doc.figures # "malformed"
  <2>1. PopulationGoes(last, op)
    BY <1>4 DEF Goes
  <2>2. plan = << "FaturasPorSetor", "FaturasPorClassificar" >>
    BY <1>4 DEF PlanOf, MtlsPrograms, DryPrograms
  <2>3. op # "DadosContribuinte"
    BY <1>1, <2>2
  <2> QED
    BY <1>2, <1>4, <2>1, <2>3, ReadablePopulation
<1> QED
  BY <1>1, <1>3, <1>4 DEF MayFollow
-----------------------------------------------------------------------------
\* The three kinds of what is read from a document.
LEMMA ParseKinds ==
  ASSUME NEW text, NEW op
  PROVE  Parse(text, op) = Malformed \/ Parse(text, op).kind \in {"fault", "result"}
<1>1. CASE text.shape # "soap"
  BY <1>1 DEF Parse
<1>2. CASE text.shape = "soap" /\ text.doc.fault
  <2>1. Parse(text, op).kind = "fault"
    BY <1>2 DEF Parse
  <2> QED
    BY <2>1
<1>3. CASE text.shape = "soap" /\ ~text.doc.fault
  BY <1>3 DEF Parse
<1> QED
  BY <1>1, <1>2, <1>3

\* A functional answer, seen on the wire and by the scripts that decode it.
LEMMA FunctionalDecoded ==
  ASSUME NEW answer \in Responses, NEW op
  PROVE  Functional(answer.status, Parse(DecodeHttpEntity(answer), op))
            <=> FunctionalAnswer(answer, op)
<1> DEFINE text == DecodeHttpEntity(answer)
<1>1. ASSUME Functional(answer.status, Parse(text, op))
      PROVE  FunctionalAnswer(answer, op)
  BY <1>1, DecodedResult DEF Functional, FunctionalAnswer
<1>2. ASSUME FunctionalAnswer(answer, op)
      PROVE  Functional(answer.status, Parse(text, op))
  <2>1. text = answer.text
    BY <1>2 DEF FunctionalAnswer, Document, DecodeHttpEntity
  <2>2. Parse(text, op).kind = "result"
    BY <1>2, <2>1 DEF FunctionalAnswer, Document, Parse
  <2> QED
    BY <1>2, <2>2 DEF FunctionalAnswer, Functional
<1> QED
  BY <1>1, <1>2

LEMMA FunctionalIsText ==
  ASSUME NEW answer \in Responses, NEW op, FunctionalAnswer(answer, op)
  PROVE  DecodeHttpEntity(answer) # Undecodable
<1>1. DecodeHttpEntity(answer).shape = "soap"
  BY DEF FunctionalAnswer, Document, DecodeHttpEntity
<1> QED
  BY <1>1 DEF Undecodable, Other, Text

LEMMA CurrentConfigConfirms ==
  ASSUME NEW answer \in Responses, NEW op
  PROVE  CurrentConfigOutcome(answer, op).confirmed <=> FunctionalAnswer(answer, op)
<1> DEFINE text == DecodeHttpEntity(answer)
           parsed == Parse(text, op)
<1>1. CASE text = Undecodable
  <2>1. ~FunctionalAnswer(answer, op)
    BY <1>1, FunctionalIsText
  <2>2. ~Functional(answer.status, parsed)
    BY <2>1, FunctionalDecoded
  <2>3. CurrentConfigOutcome(answer, op).confirmed = FALSE
    BY <1>1, <2>2 DEF CurrentConfigOutcome, Says
  <2> QED
    BY <2>1, <2>3
<1>2. CASE text # Undecodable /\ Functional(answer.status, parsed)
  <2>1. FunctionalAnswer(answer, op)
    BY <1>2, FunctionalDecoded
  <2>2. CurrentConfigOutcome(answer, op).confirmed = TRUE
    BY <1>2 DEF CurrentConfigOutcome, Says, Functional, Malformed
  <2> QED
    BY <2>1, <2>2
<1>3. CASE text # Undecodable /\ ~Functional(answer.status, parsed)
  <2>1. ~FunctionalAnswer(answer, op)
    BY <1>3, FunctionalDecoded
  <2>2. CurrentConfigOutcome(answer, op).confirmed = FALSE
    BY <1>3 DEF CurrentConfigOutcome, Says
  <2> QED
    BY <2>1, <2>2
<1> QED
  BY <1>1, <1>2, <1>3

LEMMA RecoveryConfirms ==
  ASSUME NEW plan, NEW replies \in Seq(Responses), replies # << >>,
         Len(plan) \in Nat, Len(replies) <= Len(plan),
         ~(Len(replies) < Len(plan) /\ RecoveryGoes(replies[Len(replies)]))
  PROVE  RecoveryOutcome(plan, replies).confirmed
            <=> /\ Len(replies) = Len(plan)
                /\ FunctionalAnswer(replies[Len(replies)], plan[Len(replies)])
<1> DEFINE last == replies[Len(replies)]
           op == plan[Len(replies)]
           text == DecodeHttpEntity(last)
           recovered == Functional(last.status, Parse(text, op))
<1>1. last \in Responses
  OBVIOUS
<1>2. recovered <=> FunctionalAnswer(last, op)
  BY <1>1, FunctionalDecoded
<1>3. FunctionalAnswer(last, op) => text # Undecodable
  BY <1>1, FunctionalIsText
<1>4. CASE text = Undecodable
  <2>1. RecoveryOutcome(plan, replies).confirmed = FALSE
    BY <1>4, <1>2, <1>3 DEF RecoveryOutcome, Says
  <2> QED
    BY <1>3, <1>4, <2>1
<1>5. CASE text # Undecodable
  <2>1. Len(replies) = Len(plan)
    BY <1>5 DEF RecoveryGoes
  <2>2. CASE recovered
    <3>1. RecoveryOutcome(plan, replies).confirmed = TRUE
      BY <1>5, <2>2 DEF RecoveryOutcome, Says
    <3> QED
      BY <1>2, <2>1, <2>2, <3>1
  <2>3. CASE ~recovered
    <3>1. RecoveryOutcome(plan, replies).confirmed = FALSE
      BY <1>5, <2>3 DEF RecoveryOutcome, Says
    <3> QED
      BY <1>2, <2>3, <3>1
  <2> QED
    BY <2>2, <2>3
<1> QED
  BY <1>4, <1>5

LEMMA BootstrapConfirms ==
  ASSUME NEW plan, NEW replies \in Seq(Responses), replies # << >>,
         Len(plan) \in Nat, Len(replies) <= Len(plan),
         BootstrapOutcome(plan, replies).confirmed
  PROVE  /\ Len(replies) = Len(plan)
         /\ FunctionalAnswer(replies[Len(replies)], plan[Len(replies)])
<1> DEFINE last == replies[Len(replies)]
           op == plan[Len(replies)]
           parsed == Parse(Gunzip(last), op)
<1>1. Len(replies) = Len(plan) /\ Functional(last.status, parsed)
  BY DEF BootstrapOutcome, Says
<1>2. BootstrapGoes(last, op)
  BY <1>1 DEF BootstrapGoes
<1> QED
  BY <1>1, <1>2, FunctionalBootstrap

\* An invoice was seen, or every answer of the sequence shows that there is none.
LEMMA PopulationConfirms ==
  ASSUME NEW plan, NEW replies \in Seq(Responses), replies # << >>,
         Len(plan) \in Nat, Len(replies) <= Len(plan),
         ~(Len(replies) < Len(plan)
             /\ PopulationGoes(replies[Len(replies)], plan[Len(replies)])),
         PopulationOutcome(plan, replies).confirmed
  PROVE  \/ /\ Len(replies) = Len(plan)
            /\ \A i \in DOMAIN replies :
                   /\ FunctionalAnswer(replies[i], plan[i])
                   /\ replies[i].text.doc.invoices = "none"
         \/ \E i \in DOMAIN replies :
                /\ Document(replies[i], plan[i])
                /\ replies[i].text.doc.invoices = "some"
<1> DEFINE text(i) == DecodeHttpEntity(replies[i])
           parsed(i) == Parse(text(i), plan[i])
           real == \E i \in 1 .. Len(replies) :
                       parsed(i).kind = "result" /\ parsed(i).invoices = "some"
           controlled == \A i \in 1 .. Len(replies) :
                             Functional(replies[i].status, parsed(i))
<1>1. /\ text(Len(replies)) # Undecodable
      /\ real \/ controlled
  <2> HIDE DEF text, parsed, real, controlled
  <2>1. PopulationOutcome(plan, replies) =
          CASE text(Len(replies)) = Undecodable ->
                 Says("POPULATION_DIAGNOSTIC_INCOMPLETE", 2, FALSE)
            [] text(Len(replies)) # Undecodable /\ real ->
                 Says("REAL_INVOICE_OBSERVED", 0, TRUE)
            [] text(Len(replies)) # Undecodable /\ ~real /\ controlled ->
                 Says("ACCOUNT_POPULATION_CONTEXT_MISMATCH_REINFORCED", 0, TRUE)
            [] OTHER -> Says("POPULATION_DIAGNOSTIC_INCOMPLETE", 0, FALSE)
    BY DEF PopulationOutcome, text, parsed, real, controlled
  <2> QED
    BY <2>1 DEF Says
<1>2. ASSUME NEW i \in 1 .. Len(replies), parsed(i).kind = "result"
      PROVE  /\ Document(replies[i], plan[i])
             /\ parsed(i).invoices = replies[i].text.doc.invoices
             /\ replies[i].text.doc.invoices \in {"none", "some"}
  <2>1. replies[i] \in Responses
    OBVIOUS
  <2>2. /\ Document(replies[i], plan[i])
        /\ parsed(i).invoices = replies[i].text.doc.invoices
    BY <1>2, <2>1, DecodedResult
  <2>3. replies[i].text.doc.invoices \in {"none", "some", "malformed"}
    BY <2>1, DocOfText DEF Docs
  <2> QED
    BY <2>2, <2>3 DEF Document
<1>3. CASE real
  BY <1>2, <1>3
<1>4. CASE ~real /\ controlled
  <2>1. ASSUME NEW i \in 1 .. Len(replies)
        PROVE  /\ FunctionalAnswer(replies[i], plan[i])
               /\ parsed(i).kind = "result"
               /\ replies[i].text.doc.invoices = "none"
               /\ parsed(i).invoices = "none"
    <3>1. replies[i].status = 200 /\ parsed(i).kind = "result"
      BY <1>4 DEF Functional
    <3> QED
      BY <1>2, <1>4, <3>1 DEF FunctionalAnswer
  <2>2. Len(replies) \in 1 .. Len(replies)
    OBVIOUS
  <2>3. PopulationGoes(replies[Len(replies)], plan[Len(replies)])
    BY <1>1, <2>1, <2>2 DEF PopulationGoes, Malformed
  <2> QED
    BY <2>1, <2>3
<1> QED
  BY <1>1, <1>3, <1>4

LEMMA HistoricalConfirms ==
  ASSUME NEW answer \in Responses
  PROVE  HistoricalOutcome(answer).confirmed
            <=> /\ answer.status \in 200 .. 299
                /\ answer.wrap = "none"
                /\ answer.text.doc.status \in {"number", "empty"}
                /\ ~(IsXml(answer.text) /\ answer.text.doc.fault)
<1> DEFINE text == AsReceived(answer)
           parsed == ParseHistorical(text)
           finite == parsed.kind = "result" /\ parsed.finite
<1>1. HistoricalOutcome(answer).confirmed
         <=> parsed # Malformed /\ finite /\ answer.status \in 200 .. 299
  <2>1. answer.status \in 200 .. 299 => answer.status # 401 /\ answer.status # 403
    BY DEF Responses
  <2> HIDE DEF parsed
  <2> QED
    BY <2>1 DEF HistoricalOutcome, Says, parsed
<1>2. parsed # Malformed /\ finite
         <=> /\ ~(IsXml(text) /\ text.doc.fault)
             /\ text.doc.status \notin {"missing", "odd"}
  BY DEF ParseHistorical, Malformed
<1>3. answer.text.doc.status \in {"number", "odd", "empty", "missing"}
  BY DocOfText DEF Docs
<1>4. CASE answer.wrap = "none"
  <2>1. text = answer.text
    BY <1>4 DEF AsReceived
  <2> QED
    BY <1>1, <1>2, <1>3, <1>4, <2>1
<1>5. CASE answer.wrap # "none"
  <2>1. text.doc.status = "missing"
    BY <1>5 DEF AsReceived, Undecoded, Other, Text, NoTags
  <2> QED
    BY <1>1, <1>2, <1>5, <2>1
<1> QED
  BY <1>4, <1>5

\* Two scripts that make one request take a document of any HTTP status.
LEMMA LiveOnceConfirms ==
  ASSUME NEW answer \in Responses, LiveOnceOutcome(answer).confirmed
  PROVE  Document(answer, "EcraInicial")
<1> DEFINE parsed == Parse(Gunzip(answer), "EcraInicial")
<1>1. parsed = Malformed \/ parsed.kind \in {"fault", "result"}
  BY ParseKinds
<1>2. parsed.kind = "result"
  <2> HIDE DEF parsed
  <2> QED
    BY <1>1 DEF LiveOnceOutcome, Says, parsed
<1> QED
  BY <1>2, GunzippedResult

LEMMA InvoicesConfirms ==
  ASSUME NEW answer \in Responses, NEW op, InvoicesOutcome(answer, op).confirmed
  PROVE  Document(answer, op)
<1> DEFINE parsed == Parse(Gunzip(answer), op)
<1>1. parsed.kind = "result"
  <2> HIDE DEF parsed
  <2> QED
    BY DEF InvoicesOutcome, Says, parsed
<1> QED
  BY <1>1, GunzippedResult

\* The other two classify only.
LEMMA OthersConfirmNothing ==
  ASSUME NEW answer
  PROVE  /\ FramingOutcome(answer).confirmed = FALSE
         /\ ProbeOutcome(answer).confirmed = FALSE
<1>1. FramingOutcome(answer).confirmed = FALSE
  BY DEF FramingOutcome, Says
<1>2. ProbeOutcome(answer).confirmed = FALSE
  BY DEF ProbeOutcome, Says
<1> QED
  BY <1>1, <1>2

LEMMA ErrorsConfirmNothing ==
  ASSUME NEW p \in AllPrograms \ {"feasibility"}, NEW error
  PROVE  Caught(p, error).confirmed = FALSE
BY DEF Caught, Says, AllPrograms, FactIntPrograms, MtlsPrograms, DryPrograms

LEMMA ErrorsExit ==
  ASSUME NEW p \in AllPrograms \ {"feasibility"}, NEW error
  PROVE  Caught(p, error).exit \in {1, 2}
BY DEF Caught, Says, AllPrograms, FactIntPrograms, MtlsPrograms, DryPrograms

\* Whatever the answers are, a script ends with code 0 or 2.
LEMMA OutcomesExit ==
  ASSUME NEW p \in FactIntPrograms \cup MtlsPrograms, NEW plan, NEW replies
  PROVE  Outcome(p, plan, replies).exit \in {0, 2}
<1> DEFINE last == replies[Len(replies)]
<1>1. LiveOnceOutcome(last).exit \in {0, 2}
  <2>1. \/ Parse(Gunzip(last), "EcraInicial") = Malformed
        \/ Parse(Gunzip(last), "EcraInicial").kind \in {"fault", "result"}
    BY ParseKinds
  <2> QED
    BY <2>1 DEF LiveOnceOutcome, Says
<1>2. FramingOutcome(last).exit \in {0, 2}
  BY DEF FramingOutcome, Says
<1>3. CurrentConfigOutcome(last, plan[1]).exit \in {0, 2}
  BY DEF CurrentConfigOutcome, Says
<1>4. BootstrapOutcome(plan, replies).exit \in {0, 2}
  BY DEF BootstrapOutcome, Says
<1>5. RecoveryOutcome(plan, replies).exit \in {0, 2}
  BY DEF RecoveryOutcome, Says
<1>6. InvoicesOutcome(last, plan[1]).exit \in {0, 2}
  BY DEF InvoicesOutcome, Says
<1>7. PopulationOutcome(plan, replies).exit \in {0, 2}
  BY DEF PopulationOutcome, Says
<1>8. HistoricalOutcome(last).exit \in {0, 2}
  BY DEF HistoricalOutcome, Says
<1>9. ProbeOutcome(last).exit \in {0, 2}
  BY DEF ProbeOutcome, Says
<1> QED
  BY <1>1, <1>2, <1>3, <1>4, <1>5, <1>6, <1>7, <1>8, <1>9
     DEF Outcome, FactIntPrograms, MtlsPrograms
-----------------------------------------------------------------------------
Types ==
    /\ prog \in Programs /\ wanted \in Arguments(prog)
    /\ clock \in Nat /\ asked \in Nat /\ given \in Nat /\ counted \in Nat
    /\ sent \in Seq(Requests)
    /\ answers \in Seq(Answers[prog])
    /\ arrived \in Seq(Nat)
    /\ Len(arrived) = Len(answers)
    /\ \A i \in DOMAIN arrived : arrived[i] <= clock
    /\ pc \in {"start", "time", "wire", "ended"}
    /\ stage # "none" => pc = "wire"

(***************************************************************************)
(* How far a run has come, in requests, answers and the counter.  The time *)
(* that is asked for a further request is asked after the last answer.     *)
(***************************************************************************)
Progress ==
    /\ pc = "start" => sent = << >> /\ answers = << >> /\ counted = 0
    /\ pc = "time" =>
        /\ counted = Len(sent) /\ Len(sent) = Len(answers) /\ Len(sent) < Len(Plan)
        /\ \A i \in DOMAIN arrived : arrived[i] <= asked
    /\ pc = "wire" => counted = Len(sent) /\ Len(sent) = Len(answers) + 1
    /\ pc \in {"time", "wire"} => prog \notin DryPrograms
    /\ pc # "ended" => report = << >>
    /\ Len(sent) <= Len(Plan) /\ Len(sent) <= Len(answers) + 1

Followed ==
    \A i \in DOMAIN answers :
        i < Len(sent) \/ pc = "time" => MayFollow(prog, answers[i], Plan[i])

IInv == Types /\ Progress /\ Followed /\ FreshSecurity /\ NeverUnderCounted

LEMMA PlanOfScript ==
  ASSUME Types
  PROVE  /\ Plan \in Seq(Operations)
         /\ prog \notin DryPrograms => Len(Plan) > 0
BY PlanType, HarnessAssumption DEF Types, Plan

LEMMA Initially == Init => IInv
<1> SUFFICES ASSUME Init PROVE IInv
  OBVIOUS
<1>1. Types
  BY DEF Init, Types, Time!Init
<1>2. Len(Plan) \in Nat
  BY <1>1, PlanOfScript
<1> QED
  BY <1>1, <1>2
     DEF Init, IInv, Progress, Followed, FreshSecurity, NeverUnderCounted

LEMMA CountOfReport ==
  ASSUME NEW outcome, NEW held, EndWith(outcome, held)
  PROVE  pc' = "ended" /\ report' # << >> /\ report'[1].count = counted'
BY DEF EndWith

\* An end of the process between two requests, after which nothing is sent.
LEMMA EndPreserves ==
  ASSUME IInv, pc # "ended", pc' = "ended", stage' = "none",
         UNCHANGED choice, UNCHANGED <<sent, answers, arrived>>,
         clock' \in Nat, clock' >= clock, asked' \in Nat, given' \in Nat, counted' \in Nat,
         report' # << >> /\ prog # "probe" =>
             /\ report'[1].count = counted'
             /\ \/ counted' = Len(sent)
                \/ counted' = Len(sent) + 1 /\ Script.countsFirst
  PROVE  IInv'
<1> USE DEF choice
<1>1. Types'
  BY DEF IInv, Types
<1>2. Progress'
  BY DEF IInv, Progress, Plan
<1>3. Followed'
  BY DEF IInv, Followed, Plan
<1>4. FreshSecurity'
  BY DEF IInv, FreshSecurity
<1>5. NeverUnderCounted'
  <2>1. Len(sent) \in Nat
    BY DEF IInv, Types
  <2> QED
    BY <2>1 DEF NeverUnderCounted, Script
<1> QED
  BY <1>1, <1>2, <1>3, <1>4, <1>5 DEF IInv

\* A request that is handed over, signed with a time that is recent enough.
LEMMA DispatchPreserves ==
  ASSUME IInv, NEW created \in Nat, NEW held, Dispatch(created, held),
         pc \in {"start", "time"}, prog \notin DryPrograms,
         UNCHANGED choice, UNCHANGED <<answers, arrived, report>>,
         clock' \in Nat, clock' >= clock, asked' \in Nat, given' \in Nat,
         \A i \in DOMAIN arrived : arrived[i] <= created
  PROVE  IInv'
<1> USE DEF choice
<1>1. /\ Len(sent) \in Nat /\ counted = Len(sent) /\ Len(sent) = Len(answers)
      /\ Len(sent) < Len(Plan)
  BY PlanOfScript DEF IInv, Types, Progress
<1>2. Plan[Len(sent) + 1] \in Operations
  BY <1>1, PlanOfScript DEF IInv
<1>3. Request(Plan[Len(sent) + 1], created) \in Requests
  BY <1>2 DEF Request, Requests
<1>4. /\ sent' = Append(sent, Request(Plan[Len(sent) + 1], created))
      /\ sent' \in Seq(Requests) /\ Len(sent') = Len(sent) + 1
      /\ pc' = "wire" /\ counted' = counted + 1
  BY <1>3 DEF Dispatch, IInv, Types
<1>5. Types'
  BY <1>1, <1>4 DEF IInv, Types
<1>6. Progress'
  BY <1>1, <1>4 DEF IInv, Progress, Plan
<1>7. Followed'
  <2> SUFFICES ASSUME NEW i \in DOMAIN answers
               PROVE  MayFollow(prog, answers[i], Plan[i])
    BY DEF Followed, Plan
  <2>1. pc = "time"
    BY DEF IInv, Progress
  <2> QED
    BY <2>1 DEF IInv, Followed
<1>8. FreshSecurity'
  <2> SUFFICES ASSUME NEW i \in 2 .. Len(sent) + 1
               PROVE  sent'[i].created >= arrived[i - 1]
    BY <1>4 DEF FreshSecurity
  <2>1. CASE i = Len(sent) + 1
    <3>1. sent'[i].created = created
      BY <1>1, <1>4, <2>1 DEF Request, IInv, Types
    <3>2. i - 1 \in DOMAIN arrived /\ arrived[i - 1] \in Nat
      BY <1>1, <2>1 DEF IInv, Types
    <3> QED
      BY <3>1, <3>2
  <2>2. CASE i # Len(sent) + 1
    <3>1. i \in 2 .. Len(sent) /\ sent'[i] = sent[i]
      BY SMTT(20), <1>1, <1>4, <2>2 DEF IInv, Types
    <3> QED
      BY <3>1 DEF IInv, FreshSecurity
  <2> QED
    BY <2>1, <2>2
<1>9. NeverUnderCounted'
  BY DEF IInv, Progress, NeverUnderCounted
<1> QED
  BY <1>5, <1>6, <1>7, <1>8, <1>9 DEF IInv

\* A step of a run that neither sends nor ends changes little.
LEMMA QuietPreserves ==
  ASSUME IInv, UNCHANGED choice,
         UNCHANGED <<pc, asked, given, counted, sent, answers, arrived, report>>,
         clock' \in Nat, clock' >= clock, stage' # "none" => pc = "wire"
  PROVE  IInv'
<1> USE DEF choice
<1>1. Types'
  BY DEF IInv, Types
<1>2. Progress'
  BY DEF IInv, Progress, Plan
<1>3. Followed'
  BY DEF IInv, Followed, Plan
<1>4. FreshSecurity' /\ NeverUnderCounted'
  BY DEF IInv, FreshSecurity, NeverUnderCounted, Script
<1> QED
  BY <1>1, <1>2, <1>3, <1>4 DEF IInv

\* Every step before the first request or between two of them.
LEMMA GatesPreserve ==
  ASSUME IInv, Blocked \/ FinishDryRun \/ AskTime \/ OpenThrows \/ SendAtOnce \/ SendThrows
  PROVE  IInv'
<1> USE DEF query
<1>1. /\ pc = "start" /\ stage = "none" /\ report = << >>
      /\ sent = << >> /\ answers = << >> /\ arrived = << >> /\ counted = 0
      /\ clock \in Nat /\ asked \in Nat /\ given \in Nat
  <2>1. pc = "start"
    BY DEF Blocked, Ready, FinishDryRun, AskTime, OpenThrows, SendAtOnce, SendThrows
  <2>2. sent = << >> /\ answers = << >> /\ counted = 0 /\ report = << >>
    BY <2>1 DEF IInv, Progress
  <2>3. arrived = << >>
    BY <2>2 DEF IInv, Types
  <2> QED
    BY <2>1, <2>2, <2>3 DEF IInv, Types
<1>2. CASE Blocked
  <2>1. pc' = "ended" /\ report'[1].count = counted'
    BY <1>2, CountOfReport DEF Blocked, EndCaught
  <2> QED
    BY <1>1, <1>2, <2>1, EndPreserves DEF Blocked
<1>3. CASE FinishDryRun
  <2>1. pc' = "ended" /\ report'[1].count = counted'
    BY <1>3, CountOfReport DEF FinishDryRun
  <2> QED
    BY <1>1, <1>3, <2>1, EndPreserves DEF FinishDryRun
<1>4. CASE AskTime
  <2>1. /\ pc' = "time" /\ asked' = clock
        /\ UNCHANGED <<choice, clock, given, stage, counted, sent, answers, arrived, report>>
    BY <1>4 DEF AskTime, Time!Ask, result
  <2>2. prog \notin DryPrograms
    BY <1>4 DEF AskTime, FactIntPrograms, DryPrograms
  <2>3. Len(Plan) \in Nat /\ Len(Plan) > 0
    BY <2>2, PlanOfScript DEF IInv
  <2> QED
    <3>1. Types'
      BY <1>1, <2>1 DEF IInv, Types, choice
    <3>2. Progress'
      BY <1>1, <2>1, <2>2, <2>3 DEF Progress, choice, Plan
    <3>3. Followed' /\ FreshSecurity' /\ NeverUnderCounted'
      BY <1>1, <2>1 DEF Followed, FreshSecurity, NeverUnderCounted
    <3> QED
      BY <3>1, <3>2, <3>3 DEF IInv
<1>5. CASE OpenThrows
  <2>1. pc' = "ended" /\ report'[1].count = counted'
    BY <1>5, CountOfReport DEF OpenThrows, EndCaught
  <2> QED
    BY <1>1, <1>5, <2>1, EndPreserves DEF OpenThrows
<1>6. CASE SendAtOnce
  <2>1. prog \notin DryPrograms
    BY <1>6 DEF SendAtOnce, MtlsPrograms, DryPrograms
  <2>2. Dispatch(clock, {})
    BY <1>6 DEF SendAtOnce
  <2> QED
    BY <1>1, <1>6, <2>1, <2>2, DispatchPreserves DEF SendAtOnce, result
<1>7. CASE SendThrows
  <2>1. pc' = "ended" /\ report'[1].count = counted' /\ counted' = counted + 1
    BY <1>7, CountOfReport DEF SendThrows, EndCaught
  <2>2. ASSUME prog # "probe"
        PROVE  Script.countsFirst
    <3>1. Script = Historical
      BY <1>7, <2>2 DEF SendThrows, MtlsPrograms, Script, Scripts
    <3> QED
      BY <3>1 DEF Historical, Works
  <2> QED
    BY <1>1, <1>7, <2>1, <2>2, EndPreserves DEF SendThrows
<1> QED
  BY <1>2, <1>3, <1>4, <1>5, <1>6, <1>7

LEMMA TimePreserves ==
  ASSUME IInv, TimeArrives \/ BuildThrows \/ TimeRefused \/ Dies
  PROVE  IInv'
<1> USE DEF query
<1>1. /\ pc = "time" /\ stage = "none" /\ report = << >> /\ counted = Len(sent)
      /\ counted \in Nat /\ Len(sent) < Len(Plan)
      /\ \A i \in DOMAIN arrived : arrived[i] \in Nat /\ arrived[i] <= asked
      /\ clock \in Nat /\ asked \in Nat /\ given \in Nat
  BY DEF IInv, Types, Progress, TimeArrives, BuildThrows, TimeRefused, Dies
<1>2. CASE TimeArrives
  <2>1. /\ given' \in asked .. clock /\ UNCHANGED <<clock, asked>>
        /\ Dispatch(given', Held)
        /\ UNCHANGED <<choice, answers, arrived, report>>
    BY <1>2 DEF TimeArrives, Time!Answer, result
  <2>2. prog \notin DryPrograms
    BY <1>1 DEF IInv, Progress
  <2>3. given' \in Nat /\ \A i \in DOMAIN arrived : arrived[i] <= given'
    BY <1>1, <2>1
  <2> QED
    BY <1>1, <2>1, <2>2, <2>3, DispatchPreserves
<1>3. CASE BuildThrows
  <2>1. pc' = "ended" /\ report'[1].count = counted'
    BY <1>3, CountOfReport DEF BuildThrows, EndCaught
  <2>2. /\ given' \in asked .. clock /\ UNCHANGED <<clock, asked>>
        /\ UNCHANGED <<choice, stage, sent, answers, arrived>>
    BY <1>3 DEF BuildThrows, Time!Answer
  <2>3. counted' = counted \/ (counted' = counted + 1 /\ Script.countsFirst)
    BY <1>3 DEF BuildThrows
  <2>4. given' \in Nat /\ counted' \in Nat
    BY <1>1, <2>2, <2>3
  <2> QED
    BY <1>1, <2>1, <2>2, <2>3, <2>4, EndPreserves
<1>4. CASE TimeRefused
  <2>1. pc' = "ended" /\ report'[1].count = counted'
    BY <1>4, CountOfReport DEF TimeRefused, EndCaught
  <2>2. /\ counted' = counted
        /\ UNCHANGED <<choice, clock, asked, given, stage, sent, answers, arrived>>
    BY <1>4 DEF TimeRefused, Time!Refuse
  <2> QED
    BY <1>1, <2>1, <2>2, EndPreserves
<1>5. CASE Dies
  <2>1. /\ pc' = "ended"
        /\ UNCHANGED <<choice, clock, asked, given, stage, counted, sent, answers, arrived, report>>
    BY <1>5 DEF Dies, Time!Die
  <2> QED
    BY <1>1, <2>1, EndPreserves
<1> QED
  BY <1>2, <1>3, <1>4, <1>5

\* A complete answer, with which the run ends or goes on.
LEMMA ReceivePreserves ==
  ASSUME IInv, Receive
  PROVE  IInv'
<1>1. /\ pc = "wire" /\ report = << >> /\ counted = Len(sent) /\ counted \in Nat
      /\ Len(sent) = Len(answers) + 1 /\ Len(sent) <= Len(Plan)
      /\ clock \in Nat /\ asked \in Nat /\ given \in Nat
  BY DEF IInv, Types, Progress, Receive
<1>2. PICK answer \in Answers[prog] :
        /\ answers' = Append(answers, answer)
        /\ \/ /\ Completes(answer) /\ stage' = "none" /\ sent' = sent
           \/ /\ Goes(prog, Plan, answers')
              /\ Continues
  BY DEF Receive
<1>3. /\ arrived' = Append(arrived, clock)
      /\ UNCHANGED <<prog, wanted, env, clock>>
  BY DEF Receive, choice
<1>4. /\ answers' \in Seq(Answers[prog]) /\ arrived' \in Seq(Nat)
      /\ Len(answers') = Len(answers) + 1 /\ Len(arrived') = Len(answers')
      /\ \A i \in DOMAIN answers : answers'[i] = answers[i]
      /\ \A i \in DOMAIN arrived : arrived'[i] = arrived[i]
      /\ DOMAIN answers = 1 .. Len(answers) /\ DOMAIN answers' = 1 .. Len(answers')
      /\ Len(answers) \in Nat /\ Len(arrived) = Len(answers)
  BY <1>2, <1>3 DEF IInv, Types
<1>5. /\ sent' = sent /\ stage' = "none" /\ counted' = counted
      /\ given' = given /\ asked' \in {asked, clock} /\ pc' \in {"time", "ended"}
  <2>1. CASE Completes(answer) /\ stage' = "none" /\ sent' = sent
    BY <2>1, CountOfReport DEF Completes, query
  <2>2. CASE Continues
    BY <2>2 DEF Continues, Time!Ask
  <2> QED
    BY <1>2, <2>1, <2>2
<1>6. /\ report' # << >> => pc' = "ended" /\ report'[1].count = counted'
      /\ pc' = "time" => /\ Goes(prog, Plan, answers') /\ asked' = clock
                         /\ report' = << >>
  <2>1. CASE Completes(answer) /\ stage' = "none" /\ sent' = sent
    BY <2>1, CountOfReport DEF Completes
  <2>2. CASE Goes(prog, Plan, answers') /\ Continues
    BY <1>1, <2>2 DEF Continues, Time!Ask, result
  <2> QED
    BY <1>2, <2>1, <2>2
<1>7. \A p \in Programs : Answers[p] \subseteq Responses
  BY HarnessAssumption
<1>8. /\ pc' = "time" => /\ Len(answers') < Len(Plan)
                         /\ MayFollow(prog, answers'[Len(answers')], Plan[Len(answers')])
  <2> SUFFICES ASSUME pc' = "time"
               PROVE  /\ Len(answers') < Len(Plan)
                      /\ MayFollow(prog, answers'[Len(answers')], Plan[Len(answers')])
    OBVIOUS
  <2>1. prog \in AllPrograms /\ wanted \in Arguments(prog)
    BY HarnessAssumption DEF IInv, Types
  <2>2. answers' \in Seq(Responses) /\ answers' # << >>
    BY <1>4, <1>7 DEF IInv, Types
  <2>3. Goes(prog, Plan, answers')
    BY <1>6
  <2> QED
    BY <2>1, <2>2, <2>3, GoesOnlyAfter DEF Plan
<1>9. Types'
  <2>1. \A i \in DOMAIN arrived' : arrived'[i] <= clock
    BY <1>1, <1>3, <1>4 DEF IInv, Types
  <2> QED
    BY <1>1, <1>3, <1>4, <1>5, <2>1 DEF IInv, Types
<1>10. Progress'
  <2>1. prog \notin DryPrograms
    BY <1>1 DEF IInv, Progress
  <2>2. \A i \in DOMAIN arrived' : arrived'[i] <= clock
    BY <1>3, <1>9 DEF Types
  <2> QED
    BY <1>1, <1>3, <1>4, <1>5, <1>6, <1>8, <2>1, <2>2 DEF Progress, Plan
<1>11. Followed'
  <2> SUFFICES ASSUME NEW i \in DOMAIN answers', i < Len(sent) \/ pc' = "time"
               PROVE  MayFollow(prog, answers'[i], Plan[i])
    BY <1>3, <1>5 DEF Followed, Plan
  <2>1. CASE i \in DOMAIN answers
    <3>1. i < Len(sent)
      BY <1>1, <1>4, <2>1
    <3> QED
      BY <1>4, <2>1, <3>1 DEF IInv, Followed
  <2>2. CASE i \notin DOMAIN answers
    <3>1. i = Len(answers') /\ pc' = "time"
      BY <1>1, <1>4, <2>2
    <3> QED
      BY <1>8, <3>1
  <2> QED
    BY <2>1, <2>2
<1>12. FreshSecurity'
  <2> SUFFICES ASSUME NEW i \in 2 .. Len(sent)
               PROVE  sent[i].created >= arrived'[i - 1]
    BY <1>5 DEF FreshSecurity
  <2>1. i - 1 \in DOMAIN arrived
    BY <1>1, <1>4 DEF IInv, Types
  <2> QED
    BY <1>4, <2>1 DEF IInv, FreshSecurity
<1>13. NeverUnderCounted'
  BY <1>1, <1>5, <1>6 DEF NeverUnderCounted, Script
<1> QED
  BY <1>9, <1>10, <1>11, <1>12, <1>13 DEF IInv

\* Every step of a request that is under way.
LEMMA WirePreserves ==
  ASSUME IInv,
         \/ Secured \/ HeadersArrive \/ FallsSilent \/ DataArrives
         \/ TimesOut \/ ConnectionFails \/ Cut
  PROVE  IInv'
<1>1. /\ pc = "wire" /\ report = << >> /\ counted = Len(sent) /\ counted \in Nat
      /\ clock \in Nat /\ asked \in Nat /\ given \in Nat
  BY DEF IInv, Types, Progress, Secured, HeadersArrive, FallsSilent, DataArrives, Reach,
         TimesOut, Expires, ConnectionFails, Cut
<1>2. CASE \E from, to : Reach(from, to)
  BY <1>1, <1>2, QuietPreserves DEF Reach, query, result
<1>3. CASE \E error : Fail(error)
  <2>1. pc' = "ended" /\ report'[1].count = counted'
    BY <1>3, CountOfReport DEF Fail, EndCaught
  <2> QED
    BY <1>1, <1>3, <2>1, EndPreserves DEF Fail, query
<1>4. CASE Cut
  BY <1>1, <1>4, EndPreserves DEF Cut, query, result
<1> QED
  BY <1>2, <1>3, <1>4
     DEF Secured, HeadersArrive, FallsSilent, DataArrives, TimesOut, ConnectionFails

LEMMA Inductive == IInv /\ [Next]_vars => IInv'
<1> SUFFICES ASSUME IInv, [Next]_vars
             PROVE  IInv'
  OBVIOUS
<1>1. CASE Tick
  <2>1. /\ clock' \in Nat /\ clock' >= clock
        /\ UNCHANGED <<choice, pc, stage, asked, given, counted, sent, answers, arrived, report>>
    BY <1>1 DEF Tick, Time!Tick, Time!query, course, result, IInv, Types
  <2> QED
    BY <2>1, QuietPreserves DEF IInv, Types
<1>2. CASE UNCHANGED vars
  <2>1. /\ clock' \in Nat /\ clock' >= clock
        /\ UNCHANGED <<choice, pc, stage, asked, given, counted, sent, answers, arrived, report>>
    BY <1>2 DEF vars, query, course, result, IInv, Types
  <2> QED
    BY <2>1, QuietPreserves DEF IInv, Types
<1> QED
  BY <1>1, <1>2, GatesPreserve, TimePreserves, ReceivePreserves, WirePreserves DEF Next

\* The inductive invariant holds of every run of every script.
THEOREM Safety == Spec => []IInv
BY Initially, Inductive, PTL DEF Spec

(***************************************************************************)
(* Whatever its answers and however long they take, no request of a script *)
(* is signed with a time from before the answer to the one before.         *)
(***************************************************************************)
THEOREM SignedAfresh == Spec => []FreshSecurity
BY Safety, PTL DEF IInv

(***************************************************************************)
(* On every path to a report, the number of requests in it is the number   *)
(* that were handed over, or one more where a script counts first.         *)
(***************************************************************************)
THEOREM CountedExactly == Spec => []NeverUnderCounted
BY Safety, PTL DEF IInv

(***************************************************************************)
(* No script retries or runs ahead, and the sequences that stop at an      *)
(* answer never send a request after it, whatever the answers are.         *)
(***************************************************************************)
THEOREM SequencesStop == Spec => []StopsAtFirstFailure
<1>1. IInv => StopsAtFirstFailure
  <2> SUFFICES ASSUME IInv, NEW i \in 1 .. Len(sent) - 1
               PROVE  MayFollow(prog, answers[i], Plan[i])
    BY DEF IInv, Progress, StopsAtFirstFailure, MayFollow
  <2>1. Len(sent) \in Nat /\ Len(answers) \in Nat /\ DOMAIN answers = 1 .. Len(answers)
    BY DEF IInv, Types
  <2>2. i \in DOMAIN answers /\ i < Len(sent)
    BY <2>1 DEF IInv, Progress
  <2> QED
    BY <2>2 DEF IInv, Followed
<1> QED
  BY <1>1, Safety, PTL
=============================================================================
