----------------------------- MODULE LiveHarness -----------------------------
(***************************************************************************)
(* One run of an AT script: local gates, the time of the request, the      *)
(* request itself over TLS, the answer, perhaps further requests, and the  *)
(* report.  The scripts share this course; what tells them apart is in     *)
(* AtScripts.  Between two steps the process waits for an event, and the   *)
(* code that runs on an event is one action.                               *)
(*                                                                         *)
(* The time comes from a TimeSource, which NtpExchange implements.         *)
(***************************************************************************)
EXTENDS AtScripts

CONSTANTS
    Programs,   \* the scripts that may be run
    Envs,       \* per script, the sets of defects its environment may have
    Answers,    \* per script, the answers that the authority may send
    MaxClock    \* bound on time
ASSUME HarnessAssumption ==
    /\ Programs \subseteq AllPrograms
    /\ \A p \in Programs : Answers[p] \subseteq Responses
    /\ MaxClock \in Nat \ {0}

VARIABLES
    prog, wanted, env,          \* the script, its argument, its environment
    clock, state, asked, given, \* the source of time
    pc,         \* "start", "time", "wire" or "ended"
    stage,      \* of the request: "handshake", "waiting", "body" or "silent"
    counted,    \* networkRequests
    sent,       \* requests handed to the network
    answers,    \* their answers
    arrived,    \* and when they were complete
    live,       \* buffers with a key, its copy, the bundle or an answer's bytes
    report,     \* what was printed at the end, at most one
    exit        \* the exit code

choice == <<prog, wanted, env>>
query == <<state, asked, given>>
course == <<pc, stage, counted, sent, answers, arrived, live>>
result == <<report, exit>>
vars == <<choice, clock, query, course, result>>

Time == INSTANCE TimeSource

Script == Scripts[prog]
Plan == PlanOf(prog, wanted)

Init ==
    /\ prog \in Programs
    /\ wanted \in Arguments(prog)
    /\ env \in Envs[prog]
    /\ Time!Init
    /\ pc = "start"
    /\ stage = "none"
    /\ counted = 0
    /\ sent = << >>
    /\ answers = << >>
    /\ arrived = << >>
    /\ live = {}
    /\ report = << >>
    /\ exit = 0
-----------------------------------------------------------------------------
\* The process prints its report and ends, after its finally blocks.
EndWith(outcome, held) ==
    /\ pc' = "ended"
    /\ report' = << [verdict |-> outcome.verdict, confirmed |-> outcome.confirmed,
                     count |-> counted'] >>
    /\ exit' = outcome.exit
    /\ live' = {buffer \in held : buffer[1] \notin Script.wipes}

\* main().catch
EndCaught(error, held) == EndWith(Caught(prog, error), held)

\* Mutant: the counter is set, not increased.
DispatchUncounted(created, held) ==
    /\ pc' = "wire"
    /\ stage' = "handshake"
    /\ counted' = 1
    /\ sent' = Append(sent, Request(Plan[Len(sent) + 1], created))
    /\ live' = held

\* The request is handed over and counted, and waits for its connection.
Dispatch(created, held) ==
    /\ pc' = "wire"
    /\ stage' = "handshake"
    /\ counted' = counted + 1
    /\ sent' = Append(sent, Request(Plan[Len(sent) + 1], created))
    /\ live' = held

\* What is held once the key of a request exists, and once its header is
\* built: buildFactIntWsSecurityMaterial copies the key, and nobody wipes that.
Keyed == live \cup {<<"key", Len(sent) + 1>>, <<"bundle", 0>>}
Held == Keyed \cup {<<"copy", Len(sent) + 1>>}
-----------------------------------------------------------------------------
\* What the machine and the evidence lack.
Lacking == env \cup Unproved

\* The gates, up to the first check that fails.
Blocked ==
    /\ pc = "start"
    /\ ~Clear(Script.gates, Lacking)
    /\ counted' = counted
    /\ LET failure == FirstFailure(Script.gates, Lacking) IN
        IF failure.thrown THEN EndCaught(failure.code, {})
        ELSE EndWith(Says(failure.code, 2, FALSE), {})
    /\ UNCHANGED <<choice, clock, query, stage, sent, answers, arrived>>

Ready == pc = "start" /\ Clear(Script.gates, Lacking)

\* A dry run ends here.
FinishDryRun ==
    /\ Ready
    /\ prog \in DryPrograms
    /\ counted' = counted
    /\ EndWith(DryRunReport(prog), {})
    /\ UNCHANGED <<choice, clock, query, stage, sent, answers, arrived>>

\* A script of FactIntWS asks for the time; some have read the bundle by then.
AskTime ==
    /\ Ready
    /\ prog \in FactIntPrograms
    /\ Time!Ask
    /\ pc' = "time"
    /\ live' = IF Script.opensFirst THEN {<<"bundle", 0>>} ELSE {}
    /\ UNCHANGED <<choice, stage, counted, sent, answers, arrived, result>>

\* The bundle is no longer there when such a script reads it again.
OpenThrows ==
    /\ Ready
    /\ prog \in FactIntPrograms /\ Script.opensFirst
    /\ counted' = counted
    /\ EndCaught("unreadable", {})
    /\ UNCHANGED <<choice, clock, query, stage, sent, answers, arrived>>

\* The older clients use the local clock and send at once; the bundle's
\* bytes are wiped when the request is made, the key when it is encrypted.
SendAtOnce ==
    /\ Ready
    /\ prog \in MtlsPrograms
    /\ env \cap BundleDefects = {}
    /\ Dispatch(clock, {})
    /\ UNCHANGED <<choice, clock, query, answers, arrived, result>>

\* They do not inspect the bundle before: making the request throws, with
\* the bundle's bytes in memory; or a file is no longer there.
SendThrows ==
    /\ Ready
    /\ prog \in MtlsPrograms
    /\ counted' = counted + 1
    /\ \/ /\ env \cap BundleDefects # {}
          /\ EndCaught("bundle", {<<"bundle", 0>>})
       \/ \E error \in {"unreadable", "AtCryptoError"} : EndCaught(error, {})
    /\ UNCHANGED <<choice, clock, query, stage, sent, answers, arrived>>
-----------------------------------------------------------------------------
\* Only one script takes an argument that is checked when the request is built.
Serializer == IF prog = "invoices" THEN SerializerCheck(wanted) ELSE << >>

\* The time arrives, the request is built and sent.
TimeArrives ==
    /\ pc = "time"
    /\ Time!Answer
    /\ Clear(Serializer, env)
    /\ Dispatch(given', Held)
    /\ UNCHANGED <<choice, answers, arrived, result>>

\* Building the request throws: for its input, or because a file changed
\* since the preflight.  One script has counted the request by then.
BuildThrows ==
    /\ pc = "time"
    /\ Time!Answer
    /\ counted' \in {counted} \cup (IF Script.countsFirst THEN {counted + 1} ELSE {})
    /\ \/ EndCaught("unreadable", Keyed)
       \/ ~Clear(Serializer, env) /\ EndCaught(FirstFailure(Serializer, env).code, Held)
    /\ UNCHANGED <<choice, stage, sent, answers, arrived>>

TimeRefused ==
    /\ pc = "time"
    /\ Time!Refuse
    /\ counted' = counted
    /\ EndCaught("NTP_TIME_UNAVAILABLE", live)
    /\ UNCHANGED <<choice, stage, sent, answers, arrived>>

\* The query for the time ends the process, without a report.
Dies ==
    /\ pc = "time"
    /\ Time!Die
    /\ pc' = "ended"
    /\ exit' = 1
    /\ UNCHANGED <<choice, stage, counted, sent, answers, arrived, live, report>>

Tick ==
    /\ pc # "ended"
    /\ Time!Tick
    /\ UNCHANGED <<choice, course, result>>
-----------------------------------------------------------------------------
Reach(from, to) ==
    /\ stage = from
    /\ stage' = to
    /\ UNCHANGED <<choice, clock, query, pc, counted, sent, answers, arrived, live, result>>

\* The connection is secured, the headers arrive, then data or nothing.
Secured == Reach("handshake", "waiting")
HeadersArrive == Reach("waiting", "body")
FallsSilent == Reach("body", "silent")
DataArrives == Reach("silent", "body")

\* What is held when an answer is complete, and what before the next request.
WithBody == live \cup {<<"body", Len(sent)>>}
Kept == {buffer \in WithBody : buffer[1] \notin Script.wipesEach}

\* The answer is complete and was the last one.
Completes(answer) ==
    /\ counted' = counted
    /\ EndWith(Outcome(prog, Plan, Append(answers, answer)), WithBody)
    /\ UNCHANGED query

\* Mutant: a further request is signed with the time of the first.
ContinuesAtOnce ==
    /\ Dispatch(given, Kept \cup {<<"key", Len(sent) + 1>>})
    /\ UNCHANGED <<query, result>>

\* The answer is complete and a further request follows, with its own time.
Continues ==
    /\ Time!Ask
    /\ pc' = "time"
    /\ stage' = "none"
    /\ live' = Kept
    /\ UNCHANGED <<counted, sent, result>>

Receive ==
    /\ stage \in {"body", "silent"}
    /\ \E answer \in Answers[prog] :
        /\ answers' = Append(answers, answer)
        /\ \/ /\ ~Goes(prog, Plan, answers')
              /\ Completes(answer)
              /\ stage' = "none"
              /\ sent' = sent
           \/ /\ Goes(prog, Plan, answers')
              /\ Continues
    /\ arrived' = Append(arrived, clock)
    /\ UNCHANGED <<choice, clock>>

\* Mutant: the older clients have no limit on the whole request either.
ExpiresIdle == pc = "wire" /\ stage # "body"

\* The connection has been idle for too long; the older clients also limit
\* the time of the whole request.
Expires == pc = "wire" /\ (stage # "body" \/ prog \in MtlsPrograms)

\* The error event of the request.
Fail(error) ==
    /\ stage' = "none"
    /\ counted' = counted
    /\ EndCaught(error, live)
    /\ UNCHANGED <<choice, clock, query, sent, answers, arrived>>

TimesOut == Expires /\ Fail("timeout")
ConnectionFails ==
    \E error \in {"reset", "tls", "identity", "bad-record-MAC"} : pc = "wire" /\ Fail(error)

\* Mutant: the request is left open.
CutOpen ==
    /\ stage \in {"body", "silent"}
    /\ stage' = stage
    /\ pc' = "ended"
    /\ UNCHANGED <<choice, clock, query, counted, sent, answers, arrived, live, result>>

\* The connection is closed in the middle of the body.  The request has its
\* response and reports no error, the response has no listener for one: the
\* promise is never settled and the process ends when its event loop is empty.
Cut ==
    /\ stage \in {"body", "silent"}
    /\ stage' = "none"
    /\ pc' = "ended"
    /\ UNCHANGED <<choice, clock, query, counted, sent, answers, arrived, live, result>>

Next ==
    \/ Blocked \/ FinishDryRun \/ AskTime \/ OpenThrows \/ SendAtOnce \/ SendThrows
    \/ TimeArrives \/ BuildThrows \/ TimeRefused \/ Dies \/ Tick
    \/ Secured \/ HeadersArrive \/ FallsSilent \/ DataArrives
    \/ Receive \/ TimesOut \/ ConnectionFails \/ Cut

\* The gates need nobody; the time comes or is refused, which NtpExchange
\* shows for its source; a connection that carries nothing is idle in time.
Fairness ==
    /\ WF_vars(Blocked \/ FinishDryRun \/ AskTime \/ OpenThrows \/ SendAtOnce \/ SendThrows)
    /\ WF_vars(TimeArrives \/ BuildThrows \/ TimeRefused \/ Dies)
    /\ WF_vars(TimesOut)

Spec == Init /\ [][Next]_vars
FairSpec == Spec /\ Fairness
-----------------------------------------------------------------------------
Buffers == {"key", "copy", "bundle", "body"} \X Nat

TypeOK ==
    /\ clock \in 1 .. MaxClock
    /\ state \in {"idle", "asked", "answered", "refused", "dead"}
    /\ {asked, given} \subseteq 0 .. MaxClock
    /\ pc \in {"start", "time", "wire", "ended"}
    /\ stage \in {"none", "handshake", "waiting", "body", "silent"}
    /\ stage # "none" <=> pc = "wire"
    /\ counted \in 0 .. Len(Plan) + 1
    /\ \A i \in DOMAIN sent : sent[i] \in [op : {Plan[i]}, created : 0 .. MaxClock]
    /\ \A i \in DOMAIN answers : answers[i] \in Answers[prog]
    /\ DOMAIN arrived = DOMAIN answers
    /\ live \subseteq Buffers
    /\ Len(report) <= 1
    /\ exit \in 0 .. 2

(***************************************************************************)
(* A script that uses the network, be it only for the time, has a machine  *)
(* that meets what its kind of request needs, in whatever order and by     *)
(* whichever helper its gates look for it; a dry run never uses it.  The   *)
(* older clients do not inspect their bundle before, and the argument of   *)
(* a query is checked last, when the request is built.                     *)
(***************************************************************************)
SettingsDefects == {
    "no-opt-in", "no-bundle-settings", "no-credentials", "odd-username", "bundle-missing",
    "certificate-missing", "certificate-not-RSA"}
BundleForbidden == BundleDefects \cup {
    "no-openssl", "bundle-unknown-to-openssl", "no-certificate-in-bundle", "no-key-in-bundle",
    "no-client-certificate", "not-for-client-use", "no-issuer-in-bundle",
    "issuer-does-not-vouch", "odd-device-metadata"}
HistoricalForbidden == {"odd-environment", "production", "no-dates", "dates-out-of-range"}
ProbeForbidden == {
    "odd-environment", "production", "no-bundle-settings", "bundle-missing", "odd-argument"}

GatesBeforeNetwork ==
    /\ asked > 0 \/ sent # << >> =>
        /\ prog \notin DryPrograms
        /\ prog # "probe" => env \cap SettingsDefects = {}
        /\ prog \in FactIntPrograms => env \cap BundleForbidden = {}
        /\ prog \in {"currentConfig", "invoices"} => "odd-argument" \notin env
        /\ prog = "historical" => env \cap HistoricalForbidden = {}
        /\ prog = "probe" => env \cap ProbeForbidden = {}
    /\ prog = "invoices" /\ sent # << >> =>
        /\ "odd-year" \notin env
        /\ wanted = "FaturasPorSetor" => "odd-sector" \notin env

(***************************************************************************)
(* Every request of a sequence is signed with a time that is not older     *)
(* than the complete answer to the one before, however long that answer    *)
(* took: no request goes out with a time asked for an earlier one.  (Two   *)
(* answers of the time source may be equal, within one tick of it.)        *)
(***************************************************************************)
FreshSecurity == \A i \in 2 .. Len(sent) : sent[i].created >= arrived[i - 1]

(***************************************************************************)
(* The number of requests in a report is the number that were handed to    *)
(* the network, on every path to a report.  Two scripts count a request    *)
(* before they make it: they may report one that was never sent.  The      *)
(* command line of the probe reports no number.                            *)
(***************************************************************************)
NeverUnderCounted ==
    report # << >> /\ prog # "probe" =>
        LET early == report[1].count - Len(sent) IN
        early = 0 \/ (early = 1 /\ Script.countsFirst)

(***************************************************************************)
(* Nothing is retried: a further request needs a complete answer to the    *)
(* one before and is the next of the plan.  The bootstrap sequence stops   *)
(* at the first answer that is not functional, the population query at a   *)
(* SOAP document with an invoice or with a part that it cannot parse (not  *)
(* at a fault, and not at an answer that is no SOAP).                      *)
(***************************************************************************)
Document(answer, op) ==
    /\ answer.wrap \in {"none", answer.encoding}
    /\ answer.text.shape = "soap"
    /\ ~answer.text.doc.fault
    /\ answer.text.doc.block
    /\ answer.text.doc.desc
    /\ answer.text.doc.status \in {"number", "odd"}
    /\ answer.text.doc.invoices # "malformed"
    /\ answer.text.doc.figures # "malformed" \/ op = "DadosContribuinte"

FunctionalAnswer(answer, op) == answer.status = 200 /\ Document(answer, op)

StopsAtFirstFailure ==
    /\ Len(sent) <= Len(Plan)
    /\ Len(sent) <= Len(answers) + 1
    /\ \A i \in 1 .. Len(sent) - 1 :
        /\ prog = "bootstrap" => FunctionalAnswer(answers[i], Plan[i])
        /\ prog = "population" /\ answers[i].text.shape = "soap"
           /\ answers[i].wrap \in {"none", answers[i].encoding} =>
               \/ answers[i].text.doc.fault
               \/ /\ answers[i].text.doc.invoices = "none"
                  /\ answers[i].text.doc.figures # "malformed"

(***************************************************************************)
(* A report confirms that the service works only on answers that show it,  *)
(* as they came over the wire: a complete document without a fault or a    *)
(* malformed part, in SOAP, with HTTP status 200, to every request of the  *)
(* sequence where the sequence is what is confirmed.  That is what two     *)
(* scripts say, in both directions, and what the bootstrap sequence and a  *)
(* population without invoices rest on.  Three reports ask for less: the   *)
(* single request, the invoices and a population with an invoice do not    *)
(* look at the HTTP status.  The older client's asks for least: a status   *)
(* of success and a number in EstadoOperacao, in whatever text, unless the *)
(* text begins like XML and has a fault.  No other script confirms.        *)
(***************************************************************************)
ConfirmedExactly ==
    report # << >> =>
        LET confirmed == report[1].confirmed
            complete == Len(answers) = Len(Plan)
            shown(i) == FunctionalAnswer(answers[i], Plan[i])
        IN  /\ prog \in {"currentConfig", "recovery"} =>
                (confirmed <=> complete /\ shown(Len(Plan)))
            /\ prog = "bootstrap" /\ confirmed =>
                complete /\ \A i \in DOMAIN answers : shown(i)
            /\ prog = "population" /\ confirmed =>
                \/ /\ complete
                   /\ \A i \in DOMAIN answers :
                          shown(i) /\ answers[i].text.doc.invoices = "none"
                \/ \E i \in DOMAIN answers :
                       /\ Document(answers[i], Plan[i])
                       /\ answers[i].text.doc.invoices = "some"
            /\ prog \in {"liveOnce", "invoices"} /\ confirmed =>
                complete /\ Document(answers[1], Plan[1])
            /\ prog = "historical" =>
                (confirmed <=>
                    /\ complete
                    /\ answers[1].status \in 200 .. 299
                    /\ answers[1].wrap = "none"
                    /\ answers[1].text.doc.status \in {"number", "empty"}
                    /\ ~(IsXml(answers[1].text) /\ answers[1].text.doc.fault))
            /\ confirmed => prog \in (FactIntPrograms \ {"framing"}) \cup {"historical"}

(***************************************************************************)
(* When a script of FactIntWS reports, its own session keys and its bundle *)
(* are wiped, whatever path led to the report, and so are the bytes of its *)
(* answers in the four scripts that keep those to the end; the other three *)
(* drop them as they are.  The copies of the keys that the helper made are *)
(* never wiped.  The population query wipes the key and the answer of its  *)
(* first request before the second is built.                               *)
(***************************************************************************)
DropsBody == {"liveOnce", "bootstrap", "invoices"}
NeverWiped == {"copy"} \cup (IF prog \in DropsBody THEN {"body"} ELSE {})

WipedAtEnd ==
    /\ report # << >> /\ prog \in FactIntPrograms => live \subseteq NeverWiped \X Nat
    /\ prog = "population" =>
           live \subseteq {<<"bundle", 0>>, <<"key", Len(sent)>>} \cup ({"copy"} \X Nat)

(***************************************************************************)
(* Every run ends, whatever the network and the authority do, but for one  *)
(* case: a script that only limits how long its connection is idle waits   *)
(* as long as data keeps arriving.                                         *)
(***************************************************************************)
EventuallyEnds == <>(pc = "ended") \/ (prog \in FactIntPrograms /\ []<>(stage = "body"))
=============================================================================
