------------------------ MODULE LiveHarness_reports ------------------------
(***************************************************************************)
(* What the gates of the scripts look for, in whatever order and by        *)
(* whichever helper they do, and that no run uses the network without it;  *)
(* what a report says of the answers behind it, and what the process still *)
(* holds when it prints one.                                               *)
(***************************************************************************)
EXTENDS LiveHarness_proofs

\* A sequence of checks that looks for some defects.
IsSequence(s) == \E S : s \in Seq(S)
LooksFor(checks, defects) ==
    /\ IsSequence(checks)
    /\ \A d \in defects : \E i \in DOMAIN checks : checks[i].defect = d

LEMMA ClearOf ==
  ASSUME NEW checks, NEW defects, NEW lacking,
         LooksFor(checks, defects), Clear(checks, lacking)
  PROVE  lacking \cap defects = {}
BY DEF LooksFor, Clear

LEMMA LooksConcat ==
  ASSUME NEW s, NEW t, NEW c, NEW d, LooksFor(s, c), LooksFor(t, d)
  PROVE  LooksFor(s \o t, c \cup d)
<1>1. PICK S, T : s \in Seq(S) /\ t \in Seq(T)
  BY DEF LooksFor, IsSequence
<1>2. s \in Seq(S \cup T) /\ t \in Seq(S \cup T)
  BY <1>1
<1>3. s \o t \in Seq(S \cup T)
  BY <1>2
<1>4. ASSUME NEW x \in c
      PROVE  \E i \in DOMAIN (s \o t) : (s \o t)[i].defect = x
  <2>1. PICK i \in DOMAIN s : s[i].defect = x
    BY DEF LooksFor
  <2>2. i \in DOMAIN (s \o t) /\ (s \o t)[i] = s[i]
    BY <1>2
  <2> QED
    BY <2>1, <2>2
<1>5. ASSUME NEW x \in d
      PROVE  \E i \in DOMAIN (s \o t) : (s \o t)[i].defect = x
  <2>1. PICK i \in DOMAIN t : t[i].defect = x
    BY DEF LooksFor
  <2>2. Len(s) + i \in DOMAIN (s \o t) /\ (s \o t)[Len(s) + i] = t[i]
    BY <1>2
  <2> QED
    BY <2>1, <2>2
<1> QED
  BY <1>3, <1>4, <1>5 DEF LooksFor, IsSequence

LEMMA LooksForFewer ==
  ASSUME NEW s, NEW c, NEW d, LooksFor(s, c), d \subseteq c
  PROVE  LooksFor(s, d)
BY DEF LooksFor

\* The same checks, each of which throws.
LEMMA LooksThrowing ==
  ASSUME NEW s, NEW d, LooksFor(s, d)
  PROVE  LooksFor(AllThrow(s), d)
<1>1. PICK S : s \in Seq(S)
  BY DEF LooksFor, IsSequence
<1>2. DOMAIN s = 1 .. Len(s) /\ Len(s) \in Nat
  BY <1>1
<1> DEFINE T == {AllThrow(s)[i] : i \in 1 .. Len(s)}
<1>3. AllThrow(s) = [i \in 1 .. Len(s) |-> Throws(s[i].defect, s[i].code)]
  BY <1>2 DEF AllThrow
<1>4. AllThrow(s) \in [1 .. Len(s) -> T]
  BY <1>3
<1>5. AllThrow(s) \in Seq(T)
  BY <1>2, <1>4, SeqDef
<1>6. \A i \in DOMAIN s : i \in DOMAIN AllThrow(s) /\ AllThrow(s)[i].defect = s[i].defect
  BY <1>2, <1>3 DEF Throws
<1> QED
  BY <1>5, <1>6 DEF LooksFor, IsSequence

\* One check, two and three of them.
LEMMA LooksOne ==
  ASSUME NEW x, NEW s, s = << x >>
  PROVE  LooksFor(s, {x.defect})
<1>1. s \in Seq({x}) /\ DOMAIN s = 1 .. 1 /\ s[1] = x
  OBVIOUS
<1>2. IsSequence(s)
  BY <1>1 DEF IsSequence
<1> QED
  BY <1>1, <1>2 DEF LooksFor

LEMMA LooksTwo ==
  ASSUME NEW x, NEW y, NEW s, s = << x, y >>
  PROVE  LooksFor(s, {x.defect, y.defect})
<1>1. s \in Seq({x, y}) /\ DOMAIN s = 1 .. 2 /\ s[1] = x /\ s[2] = y
  OBVIOUS
<1>2. IsSequence(s)
  BY <1>1 DEF IsSequence
<1> QED
  BY <1>1, <1>2 DEF LooksFor

LEMMA LooksThree ==
  ASSUME NEW x, NEW y, NEW z, NEW s, s = << x, y, z >>
  PROVE  LooksFor(s, {x.defect, y.defect, z.defect})
<1>1. s \in Seq({x, y, z}) /\ DOMAIN s = 1 .. 3 /\ s[1] = x /\ s[2] = y /\ s[3] = z
  OBVIOUS
<1>2. IsSequence(s)
  BY <1>1 DEF IsSequence
<1> QED
  BY <1>1, <1>2 DEF LooksFor

LEMMA DefectOf ==
  ASSUME NEW d, NEW c
  PROVE  Fails(d, c).defect = d /\ Throws(d, c).defect = d
BY DEF Fails, Throws

Settings == {"no-opt-in", "no-bundle-settings", "no-credentials"}
Bundle == {
    "bundle-missing", "wrong-bundle-password", "bundle-broken", "no-openssl",
    "bundle-unknown-to-openssl", "no-certificate-in-bundle", "no-key-in-bundle",
    "no-client-certificate", "not-for-client-use", "no-issuer-in-bundle",
    "issuer-does-not-vouch"}
Certificate == {"certificate-missing", "certificate-not-RSA"}

LEMMA LiveLooks == LooksFor(LiveChecks, Settings)
<1> DEFINE x == Fails("no-opt-in", "LIVE_TEST_DISABLED")
           y == Fails("no-bundle-settings", "AUTH_CONFIGURATION_MISSING")
           z == Fails("no-credentials", "AUTH_CONFIGURATION_MISSING")
<1>1. LooksFor(LiveChecks, {x.defect, y.defect, z.defect})
  BY LooksThree DEF LiveChecks
<1>2. {x.defect, y.defect, z.defect} = Settings
  BY DefectOf DEF Settings
<1> QED
  BY <1>1, <1>2

LEMMA UsernameLooks == LooksFor(UsernameCheck, {"odd-username"})
BY LooksOne, DefectOf DEF UsernameCheck

LEMMA ChannelLooks == LooksFor(ChannelCheck, {"odd-device-metadata"})
BY LooksOne, DefectOf DEF ChannelCheck

LEMMA CipherLooks == LooksFor(CipherCheck, Certificate)
BY LooksTwo, DefectOf DEF CipherCheck, Certificate

LEMMA PfxLooks == LooksFor(PfxChecks, Bundle)
<1>1. IsSequence(PfxChecks)
  <2> SUFFICES \E S : PfxChecks \in Seq(S)
    BY DEF IsSequence
  <2> WITNESS {PfxChecks[i] : i \in 1 .. 11}
  <2>1. PfxChecks = [i \in 1 .. 11 |-> PfxChecks[i]]
    BY DEF PfxChecks
  <2>2. PfxChecks \in [1 .. 11 -> {PfxChecks[i] : i \in 1 .. 11}]
    BY <2>1
  <2> QED
    BY <2>2, SeqDef
<1>2. /\ PfxChecks[1].defect = "bundle-missing"
      /\ PfxChecks[2].defect = "wrong-bundle-password"
      /\ PfxChecks[3].defect = "bundle-broken"
      /\ PfxChecks[4].defect = "no-openssl"
      /\ PfxChecks[5].defect = "bundle-unknown-to-openssl"
      /\ PfxChecks[6].defect = "no-certificate-in-bundle"
      /\ PfxChecks[7].defect = "no-key-in-bundle"
      /\ PfxChecks[8].defect = "no-client-certificate"
      /\ PfxChecks[9].defect = "not-for-client-use"
      /\ PfxChecks[10].defect = "no-issuer-in-bundle"
      /\ PfxChecks[11].defect = "issuer-does-not-vouch"
  BY DEF PfxChecks, Fails
<1>3. DOMAIN PfxChecks = 1 .. 11
  BY DEF PfxChecks
<1> QED
  BY <1>1, <1>2, <1>3 DEF LooksFor, Bundle

FactIntDefects ==
    Settings \cup {"odd-username"} \cup Bundle \cup Certificate \cup {"odd-device-metadata"}

LEMMA FactIntLooks == LooksFor(FactIntGates, FactIntDefects)
<1>1. LooksFor(LiveChecks \o UsernameCheck, Settings \cup {"odd-username"})
  BY LiveLooks, UsernameLooks, LooksConcat
<1>2. LooksFor(LiveChecks \o UsernameCheck \o PfxChecks,
               Settings \cup {"odd-username"} \cup Bundle)
  BY <1>1, PfxLooks, LooksConcat
<1>3. LooksFor(LiveChecks \o UsernameCheck \o PfxChecks \o CipherCheck,
               Settings \cup {"odd-username"} \cup Bundle \cup Certificate)
  BY <1>2, CipherLooks, LooksConcat
<1> QED
  BY <1>3, ChannelLooks, LooksConcat DEF FactIntGates, FactIntDefects

\* The gates of the scripts that use the network, whatever their order.
LEMMA ScriptsLook ==
  /\ \A p \in FactIntPrograms : LooksFor(Scripts[p].gates, FactIntDefects)
  /\ \A p \in {"currentConfig", "invoices"} : LooksFor(Scripts[p].gates, {"odd-argument"})
<1>1. ASSUME NEW t, LooksFor(t, {"matrix"}) \/ LooksFor(t, {})
      PROVE  LooksFor(FactIntGates \o t, FactIntDefects)
  <2>1. LooksFor(t, {}) => LooksFor(FactIntGates \o t, FactIntDefects \cup {})
    BY FactIntLooks, LooksConcat
  <2> QED
    BY <1>1, <2>1, LooksForFewer
<1>2. \A c : LooksFor(<< Fails("matrix", c) >>, {"matrix"})
  BY LooksOne, DefectOf
<1>3. \A c : LooksFor(FactIntGates \o << Fails("matrix", c) >>, FactIntDefects)
  BY <1>1, <1>2
<1>4. LooksFor(FactIntGates \o NotReady, FactIntDefects)
  BY <1>3 DEF NotReady
<1>5. LooksFor(Population.gates, FactIntDefects)
  BY <1>4, LooksThrowing DEF Population, Works
<1>6. LooksFor(LiveOnce.gates, FactIntDefects)
  BY <1>3 DEF LiveOnce, Works
<1>7. /\ LooksFor(Framing.gates, FactIntDefects)
      /\ LooksFor(Bootstrap.gates, FactIntDefects)
  BY <1>4 DEF Framing, Bootstrap, Works
<1>8. LooksFor(Invoices.gates, FactIntDefects \cup {"odd-argument"})
  <2> DEFINE first == << Fails("odd-argument", "INVALID_OPERATION") >>
  <2>1. LooksFor(first, {"odd-argument"})
    BY LooksOne, DefectOf
  <2>2. LooksFor(first \o FactIntGates, {"odd-argument"} \cup FactIntDefects)
    BY <2>1, FactIntLooks, LooksConcat
  <2>3. LooksFor(NotReady, {"matrix"})
    BY <1>2 DEF NotReady
  <2>4. LooksFor(first \o FactIntGates \o NotReady,
                 {"odd-argument"} \cup FactIntDefects \cup {"matrix"})
    BY <2>2, <2>3, LooksConcat
  <2> QED
    BY <2>4, LooksForFewer DEF Invoices, Works
<1>9. LooksFor(CurrentConfig.gates, FactIntDefects \cup {"odd-argument"})
  <2> DEFINE g1 == LiveChecks \o UsernameCheck
             g2 == g1 \o << Throws("odd-argument", "TypeError") >>
             g3 == g2 \o PfxChecks
             g4 == g3 \o CipherCheck
             g5 == g4 \o ChannelCheck
             g6 == g5 \o NotReady
             d2 == Settings \cup {"odd-username"} \cup {"odd-argument"}
  <2>1. LooksFor(g1, Settings \cup {"odd-username"})
    BY LiveLooks, UsernameLooks, LooksConcat
  <2>2. LooksFor(<< Throws("odd-argument", "TypeError") >>, {"odd-argument"})
    BY LooksOne, DefectOf
  <2>3. LooksFor(g2, d2)
    BY <2>1, <2>2, LooksConcat
  <2>4. LooksFor(g3, d2 \cup Bundle)
    BY <2>3, PfxLooks, LooksConcat
  <2>5. LooksFor(g4, d2 \cup Bundle \cup Certificate)
    BY <2>4, CipherLooks, LooksConcat
  <2>6. LooksFor(g5, d2 \cup Bundle \cup Certificate \cup {"odd-device-metadata"})
    BY <2>5, ChannelLooks, LooksConcat
  <2>7. LooksFor(NotReady, {"matrix"})
    BY <1>2 DEF NotReady
  <2>8. LooksFor(g6, d2 \cup Bundle \cup Certificate \cup {"odd-device-metadata"}
                        \cup {"matrix"})
    BY <2>6, <2>7, LooksConcat
  <2>9. CurrentConfig.gates = g6
    BY DEF CurrentConfig, Works
  <2> QED
    BY <2>8, <2>9, LooksForFewer DEF FactIntDefects
<1>10. LooksFor(Recovery.gates, FactIntDefects)
  <2> DEFINE first == << Fails("no-opt-in", "LIVE_CONFIGURATION_MISSING"),
                         Fails("no-bundle-settings", "LIVE_CONFIGURATION_MISSING"),
                         Fails("no-credentials", "LIVE_CONFIGURATION_MISSING") >>
             g2 == first \o UsernameCheck
             g3 == g2 \o PfxChecks
             g4 == g3 \o CipherCheck
             g5 == g4 \o ChannelCheck
  <2>1. LooksFor(first, {Fails("no-opt-in", "LIVE_CONFIGURATION_MISSING").defect,
                         Fails("no-bundle-settings", "LIVE_CONFIGURATION_MISSING").defect,
                         Fails("no-credentials", "LIVE_CONFIGURATION_MISSING").defect})
    BY LooksThree
  <2>2. LooksFor(first, Settings)
    BY <2>1, DefectOf DEF Settings
  <2>3. LooksFor(g2, Settings \cup {"odd-username"})
    BY <2>2, UsernameLooks, LooksConcat
  <2>4. LooksFor(g3, Settings \cup {"odd-username"} \cup Bundle)
    BY <2>3, PfxLooks, LooksConcat
  <2>5. LooksFor(g4, Settings \cup {"odd-username"} \cup Bundle \cup Certificate)
    BY <2>4, CipherLooks, LooksConcat
  <2>6. LooksFor(g5, FactIntDefects)
    BY <2>5, ChannelLooks, LooksConcat DEF FactIntDefects
  <2>7. Recovery.gates = g5
    BY DEF Recovery, Works
  <2> QED
    BY <2>6, <2>7
<1> QED
  BY <1>5, <1>6, <1>7, <1>8, <1>9, <1>10, LooksForFewer DEF Scripts, FactIntPrograms

ConfigDefects(credentials) ==
    {"odd-environment", "production", "no-bundle-settings", "bundle-missing"}
    \cup (IF credentials THEN {"no-credentials", "certificate-missing"} ELSE {})

LEMMA ConfigLooks ==
  ASSUME NEW credentials \in BOOLEAN
  PROVE  LooksFor(ConfigChecks(credentials), ConfigDefects(credentials))
<1> DEFINE code == IF credentials THEN "AUTH_CONFIGURATION_MISSING" ELSE "AtConfigurationError"
           first == << Throws("odd-environment", "AtConfigurationError"),
                       Throws("production", "PRODUCTION_BLOCKED"),
                       Throws("no-bundle-settings", code) >>
           asks == << Throws("no-credentials", "AUTH_CONFIGURATION_MISSING") >>
           bundle == << Throws("bundle-missing", "AtConfigurationError") >>
           reads == << Throws("certificate-missing", "AtConfigurationError") >>
<1>1. LooksFor(first, {"odd-environment", "production", "no-bundle-settings"})
  <2>1. LooksFor(first, {Throws("odd-environment", "AtConfigurationError").defect,
                         Throws("production", "PRODUCTION_BLOCKED").defect,
                         Throws("no-bundle-settings", code).defect})
    BY LooksThree
  <2> QED
    BY <2>1, DefectOf
<1>2. LooksFor(asks, {"no-credentials"})
  BY LooksOne, DefectOf
<1>3. LooksFor(bundle, {"bundle-missing"})
  BY LooksOne, DefectOf
<1>4. LooksFor(reads, {"certificate-missing"})
  BY LooksOne, DefectOf
<1>5. LooksFor(<< >>, {})
  <2>1. << >> \in Seq({})
    OBVIOUS
  <2> QED
    BY <2>1 DEF LooksFor, IsSequence
<1> DEFINE a == IF credentials THEN asks ELSE << >>
           r == IF credentials THEN reads ELSE << >>
           da == IF credentials THEN {"no-credentials"} ELSE {}
           dr == IF credentials THEN {"certificate-missing"} ELSE {}
           df == {"odd-environment", "production", "no-bundle-settings"}
           db == {"bundle-missing"}
<1>6. LooksFor(a, da) /\ LooksFor(r, dr)
  BY <1>2, <1>4, <1>5
<1>7. ConfigChecks(credentials) = first \o a \o bundle \o r
  BY DEF ConfigChecks
<1>8. ConfigDefects(credentials) \subseteq df \cup da \cup db \cup dr
  BY DEF ConfigDefects
<1> HIDE DEF first, a, bundle, r, da, dr, df, db
<1>9. LooksFor(first \o a, df \cup da)
  BY <1>1, <1>6, LooksConcat DEF df
<1>10. LooksFor(first \o a \o bundle, df \cup da \cup db)
  BY <1>3, <1>9, LooksConcat DEF db
<1>11. LooksFor(first \o a \o bundle \o r, df \cup da \cup db \cup dr)
  BY <1>6, <1>10, LooksConcat
<1> QED
  BY <1>7, <1>8, <1>11, LooksForFewer

OlderDefects ==
    ConfigDefects(TRUE) \cup {"no-dates"} \cup {"no-opt-in"} \cup {"historical"}
    \cup {"no-dates", "dates-out-of-range"} \cup {"odd-username"} \cup Certificate

\* The gates of the two older clients.
LEMMA OlderLook ==
  /\ LooksFor(Scripts["historical"].gates, OlderDefects)
  /\ LooksFor(Scripts["probe"].gates, ConfigDefects(FALSE) \cup {"odd-argument"})
<1>1. LooksFor(DateChecks, {"no-dates", "dates-out-of-range"})
  BY LooksTwo, DefectOf DEF DateChecks
<1>2. LooksFor(<< Throws("no-dates", "Error") >>, {"no-dates"})
  BY LooksOne, DefectOf
<1>3. LooksFor(<< Throws("no-opt-in", "LIVE_TEST_DISABLED") >>, {"no-opt-in"})
  BY LooksOne, DefectOf
<1>4. LooksFor(<< Throws("historical", "SOAP_CONTRACT_UNRESOLVED") >>, {"historical"})
  BY LooksOne, DefectOf
<1>5. LooksFor(<< Throws("odd-argument", "Error") >>, {"odd-argument"})
  BY LooksOne, DefectOf
<1>6. LooksFor(EnvelopeChecks,
               {"historical"} \cup {"no-dates", "dates-out-of-range"} \cup {"odd-username"}
               \cup Certificate)
  <2> DEFINE e1 == << Throws("historical", "SOAP_CONTRACT_UNRESOLVED") >>
  <2>1. LooksFor(e1 \o DateChecks, {"historical"} \cup {"no-dates", "dates-out-of-range"})
    BY <1>1, <1>4, LooksConcat
  <2>2. LooksFor(e1 \o DateChecks \o UsernameCheck,
                 {"historical"} \cup {"no-dates", "dates-out-of-range"} \cup {"odd-username"})
    BY <2>1, UsernameLooks, LooksConcat
  <2> QED
    BY <2>2, CipherLooks, LooksConcat DEF EnvelopeChecks
<1>7. LooksFor(Historical.gates, OlderDefects)
  <2> DEFINE g1 == ConfigChecks(TRUE) \o << Throws("no-dates", "Error") >>
             g2 == g1 \o << Throws("no-opt-in", "LIVE_TEST_DISABLED") >>
             d2 == ConfigDefects(TRUE) \cup {"no-dates"} \cup {"no-opt-in"}
             de == {"historical"} \cup {"no-dates", "dates-out-of-range"}
                   \cup {"odd-username"} \cup Certificate
  <2>1. LooksFor(g1, ConfigDefects(TRUE) \cup {"no-dates"})
    BY <1>2, ConfigLooks, LooksConcat
  <2>2. LooksFor(g2, d2)
    BY <1>3, <2>1, LooksConcat
  <2>3. LooksFor(g2 \o EnvelopeChecks, d2 \cup de)
    BY <1>6, <2>2, LooksConcat
  <2>4. Historical.gates = g2 \o EnvelopeChecks
    BY DEF Historical, Works
  <2>5. OlderDefects \subseteq d2 \cup de
    BY DEF OlderDefects
  <2> QED
    BY <2>3, <2>4, <2>5, LooksForFewer
<1>8. LooksFor(Probe.gates, ConfigDefects(FALSE) \cup {"odd-argument"})
  BY <1>5, ConfigLooks, LooksConcat DEF Probe, Works
<1> QED
  BY <1>7, <1>8 DEF Scripts

\* The check of an argument that waits until the request is built.
LEMMA SerializerLooks ==
  ASSUME NEW op
  PROVE  /\ LooksFor(SerializerCheck(op), {"odd-year"})
         /\ op = "FaturasPorSetor" => LooksFor(SerializerCheck(op), {"odd-sector"})
<1> DEFINE year == << Throws("odd-year", "TypeError") >>
           sector == << Throws("odd-sector", "TypeError") >>
<1>1. LooksFor(year, {"odd-year"}) /\ LooksFor(sector, {"odd-sector"})
  BY LooksOne, DefectOf
<1>2. CASE op = "FaturasPorSetor"
  <2>1. LooksFor(year \o sector, {"odd-year"} \cup {"odd-sector"})
    BY <1>1, LooksConcat
  <2>2. SerializerCheck(op) = year \o sector
    BY <1>2 DEF SerializerCheck
  <2> QED
    BY <2>1, <2>2, LooksForFewer
<1>3. CASE op # "FaturasPorSetor"
  <2>1. SerializerCheck(op) = year
    BY <1>3 DEF SerializerCheck
  <2> QED
    BY <1>1, <1>3, <2>1
<1> QED
  BY <1>2, <1>3
-----------------------------------------------------------------------------
(***************************************************************************)
(* A run past its gates has met them, and a query that was sent has had    *)
(* its argument checked.                                                   *)
(***************************************************************************)
Met ==
    /\ pc \in {"time", "wire"} \/ asked > 0 \/ sent # << >> =>
           prog \notin DryPrograms /\ Clear(Script.gates, Lacking)
    /\ prog = "invoices" /\ sent # << >> => Clear(Serializer, env)

LEMMA MetInitially == Init => Met
BY DEF Init, Met, Time!Init

LEMMA MetStays == IInv /\ Met /\ [Next]_vars => Met'
<1> SUFFICES ASSUME IInv, Met, [Next]_vars
             PROVE  Met'
  OBVIOUS
<1> DEFINE past == pc \in {"time", "wire"} \/ asked > 0 \/ sent # << >>
<1>1. ASSUME UNCHANGED choice, UNCHANGED sent, past' => past
      PROVE  Met'
  BY <1>1 DEF Met, choice, Script, Lacking, Serializer
<1>2. CASE Blocked \/ FinishDryRun \/ OpenThrows \/ SendThrows
  BY <1>1, <1>2 DEF Blocked, FinishDryRun, OpenThrows, SendThrows, query, EndCaught, EndWith
<1>3. CASE AskTime
  <2>1. prog \notin DryPrograms /\ Clear(Script.gates, Lacking)
    BY <1>3 DEF AskTime, Ready, FactIntPrograms, DryPrograms
  <2> QED
    BY <1>3, <2>1 DEF AskTime, Met, choice, Script, Lacking, Serializer
<1>4. CASE SendAtOnce
  <2>1. prog \notin DryPrograms /\ prog # "invoices" /\ Clear(Script.gates, Lacking)
    BY <1>4 DEF SendAtOnce, Ready, MtlsPrograms, DryPrograms
  <2> QED
    BY <1>4, <2>1 DEF SendAtOnce, Met, choice, Script, Lacking
<1>5. CASE TimeArrives
  <2>1. past /\ Clear(Serializer, env)
    BY <1>5 DEF TimeArrives
  <2> QED
    BY <1>5, <2>1 DEF TimeArrives, Met, choice, Script, Lacking, Serializer
<1>6. CASE BuildThrows \/ TimeRefused \/ Dies
  <2>1. past /\ UNCHANGED choice /\ UNCHANGED sent
    BY <1>6 DEF BuildThrows, TimeRefused, Dies
  <2> QED
    BY <1>1, <2>1
<1>7. CASE Tick
  BY <1>1, <1>7 DEF Tick, course, Time!Tick, Time!query, query
<1>8. CASE Receive
  <2>1. past /\ UNCHANGED choice /\ UNCHANGED sent
    BY <1>8 DEF Receive, Continues, IInv, Types
  <2> QED
    BY <1>1, <2>1
<1>9. CASE \/ Secured \/ HeadersArrive \/ FallsSilent \/ DataArrives
           \/ TimesOut \/ ConnectionFails \/ Cut
  <2>1. past /\ UNCHANGED choice /\ UNCHANGED sent
    BY <1>9
       DEF Secured, HeadersArrive, FallsSilent, DataArrives, Reach, TimesOut, Expires,
           ConnectionFails, Fail, Cut, IInv, Types
  <2> QED
    BY <1>1, <2>1
<1>10. CASE UNCHANGED vars
  BY <1>1, <1>10 DEF vars, course, query
<1> QED
  BY <1>2, <1>3, <1>4, <1>5, <1>6, <1>7, <1>8, <1>9, <1>10 DEF Next

LEMMA MetSuffices ==
  ASSUME Types, Met
  PROVE  GatesBeforeNetwork
<1>1. ASSUME asked > 0 \/ sent # << >>
      PROVE  /\ prog \notin DryPrograms
             /\ prog # "probe" => env \cap SettingsDefects = {}
             /\ prog \in FactIntPrograms => env \cap BundleForbidden = {}
             /\ prog \in {"currentConfig", "invoices"} => "odd-argument" \notin env
             /\ prog = "historical" => env \cap HistoricalForbidden = {}
             /\ prog = "probe" => env \cap ProbeForbidden = {}
  <2>1. prog \notin DryPrograms /\ Clear(Script.gates, Lacking)
    BY <1>1 DEF Met
  <2>2. prog \in FactIntPrograms \/ prog = "historical" \/ prog = "probe"
    BY <2>1, HarnessAssumption DEF Types, AllPrograms, MtlsPrograms
  <2>3. ASSUME NEW defects, LooksFor(Script.gates, defects)
        PROVE  env \cap defects = {}
    BY <2>1, <2>3, ClearOf DEF Lacking
  <2>4. ASSUME prog \in FactIntPrograms
        PROVE  env \cap SettingsDefects = {} /\ env \cap BundleForbidden = {}
    <3>1. env \cap FactIntDefects = {}
      BY <2>3, <2>4, ScriptsLook DEF Script
    <3>2. SettingsDefects \subseteq FactIntDefects
      BY DEF FactIntDefects, SettingsDefects, Settings, Bundle, Certificate
    <3>3. BundleForbidden \subseteq FactIntDefects
      BY DEF FactIntDefects, BundleForbidden, BundleDefects, Bundle
    <3> QED
      BY <3>1, <3>2, <3>3
  <2>5. ASSUME prog \in {"currentConfig", "invoices"}
        PROVE  "odd-argument" \notin env
    <3>1. env \cap {"odd-argument"} = {}
      BY <2>3, <2>5, ScriptsLook DEF Script
    <3> QED
      BY <3>1
  <2>6. ASSUME prog = "historical"
        PROVE  env \cap SettingsDefects = {} /\ env \cap HistoricalForbidden = {}
    <3>1. env \cap OlderDefects = {}
      BY <2>3, <2>6, OlderLook DEF Script
    <3>2. SettingsDefects \subseteq OlderDefects
      BY DEF OlderDefects, ConfigDefects, SettingsDefects, Certificate
    <3>3. HistoricalForbidden \subseteq OlderDefects
      BY DEF OlderDefects, ConfigDefects, HistoricalForbidden
    <3> QED
      BY <3>1, <3>2, <3>3
  <2>7. ASSUME prog = "probe"
        PROVE  env \cap ProbeForbidden = {}
    <3>1. env \cap (ConfigDefects(FALSE) \cup {"odd-argument"}) = {}
      BY <2>3, <2>7, OlderLook DEF Script
    <3>2. ProbeForbidden \subseteq ConfigDefects(FALSE) \cup {"odd-argument"}
      BY DEF ProbeForbidden, ConfigDefects
    <3> QED
      BY <3>1, <3>2
  <2> QED
    BY <2>1, <2>2, <2>4, <2>5, <2>6, <2>7
<1>2. ASSUME prog = "invoices", sent # << >>
      PROVE  "odd-year" \notin env /\ (wanted = "FaturasPorSetor" => "odd-sector" \notin env)
  <2>1. Serializer = SerializerCheck(wanted) /\ Clear(Serializer, env)
    BY <1>2 DEF Met, Serializer
  <2>2. env \cap {"odd-year"} = {}
    BY <2>1, SerializerLooks, ClearOf
  <2>3. wanted = "FaturasPorSetor" => env \cap {"odd-sector"} = {}
    BY <2>1, SerializerLooks, ClearOf
  <2> QED
    BY <2>2, <2>3
<1> QED
  BY <1>1, <1>2 DEF GatesBeforeNetwork

(***************************************************************************)
(* On any machine, no script uses the network, be it only for the time,    *)
(* unless the machine has all that its kind of request needs.              *)
(***************************************************************************)
THEOREM GatesHold == Spec => []GatesBeforeNetwork
<1>1. IInv /\ Met => GatesBeforeNetwork
  BY MetSuffices DEF IInv
<1>2. Spec => []Met
  BY MetInitially, MetStays, Safety, PTL DEF Spec
<1> QED
  BY <1>1, <1>2, Safety, PTL
-----------------------------------------------------------------------------
(* Reports.                                                                *)

\* The gate of the feasibility check returns; it has no other.
LEMMA FeasibilityReturns ==
  ASSUME prog = "feasibility", ~Clear(Script.gates, Lacking)
  PROVE  FirstFailure(Script.gates, Lacking).thrown = FALSE
<1>1. Script.gates = << Fails("readiness", Readiness) >>
  BY DEF Script, Scripts, Feasibility, Works
<1> DEFINE failing == {i \in DOMAIN Script.gates : Script.gates[i].defect \in Lacking}
<1>2. DOMAIN Script.gates = {1}
  BY <1>1
<1>3. failing = {1}
  BY <1>2 DEF Clear
<1>4. Min(failing) = 1
  BY <1>3 DEF Min
<1> QED
  BY <1>1, <1>4 DEF FirstFailure, Fails

\* The consultation of the older service never gets past its gates.
LEMMA ConsultationBlocked ==
  ASSUME prog = "authenticated"
  PROVE  ~Clear(Script.gates, Lacking)
<1>1. "consultation" \in Lacking
  <2>1. "rsaPadding" \in UnresolvedFields
    BY DEF UnresolvedFields
  <2>2. ConsultationEvidence = "RSA_PADDING_UNCONFIRMED"
    BY <2>1 DEF ConsultationEvidence
  <2> QED
    BY <2>2 DEF Lacking, Unproved
<1> DEFINE first == << Throws("not-a-dry-run", "Error") >>
           last == << Throws("consultation", ConsultationEvidence) >>
<1>2. LooksFor(first, {"not-a-dry-run"}) /\ LooksFor(last, {"consultation"})
  BY LooksOne, DefectOf
<1>3. LooksFor(first \o ConfigChecks(TRUE), {"not-a-dry-run"} \cup ConfigDefects(TRUE))
  BY <1>2, ConfigLooks, LooksConcat
<1>4. LooksFor(first \o ConfigChecks(TRUE) \o last,
               {"not-a-dry-run"} \cup ConfigDefects(TRUE) \cup {"consultation"})
  BY <1>2, <1>3, LooksConcat
<1>5. Script.gates = first \o ConfigChecks(TRUE) \o last
  BY DEF Script, Scripts, Authenticated, Works
<1>6. LooksFor(Script.gates, {"consultation"})
  BY <1>4, <1>5, LooksForFewer
<1> QED
  BY <1>1, <1>6, ClearOf

(***************************************************************************)
(* A report that does not come from an answer confirms nothing; another is *)
(* about a sequence that is over.                                          *)
(***************************************************************************)
Reported ==
    report # << >> =>
        \/ /\ report[1].confirmed = FALSE
           /\ prog \notin DryPrograms => Len(answers) < Len(Plan)
        \/ /\ prog \notin DryPrograms
           /\ answers # << >> /\ Len(sent) = Len(answers)
           /\ ~Goes(prog, Plan, answers)
           /\ report[1].confirmed = Outcome(prog, Plan, answers).confirmed

\* The end of a run that does not come from an answer.
LEMMA NothingConfirmed ==
  ASSUME IInv, pc # "ended", NEW outcome, NEW held, EndWith(outcome, held),
         outcome.confirmed = FALSE, UNCHANGED choice, UNCHANGED answers
  PROVE  Reported'
<1>1. report'[1].confirmed = FALSE
  BY DEF EndWith
<1>2. ASSUME prog \notin DryPrograms
      PROVE  Len(answers) < Len(Plan)
  <2>1. Len(Plan) \in Nat /\ Len(Plan) > 0
    BY <1>2, PlanOfScript DEF IInv
  <2> QED
    BY <2>1 DEF IInv, Types, Progress
<1> QED
  BY <1>1, <1>2 DEF Reported, choice, Plan

LEMMA ErrorReported ==
  ASSUME IInv, pc # "ended", prog # "feasibility", NEW error, NEW held,
         EndCaught(error, held), UNCHANGED choice, UNCHANGED answers
  PROVE  Reported'
<1>1. prog \in AllPrograms \ {"feasibility"}
  BY HarnessAssumption DEF IInv, Types
<1>2. Caught(prog, error).confirmed = FALSE
  BY <1>1, ErrorsConfirmNothing
<1> QED
  BY <1>2, NothingConfirmed DEF EndCaught

LEMMA ReportedStays == IInv /\ Reported /\ [Next]_vars => Reported'
<1> SUFFICES ASSUME IInv, Reported, [Next]_vars
             PROVE  Reported'
  OBVIOUS
<1>1. ASSUME report' = << >>
      PROVE  Reported'
  BY <1>1 DEF Reported
<1>2. CASE Blocked
  <2>1. pc # "ended" /\ UNCHANGED choice /\ UNCHANGED answers /\ ~Clear(Script.gates, Lacking)
    BY <1>2 DEF Blocked
  <2> DEFINE failure == FirstFailure(Script.gates, Lacking)
  <2>2. CASE failure.thrown
    <3>1. prog # "feasibility"
      BY <2>1, <2>2, FeasibilityReturns
    <3>2. EndCaught(failure.code, {})
      BY <1>2, <2>2 DEF Blocked
    <3> QED
      BY <2>1, <3>1, <3>2, ErrorReported
  <2>3. CASE ~failure.thrown
    <3>1. EndWith(Says(failure.code, 2, FALSE), {})
      BY <1>2, <2>3 DEF Blocked
    <3>2. Says(failure.code, 2, FALSE).confirmed = FALSE
      BY DEF Says
    <3> QED
      BY <2>1, <3>1, <3>2, NothingConfirmed
  <2> QED
    BY <2>2, <2>3
<1>3. CASE FinishDryRun
  <2>1. /\ pc # "ended" /\ UNCHANGED choice /\ UNCHANGED answers
        /\ prog \in DryPrograms /\ Clear(Script.gates, Lacking)
        /\ EndWith(DryRunReport(prog), {})
    BY <1>3 DEF FinishDryRun, Ready
  <2>2. prog \in {"historicalDry", "inspect", "feasibility"}
    BY <2>1, ConsultationBlocked DEF DryPrograms
  <2>3. DryRunReport(prog).confirmed = FALSE
    BY <2>2 DEF DryRunReport, Says
  <2> QED
    BY <2>1, <2>3, NothingConfirmed
<1>4. CASE OpenThrows \/ SendThrows
  <2>1. /\ pc # "ended" /\ UNCHANGED choice /\ UNCHANGED answers /\ prog # "feasibility"
        /\ \E error, held : EndCaught(error, held)
    BY <1>4 DEF OpenThrows, SendThrows, Ready, FactIntPrograms, MtlsPrograms
  <2> QED
    BY <2>1, ErrorReported
<1>5. CASE BuildThrows \/ TimeRefused
  <2>1. /\ pc = "time" /\ UNCHANGED choice /\ UNCHANGED answers
        /\ \E error, held : EndCaught(error, held)
    BY <1>5 DEF BuildThrows, TimeRefused
  <2>2. prog # "feasibility"
    BY <2>1 DEF IInv, Progress, DryPrograms
  <2> QED
    BY <2>1, <2>2, ErrorReported
<1>6. CASE TimesOut \/ ConnectionFails
  <2>1. /\ pc = "wire" /\ UNCHANGED choice /\ UNCHANGED answers
        /\ \E error, held : EndCaught(error, held)
    BY <1>6 DEF TimesOut, Expires, ConnectionFails, Fail
  <2>2. prog # "feasibility"
    BY <2>1 DEF IInv, Progress, DryPrograms
  <2> QED
    BY <2>1, <2>2, ErrorReported
<1>7. CASE Receive
  <2>1. pc = "wire" /\ report = << >> /\ prog \notin DryPrograms
        /\ Len(sent) = Len(answers) + 1
    BY <1>7 DEF Receive, IInv, Types, Progress
  <2>2. PICK answer \in Answers[prog] :
          /\ answers' = Append(answers, answer)
          /\ \/ ~Goes(prog, Plan, answers') /\ Completes(answer) /\ sent' = sent
             \/ Continues
    BY <1>7 DEF Receive
  <2>3. UNCHANGED choice
    BY <1>7 DEF Receive
  <2>4. Len(answers') = Len(answers) + 1 /\ answers' # << >>
    BY SMTT(20), <2>2 DEF IInv, Types
  <2>5. CASE ~Goes(prog, Plan, answers') /\ Completes(answer) /\ sent' = sent
    <3>1. report'[1].confirmed = Outcome(prog, Plan, answers').confirmed
      BY <2>2, <2>5 DEF Completes, EndWith
    <3> QED
      BY <2>1, <2>3, <2>4, <2>5, <3>1 DEF Reported, choice, Plan
  <2>6. CASE Continues
    BY <1>1, <2>1, <2>6 DEF Continues, result
  <2> QED
    BY <2>2, <2>5, <2>6
<1>8. CASE \/ AskTime \/ SendAtOnce \/ TimeArrives \/ Dies \/ Cut
           \/ Secured \/ HeadersArrive \/ FallsSilent \/ DataArrives
  <2>1. pc # "ended" /\ report' = report
    BY <1>8
       DEF AskTime, Ready, SendAtOnce, TimeArrives, Dies, Cut, Secured, HeadersArrive,
           FallsSilent, DataArrives, Reach, result, IInv, Types
  <2> QED
    BY <1>1, <2>1 DEF IInv, Progress
<1>9. CASE Tick \/ UNCHANGED vars
  BY <1>9 DEF Tick, vars, choice, course, result, Reported, Plan
<1> QED
  BY <1>2, <1>3, <1>4, <1>5, <1>6, <1>7, <1>8, <1>9 DEF Next

LEMMA ReportedSuffices ==
  ASSUME IInv, Reported
  PROVE  ConfirmedExactly
<1> SUFFICES ASSUME report # << >>
             PROVE  ConfirmedExactly
  BY DEF ConfirmedExactly
<1> DEFINE confirmed == report[1].confirmed
           n == Len(answers)
<1>1. Len(answers) \in Nat /\ Len(Plan) \in Nat
  BY PlanOfScript DEF IInv, Types
<1>2. prog \in AllPrograms
  BY HarnessAssumption DEF IInv, Types
<1>3. CASE confirmed = FALSE /\ (prog \notin DryPrograms => n < Len(Plan))
  <2>1. prog \in {"currentConfig", "recovery", "historical"} => n # Len(Plan)
    BY <1>1, <1>3 DEF DryPrograms
  <2> QED
    BY <1>3, <2>1 DEF ConfirmedExactly
<1>4. CASE /\ prog \notin DryPrograms
           /\ answers # << >> /\ Len(sent) = n
           /\ ~Goes(prog, Plan, answers)
           /\ confirmed = Outcome(prog, Plan, answers).confirmed
  <2> DEFINE last == answers[n]
  <2>1. answers \in Seq(Responses)
    BY HarnessAssumption DEF IInv, Types
  <2>2. n \in 1 .. n /\ n <= Len(Plan) /\ DOMAIN answers = 1 .. n
    BY <1>1, <1>4 DEF IInv, Types, Progress
  <2>3. last \in Responses
    BY <2>1, <2>2
  <2>4. CASE prog = "currentConfig"
    <3>1. Plan = << wanted >>
      BY <2>4 DEF Plan, PlanOf, MtlsPrograms, DryPrograms
    <3>2. n = 1 /\ Len(Plan) = 1
      BY <2>2, <3>1
    <3>3. confirmed = CurrentConfigOutcome(last, Plan[1]).confirmed
      BY <1>4, <2>4 DEF Outcome
    <3>4. confirmed <=> FunctionalAnswer(last, Plan[1])
      BY <2>3, <3>3, CurrentConfigConfirms
    <3> QED
      BY <2>4, <3>2, <3>4 DEF ConfirmedExactly, FactIntPrograms
  <2>5. CASE prog = "recovery"
    <3>1. confirmed = RecoveryOutcome(Plan, answers).confirmed
      BY <1>4, <2>5 DEF Outcome
    <3>2. ~(n < Len(Plan) /\ RecoveryGoes(last))
      BY <1>4, <2>5 DEF Goes
    <3>3. confirmed <=> n = Len(Plan) /\ FunctionalAnswer(last, Plan[n])
      BY <1>1, <1>4, <2>1, <2>2, <3>1, <3>2, RecoveryConfirms
    <3> QED
      BY <2>5, <3>3 DEF ConfirmedExactly, FactIntPrograms
  <2>6. CASE prog = "bootstrap"
    <3> SUFFICES ASSUME confirmed
                 PROVE  /\ n = Len(Plan)
                        /\ \A i \in DOMAIN answers : FunctionalAnswer(answers[i], Plan[i])
      BY <2>6 DEF ConfirmedExactly, FactIntPrograms
    <3>1. BootstrapOutcome(Plan, answers).confirmed
      BY <1>4, <2>6 DEF Outcome
    <3>2. n = Len(Plan) /\ FunctionalAnswer(last, Plan[n])
      BY <1>1, <1>4, <2>1, <2>2, <3>1, BootstrapConfirms
    <3>3. ASSUME NEW i \in DOMAIN answers, i # n
          PROVE  FunctionalAnswer(answers[i], Plan[i])
      <4>1. MayFollow(prog, answers[i], Plan[i])
        BY <1>1, <1>4, <2>2, <3>3 DEF IInv, Followed
      <4> QED
        BY <2>6, <4>1 DEF MayFollow
    <3> QED
      BY <3>2, <3>3
  <2>7. CASE prog = "population"
    <3> SUFFICES ASSUME confirmed
                 PROVE  \/ /\ n = Len(Plan)
                           /\ \A i \in DOMAIN answers :
                                  /\ FunctionalAnswer(answers[i], Plan[i])
                                  /\ answers[i].text.doc.invoices = "none"
                        \/ \E i \in DOMAIN answers :
                               /\ Document(answers[i], Plan[i])
                               /\ answers[i].text.doc.invoices = "some"
      BY <2>7 DEF ConfirmedExactly, FactIntPrograms
    <3>1. PopulationOutcome(Plan, answers).confirmed
      BY <1>4, <2>7 DEF Outcome
    <3>2. ~(n < Len(Plan) /\ PopulationGoes(last, Plan[n]))
      BY <1>4, <2>7 DEF Goes
    <3> QED
      BY <1>1, <1>4, <2>1, <2>2, <3>1, <3>2, PopulationConfirms
  <2>8. CASE prog = "historical"
    <3>1. Plan = << prog >>
      BY <2>8 DEF Plan, PlanOf, MtlsPrograms, DryPrograms
    <3>2. n = 1 /\ Len(Plan) = 1
      BY <2>2, <3>1
    <3>3. confirmed = HistoricalOutcome(last).confirmed
      BY <1>4, <2>8 DEF Outcome
    <3>4. confirmed <=> /\ last.status \in 200 .. 299
                        /\ last.wrap = "none"
                        /\ last.text.doc.status \in {"number", "empty"}
                        /\ ~(IsXml(last.text) /\ last.text.doc.fault)
      BY <2>3, <3>3, HistoricalConfirms
    <3> QED
      BY <2>8, <3>2, <3>4 DEF ConfirmedExactly
  <2>9. CASE prog \in {"liveOnce", "invoices"}
    <3>1. Plan = << wanted >> /\ (prog = "liveOnce" => wanted = "EcraInicial")
      BY <2>9 DEF Plan, PlanOf, MtlsPrograms, DryPrograms, IInv, Types, Arguments
    <3>2. n = 1 /\ Len(Plan) = 1 /\ Plan[1] = wanted
      BY <2>2, <3>1
    <3>3. ASSUME confirmed
          PROVE  Document(last, Plan[1])
      <4>1. CASE prog = "liveOnce"
        <5>1. LiveOnceOutcome(last).confirmed
          BY <1>4, <3>3, <4>1 DEF Outcome
        <5> QED
          BY <2>3, <3>1, <3>2, <4>1, <5>1, LiveOnceConfirms
      <4>2. CASE prog = "invoices"
        <5>1. InvoicesOutcome(last, Plan[1]).confirmed
          BY <1>4, <3>3, <4>2 DEF Outcome
        <5> QED
          BY <2>3, <5>1, InvoicesConfirms
      <4> QED
        BY <2>9, <4>1, <4>2
    <3> QED
      BY <2>9, <3>2, <3>3 DEF ConfirmedExactly, FactIntPrograms
  <2>10. CASE prog \in {"framing", "probe"}
    <3>1. confirmed = FALSE
      BY <1>4, <2>10, OthersConfirmNothing DEF Outcome
    <3> QED
      BY <2>10, <3>1 DEF ConfirmedExactly
  <2> QED
    BY <1>2, <1>4, <2>4, <2>5, <2>6, <2>7, <2>8, <2>9, <2>10
       DEF AllPrograms, FactIntPrograms, MtlsPrograms
<1> QED
  BY <1>3, <1>4 DEF Reported

(***************************************************************************)
(* Whatever the answers are, a report confirms that the service works only *)
(* on what its script takes for that: a complete document that came over   *)
(* the wire, or, to the older client, a status in whatever text.           *)
(***************************************************************************)
THEOREM ConfirmedRightly == Spec => []ConfirmedExactly
<1>1. Init => Reported
  BY DEF Init, Reported
<1>2. Spec => []Reported
  BY <1>1, ReportedStays, Safety, PTL DEF Spec
<1> QED
  BY <1>2, ReportedSuffices, Safety, PTL
-----------------------------------------------------------------------------
(***************************************************************************)
(* All that a script of FactIntWS holds is of a kind that it wipes at the  *)
(* end, or never; the population query holds, besides copies of keys, only *)
(* what its request needs.                                                 *)
(***************************************************************************)
Opened == {<<"bundle", 0>>}
Copies == {"copy"} \X Nat

Wipeable ==
    /\ prog \in FactIntPrograms => live \subseteq (Script.wipes \cup NeverWiped) \X Nat
    /\ prog \in FactIntPrograms /\ report # << >> => live \subseteq NeverWiped \X Nat
    /\ prog = "population" => live \subseteq Opened \cup {<<"key", Len(sent)>>} \cup Copies
    /\ prog = "population" /\ pc \in {"start", "time"} => live \subseteq Opened \cup Copies

LEMMA WipesAll ==
  ASSUME prog \in FactIntPrograms
  PROVE  /\ {"key", "bundle"} \subseteq Script.wipes
         /\ "copy" \in NeverWiped
         /\ "body" \in Script.wipes \cup NeverWiped
         /\ prog = "population" =>
                /\ Script.wipesEach = {"key", "body"}
                /\ Script.wipes = {"key", "bundle", "body"}
                /\ NeverWiped = {"copy"}
BY DEF Script, Scripts, FactIntPrograms, Works, LiveOnce, Framing, CurrentConfig, Bootstrap,
       Recovery, Invoices, Population, NeverWiped, DropsBody

\* Whatever a script held, only what is never wiped is left when it reports.
LEMMA EndWipes ==
  ASSUME NEW outcome, NEW held, EndWith(outcome, held), UNCHANGED choice,
         prog \in FactIntPrograms => held \subseteq (Script.wipes \cup NeverWiped) \X Nat
  PROVE  Wipeable'
<1>1. ASSUME prog \in FactIntPrograms
      PROVE  live' \subseteq NeverWiped \X Nat
  <2>1. live' \subseteq held /\ \A buffer \in live' : buffer[1] \notin Script.wipes
    BY DEF EndWith
  <2> QED
    BY <1>1, <2>1
<1>2. prog' = prog /\ Script' = Script /\ NeverWiped' = NeverWiped /\ pc' = "ended"
  BY DEF EndWith, choice, Script, NeverWiped
<1>3. prog = "population" => live' \subseteq Copies
  <2>1. prog = "population" => NeverWiped = {"copy"}
    BY DEF NeverWiped, DropsBody
  <2> QED
    BY <1>1, <2>1 DEF Copies, FactIntPrograms
<1> QED
  BY <1>1, <1>2, <1>3 DEF Wipeable

LEMMA WipeableStays == IInv /\ Wipeable /\ [Next]_vars => Wipeable'
<1> SUFFICES ASSUME IInv, Wipeable, [Next]_vars
             PROVE  Wipeable'
  OBVIOUS
<1> DEFINE kinds == Script.wipes \cup NeverWiped
<1>1. CASE Blocked \/ FinishDryRun \/ OpenThrows
  <2>1. UNCHANGED choice /\ \E outcome : EndWith(outcome, {})
    BY <1>1 DEF Blocked, FinishDryRun, OpenThrows, EndCaught
  <2> QED
    BY <2>1, EndWipes
<1>2. CASE SendThrows
  <2>1. /\ UNCHANGED choice /\ prog \notin FactIntPrograms
        /\ \E outcome, held : EndWith(outcome, held)
    BY <1>2 DEF SendThrows, EndCaught, FactIntPrograms, MtlsPrograms
  <2> QED
    BY <2>1, EndWipes
<1>3. CASE AskTime
  <2>1. live' \subseteq Opened /\ UNCHANGED choice /\ report' = report
        /\ pc = "start" /\ prog \in FactIntPrograms
    BY <1>3 DEF AskTime, Ready, result, Opened
  <2>2. report = << >>
    BY <2>1 DEF IInv, Progress
  <2>3. live' \subseteq kinds \X Nat
    BY <2>1, WipesAll DEF Opened
  <2> QED
    BY <2>1, <2>2, <2>3 DEF Wipeable, choice, Script, NeverWiped
<1>4. CASE SendAtOnce
  <2>1. UNCHANGED choice /\ prog \notin FactIntPrograms
    BY <1>4 DEF SendAtOnce, FactIntPrograms, MtlsPrograms
  <2> QED
    BY <2>1 DEF Wipeable, choice, FactIntPrograms
<1>5. Len(sent) \in Nat
  BY DEF IInv, Types
<1>6. ASSUME prog \in FactIntPrograms
      PROVE  Keyed \subseteq kinds \X Nat /\ Held \subseteq kinds \X Nat
  BY <1>5, <1>6, WipesAll DEF Keyed, Held, Wipeable
<1>7. CASE TimeArrives
  <2>1. /\ live' = Held /\ UNCHANGED choice /\ report' = report /\ pc = "time" /\ pc' = "wire"
        /\ sent' = Append(sent, Request(Plan[Len(sent) + 1], given'))
    BY <1>7 DEF TimeArrives, Dispatch, result
  <2>2. report = << >> /\ sent \in Seq(Requests)
    BY <2>1 DEF IInv, Types, Progress
  <2>3. Len(sent') = Len(sent) + 1
    BY <2>1, <2>2
  <2>4. prog = "population" =>
            Held \subseteq Opened \cup {<<"key", Len(sent)>>}' \cup Copies
    BY <1>5, <2>1, <2>3 DEF Wipeable, Held, Keyed, Opened, Copies
  <2> QED
    BY <1>6, <2>1, <2>2, <2>4 DEF Wipeable, choice, Script, NeverWiped
<1>8. CASE BuildThrows
  <2>1. UNCHANGED choice /\ \E outcome : EndWith(outcome, Held) \/ EndWith(outcome, Keyed)
    BY <1>8 DEF BuildThrows, EndCaught
  <2> QED
    BY <1>6, <2>1, EndWipes
<1>9. CASE TimeRefused \/ TimesOut \/ ConnectionFails
  <2>1. UNCHANGED choice /\ \E outcome : EndWith(outcome, live)
    BY <1>9 DEF TimeRefused, TimesOut, ConnectionFails, Fail, EndCaught
  <2> QED
    BY <2>1, EndWipes DEF Wipeable
<1>10. prog \in FactIntPrograms => WithBody \subseteq kinds \X Nat
  BY <1>5, WipesAll DEF WithBody, Wipeable
<1>11. CASE Receive
  <2>1. UNCHANGED choice
    BY <1>11 DEF Receive
  <2>2. CASE \E outcome : EndWith(outcome, WithBody)
    BY <1>10, <2>1, <2>2, EndWipes
  <2>3. CASE Continues
    <3>1. live' = Kept /\ sent' = sent /\ report' = report /\ pc = "wire"
      BY <1>11, <2>3 DEF Continues, Receive, result, IInv, Types
    <3>2. report = << >>
      BY <3>1 DEF IInv, Progress
    <3>3. prog \in FactIntPrograms => Kept \subseteq kinds \X Nat
      BY <1>10 DEF Kept
    <3>4. prog = "population" => Kept \subseteq Opened \cup Copies
      <4> SUFFICES ASSUME prog = "population", NEW buffer \in Kept
                   PROVE  buffer \in Opened \cup Copies
        OBVIOUS
      <4>1. buffer[1] \notin {"key", "body"} /\ buffer \in WithBody
        BY WipesAll DEF Kept, FactIntPrograms
      <4>2. buffer \in Opened \cup Copies \cup {<<"key", Len(sent)>>, <<"body", Len(sent)>>}
        BY <4>1 DEF WithBody, Wipeable
      <4> QED
        BY <4>1, <4>2
    <3> QED
      BY <2>1, <3>1, <3>2, <3>3, <3>4 DEF Wipeable, choice, Script, NeverWiped
  <2> QED
    BY <1>11, <2>2, <2>3 DEF Receive, Completes
<1>12. CASE Dies \/ Cut
  <2>1. UNCHANGED choice /\ UNCHANGED <<live, report, sent>> /\ pc' = "ended"
    BY <1>12 DEF Dies, Cut, result
  <2> QED
    BY <2>1 DEF Wipeable, choice, Script, NeverWiped
<1>13. CASE \/ Secured \/ HeadersArrive \/ FallsSilent \/ DataArrives
            \/ Tick \/ UNCHANGED vars
  <2>1. UNCHANGED choice /\ UNCHANGED <<live, report, sent, pc>>
    BY <1>13
       DEF Secured, HeadersArrive, FallsSilent, DataArrives, Reach, Tick, vars, course, result
  <2> QED
    BY <2>1 DEF Wipeable, choice, Script, NeverWiped
<1> QED
  BY <1>1, <1>2, <1>3, <1>4, <1>7, <1>8, <1>9, <1>11, <1>12, <1>13 DEF Next

(***************************************************************************)
(* Whatever path leads to a report, a script of FactIntWS has wiped its    *)
(* own keys, its bundle and the answers it keeps; what it leaves are the   *)
(* helper's copies of the keys, and the answers it drops.                  *)
(***************************************************************************)
THEOREM WipedWhenReported == Spec => []WipedAtEnd
<1>1. Init => Wipeable
  BY DEF Init, Wipeable
<1>2. Wipeable => WipedAtEnd
  BY DEF Wipeable, WipedAtEnd, Opened, Copies
<1> QED
  BY <1>1, <1>2, WipeableStays, Safety, PTL DEF Spec
-----------------------------------------------------------------------------
(***************************************************************************)
(* The types of what IInv leaves open, step by step: the source of time,   *)
(* the stages of a request, what is sent and held, and the exit code.      *)
(***************************************************************************)
TimeTypes ==
    /\ clock \in 1 .. MaxClock
    /\ state \in {"idle", "asked", "answered", "refused", "dead"}
    /\ asked \in 0 .. MaxClock /\ given \in 0 .. MaxClock

RunTypes ==
    /\ stage \in {"none", "handshake", "waiting", "body", "silent"}
    /\ pc = "wire" => stage # "none"
    /\ counted <= Len(Plan) + 1
    /\ \A i \in DOMAIN sent : sent[i] \in [op : {Plan[i]}, created : 0 .. MaxClock]

EndTypes ==
    /\ live \subseteq Buffers
    /\ Len(report) <= 1
    /\ exit \in 0 .. 2

LEMMA TypesSuffice == IInv /\ TimeTypes /\ RunTypes /\ EndTypes => TypeOK
<1> SUFFICES ASSUME IInv, TimeTypes, RunTypes, EndTypes
             PROVE  TypeOK
  OBVIOUS
<1>1. Len(Plan) \in Nat
  BY PlanOfScript DEF IInv
<1>2. counted \in 0 .. Len(Plan) + 1
  BY <1>1 DEF IInv, Types, RunTypes
<1>3. DOMAIN arrived = DOMAIN answers /\ \A i \in DOMAIN answers : answers[i] \in Answers[prog]
  BY DEF IInv, Types
<1> QED
  BY <1>2, <1>3 DEF TypeOK, IInv, Types, TimeTypes, RunTypes, EndTypes

LEMMA TimeTypesStay == TimeTypes /\ [Next]_vars => TimeTypes'
<1> SUFFICES ASSUME TimeTypes, [Next]_vars
             PROVE  TimeTypes'
  OBVIOUS
<1>1. Time!Next \/ UNCHANGED <<clock, query>>
  BY DEF Next, Blocked, FinishDryRun, AskTime, OpenThrows, SendAtOnce, SendThrows, TimeArrives,
         BuildThrows, TimeRefused, Dies, Tick, Secured, HeadersArrive, FallsSilent, DataArrives,
         Reach, Receive, Completes, Continues, TimesOut, ConnectionFails, Fail, Cut, Time!Next,
         vars
<1>2. MaxClock \in Nat
  BY HarnessAssumption
<1> QED
  BY <1>1, <1>2
     DEF TimeTypes, query, Time!Next, Time!Tick, Time!Ask, Time!Answer, Time!Refuse, Time!Die,
         Time!query

\* A request is handed over with its place in the plan.
LEMMA DispatchTypes ==
  ASSUME IInv, RunTypes, pc \in {"start", "time"}, prog \notin DryPrograms,
         NEW created \in 0 .. MaxClock, NEW held, Dispatch(created, held), UNCHANGED choice
  PROVE  RunTypes'
<1>1. /\ Len(sent) \in Nat /\ counted = Len(sent) /\ Len(sent) < Len(Plan)
      /\ Len(Plan) \in Nat /\ sent \in Seq(Requests)
  <2>1. Len(Plan) \in Nat /\ Len(Plan) > 0
    BY PlanOfScript DEF IInv
  <2> QED
    BY <2>1 DEF IInv, Types, Progress
<1>2. /\ sent' = Append(sent, Request(Plan[Len(sent) + 1], created))
      /\ counted' = counted + 1 /\ pc' = "wire" /\ stage' = "handshake" /\ Plan' = Plan
  BY DEF Dispatch, choice, Plan
<1>3. DOMAIN sent' = 1 .. Len(sent) + 1
  BY <1>1, <1>2
<1>4. ASSUME NEW i \in 1 .. Len(sent) + 1
      PROVE  sent'[i] \in [op : {Plan[i]}, created : 0 .. MaxClock]
  <2>1. CASE i = Len(sent) + 1
    <3>1. sent'[i] = Request(Plan[i], created)
      BY <1>1, <1>2, <2>1
    <3> QED
      BY <3>1 DEF Request
  <2>2. CASE i # Len(sent) + 1
    <3>1. i \in DOMAIN sent /\ sent'[i] = sent[i]
      BY <1>1, <1>2, <2>2
    <3> QED
      BY <3>1 DEF RunTypes
  <2> QED
    BY <2>1, <2>2
<1> QED
  BY <1>1, <1>2, <1>3, <1>4 DEF RunTypes

LEMMA RunTypesStay == IInv /\ TimeTypes /\ TimeTypes' /\ RunTypes /\ [Next]_vars => RunTypes'
<1> SUFFICES ASSUME IInv, TimeTypes, TimeTypes', RunTypes, [Next]_vars
             PROVE  RunTypes'
  OBVIOUS
<1>1. Len(Plan) \in Nat /\ Len(sent) \in Nat /\ counted \in Nat /\ Len(sent) <= Len(Plan)
  BY PlanOfScript DEF IInv, Types, Progress
<1>2. ASSUME UNCHANGED choice, sent' = sent, pc' # "wire",
             stage' \in {"none", "handshake", "waiting", "body", "silent"},
             counted' <= Len(Plan) + 1
      PROVE  RunTypes'
  BY <1>2 DEF RunTypes, choice, Plan
<1>3. ASSUME UNCHANGED choice, UNCHANGED <<sent, counted, pc>>,
             stage' \in {"none", "handshake", "waiting", "body", "silent"},
             pc = "wire" => stage' # "none"
      PROVE  RunTypes'
  BY <1>3 DEF RunTypes, choice, Plan
<1>4. CASE Blocked \/ FinishDryRun \/ OpenThrows
  <2>1. /\ UNCHANGED <<choice, stage, sent>> /\ counted' = counted
        /\ \E outcome, held : EndWith(outcome, held)
    BY <1>4 DEF Blocked, FinishDryRun, OpenThrows, EndCaught
  <2>2. pc' = "ended"
    BY <2>1 DEF EndWith
  <2> QED
    BY <1>1, <1>2, <2>1, <2>2 DEF RunTypes
<1>5. CASE SendThrows
  <2>1. UNCHANGED <<choice, stage, sent>> /\ counted' = counted + 1 /\ pc = "start"
    BY <1>5 DEF SendThrows, Ready
  <2>2. counted = 0
    BY <2>1 DEF IInv, Progress
  <2>3. pc' = "ended"
    BY <1>5 DEF SendThrows, EndCaught, EndWith
  <2> QED
    BY <1>1, <1>2, <2>1, <2>2, <2>3 DEF RunTypes
<1>6. CASE AskTime
  BY <1>1, <1>2, <1>6 DEF AskTime, RunTypes
<1>7. CASE SendAtOnce
  <2>1. /\ pc = "start" /\ prog \notin DryPrograms
        /\ Dispatch(clock, {}) /\ UNCHANGED choice
    BY <1>7 DEF SendAtOnce, Ready, MtlsPrograms, DryPrograms
  <2>2. clock \in 0 .. MaxClock
    BY DEF TimeTypes
  <2> QED
    BY <2>1, <2>2, DispatchTypes
<1>8. CASE TimeArrives
  <2>1. pc = "time" /\ Dispatch(given', Held) /\ UNCHANGED choice
    BY <1>8 DEF TimeArrives
  <2>2. given' \in 0 .. MaxClock
    BY DEF TimeTypes
  <2>3. prog \notin DryPrograms
    BY <2>1 DEF IInv, Progress
  <2> QED
    BY <2>1, <2>2, <2>3, DispatchTypes
<1>9. CASE BuildThrows \/ TimeRefused \/ Dies
  <2>1. pc = "time" /\ UNCHANGED <<choice, stage, sent>> /\ counted' \in {counted, counted + 1}
    BY <1>9 DEF BuildThrows, TimeRefused, Dies
  <2>2. counted < Len(Plan)
    BY <1>1, <2>1 DEF IInv, Progress
  <2>3. pc' = "ended"
    BY <1>9 DEF BuildThrows, TimeRefused, Dies, EndCaught, EndWith
  <2> QED
    BY <1>1, <1>2, <2>1, <2>2, <2>3 DEF RunTypes
<1>10. CASE Receive
  <2>1. UNCHANGED choice /\ stage' = "none" /\ sent' = sent /\ counted' = counted
    BY <1>10 DEF Receive, Completes, Continues
  <2>2. pc' # "wire"
    BY <1>10 DEF Receive, Completes, Continues, EndWith
  <2> QED
    BY <1>1, <1>2, <2>1, <2>2 DEF RunTypes
<1>11. CASE TimesOut \/ ConnectionFails \/ Cut
  <2>1. /\ UNCHANGED choice /\ stage' = "none" /\ sent' = sent /\ counted' = counted
        /\ pc' = "ended"
    BY <1>11 DEF TimesOut, ConnectionFails, Cut, Fail, EndCaught, EndWith
  <2> QED
    BY <1>1, <1>2, <2>1 DEF RunTypes
<1>12. CASE Secured \/ HeadersArrive \/ FallsSilent \/ DataArrives
  BY <1>3, <1>12 DEF Secured, HeadersArrive, FallsSilent, DataArrives, Reach
<1>13. CASE Tick \/ UNCHANGED vars
  BY <1>3, <1>13 DEF Tick, vars, course, RunTypes
<1> QED
  BY <1>4, <1>5, <1>6, <1>7, <1>8, <1>9, <1>10, <1>11, <1>12, <1>13 DEF Next

LEMMA EndTypesStay == IInv /\ EndTypes /\ [Next]_vars => EndTypes'
<1> SUFFICES ASSUME IInv, EndTypes, [Next]_vars
             PROVE  EndTypes'
  OBVIOUS
<1>1. Len(sent) \in Nat
  BY DEF IInv, Types
<1>2. /\ {<<"bundle", 0>>} \subseteq Buffers
      /\ live \cup {<<"key", Len(sent) + 1>>, <<"bundle", 0>>} \subseteq Buffers
      /\ {<<"copy", Len(sent) + 1>>} \subseteq Buffers
      /\ live \cup {<<"body", Len(sent)>>} \subseteq Buffers
  BY <1>1 DEF EndTypes, Buffers
<1>3. /\ Keyed \subseteq Buffers /\ Held \subseteq Buffers
      /\ WithBody \subseteq Buffers /\ Kept \subseteq Buffers
  BY <1>2 DEF Keyed, Held, WithBody, Kept
<1>4. ASSUME NEW outcome, NEW held, EndWith(outcome, held),
             held \subseteq Buffers, outcome.exit \in 0 .. 2
      PROVE  EndTypes'
  BY <1>4 DEF EndWith, EndTypes
<1>5. ASSUME NEW error, NEW held, EndCaught(error, held), held \subseteq Buffers,
             prog # "feasibility"
      PROVE  EndTypes'
  <2>1. Caught(prog, error).exit \in 0 .. 2
    <3>1. prog \in AllPrograms \ {"feasibility"}
      BY <1>5, HarnessAssumption DEF IInv, Types
    <3>2. Caught(prog, error).exit \in {1, 2}
      BY <3>1, ErrorsExit
    <3> QED
      BY <3>2
  <2> QED
    BY <1>4, <1>5, <2>1 DEF EndCaught
<1>6. CASE Blocked
  <2> DEFINE failure == FirstFailure(Script.gates, Lacking)
  <2>1. CASE failure.thrown
    <3>1. prog # "feasibility"
      BY <1>6, <2>1, FeasibilityReturns DEF Blocked
    <3>2. EndCaught(failure.code, {})
      BY <1>6, <2>1 DEF Blocked
    <3> QED
      BY <1>5, <3>1, <3>2
  <2>2. CASE ~failure.thrown
    <3> DEFINE outcome == Says(failure.code, 2, FALSE)
    <3>1. EndWith(outcome, {})
      BY <1>6, <2>2 DEF Blocked
    <3>2. outcome.exit \in 0 .. 2 /\ {} \subseteq Buffers
      BY DEF Says
    <3> HIDE DEF outcome
    <3> QED
      BY <1>4, <3>1, <3>2
  <2> QED
    BY <2>1, <2>2
<1>7. CASE FinishDryRun
  <2>1. prog \in {"historicalDry", "inspect", "feasibility"}
    BY <1>7, ConsultationBlocked DEF FinishDryRun, Ready, DryPrograms
  <2>2. DryRunReport(prog).exit = 0
    BY <2>1 DEF DryRunReport, Says
  <2>3. EndWith(DryRunReport(prog), {})
    BY <1>7 DEF FinishDryRun
  <2> QED
    BY <1>4, <2>2, <2>3
<1>8. CASE OpenThrows \/ SendThrows
  <2>1. prog # "feasibility"
    BY <1>8 DEF OpenThrows, SendThrows, FactIntPrograms, MtlsPrograms
  <2>2. \E error, held : EndCaught(error, held) /\ held \subseteq Buffers
    BY <1>2, <1>8 DEF OpenThrows, SendThrows
  <2> QED
    BY <1>5, <2>1, <2>2
<1>9. CASE BuildThrows \/ TimeRefused \/ TimesOut \/ ConnectionFails
  <2>1. pc \in {"time", "wire"}
    BY <1>9 DEF BuildThrows, TimeRefused, TimesOut, Expires, ConnectionFails
  <2>2. prog # "feasibility"
    BY <2>1 DEF IInv, Progress, DryPrograms
  <2>3. \E error, held : EndCaught(error, held) /\ held \subseteq Buffers
    BY <1>3, <1>9 DEF BuildThrows, TimeRefused, TimesOut, ConnectionFails, Fail, EndTypes
  <2> QED
    BY <1>5, <2>2, <2>3
<1>10. CASE Receive
  <2>1. pc = "wire"
    BY <1>10 DEF Receive, IInv, Types
  <2>2. prog \in FactIntPrograms \cup MtlsPrograms
    BY <2>1, HarnessAssumption DEF IInv, Types, Progress, AllPrograms
  <2>3. PICK answer \in Answers[prog] : Completes(answer) \/ Continues
    BY <1>10 DEF Receive
  <2>4. CASE Completes(answer)
    <3>1. Outcome(prog, Plan, Append(answers, answer)).exit \in {0, 2}
      BY <2>2, OutcomesExit
    <3> QED
      BY <1>3, <1>4, <2>4, <3>1 DEF Completes
  <2>5. CASE Continues
    BY <1>3, <2>5 DEF Continues, result, EndTypes
  <2> QED
    BY <2>3, <2>4, <2>5
<1>11. CASE SendAtOnce \/ TimeArrives \/ AskTime \/ Dies
  <2>1. live' \subseteq Buffers /\ report' = report /\ exit' \in {exit, 1}
    BY <1>2, <1>3, <1>11
       DEF SendAtOnce, TimeArrives, AskTime, Dies, Dispatch, result, EndTypes
  <2> QED
    BY <2>1 DEF EndTypes
<1>12. CASE \/ Secured \/ HeadersArrive \/ FallsSilent \/ DataArrives
            \/ Cut \/ Tick \/ UNCHANGED vars
  <2>1. UNCHANGED <<live, report, exit>>
    BY <1>12
       DEF Secured, HeadersArrive, FallsSilent, DataArrives, Reach, Cut, Tick, vars, course,
           result
  <2> QED
    BY <2>1 DEF EndTypes
<1> QED
  BY <1>6, <1>7, <1>8, <1>9, <1>10, <1>11, <1>12 DEF Next

(***************************************************************************)
(* Every variable of a run keeps its type, and the counter, the requests   *)
(* and the exit code their ranges, whatever scripts, machines and answers. *)
(***************************************************************************)
THEOREM TypeCorrect == Spec => []TypeOK
<1>1. Init => TimeTypes /\ RunTypes /\ EndTypes
  <2> SUFFICES ASSUME Init
               PROVE  TimeTypes /\ RunTypes /\ EndTypes
    OBVIOUS
  <2>1. MaxClock \in Nat \ {0}
    BY HarnessAssumption
  <2>2. Len(Plan) \in Nat
    BY Initially, PlanOfScript DEF IInv
  <2> QED
    BY <2>1, <2>2 DEF Init, Time!Init, TimeTypes, RunTypes, EndTypes, Buffers
<1>2. Spec => [](TimeTypes /\ RunTypes /\ EndTypes)
  BY <1>1, TimeTypesStay, RunTypesStay, EndTypesStay, Safety, PTL DEF Spec
<1> QED
  BY <1>2, TypesSuffice, Safety, PTL
=============================================================================
