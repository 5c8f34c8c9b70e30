------------------------------ MODULE LocalGates ------------------------------
(***************************************************************************)
(* What the AT scripts check on the machine before they use the network.   *)
(* The environment of a process is the set of its defects; a gate is a     *)
(* sequence of checks, and the first defect found ends the process with    *)
(* that check's code.                                                      *)
(***************************************************************************)
EXTENDS Sequences, FiniteSetsExt

\* A check that returns with its code, and one that throws it.
Fails(defect, code) == [defect |-> defect, code |-> code, thrown |-> FALSE]
Throws(defect, code) == [defect |-> defect, code |-> code, thrown |-> TRUE]

\* No check finds a defect.
Clear(checks, env) == \A i \in DOMAIN checks : checks[i].defect \notin env

\* The first check that does.
FirstFailure(checks, env) == checks[Min({i \in DOMAIN checks : checks[i].defect \in env})]

\* The same checks in a script that returns from none of them.
AllThrow(checks) ==
    [i \in DOMAIN checks |-> Throws(checks[i].defect, checks[i].code)]
-----------------------------------------------------------------------------
\* Opt-in and required settings.
LiveChecks ==
    << Fails("no-opt-in", "LIVE_TEST_DISABLED"),
       Fails("no-bundle-settings", "AUTH_CONFIGURATION_MISSING"),
       Fails("no-credentials", "AUTH_CONFIGURATION_MISSING") >>

\* loadConfig: production is refused before anything is required.
ConfigChecks(credentials) ==
    << Throws("odd-environment", "AtConfigurationError"),
       Throws("production", "PRODUCTION_BLOCKED"),
       Throws("no-bundle-settings",
              IF credentials THEN "AUTH_CONFIGURATION_MISSING" ELSE "AtConfigurationError") >>
    \o (IF credentials
        THEN << Throws("no-credentials", "AUTH_CONFIGURATION_MISSING") >> ELSE << >>)
    \o << Throws("bundle-missing", "AtConfigurationError") >>
    \o (IF credentials
        THEN << Throws("certificate-missing", "AtConfigurationError") >> ELSE << >>)

\* validateAtUsername
UsernameCheck == << Throws("odd-username", "INVALID_USERNAME") >>

\* inspectPfxReadiness: the bundle opens, openssl sees a certificate and a
\* key, the certificate is a client's and its issuer in the bundle vouches
\* for it.  That a password is set is part of the settings above.
PfxChecks ==
    << Fails("bundle-missing", "PFX_FILE_NOT_FOUND"),
       Fails("wrong-bundle-password", "PFX_PASSWORD_INVALID"),
       Fails("bundle-broken", "PFX_PARSE_ERROR"),
       Fails("no-openssl", "PFX_PARSE_ERROR"),
       Fails("bundle-unknown-to-openssl", "PFX_PARSE_ERROR"),
       Fails("no-certificate-in-bundle", "PFX_CERTIFICATE_MISSING"),
       Fails("no-key-in-bundle", "PFX_PRIVATE_KEY_MISSING"),
       Fails("no-client-certificate", "PFX_CERTIFICATE_MISSING"),
       Fails("not-for-client-use", "PFX_PARSE_ERROR"),
       Fails("no-issuer-in-bundle", "PFX_PARSE_ERROR"),
       Fails("issuer-does-not-vouch", "PFX_PARSE_ERROR") >>

\* inspectAtCipherPublicKey and readAtPublicKey
CipherCheck ==
    << Throws("certificate-missing", "AtCryptoError"),
       Throws("certificate-not-RSA", "AtCryptoError") >>

\* buildOfficialAppChannel
ChannelCheck == << Throws("odd-device-metadata", "TypeError") >>

\* serializeFactIntWsOperation: only one operation has a sector.
SerializerCheck(op) ==
    << Throws("odd-year", "TypeError") >>
    \o (IF op = "FaturasPorSetor" THEN << Throws("odd-sector", "TypeError") >> ELSE << >>)

\* validateHistoricalDateRange
DateChecks ==
    << Throws("no-dates", "Error"),
       Throws("dates-out-of-range", "Error") >>
-----------------------------------------------------------------------------
\* factIntWsProtocolEvidence, reduced to the entries whose status is UNKNOWN.
UnknownFields == {"channelVersionValue", "channelValues", "taxyCertificatePinning"}

CriticalFields == {
    "passwordDigestFormula", "passwordDigestInputOrder", "passwordDigestEncoding",
    "nonceByteLength", "nonceGeneration", "nonceXmlEncoding", "createdTimezone",
    "createdPrecision", "createdFormat", "operationRootElement",
    "operationRequiredBody", "soapAction", "contentType", "channelValues"}

\* assessFactIntWsReadiness: the values of the channel are still unknown.
Readiness ==
    LET missing == CriticalFields \cap UnknownFields
    IN  CASE missing = {} -> "READY"
          [] "channelValues" \in missing -> "FACTINTWS_CHANNEL_VALUES_UNKNOWN"
          [] OTHER -> "FACTINTWS_OPERATION_SCHEMA_UNKNOWN"

\* buildFactIntWsLiveReadinessMatrix asks less: the scripts vouch for the
\* channel and add the time, and the content type is not asked for.
MatrixReady ==
    (CriticalFields \ {"contentType", "channelValues"}) \cap UnknownFields = {}

\* protocolEvidence of the older service, and what its assertion requires.
UnresolvedFields == {
    "rsaPadding", "timestampPrecision", "passwordEncoding", "wsdl", "namespace", "soapAction"}

\* assertAuthenticatedConsultationEvidence
ConsultationEvidence ==
    CASE "rsaPadding" \in UnresolvedFields -> "RSA_PADDING_UNCONFIRMED"
      [] UnresolvedFields # {} /\ "rsaPadding" \notin UnresolvedFields ->
          "SOAP_CONTRACT_UNRESOLVED"
      [] UnresolvedFields = {} -> "READY"

\* historicalProtocolEvidence: what the older code is taken as evidence for.
HistoricalFields == {
    "usernameFormat.primary", "usernameFormat.subuser", "namespace", "soapAction",
    "rsaPadding", "passwordEncoding", "timestampPrecision", "nonceConstruction",
    "pagination.documentsPerPage"}

\* assertHistoricalConsultationEvidence: nothing it requires is unresolved
\* once the older code counts ("wsdl" is not required).
HistoricalEvidence ==
    IF UnresolvedFields \ {"wsdl"} \subseteq HistoricalFields
    THEN "READY" ELSE "SOAP_CONTRACT_UNRESOLVED"

\* The gates over this evidence read like the others: what is not proved is
\* a defect that every environment has.
Unproved ==
    {evidence \in {"matrix", "readiness", "consultation", "historical"} :
        \/ evidence = "matrix" /\ ~MatrixReady
        \/ evidence = "readiness" /\ Readiness # "READY"
        \/ evidence = "consultation" /\ ConsultationEvidence # "READY"
        \/ evidence = "historical" /\ HistoricalEvidence # "READY"}
==============================================================================
