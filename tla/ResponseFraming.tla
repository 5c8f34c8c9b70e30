---------------------------- MODULE ResponseFraming ----------------------------
(***************************************************************************)
(* An HTTP answer of the tax authority and the three ways the AT scripts   *)
(* turn its bytes into text.  The bytes are abstracted to the coding they  *)
(* are in and to the text that was coded; a text to what its first         *)
(* characters and its root element show, and to the document that the tags *)
(* in it make, which FactIntParser reads.                                  *)
(***************************************************************************)
EXTENDS Naturals

Codings == {"gzip", "deflate", "br"}

\* The Content-Encoding header, and what the bytes really are: not coded,
\* coded, or damaged while they show the signature of the header's coding.
Headers == Codings \cup {"none"}
Wraps == Codings \cup {"none", "damaged"}

\* What the words of a fault, or of the description of a result, are about.
Words == {"credentials", "authorization", "permission", "protocol", "other"}

Docs == [
    fault    : BOOLEAN,
    words    : Words,
    block    : BOOLEAN,                       \* the operation's own response element
    status   : {"number", "odd", "empty", "missing"},   \* EstadoOperacao
    desc     : BOOLEAN,                       \* Desc, with some text
    invoices : {"none", "some", "malformed"},
    figures  : {"zero", "some", "malformed"}] \* totals and sectors, or page numbers

NoTags == [fault |-> FALSE, words |-> "other", block |-> FALSE, status |-> "missing",
           desc |-> FALSE, invoices |-> "none", figures |-> "malformed"]

\* "soap" is the SOAP 1.1 envelope; "envelope" has the root but not the
\* namespace, "doctype" is an HTML page without a root the XML pattern finds.
\* Any text of these shapes may have the tags of a document in it.  "cut" ends
\* inside its first tag.
TaggedShapes == {"soap", "envelope", "xml", "html", "doctype", "json", "words"}
BareShapes == {"cut", "binary"}
Text(shape, doc) == [shape |-> shape, doc |-> doc]
Soap(doc) == Text("soap", doc)
Other(shape) == Text(shape, NoTags)

Texts ==
    {Text(shape, doc) : shape \in TaggedShapes, doc \in Docs}
    \cup {Other(shape) : shape \in BareShapes}
Responses == [status : Nat, encoding : Headers, wrap : Wraps, text : Texts]

\* Bytes that no decoder undid, and a decoder that threw.
Undecoded == Other("binary")
Undecodable == Other("undecodable")
-----------------------------------------------------------------------------
\* decodeHttpEntity: a body somebody already decompressed is taken as it is.
DecodeHttpEntity(answer) ==
    CASE answer.wrap \in {"none", answer.encoding} -> answer.text
      [] answer.wrap = "damaged" /\ answer.encoding \in {"gzip", "deflate"} -> Undecodable
      [] OTHER -> Undecoded

\* The scripts that call gunzipSync whenever the header says gzip.
Gunzip(answer) ==
    CASE answer.encoding = "gzip" /\ answer.wrap # "gzip" -> Undecodable
      [] \/ answer.wrap = "none" /\ answer.encoding # "gzip"
         \/ answer.wrap = "gzip" /\ answer.encoding = "gzip" -> answer.text
      [] OTHER -> Undecoded

\* sendMtlsSoap decodes nothing.
AsReceived(answer) == IF answer.wrap = "none" THEN answer.text ELSE Undecoded
-----------------------------------------------------------------------------
\* inspectXmlRoot: what the root element of a text is, as far as it is looked at.
RootOf(text) ==
    CASE text.shape \in {"soap", "envelope"} -> "Envelope"
      [] text.shape \in {"html", "xml"} -> text.shape
      [] OTHER -> "none"

\* analyzeHttpResponseFraming
Analysis(answer, text) == [
    soap   |-> RootOf(text) = "Envelope" /\ text.shape = "soap",
    html   |-> RootOf(text) = "html" \/ text.shape = "doctype",
    json   |-> text.shape = "json",
    xml    |-> text.shape \in {"soap", "envelope", "xml", "cut", "html", "doctype"},
    binary |-> text.shape = "binary",
    packed |-> answer.wrap \in {"gzip", "deflate"} \/ text.shape = "binary"]
==============================================================================
