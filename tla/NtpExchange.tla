----------------------------- MODULE NtpExchange -----------------------------
(***************************************************************************)
(* The NTP client of the AT scripts: one UDP exchange per query, against   *)
(* one server, without a retry and without a fallback to the local clock.  *)
(* A process may ask again after an exchange has settled.                  *)
(*                                                                         *)
(* The network loses, delays, duplicates and reorders datagrams, and a     *)
(* reply to an earlier query may reach the socket of a later one.  The     *)
(* request carries the reading of the local clock, which is taken to       *)
(* advance with the time; a reply that shows no flaw carries the time at   *)
(* which the server sent it.  The checks of a reply all end in the same    *)
(* refusal, so their error codes are left out.                             *)
(***************************************************************************)
EXTENDS Naturals, FiniteSets

CONSTANTS
    MaxClock,   \* bound on time
    MaxReplies  \* bound on the datagrams a server sends
ASSUME NtpAssumption == MaxClock \in Nat \ {0} /\ MaxReplies \in Nat

\* What may be wrong with a reply besides the query it answers: its length,
\* an alarm, the version or mode, a kiss-of-death, the stratum, a missing
\* timestamp, a time outside the era that starts in 1970.
Flaws == {"short", "alarm", "version", "mode", "kiss", "stratum", "zero", "era"}

Times == 0 .. MaxClock
Replies == [originate : Times, transmit : Times, flaw : Flaws \cup {"none"}]

VARIABLES
    clock,      \* the true time
    configured, \* host, port and time limit pass the checks
    state,      \* "idle", "asked", "answered", "refused" or "dead"
    asked,      \* what the last request carries
    given,      \* the last time obtained
    socket,     \* "closed", "lookup" or "connected"
    timer,      \* the time limit of the exchange is running
    requests,   \* requests that reached the network
    replies     \* datagrams on their way back

exchange == <<state, asked, given, socket, timer>>
network == <<requests, replies>>
vars == <<clock, configured, exchange, network>>

Init ==
    /\ clock = 1
    /\ configured \in BOOLEAN
    /\ state = "idle"
    /\ asked = 0
    /\ given = 0
    /\ socket = "closed"
    /\ timer = FALSE
    /\ requests = {}
    /\ replies = {}
-----------------------------------------------------------------------------
\* Mutant: the request is stamped with a clock that runs ahead.
AskAhead ==
    /\ state \in {"idle", "answered", "refused"}
    /\ state' = "asked"
    /\ asked' = clock + 1
    /\ socket' = IF configured THEN "lookup" ELSE "closed"
    /\ timer' = configured
    /\ UNCHANGED <<clock, configured, given, network>>

\* Mutant: the time limit is left to the operating system.
AskUnlimited ==
    /\ state \in {"idle", "answered", "refused"}
    /\ state' = "asked"
    /\ asked' = clock
    /\ socket' = IF configured THEN "lookup" ELSE "closed"
    /\ timer' = FALSE
    /\ UNCHANGED <<clock, configured, given, network>>

\* queryNtpTime: nothing is opened for a configuration that fails its checks.
Ask ==
    /\ state \in {"idle", "answered", "refused"}
    /\ state' = "asked"
    /\ asked' = clock
    /\ socket' = IF configured THEN "lookup" ELSE "closed"
    /\ timer' = configured
    /\ UNCHANGED <<clock, configured, given, network>>

\* Mutant: the timer is not cleared.
SettleOnly(outcome) ==
    /\ state' = outcome
    /\ socket' = "closed"
    /\ timer' = timer

\* finish: the first event settles the exchange and releases what it holds.
Settle(outcome) ==
    /\ state' = outcome
    /\ socket' = "closed"
    /\ timer' = FALSE

\* The rejected promise of a query that was not made.
Misconfigured ==
    /\ state = "asked"
    /\ ~configured
    /\ Settle("refused")
    /\ UNCHANGED <<clock, configured, asked, given, network>>

\* The callback of connect, when the server's name is resolved.
Connected ==
    /\ socket = "lookup"
    /\ socket' = "connected"
    /\ requests' = requests \cup {asked}
    /\ UNCHANGED <<clock, configured, state, asked, given, timer, replies>>

\* The same callback, when it is not: it takes no argument and sends on a
\* socket without a peer, which throws outside the promise.
LookupFails ==
    /\ socket = "lookup"
    /\ Settle("dead")
    /\ UNCHANGED <<clock, configured, asked, given, network>>

\* The error event of the socket, or an error of the send.
NetworkError ==
    /\ socket # "closed"
    /\ Settle("refused")
    /\ UNCHANGED <<clock, configured, asked, given, network>>

TimesOut ==
    /\ timer
    /\ Settle("refused")
    /\ UNCHANGED <<clock, configured, asked, given, network>>

\* Mutant: the originate timestamp is not compared.
AcceptedUnmatched(reply) == reply.flaw = "none"

\* Mutant: a reply is taken at its word.
AcceptedUnchecked(reply) == reply.originate = asked

\* parseNtpResponse
Accepted(reply) == reply.flaw = "none" /\ reply.originate = asked

\* Only the first message counts: a reply that fails a check ends the query.
Receive ==
    /\ socket = "connected"
    /\ \E reply \in replies :
        \/ /\ Accepted(reply)
           /\ Settle("answered")
           /\ given' = reply.transmit
        \/ /\ ~Accepted(reply)
           /\ Settle("refused")
           /\ given' = given
    /\ UNCHANGED <<clock, configured, asked, network>>
-----------------------------------------------------------------------------
\* The server, and whatever else answers from its address: a flawed reply
\* carries no usable time, and one may name a request nobody made.
ServerReplies ==
    /\ Cardinality(replies) < MaxReplies
    /\ \E reply \in Replies :
        /\ replies' = replies \cup {reply}
        /\ \/ /\ reply.originate \in requests
              /\ reply.flaw = "none"
              /\ reply.transmit = clock
           \/ /\ reply.originate \in requests
              /\ reply.flaw # "none"
              /\ reply.transmit = 0
           \/ /\ reply.originate = 0
              /\ reply.flaw = "none"
              /\ reply.transmit = clock
    /\ UNCHANGED <<clock, configured, exchange, requests>>

Tick ==
    /\ clock < MaxClock
    /\ clock' = clock + 1
    /\ UNCHANGED <<configured, exchange, network>>

Next ==
    \/ Ask \/ Misconfigured \/ Connected \/ LookupFails \/ NetworkError
    \/ TimesOut \/ Receive \/ ServerReplies \/ Tick

\* A timer that is not cleared goes off and a rejection is delivered; no
\* lookup, no server and no network owes the client anything.
Fairness == WF_vars(TimesOut) /\ WF_vars(Misconfigured)

Spec == Init /\ [][Next]_vars
FairSpec == Spec /\ Fairness
-----------------------------------------------------------------------------
TypeOK ==
    /\ clock \in Times
    /\ configured \in BOOLEAN
    /\ state \in {"idle", "asked", "answered", "refused", "dead"}
    /\ asked \in Times
    /\ given \in Times
    /\ socket \in {"closed", "lookup", "connected"}
    /\ timer \in BOOLEAN
    /\ requests \subseteq Times
    /\ replies \subseteq Replies

(***************************************************************************)
(* The time a request is signed with is not older than the query for it,   *)
(* whatever datagrams of earlier exchanges are still under way: the        *)
(* originate timestamp of the reply is compared with the request.          *)
(***************************************************************************)
TimeIsFresh == state = "answered" => given \in asked .. clock

(***************************************************************************)
(* An exchange holds its socket and its timer exactly while it is open:    *)
(* it never waits without a time limit, and no timer or datagram of a      *)
(* settled query can end a later one.                                      *)
(***************************************************************************)
HeldWhileOpen ==
    /\ timer <=> socket # "closed"
    /\ timer <=> state = "asked" /\ configured

(***************************************************************************)
(* For its callers the exchange is a source of time, see TimeSource.       *)
(***************************************************************************)
Time == INSTANCE TimeSource
Implements == Time!Spec

(***************************************************************************)
(* Every query ends, whatever the network does: a script that waits for    *)
(* the time does not wait for ever.                                        *)
(***************************************************************************)
Settles == state = "asked" ~> state # "asked"

(***************************************************************************)
(* The document says of the exchange that failures return                  *)
(* NTP_TIME_UNAVAILABLE: none of them may end the process.                 *)
(***************************************************************************)
FailuresAreReported == state # "dead"
=============================================================================
