---------------------------- MODULE EfaturaSession ----------------------------
(***************************************************************************)
(* The e-Fatura connection: EfaturaScreen's handlers, EfaturaReadOnlyService, *)
(* BackendEfaturaRuntimeBridge, the secure token store, the backend's      *)
(* sessions and the companion evidence that _openEfatura's callbacks save. *)
(*                                                                         *)
(* _openEfatura builds a new screen and a new bridge each time; they share *)
(* only the token store and the evidence file.  A screen that is popped    *)
(* stops touching its widgets, but a request it had in flight goes on.     *)
(* Each element of Screens is a slot for one such screen with its bridge;  *)
(* it is used again once its last request has ended, so |Screens| bounds   *)
(* how many instances overlap.                                             *)
(*                                                                         *)
(* A handler is a task with a program counter: every await is a value of   *)
(* pc, and each action runs from one await to the next, as the event loop  *)
(* does.  Session data (overview, invoices, counts) is abstracted to the   *)
(* token of the session that supplied it.                                  *)
(***************************************************************************)
CONSTANTS
    Screens,     \* slots for a screen and its bridge
    Tokens,      \* session tokens the backend may create (bounds the logins)
    NoToken,
    Taxpayers,
    Owner,       \* the taxpayer each session token is bound to
    Faults       \* which calls may throw an exception, see below

(* "write": the secure store refuses to keep a token;  "read", "delete":   *)
(* the other store calls throw;  "file": evidence I/O throws;  "http": the *)
(* HTTP client throws an exception `_send` has no clause for, for instance *)
(* HttpException when the server closes the connection early;  "slow": a   *)
(* store call may still be pending when the user takes the next step.      *)
FaultKinds == {"write", "read", "delete", "file", "http", "slow"}

ASSUME SessionAssumption ==
    /\ NoToken \notin Tokens
    /\ Owner \in [Tokens -> Taxpayers]
    /\ Faults \subseteq FaultKinds

TokenOrNone == Tokens \cup {NoToken}

\* EfaturaConnectionStatus; "failed" is the four error states, which differ in
\* wording only.
Statuses == {"notConfigured", "connecting", "connected", "failed", "disconnected"}

\* EfaturaFailureKind as _applyFailure tells its values apart: "rejected" is
\* authentication and expired, "unavailable" the network and service failures.
Kinds == {"notConfigured", "rejected", "unavailable"}

\* The handlers that _requestInFlight keeps apart; "invoices" stands for
\* _loadPendingInvoices and _loadInvoices.
Ops == {"connect", "refresh", "invoices", "disconnect"}

\* Awaits on the token store; the names with "no" are calls that will throw.
StoreCalls == {"write", "nowrite", "read", "noread",
               "forget", "noforget", "delete", "nodelete"}
Awaits == StoreCalls \cup
          {"idle", "post", "undo", "get", "revoke", "load", "save", "clear"}
Replies == {"none", "waiting", "ok", "rejected", "unavailable"}

VARIABLES
    opened,      \* the screen is mounted
    dialog,      \* the disconnect confirmation is shown
    status, ready, failed, overview, invoices,   \* _status, _readiness.hasCredentials,
                 \* _failure # null, _overview and _invoices
    mem,         \* the bridge's _sessionToken
    op, pc, tok, reply, carried,  \* the handler in flight: which, at which await,
                 \* its token, the backend's answer, the other count of the evidence
    init, itok, behind,  \* _initialize: its await, the token the store gave it, and
                 \* whether its store call was issued after the handler's
    store,       \* the secure store's only entry
    session,     \* the backend's sessions
    evPending, evInvoices   \* the companion evidence: sessions its counts are from

ui == <<status, ready, failed, overview, invoices>>
task == <<op, pc, tok, reply, carried>>
boot == <<init, itok, behind>>
evidence == <<evPending, evInvoices>>
vars == <<opened, dialog, ui, mem, task, boot, store, session, evidence>>

Init ==
    /\ opened = [s \in Screens |-> FALSE]
    /\ dialog = [s \in Screens |-> FALSE]
    /\ status = [s \in Screens |-> "notConfigured"]
    /\ ready = [s \in Screens |-> FALSE]
    /\ failed = [s \in Screens |-> FALSE]
    /\ overview = [s \in Screens |-> NoToken]
    /\ invoices = [s \in Screens |-> NoToken]
    /\ mem = [s \in Screens |-> NoToken]
    /\ op = [s \in Screens |-> "none"]
    /\ pc = [s \in Screens |-> "idle"]
    /\ tok = [s \in Screens |-> NoToken]
    /\ reply = [s \in Screens |-> "none"]
    /\ carried = [s \in Screens |-> NoToken]
    /\ init = [s \in Screens |-> "none"]
    /\ itok = [s \in Screens |-> NoToken]
    /\ behind = [s \in Screens |-> FALSE]
    /\ store = NoToken
    /\ session = [t \in Tokens |-> "unused"]
    /\ evPending = NoToken
    /\ evInvoices = NoToken
-----------------------------------------------------------------------------
(* The store.  A platform channel serves its calls in order, so a call     *)
(* takes effect when it is issued and answers of one bridge come in the    *)
(* order of its calls; between bridges the order of answers is immaterial. *)

Outcomes(fault, good, bad) == IF fault \in Faults THEN {good, bad} ELSE {good}

\* The handler's (HandlerTurn) or _initialize's (InitTurn) answer is next.
HandlerTurn(s) == init[s] \in {"read", "noread"} => behind[s]
InitTurn(s) == pc[s] \in StoreCalls => ~behind[s]

\* The user's next step comes after the store's answer, unless it is slow.
Prompt(s) == "slow" \in Faults \/ (pc[s] \notin StoreCalls /\ init[s] \notin {"read", "noread"})

\* A handler's store call ended: a read of _initialize is now the older call.
Answered(s) == behind' = [behind EXCEPT ![s] = FALSE]

Delete(s, good, bad) ==
    \E call \in Outcomes("delete", good, bad) :
        /\ pc' = [pc EXCEPT ![s] = call]
        /\ store' = IF call = good THEN NoToken ELSE store
-----------------------------------------------------------------------------
(* Ends of a handler.                                                      *)

\* Mutant: the token outlives its handler.
FinishKeepsToken(s) ==
    /\ op' = [op EXCEPT ![s] = "none"]
    /\ pc' = [pc EXCEPT ![s] = "idle"]
    /\ reply' = [reply EXCEPT ![s] = "none"]
    /\ carried' = [carried EXCEPT ![s] = NoToken]
    /\ UNCHANGED tok

Finish(s) ==
    /\ op' = [op EXCEPT ![s] = "none"]
    /\ pc' = [pc EXCEPT ![s] = "idle"]
    /\ tok' = [tok EXCEPT ![s] = NoToken]
    /\ reply' = [reply EXCEPT ![s] = "none"]
    /\ carried' = [carried EXCEPT ![s] = NoToken]

\* Mutant: a rejected session's invoices stay on the screen.
ApplyFailureKeepsInvoices(s, kind) ==
    IF ~opened[s] THEN UNCHANGED ui
    ELSE /\ failed' = [failed EXCEPT ![s] = TRUE]
         /\ status' = [status EXCEPT ![s] =
                IF kind = "notConfigured" THEN "notConfigured" ELSE "failed"]
         /\ overview' = [overview EXCEPT ![s] = IF kind = "rejected" THEN NoToken ELSE @]
         /\ ready' = [ready EXCEPT ![s] = kind # "rejected" /\ @]
         /\ UNCHANGED invoices

\* _applyFailure
ApplyFailure(s, kind) ==
    IF ~opened[s] THEN UNCHANGED ui
    ELSE /\ failed' = [failed EXCEPT ![s] = TRUE]
         /\ status' = [status EXCEPT ![s] =
                IF kind = "notConfigured" THEN "notConfigured" ELSE "failed"]
         /\ IF kind = "rejected"
            THEN /\ overview' = [overview EXCEPT ![s] = NoToken]
                 /\ invoices' = [invoices EXCEPT ![s] = NoToken]
                 /\ ready' = [ready EXCEPT ![s] = FALSE]
            ELSE UNCHANGED <<overview, invoices, ready>>

Fail(s, kind) == ApplyFailure(s, kind) /\ Finish(s)

\* An exception that is not an EfaturaServiceException: _refresh catches it,
\* the other handlers only run their `finally`.
Escape(s) ==
    /\ IF op[s] = "refresh" THEN ApplyFailure(s, "unavailable") ELSE UNCHANGED ui
    /\ Finish(s)
-----------------------------------------------------------------------------
(* Opening, closing, and the start-up task `_initialize`.                  *)

ReadForInit(s) ==
    /\ \E call \in Outcomes("read", "read", "noread") :
           init' = [init EXCEPT ![s] = call]
    /\ itok' = [itok EXCEPT ![s] = store]
    /\ behind' = [behind EXCEPT ![s] = pc[s] \in StoreCalls]

\* _openEfatura and initState: a new bridge, which reads the store at once.
Open(s) ==
    /\ \A r \in Screens : ~opened[r]
    /\ op[s] = "none" /\ init[s] = "none"
    /\ opened' = [opened EXCEPT ![s] = TRUE]
    /\ mem' = [mem EXCEPT ![s] = NoToken]
    /\ ReadForInit(s)
    /\ UNCHANGED <<dialog, ui, task, store, session, evidence>>

\* dispose: the widget state is gone, requests in flight are not.
Close(s) ==
    /\ opened[s] /\ ~dialog[s]
    /\ opened' = [opened EXCEPT ![s] = FALSE]
    /\ status' = [status EXCEPT ![s] = "notConfigured"]
    /\ ready' = [ready EXCEPT ![s] = FALSE]
    /\ failed' = [failed EXCEPT ![s] = FALSE]
    /\ overview' = [overview EXCEPT ![s] = NoToken]
    /\ invoices' = [invoices EXCEPT ![s] = NoToken]
    /\ UNCHANGED <<dialog, mem, task, boot, store, session, evidence>>

\* readiness arrived with a token: show progress and call _refresh, which
\* returns at once when a handler is in flight.
Ready(s, t) ==
    /\ ready' = [ready EXCEPT ![s] = TRUE]
    /\ status' = [status EXCEPT ![s] = "connecting"]
    /\ init' = [init EXCEPT ![s] = "none"]
    /\ IF op[s] # "none" THEN UNCHANGED <<failed, op, pc, tok, reply>>
       ELSE /\ failed' = [failed EXCEPT ![s] = FALSE]
            /\ op' = [op EXCEPT ![s] = "refresh"]
            /\ pc' = [pc EXCEPT ![s] = "get"]
            /\ tok' = [tok EXCEPT ![s] = t]
            /\ reply' = [reply EXCEPT ![s] = "waiting"]
    /\ UNCHANGED <<overview, invoices, carried>>

\* readiness arrived without one: ask whether the backend is reachable.
NotReady(s) ==
    /\ ready' = [ready EXCEPT ![s] = FALSE]
    /\ status' = [status EXCEPT ![s] = "notConfigured"]
    /\ init' = [init EXCEPT ![s] = "probe"]
    /\ UNCHANGED <<failed, overview, invoices, task>>

\* Pull-to-refresh without an overview, or "retry" on the error card.
Initialize(s) ==
    /\ opened[s] /\ ~dialog[s] /\ init[s] = "none" /\ Prompt(s)
    /\ overview[s] = NoToken \/ failed[s]
    /\ \/ /\ mem[s] # NoToken
          /\ Ready(s, mem[s])
          /\ UNCHANGED <<itok, behind>>
       \/ /\ mem[s] = NoToken
          /\ ReadForInit(s)
          /\ UNCHANGED <<ui, task>>
    /\ UNCHANGED <<opened, dialog, mem, store, session, evidence>>

InitRead(s) ==
    /\ init[s] = "read" /\ InitTurn(s)
    /\ mem' = [mem EXCEPT ![s] = itok[s]]
    /\ itok' = [itok EXCEPT ![s] = NoToken]
    /\ Answered(s)
    /\ \/ /\ ~opened[s]
          /\ init' = [init EXCEPT ![s] = "none"]
          /\ UNCHANGED <<ui, task>>
       \/ opened[s] /\ itok[s] # NoToken /\ Ready(s, itok[s])
       \/ opened[s] /\ itok[s] = NoToken /\ NotReady(s)
    /\ UNCHANGED <<opened, dialog, store, session, evidence>>

\* The store threw: nobody catches it and the screen stays as it was.
InitReadThrows(s) ==
    /\ init[s] = "noread" /\ InitTurn(s)
    /\ init' = [init EXCEPT ![s] = "none"]
    /\ itok' = [itok EXCEPT ![s] = NoToken]
    /\ Answered(s)
    /\ UNCHANGED <<opened, dialog, ui, mem, task, store, session, evidence>>

\* checkReachability: reachable (or an exception nobody catches), offline, or
\* unavailable.  It fails late: whatever the screen shows by then is replaced.
InitProbe(s) ==
    /\ init[s] = "probe"
    /\ init' = [init EXCEPT ![s] = "none"]
    /\ UNCHANGED ui \/ ApplyFailure(s, "unavailable")
    /\ UNCHANGED <<opened, dialog, mem, task, itok, behind, store, session, evidence>>
-----------------------------------------------------------------------------
(* Starting a handler.                                                     *)

Idle(s) == opened[s] /\ ~dialog[s] /\ op[s] = "none" /\ Prompt(s)
Busy(s) == status[s] = "connecting"

Begin(s, handler) ==
    /\ op' = [op EXCEPT ![s] = handler]
    /\ status' = [status EXCEPT ![s] = "connecting"]
    /\ failed' = [failed EXCEPT ![s] = FALSE]
    /\ UNCHANGED <<ready, overview, invoices, carried>>

\* _readSessionToken: the cached token, or a read of the store.
ReadToken(s) ==
    /\ \E call \in Outcomes("read", "read", "noread") :
           pc' = [pc EXCEPT ![s] = call]
    /\ tok' = [tok EXCEPT ![s] = store]
    /\ UNCHANGED reply

SendGet(s, t) ==
    /\ pc' = [pc EXCEPT ![s] = "get"]
    /\ tok' = [tok EXCEPT ![s] = t]
    /\ reply' = [reply EXCEPT ![s] = "waiting"]

StartConnect(s) ==
    /\ Idle(s) /\ ~Busy(s) /\ overview[s] = NoToken
    /\ Begin(s, "connect")
    /\ pc' = [pc EXCEPT ![s] = "post"]
    /\ reply' = [reply EXCEPT ![s] = "waiting"]
    /\ UNCHANGED <<opened, dialog, mem, tok, boot, store, session, evidence>>

\* The refresh button, or pull-to-refresh, which works even while busy.
StartRefresh(s) ==
    /\ Idle(s) /\ overview[s] # NoToken
    /\ Begin(s, "refresh")
    /\ \/ mem[s] # NoToken /\ SendGet(s, mem[s])
       \/ mem[s] = NoToken /\ ReadToken(s)
    /\ UNCHANGED <<opened, dialog, mem, boot, store, session, evidence>>

StartInvoices(s) ==
    /\ Idle(s) /\ ~Busy(s) /\ overview[s] # NoToken
    /\ Begin(s, "invoices")
    /\ \/ mem[s] # NoToken /\ SendGet(s, mem[s])
       \/ mem[s] = NoToken /\ ReadToken(s)
    /\ UNCHANGED <<opened, dialog, mem, boot, store, session, evidence>>

\* A sector code outside C01..C15, C99 fails before any call.
RejectSector(s) ==
    /\ Idle(s) /\ ~Busy(s) /\ overview[s] # NoToken
    /\ ApplyFailure(s, "unavailable")
    /\ UNCHANGED <<opened, dialog, mem, task, boot, store, session, evidence>>

\* The disconnect button opens a modal dialog; the handler only starts when
\* it is confirmed, whatever has happened meanwhile.
AskDisconnect(s) ==
    /\ opened[s] /\ ~dialog[s] /\ ~Busy(s) /\ Prompt(s)
    /\ overview[s] # NoToken \/ ready[s]
    /\ dialog' = [dialog EXCEPT ![s] = TRUE]
    /\ UNCHANGED <<opened, ui, mem, task, boot, store, session, evidence>>

CancelDisconnect(s) ==
    /\ dialog[s]
    /\ dialog' = [dialog EXCEPT ![s] = FALSE]
    /\ UNCHANGED <<opened, ui, mem, task, boot, store, session, evidence>>

\* Mutant: only the token in memory is forgotten.
ForgetOnly(s) ==
    /\ mem' = [mem EXCEPT ![s] = NoToken]
    /\ pc' = [pc EXCEPT ![s] = "delete"]
    /\ UNCHANGED store

\* clear(): forget the token in memory, delete it from the store; the remote
\* session is revoked afterwards, and only if there was a token.
ForgetAndDelete(s) ==
    /\ mem' = [mem EXCEPT ![s] = NoToken]
    /\ Delete(s, "delete", "nodelete")

StartDisconnect(s) ==
    /\ dialog[s] /\ op[s] = "none" /\ Prompt(s)
    /\ dialog' = [dialog EXCEPT ![s] = FALSE]
    /\ op' = [op EXCEPT ![s] = "disconnect"]
    /\ \/ /\ mem[s] # NoToken
          /\ tok' = [tok EXCEPT ![s] = mem[s]]
          /\ ForgetAndDelete(s)
          /\ UNCHANGED reply
       \/ /\ mem[s] = NoToken
          /\ ReadToken(s)
          /\ UNCHANGED <<mem, store>>
    /\ UNCHANGED <<opened, ui, carried, boot, session, evidence>>
-----------------------------------------------------------------------------
(* connect: create a session, store its token, notify.                     *)

Unanswered(s, await) == pc[s] = await /\ reply[s] = "waiting"

ServePost(s) ==
    /\ Unanswered(s, "post")
    /\ \/ \E t \in Tokens :
             /\ session[t] = "unused"
             /\ session' = [session EXCEPT ![t] = "live"]
             /\ tok' = [tok EXCEPT ![s] = t]
             /\ reply' = [reply EXCEPT ![s] = "ok"]
       \/ \E answer \in {"rejected", "unavailable"} :
             /\ reply' = [reply EXCEPT ![s] = answer]
             /\ UNCHANGED <<session, tok>>
    /\ UNCHANGED <<opened, dialog, ui, mem, op, pc, carried, boot, store, evidence>>

\* Mutant: the bridge keeps the token before the store has accepted it.
PostOkKeepsToken(s) ==
    /\ pc[s] = "post" /\ reply[s] = "ok"
    /\ \E call \in Outcomes("write", "write", "nowrite") :
          /\ pc' = [pc EXCEPT ![s] = call]
          /\ store' = IF call = "write" THEN tok[s] ELSE store
    /\ mem' = [mem EXCEPT ![s] = tok[s]]
    /\ reply' = [reply EXCEPT ![s] = "none"]
    /\ UNCHANGED <<opened, dialog, ui, op, tok, carried, boot, session, evidence>>

\* sessionTokenStore.write
PostOk(s) ==
    /\ pc[s] = "post" /\ reply[s] = "ok"
    /\ \E call \in Outcomes("write", "write", "nowrite") :
          /\ pc' = [pc EXCEPT ![s] = call]
          /\ store' = IF call = "write" THEN tok[s] ELSE store
    /\ reply' = [reply EXCEPT ![s] = "none"]
    /\ UNCHANGED <<opened, dialog, ui, mem, op, tok, carried, boot, session, evidence>>

PostRefused(s) ==
    /\ pc[s] = "post" /\ reply[s] \in {"rejected", "unavailable"}
    /\ Fail(s, reply[s])
    /\ UNCHANGED <<opened, dialog, mem, boot, store, session, evidence>>

\* Mutant: nothing catches a request's timeout.
RequestFailsUncaught(s) ==
    /\ pc[s] \in {"post", "get"}
    /\ Finish(s)
    /\ UNCHANGED <<opened, dialog, ui, mem, boot, store, session, evidence>>

\* A timeout, a broken connection or an unreadable answer, of any request to
\* the backend that is awaited by a handler; the backend may have served it.
RequestFails(s) ==
    /\ pc[s] \in {"post", "get"}
    /\ \/ Fail(s, "unavailable")
       \/ "http" \in Faults /\ Escape(s)
    /\ UNCHANGED <<opened, dialog, mem, boot, store, session, evidence>>

\* Mutant: the token is written once more after the first write has ended.
WrittenTwice(s) ==
    /\ pc[s] = "write" /\ HandlerTurn(s)
    /\ mem' = [mem EXCEPT ![s] = tok[s]]
    /\ store' = tok[s]
    /\ pc' = [pc EXCEPT ![s] = "load"]
    /\ Answered(s)
    /\ UNCHANGED <<opened, dialog, ui, op, tok, reply, carried, init, itok, session, evidence>>

\* The token is stored: it becomes the bridge's, and fetchOverview returns the
\* overview of the same answer without another request.
Written(s) ==
    /\ pc[s] = "write" /\ HandlerTurn(s)
    /\ mem' = [mem EXCEPT ![s] = tok[s]]
    /\ pc' = [pc EXCEPT ![s] = "load"]
    /\ Answered(s)
    /\ UNCHANGED <<opened, dialog, ui, op, tok, reply, carried, init, itok,
                   store, session, evidence>>

\* It is not: end the remote session and keep nothing.
WriteThrows(s) ==
    /\ pc[s] = "nowrite" /\ HandlerTurn(s)
    /\ pc' = [pc EXCEPT ![s] = "undo"]
    /\ Answered(s)
    /\ UNCHANGED <<opened, dialog, ui, mem, op, tok, reply, carried, init, itok,
                   store, session, evidence>>

\* DELETE v1/efatura/session, whose failure is ignored.
MayRevoke(t) == \/ UNCHANGED session
                \/ session' = [session EXCEPT ![t] = "ended"]

Undone(s) ==
    /\ pc[s] = "undo"
    /\ MayRevoke(tok[s])
    /\ Fail(s, "notConfigured")
    /\ UNCHANGED <<opened, dialog, mem, boot, store, evidence>>
-----------------------------------------------------------------------------
(* Authenticated requests.                                                 *)

\* _readSessionToken caches what the store gave, then the handler goes on.
TokenRead(s) ==
    /\ pc[s] = "read" /\ HandlerTurn(s)
    /\ Answered(s)
    /\ \/ /\ op[s] = "disconnect"
          /\ ForgetAndDelete(s)
          /\ UNCHANGED <<ui, op, tok, reply, carried>>
       \/ /\ op[s] # "disconnect" /\ tok[s] # NoToken
          /\ mem' = [mem EXCEPT ![s] = tok[s]]
          /\ SendGet(s, tok[s])
          /\ UNCHANGED <<ui, op, carried, store>>
       \/ /\ op[s] # "disconnect" /\ tok[s] = NoToken
          /\ mem' = [mem EXCEPT ![s] = NoToken]
          /\ Fail(s, "notConfigured")
          /\ UNCHANGED store
    /\ UNCHANGED <<opened, dialog, init, itok, session, evidence>>

\* The backend rejects a session that has ended.
ServeGet(s) ==
    /\ Unanswered(s, "get")
    /\ \E answer \in IF session[tok[s]] = "live" THEN {"ok", "unavailable"}
                     ELSE {"rejected"} :
           reply' = [reply EXCEPT ![s] = answer]
    /\ UNCHANGED <<opened, dialog, ui, mem, op, pc, tok, carried, boot,
                   store, session, evidence>>

GetOk(s) ==
    /\ pc[s] = "get" /\ reply[s] = "ok"
    /\ pc' = [pc EXCEPT ![s] = "load"]
    /\ reply' = [reply EXCEPT ![s] = "none"]
    /\ UNCHANGED <<opened, dialog, ui, mem, op, tok, carried, boot,
                   store, session, evidence>>

\* Mutant: an unavailable service is asked again, for ever.
GetDeniedRetries(s) ==
    /\ pc[s] = "get" /\ reply[s] = "unavailable"
    /\ reply' = [reply EXCEPT ![s] = "waiting"]
    /\ UNCHANGED <<opened, dialog, ui, mem, op, pc, tok, carried, boot,
                   store, session, evidence>>

GetDenied(s) ==
    /\ pc[s] = "get" /\ reply[s] = "unavailable"
    /\ Fail(s, "unavailable")
    /\ UNCHANGED <<opened, dialog, mem, boot, store, session, evidence>>

\* _clearLocalSession: it deletes whatever token the store holds by now.
GetRejected(s) ==
    /\ pc[s] = "get" /\ reply[s] = "rejected"
    /\ mem' = [mem EXCEPT ![s] = NoToken]
    /\ Delete(s, "forget", "noforget")
    /\ UNCHANGED <<opened, dialog, ui, op, tok, reply, carried, boot,
                   session, evidence>>

Forgotten(s) ==
    /\ pc[s] = "forget" /\ HandlerTurn(s)
    /\ Fail(s, reply[s])
    /\ Answered(s)
    /\ UNCHANGED <<opened, dialog, mem, init, itok, store, session, evidence>>

\* Reading or deleting the token threw.
StoreThrows(s) ==
    /\ pc[s] \in {"noread", "noforget", "nodelete"} /\ HandlerTurn(s)
    /\ Escape(s)
    /\ Answered(s)
    /\ UNCHANGED <<opened, dialog, mem, init, itok, store, session, evidence>>
-----------------------------------------------------------------------------
(* Saving the companion evidence, then showing the result.                 *)

\* The callback reads the saved evidence to keep the count it does not replace.
EvidenceLoaded(s) ==
    /\ pc[s] = "load"
    /\ carried' = [carried EXCEPT
                     ![s] = IF op[s] = "invoices" THEN evPending ELSE evInvoices]
    /\ pc' = [pc EXCEPT ![s] = "save"]
    /\ UNCHANGED <<opened, dialog, ui, mem, op, tok, reply, boot,
                   store, session, evidence>>

\* The setState after the callback, skipped when the screen is gone.
ShowResult(s) ==
    \/ ~opened[s] /\ UNCHANGED ui
    \/ /\ opened[s] /\ op[s] = "connect"
       /\ status' = [status EXCEPT ![s] = "connected"]
       /\ ready' = [ready EXCEPT ![s] = TRUE]
       /\ overview' = [overview EXCEPT ![s] = tok[s]]
       /\ invoices' = [invoices EXCEPT ![s] = NoToken]
       /\ UNCHANGED failed
    \/ /\ opened[s] /\ op[s] = "refresh"
       /\ status' = [status EXCEPT ![s] = "connected"]
       /\ overview' = [overview EXCEPT ![s] = tok[s]]
       /\ UNCHANGED <<ready, failed, invoices>>
    \/ /\ opened[s] /\ op[s] = "invoices"
       /\ status' = [status EXCEPT ![s] = "connected"]
       /\ invoices' = [invoices EXCEPT ![s] = tok[s]]
       /\ UNCHANGED <<ready, failed, overview>>

EvidenceSaved(s) ==
    /\ pc[s] = "save"
    /\ \/ op[s] = "invoices" /\ evPending' = carried[s] /\ evInvoices' = tok[s]
       \/ op[s] # "invoices" /\ evPending' = tok[s] /\ evInvoices' = carried[s]
    /\ ShowResult(s)
    /\ Finish(s)
    /\ UNCHANGED <<opened, dialog, mem, boot, store, session>>

\* Any exception of the callback is swallowed (_notifyOverview and the others).
EvidenceThrows(s) ==
    /\ "file" \in Faults /\ pc[s] \in {"load", "save"}
    /\ ShowResult(s)
    /\ Finish(s)
    /\ UNCHANGED <<opened, dialog, mem, boot, store, session, evidence>>
-----------------------------------------------------------------------------
(* The rest of disconnect.                                                 *)

Deleted(s) ==
    /\ pc[s] = "delete" /\ HandlerTurn(s)
    /\ pc' = [pc EXCEPT ![s] = IF tok[s] = NoToken THEN "clear" ELSE "revoke"]
    /\ Answered(s)
    /\ UNCHANGED <<opened, dialog, ui, mem, op, tok, reply, carried, init, itok,
                   store, session, evidence>>

Revoked(s) ==
    /\ pc[s] = "revoke"
    /\ MayRevoke(tok[s])
    /\ pc' = [pc EXCEPT ![s] = "clear"]
    /\ UNCHANGED <<opened, dialog, ui, mem, op, tok, reply, carried, boot,
                   store, evidence>>

ShowDisconnected(s) ==
    IF ~opened[s] THEN UNCHANGED ui
    ELSE /\ status' = [status EXCEPT ![s] = "disconnected"]
         /\ ready' = [ready EXCEPT ![s] = FALSE]
         /\ failed' = [failed EXCEPT ![s] = FALSE]
         /\ overview' = [overview EXCEPT ![s] = NoToken]
         /\ invoices' = [invoices EXCEPT ![s] = NoToken]

EvidenceCleared(s) ==
    /\ pc[s] = "clear"
    /\ \/ evPending' = NoToken /\ evInvoices' = NoToken
       \/ "file" \in Faults /\ UNCHANGED evidence
    /\ ShowDisconnected(s)
    /\ Finish(s)
    /\ UNCHANGED <<opened, dialog, mem, boot, store, session>>
-----------------------------------------------------------------------------
(* The environment.                                                        *)

\* A session reaches its idle or absolute limit, or the backend restarts.
Expire(t) ==
    /\ session[t] = "live"
    /\ session' = [session EXCEPT ![t] = "ended"]
    /\ UNCHANGED <<opened, dialog, ui, mem, task, boot, store, evidence>>

\* The process is killed: only the store, the evidence and the backend remain.
Restart ==
    /\ opened' = [s \in Screens |-> FALSE]
    /\ dialog' = [s \in Screens |-> FALSE]
    /\ status' = [s \in Screens |-> "notConfigured"]
    /\ ready' = [s \in Screens |-> FALSE]
    /\ failed' = [s \in Screens |-> FALSE]
    /\ overview' = [s \in Screens |-> NoToken]
    /\ invoices' = [s \in Screens |-> NoToken]
    /\ mem' = [s \in Screens |-> NoToken]
    /\ op' = [s \in Screens |-> "none"]
    /\ pc' = [s \in Screens |-> "idle"]
    /\ tok' = [s \in Screens |-> NoToken]
    /\ reply' = [s \in Screens |-> "none"]
    /\ carried' = [s \in Screens |-> NoToken]
    /\ init' = [s \in Screens |-> "none"]
    /\ itok' = [s \in Screens |-> NoToken]
    /\ behind' = [s \in Screens |-> FALSE]
    /\ UNCHANGED <<store, session, evidence>>

UserStep(s) ==
    \/ Open(s) \/ Close(s) \/ Initialize(s)
    \/ StartConnect(s) \/ StartRefresh(s) \/ StartInvoices(s) \/ RejectSector(s)
    \/ AskDisconnect(s) \/ CancelDisconnect(s) \/ StartDisconnect(s)

InitStep(s) == InitRead(s) \/ InitReadThrows(s) \/ InitProbe(s)

HandlerStep(s) ==
    \/ ServePost(s) \/ PostOk(s) \/ PostRefused(s) \/ RequestFails(s)
    \/ Written(s) \/ WriteThrows(s) \/ Undone(s)
    \/ TokenRead(s) \/ ServeGet(s) \/ GetOk(s) \/ GetDenied(s) \/ GetRejected(s)
    \/ Forgotten(s) \/ StoreThrows(s)
    \/ EvidenceLoaded(s) \/ EvidenceSaved(s) \/ EvidenceThrows(s)
    \/ Deleted(s) \/ Revoked(s) \/ EvidenceCleared(s)

Next ==
    \/ \E s \in Screens : UserStep(s) \/ InitStep(s) \/ HandlerStep(s)
    \/ \E t \in Tokens : Expire(t)
    \/ Restart

\* The event loop runs every continuation that is ready and each request has
\* a timeout (connectTimeout, responseTimeout); users owe nothing.
Fairness == \A s \in Screens : WF_vars(InitStep(s)) /\ WF_vars(HandlerStep(s))

Spec == Init /\ [][Next]_vars
FairSpec == Spec /\ Fairness
-----------------------------------------------------------------------------
(* Properties.                                                             *)

ScreenType ==
    /\ opened \in [Screens -> BOOLEAN] /\ dialog \in [Screens -> BOOLEAN]
    /\ mem \in [Screens -> TokenOrNone]
UiType ==
    /\ status \in [Screens -> Statuses]
    /\ ready \in [Screens -> BOOLEAN] /\ failed \in [Screens -> BOOLEAN]
    /\ overview \in [Screens -> TokenOrNone]
    /\ invoices \in [Screens -> TokenOrNone]
NeedsToken(s) == \/ pc[s] \in {"write", "nowrite", "undo", "get", "revoke"}
                 \/ pc[s] = "post" /\ reply[s] = "ok"
TaskType ==
    /\ op \in [Screens -> Ops \cup {"none"}]
    /\ pc \in [Screens -> Awaits]
    /\ tok \in [Screens -> TokenOrNone]
    /\ reply \in [Screens -> Replies]
    /\ carried \in [Screens -> TokenOrNone]
    /\ \A s \in Screens :
          /\ NeedsToken(s) => tok[s] # NoToken
          /\ Unanswered(s, "post") => tok[s] = NoToken
          /\ op[s] = "none" => pc[s] = "idle" /\ tok[s] = NoToken
BootType ==
    /\ init \in [Screens -> {"none", "read", "noread", "probe"}]
    /\ itok \in [Screens -> TokenOrNone]
    /\ behind \in [Screens -> BOOLEAN]
WorldType ==
    /\ store \in TokenOrNone
    /\ session \in [Tokens -> {"unused", "live", "ended"}]
    /\ evPending \in TokenOrNone /\ evInvoices \in TokenOrNone

\* Every variable keeps its type: tokens are tokens, a handler waits at one of
\* its awaits with the token that await is about, a session is unused, live or
\* ended.
TypeOK ==
    ScreenType /\ UiType /\ TaskType /\ BootType /\ WorldType

\* The tokens that were stored or are lost: all the backend created, except
\* those whose answer a connect is still to handle.
SettledTokens ==
    {t \in Tokens : session[t] # "unused"} \ {tok[s] : s \in {r \in Screens : pc[r] = "post"}}

Vault == INSTANCE SessionVault WITH held <- store, used <- SettledTokens

\* A token that left the store never returns to it, whatever overlaps:
\* BackendEfaturaRuntimeBridge.save is the only writer, once per session.
StoreIsVault == Vault!Spec

\* The token of a login is nobody else's before the store has accepted it, and
\* never when the store refused it: "no token is retained locally" (save).
Unstored(s) == pc[s] \in {"post", "nowrite", "undo"} /\ tok[s] # NoToken
UnstoredTokenIsPrivate ==
    \A s \in Screens : Unstored(s) =>
        /\ store # tok[s]
        /\ \A r \in Screens : mem[r] # tok[s] /\ (r # s => tok[r] # tok[s])

\* What one screen shows comes from one session, and while it shows it and no
\* handler is in flight the bridge still holds that session's token, so the
\* next request of the screen is about the same taxpayer.
OneSession ==
    \A s \in Screens :
        /\ invoices[s] \in {NoToken, overview[s]}
        /\ overview[s] # NoToken /\ op[s] = "none" => mem[s] = overview[s]

\* Progress is shown only while some request will end it: with nothing in
\* flight no mounted screen is "connecting" (its buttons are disabled then).
NoIdleProgress ==
    \A s \in Screens :
        opened[s] /\ op[s] = "none" /\ init[s] = "none" => status[s] # "connecting"

\* A screen that says it is disconnected is: neither the bridge nor the store
\* holds a token, nothing is shown.
DisconnectedIsClean ==
    \A s \in Screens :
        opened[s] /\ status[s] = "disconnected" =>
            /\ mem[s] = NoToken /\ store = NoToken
            /\ overview[s] = NoToken /\ invoices[s] = NoToken

\* The counts of the companion evidence are of one taxpayer.
EvidenceOfOneTaxpayer ==
    evPending # NoToken /\ evInvoices # NoToken =>
        Owner[evPending] = Owner[evInvoices]

\* Every handler ends and the progress indicator with it.
ProgressEnds ==
    \A s \in Screens :
        /\ op[s] # "none" ~> op[s] = "none"
        /\ status[s] = "connecting" ~> status[s] # "connecting"
=============================================================================
