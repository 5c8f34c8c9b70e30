------------------------- MODULE EfaturaSession_proofs -------------------------
(***************************************************************************)
(* Proofs about EfaturaSession, for any number of screens and sessions.    *)
(***************************************************************************)
EXTENDS EfaturaSession, TLAPS

(* What the helpers of the actions do to the types.                        *)

LEMMA FailureType ==
  ASSUME UiType, NEW s \in Screens, NEW kind, ApplyFailure(s, kind)
  PROVE  UiType'
BY SessionAssumption DEF ApplyFailure, UiType, Statuses, TokenOrNone, ui

LEMMA FinishType ==
  ASSUME TaskType, NEW s \in Screens, Finish(s)
  PROVE  TaskType'
BY DEF Finish, TaskType, NeedsToken, Unanswered, Ops, Awaits, Replies, TokenOrNone

LEMMA BeginType ==
  ASSUME UiType, NEW s \in Screens, NEW handler, Begin(s, handler)
  PROVE  UiType'
BY DEF Begin, UiType, Statuses

LEMMA SendGetType ==
  ASSUME TaskType, NEW s \in Screens, NEW t \in Tokens, SendGet(s, t),
         NEW handler \in Ops,
         op' = [op EXCEPT ![s] = handler] \/ (op[s] = handler /\ UNCHANGED op),
         UNCHANGED carried
  PROVE  TaskType'
BY SessionAssumption
   DEF SendGet, TaskType, NeedsToken, Unanswered, Ops, Awaits, Replies, TokenOrNone

LEMMA ReadTokenType ==
  ASSUME TaskType, WorldType, NEW s \in Screens, ReadToken(s),
         NEW handler \in Ops,
         op' = [op EXCEPT ![s] = handler], UNCHANGED carried
  PROVE  TaskType'
BY DEF ReadToken, Outcomes, TaskType, WorldType, NeedsToken, Unanswered, Ops,
       Awaits, StoreCalls, Replies, TokenOrNone

LEMMA ReadForInitType ==
  ASSUME BootType, WorldType, NEW s \in Screens, ReadForInit(s)
  PROVE  BootType'
BY DEF ReadForInit, Outcomes, BootType, WorldType

LEMMA ReadyType ==
  ASSUME UiType, TaskType, NEW s \in Screens, NEW t \in Tokens, Ready(s, t)
  PROVE  /\ UiType' /\ TaskType'
         /\ init' = [init EXCEPT ![s] = "none"]
<1>1. UiType'
  BY DEF Ready, UiType, Statuses
<1>2. TaskType'
  <2>1. CASE op[s] # "none"
    BY <2>1 DEF Ready, TaskType, NeedsToken, Unanswered
  <2>2. CASE op[s] = "none"
    BY <2>2, SessionAssumption
       DEF Ready, TaskType, NeedsToken, Unanswered, Ops, Awaits, Replies, TokenOrNone
  <2> QED BY <2>1, <2>2
<1> QED BY <1>1, <1>2 DEF Ready

LEMMA AnsweredType ==
  ASSUME BootType, NEW s \in Screens, Answered(s), UNCHANGED <<init, itok>>
  PROVE  BootType'
BY DEF Answered, BootType

LEMMA DeleteType ==
  ASSUME TaskType, WorldType, NEW s \in Screens,
         NEW good \in {"delete", "forget"}, NEW bad \in {"nodelete", "noforget"},
         Delete(s, good, bad)
  PROVE  /\ pc' \in [Screens -> Awaits]
         /\ store' \in TokenOrNone
         /\ \A r \in Screens : r # s => pc'[r] = pc[r]
         /\ pc'[s] \in {"delete", "forget", "nodelete", "noforget"}
BY DEF Delete, Outcomes, TaskType, WorldType, Awaits, StoreCalls, TokenOrNone

LEMMA ResultType ==
  ASSUME UiType, TaskType, NEW s \in Screens, ShowResult(s)
  PROVE  UiType'
BY ZenonT(20) DEF ShowResult, UiType, TaskType, Statuses, TokenOrNone, ui

LEMMA DisconnectedType ==
  ASSUME UiType, NEW s \in Screens, ShowDisconnected(s)
  PROVE  UiType'
BY DEF ShowDisconnected, UiType, Statuses, TokenOrNone, ui

LEMMA RevokeType ==
  ASSUME WorldType, NEW t, MayRevoke(t)
  PROVE  session' \in [Tokens -> {"unused", "live", "ended"}]
BY DEF MayRevoke, WorldType

(* Type correctness, one step per action.                                  *)

LEMMA TypeStep == TypeOK /\ [Next]_vars => TypeOK'
<1> SUFFICES ASSUME TypeOK, [Next]_vars PROVE TypeOK'
  OBVIOUS
<1> USE DEF TypeOK
<1>a. /\ UNCHANGED <<opened, dialog, mem>> => ScreenType'
      /\ UNCHANGED ui => UiType'
      /\ UNCHANGED task => TaskType'
      /\ UNCHANGED boot => BootType'
      /\ UNCHANGED <<store, session, evidence>> => WorldType'
  BY DEF ScreenType, UiType, TaskType, NeedsToken, Unanswered, BootType, WorldType,
         ui, task, boot, evidence
<1>1. ASSUME NEW s \in Screens, UserStep(s) PROVE TypeOK'
  <2>1. CASE Open(s)
    BY <2>1, <1>a, ReadForInitType DEF Open, ScreenType, TokenOrNone
  <2>2. CASE Close(s)
    BY <2>2, <1>a DEF Close, ScreenType, UiType, Statuses, TokenOrNone
  <2>3. CASE Initialize(s)
    <3>1. CASE mem[s] # NoToken
      <4>1. mem[s] \in Tokens
        BY <3>1 DEF ScreenType, TokenOrNone
      <4>2. Ready(s, mem[s]) /\ UNCHANGED <<itok, behind>>
        BY <2>3, <3>1 DEF Initialize
      <4>3. UiType' /\ TaskType' /\ BootType'
        BY <4>1, <4>2, ReadyType DEF BootType
      <4> QED BY <2>3, <4>3, <1>a DEF Initialize
    <3>2. CASE mem[s] = NoToken
      BY <2>3, <3>2, <1>a, ReadForInitType DEF Initialize
    <3> QED BY <3>1, <3>2
  <2>4. CASE StartConnect(s)
    <3>1. TaskType'
      BY <2>4 DEF StartConnect, Idle, Begin, TaskType, NeedsToken, Unanswered, Ops, Awaits, Replies
    <3> QED BY <2>4, <3>1, <1>a, BeginType DEF StartConnect
  <2>5. CASE StartRefresh(s) \/ StartInvoices(s)
    <3>1. PICK handler \in Ops :
             /\ Begin(s, handler)
             /\ \/ mem[s] # NoToken /\ SendGet(s, mem[s])
                \/ mem[s] = NoToken /\ ReadToken(s)
             /\ UNCHANGED <<opened, dialog, mem, boot, store, session, evidence>>
      BY <2>5 DEF StartRefresh, StartInvoices, Ops
    <3>2. op' = [op EXCEPT ![s] = handler] /\ UNCHANGED carried
      BY <3>1 DEF Begin
    <3>3. CASE mem[s] # NoToken
      <4>1. mem[s] \in Tokens
        BY <3>3 DEF ScreenType, TokenOrNone
      <4>2. TaskType'
        BY <3>1, <3>2, <3>3, <4>1, SendGetType
      <4> QED BY <3>1, <4>2, <1>a, BeginType
    <3>4. CASE mem[s] = NoToken
      <4>1. TaskType'
        BY <3>1, <3>2, <3>4, ReadTokenType
      <4> QED BY <3>1, <4>1, <1>a, BeginType
    <3> QED BY <3>3, <3>4
  <2>6. CASE RejectSector(s)
    BY <2>6, <1>a, FailureType DEF RejectSector
  <2>7. CASE AskDisconnect(s)
    BY <2>7, <1>a DEF AskDisconnect, ScreenType
  <2>8. CASE CancelDisconnect(s)
    BY <2>8, <1>a DEF CancelDisconnect, ScreenType
  <2>9. CASE StartDisconnect(s)
    <3>1. CASE mem[s] # NoToken
      <4>1. /\ ForgetAndDelete(s)
            /\ tok' = [tok EXCEPT ![s] = mem[s]]
            /\ op' = [op EXCEPT ![s] = "disconnect"]
            /\ dialog' = [dialog EXCEPT ![s] = FALSE]
            /\ UNCHANGED <<opened, reply, carried, ui, boot, session, evidence>>
        BY <2>9, <3>1 DEF StartDisconnect
      <4>2. TaskType' /\ store' \in TokenOrNone
        BY <4>1, DeleteType
           DEF ForgetAndDelete, TaskType, NeedsToken, Unanswered, ScreenType, Ops
      <4>3. ScreenType'
        BY <4>1 DEF ForgetAndDelete, ScreenType, TokenOrNone
      <4> QED BY <4>1, <4>2, <4>3, <1>a DEF WorldType, evidence
    <3>2. CASE mem[s] = NoToken
      <4>1. TaskType'
        BY <2>9, <3>2, ReadTokenType DEF StartDisconnect, Ops
      <4>2. ScreenType'
        BY <2>9, <3>2 DEF StartDisconnect, ScreenType
      <4> QED BY <2>9, <3>2, <4>1, <4>2, <1>a DEF StartDisconnect
    <3> QED BY <3>1, <3>2
  <2> QED BY <1>1, <2>1, <2>2, <2>3, <2>4, <2>5, <2>6, <2>7, <2>8, <2>9 DEF UserStep
<1>2. ASSUME NEW s \in Screens, InitStep(s) PROVE TypeOK'
  <2>1. CASE InitRead(s)
    <3>1. ScreenType'
      BY <2>1 DEF InitRead, ScreenType, BootType
    <3>2. itok' \in [Screens -> TokenOrNone] /\ behind' \in [Screens -> BOOLEAN]
      BY <2>1 DEF InitRead, Answered, BootType, TokenOrNone
    <3>3. CASE ~opened[s]
      BY <2>1, <3>1, <3>2, <3>3, <1>a DEF InitRead, BootType
    <3>4. CASE opened[s] /\ itok[s] # NoToken
      <4>1. itok[s] \in Tokens /\ Ready(s, itok[s])
        BY <2>1, <3>4 DEF InitRead, BootType, TokenOrNone
      <4> QED BY <2>1, <3>1, <3>2, <4>1, <1>a, ReadyType DEF InitRead, BootType
    <3>5. CASE opened[s] /\ itok[s] = NoToken
      <4>1. NotReady(s)
        BY <2>1, <3>5 DEF InitRead
      <4>2. UiType' /\ BootType'
        BY <3>2, <4>1 DEF NotReady, UiType, Statuses, BootType
      <4> QED BY <2>1, <3>1, <4>1, <4>2, <1>a DEF InitRead, NotReady
    <3> QED BY <3>3, <3>4, <3>5
  <2>2. CASE InitReadThrows(s)
    BY <2>2, <1>a DEF InitReadThrows, Answered, BootType, TokenOrNone
  <2>3. CASE InitProbe(s)
    BY <2>3, <1>a, FailureType DEF InitProbe, BootType
  <2> QED BY <1>2, <2>1, <2>2, <2>3 DEF InitStep
<1>3. ASSUME NEW s \in Screens, HandlerStep(s) PROVE TypeOK'
  <2>1. CASE ServePost(s)
    <3>1. TaskType' /\ session' \in [Tokens -> {"unused", "live", "ended"}]
      BY <2>1, SessionAssumption
         DEF ServePost, TaskType, NeedsToken, Unanswered, Replies, TokenOrNone, WorldType
    <3> QED BY <2>1, <3>1, <1>a DEF ServePost, WorldType, evidence
  <2>2. CASE PostOk(s)
    <3>1. TaskType' /\ store' \in TokenOrNone
      BY <2>2 DEF PostOk, Outcomes, TaskType, NeedsToken, Unanswered, Awaits, StoreCalls,
                  Replies, TokenOrNone, WorldType
    <3> QED BY <2>2, <3>1, <1>a DEF PostOk, WorldType, evidence
  <2>3. CASE PostRefused(s)
    BY <2>3, <1>a, FailureType, FinishType DEF PostRefused, Fail
  <2>4. CASE RequestFails(s)
    BY <2>4, <1>a, FailureType, FinishType DEF RequestFails, Fail, Escape
  <2>5. CASE Written(s)
    <3>1. TaskType' /\ ScreenType'
      BY <2>5 DEF Written, TaskType, NeedsToken, Unanswered, Awaits, ScreenType
    <3> QED BY <2>5, <3>1, <1>a, AnsweredType DEF Written
  <2>6. CASE WriteThrows(s)
    <3>1. TaskType'
      BY <2>6 DEF WriteThrows, TaskType, NeedsToken, Unanswered, Awaits
    <3> QED BY <2>6, <3>1, <1>a, AnsweredType DEF WriteThrows
  <2>7. CASE Undone(s)
    BY <2>7, <1>a, FailureType, FinishType, RevokeType
       DEF Undone, Fail, WorldType, evidence
  <2>8. CASE TokenRead(s)
    <3>1. BootType'
      BY <2>8, AnsweredType DEF TokenRead
    <3>2. CASE op[s] = "disconnect"
      <4>1. /\ ForgetAndDelete(s)
            /\ UNCHANGED <<opened, dialog, ui, op, tok, reply, carried, session, evidence>>
        BY <2>8, <3>2 DEF TokenRead
      <4>2. TaskType' /\ store' \in TokenOrNone
        BY <3>2, <4>1, DeleteType DEF ForgetAndDelete, TaskType, NeedsToken, Unanswered
      <4>3. ScreenType'
        BY <4>1 DEF ForgetAndDelete, ScreenType, TokenOrNone
      <4> QED BY <3>1, <4>1, <4>2, <4>3, <1>a DEF WorldType, evidence
    <3>3. CASE op[s] # "disconnect" /\ tok[s] # NoToken
      <4>1. /\ mem' = [mem EXCEPT ![s] = tok[s]]
            /\ SendGet(s, tok[s])
            /\ UNCHANGED <<opened, dialog, ui, op, carried, store, session, evidence>>
        BY <2>8, <3>3 DEF TokenRead
      <4>2. tok[s] \in Tokens /\ op[s] \in Ops
        BY <2>8, <3>3 DEF TokenRead, TaskType, TokenOrNone
      <4>3. TaskType'
        BY <4>1, <4>2, SendGetType DEF Ops
      <4>4. ScreenType'
        BY <4>1, <4>2 DEF ScreenType, TokenOrNone
      <4> QED BY <3>1, <4>1, <4>3, <4>4, <1>a
    <3>4. CASE op[s] # "disconnect" /\ tok[s] = NoToken
      <4>1. /\ mem' = [mem EXCEPT ![s] = NoToken]
            /\ Fail(s, "notConfigured")
            /\ UNCHANGED <<opened, dialog, store, session, evidence>>
        BY <2>8, <3>4 DEF TokenRead
      <4>2. ScreenType'
        BY <4>1 DEF ScreenType, TokenOrNone
      <4> QED BY <3>1, <4>1, <4>2, <1>a, FailureType, FinishType DEF Fail
    <3> QED BY <3>2, <3>3, <3>4
  <2>9. CASE ServeGet(s)
    <3>1. TaskType'
      BY <2>9 DEF ServeGet, TaskType, NeedsToken, Unanswered, Replies
    <3> QED BY <2>9, <3>1, <1>a DEF ServeGet
  <2>10. CASE GetOk(s)
    <3>1. TaskType'
      BY <2>10 DEF GetOk, TaskType, NeedsToken, Unanswered, Awaits, Replies
    <3> QED BY <2>10, <3>1, <1>a DEF GetOk
  <2>11. CASE GetDenied(s)
    BY <2>11, <1>a, FailureType, FinishType DEF GetDenied, Fail
  <2>12. CASE GetRejected(s)
    <3>1. TaskType' /\ store' \in TokenOrNone
      BY <2>12, DeleteType DEF GetRejected, TaskType, NeedsToken, Unanswered
    <3>2. ScreenType'
      BY <2>12 DEF GetRejected, ScreenType, TokenOrNone
    <3> QED BY <2>12, <3>1, <3>2, <1>a DEF GetRejected, WorldType, evidence
  <2>13. CASE Forgotten(s)
    BY <2>13, <1>a, FailureType, FinishType, AnsweredType DEF Forgotten, Fail
  <2>14. CASE StoreThrows(s)
    BY <2>14, <1>a, FailureType, FinishType, AnsweredType DEF StoreThrows, Escape
  <2>15. CASE EvidenceLoaded(s)
    <3>1. TaskType'
      BY <2>15 DEF EvidenceLoaded, TaskType, NeedsToken, Unanswered, Awaits, WorldType
    <3> QED BY <2>15, <3>1, <1>a DEF EvidenceLoaded
  <2>16. CASE EvidenceSaved(s)
    <3>1. evPending' \in TokenOrNone /\ evInvoices' \in TokenOrNone
      BY <2>16 DEF EvidenceSaved, TaskType
    <3> QED BY <2>16, <3>1, <1>a, ResultType, FinishType DEF EvidenceSaved, WorldType
  <2>17. CASE EvidenceThrows(s)
    BY <2>17, <1>a, ResultType, FinishType DEF EvidenceThrows
  <2>18. CASE Deleted(s)
    <3>1. TaskType'
      BY <2>18 DEF Deleted, TaskType, NeedsToken, Unanswered, Awaits
    <3> QED BY <2>18, <3>1, <1>a, AnsweredType DEF Deleted
  <2>19. CASE Revoked(s)
    <3>1. TaskType'
      BY <2>19 DEF Revoked, TaskType, NeedsToken, Unanswered, Awaits
    <3> QED BY <2>19, <3>1, <1>a, RevokeType DEF Revoked, WorldType, evidence
  <2>20. CASE EvidenceCleared(s)
    <3>1. evPending' \in TokenOrNone /\ evInvoices' \in TokenOrNone
      BY <2>20 DEF EvidenceCleared, WorldType, TokenOrNone, evidence
    <3> QED BY <2>20, <3>1, <1>a, DisconnectedType, FinishType
        DEF EvidenceCleared, WorldType
  <2> QED BY <1>3, <2>1, <2>2, <2>3, <2>4, <2>5, <2>6, <2>7, <2>8, <2>9, <2>10,
             <2>11, <2>12, <2>13, <2>14, <2>15, <2>16, <2>17, <2>18, <2>19, <2>20
          DEF HandlerStep
<1>4. ASSUME NEW t \in Tokens, Expire(t) PROVE TypeOK'
  BY <1>4, <1>a DEF Expire, WorldType, evidence
<1>5. CASE Restart
  BY <1>5, <1>a
     DEF Restart, ScreenType, UiType, TaskType, NeedsToken, Unanswered, BootType, Statuses, Ops,
         Awaits, Replies, TokenOrNone
<1>6. CASE UNCHANGED vars
  BY <1>6, <1>a DEF vars
<1> QED BY <1>1, <1>2, <1>3, <1>4, <1>5, <1>6 DEF Next

\* Every variable keeps its type, for any number of overlapping screens.
THEOREM TypeCorrect == Spec => []TypeOK
<1>1. Init => TypeOK
  BY SessionAssumption
     DEF Init, TypeOK, ScreenType, UiType, TaskType, NeedsToken, Unanswered, BootType, WorldType,
         TokenOrNone, Statuses, Ops, Awaits, StoreCalls, Replies
<1> QED BY <1>1, TypeStep, PTL DEF Spec
-----------------------------------------------------------------------------
(***************************************************************************)
(* Where tokens can be.  All steps but two only move or forget tokens      *)
(* that are there already; a login creates one (ServePost) and hands it to *)
(* the store (PostOk).                                                     *)
(***************************************************************************)
Created == {t \in Tokens : session[t] # "unused"}

TokenInv ==
    /\ store \in Created \cup {NoToken}
    /\ \A s \in Screens : {mem[s], tok[s], itok[s]} \subseteq Created \cup {NoToken}
    /\ \A s \in Screens : Unstored(s) =>
          /\ store # tok[s]
          /\ \A r \in Screens : /\ mem[r] # tok[s] /\ itok[r] # tok[s]
                                /\ r # s => tok[r] # tok[s]

TokensMove ==
    /\ Created' = Created
    /\ \/ store' = store
       \/ /\ store' = NoToken
          /\ \A r \in Screens : pc[r] = "post" => pc'[r] = "post" /\ tok'[r] = tok[r]
    /\ \A r \in Screens :
          /\ \/ mem'[r] \in {mem[r], NoToken, itok[r]}
             \/ ~Unstored(r) /\ mem'[r] = tok[r]
          /\ itok'[r] \in {itok[r], NoToken, store}
          /\ tok'[r] \in {tok[r], NoToken, mem[r], itok[r], store}
          /\ Unstored(r)' => Unstored(r) /\ tok'[r] = tok[r]
          /\ pc'[r] = "post" /\ tok'[r] # NoToken => pc[r] = "post"

LEMMA MovesKeepTokenInv == TokenInv /\ TokensMove => TokenInv'
BY DEF TokenInv, TokensMove, Unstored

LEMMA StepsMove ==
  ASSUME TypeOK, TokenInv, NEW s \in Screens,
         UserStep(s) \/ InitStep(s) \/ HandlerStep(s), ~ServePost(s), ~PostOk(s)
  PROVE  TokensMove
<1> USE DEF TypeOK, ScreenType, TaskType, NeedsToken, Unanswered, BootType, WorldType, TokensMove,
            Created, Unstored, task, boot
<1>1. CASE Open(s)
  BY <1>1 DEF Open, ReadForInit
<1>2. CASE Close(s)
  BY <1>2 DEF Close
<1>3. CASE Initialize(s)
  BY <1>3 DEF Initialize, Ready, NotReady, ReadForInit
<1>4. CASE StartConnect(s)
  BY <1>4 DEF StartConnect, Idle, Begin
<1>5. CASE StartRefresh(s)
  BY <1>5 DEF StartRefresh, Begin, SendGet, ReadToken, Outcomes
<1>6. CASE StartInvoices(s)
  BY <1>6 DEF StartInvoices, Begin, SendGet, ReadToken, Outcomes
<1>7. CASE RejectSector(s)
  BY <1>7 DEF RejectSector
<1>8. CASE AskDisconnect(s)
  BY <1>8 DEF AskDisconnect
<1>9. CASE CancelDisconnect(s)
  BY <1>9 DEF CancelDisconnect
<1>10. CASE StartDisconnect(s)
  BY <1>10 DEF StartDisconnect, ForgetAndDelete, Delete, ReadToken, Outcomes
<1>11. CASE InitRead(s)
  BY <1>11 DEF InitRead, Ready, NotReady, ReadForInit
<1>12. CASE InitReadThrows(s)
  BY <1>12 DEF InitReadThrows
<1>13. CASE InitProbe(s)
  BY <1>13 DEF InitProbe
<1>14. CASE PostRefused(s)
  BY <1>14 DEF PostRefused, Fail, Finish
<1>15. CASE RequestFails(s)
  BY <1>15 DEF RequestFails, Fail, Escape, Finish
<1>16. CASE Written(s)
  BY <1>16 DEF Written
<1>17. CASE WriteThrows(s)
  BY <1>17 DEF WriteThrows
<1>18. CASE Undone(s)
  BY <1>18 DEF Undone, MayRevoke, Fail, Finish, TokenInv
<1>19. CASE TokenRead(s)
  BY <1>19 DEF TokenRead, ForgetAndDelete, Delete, Outcomes, SendGet, Fail, Finish
<1>20. CASE ServeGet(s)
  BY <1>20 DEF ServeGet
<1>21. CASE GetOk(s)
  BY <1>21 DEF GetOk
<1>22. CASE GetDenied(s)
  BY <1>22 DEF GetDenied, Fail, Finish
<1>23. CASE GetRejected(s)
  BY <1>23 DEF GetRejected, Delete, Outcomes
<1>24. CASE Forgotten(s)
  BY <1>24 DEF Forgotten, Fail, Finish
<1>25. CASE StoreThrows(s)
  BY <1>25 DEF StoreThrows, Escape, Finish
<1>26. CASE EvidenceLoaded(s)
  BY <1>26 DEF EvidenceLoaded
<1>27. CASE EvidenceSaved(s)
  BY <1>27 DEF EvidenceSaved, Finish
<1>28. CASE EvidenceThrows(s)
  BY <1>28 DEF EvidenceThrows, Finish
<1>29. CASE Deleted(s)
  BY <1>29 DEF Deleted
<1>30. CASE Revoked(s)
  BY <1>30 DEF Revoked, MayRevoke, TokenInv
<1>31. CASE EvidenceCleared(s)
  BY <1>31 DEF EvidenceCleared, Finish
<1> QED BY <1>1, <1>2, <1>3, <1>4, <1>5, <1>6, <1>7, <1>8, <1>9, <1>10, <1>11, <1>12, <1>13, <1>14, <1>15, <1>16, <1>17, <1>18, <1>19, <1>20, <1>21, <1>22, <1>23, <1>24, <1>25, <1>26, <1>27, <1>28, <1>29, <1>30, <1>31 DEF UserStep, InitStep, HandlerStep

LEMMA TokenStep == TypeOK /\ TokenInv /\ [Next]_vars => TokenInv'
<1> SUFFICES ASSUME TypeOK, TokenInv, [Next]_vars PROVE TokenInv'
  OBVIOUS
<1>1. ASSUME NEW s \in Screens, ServePost(s) PROVE TokenInv'
  <2>1. CASE UNCHANGED <<session, tok>>
    BY <1>1, <2>1 DEF ServePost, TokenInv, Created, Unstored, boot
  <2>2. CASE ~UNCHANGED <<session, tok>>
    <3>1. PICK t \in Tokens :
             /\ session[t] = "unused"
             /\ session' = [session EXCEPT ![t] = "live"]
             /\ tok' = [tok EXCEPT ![s] = t]
      BY <1>1, <2>2 DEF ServePost
    <3>2. Created' = Created \cup {t} /\ t \notin Created \cup {NoToken}
      BY <3>1, SessionAssumption DEF Created, TypeOK, WorldType
    <3>3. tok'[s] = t /\ \A r \in Screens : r # s => tok'[r] = tok[r]
      BY <3>1 DEF TypeOK, TaskType
    <3>4. UNCHANGED <<store, mem, pc, itok>>
      BY <1>1 DEF ServePost, boot
    <3> QED BY <3>2, <3>3, <3>4 DEF TokenInv, Unstored
  <2> QED BY <2>1, <2>2
<1>2. ASSUME NEW s \in Screens, PostOk(s) PROVE TokenInv'
  <2>1. tok[s] # NoToken /\ Unstored(s)
    BY <1>2 DEF PostOk, TypeOK, TaskType, NeedsToken, Unanswered, Unstored
  <2>2. /\ UNCHANGED <<mem, tok, itok, session>>
        /\ pc'[s] \in {"write", "nowrite"}
        /\ \A r \in Screens : r # s => pc'[r] = pc[r]
        /\ store' = store \/ (store' = tok[s] /\ pc'[s] = "write")
    BY <1>2 DEF PostOk, Outcomes, TypeOK, TaskType, boot
  <2> QED BY <2>1, <2>2 DEF TokenInv, Unstored, Created
<1>3. ASSUME NEW s \in Screens, UserStep(s) \/ InitStep(s) \/ HandlerStep(s)
      PROVE  TokenInv'
  BY <1>1, <1>2, <1>3, StepsMove, MovesKeepTokenInv
<1>4. ASSUME NEW t \in Tokens, Expire(t) PROVE TokenInv'
  BY <1>4 DEF Expire, TokenInv, Created, Unstored, TypeOK, WorldType, task, boot
<1>5. CASE Restart
  BY <1>5 DEF Restart, TokenInv, Created, Unstored
<1>6. CASE UNCHANGED vars
  BY <1>6 DEF vars, task, boot, TokenInv, Created, Unstored
<1> QED BY <1>3, <1>4, <1>5, <1>6 DEF Next

THEOREM TokensSafe == Spec => [](TypeOK /\ TokenInv)
<1>1. Init => TokenInv
  BY DEF Init, TokenInv, Unstored
<1>2. Spec => []TypeOK
  BY TypeCorrect
<1> QED BY <1>1, <1>2, TokenStep, PTL DEF Spec

\* A token whose storing has not succeeded is known to the login that received
\* it and to nothing else, however many logins, screens and bridges overlap.
THEOREM UnstoredTokensArePrivate == Spec => []UnstoredTokenIsPrivate
<1>1. TokenInv => UnstoredTokenIsPrivate
  BY DEF TokenInv, UnstoredTokenIsPrivate
<1> QED BY <1>1, TokensSafe, PTL
-----------------------------------------------------------------------------
(* The token store is a SessionVault.                                      *)

LEMMA MovesRefine ==
  ASSUME TokenInv, TokensMove
  PROVE  Vault!Next \/ UNCHANGED Vault!vars
<1>1. CASE store' = store
  <2>1. SettledTokens \subseteq SettledTokens'
    BY SessionAssumption DEF SettledTokens, TokensMove, Created, Unstored
  <2>2. Vault!Waste(SettledTokens' \ SettledTokens)
    BY <1>1, <2>1 DEF Vault!Waste
  <2>3. SettledTokens' \ SettledTokens \in SUBSET Tokens
    BY DEF SettledTokens
  <2> QED BY <2>2, <2>3 DEF Vault!Next
<1>2. CASE store' # store
  <2>1. /\ store' = NoToken
        /\ \A r \in Screens : pc[r] = "post" => pc'[r] = "post" /\ tok'[r] = tok[r]
    BY <1>2 DEF TokensMove
  <2>2. SettledTokens' = SettledTokens
    BY <2>1, SessionAssumption DEF SettledTokens, TokensMove, Created, Unstored
  <2> QED BY <2>1, <2>2 DEF Vault!Next, Vault!Drop
<1> QED BY <1>1, <1>2

LEMMA RefinementStep ==
  TypeOK /\ TokenInv /\ [Next]_vars => Vault!Next \/ UNCHANGED Vault!vars
<1> SUFFICES ASSUME TypeOK, TokenInv, [Next]_vars
             PROVE  Vault!Next \/ UNCHANGED Vault!vars
  OBVIOUS
<1>1. ASSUME NEW s \in Screens, ServePost(s) PROVE UNCHANGED Vault!vars
  <2>1. pc[s] = "post" /\ UNCHANGED <<store, pc>>
    BY <1>1 DEF ServePost, Unanswered
  <2>2. CASE UNCHANGED <<session, tok>>
    BY <2>1, <2>2 DEF SettledTokens, Vault!vars
  <2>3. CASE ~UNCHANGED <<session, tok>>
    <3>1. PICK t \in Tokens :
             /\ session[t] = "unused"
             /\ session' = [session EXCEPT ![t] = "live"]
             /\ tok' = [tok EXCEPT ![s] = t]
      BY <1>1, <2>3 DEF ServePost
    <3>2. tok[s] = NoToken
      BY <1>1 DEF ServePost, TypeOK, TaskType
    <3>3. /\ Created' = Created \cup {t} /\ t \notin Created
          /\ tok'[s] = t /\ \A r \in Screens : r # s => tok'[r] = tok[r]
      BY <3>1, SessionAssumption DEF Created, TypeOK, WorldType, TaskType
    <3>4. SettledTokens' = SettledTokens
      BY <2>1, <3>2, <3>3, SessionAssumption DEF SettledTokens, Created
    <3> QED BY <2>1, <3>4 DEF Vault!vars
  <2> QED BY <2>2, <2>3
<1>2. ASSUME NEW s \in Screens, PostOk(s)
      PROVE  Vault!Next \/ UNCHANGED Vault!vars
  <2>1. CASE TokensMove
    BY <2>1, MovesRefine
  <2>2. CASE store' = tok[s] /\ pc'[s] = "write"
    <3>1. pc[s] = "post" /\ Unstored(s) /\ tok[s] \in Created
      BY <1>2 DEF PostOk, TypeOK, TaskType, NeedsToken, Unstored, TokenInv
    <3>2. /\ UNCHANGED <<tok, session>>
          /\ \A r \in Screens : r # s => pc'[r] = pc[r]
      BY <1>2 DEF PostOk, TypeOK, TaskType
    <3>3. tok[s] \notin SettledTokens
      BY <3>1 DEF SettledTokens
    <3>4. \A r \in Screens : r # s => tok[r] # tok[s]
      BY <3>1 DEF TokenInv
    <3>5. SettledTokens' = SettledTokens \cup {tok[s]}
      BY <2>2, <3>1, <3>2, <3>4 DEF SettledTokens, Created
    <3>6. Vault!Keep(tok[s])
      BY <2>2, <3>3, <3>5 DEF Vault!Keep
    <3> QED BY <3>1, <3>6 DEF Vault!Next, Created
  <2>3. TokensMove \/ (store' = tok[s] /\ pc'[s] = "write")
    BY <1>2 DEF PostOk, Outcomes, TypeOK, TaskType, NeedsToken, TokensMove, Created,
                Unstored, boot
  <2> QED BY <2>1, <2>2, <2>3
<1>3. ASSUME NEW s \in Screens, UserStep(s) \/ InitStep(s) \/ HandlerStep(s)
      PROVE  Vault!Next \/ UNCHANGED Vault!vars
  BY <1>1, <1>2, <1>3, StepsMove, MovesRefine
<1>4. ASSUME NEW t \in Tokens, Expire(t) PROVE UNCHANGED Vault!vars
  BY <1>4 DEF Expire, SettledTokens, Vault!vars, TypeOK, WorldType, task
<1>5. CASE Restart
  <2>1. TokensMove
    BY <1>5 DEF Restart, TokensMove, Created, Unstored
  <2> QED BY <2>1, MovesRefine
<1>6. CASE UNCHANGED vars
  BY <1>6 DEF vars, task, SettledTokens, Vault!vars
<1> QED BY <1>3, <1>4, <1>5, <1>6 DEF Next

\* The store used by any number of screens and bridges at once is a vault: a
\* token that left it never comes back.
THEOREM StoreIsAVault == Spec => StoreIsVault
<1>1. Init => Vault!Init
  BY DEF Init, Vault!Init, SettledTokens
<1>2. TypeOK /\ TokenInv /\ [Next]_vars => [Vault!Next]_(Vault!vars)
  BY RefinementStep
<1> QED BY <1>1, <1>2, TokensSafe, PTL DEF Spec, StoreIsVault, Vault!Spec
-----------------------------------------------------------------------------
(***************************************************************************)
(* Progress.  Every end of a handler replaces the progress it showed, on   *)
(* whichever screen, unless an exception gets past the screen's clauses:   *)
(* that of a read or a deletion of the token, or of the HTTP client.       *)
(***************************************************************************)
NothingEscapes == Faults \cap {"read", "delete", "http"} = {}

ProgressInv ==
    \A s \in Screens :
        /\ pc[s] \notin {"noread", "noforget", "nodelete"}
        /\ op[s] = "none" => pc[s] = "idle"
        /\ ~opened[s] \/ op[s] = "none" => status[s] # "connecting"

LEMMA ProgressStep ==
  ASSUME NothingEscapes, TypeOK, ProgressInv, NEW s \in Screens,
         UserStep(s) \/ InitStep(s) \/ HandlerStep(s)
  PROVE  ProgressInv'
<1> USE DEF NothingEscapes, ProgressInv, TypeOK, ScreenType, UiType, TaskType, NeedsToken,
            BootType, StoreCalls, ui, task, boot
<1>1. CASE Open(s)
  BY <1>1 DEF Open, ReadForInit, Outcomes
<1>2. CASE Close(s)
  BY <1>2 DEF Close
<1>3. CASE Initialize(s)
  BY <1>3 DEF Initialize, Ready, ReadForInit, Outcomes
<1>4. CASE StartConnect(s)
  BY <1>4 DEF StartConnect, Idle, Begin
<1>5. CASE StartRefresh(s)
  BY <1>5 DEF StartRefresh, Idle, Begin, SendGet, ReadToken, Outcomes
<1>6. CASE StartInvoices(s)
  BY <1>6 DEF StartInvoices, Idle, Begin, SendGet, ReadToken, Outcomes
<1>7. CASE RejectSector(s)
  BY <1>7 DEF RejectSector, ApplyFailure
<1>8. CASE AskDisconnect(s)
  BY <1>8 DEF AskDisconnect
<1>9. CASE CancelDisconnect(s)
  BY <1>9 DEF CancelDisconnect
<1>10. CASE StartDisconnect(s)
  BY <1>10 DEF StartDisconnect, ForgetAndDelete, Delete, ReadToken, Outcomes
<1>11. CASE InitRead(s)
  BY <1>11 DEF InitRead, Answered, Ready, NotReady
<1>12. CASE InitReadThrows(s)
  BY <1>12 DEF InitReadThrows
<1>13. CASE InitProbe(s)
  BY <1>13 DEF InitProbe, ApplyFailure
<1>14. CASE ServePost(s)
  BY <1>14 DEF ServePost, Unanswered
<1>15. CASE PostOk(s)
  BY <1>15 DEF PostOk, Outcomes
<1>16. CASE PostRefused(s)
  BY <1>16 DEF PostRefused, Fail, ApplyFailure, Finish
<1>17. CASE RequestFails(s)
  BY <1>17 DEF RequestFails, Fail, Escape, ApplyFailure, Finish
<1>18. CASE Written(s)
  BY <1>18 DEF Written, Answered
<1>19. CASE WriteThrows(s)
  BY <1>19 DEF WriteThrows, Answered
<1>20. CASE Undone(s)
  BY <1>20 DEF Undone, MayRevoke, Fail, ApplyFailure, Finish
<1>21. CASE TokenRead(s)
  BY <1>21 DEF TokenRead, Answered, ForgetAndDelete, Delete, Outcomes, SendGet, Fail, ApplyFailure, Finish
<1>22. CASE ServeGet(s)
  BY <1>22 DEF ServeGet, Unanswered
<1>23. CASE GetOk(s)
  BY <1>23 DEF GetOk
<1>24. CASE GetDenied(s)
  BY <1>24 DEF GetDenied, Fail, ApplyFailure, Finish
<1>25. CASE GetRejected(s)
  BY <1>25 DEF GetRejected, Delete, Outcomes
<1>26. CASE Forgotten(s)
  BY <1>26 DEF Forgotten, Answered, Fail, ApplyFailure, Finish
<1>27. CASE StoreThrows(s)
  BY <1>27 DEF StoreThrows
<1>28. CASE EvidenceLoaded(s)
  BY <1>28 DEF EvidenceLoaded
<1>29. CASE EvidenceSaved(s)
  BY <1>29 DEF EvidenceSaved, ShowResult, Finish
<1>30. CASE EvidenceThrows(s)
  BY <1>30 DEF EvidenceThrows, ShowResult, Finish
<1>31. CASE Deleted(s)
  BY <1>31 DEF Deleted, Answered
<1>32. CASE Revoked(s)
  BY <1>32 DEF Revoked
<1>33. CASE EvidenceCleared(s)
  BY <1>33 DEF EvidenceCleared, ShowDisconnected, Finish
<1> QED BY <1>1, <1>2, <1>3, <1>4, <1>5, <1>6, <1>7, <1>8, <1>9, <1>10, <1>11, <1>12, <1>13,
           <1>14, <1>15, <1>16, <1>17, <1>18, <1>19, <1>20, <1>21, <1>22, <1>23, <1>24, <1>25,
           <1>26, <1>27, <1>28, <1>29, <1>30, <1>31, <1>32, <1>33
        DEF UserStep, InitStep, HandlerStep

\* A screen that shows progress with no request of its own under way would show it
\* for ever: none does, however many overlap.
THEOREM ProgressIsReal == NothingEscapes => (Spec => []NoIdleProgress)
<1> SUFFICES ASSUME NothingEscapes PROVE Spec => []NoIdleProgress
  OBVIOUS
<1>1. Init => ProgressInv
  BY DEF Init, ProgressInv
<1>2. TypeOK /\ ProgressInv /\ [Next]_vars => ProgressInv'
  <2> SUFFICES ASSUME TypeOK, ProgressInv, [Next]_vars PROVE ProgressInv'
    OBVIOUS
  <2>1. ASSUME NEW s \in Screens, UserStep(s) \/ InitStep(s) \/ HandlerStep(s)
        PROVE  ProgressInv'
    BY <2>1, ProgressStep
  <2>2. CASE Restart \/ \E t \in Tokens : Expire(t)
    BY <2>2 DEF Restart, Expire, ProgressInv, ui, task
  <2>3. CASE UNCHANGED vars
    BY <2>3 DEF vars, ProgressInv, ui, task
  <2> QED BY <2>1, <2>2, <2>3 DEF Next
<1>3. ProgressInv => NoIdleProgress
  BY DEF ProgressInv, NoIdleProgress
<1> QED BY <1>1, <1>2, <1>3, TypeCorrect, PTL DEF Spec
-----------------------------------------------------------------------------
(***************************************************************************)
(* One screen at a time, and a store that may refuse to keep a token but   *)
(* serves every other call and answers before the user's next step.        *)
(***************************************************************************)
OneScreen == \A r, s \in Screens : r = s
StoreServes == Faults \cap {"read", "delete", "slow"} = {}

\* Each handler has its own awaits.
Course(s) ==
    /\ op[s] = "none" => pc[s] = "idle"
    /\ op[s] = "connect" => pc[s] \in {"post", "write", "nowrite", "undo", "load", "save"}
    /\ op[s] \in {"refresh", "invoices"} => pc[s] \in {"get", "forget", "load", "save"}
    /\ op[s] = "disconnect" => pc[s] \in {"read", "delete", "revoke", "clear"}
    /\ pc[s] = "forget" => reply[s] = "rejected"
    /\ pc[s] = "write" => tok[s] = store

\* A start-up read is asked for with no other call to the store under way, of
\* a bridge that has no token.
Reading(s) ==
    /\ init[s] # "noread"
    /\ init[s] = "read" =>
          /\ ~behind[s] /\ mem[s] = NoToken
          /\ pc[s] \in {"idle", "post", "write", "nowrite", "undo", "revoke", "clear"}
          /\ pc[s] # "write" => itok[s] = store

\* The bridge knows what the store holds, but for a write or a read under way.
Known(s) ==
    /\ opened[s] \/ op[s] # "none" \/ init[s] # "none" =>
          pc[s] = "write" \/ init[s] = "read" \/ mem[s] = store
    /\ pc[s] \in {"get", "load", "save"} => mem[s] = tok[s] /\ tok[s] # NoToken
    /\ op[s] = "disconnect" => pc[s] = "read" \/ (mem[s] = NoToken /\ store = NoToken)
    /\ pc[s] = "read" => tok[s] = NoToken /\ store = NoToken

\* What is shown is of the bridge's token, or of one that a handler is about to
\* take off the screen.
Shown(s) ==
    /\ ~opened[s] => ~dialog[s] /\ overview[s] = NoToken /\ status[s] = "notConfigured"
    /\ invoices[s] \in {NoToken, overview[s]}
    /\ overview[s] # NoToken =>
          /\ op[s] # "connect"
          /\ op[s] = "none" \/ pc[s] \in {"get", "load", "save"} => mem[s] = overview[s]
    /\ opened[s] /\ op[s] = "invoices" => overview[s] # NoToken

Gone(s) ==
    status[s] = "disconnected" =>
        /\ op[s] \in {"none", "disconnect"}
        /\ mem[s] = NoToken /\ store = NoToken
        /\ overview[s] = NoToken

Here(s) == Course(s) /\ Reading(s) /\ Known(s) /\ Shown(s) /\ Gone(s)
ScreenInv == \A s \in Screens : Here(s)

LEMMA OneScreenStep ==
  ASSUME OneScreen, StoreServes, TypeOK, ScreenInv, NEW s \in Screens,
         UserStep(s) \/ InitStep(s) \/ HandlerStep(s)
  PROVE  ScreenInv'
<1> SUFFICES Here(s)'
  BY DEF OneScreen, ScreenInv
<1> Here(s)
  BY DEF ScreenInv
<1> /\ pc[s] \in {"post", "write", "nowrite", "undo"} => op[s] = "connect"
    /\ pc[s] \in {"get", "forget"} => op[s] \in {"refresh", "invoices"}
    /\ pc[s] \in {"load", "save"} => op[s] \in {"connect", "refresh", "invoices"}
    /\ pc[s] \in {"read", "delete", "revoke", "clear"} => op[s] = "disconnect"
    /\ pc[s] \notin {"noread", "noforget", "nodelete"}
    /\ op[s] \in {"none", "connect", "refresh", "invoices", "disconnect"}
  BY DEF Here, Course, TypeOK, TaskType, Ops
<1> USE DEF StoreServes, Here, Course, Reading, Known, Shown, Gone, TypeOK, ScreenType, UiType,
            TaskType, NeedsToken, BootType, StoreCalls, ui, task, boot, evidence
<1>1. CASE Open(s)
  BY <1>1 DEF Open, ReadForInit, Outcomes
<1>2. CASE Close(s)
  BY <1>2 DEF Close
<1>3. CASE Initialize(s)
  <2>1. CASE mem[s] # NoToken /\ op[s] # "none"
    BY <1>3, <2>1 DEF Initialize, Ready
  <2>2. CASE mem[s] # NoToken /\ op[s] = "none"
    BY <1>3, <2>2 DEF Initialize, Prompt, Ready
  <2>3. CASE mem[s] = NoToken
    BY <1>3, <2>3 DEF Initialize, Prompt, ReadForInit, Outcomes
  <2> QED BY <2>1, <2>2, <2>3
<1>4. CASE StartConnect(s)
  BY <1>4 DEF StartConnect, Idle, Prompt, Begin
<1>5. CASE StartRefresh(s)
  BY <1>5 DEF StartRefresh, Idle, Prompt, Begin, SendGet, ReadToken, Outcomes
<1>6. CASE StartInvoices(s)
  BY <1>6 DEF StartInvoices, Idle, Prompt, Begin, SendGet, ReadToken, Outcomes
<1>7. CASE RejectSector(s)
  BY <1>7 DEF RejectSector, Idle, ApplyFailure
<1>8. CASE AskDisconnect(s)
  BY <1>8 DEF AskDisconnect
<1>9. CASE CancelDisconnect(s)
  BY <1>9 DEF CancelDisconnect
<1>10. CASE StartDisconnect(s)
  <2>1. CASE mem[s] # NoToken
    BY <1>10, <2>1 DEF StartDisconnect, Prompt, ForgetAndDelete, Delete, Outcomes
  <2>2. CASE mem[s] = NoToken
    BY <1>10, <2>2 DEF StartDisconnect, Prompt, ReadToken, Outcomes
  <2> QED BY <2>1, <2>2
<1>11. CASE InitRead(s)
  <2>1. CASE ~opened[s]
    BY <1>11, <2>1 DEF InitRead, InitTurn, Answered
  <2>2. CASE opened[s] /\ itok[s] # NoToken /\ op[s] # "none"
    BY <1>11, <2>2 DEF InitRead, InitTurn, Answered, Ready
  <2>3. CASE opened[s] /\ itok[s] # NoToken /\ op[s] = "none"
    BY <1>11, <2>3 DEF InitRead, InitTurn, Answered, Ready
  <2>4. CASE opened[s] /\ itok[s] = NoToken
    BY <1>11, <2>4 DEF InitRead, InitTurn, Answered, NotReady
  <2> QED BY <2>1, <2>2, <2>3, <2>4
<1>12. CASE InitReadThrows(s)
  BY <1>12 DEF InitReadThrows
<1>13. CASE InitProbe(s)
  BY <1>13 DEF InitProbe, ApplyFailure
<1>14. CASE ServePost(s)
  BY <1>14 DEF ServePost, Unanswered
<1>15. CASE PostOk(s)
  BY <1>15 DEF PostOk, Outcomes
<1>16. CASE PostRefused(s)
  BY <1>16 DEF PostRefused, Fail, ApplyFailure, Finish
<1>17. CASE RequestFails(s)
  BY <1>17 DEF RequestFails, Fail, Escape, ApplyFailure, Finish
<1>18. CASE Written(s)
  BY <1>18 DEF Written, HandlerTurn, Answered
<1>19. CASE WriteThrows(s)
  BY <1>19 DEF WriteThrows, HandlerTurn, Answered
<1>20. CASE Undone(s)
  BY <1>20 DEF Undone, MayRevoke, Fail, ApplyFailure, Finish
<1>21. CASE TokenRead(s)
  BY <1>21 DEF TokenRead, HandlerTurn, Answered, ForgetAndDelete, Delete, Outcomes
<1>22. CASE ServeGet(s)
  BY <1>22 DEF ServeGet, Unanswered
<1>23. CASE GetOk(s)
  BY <1>23 DEF GetOk
<1>24. CASE GetDenied(s)
  BY <1>24 DEF GetDenied, Fail, ApplyFailure, Finish
<1>25. CASE GetRejected(s)
  BY <1>25 DEF GetRejected, Delete, Outcomes
<1>26. CASE Forgotten(s)
  BY <1>26 DEF Forgotten, HandlerTurn, Answered, Fail, ApplyFailure, Finish
<1>27. CASE StoreThrows(s)
  BY <1>27 DEF StoreThrows
<1>28. CASE EvidenceLoaded(s)
  BY <1>28 DEF EvidenceLoaded
<1>29. CASE EvidenceSaved(s)
  BY <1>29 DEF EvidenceSaved, ShowResult, Finish
<1>30. CASE EvidenceThrows(s)
  BY <1>30 DEF EvidenceThrows, ShowResult, Finish
<1>31. CASE Deleted(s)
  BY <1>31 DEF Deleted, HandlerTurn, Answered
<1>32. CASE Revoked(s)
  BY <1>32 DEF Revoked
<1>33. CASE EvidenceCleared(s)
  BY <1>33 DEF EvidenceCleared, ShowDisconnected, Finish
<1> QED BY <1>1, <1>2, <1>3, <1>4, <1>5, <1>6, <1>7, <1>8, <1>9, <1>10, <1>11, <1>12, <1>13,
           <1>14, <1>15, <1>16, <1>17, <1>18, <1>19, <1>20, <1>21, <1>22, <1>23, <1>24, <1>25,
           <1>26, <1>27, <1>28, <1>29, <1>30, <1>31, <1>32, <1>33
        DEF UserStep, InitStep, HandlerStep

LEMMA OneScreenSafety == OneScreen /\ StoreServes => (Spec => []ScreenInv)
<1> SUFFICES ASSUME OneScreen, StoreServes PROVE Spec => []ScreenInv
  OBVIOUS
<1> USE DEF ScreenInv, Here, Course, Reading, Known, Shown, Gone, ui, task, boot, evidence
<1>1. Init => ScreenInv
  <2> SUFFICES ASSUME Init, NEW s \in Screens PROVE Here(s)
    OBVIOUS
  <2>1. /\ op[s] = "none" /\ pc[s] = "idle" /\ init[s] = "none"
        /\ ~opened[s] /\ ~dialog[s] /\ status[s] = "notConfigured"
        /\ overview[s] = NoToken /\ invoices[s] = NoToken
    BY DEF Init
  <2> QED BY <2>1
<1>2. TypeOK /\ ScreenInv /\ [Next]_vars => ScreenInv'
  <2> SUFFICES ASSUME TypeOK, ScreenInv, [Next]_vars PROVE ScreenInv'
    OBVIOUS
  <2>1. ASSUME NEW s \in Screens, UserStep(s) \/ InitStep(s) \/ HandlerStep(s)
        PROVE  ScreenInv'
    BY <2>1, OneScreenStep
  <2>2. CASE \E t \in Tokens : Expire(t)
    BY <2>2 DEF Expire
  <2>3. CASE Restart
    BY <2>3 DEF Restart
  <2>4. CASE UNCHANGED vars
    BY <2>4 DEF vars
  <2> QED BY <2>1, <2>2, <2>3, <2>4 DEF Next
<1> QED BY <1>1, <1>2, TypeCorrect, PTL DEF Spec

\* The overview and the invoices on the screen are of one session, and while no
\* handler runs the next request is about that session.
THEOREM OneSessionShown == OneScreen /\ StoreServes => (Spec => []OneSession)
<1>1. ScreenInv => OneSession
  BY DEF ScreenInv, Here, Known, Shown, OneSession
<1> QED BY <1>1, OneScreenSafety, PTL

\* "Disconnected" is shown only when neither the bridge nor the store has a token
\* and nothing of a session is on the screen.
THEOREM DisconnectedClean == OneScreen /\ StoreServes => (Spec => []DisconnectedIsClean)
<1>1. ScreenInv => DisconnectedIsClean
  BY DEF ScreenInv, Here, Shown, Gone, DisconnectedIsClean
<1> QED BY <1>1, OneScreenSafety, PTL
=============================================================================
