------------------------- MODULE NtpExchange_proofs -------------------------
(***************************************************************************)
(* What NtpExchange promises, for every bound on time and datagrams.       *)
(***************************************************************************)
EXTENDS NtpExchange, TLAPS

(***************************************************************************)
(* What makes an accepted time fresh: a flawless reply names a request     *)
(* that was made before it was sent, or none; a request is stamped with    *)
(* the time it is made.                                                    *)
(***************************************************************************)
Honest ==
    \A reply \in replies :
        reply.flaw = "none" => reply.originate <= reply.transmit /\ reply.transmit <= clock

IInv ==
    /\ TypeOK
    /\ Honest
    /\ HeldWhileOpen
    /\ TimeIsFresh
    /\ asked <= clock
    /\ \A request \in requests : request <= clock

\* The initial states satisfy the inductive invariant.
LEMMA Initially == Init => IInv
<1> SUFFICES ASSUME Init PROVE IInv
  OBVIOUS
<1>1. TypeOK
  <2>1. 0 \in Times /\ 1 \in Times
    BY NtpAssumption DEF Times
  <2> QED
    BY <2>1 DEF Init, TypeOK
<1>2. HeldWhileOpen
  BY DEF Init, HeldWhileOpen
<1> QED
  BY <1>1, <1>2 DEF Init, IInv, Honest, TimeIsFresh

\* Every action of the exchange preserves the inductive invariant.
LEMMA Inductive == IInv /\ [Next]_vars => IInv'
<1> SUFFICES ASSUME IInv, [Next]_vars
             PROVE  IInv'
  OBVIOUS
<1> USE NtpAssumption
    DEF IInv, TypeOK, Times, Honest, HeldWhileOpen, TimeIsFresh, exchange, network
<1>1. CASE Ask
  BY <1>1 DEF Ask
<1>2. CASE Misconfigured
  BY <1>2 DEF Misconfigured, Settle
<1>3. CASE Connected
  BY <1>3 DEF Connected
<1>4. CASE LookupFails
  BY <1>4 DEF LookupFails, Settle
<1>5. CASE NetworkError
  BY <1>5 DEF NetworkError, Settle
<1>6. CASE TimesOut
  BY <1>6 DEF TimesOut, Settle
<1>7. CASE Receive
  <2>1. PICK reply \in replies :
            \/ Accepted(reply) /\ Settle("answered") /\ given' = reply.transmit
            \/ Settle("refused") /\ given' = given
    BY <1>7 DEF Receive
  <2>2. UNCHANGED <<clock, configured, asked, requests, replies>>
    BY <1>7 DEF Receive
  <2>3. socket = "connected" /\ configured
    BY <1>7 DEF Receive
  <2>4. /\ reply.transmit \in Times
        /\ Accepted(reply) => reply.transmit \in asked .. clock
    BY DEF Replies, Accepted
  <2>5. TypeOK'
    BY <2>1, <2>2, <2>4 DEF Settle
  <2>6. HeldWhileOpen'
    BY <2>1 DEF Settle
  <2>7. TimeIsFresh'
    BY <2>1, <2>2, <2>4 DEF Settle
  <2> QED
    BY <2>2, <2>5, <2>6, <2>7
<1>8. CASE ServerReplies
  <2>1. PICK reply \in Replies :
            /\ replies' = replies \cup {reply}
            /\ \/ /\ reply.originate \in requests
                  /\ reply.flaw = "none"
                  /\ reply.transmit = clock
               \/ reply.flaw # "none"
               \/ /\ reply.originate = 0
                  /\ reply.transmit = clock
    BY <1>8 DEF ServerReplies
  <2>2. UNCHANGED <<clock, configured, exchange, requests>>
    BY <1>8 DEF ServerReplies
  <2>3. Honest'
    BY <2>1, <2>2 DEF Replies
  <2>4. TypeOK'
    BY <2>1, <2>2
  <2> QED
    BY <2>2, <2>3, <2>4
<1>9. CASE Tick
  BY <1>9 DEF Tick, Replies
<1>10. CASE UNCHANGED vars
  BY <1>10 DEF vars
<1> QED
  BY <1>1, <1>2, <1>3, <1>4, <1>5, <1>6, <1>7, <1>8, <1>9, <1>10 DEF Next

\* The inductive invariant holds in every reachable state.
THEOREM Invariant == Spec => []IInv
  BY Initially, Inductive, PTL DEF Spec

\* Type correctness of the exchange.
THEOREM TypeCorrect == Spec => []TypeOK
<1>1. IInv => TypeOK
  BY DEF IInv
<1> QED
  BY Invariant, <1>1, PTL

(***************************************************************************)
(* No reply to an earlier query, flawed reply or unasked datagram ever     *)
(* becomes the time of a request.                                          *)
(***************************************************************************)
THEOREM Fresh == Spec => []TimeIsFresh
<1>1. IInv => TimeIsFresh
  BY DEF IInv
<1> QED
  BY Invariant, <1>1, PTL

(***************************************************************************)
(* A socket and a timer exist exactly while an exchange is open.           *)
(***************************************************************************)
THEOREM Released == Spec => []HeldWhileOpen
<1>1. IInv => HeldWhileOpen
  BY DEF IInv
<1> QED
  BY Invariant, <1>1, PTL

(***************************************************************************)
(* The UDP exchange implements the abstract source of time.                *)
(***************************************************************************)
THEOREM Refinement == Spec => Implements
<1>1. Init => Time!Init
  BY DEF Init, Time!Init
<1>2. IInv /\ IInv' /\ [Next]_vars => [Time!Next]_Time!vars
  <2> SUFFICES ASSUME IInv, IInv', [Next]_vars
               PROVE  [Time!Next]_Time!vars
    OBVIOUS
  <2> USE DEF exchange, network, Time!Next, Time!vars, Time!query
  <2>1. CASE Ask
    BY <2>1 DEF Ask, Time!Ask
  <2>2. CASE Misconfigured
    BY <2>2 DEF Misconfigured, Settle, Time!Refuse
  <2>3. CASE Connected
    BY <2>3 DEF Connected
  <2>4. CASE LookupFails
    BY <2>4 DEF LookupFails, Settle, Time!Die, IInv, HeldWhileOpen
  <2>5. CASE NetworkError
    BY <2>5 DEF NetworkError, Settle, Time!Refuse, IInv, HeldWhileOpen, TypeOK
  <2>6. CASE TimesOut
    BY <2>6 DEF TimesOut, Settle, Time!Refuse, IInv, HeldWhileOpen
  <2>7. CASE Receive
    <3>1. state = "asked" /\ UNCHANGED <<clock, asked>>
      BY <2>7 DEF Receive, IInv, HeldWhileOpen, TypeOK
    <3>2. CASE state' = "answered"
      <4>1. given' \in asked .. clock
        BY <3>1, <3>2 DEF IInv, TimeIsFresh
      <4> QED
        BY <3>1, <3>2, <4>1 DEF Time!Answer
    <3>3. CASE state' = "refused" /\ given' = given
      BY <3>1, <3>3 DEF Time!Refuse
    <3> QED
      BY <2>7, <3>2, <3>3 DEF Receive, Settle
  <2>8. CASE ServerReplies
    BY <2>8 DEF ServerReplies
  <2>9. CASE Tick
    BY <2>9 DEF Tick, Time!Tick
  <2>10. CASE UNCHANGED vars
    BY <2>10 DEF vars
  <2> QED
    BY <2>1, <2>2, <2>3, <2>4, <2>5, <2>6, <2>7, <2>8, <2>9, <2>10 DEF Next
<1> QED
  BY Invariant, <1>1, <1>2, PTL DEF Spec, Implements, Time!Spec
=============================================================================
