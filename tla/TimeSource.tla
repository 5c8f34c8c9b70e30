------------------------------ MODULE TimeSource ------------------------------
(***************************************************************************)
(* What the AT scripts may rely on when they ask for the time of a         *)
(* request: a time not older than the question, or a refusal; the process  *)
(* may also die while it waits.  NtpExchange implements this with UDP,     *)
(* LiveHarness asks it before every request.                               *)
(***************************************************************************)
EXTENDS Naturals

CONSTANT MaxClock   \* bound on time

VARIABLES
    clock,  \* the true time
    state,  \* of the only query there can be at a time
    asked,  \* when the last query was made
    given   \* the time it was answered with

query == <<state, asked, given>>
vars == <<clock, query>>

Init ==
    /\ clock = 1
    /\ state = "idle"
    /\ asked = 0
    /\ given = 0

Tick ==
    /\ clock < MaxClock
    /\ clock' = clock + 1
    /\ UNCHANGED query

Ask ==
    /\ state \in {"idle", "answered", "refused"}
    /\ state' = "asked"
    /\ asked' = clock
    /\ UNCHANGED <<clock, given>>

Answer ==
    /\ state = "asked"
    /\ state' = "answered"
    /\ given' \in asked .. clock
    /\ UNCHANGED <<clock, asked>>

Refuse ==
    /\ state = "asked"
    /\ state' = "refused"
    /\ UNCHANGED <<clock, asked, given>>

Die ==
    /\ state = "asked"
    /\ state' = "dead"
    /\ UNCHANGED <<clock, asked, given>>

Next == Tick \/ Ask \/ Answer \/ Refuse \/ Die

Spec == Init /\ [][Next]_vars
===============================================================================
