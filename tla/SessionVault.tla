----------------------------- MODULE SessionVault -----------------------------
(***************************************************************************)
(* What the secure store promises about e-Fatura session tokens, whoever   *)
(* uses it: it holds at most one token at a time, a token enters it at     *)
(* most once, and a token that left it (disconnect, rejection, overwritten *)
(* by a newer login) never comes back.  The screens, bridges and requests  *)
(* of EfaturaSession are shown to implement this.                          *)
(***************************************************************************)
CONSTANTS Tokens, NoToken

VARIABLES
    held,   \* the token in the store, or NoToken
    used    \* the tokens that entered the store or can no longer enter it

vars == <<held, used>>

Init == held = NoToken /\ used = {}

\* A login puts a token in the store; it replaces the one that was there.
Keep(t) ==
    /\ t \notin used
    /\ held' = t
    /\ used' = used \cup {t}

\* A disconnect or a rejected request empties the store.
Drop == held' = NoToken /\ UNCHANGED used

\* Tokens the backend created and the application lost before storing them:
\* the answer did not arrive, the store refused it or the process ended.
Waste(lost) ==
    /\ used' = used \cup lost
    /\ UNCHANGED held

Next ==
    \/ \E t \in Tokens : Keep(t)
    \/ Drop
    \/ \E lost \in SUBSET Tokens : Waste(lost)

Spec == Init /\ [][Next]_vars
=============================================================================
