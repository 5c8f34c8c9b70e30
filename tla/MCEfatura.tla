------------------------------- MODULE MCEfatura -------------------------------
(* EfaturaSession on small instances. *)
EXTENDS EfaturaSession, TLC

CONSTANTS t1, t2, ana, rui

\* Tokens of two taxpayers.
OwnerOf == [t \in Tokens |-> IF t = t1 THEN ana ELSE rui]

\* With one taxpayer the tokens are interchangeable too.
SameOwner == [t \in Tokens |-> ana]
ScreensAndTokens == Permutations(Screens) \cup Permutations(Tokens)

\* The bridge of a closed slot without a request is garbage: nothing reads its
\* token again before Open resets it.
Reachable(s) == opened[s] \/ op[s] # "none" \/ init[s] # "none"
LiveState ==
    <<opened, dialog, ui, [s \in Screens |-> IF Reachable(s) THEN mem[s] ELSE NoToken],
      task, boot, store, session, evidence>>
=============================================================================
