------------------------------- MODULE JsonStore -------------------------------
(***************************************************************************)
(* What a JSON file of the application directory stands for: a set of      *)
(* items.  A call is asked for, takes effect in one step, and is gone.  A  *)
(* whole-file store (interview, draft, evidence) holds one item.           *)
(***************************************************************************)
CONSTANTS Calls, Jobs, NoJob

VARIABLES value, asked      \* the items; per call, the job it has yet to do

Init == value = {} /\ asked = [c \in Calls |-> NoJob]

Ask(c) ==
    /\ asked[c] = NoJob
    /\ \E j \in Jobs : asked' = [asked EXCEPT ![c] = j]
    /\ UNCHANGED value

\* What each kind of call makes of the items.
After(j, items) ==
    CASE j.kind = "put"    -> {j.id}
      [] j.kind = "add"    -> items \cup {j.id}
      [] j.kind = "remove" -> items \ {j.id}
      [] j.kind = "clear"  -> {}

Do(c) ==
    /\ asked[c] # NoJob
    /\ value' = After(asked[c], value)
    /\ asked' = [asked EXCEPT ![c] = NoJob]

\* Calls that do not end have no effect...
Drop ==
    /\ \E lost \in SUBSET Calls :
          asked' = [c \in Calls |-> IF c \in lost THEN NoJob ELSE asked[c]]
    /\ UNCHANGED value

\* ... or empty the file, but never leave a part of it.
Lose ==
    /\ \E lost \in SUBSET Calls :
          asked' = [c \in Calls |-> IF c \in lost THEN NoJob ELSE asked[c]]
    /\ value' = {}

Next == Drop \/ \E c \in Calls : Ask(c) \/ Do(c)

\* The promise of an atomic write.
AtomicSpec == Init /\ [][Next]_<<value, asked>>

Spec == Init /\ [][Next \/ Lose]_<<value, asked>>
=============================================================================
