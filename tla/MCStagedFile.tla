----------------------------- MODULE MCStagedFile -----------------------------
(* StagedFile on small instances. *)
EXTENDS StagedFile, TLC

Symmetric == Permutations(Ids) \cup Permutations(Calls)
=============================================================================
