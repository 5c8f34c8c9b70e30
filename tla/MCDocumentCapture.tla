-------------------------- MODULE MCDocumentCapture --------------------------
(* DocumentCapture with symmetric documents. *)
EXTENDS DocumentCapture, TLC

Symmetry == Permutations(Docs)
=============================================================================
