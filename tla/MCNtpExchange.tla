--------------------------- MODULE MCNtpExchange ---------------------------
(***************************************************************************)
(* NtpExchange on a small instance: two queries can be in the past while a *)
(* third one waits, and their replies are still under way.                 *)
(***************************************************************************)
EXTENDS NtpExchange, TLC
=============================================================================
