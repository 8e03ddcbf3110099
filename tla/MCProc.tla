------------------------------- MODULE MCProc -------------------------------
(***************************************************************************)
(* TLC instances of Proc.                                                  *)
(***************************************************************************)
EXTENDS Proc
=============================================================================
