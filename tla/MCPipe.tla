------------------------------- MODULE MCPipe -------------------------------
(***************************************************************************)
(* TLC instance of Pipe: two processes with both ends, as fork() leaves    *)
(* them until one of them closes the end it does not use.                  *)
(***************************************************************************)
EXTENDS Pipe
=============================================================================
