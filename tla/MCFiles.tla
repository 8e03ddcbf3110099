------------------------------ MODULE MCFiles ------------------------------
(***************************************************************************)
(* TLC instances of Files.                                                 *)
(***************************************************************************)
EXTENDS Files

(* A run goes no further than the first exec() that fails after its        *)
(* fileClose(); the state this leaves is still checked.                    *)
UpToLateFailure == ~late
=============================================================================
