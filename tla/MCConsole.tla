------------------------------ MODULE MCConsole ------------------------------
(***************************************************************************)
(* One CPU, as main() starts, and two processes; a ring of three           *)
(* characters whose indices wrap at six.                                   *)
(***************************************************************************)
EXTENDS Console, TLC

MCSymmetry == Permutations(Procs)

\* The state without the characters outside r..e, which are overwritten before
\* consoleRead() and consoleInterrupt() look at them again.
MCView ==
    <<m, threadVars, callVars, ticks, input, Slice(input.r, input.e)>>
=============================================================================
