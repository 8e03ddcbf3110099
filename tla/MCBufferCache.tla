--------------------------- MODULE MCBufferCache ---------------------------
(***************************************************************************)
(* TLC instances of BufferCache.                                           *)
(***************************************************************************)
EXTENDS BufferCache, TLC

Symmetry == Permutations(Procs)
=============================================================================
