---------------------------- MODULE AddressSpaces ----------------------------
(***************************************************************************)
(* What virtual memory promises: every process has pages of its own.  A    *)
(* page changes only when its process writes to it; a page that was added  *)
(* holds zeros; a forked process starts with what its parent had; exec()   *)
(* leaves nothing of the old image and nothing of anyone else.             *)
(***************************************************************************)
EXTENDS Integers

CONSTANTS Procs,        \* positive numbers, which a process writes
          Programs,     \* positive numbers, what a program file holds
          MaxVpn

VARIABLES space,        \* what each page of a process holds, by page number
          guard         \* pages of a process it may not touch

NoSpace == <<>>
Zero == 0

\* The first n pages.
Below(n) == 0..(n - 1)

Init ==
    /\ \E p \in Procs, g \in Programs :
          space = [q \in Procs |-> IF q = p THEN [v \in {0} |-> g] ELSE NoSpace]
    /\ guard = [p \in Procs |-> {}]

Write(p, v) ==
    /\ v \in DOMAIN space[p] \ guard[p]
    /\ space' = [space EXCEPT ![p][v] = p]
    /\ UNCHANGED guard

Resize(p, n) ==
    /\ space[p] # NoSpace
    /\ space' = [space EXCEPT ![p] = [v \in Below(n) |->
                    IF v \in DOMAIN @ THEN @[v] ELSE Zero]]
    /\ guard' = [guard EXCEPT ![p] = @ \cap Below(n)]

Fork(p, q) ==
    /\ space[p] # NoSpace /\ space[q] = NoSpace
    /\ space' = [space EXCEPT ![q] = space[p]]
    /\ guard' = [guard EXCEPT ![q] = guard[p]]

\* An image of n pages, then the guard page and a stack the process has
\* begun to fill.
Exec(p, n) ==
    /\ space[p] # NoSpace
    /\ DOMAIN space'[p] = Below(n + 2)
    /\ \A v \in Below(n) : space'[p][v] \in Programs \cup {Zero}
    /\ space'[p][n] = Zero /\ space'[p][n + 1] = p
    /\ space' = [space EXCEPT ![p] = space'[p]]
    /\ guard' = [guard EXCEPT ![p] = {n}]

Free(p) ==
    /\ space[p] # NoSpace
    /\ space' = [space EXCEPT ![p] = NoSpace]
    /\ guard' = [guard EXCEPT ![p] = {}]

\* A step changes what one process has.
Changes(p) == space'[p] # space[p] \/ guard'[p] # guard[p]

Next ==
    \E p \in Procs :
        /\ Changes(p)
        /\ \/ \E v \in 0..MaxVpn : Write(p, v)
           \/ \E n \in 0..(MaxVpn + 1) : Resize(p, n) \/ Exec(p, n)
           \/ \E q \in Procs : Fork(q, p)
           \/ Free(p)

Spec == Init /\ [][Next]_<<space, guard>>
=============================================================================
