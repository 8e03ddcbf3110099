------------------------------ MODULE Spinlock ------------------------------
(***************************************************************************)
(* spinlock.c on the one CPU that main() starts, as operators on what the  *)
(* code reads and writes of it: the interrupt flag, CliDepth and           *)
(* InterruptsEnabled, the locks it holds (Locked, with Cpu this CPU), and  *)
(* whether it has panicked.  On one CPU a lock is free or is held by the   *)
(* CPU that acquires it, so that nothing ever spins.                       *)
(***************************************************************************)
EXTENDS Integers

\* main() runs with interrupts off until scheduler().
Booted == [flag |-> FALSE, CliDepth |-> 0, InterruptsEnabled |-> FALSE,
           held |-> {}, panicked |-> FALSE]

enableInterrupts(m) == [m EXCEPT !.flag = TRUE]
disableInterrupts(m) == [m EXCEPT !.flag = FALSE]

pushCli(m) ==
    [disableInterrupts(m) EXCEPT
        !.CliDepth = @ + 1,
        !.InterruptsEnabled = IF m.CliDepth = 0 THEN m.flag ELSE @]

\* popCli() panics with interrupts on or without a pushCli() (mutated:
\* interrupts come back at the first popCli).
popCliAtOnce(m) ==
    [m EXCEPT !.CliDepth = @ - 1,
              !.flag = m.InterruptsEnabled,
              !.panicked = @ \/ m.flag \/ m.CliDepth < 1]
popCli(m) ==
    [m EXCEPT !.CliDepth = @ - 1,
              !.flag = m.CliDepth = 1 /\ m.InterruptsEnabled,
              !.panicked = @ \/ m.flag \/ m.CliDepth < 1]

isHolding(m, l) == l \in m.held

spinlockAcquire(m, l) ==
    [pushCli(m) EXCEPT !.held = @ \cup {l}, !.panicked = @ \/ isHolding(m, l)]

spinlockRelease(m, l) ==
    popCli([m EXCEPT !.held = @ \ {l}, !.panicked = @ \/ ~isHolding(m, l)])
=============================================================================
