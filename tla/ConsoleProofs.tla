--------------------------- MODULE ConsoleProofs ---------------------------
(***************************************************************************)
(* The locks and the interrupt flag of Console, for any number of          *)
(* processes, ring size and keys.                                          *)
(***************************************************************************)
EXTENDS Console, TLAPS

-----------------------------------------------------------------------------
(* Spinlock: what the operators do to a CPU that has not panicked.         *)

Locks == {"table", "cons", "time"}
Machines == [flag : BOOLEAN, CliDepth : Int, InterruptsEnabled : BOOLEAN,
             held : SUBSET Locks, panicked : BOOLEAN]

(* The CPU k has the interrupt flag f, CliDepth d, InterruptsEnabled i and *)
(* the locks h.                                                            *)
Is(k, f, d, i, h) ==
    /\ k \in Machines
    /\ k.flag = f /\ k.CliDepth = d /\ k.InterruptsEnabled = i /\ k.held = h
    /\ k.panicked = FALSE

(* The provers a leaf is tried with, and the time each may take.           *)
USE SMTT(30), Z3T(30), ZenonT(30)

\* Setting and clearing the flag changes nothing else.
LEMMA Flags ==
    ASSUME NEW k, NEW f, NEW d, NEW i, NEW h, Is(k, f, d, i, h)
    PROVE  /\ Is(enableInterrupts(k), TRUE, d, i, h)
           /\ Is(disableInterrupts(k), FALSE, d, i, h)
BY Zenon DEF Is, Machines, enableInterrupts, disableInterrupts

\* spinlockAcquire() yields a CPU.
LEMMA AcquireType ==
    ASSUME NEW k \in Machines, NEW l \in Locks
    PROVE  spinlockAcquire(k, l) \in Machines
<1>1. ASSUME NEW x \in Machines, NEW d \in Int, NEW i \in BOOLEAN
      PROVE  [x EXCEPT !.CliDepth = d, !.InterruptsEnabled = i] \in Machines
  BY Zenon, <1>1 DEF Machines
<1>2. ASSUME NEW x \in Machines, NEW h \in SUBSET Locks, NEW b \in BOOLEAN
      PROVE  [x EXCEPT !.held = h, !.panicked = b] \in Machines
  BY Zenon, <1>2 DEF Machines
<1>3. disableInterrupts(k) \in Machines
  BY Zenon DEF Machines, disableInterrupts
<1>4. pushCli(k) \in Machines
  <2>1. /\ disableInterrupts(k).CliDepth + 1 \in Int
        /\ (IF k.CliDepth = 0 THEN k.flag ELSE disableInterrupts(k).InterruptsEnabled) \in BOOLEAN
    BY <1>3 DEF Machines
  <2>2. QED
    BY Zenon, <1>1, <1>3, <2>1 DEF pushCli
<1>5. /\ pushCli(k).held \cup {l} \in SUBSET Locks
      /\ (pushCli(k).panicked \/ isHolding(k, l)) \in BOOLEAN
  BY <1>4 DEF Machines
<1>6. QED
  BY Zenon, <1>2, <1>4, <1>5 DEF spinlockAcquire

\* spinlockRelease() yields a CPU.
LEMMA ReleaseType ==
    ASSUME NEW k \in Machines, NEW l \in Locks
    PROVE  spinlockRelease(k, l) \in Machines
<1>1. ASSUME NEW x \in Machines, NEW d \in Int, NEW f \in BOOLEAN, NEW b \in BOOLEAN
      PROVE  [x EXCEPT !.CliDepth = d, !.flag = f, !.panicked = b] \in Machines
  BY Zenon, <1>1 DEF Machines
<1>2. ASSUME NEW x \in Machines
      PROVE  popCli(x) \in Machines
  <2>1. /\ x.CliDepth - 1 \in Int
        /\ (x.CliDepth = 1 /\ x.InterruptsEnabled) \in BOOLEAN
        /\ (x.panicked \/ x.flag \/ x.CliDepth < 1) \in BOOLEAN
    BY <1>2 DEF Machines
  <2>2. QED
    BY Zenon, <1>1, <1>2, <2>1 DEF popCli
<1>3. ASSUME NEW h \in SUBSET Locks, NEW b \in BOOLEAN
      PROVE  [k EXCEPT !.held = h, !.panicked = b] \in Machines
  BY Zenon, <1>3 DEF Machines
<1>4. /\ k.held \ {l} \in SUBSET Locks
      /\ (k.panicked \/ ~isHolding(k, l)) \in BOOLEAN
  BY DEF Machines
<1>5. QED
  BY Zenon, <1>2, <1>3, <1>4 DEF spinlockRelease

\* The outermost spinlockAcquire() remembers the flag it found.
LEMMA AcquireFirst ==
    ASSUME NEW k, NEW f \in BOOLEAN, NEW i \in BOOLEAN, NEW l \in Locks,
           Is(k, f, 0, i, {})
    PROVE  Is(spinlockAcquire(k, l), FALSE, 1, f, {l})
<1>1. spinlockAcquire(k, l) \in Machines
  BY AcquireType DEF Is
<1>2. spinlockAcquire(k, l).CliDepth = 1 /\ spinlockAcquire(k, l).held = {l}
  BY DEF Is, spinlockAcquire, pushCli, disableInterrupts, isHolding, Machines
<1>3. spinlockAcquire(k, l).flag = FALSE
  BY DEF Is, spinlockAcquire, pushCli, disableInterrupts, isHolding, Machines
<1>4. spinlockAcquire(k, l).InterruptsEnabled = f
  BY DEF Is, spinlockAcquire, pushCli, disableInterrupts, isHolding, Machines
<1>5. spinlockAcquire(k, l).panicked = FALSE
  BY DEF Is, spinlockAcquire, pushCli, disableInterrupts, isHolding, Machines
<1>6. QED
  BY <1>1, <1>2, <1>3, <1>4, <1>5 DEF Is

\* A nested one leaves what is remembered alone.
LEMMA AcquireSecond ==
    ASSUME NEW k, NEW i \in BOOLEAN, NEW l \in Locks, NEW o \in Locks, o # l,
           Is(k, FALSE, 1, i, {o})
    PROVE  Is(spinlockAcquire(k, l), FALSE, 2, i, {o, l})
<1>1. spinlockAcquire(k, l) \in Machines
  BY AcquireType DEF Is
<1>2. spinlockAcquire(k, l).CliDepth = 2 /\ spinlockAcquire(k, l).held = {o, l}
  BY DEF Is, spinlockAcquire, pushCli, disableInterrupts, isHolding, Machines
<1>3. spinlockAcquire(k, l).flag = FALSE
  BY DEF Is, spinlockAcquire, pushCli, disableInterrupts, isHolding, Machines
<1>4. spinlockAcquire(k, l).InterruptsEnabled = i
  BY DEF Is, spinlockAcquire, pushCli, disableInterrupts, isHolding, Machines
<1>5. spinlockAcquire(k, l).panicked = FALSE
  BY DEF Is, spinlockAcquire, pushCli, disableInterrupts, isHolding, Machines
<1>6. QED
  BY <1>1, <1>2, <1>3, <1>4, <1>5 DEF Is

\* The outermost spinlockRelease() brings the remembered flag back.
LEMMA ReleaseLast ==
    ASSUME NEW k, NEW i \in BOOLEAN, NEW l \in Locks, Is(k, FALSE, 1, i, {l})
    PROVE  Is(spinlockRelease(k, l), i, 0, i, {})
<1>1. spinlockRelease(k, l) \in Machines
  BY ReleaseType DEF Is
<1>2. spinlockRelease(k, l).CliDepth = 0 /\ spinlockRelease(k, l).held = {}
  BY DEF Is, spinlockRelease, popCli, isHolding, Machines
<1>3. spinlockRelease(k, l).flag = i
  BY DEF Is, spinlockRelease, popCli, isHolding, Machines
<1>4. spinlockRelease(k, l).InterruptsEnabled = i
  BY DEF Is, spinlockRelease, popCli, isHolding, Machines
<1>5. spinlockRelease(k, l).panicked = FALSE
  BY DEF Is, spinlockRelease, popCli, isHolding, Machines
<1>6. QED
  BY <1>1, <1>2, <1>3, <1>4, <1>5 DEF Is

\* A nested one leaves interrupts off, whichever of the locks it releases.
LEMMA ReleaseNested ==
    ASSUME NEW k, NEW i \in BOOLEAN, NEW l \in Locks, NEW o \in Locks, o # l,
           Is(k, FALSE, 2, i, {o, l})
    PROVE  Is(spinlockRelease(k, l), FALSE, 1, i, {o})
<1>1. spinlockRelease(k, l) \in Machines
  BY ReleaseType DEF Is
<1>2. spinlockRelease(k, l).CliDepth = 1 /\ spinlockRelease(k, l).held = {o}
  BY DEF Is, spinlockRelease, popCli, isHolding, Machines
<1>3. spinlockRelease(k, l).flag = FALSE
  BY DEF Is, spinlockRelease, popCli, isHolding, Machines
<1>4. spinlockRelease(k, l).InterruptsEnabled = i
  BY DEF Is, spinlockRelease, popCli, isHolding, Machines
<1>5. spinlockRelease(k, l).panicked = FALSE
  BY DEF Is, spinlockRelease, popCli, isHolding, Machines
<1>6. QED
  BY <1>1, <1>2, <1>3, <1>4, <1>5 DEF Is

-----------------------------------------------------------------------------
(* The inductive invariant                                                 *)

Boundary == {"born", "user", "ret", "again"}     \* places that hold no lock
ProcLabels == Boundary \cup InLoop \cup {"forkret", "release", "zombie"}

TypeInv ==
    /\ cur \in Threads
    /\ pc \in [Threads -> ProcLabels \cup {"enabled", "scan"}]
    /\ pc[scheduler] \in {"enabled", "scan"}
    /\ preempted \subseteq Procs
    /\ state \in [Procs -> {"RUNNABLE", "RUNNING", "SLEEPING", "ZOMBIE"}]
    /\ killed \in [Procs -> BOOLEAN]
    /\ chan \in [Procs -> {"cons", "time", none}]
    /\ intena \in [Procs -> BOOLEAN]
    /\ lk \in [Procs -> {"cons", "time", none}]

(* A thread that is off the CPU is at a point where it gave the CPU up, and *)
(* has there what sched() saved for it.                                    *)
ThreadInv ==
    /\ cur # scheduler => pc[scheduler] = "scan" /\ state[cur] = "RUNNING"
    /\ \A p \in Procs :
        /\ pc[p] \in ProcLabels
        /\ pc[p] \in InLoop \cup {"release"} => lk[p] \in {"cons", "time"}
        /\ p \in preempted => pc[p] \in Boundary /\ intena[p] = FALSE
        /\ pc[p] = "slept" => intena[p] = TRUE
        /\ pc[p] = "zombie" => state[p] = "ZOMBIE"
        /\ p # cur /\ p \notin preempted => pc[p] \in {"forkret", "slept", "zombie"}

(* Flag, nesting and locks follow from where the thread on the CPU is.     *)
RunsIn(p) ==
    /\ pc[p] = "forkret" => \E i \in BOOLEAN : Is(m, FALSE, 1, i, {"table"})
    /\ pc[p] = "born" => \E f, i \in BOOLEAN : Is(m, f, 0, i, {})
    /\ pc[p] \in {"user", "ret", "again"} => \E i \in BOOLEAN : Is(m, TRUE, 0, i, {})
    /\ pc[p] \in {"loop", "release"} => Is(m, FALSE, 1, TRUE, {lk[p]})
    /\ pc[p] = "unlock" => Is(m, FALSE, 2, TRUE, {lk[p], "table"})
    /\ pc[p] = "slept" => Is(m, FALSE, 1, TRUE, {"table"})
MachineInv ==
    /\ cur = scheduler /\ pc[scheduler] = "enabled" =>
           \E i \in BOOLEAN : Is(m, TRUE, 0, i, {})
    /\ cur = scheduler /\ pc[scheduler] = "scan" =>
           \E i \in BOOLEAN : Is(m, FALSE, 1, i, {"table"})
    /\ cur # scheduler /\ cur \in preempted => Is(m, FALSE, 1, FALSE, {"table"})
    /\ cur # scheduler /\ cur \notin preempted => RunsIn(cur)

(* Until the first process has run, InterruptsEnabled is scheduler()'s.    *)
FirstInv ==
    /\ pc[scheduler] = "scan" /\ (\A p \in Procs : pc[p] = "forkret") =>
           m.InterruptsEnabled = TRUE
    /\ /\ cur # scheduler /\ cur \notin preempted /\ pc[cur] = "born"
       /\ \A p \in Procs \ {cur} : pc[p] = "forkret"
       => m.flag = TRUE

IInv == TypeInv /\ ThreadInv /\ MachineInv /\ FirstInv

\* Initially scheduler() is about to take the table lock for the first time.
LEMMA Initially == Init => IInv
<1> SUFFICES ASSUME Init PROVE IInv
  OBVIOUS
<1> USE ConsoleAssumption DEF Init, scheduler, Threads
<1>1. TypeInv
  BY DEF TypeInv, ProcLabels, Boundary, InLoop, none
<1>2. ThreadInv
  BY DEF ThreadInv, ProcLabels, Boundary, InLoop
<1>3. Is(m, TRUE, 0, FALSE, {})
  <2>1. Is(Booted, FALSE, 0, FALSE, {})
    BY DEF Is, Booted, Machines
  <2>2. QED
    BY Zenon, <2>1, Flags
<1>4. MachineInv /\ FirstInv
  BY Zenon, <1>3 DEF MachineInv, FirstInv
<1>5. QED
  BY <1>1, <1>2, <1>4 DEF IInv

-----------------------------------------------------------------------------
(* What the pieces shared by several actions do                            *)

\* sched(), called with the table lock alone and a state that is not RUNNING,
\* does not panic and hands scheduler() the CPU as it is.
LEMMA SchedSwitches ==
    ASSUME NEW p \in Procs, NEW k, NEW i \in BOOLEAN, NEW st, NEW s,
           s # "RUNNING",
           Is(k, FALSE, 1, i, {"table"}), Sched(p, k, st, s)
    PROVE  Is(m', FALSE, 1, i, {"table"})
<1>1. (k.panicked \/ ~isHolding(k, "table") \/ k.CliDepth # 1 \/ s = "RUNNING" \/ k.flag) = FALSE
  BY DEF Is, isHolding
<1>2. m' = [k EXCEPT !.panicked = FALSE]
  BY Zenon, <1>1 DEF Sched
<1>3. QED
  BY Zenon, <1>2 DEF Is, Machines

\* A keyboard interrupt that comes with interrupts on leaves them on, and no lock.
LEMMA KeyLeaves ==
    ASSUME NEW line \in BOOLEAN, NEW i \in BOOLEAN, Is(m, TRUE, 0, i, {}),
           KeyHandled(line)
    PROVE  Is(m', TRUE, 0, FALSE, {})
<1> DEFINE k == spinlockAcquire(disableInterrupts(m), "cons")
           w == IF line THEN wakeup(k) ELSE k
<1>1. Is(k, FALSE, 1, FALSE, {"cons"})
  <2>1. Is(disableInterrupts(m), FALSE, 0, i, {})
    BY Zenon, Flags
  <2>2. QED
    BY Zenon, <2>1, AcquireFirst DEF Locks
<1>2. Is(wakeup(k), FALSE, 1, FALSE, {"cons"})
  <2>1. Is(spinlockAcquire(k, "table"), FALSE, 2, FALSE, {"cons", "table"})
    BY Zenon, <1>1, AcquireSecond DEF Locks
  <2>2. QED
    BY Zenon, <2>1, ReleaseNested DEF Locks, wakeup
<1>3. Is(w, FALSE, 1, FALSE, {"cons"})
  BY Zenon, <1>1, <1>2
<1>4. Is(spinlockRelease(w, "cons"), FALSE, 0, FALSE, {})
  BY Zenon, <1>3, ReleaseLast DEF Locks
<1>5. Is(enableInterrupts(spinlockRelease(w, "cons")), TRUE, 0, FALSE, {})
  BY Zenon, <1>4, Flags
<1>6. QED
  BY Zenon, <1>5 DEF KeyHandled

\* An interrupt finds scheduler() between two rounds, or a process where it holds
\* no lock.
LEMMA Interrupted ==
    ASSUME IInv, Interruptible
    PROVE  /\ \E i \in BOOLEAN : Is(m, TRUE, 0, i, {})
           /\ cur = scheduler => pc[scheduler] = "enabled"
           /\ cur # scheduler => cur \in Procs /\ cur \notin preempted /\ pc[cur] \in Boundary
<1> USE DEF IInv, Interruptible
<1>1. CASE cur = scheduler
  <2>1. pc[scheduler] # "scan"
    BY <1>1 DEF MachineInv, Is
  <2>2. QED
    BY Zenon, <1>1, <2>1 DEF MachineInv, TypeInv
<1>2. CASE cur # scheduler
  <2>1. cur \in Procs /\ pc[cur] \in ProcLabels
    BY <1>2 DEF TypeInv, ThreadInv, Threads
  <2>2. cur \notin preempted
    BY <1>2 DEF MachineInv, Is
  <2>3. RunsIn(cur) /\ pc[cur] # "zombie"
    BY <1>2, <2>1, <2>2 DEF MachineInv, ThreadInv
  <2>4. pc[cur] \notin {"forkret", "loop", "release", "unlock", "slept"}
    BY <2>3 DEF RunsIn, Is
  <2>5. pc[cur] \in Boundary
    BY <2>1, <2>3, <2>4 DEF ProcLabels, Boundary, InLoop
  <2>6. \E i \in BOOLEAN : Is(m, TRUE, 0, i, {})
    <3>1. CASE pc[cur] = "born"
      <4>1. PICK f \in BOOLEAN, i \in BOOLEAN : Is(m, f, 0, i, {})
        BY <2>3, <3>1 DEF RunsIn
      <4>2. f = TRUE
        BY <4>1 DEF Is
      <4>3. QED
        BY Zenon, <4>1, <4>2
    <3>2. CASE pc[cur] # "born"
      BY Zenon, <2>3, <2>5, <3>2 DEF RunsIn, Boundary
    <3>3. QED
      BY Zenon, <3>1, <3>2
  <2>7. QED
    BY Zenon, <1>2, <2>1, <2>2, <2>5, <2>6
<1>3. QED
  BY Zenon, <1>1, <1>2

-----------------------------------------------------------------------------
(* scheduler()                                                             *)

\* scheduler() takes the table lock with interrupts on, and remembers that.
LEMMA SchedulerAcquireStep == IInv /\ SchedulerAcquire => IInv'
<1> SUFFICES ASSUME IInv, SchedulerAcquire PROVE IInv'
  OBVIOUS
<1> USE ConsoleAssumption DEF IInv, SchedulerAcquire, At, Goto, callVars, inputVars
<1>1. Is(m', FALSE, 1, TRUE, {"table"})
  <2>1. PICK i \in BOOLEAN : Is(m, TRUE, 0, i, {})
    BY Zenon DEF MachineInv
  <2>2. QED
    BY Zenon, <2>1, AcquireFirst DEF Locks
<1>2. TypeInv'
  BY DEF TypeInv, Threads
<1>3. ThreadInv'
  BY DEF TypeInv, ThreadInv, Threads, scheduler
<1>4. MachineInv'
  BY Zenon, <1>1 DEF MachineInv, TypeInv, Threads
<1>5. FirstInv'
  BY <1>1 DEF FirstInv, Is
<1>6. QED
  BY <1>2, <1>3, <1>4, <1>5

\* scheduler() gives the CPU to a process where that process left it: with the
\* InterruptsEnabled that sched() saved, or new, in forkret().
LEMMA SchedulerRunStep ==
    ASSUME NEW p \in Procs
    PROVE  IInv /\ SchedulerRun(p) => IInv'
<1> SUFFICES ASSUME IInv, SchedulerRun(p) PROVE IInv'
  OBVIOUS
<1> USE ConsoleAssumption DEF IInv, SchedulerRun, At, callVars, inputVars
<1>1. p # scheduler /\ pc[p] # "zombie" /\ (p \in preempted \/ pc[p] \in {"forkret", "slept"})
  BY DEF ThreadInv, TypeInv, scheduler
<1>2. PICK i \in BOOLEAN : Is(m, FALSE, 1, i, {"table"})
  BY Zenon DEF MachineInv
<1>3. pc[p] = "forkret" => m' = m
  BY DEF Restored
<1>4. pc[p] # "forkret" => Is(m', FALSE, 1, intena[p], {"table"})
  <2>1. intena[p] \in BOOLEAN
    BY DEF TypeInv
  <2>2. ASSUME NEW b \in BOOLEAN
        PROVE  Is([m EXCEPT !.InterruptsEnabled = b], FALSE, 1, b, {"table"})
    BY <1>2, <2>2 DEF Is, Machines
  <2>3. QED
    BY Zenon, <2>1, <2>2 DEF Restored
<1>5. p \in preempted => pc[p] \in Boundary /\ intena[p] = FALSE
  BY DEF ThreadInv
<1>6. TypeInv'
  BY DEF TypeInv, Threads
<1>7. ThreadInv'
  BY <1>1 DEF TypeInv, ThreadInv, Threads, scheduler
<1>8. MachineInv'
  <2>1. p \in preempted => Is(m', FALSE, 1, FALSE, {"table"})
    BY Zenon, <1>4, <1>5 DEF Boundary
  <2>2. p \notin preempted => RunsIn(p)'
    <3>1. CASE pc[p] = "forkret"
      BY Zenon, <1>2, <1>3, <3>1 DEF RunsIn
    <3>2. CASE pc[p] = "slept"
      BY Zenon, <1>4, <3>2 DEF RunsIn, ThreadInv
    <3>3. QED
      BY <1>1, <3>1, <3>2
  <2>3. QED
    BY Zenon, <1>1, <2>1, <2>2 DEF MachineInv, RunsIn
<1>9. FirstInv'
  BY <1>1, <1>3, <1>5 DEF FirstInv
<1>10. QED
  BY <1>6, <1>7, <1>8, <1>9

\* scheduler() ends a round without a lock and with interrupts on.
LEMMA SchedulerReleaseStep == IInv /\ SchedulerRelease => IInv'
<1> SUFFICES ASSUME IInv, SchedulerRelease PROVE IInv'
  OBVIOUS
<1> USE ConsoleAssumption DEF IInv, SchedulerRelease, At, Goto, callVars, inputVars
<1>1. PICK i \in BOOLEAN : Is(m', TRUE, 0, i, {})
  <2>1. PICK i \in BOOLEAN : Is(m, FALSE, 1, i, {"table"})
    BY Zenon DEF MachineInv
  <2>2. Is(spinlockRelease(m, "table"), i, 0, i, {})
    BY Zenon, <2>1, ReleaseLast DEF Locks
  <2>3. QED
    BY Zenon, <2>2, Flags
<1>2. TypeInv'
  BY DEF TypeInv, Threads
<1>3. ThreadInv'
  BY DEF TypeInv, ThreadInv, Threads, scheduler
<1>4. MachineInv'
  BY Zenon, <1>1 DEF MachineInv, TypeInv, Threads
<1>5. FirstInv'
  BY DEF FirstInv, TypeInv, Threads
<1>6. QED
  BY <1>2, <1>3, <1>4, <1>5

-----------------------------------------------------------------------------
(* Processes                                                               *)

\* The process on the CPU has it as its place in the code says.
LEMMA OnCpu ==
    ASSUME NEW p \in Procs, IInv, cur = p, p \notin preempted
    PROVE  /\ RunsIn(p) /\ p # scheduler
           /\ pc[scheduler] = "scan" /\ state[p] = "RUNNING"
           /\ pc[p] \in InLoop \cup {"release"} => lk[p] \in {"cons", "time"}
BY ConsoleAssumption DEF IInv, MachineInv, ThreadInv, scheduler

\* A step of the process on the CPU that does not switch keeps the invariant if
\* it leaves the CPU as the next place wants it.
LEMMA Moves ==
    ASSUME NEW p \in Procs, NEW l \in Boundary \cup {"loop", "unlock",
           "release"},
           IInv, cur = p, p \notin preempted, Goto(p, l),
           UNCHANGED <<state, killed, cur, preempted, intena>>,
           chan' \in [Procs -> {"cons", "time", none}],
           lk' \in [Procs -> {"cons", "time", none}],
           \A q \in Procs \ {p} : lk'[q] = lk[q],
           l \in InLoop \cup {"release"} => lk'[p] \in {"cons", "time"},
           RunsIn(p)',
           l = "born" /\ (\A q \in Procs \ {p} : pc[q] = "forkret") => m'.flag = TRUE
    PROVE  IInv'
<1> USE ConsoleAssumption DEF IInv, Goto
<1>1. p # scheduler /\ pc[scheduler] = "scan"
  BY OnCpu
<1>2. /\ pc'[p] = l
      /\ \A t \in Threads \ {p} : pc'[t] = pc[t]
  BY DEF TypeInv, Threads
<1>3. TypeInv'
  BY <1>1 DEF TypeInv, Threads, ProcLabels, InLoop
<1>4. ThreadInv'
  BY <1>1, <1>2 DEF TypeInv, ThreadInv, Threads, ProcLabels, InLoop, Boundary
<1>5. MachineInv'
  BY Zenon, <1>1 DEF MachineInv
<1>6. FirstInv'
  BY <1>1, <1>2 DEF FirstInv, Boundary, Threads
<1>7. QED
  BY <1>3, <1>4, <1>5, <1>6

\* forkret() releases the lock scheduler() took, and has the flag scheduler()
\* remembered if no process ran before.
LEMMA ForkRetStep ==
    ASSUME NEW p \in Procs
    PROVE  IInv /\ ForkRet(p) => IInv'
<1> SUFFICES ASSUME IInv, ForkRet(p) PROVE IInv'
  OBVIOUS
<1> USE DEF ForkRet, At, callVars
<1>1. PICK i \in BOOLEAN : Is(m, FALSE, 1, i, {"table"})
  BY Zenon, OnCpu DEF RunsIn
<1>2. Is(m', i, 0, i, {})
  BY Zenon, <1>1, ReleaseLast DEF Locks
<1>3. (\A q \in Procs \ {p} : pc[q] = "forkret") => m'.flag = TRUE
  <2>1. (\A q \in Procs \ {p} : pc[q] = "forkret") => m.InterruptsEnabled = TRUE
    BY Zenon, OnCpu DEF IInv, FirstInv
  <2>2. QED
    BY <1>1, <1>2, <2>1 DEF Is
<1>4. pc'[p] = "born"
  BY DEF Goto, IInv, TypeInv, Threads
<1>5. RunsIn(p)'
  BY <1>2, <1>4 DEF RunsIn
<1>6. QED
  BY Zenon, <1>3, <1>5, Moves DEF IInv, TypeInv, Boundary, InLoop

\* iret turns interrupts on, whatever the flag was.
LEMMA ReturnToUserStep ==
    ASSUME NEW p \in Procs
    PROVE  IInv /\ ReturnToUser(p) => IInv'
<1> SUFFICES ASSUME IInv, ReturnToUser(p) PROVE IInv'
  OBVIOUS
<1> USE DEF ReturnToUser, At
<1>1. PICK f \in BOOLEAN, i \in BOOLEAN : Is(m, f, 0, i, {})
  BY Zenon, OnCpu DEF RunsIn
<1>2. Is(m', TRUE, 0, i, {})
  BY Zenon, <1>1, Flags
<1>3. pc'[p] = "user"
  BY DEF Goto, IInv, TypeInv, Threads
<1>4. RunsIn(p)'
  BY Zenon, <1>2, <1>3 DEF RunsIn
<1>5. QED
  BY Zenon, <1>4, Moves DEF IInv, TypeInv, Boundary, InLoop

\* consoleRead() and sys_sleep() take their lock with interrupts on.
LEMMA SystemCallStep ==
    ASSUME NEW p \in Procs, NEW l \in {"cons", "time"}, NEW i
    PROVE  IInv /\ SystemCall(p, l, i) => IInv'
<1> SUFFICES ASSUME IInv, SystemCall(p, l, i) PROVE IInv'
  OBVIOUS
<1> USE DEF SystemCall, At
<1>1. PICK j \in BOOLEAN : Is(m, TRUE, 0, j, {})
  BY Zenon, OnCpu DEF RunsIn
<1>2. Is(m', FALSE, 1, TRUE, {l})
  BY Zenon, <1>1, AcquireFirst DEF Locks
<1>3. pc'[p] = "loop" /\ lk'[p] = l
  BY DEF Goto, IInv, TypeInv, Threads
<1>4. RunsIn(p)'
  BY Zenon, <1>2, <1>3 DEF RunsIn
<1>5. /\ lk' \in [Procs -> {"cons", "time", none}]
      /\ \A q \in Procs \ {p} : lk'[q] = lk[q]
  BY DEF IInv, TypeInv
<1>6. QED
  BY Zenon, <1>3, <1>4, <1>5, Moves DEF IInv, TypeInv, Boundary

\* In the loop the lock stays held, with a character taken or without.
LEMMA LoopStep ==
    ASSUME NEW p \in Procs
    PROVE  IInv /\ (ReadTake(p) \/ LoopKilled(p) \/ LoopEnd(p)) => IInv'
<1> SUFFICES ASSUME IInv, ReadTake(p) \/ LoopKilled(p) \/ LoopEnd(p) PROVE IInv'
  OBVIOUS
<1> USE DEF At
<1>1. PICK l \in {"loop", "release"} : Goto(p, l)
  BY DEF ReadTake, LoopKilled, LoopEnd
<1>2. /\ cur = p /\ p \notin preempted /\ pc[p] = "loop"
      /\ UNCHANGED <<m, state, chan, killed, cur, preempted, intena, lk>>
  BY DEF ReadTake, LoopKilled, LoopEnd, callVars
<1>3. Is(m, FALSE, 1, TRUE, {lk[p]}) /\ lk[p] \in {"cons", "time"}
  BY Zenon, <1>2, OnCpu DEF RunsIn, InLoop
<1>4. pc'[p] = l
  BY <1>1 DEF Goto, IInv, TypeInv, Threads
<1>5. RunsIn(p)'
  BY Zenon, <1>2, <1>3, <1>4 DEF RunsIn
<1>6. QED
  BY Zenon, <1>1, <1>2, <1>3, <1>5, Moves DEF IInv, TypeInv

\* Releasing the lock for good brings back the flag of the system call.
LEMMA ReleaseStep ==
    ASSUME NEW p \in Procs
    PROVE  IInv /\ Release(p) => IInv'
<1> SUFFICES ASSUME IInv, Release(p) PROVE IInv'
  OBVIOUS
<1> USE DEF Release, At
<1>1. Is(m, FALSE, 1, TRUE, {lk[p]}) /\ lk[p] \in {"cons", "time"}
  BY Zenon, OnCpu DEF RunsIn
<1>2. Is(m', TRUE, 0, TRUE, {})
  BY Zenon, <1>1, ReleaseLast DEF Locks
<1>3. pc'[p] = "ret"
  BY DEF Goto, IInv, TypeInv, Threads
<1>4. RunsIn(p)'
  BY Zenon, <1>2, <1>3 DEF RunsIn
<1>5. /\ lk' \in [Procs -> {"cons", "time", none}]
      /\ \A q \in Procs \ {p} : lk'[q] = lk[q]
  BY DEF IInv, TypeInv
<1>6. QED
  BY Zenon, <1>4, <1>5, Moves DEF IInv, TypeInv, Boundary, InLoop

\* sleep() nests the table lock in the caller's.
LEMMA LoopSleepStep ==
    ASSUME NEW p \in Procs
    PROVE  IInv /\ LoopSleep(p) => IInv'
<1> SUFFICES ASSUME IInv, LoopSleep(p) PROVE IInv'
  OBVIOUS
<1> USE DEF LoopSleep, At, callVars
<1>1. Is(m, FALSE, 1, TRUE, {lk[p]}) /\ lk[p] \in {"cons", "time"}
  BY Zenon, OnCpu DEF RunsIn, InLoop
<1>2. Is(m', FALSE, 2, TRUE, {lk[p], "table"})
  BY Zenon, <1>1, AcquireSecond DEF Locks
<1>3. pc'[p] = "unlock"
  BY DEF Goto, IInv, TypeInv, Threads
<1>4. RunsIn(p)'
  BY Zenon, <1>2, <1>3 DEF RunsIn
<1>5. QED
  BY Zenon, <1>1, <1>4, Moves DEF IInv, TypeInv

\* Back from sched(), sleep() releases the table lock under the InterruptsEnabled
\* of its own process.
LEMMA SleepReturnStep ==
    ASSUME NEW p \in Procs
    PROVE  IInv /\ SleepReturn(p) => IInv'
<1> SUFFICES ASSUME IInv, SleepReturn(p) PROVE IInv'
  OBVIOUS
<1> USE DEF SleepReturn, At, callVars
<1>1. Is(m, FALSE, 1, TRUE, {"table"}) /\ lk[p] \in {"cons", "time"}
  BY Zenon, OnCpu DEF RunsIn, InLoop
<1>2. Is(m', TRUE, 0, TRUE, {})
  BY Zenon, <1>1, ReleaseLast DEF Locks
<1>3. pc'[p] = "again"
  BY DEF Goto, IInv, TypeInv, Threads
<1>4. RunsIn(p)'
  BY Zenon, <1>2, <1>3 DEF RunsIn
<1>5. chan' \in [Procs -> {"cons", "time", none}]
  BY DEF IInv, TypeInv
<1>6. QED
  BY Zenon, <1>1, <1>4, <1>5, Moves DEF IInv, TypeInv, Boundary

\* ... and takes the caller's lock again.
LEMMA SleepAgainStep ==
    ASSUME NEW p \in Procs
    PROVE  IInv /\ SleepAgain(p) => IInv'
<1> SUFFICES ASSUME IInv, SleepAgain(p) PROVE IInv'
  OBVIOUS
<1> USE DEF SleepAgain, At, callVars
<1>1. lk[p] \in {"cons", "time"}
  BY OnCpu DEF InLoop
<1>2. PICK i \in BOOLEAN : Is(m, TRUE, 0, i, {})
  BY Zenon, OnCpu DEF RunsIn
<1>3. Is(m', FALSE, 1, TRUE, {lk[p]})
  BY Zenon, <1>1, <1>2, AcquireFirst DEF Locks
<1>4. pc'[p] = "loop"
  BY DEF Goto, IInv, TypeInv, Threads
<1>5. RunsIn(p)'
  BY Zenon, <1>3, <1>4 DEF RunsIn
<1>6. QED
  BY Zenon, <1>1, <1>5, Moves DEF IInv, TypeInv

-----------------------------------------------------------------------------
(* Switches                                                                *)

\* sched() keeps the invariant for a process that exits, one that sleeps with
\* interrupts remembered as on, and one that a timer interrupt makes yield.
LEMMA Switches ==
    ASSUME NEW p \in Procs, NEW k, NEW b \in BOOLEAN,
           NEW s \in {"RUNNABLE", "SLEEPING", "ZOMBIE"}, NEW l \in ProcLabels,
           IInv, cur = p, p \notin preempted,
           Is(k, FALSE, 1, b, {"table"}), Sched(p, k, state, s),
           pc' = [pc EXCEPT ![p] = l],
           \/ l = "zombie" /\ s = "ZOMBIE" /\ preempted' = preempted
           \/ l = "slept" /\ b = TRUE /\ pc[p] = "unlock" /\ preempted' = preempted
           \/ l \in Boundary /\ pc[p] = l /\ b = FALSE /\ preempted' = preempted \cup {p},
           UNCHANGED <<killed, lk>>,
           chan' \in [Procs -> {"cons", "time", none}]
    PROVE  IInv'
<1> USE ConsoleAssumption DEF IInv
<1>1. p # scheduler /\ pc[scheduler] = "scan"
  BY OnCpu
<1>2. /\ pc'[p] = l /\ pc'[scheduler] = "scan"
      /\ \A q \in Procs \ {p} : pc'[q] = pc[q]
  BY <1>1 DEF TypeInv, Threads
<1>3. /\ cur' = scheduler
      /\ state' = [state EXCEPT ![p] = s]
      /\ intena' = [intena EXCEPT ![p] = b]
  BY DEF Sched, Is
<1>4. Is(m', FALSE, 1, b, {"table"})
  BY Zenon, SchedSwitches
<1>5. TypeInv'
  BY <1>1, <1>2, <1>3 DEF TypeInv, Threads
<1>6. ThreadInv'
  <2>1. ASSUME NEW q \in Procs, q # p
        PROVE  /\ pc'[q] = pc[q] /\ state'[q] = state[q] /\ intena'[q] = intena[q]
               /\ q \in preempted' <=> q \in preempted
    BY <1>2, <1>3, <2>1 DEF TypeInv
  <2>2. state'[p] = s /\ intena'[p] = b
    BY <1>3 DEF TypeInv
  <2>3. QED
    BY <1>1, <1>2, <1>3, <2>1, <2>2 DEF ThreadInv, Boundary, InLoop
<1>7. MachineInv'
  BY Zenon, <1>2, <1>3, <1>4 DEF MachineInv
<1>8. FirstInv'
  BY <1>2, <1>3 DEF FirstInv, Boundary
<1>9. QED
  BY <1>5, <1>6, <1>7, <1>8

\* exit() takes the table lock and never comes back.
LEMMA ExitStep ==
    ASSUME NEW p \in Procs
    PROVE  IInv /\ Exit(p) => IInv'
<1> SUFFICES ASSUME IInv, Exit(p) PROVE IInv'
  OBVIOUS
<1> USE DEF Exit, At, callVars
<1>1. PICK i \in BOOLEAN : Is(m, TRUE, 0, i, {})
  BY Zenon, OnCpu DEF RunsIn
<1>2. Is(spinlockAcquire(m, "table"), FALSE, 1, TRUE, {"table"})
  BY Zenon, <1>1, AcquireFirst DEF Locks
<1>3. "zombie" \in ProcLabels
  BY DEF ProcLabels
<1>4. QED
  BY Zenon, <1>2, <1>3, Switches DEF Goto, IInv, TypeInv

\* sleep() switches with the table lock alone, once the caller's is released.
LEMMA SleepSchedStep ==
    ASSUME NEW p \in Procs
    PROVE  IInv /\ SleepSched(p) => IInv'
<1> SUFFICES ASSUME IInv, SleepSched(p) PROVE IInv'
  OBVIOUS
<1> USE DEF SleepSched, At, callVars
<1>1. Is(m, FALSE, 2, TRUE, {lk[p], "table"}) /\ lk[p] \in {"cons", "time"}
  BY Zenon, OnCpu DEF RunsIn, InLoop
<1>2. {lk[p], "table"} = {"table", lk[p]}
  OBVIOUS
<1>3. Is(spinlockRelease(m, lk[p]), FALSE, 1, TRUE, {"table"})
  BY Zenon, <1>1, <1>2, ReleaseNested DEF Locks
<1>4. "slept" \in ProcLabels
  BY DEF ProcLabels, InLoop
<1>5. chan' \in [Procs -> {"cons", "time", none}]
  BY <1>1 DEF IInv, TypeInv
<1>6. QED
  BY Zenon, <1>3, <1>4, <1>5, Switches DEF Goto

-----------------------------------------------------------------------------
(* Interrupts, and steps that change the states of other processes         *)

\* Making sleepers RUNNABLE between two places without a lock disturbs nothing.
LEMMA Wakes ==
    ASSUME IInv, NEW i \in BOOLEAN, Is(m', TRUE, 0, i, {}),
           cur = scheduler => pc[scheduler] = "enabled",
           cur # scheduler => cur \in Procs /\ cur \notin preempted /\ pc[cur] \in Boundary,
           state' \in [Procs -> {"RUNNABLE", "RUNNING", "SLEEPING", "ZOMBIE"}],
           \A q \in Procs : state[q] # "SLEEPING" => state'[q] = state[q],
           killed' \in [Procs -> BOOLEAN],
           UNCHANGED <<chan, cur, pc, preempted, intena, lk>>
    PROVE  IInv'
<1> USE DEF IInv
<1>1. TypeInv'
  BY DEF TypeInv
<1>2. ThreadInv'
  BY DEF TypeInv, ThreadInv, Threads
<1>3. MachineInv'
  BY Zenon DEF MachineInv, RunsIn, Boundary
<1>4. FirstInv'
  BY DEF FirstInv, TypeInv, Boundary, Is
<1>5. QED
  BY <1>1, <1>2, <1>3, <1>4

\* kill() takes and releases the table lock between two places without a lock.
LEMMA KillStep ==
    ASSUME NEW p \in Procs, NEW q \in Procs
    PROVE  IInv /\ Kill(p, q) => IInv'
<1> SUFFICES ASSUME IInv, Kill(p, q) PROVE IInv'
  OBVIOUS
<1> USE DEF Kill, At, callVars
<1>1. PICK i \in BOOLEAN : Is(m, TRUE, 0, i, {})
  BY Zenon, OnCpu DEF RunsIn
<1>2. Is(spinlockAcquire(m, "table"), FALSE, 1, TRUE, {"table"})
  BY Zenon, <1>1, AcquireFirst DEF Locks
<1>3. Is(m', TRUE, 0, TRUE, {})
  BY Zenon, <1>2, ReleaseLast DEF Locks
<1>4. cur \in Procs /\ cur # scheduler /\ cur \notin preempted /\ pc[cur] \in Boundary
  BY OnCpu DEF Boundary
<1>5. /\ state' \in [Procs -> {"RUNNABLE", "RUNNING", "SLEEPING", "ZOMBIE"}]
      /\ \A r \in Procs : state[r] # "SLEEPING" => state'[r] = state[r]
  BY DEF IInv, TypeInv
<1>6. killed' \in [Procs -> BOOLEAN]
  BY DEF IInv, TypeInv
<1>7. QED
  BY Zenon, <1>3, <1>4, <1>5, <1>6, Wakes

\* The keyboard's handler, with a line completed or not.
LEMMA KeyStep ==
    ASSUME NEW line \in BOOLEAN, Interruptible, KeyHandled(line),
           UNCHANGED <<chan, killed, cur, pc, preempted, intena, lk>>
    PROVE  IInv => IInv'
<1> SUFFICES ASSUME IInv PROVE IInv'
  OBVIOUS
<1>1. PICK i \in BOOLEAN : Is(m, TRUE, 0, i, {})
  BY Zenon, Interrupted
<1>2. Is(m', TRUE, 0, FALSE, {})
  BY Zenon, <1>1, KeyLeaves
<1>3. /\ state' \in [Procs -> {"RUNNABLE", "RUNNING", "SLEEPING", "ZOMBIE"}]
      /\ \A r \in Procs : state[r] # "SLEEPING" => state'[r] = state[r]
  BY DEF KeyHandled, Woken, IInv, TypeInv
<1>4. QED
  BY Zenon, <1>2, <1>3, Interrupted, Wakes DEF IInv, TypeInv

\* Every key is such a step.
LEMMA Keyboard ==
    ASSUME IInv, KeyDropped \/ \E k \in Keys : KeyEdit(k) \/ KeyTyped(k)
    PROVE  /\ \E line \in BOOLEAN : KeyHandled(line)
           /\ Interruptible
           /\ UNCHANGED <<chan, killed, cur, pc, preempted, intena, lk, ticks>>
<1>1. CASE KeyDropped
  BY Zenon, <1>1 DEF KeyDropped, callVars
<1>2. ASSUME NEW k \in Keys, KeyEdit(k)
      PROVE  /\ KeyHandled(FALSE) /\ Interruptible
             /\ UNCHANGED <<chan, killed, cur, pc, preempted, intena, lk, ticks>>
  BY Zenon, <1>2 DEF KeyEdit, callVars
<1>3. ASSUME NEW k \in Keys, KeyTyped(k)
      PROVE  /\ \E line \in BOOLEAN : KeyHandled(line)
             /\ Interruptible
             /\ UNCHANGED <<chan, killed, cur, pc, preempted, intena, lk, ticks>>
  <2> DEFINE line == \/ k \in {Newline, EndOfFile}
                     \/ Before(After(input.e), input.r) = INPUT_BUF
  <2>1. KeyHandled(line) /\ line \in BOOLEAN
    BY Zenon, <1>3 DEF KeyTyped
  <2>2. QED
    BY Zenon, <1>3, <2>1 DEF KeyTyped, callVars
<1>4. QED
  BY Zenon, <1>1, <1>2, <1>3

\* A timer interrupt in scheduler() has no process to switch from.
LEMMA TimerInSchedulerStep == IInv /\ TimerInScheduler => IInv'
<1> SUFFICES ASSUME IInv, TimerInScheduler PROVE IInv'
  OBVIOUS
<1>1. UNCHANGED <<m, state, chan, killed, cur, pc, preempted, intena, lk>>
  BY DEF TimerInScheduler, Ticked, NullCpu, callVars
<1>2. PICK i \in BOOLEAN : Is(m, TRUE, 0, i, {})
  BY Zenon, Interrupted DEF TimerInScheduler
<1>3. Interruptible
  BY DEF TimerInScheduler
<1>4. QED
  BY Zenon, <1>1, <1>2, <1>3, Interrupted, Wakes DEF IInv, TypeInv

\* One in a process makes it yield, with interrupts remembered as off: the handler
\* entered with them off.
LEMMA TimerInProcessStep ==
    ASSUME NEW p \in Procs
    PROVE  IInv /\ TimerInProcess(p) => IInv'
<1> SUFFICES ASSUME IInv, TimerInProcess(p) PROVE IInv'
  OBVIOUS
<1> USE DEF TimerInProcess, callVars
<1>1. PICK i \in BOOLEAN : Is(m, TRUE, 0, i, {})
  BY Zenon, Interrupted
<1>2. cur = p /\ p \notin preempted /\ pc[p] \in Boundary
  BY Interrupted, ConsoleAssumption DEF scheduler
<1>3. Is(spinlockAcquire(disableInterrupts(m), "table"), FALSE, 1, FALSE, {"table"})
  <2>1. Is(disableInterrupts(m), FALSE, 0, i, {})
    BY Zenon, <1>1, Flags
  <2>2. QED
    BY Zenon, <2>1, AcquireFirst DEF Locks
<1>4. Sched(p, spinlockAcquire(disableInterrupts(m), "table"), state, "RUNNABLE")
  BY DEF Ticked, NullCpu
<1>5. pc' = [pc EXCEPT ![p] = pc[p]] /\ pc[p] \in ProcLabels
  BY <1>2 DEF IInv, TypeInv, Threads, ProcLabels
<1>6. QED
  BY Zenon, <1>2, <1>3, <1>4, <1>5, Switches DEF IInv, TypeInv

\* yield() releases the lock with interrupts off, and iret turns them on.
LEMMA YieldReturnStep ==
    ASSUME NEW p \in Procs
    PROVE  IInv /\ YieldReturn(p) => IInv'
<1> SUFFICES ASSUME IInv, YieldReturn(p) PROVE IInv'
  OBVIOUS
<1> USE ConsoleAssumption DEF IInv, YieldReturn, callVars
<1>1. p # scheduler /\ pc[p] \in Boundary
  BY DEF ThreadInv, scheduler
<1>2. Is(m, FALSE, 1, FALSE, {"table"})
  BY Zenon, <1>1 DEF MachineInv
<1>3. Is(spinlockRelease(m, "table"), FALSE, 0, FALSE, {})
  BY Zenon, <1>2, ReleaseLast DEF Locks
<1>4. Is(m', TRUE, 0, FALSE, {})
  BY Zenon, <1>3, Flags
<1>5. TypeInv'
  BY DEF TypeInv
<1>6. ThreadInv'
  BY DEF ThreadInv
<1>7. MachineInv'
  BY Zenon, <1>1, <1>4 DEF MachineInv, RunsIn, Boundary
<1>8. FirstInv'
  <2>1. m'.flag = TRUE
    BY <1>4 DEF Is
  <2>2. QED
    BY <1>1, <2>1 DEF FirstInv, Boundary
<1>9. QED
  BY <1>5, <1>6, <1>7, <1>8

-----------------------------------------------------------------------------
(* The theorems                                                            *)

\* Every step of scheduler(), of a process and of an interrupt handler keeps the
\* invariant.
LEMMA Inductive == IInv /\ [Next]_vars => IInv'
<1> SUFFICES ASSUME IInv, [Next]_vars PROVE IInv'
  OBVIOUS
<1>1. CASE UNCHANGED vars
  <2>1. UNCHANGED <<m, state, chan, killed, cur, pc, preempted, intena, lk>>
    BY <1>1 DEF vars, threadVars, callVars
  <2>2. TypeInv' /\ ThreadInv'
    BY <2>1 DEF IInv, TypeInv, ThreadInv
  <2>3. MachineInv'
    BY Zenon, <2>1 DEF IInv, MachineInv, RunsIn
  <2>4. FirstInv'
    BY <2>1 DEF IInv, FirstInv
  <2>5. QED
    BY <2>2, <2>3, <2>4 DEF IInv
<1>2. CASE SchedulerAcquire \/ SchedulerRelease
  BY <1>2, SchedulerAcquireStep, SchedulerReleaseStep
<1>3. CASE KeyDropped \/ \E k \in Keys : KeyEdit(k) \/ KeyTyped(k)
  <2>1. PICK line \in BOOLEAN : KeyHandled(line)
    BY <1>3, Keyboard
  <2>2. Interruptible /\ UNCHANGED <<chan, killed, cur, pc, preempted, intena, lk>>
    BY <1>3, Keyboard
  <2>3. QED
    BY <2>1, <2>2, KeyStep
<1>4. CASE TimerInScheduler
  BY <1>4, TimerInSchedulerStep
<1>5. ASSUME NEW p \in Procs,
             \/ SchedulerRun(p) \/ TimerInProcess(p) \/ YieldReturn(p)
             \/ ForkRet(p) \/ ReturnToUser(p) \/ Exit(p)
      PROVE  IInv'
  BY <1>5, SchedulerRunStep, TimerInProcessStep, YieldReturnStep, ForkRetStep,
     ReturnToUserStep, ExitStep
<1>6. ASSUME NEW p \in Procs, NEW q \in Procs, Kill(p, q)
      PROVE  IInv'
  BY <1>6, KillStep
<1>7. ASSUME NEW p \in Procs, NEW l \in {"cons", "time"}, NEW i, SystemCall(p, l, i)
      PROVE  IInv'
  BY <1>7, SystemCallStep
<1>8. ASSUME NEW p \in Procs,
             \/ ReadTake(p) \/ LoopSleep(p) \/ LoopEnd(p) \/ Release(p)
             \/ LoopKilled(p) \/ SleepSched(p) \/ SleepReturn(p) \/ SleepAgain(p)
      PROVE  IInv'
  BY <1>8, LoopStep, LoopSleepStep, ReleaseStep, SleepSchedStep,
     SleepReturnStep,
     SleepAgainStep
<1>9. QED
  BY <1>1, <1>2, <1>3, <1>4, <1>5, <1>6, <1>7, <1>8 DEF Next

\* At all times the place of the thread on the CPU says what the interrupt flag,
\* the nesting of pushCli() and the locks held are.
THEOREM Invariance == Spec => []IInv
BY Initially, Inductive, PTL DEF Spec

\* No panic of spinlock.c or sched() is reached, for any number of processes and
\* any interleaving of their system calls with interrupts.
THEOREM NoPanic == Spec => []NoLockPanic
<1>1. IInv => NoLockPanic
  <2> SUFFICES ASSUME IInv PROVE m.panicked = FALSE
    BY Zenon DEF NoLockPanic
  <2> USE DEF IInv
  <2>1. \A f, d, i, h : Is(m, f, d, i, h) => m.panicked = FALSE
    BY DEF Is
  <2>2. CASE cur = scheduler
    BY Zenon, <2>1, <2>2 DEF TypeInv, MachineInv
  <2>3. CASE cur # scheduler /\ cur \in preempted
    BY Zenon, <2>1, <2>3 DEF MachineInv
  <2>4. CASE cur # scheduler /\ cur \notin preempted
    <3>1. cur \in Procs /\ RunsIn(cur) /\ pc[cur] \in ProcLabels \ {"zombie"}
      BY <2>4 DEF TypeInv, ThreadInv, MachineInv, Threads
    <3>2. QED
      BY Zenon, <2>1, <3>1 DEF RunsIn, ProcLabels, Boundary, InLoop
  <2>5. QED
    BY Zenon, <2>2, <2>3, <2>4
<1>2. QED
  BY <1>1, Invariance, PTL

\* A thread that has released its locks has interrupts on: sched() gives each the
\* InterruptsEnabled it had, and the first process has scheduler()'s.
THEOREM FlagRestored == Spec => []InterruptsRestored
<1>1. IInv => InterruptsRestored
  <2> SUFFICES ASSUME IInv, cur \notin preempted PROVE InterruptsRestored
    BY DEF InterruptsRestored
  <2> USE DEF IInv
  <2>1. \A f, i : Is(m, f, 0, i, {}) => m.flag = f /\ m.CliDepth = 0 /\ m.held = {}
    BY DEF Is
  <2>2. CASE cur = scheduler
    <3>1. pc[cur] \in {"enabled", "scan"}
      BY <2>2 DEF TypeInv
    <3>2. pc[cur] = "enabled" => m.flag = TRUE /\ m.CliDepth = 0 /\ m.held = {}
      BY Zenon, <2>1, <2>2 DEF MachineInv
    <3>3. QED
      BY <3>1, <3>2 DEF InterruptsRestored
  <2>3. CASE cur # scheduler
    <3>1. cur \in Procs /\ RunsIn(cur) /\ pc[cur] \in ProcLabels
      BY <2>3 DEF TypeInv, ThreadInv, MachineInv, Threads
    <3>2. pc[cur] # "enabled"
      BY <3>1 DEF ProcLabels, Boundary, InLoop
    <3>3. pc[cur] \in {"user", "ret", "again"} =>
              m.flag = TRUE /\ m.CliDepth = 0 /\ m.held = {}
      BY Zenon, <2>1, <3>1 DEF RunsIn
    <3>4. pc[cur] = "born" => m.CliDepth = 0 /\ m.held = {}
      BY <2>1, <3>1 DEF RunsIn
    <3>5. pc[cur] = "born" /\ (\A p \in Procs \ {cur} : pc[p] = "forkret") => m.flag
      BY <2>3 DEF FirstInv
    <3>6. QED
      BY <3>2, <3>3, <3>4, <3>5 DEF InterruptsRestored
  <2>4. QED
    BY <2>2, <2>3
<1>2. QED
  BY <1>1, Invariance, PTL
=============================================================================
