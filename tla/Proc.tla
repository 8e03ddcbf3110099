-------------------------------- MODULE Proc --------------------------------
(***************************************************************************)
(* The process table of the kernel: proc.c with the trap entries that call *)
(* it.  A step of this module is the code a CPU runs between two points at *)
(* which another CPU, or another process on this CPU, can be observed: a   *)
(* region that holds processTable.Lock is one step unless it ends in       *)
(* sched(), which switches stacks with the lock held.                      *)
(*                                                                         *)
(* The one sleeper with a lock of its own is consoleRead, which sleeps on  *)
(* &input.r holding cons.Lock; the input buffer itself is abstracted to    *)
(* whether there is input (input.r # input.w).                             *)
(***************************************************************************)
EXTENDS Integers

CONSTANTS NPROC,    \* entries of the process table (param.h)
          NCPU,     \* processors that run scheduler()
          MaxPid    \* bound: fork() is not called once nextpid exceeds it

ASSUME ProcAssumption ==
    /\ NPROC \in Nat \ {0}
    /\ NCPU \in Nat \ {0}
    /\ MaxPid \in Nat \ {0}

VARIABLES
    state,      \* Process.State
    pid,        \* Process.ProcessId
    parent,     \* Process.Parent, a slot or None
    chan,       \* Process.Chan, a slot, InputChan or None
    killed,     \* Process.IsKilled
    mem,        \* KernelStack and PageTable are allocated
    nextpid,
    np,         \* fork()'s local np, None outside fork
    pc,         \* where the kernel thread of a process is
    preempted,  \* the processes whose kernel thread is inside yield()
    cur,        \* Cpu.Process, and the stack the CPU runs on (None: scheduler)
    scan,       \* scheduler()'s local p
    ptLock,     \* the CPU that holds processTable.Lock, or None
    consLock,   \* the CPU that holds cons.Lock, or None
    line,       \* input.r # input.w
    panicked

idVars == <<pid, parent, mem, nextpid>>
tableVars == <<idVars, state, chan, killed>>
threadVars == <<np, pc, preempted>>
cpuVars == <<cur, scan>>
consVars == <<consLock, line>>
vars == <<tableVars, threadVars, cpuVars, ptLock, consVars, panicked>>

None == 0
Slots == 1..NPROC
Cpus == 1..NCPU
initproc == 1
InputChan == NPROC + 1      \* &input.r

States == {"UNUSED", "EMBRYO", "SLEEPING", "RUNNABLE", "RUNNING", "ZOMBIE"}

(* Where a kernel thread is.                                               *)
(*   user     in user space, or at the IsKilled test of trap()             *)
(*   forkret  created, switched to for the first time                      *)
(*   fork     in fork(), child allocated and private to it                 *)
(*   publish  in fork(), about to make the child RUNNABLE                  *)
(*   wait     in the loop of wait(), holding processTable.Lock             *)
(*   read     about to (re)acquire cons.Lock in consoleRead                *)
(*   sleep    in sleep(), holding cons.Lock, about to take the table lock  *)
(*   slept    in sleep(), past the call of sched()                         *)
(*   zombie   in exit(), past the call of sched()                          *)
Labels == {"user", "forkret", "fork", "publish", "wait", "read", "sleep",
           "slept", "zombie"}

\* The points at which interrupts are on, so the timer may preempt.
Preemptible == {"user", "fork", "publish", "read"}

-----------------------------------------------------------------------------

(* main() has run processTableInitialise and initialiseFirstUserProcess.   *)
Init ==
    /\ state = [p \in Slots |-> IF p = initproc THEN "RUNNABLE" ELSE "UNUSED"]
    /\ pid = [p \in Slots |-> IF p = initproc THEN 1 ELSE 0]
    /\ parent = [p \in Slots |-> None]
    /\ chan = [p \in Slots |-> None]
    /\ killed = [p \in Slots |-> FALSE]
    /\ mem = [p \in Slots |-> p = initproc]
    /\ nextpid = 2
    /\ np = [p \in Slots |-> None]
    /\ pc = [p \in Slots |-> IF p = initproc THEN "forkret" ELSE "zombie"]
    /\ preempted = {}
    /\ cur = [c \in Cpus |-> None]
    /\ scan = [c \in Cpus |-> 1]
    /\ ptLock = None
    /\ consLock = None
    /\ line = FALSE
    /\ panicked = FALSE

\* Process p executes its own code on CPU c and is at label l.
At(c, p, l) ==
    /\ ~panicked
    /\ cur[c] = p
    /\ state[p] = "RUNNING"
    /\ p \notin preempted
    /\ pc[p] = l

\* Process p is in user space and may enter the kernel by a system call:
\* trap() sends a killed process to exit() instead.
AtSyscall(c, p) == At(c, p, "user") /\ ~killed[p]

Goto(p, l) == pc' = [pc EXCEPT ![p] = l]

\* wakeup1(ch) applied to the states st.
Wakeup1(st, ch) ==
    [q \in Slots |-> IF st[q] = "SLEEPING" /\ chan[q] = ch THEN "RUNNABLE"
                                                           ELSE st[q]]

-----------------------------------------------------------------------------
(* scheduler()                                                             *)

SchedulerAcquire(c) ==
    /\ ~panicked
    /\ cur[c] = None
    /\ ptLock = None
    /\ ptLock' = c
    /\ scan' = [scan EXCEPT ![c] = 1]
    /\ UNCHANGED <<tableVars, threadVars, cur, consVars, panicked>>

\* The scan goes on after the process it ran; Skipping is a mutated form.
ScanAfterSkipping(p) == p + 2
ScanAfter(p) == p + 1

\* p is the next RUNNABLE entry of the scan.
SchedulerRun(c, p) ==
    /\ ~panicked
    /\ cur[c] = None
    /\ ptLock = c
    /\ p >= scan[c]
    /\ state[p] = "RUNNABLE"
    /\ \A q \in Slots : scan[c] <= q /\ q < p => state[q] # "RUNNABLE"
    /\ cur' = [cur EXCEPT ![c] = p]
    /\ state' = [state EXCEPT ![p] = "RUNNING"]
    /\ scan' = [scan EXCEPT ![c] = ScanAfter(p)]
    /\ UNCHANGED <<idVars, chan, killed, threadVars, ptLock, consVars,
                   panicked>>

\* The scan has reached the end of the table.
SchedulerRelease(c) ==
    /\ ~panicked
    /\ cur[c] = None
    /\ ptLock = c
    /\ \A q \in Slots : scan[c] <= q => state[q] # "RUNNABLE"
    /\ ptLock' = None
    /\ UNCHANGED <<tableVars, threadVars, cpuVars, consVars, panicked>>

\* sched() of the process on c, up to and including the return of swtch() in
\* scheduler().  The process has changed its state and holds the lock.
Sched(c, p) ==
    /\ ~panicked
    /\ cur[c] = p
    /\ state[p] # "RUNNING"
    /\ ptLock = c
    /\ cur' = [cur EXCEPT ![c] = None]
    /\ UNCHANGED <<tableVars, threadVars, scan, ptLock, consVars, panicked>>

-----------------------------------------------------------------------------
(* Threads that come back from swtch() with the table lock held            *)

ForkRet(c, p) ==
    /\ At(c, p, "forkret")
    /\ ptLock = c
    /\ ptLock' = None
    /\ Goto(p, "user")
    /\ UNCHANGED <<tableVars, np, preempted, cpuVars, consVars, panicked>>

\* The timer interrupt, up to the call of sched() in yield().  A killed
\* process interrupted in user space exits instead.
Yield(c, p) ==
    /\ \E l \in Preemptible : At(c, p, l)
    /\ pc[p] = "user" => ~killed[p]
    /\ ptLock = None
    /\ ptLock' = c
    /\ state' = [state EXCEPT ![p] = "RUNNABLE"]
    /\ preempted' = preempted \cup {p}
    /\ UNCHANGED <<idVars, chan, killed, np, pc, cpuVars, consVars,
                   panicked>>

YieldReturn(c, p) ==
    /\ ~panicked
    /\ cur[c] = p
    /\ state[p] = "RUNNING"
    /\ p \in preempted
    /\ ptLock = c
    /\ ptLock' = None
    /\ preempted' = preempted \ {p}
    /\ UNCHANGED <<tableVars, np, pc, cpuVars, consVars, panicked>>

-----------------------------------------------------------------------------
(* fork()                                                                  *)

\* nextpid++ (mutated: the counter stays).
PidStays == nextpid' = nextpid
PidAdvances == nextpid' = nextpid + 1

\* allocateProcess() under the table lock: the first UNUSED entry.
ForkAllocate(c, p, q) ==
    /\ AtSyscall(c, p)
    /\ ptLock = None
    /\ nextpid <= MaxPid
    /\ state[q] = "UNUSED"
    /\ \A r \in Slots : r < q => state[r] # "UNUSED"
    /\ state' = [state EXCEPT ![q] = "EMBRYO"]
    /\ pid' = [pid EXCEPT ![q] = nextpid]
    /\ PidAdvances
    /\ np' = [np EXCEPT ![p] = q]
    /\ Goto(p, "fork")
    /\ UNCHANGED <<parent, chan, killed, mem, preempted, cpuVars, ptLock,
                   consVars, panicked>>

\* No memory for the kernel stack or for the copy of the page table: the
\* entry is given up without the lock, its ProcessId left in place.
ForkFail(c, p) ==
    /\ At(c, p, "fork")
    /\ state' = [state EXCEPT ![np[p]] = "UNUSED"]
    /\ np' = [np EXCEPT ![p] = None]
    /\ Goto(p, "user")
    /\ UNCHANGED <<idVars, chan, killed, preempted, cpuVars, ptLock,
                   consVars, panicked>>

\* Kernel stack, context (forkret) and page table are in place.
ForkCopy(c, p) ==
    /\ At(c, p, "fork")
    /\ mem' = [mem EXCEPT ![np[p]] = TRUE]
    /\ parent' = [parent EXCEPT ![np[p]] = p]
    /\ pc' = [pc EXCEPT ![np[p]] = "forkret", ![p] = "publish"]
    /\ UNCHANGED <<state, pid, chan, killed, nextpid, np, preempted,
                   cpuVars, ptLock, consVars, panicked>>

ForkPublish(c, p) ==
    /\ At(c, p, "publish")
    /\ ptLock = None
    /\ state' = [state EXCEPT ![np[p]] = "RUNNABLE"]
    /\ np' = [np EXCEPT ![p] = None]
    /\ Goto(p, "user")
    /\ UNCHANGED <<idVars, chan, killed, preempted, cpuVars, ptLock,
                   consVars, panicked>>

-----------------------------------------------------------------------------
(* exit(), wait(), kill()                                                  *)

\* Called by the process itself or by trap() on its behalf.
InitExits(c) ==
    /\ At(c, initproc, "user")
    /\ panicked' = TRUE
    /\ UNCHANGED <<tableVars, threadVars, cpuVars, ptLock, consVars>>

\* (mutated: the parent's wakeup is missing)
ExitWakeupsInitOnly(p) ==
    IF \E q \in Slots : parent[q] = p /\ state[q] = "ZOMBIE"
    THEN Wakeup1(state, initproc) ELSE state

\* The states once exit() has woken the parent and, for a child that is a
\* zombie already, initproc, its new parent.
ExitWakeups(p) ==
    LET st == Wakeup1(state, parent[p])
    IN  IF \E q \in Slots : parent[q] = p /\ state[q] = "ZOMBIE"
        THEN Wakeup1(st, initproc) ELSE st

\* Abandoned children go to initproc (mutated: they keep their parent).
ReparentNobody(p) == parent
Reparent(p) == [q \in Slots |-> IF parent[q] = p THEN initproc ELSE parent[q]]

\* The table lock is kept for sched() (mutated: dropped before it).
ExitDropsLock(c) == ptLock' = None
ExitKeepsLock(c) == ptLock' = c

\* exit() up to its call of sched().
Exit(c, p) ==
    /\ At(c, p, "user")
    /\ p # initproc
    /\ ptLock = None
    /\ ExitKeepsLock(c)
    /\ state' = [ExitWakeups(p) EXCEPT ![p] = "ZOMBIE"]
    /\ parent' = Reparent(p)
    /\ Goto(p, "zombie")
    /\ UNCHANGED <<pid, chan, killed, mem, nextpid, np, preempted, cpuVars,
                   consVars, panicked>>

WaitCall(c, p) ==
    /\ AtSyscall(c, p)
    /\ ptLock = None
    /\ ptLock' = c
    /\ Goto(p, "wait")
    /\ UNCHANGED <<tableVars, np, preempted, cpuVars, consVars, panicked>>

Children(p) == {q \in Slots : parent[q] = p}

\* The table scan of wait(), entered from WaitCall or on the return of sleep().
WaitScan(c, p) == At(c, p, "wait") /\ ptLock = c

\* The first exited child q is freed.
WaitReap(c, p, q) ==
    /\ WaitScan(c, p)
    /\ parent[q] = p
    /\ state[q] = "ZOMBIE"
    /\ \A r \in Children(p) : r < q => state[r] # "ZOMBIE"
    /\ mem' = [mem EXCEPT ![q] = FALSE]
    /\ pid' = [pid EXCEPT ![q] = 0]
    /\ parent' = [parent EXCEPT ![q] = None]
    /\ killed' = [killed EXCEPT ![q] = FALSE]
    /\ state' = [state EXCEPT ![q] = "UNUSED"]
    /\ chan' = [chan EXCEPT ![p] = None]
    /\ ptLock' = None
    /\ Goto(p, "user")
    /\ UNCHANGED <<nextpid, np, preempted, cpuVars, consVars, panicked>>

\* wait() returns -1.
WaitFail(c, p) ==
    /\ WaitScan(c, p)
    /\ \A q \in Children(p) : state[q] # "ZOMBIE"
    /\ Children(p) = {} \/ killed[p]
    /\ chan' = [chan EXCEPT ![p] = None]
    /\ ptLock' = None
    /\ Goto(p, "user")
    /\ UNCHANGED <<state, idVars, killed, np, preempted, cpuVars, consVars,
                   panicked>>

\* sleep(curproc, &processTable.Lock) up to its call of sched().
WaitSleep(c, p) ==
    /\ WaitScan(c, p)
    /\ \A q \in Children(p) : state[q] # "ZOMBIE"
    /\ Children(p) # {}
    /\ ~killed[p]
    /\ chan' = [chan EXCEPT ![p] = p]
    /\ state' = [state EXCEPT ![p] = "SLEEPING"]
    /\ UNCHANGED <<idVars, killed, threadVars, cpuVars, ptLock, consVars,
                   panicked>>

\* A sleeping victim is made RUNNABLE (mutated: it sleeps on).
KillLeaves(st) == st
KillWakes(st) == IF st = "SLEEPING" THEN "RUNNABLE" ELSE st

\* kill(n) finds the entry q with ProcessId n, whatever its state.
Kill(c, p, n, q) ==
    /\ AtSyscall(c, p)
    /\ ptLock = None
    /\ pid[q] = n
    /\ \A r \in Slots : r < q => pid[r] # n
    /\ killed' = [killed EXCEPT ![q] = TRUE]
    /\ state' = [state EXCEPT ![q] = KillWakes(@)]
    /\ UNCHANGED <<idVars, chan, threadVars, cpuVars, ptLock, consVars,
                   panicked>>

\* A trap the kernel does not expect, taken in user space.
Fault(c, p) ==
    /\ At(c, p, "user")
    /\ killed' = [killed EXCEPT ![p] = TRUE]
    /\ UNCHANGED <<state, idVars, chan, threadVars, cpuVars, ptLock,
                   consVars, panicked>>

-----------------------------------------------------------------------------
(* consoleRead() and the keyboard interrupt                                *)

\* consoleRead takes cons.Lock, on entry or on the return of sleep(), finds
\* input and returns; there may be more than it took.
ReadLine(c, p) ==
    /\ AtSyscall(c, p) \/ At(c, p, "read")
    /\ consLock = None
    /\ line
    /\ line' \in BOOLEAN
    /\ Goto(p, "user")
    /\ UNCHANGED <<tableVars, np, preempted, cpuVars, ptLock, consLock,
                   panicked>>

\* No input and the process was killed: return -1.
ReadKilled(c, p) ==
    /\ At(c, p, "read")
    /\ consLock = None
    /\ ~line
    /\ killed[p]
    /\ Goto(p, "user")
    /\ UNCHANGED <<tableVars, np, preempted, cpuVars, ptLock, consVars,
                   panicked>>

\* The reader goes to sleep only if it was not killed (mutated: always).
SleepsRegardless(p) == TRUE
SleepsUnlessKilled(p) == ~killed[p]

\* cons.Lock is held from the test to sleep() (mutated: dropped between).
TestUnlocked(c) == consLock' = None
TestLocked(c) == consLock' = c

\* No input, or what there was did not complete the read and is consumed:
\* call sleep(&input.r, &cons.Lock) with cons.Lock held.
ReadBlock(c, p) ==
    /\ AtSyscall(c, p) \/ At(c, p, "read")
    /\ consLock = None
    /\ line' = FALSE
    /\ SleepsUnlessKilled(p)
    /\ TestLocked(c)
    /\ Goto(p, "sleep")
    /\ UNCHANGED <<tableVars, np, preempted, cpuVars, ptLock, panicked>>

\* sleep() drops the caller's lock (mutated: keeps it).
SleepKeepsLock == consLock' = consLock
SleepDropsLock == consLock' = None

\* sleep(): take the table lock, drop cons.Lock, up to the call of sched().
Sleep(c, p) ==
    /\ At(c, p, "sleep")
    /\ ptLock = None
    /\ ptLock' = c
    /\ SleepDropsLock
    /\ chan' = [chan EXCEPT ![p] = InputChan]
    /\ state' = [state EXCEPT ![p] = "SLEEPING"]
    /\ Goto(p, "slept")
    /\ UNCHANGED <<idVars, killed, np, preempted, cpuVars, line, panicked>>

SleepReturn(c, p) ==
    /\ At(c, p, "slept")
    /\ ptLock = c
    /\ chan' = [chan EXCEPT ![p] = None]
    /\ ptLock' = None
    /\ Goto(p, "read")
    /\ UNCHANGED <<state, idVars, killed, np, preempted, cpuVars, consVars,
                   panicked>>

\* consoleInterrupt completes a line or fills the buffer: cons.Lock, then
\* wakeup(&input.r).  An interrupt arrives on a CPU that holds no lock.
ConsoleInterrupt ==
    /\ ~panicked
    /\ consLock = None
    /\ ptLock = None
    /\ line' = TRUE
    /\ state' = Wakeup1(state, InputChan)
    /\ UNCHANGED <<idVars, chan, killed, threadVars, cpuVars, ptLock,
                   consLock, panicked>>

\* panic() loops for ever.
Panicked == panicked /\ UNCHANGED vars

-----------------------------------------------------------------------------

\* Code that runs with interrupts off: nothing preempts it.
LockedStep(c, p) ==
    \/ Sched(c, p) \/ ForkRet(c, p) \/ YieldReturn(c, p)
    \/ WaitFail(c, p) \/ WaitSleep(c, p)
    \/ \E q \in Slots : WaitReap(c, p, q)
    \/ Sleep(c, p) \/ SleepReturn(c, p)

\* Code that runs with interrupts on.
PreemptibleStep(c, p) ==
    \/ ForkFail(c, p) \/ ForkCopy(c, p) \/ ForkPublish(c, p)
    \/ ReadKilled(c, p)
    \/ At(c, p, "read") /\ (ReadLine(c, p) \/ ReadBlock(c, p))

SchedulerStep(c) ==
    \/ SchedulerAcquire(c)
    \/ \E p \in Slots : SchedulerRun(c, p)
    \/ SchedulerRelease(c)

Next ==
    \/ \E c \in Cpus :
        \/ SchedulerAcquire(c) \/ SchedulerRelease(c)
        \/ InitExits(c)
        \/ \E p \in Slots :
            \/ SchedulerRun(c, p) \/ Sched(c, p)
            \/ ForkRet(c, p) \/ Yield(c, p) \/ YieldReturn(c, p)
            \/ ForkFail(c, p) \/ ForkCopy(c, p) \/ ForkPublish(c, p)
            \/ Exit(c, p)
            \/ WaitCall(c, p) \/ WaitFail(c, p) \/ WaitSleep(c, p)
            \/ Fault(c, p)
            \/ ReadLine(c, p) \/ ReadKilled(c, p) \/ ReadBlock(c, p)
            \/ Sleep(c, p) \/ SleepReturn(c, p)
            \/ \E q \in Slots : ForkAllocate(c, p, q) \/ WaitReap(c, p, q)
            \/ \E n \in 0..MaxPid, q \in Slots : Kill(c, p, n, q)
    \/ ConsoleInterrupt
    \/ Panicked

Spec == Init /\ [][Next]_vars

(* A CPU never stops: scheduler() loops, code with interrupts off runs to  *)
(* its end, code with interrupts on gets somewhere in its time slices, and *)
(* a killed process in user space is taken out by the next interrupt.  A   *)
(* timer interrupt that is pending is delivered as soon as interrupts are  *)
(* on, hence strong fairness.                                              *)
Fairness ==
    \A c \in Cpus :
        /\ WF_vars(SchedulerStep(c))
        /\ WF_vars(killed[initproc] /\ InitExits(c))
        /\ \A p \in Slots :
            /\ WF_vars(LockedStep(c, p))
            /\ SF_vars(PreemptibleStep(c, p))
            /\ WF_vars(killed[p] /\ Exit(c, p))
            /\ SF_vars(Yield(c, p))

FairSpec == Spec /\ Fairness

-----------------------------------------------------------------------------
(* Safety                                                                  *)

TypeOK ==
    /\ state \in [Slots -> States]
    /\ pid \in [Slots -> Nat]
    /\ parent \in [Slots -> Slots \cup {None}]
    /\ chan \in [Slots -> Slots \cup {None, InputChan}]
    /\ killed \in [Slots -> BOOLEAN]
    /\ mem \in [Slots -> BOOLEAN]
    /\ nextpid \in Nat
    /\ np \in [Slots -> Slots \cup {None}]
    /\ pc \in [Slots -> Labels]
    /\ preempted \in SUBSET Slots
    /\ cur \in [Cpus -> Slots \cup {None}]
    /\ scan \in [Cpus -> 1..(NPROC + 1)]
    /\ ptLock \in Cpus \cup {None}
    /\ consLock \in Cpus \cup {None}
    /\ line \in BOOLEAN
    /\ panicked \in BOOLEAN

(* sched() finds what its panics demand: the process that is about to give *)
(* up its CPU holds processTable.Lock and no other lock.  A thread that    *)
(* comes back from swtch() holds the lock the scheduler took for it.  A    *)
(* RUNNING process is on a CPU, and no two CPUs are on one kernel stack.   *)
SchedDiscipline ==
    /\ \A c \in Cpus : cur[c] # None /\ state[cur[c]] # "RUNNING" =>
           ptLock = c /\ consLock # c
    /\ \A c \in Cpus : cur[c] # None
                        /\ (\/ pc[cur[c]] \in {"forkret", "wait", "slept"}
                            \/ cur[c] \in preempted) =>
           ptLock = c
    /\ \A p \in Slots : state[p] = "RUNNING" => \E c \in Cpus : cur[c] = p
    /\ \A c, d \in Cpus : cur[c] # None /\ cur[c] = cur[d] => c = d

(* wait() never frees the kernel stack or page table a CPU still executes  *)
(* on, and scheduler() never switches to a process without them.           *)
StackInUse ==
    /\ \A c \in Cpus : cur[c] # None => mem[cur[c]]
    /\ \A p \in Slots : state[p] = "RUNNABLE" => mem[p]

(* No wakeup is lost: a process asleep in wait() has a child, none of its  *)
(* children has exited, and it was not killed; a process asleep in         *)
(* consoleRead has no input to read.                                       *)
NoLostWakeup ==
    \A p \in Slots : state[p] = "SLEEPING" =>
        /\ chan[p] = p =>
            /\ \E q \in Slots : parent[q] = p
            /\ \A q \in Slots : parent[q] = p => state[q] # "ZOMBIE"
            /\ ~killed[p]
        /\ chan[p] = InputChan => ~line

(* Every process but initproc has a parent that is alive and can wait for  *)
(* it: exit() leaves no child with a dead parent.                          *)
ParentAlive ==
    \A p \in Slots :
        p # initproc /\ state[p] \notin {"UNUSED", "EMBRYO"} =>
            /\ parent[p] \in Slots \ {p}
            /\ state[parent[p]] \notin {"UNUSED", "EMBRYO", "ZOMBIE"}

(* A ProcessId other than 0 names one entry, stale ones included, so the   *)
(* first match of kill() is the only one.                                  *)
PidsUnique ==
    \A p, q \in Slots : pid[p] = pid[q] /\ pid[p] # 0 => p = q

(* With one CPU, kill() cannot fall between the IsKilled test of a sleeper *)
(* and its sleep(): no process sleeps on with IsKilled set.                *)
KilledNotAsleep ==
    \A p \in Slots : killed[p] => state[p] # "SLEEPING"

(* A new process starts with the kill flag of no earlier one: "initialize  *)
(* state required to run in the kernel" (proc.c:77).                       *)
BornNotKilled ==
    [][\A p \in Slots :
        state[p] = "UNUSED" /\ state'[p] = "EMBRYO" => ~killed'[p]]_vars

-----------------------------------------------------------------------------
(* Liveness                                                                *)

(* A process that was killed exits, wherever it was: asleep, preempted or  *)
(* in the middle of a system call.                                         *)
KilledExits ==
    \A p \in Slots :
        killed[p] /\ state[p] # "UNUSED"
            ~> state[p] \in {"ZOMBIE", "UNUSED"} \/ panicked

(* wait() returns once a child has exited.                                 *)
WaitReturns ==
    \A p \in Slots :
        pc[p] = "wait" /\ (\E q \in Children(p) : state[q] = "ZOMBIE")
            ~> pc[p] # "wait" \/ panicked
=============================================================================
