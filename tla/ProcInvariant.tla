----------------------------- MODULE ProcInvariant -----------------------------
(***************************************************************************)
(* The inductive invariant of Proc, for any number of CPUs and table       *)
(* entries, and the proof that a step keeps its part about threads, CPUs   *)
(* and locks.  Module ProcProofs has the rest and the theorems.            *)
(***************************************************************************)
EXTENDS Proc, TLAPS

Alive == {"SLEEPING", "RUNNABLE", "RUNNING"}

(* What the label of a kernel thread says about the state of its process.  *)
PcInv ==
    \A p \in Slots :
        /\ pc[p] \in Preemptible => state[p] \in {"RUNNABLE", "RUNNING"}
        /\ pc[p] = "sleep" => state[p] = "RUNNING"
        /\ pc[p] \in {"wait", "slept"} => state[p] \in Alive
        /\ pc[p] = "zombie" => state[p] \in {"ZOMBIE", "UNUSED", "EMBRYO"}
        /\ pc[p] = "forkret" => state[p] \in {"EMBRYO", "RUNNABLE", "RUNNING"}
        /\ p \in preempted => pc[p] \in Preemptible
        /\ state[p] = "RUNNABLE" /\ pc[p] \in Preemptible => p \in preempted
        /\ state[p] = "SLEEPING" => IF pc[p] = "wait" THEN chan[p] = p
                                                      ELSE chan[p] = InputChan

(* Who is on a CPU: a process leaves its CPU, and the state in which the   *)
(* scheduler may pick it up is visible, only with the table lock held.     *)
CpuInv ==
    /\ \A c \in Cpus : cur[c] # None => state[cur[c]] \notin {"UNUSED", "EMBRYO"}
    /\ \A c \in Cpus : cur[c] # None /\ state[cur[c]] # "RUNNING" => ptLock = c
    /\ \A p \in Slots : state[p] = "RUNNING" => \E c \in Cpus : cur[c] = p
    /\ \A c, d \in Cpus : cur[c] # None /\ cur[c] = cur[d] => c = d

(* A thread that comes back from swtch() holds the table lock.             *)
HandOffInv ==
    \A c \in Cpus :
        cur[c] # None /\ (\/ pc[cur[c]] \in {"forkret", "wait", "slept"}
                          \/ cur[c] \in preempted) =>
            ptLock = c

(* cons.Lock is held across steps only by a reader on its way to sleep().  *)
ConsInv ==
    /\ \A c \in Cpus : consLock = c => cur[c] # None /\ pc[cur[c]] = "sleep"
    /\ \A c \in Cpus : cur[c] # None /\ pc[cur[c]] = "sleep" => consLock = c
    /\ \A p \in Slots : pc[p] = "sleep" => ~line

(* The table entry a fork() works on is private to it until it publishes.  *)
ForkInv ==
    /\ \A p \in Slots :
        IF pc[p] \in {"fork", "publish"}
        THEN np[p] # None /\ state[np[p]] = "EMBRYO" ELSE np[p] = None
    /\ \A p \in Slots : pc[p] = "fork" => pc[np[p]] = "zombie"
    /\ \A p \in Slots : pc[p] = "publish" =>
           mem[np[p]] /\ parent[np[p]] = p /\ pc[np[p]] = "forkret"
    /\ \A p, q \in Slots : np[p] # None /\ np[p] = np[q] => p = q
    /\ \A q \in Slots : state[q] = "EMBRYO" /\ parent[q] # None =>
           pc[parent[q]] = "publish" /\ np[parent[q]] = q

(* Kernel memory and family of every process.                              *)
FamilyInv ==
    /\ state[initproc] \in Alive /\ parent[initproc] = None
    /\ \A p \in Slots : state[p] \notin {"UNUSED", "EMBRYO"} => mem[p]
    /\ \A p \in Slots : state[p] = "UNUSED" => parent[p] = None
    /\ \A p \in Slots : parent[p] # None =>
           parent[p] # p /\ state[parent[p]] \in Alive
    /\ \A p \in Slots : p # initproc /\ state[p] \notin {"UNUSED", "EMBRYO"} =>
           parent[p] # None

PidInv ==
    /\ \A p \in Slots : pid[p] < nextpid
    /\ nextpid > 0
    /\ PidsUnique

IInv ==
    /\ TypeOK
    /\ PcInv
    /\ CpuInv
    /\ HandOffInv
    /\ ConsInv
    /\ ForkInv
    /\ FamilyInv
    /\ NoLostWakeup
    /\ PidInv

-----------------------------------------------------------------------------

(* The provers a leaf is tried with, and the time each may take.           *)
USE SMTT(30), Z3T(30), ZenonT(30)

(* The distinctness of the constants, so that intervals stay folded.       *)
LEMMA Constants ==
    /\ None \notin Slots
    /\ None \notin Cpus
    /\ initproc \in Slots
    /\ InputChan \notin Slots
    /\ InputChan # None
    BY ProcAssumption DEF None, Slots, Cpus, initproc, InputChan

(* What exit() does to the states: the caller is a zombie, some sleepers   *)
(* are woken, nothing else changes.                                        *)
LEMMA ExitStates ==
    ASSUME TypeOK, NEW c \in Cpus, NEW p \in Slots, Exit(c, p)
    PROVE  /\ state'[p] = "ZOMBIE"
           /\ \A q \in Slots \ {p} :
                \/ state'[q] = state[q]
                \/ state[q] = "SLEEPING" /\ state'[q] = "RUNNABLE"
    BY DEF TypeOK, Exit, ExitWakeups, Wakeup1

(* Every step keeps the variables in their types.                          *)
LEMMA TypeStep ==
    ASSUME TypeOK, [Next]_vars
    PROVE  TypeOK'
<1> USE Constants DEF TypeOK, States, Labels, idVars, tableVars, threadVars,
    cpuVars, consVars
<1>a. 1 \in 1..(NPROC + 1)
    BY ProcAssumption
<1>b. \A p \in Slots : p + 1 \in 1..(NPROC + 1)
    BY ProcAssumption DEF Slots
<1>1. ASSUME NEW c \in Cpus, SchedulerAcquire(c) PROVE TypeOK'
    <2>1. scan' \in [Cpus -> 1..(NPROC + 1)]
        BY <1>1, <1>a DEF SchedulerAcquire
    <2> QED
        BY <1>1, <2>1 DEF SchedulerAcquire
<1>2. ASSUME NEW c \in Cpus, SchedulerRelease(c) PROVE TypeOK'
    BY <1>2 DEF SchedulerRelease
<1>3. ASSUME NEW c \in Cpus, InitExits(c) PROVE TypeOK'
    BY <1>3 DEF InitExits, At
<1>4. ASSUME NEW c \in Cpus, NEW p \in Slots, SchedulerRun(c, p) PROVE TypeOK'
    <2>1. scan' \in [Cpus -> 1..(NPROC + 1)]
        BY <1>4, <1>b DEF SchedulerRun, ScanAfter
    <2> QED
        BY <1>4, <2>1 DEF SchedulerRun
<1>5. ASSUME NEW c \in Cpus, NEW p \in Slots, Sched(c, p) PROVE TypeOK'
    BY <1>5 DEF Sched
<1>6. ASSUME NEW c \in Cpus, NEW p \in Slots, ForkRet(c, p) PROVE TypeOK'
    BY <1>6 DEF ForkRet, At, Goto
<1>7. ASSUME NEW c \in Cpus, NEW p \in Slots, Yield(c, p) PROVE TypeOK'
    BY <1>7 DEF Yield, At
<1>8. ASSUME NEW c \in Cpus, NEW p \in Slots, YieldReturn(c, p) PROVE TypeOK'
    BY <1>8 DEF YieldReturn
<1>9. ASSUME NEW c \in Cpus, NEW p \in Slots, ForkFail(c, p) PROVE TypeOK'
    BY Zenon, <1>9 DEF ForkFail, At, Goto
<1>10. ASSUME NEW c \in Cpus, NEW p \in Slots, ForkCopy(c, p) PROVE TypeOK'
    BY Zenon, <1>10 DEF ForkCopy, At
<1>11. ASSUME NEW c \in Cpus, NEW p \in Slots, ForkPublish(c, p) PROVE TypeOK'
    BY Zenon, <1>11 DEF ForkPublish, At, Goto
<1>12. ASSUME NEW c \in Cpus, NEW p \in Slots, Exit(c, p) PROVE TypeOK'
    <2>1. state' \in [Slots -> States]
        BY <1>12 DEF Exit, ExitWakeups, Wakeup1
    <2>2. parent' \in [Slots -> Slots \cup {None}]
        BY <1>12 DEF Exit, Reparent
    <2> QED
        BY <1>12, <2>1, <2>2 DEF Exit, At, Goto, ExitKeepsLock
<1>13. ASSUME NEW c \in Cpus, NEW p \in Slots, WaitCall(c, p) PROVE TypeOK'
    BY <1>13 DEF WaitCall, AtSyscall, At, Goto
<1>14. ASSUME NEW c \in Cpus, NEW p \in Slots, WaitFail(c, p) PROVE TypeOK'
    BY <1>14 DEF WaitFail, WaitScan, At, Goto, Children
<1>15. ASSUME NEW c \in Cpus, NEW p \in Slots, WaitSleep(c, p) PROVE TypeOK'
    BY <1>15 DEF WaitSleep, WaitScan, At, Children
<1>16. ASSUME NEW c \in Cpus, NEW p \in Slots, Fault(c, p) PROVE TypeOK'
    BY <1>16 DEF Fault, At
<1>17. ASSUME NEW c \in Cpus, NEW p \in Slots, ReadLine(c, p) PROVE TypeOK'
    BY <1>17 DEF ReadLine, AtSyscall, At, Goto
<1>18. ASSUME NEW c \in Cpus, NEW p \in Slots, ReadKilled(c, p) PROVE TypeOK'
    BY <1>18 DEF ReadKilled, At, Goto
<1>19. ASSUME NEW c \in Cpus, NEW p \in Slots, ReadBlock(c, p) PROVE TypeOK'
    BY Zenon, <1>19 DEF ReadBlock, AtSyscall, At, Goto, SleepsUnlessKilled,
       TestLocked
<1>20. ASSUME NEW c \in Cpus, NEW p \in Slots, Sleep(c, p) PROVE TypeOK'
    BY <1>20 DEF Sleep, At, Goto, SleepDropsLock
<1>21. ASSUME NEW c \in Cpus, NEW p \in Slots, SleepReturn(c, p) PROVE TypeOK'
    BY <1>21 DEF SleepReturn, At, Goto
<1>22. ASSUME NEW c \in Cpus, NEW p \in Slots, NEW q \in Slots,
              ForkAllocate(c, p, q)
       PROVE  TypeOK'
    <2>1. pid' \in [Slots -> Nat] /\ nextpid' \in Nat
        BY <1>22 DEF ForkAllocate, PidAdvances
    <2> QED
        BY <1>22, <2>1 DEF ForkAllocate, Goto
<1>23. ASSUME NEW c \in Cpus, NEW p \in Slots, NEW q \in Slots,
              WaitReap(c, p, q)
       PROVE  TypeOK'
    BY <1>23 DEF WaitReap, WaitScan, At, Goto, Children
<1>24. ASSUME NEW c \in Cpus, NEW p \in Slots, NEW n \in 0..MaxPid, NEW q \in Slots,
              Kill(c, p, n, q)
       PROVE  TypeOK'
    BY <1>24 DEF Kill, AtSyscall, At, KillWakes
<1>25. CASE ConsoleInterrupt
    BY <1>25 DEF ConsoleInterrupt, Wakeup1
<1>26. CASE Panicked
    BY <1>26 DEF Panicked, vars, tableVars, threadVars, cpuVars, consVars
<1>27. CASE UNCHANGED vars
    BY <1>27 DEF vars
<1> QED
    BY Zenon, <1>1, <1>2, <1>3, <1>4, <1>5, <1>6, <1>7, <1>8, <1>9, <1>10,
       <1>11,
        <1>12, <1>13, <1>14, <1>15, <1>16, <1>17, <1>18, <1>19, <1>20, <1>21,
        <1>22, <1>23, <1>24, <1>25, <1>26, <1>27 DEF Next

(* A thread's label and its state change together.                         *)
LEMMA PcStep ==
    ASSUME TypeOK, PcInv, ForkInv, [Next]_vars
    PROVE  PcInv'
<1> USE Constants DEF TypeOK, PcInv, ForkInv, Preemptible, Labels, States,
    Alive, idVars, tableVars, threadVars, cpuVars, consVars
<1>1. ASSUME NEW c \in Cpus, SchedulerAcquire(c) PROVE PcInv'
    BY <1>1 DEF SchedulerAcquire
<1>2. ASSUME NEW c \in Cpus, SchedulerRelease(c) PROVE PcInv'
    BY <1>2 DEF SchedulerRelease
<1>3. ASSUME NEW c \in Cpus, InitExits(c) PROVE PcInv'
    BY <1>3 DEF InitExits, At
<1>4. ASSUME NEW c \in Cpus, NEW p \in Slots, SchedulerRun(c, p) PROVE PcInv'
    BY <1>4 DEF SchedulerRun, ScanAfter
<1>5. ASSUME NEW c \in Cpus, NEW p \in Slots, Sched(c, p) PROVE PcInv'
    BY <1>5 DEF Sched
<1>6. ASSUME NEW c \in Cpus, NEW p \in Slots, ForkRet(c, p) PROVE PcInv'
    BY <1>6 DEF ForkRet, At, Goto
<1>7. ASSUME NEW c \in Cpus, NEW p \in Slots, Yield(c, p) PROVE PcInv'
    BY <1>7 DEF Yield, At
<1>8. ASSUME NEW c \in Cpus, NEW p \in Slots, YieldReturn(c, p) PROVE PcInv'
    BY <1>8 DEF YieldReturn
<1>9. ASSUME NEW c \in Cpus, NEW p \in Slots, ForkFail(c, p) PROVE PcInv'
    BY <1>9 DEF ForkFail, At, Goto
<1>10. ASSUME NEW c \in Cpus, NEW p \in Slots, ForkCopy(c, p) PROVE PcInv'
    BY <1>10 DEF ForkCopy, At
<1>11. ASSUME NEW c \in Cpus, NEW p \in Slots, ForkPublish(c, p) PROVE PcInv'
    BY <1>11 DEF ForkPublish, At, Goto
<1>12. ASSUME NEW c \in Cpus, NEW p \in Slots, Exit(c, p) PROVE PcInv'
    BY <1>12 DEF Exit, At, Goto, ExitWakeups, Wakeup1, Reparent, ExitKeepsLock
<1>13. ASSUME NEW c \in Cpus, NEW p \in Slots, WaitCall(c, p) PROVE PcInv'
    BY <1>13 DEF WaitCall, AtSyscall, At, Goto
<1>14. ASSUME NEW c \in Cpus, NEW p \in Slots, WaitFail(c, p) PROVE PcInv'
    BY <1>14 DEF WaitFail, WaitScan, At, Goto, Children
<1>15. ASSUME NEW c \in Cpus, NEW p \in Slots, WaitSleep(c, p) PROVE PcInv'
    BY <1>15 DEF WaitSleep, WaitScan, At, Children
<1>16. ASSUME NEW c \in Cpus, NEW p \in Slots, Fault(c, p) PROVE PcInv'
    BY <1>16 DEF Fault, At
<1>17. ASSUME NEW c \in Cpus, NEW p \in Slots, ReadLine(c, p) PROVE PcInv'
    BY <1>17 DEF ReadLine, AtSyscall, At, Goto
<1>18. ASSUME NEW c \in Cpus, NEW p \in Slots, ReadKilled(c, p) PROVE PcInv'
    BY <1>18 DEF ReadKilled, At, Goto
<1>19. ASSUME NEW c \in Cpus, NEW p \in Slots, ReadBlock(c, p) PROVE PcInv'
    BY <1>19 DEF ReadBlock, AtSyscall, At, Goto, SleepsUnlessKilled, TestLocked
<1>20. ASSUME NEW c \in Cpus, NEW p \in Slots, Sleep(c, p) PROVE PcInv'
    BY <1>20 DEF Sleep, At, Goto, SleepDropsLock
<1>21. ASSUME NEW c \in Cpus, NEW p \in Slots, SleepReturn(c, p) PROVE PcInv'
    BY <1>21 DEF SleepReturn, At, Goto
<1>22. ASSUME NEW c \in Cpus, NEW p \in Slots, NEW q \in Slots,
              ForkAllocate(c, p, q)
       PROVE  PcInv'
    BY <1>22 DEF ForkAllocate, AtSyscall, At, Goto, PidAdvances
<1>23. ASSUME NEW c \in Cpus, NEW p \in Slots, NEW q \in Slots,
              WaitReap(c, p, q)
       PROVE  PcInv'
    BY <1>23 DEF WaitReap, WaitScan, At, Goto, Children
<1>24. ASSUME NEW c \in Cpus, NEW p \in Slots, NEW n \in 0..MaxPid, NEW q \in Slots,
              Kill(c, p, n, q)
       PROVE  PcInv'
    BY <1>24 DEF Kill, AtSyscall, At, KillWakes
<1>25. CASE ConsoleInterrupt
    BY <1>25 DEF ConsoleInterrupt, Wakeup1
<1>26. CASE Panicked
    BY <1>26 DEF Panicked, vars, tableVars, threadVars, cpuVars, consVars
<1>27. CASE UNCHANGED vars
    BY <1>27 DEF vars
<1> QED
    BY Zenon, <1>1, <1>2, <1>3, <1>4, <1>5, <1>6, <1>7, <1>8, <1>9, <1>10,
       <1>11,
        <1>12, <1>13, <1>14, <1>15, <1>16, <1>17, <1>18, <1>19, <1>20, <1>21,
        <1>22, <1>23, <1>24, <1>25, <1>26, <1>27 DEF Next

(* Processes get on and off a CPU only under the table lock.               *)
LEMMA CpuStep ==
    ASSUME TypeOK, CpuInv, PcInv, ForkInv, [Next]_vars
    PROVE  CpuInv'
<1> USE Constants DEF TypeOK, CpuInv, PcInv, ForkInv, Alive, Preemptible,
    idVars, tableVars, threadVars, cpuVars, consVars
<1>1. ASSUME NEW c \in Cpus, SchedulerAcquire(c) PROVE CpuInv'
    BY <1>1 DEF SchedulerAcquire
<1>2. ASSUME NEW c \in Cpus, SchedulerRelease(c) PROVE CpuInv'
    BY <1>2 DEF SchedulerRelease
<1>3. ASSUME NEW c \in Cpus, InitExits(c) PROVE CpuInv'
    BY <1>3 DEF InitExits, At
<1>4. ASSUME NEW c \in Cpus, NEW p \in Slots, SchedulerRun(c, p) PROVE CpuInv'
    BY <1>4 DEF SchedulerRun, ScanAfter
<1>5. ASSUME NEW c \in Cpus, NEW p \in Slots, Sched(c, p) PROVE CpuInv'
    BY <1>5 DEF Sched
<1>6. ASSUME NEW c \in Cpus, NEW p \in Slots, ForkRet(c, p) PROVE CpuInv'
    BY <1>6 DEF ForkRet, At, Goto
<1>7. ASSUME NEW c \in Cpus, NEW p \in Slots, Yield(c, p) PROVE CpuInv'
    BY <1>7 DEF Yield, At
<1>8. ASSUME NEW c \in Cpus, NEW p \in Slots, YieldReturn(c, p) PROVE CpuInv'
    BY <1>8 DEF YieldReturn
<1>9. ASSUME NEW c \in Cpus, NEW p \in Slots, ForkFail(c, p) PROVE CpuInv'
    BY <1>9 DEF ForkFail, At, Goto
<1>10. ASSUME NEW c \in Cpus, NEW p \in Slots, ForkCopy(c, p) PROVE CpuInv'
    BY <1>10 DEF ForkCopy, At
<1>11. ASSUME NEW c \in Cpus, NEW p \in Slots, ForkPublish(c, p) PROVE CpuInv'
    BY <1>11 DEF ForkPublish, At, Goto
<1>12. ASSUME NEW c \in Cpus, NEW p \in Slots, Exit(c, p) PROVE CpuInv'
    <2>1. /\ state'[p] = "ZOMBIE"
          /\ \A q \in Slots \ {p} :
                \/ state'[q] = state[q]
                \/ state[q] = "SLEEPING" /\ state'[q] = "RUNNABLE"
        BY <1>12, ExitStates
    <2> QED
        BY <1>12, <2>1 DEF Exit, At, Goto, Reparent, ExitKeepsLock
<1>13. ASSUME NEW c \in Cpus, NEW p \in Slots, WaitCall(c, p) PROVE CpuInv'
    BY <1>13 DEF WaitCall, AtSyscall, At, Goto
<1>14. ASSUME NEW c \in Cpus, NEW p \in Slots, WaitFail(c, p) PROVE CpuInv'
    BY <1>14 DEF WaitFail, WaitScan, At, Goto, Children
<1>15. ASSUME NEW c \in Cpus, NEW p \in Slots, WaitSleep(c, p) PROVE CpuInv'
    BY <1>15 DEF WaitSleep, WaitScan, At, Children
<1>16. ASSUME NEW c \in Cpus, NEW p \in Slots, Fault(c, p) PROVE CpuInv'
    BY <1>16 DEF Fault, At
<1>17. ASSUME NEW c \in Cpus, NEW p \in Slots, ReadLine(c, p) PROVE CpuInv'
    BY <1>17 DEF ReadLine, AtSyscall, At, Goto
<1>18. ASSUME NEW c \in Cpus, NEW p \in Slots, ReadKilled(c, p) PROVE CpuInv'
    BY <1>18 DEF ReadKilled, At, Goto
<1>19. ASSUME NEW c \in Cpus, NEW p \in Slots, ReadBlock(c, p) PROVE CpuInv'
    BY <1>19 DEF ReadBlock, AtSyscall, At, Goto, SleepsUnlessKilled, TestLocked
<1>20. ASSUME NEW c \in Cpus, NEW p \in Slots, Sleep(c, p) PROVE CpuInv'
    BY <1>20 DEF Sleep, At, Goto, SleepDropsLock
<1>21. ASSUME NEW c \in Cpus, NEW p \in Slots, SleepReturn(c, p) PROVE CpuInv'
    BY <1>21 DEF SleepReturn, At, Goto
<1>22. ASSUME NEW c \in Cpus, NEW p \in Slots, NEW q \in Slots,
              ForkAllocate(c, p, q)
       PROVE  CpuInv'
    BY <1>22 DEF ForkAllocate, AtSyscall, At, Goto, PidAdvances
<1>23. ASSUME NEW c \in Cpus, NEW p \in Slots, NEW q \in Slots,
              WaitReap(c, p, q)
       PROVE  CpuInv'
    BY <1>23 DEF WaitReap, WaitScan, At, Goto, Children
<1>24. ASSUME NEW c \in Cpus, NEW p \in Slots, NEW n \in 0..MaxPid, NEW q \in Slots,
              Kill(c, p, n, q)
       PROVE  CpuInv'
    BY <1>24 DEF Kill, AtSyscall, At, KillWakes
<1>25. CASE ConsoleInterrupt
    BY <1>25 DEF ConsoleInterrupt, Wakeup1
<1>26. CASE Panicked
    BY <1>26 DEF Panicked, vars, tableVars, threadVars, cpuVars, consVars
<1>27. CASE UNCHANGED vars
    BY <1>27 DEF vars
<1> QED
    BY Zenon, <1>1, <1>2, <1>3, <1>4, <1>5, <1>6, <1>7, <1>8, <1>9, <1>10,
       <1>11,
        <1>12, <1>13, <1>14, <1>15, <1>16, <1>17, <1>18, <1>19, <1>20, <1>21,
        <1>22, <1>23, <1>24, <1>25, <1>26, <1>27 DEF Next

(* The table lock passes from the scheduler to the thread it resumes.      *)
LEMMA HandOffStep ==
    ASSUME TypeOK, CpuInv, PcInv, HandOffInv, ForkInv, [Next]_vars
    PROVE  HandOffInv'
<1>1. ASSUME NEW c \in Cpus, SchedulerAcquire(c) PROVE HandOffInv'
    BY <1>1, Constants DEF SchedulerAcquire, HandOffInv, threadVars
<1>2. ASSUME NEW c \in Cpus, SchedulerRelease(c) PROVE HandOffInv'
    BY <1>2 DEF SchedulerRelease, HandOffInv, threadVars, cpuVars
<1>3. ASSUME NEW c \in Cpus, InitExits(c) PROVE HandOffInv'
    BY <1>3 DEF InitExits, HandOffInv, threadVars, cpuVars
<1>4. ASSUME NEW c \in Cpus, NEW p \in Slots, SchedulerRun(c, p)
       PROVE  HandOffInv'
    BY <1>4 DEF SchedulerRun, HandOffInv, threadVars
<1>5. ASSUME NEW c \in Cpus, NEW p \in Slots, Sched(c, p) PROVE HandOffInv'
    BY <1>5 DEF Sched, HandOffInv, threadVars
<1>6. ASSUME NEW c \in Cpus, NEW p \in Slots, ForkRet(c, p) PROVE HandOffInv'
    BY <1>6 DEF ForkRet, At, Goto, TypeOK, HandOffInv, cpuVars
<1>7. ASSUME NEW c \in Cpus, NEW p \in Slots, Yield(c, p) PROVE HandOffInv'
    BY <1>7, Constants DEF Yield, At, CpuInv, HandOffInv, cpuVars
<1>8. ASSUME NEW c \in Cpus, NEW p \in Slots, YieldReturn(c, p)
       PROVE  HandOffInv'
    BY <1>8 DEF YieldReturn, PcInv, HandOffInv, Preemptible, cpuVars
<1>9. ASSUME NEW c \in Cpus, NEW p \in Slots, ForkFail(c, p) PROVE HandOffInv'
    BY <1>9 DEF ForkFail, Goto, HandOffInv, cpuVars
<1>10. ASSUME NEW c \in Cpus, NEW p \in Slots, ForkCopy(c, p) PROVE HandOffInv'
    BY <1>10 DEF ForkCopy, TypeOK, CpuInv, HandOffInv, ForkInv, cpuVars,
       consVars
<1>11. ASSUME NEW c \in Cpus, NEW p \in Slots, ForkPublish(c, p)
       PROVE  HandOffInv'
    BY <1>11 DEF ForkPublish, Goto, HandOffInv, cpuVars
<1>12. ASSUME NEW c \in Cpus, NEW p \in Slots, Exit(c, p) PROVE HandOffInv'
    BY <1>12, Constants DEF Exit, Goto, ExitKeepsLock, HandOffInv, cpuVars
<1>13. ASSUME NEW c \in Cpus, NEW p \in Slots, WaitCall(c, p) PROVE HandOffInv'
    BY <1>13, Constants DEF WaitCall, AtSyscall, At, Goto, CpuInv, PcInv,
       HandOffInv, idVars, cpuVars
<1>14. ASSUME NEW c \in Cpus, NEW p \in Slots, WaitFail(c, p) PROVE HandOffInv'
    BY <1>14 DEF WaitFail, WaitScan, At, Goto, TypeOK, CpuInv, HandOffInv,
       cpuVars
<1>15. ASSUME NEW c \in Cpus, NEW p \in Slots, WaitSleep(c, p)
       PROVE  HandOffInv'
    BY <1>15 DEF WaitSleep, PcInv, HandOffInv, threadVars, cpuVars
<1>16. ASSUME NEW c \in Cpus, NEW p \in Slots, Fault(c, p) PROVE HandOffInv'
    BY <1>16 DEF Fault, HandOffInv, threadVars, cpuVars
<1>17. ASSUME NEW c \in Cpus, NEW p \in Slots, ReadLine(c, p) PROVE HandOffInv'
    BY <1>17 DEF ReadLine, AtSyscall, Goto, PcInv, HandOffInv, cpuVars
<1>18. ASSUME NEW c \in Cpus, NEW p \in Slots, ReadKilled(c, p)
       PROVE  HandOffInv'
    BY <1>18 DEF ReadKilled, At, Goto, TypeOK, HandOffInv, cpuVars
<1>19. ASSUME NEW c \in Cpus, NEW p \in Slots, ReadBlock(c, p)
       PROVE  HandOffInv'
    BY <1>19 DEF ReadBlock, AtSyscall, Goto, TypeOK, HandOffInv, cpuVars
<1>20. ASSUME NEW c \in Cpus, NEW p \in Slots, Sleep(c, p) PROVE HandOffInv'
    BY <1>20, Constants DEF Sleep, At, Goto, SleepDropsLock, CpuInv, PcInv,
       HandOffInv, Preemptible, cpuVars
<1>21. ASSUME NEW c \in Cpus, NEW p \in Slots, SleepReturn(c, p)
       PROVE  HandOffInv'
    BY <1>21 DEF SleepReturn, At, Goto, TypeOK, HandOffInv, cpuVars
<1>22. ASSUME NEW c \in Cpus, NEW p \in Slots, NEW q \in Slots,
              ForkAllocate(c, p, q)
       PROVE  HandOffInv'
    BY <1>22 DEF ForkAllocate, AtSyscall, At, Goto, TypeOK, CpuInv, PcInv,
       HandOffInv, ForkInv, Preemptible, cpuVars
<1>23. ASSUME NEW c \in Cpus, NEW p \in Slots, NEW q \in Slots,
              WaitReap(c, p, q)
       PROVE  HandOffInv'
    BY <1>23 DEF WaitReap, WaitScan, At, Goto, TypeOK, CpuInv, PcInv,
       HandOffInv, ForkInv, Preemptible, cpuVars
<1>24. ASSUME NEW c \in Cpus, NEW p \in Slots, NEW n \in 0..MaxPid, NEW q \in Slots,
              Kill(c, p, n, q)
       PROVE  HandOffInv'
    BY <1>24 DEF Kill, KillWakes, CpuInv, PcInv, HandOffInv, threadVars,
       cpuVars
<1>25. CASE ConsoleInterrupt
    BY Zenon, <1>25 DEF ConsoleInterrupt, HandOffInv, threadVars, cpuVars
<1>26. CASE Panicked
    BY <1>26 DEF Panicked, vars, threadVars, cpuVars, consVars, TypeOK,
       HandOffInv
<1>27. CASE UNCHANGED vars
    BY <1>27 DEF vars, TypeOK, HandOffInv, threadVars, cpuVars
<1> QED
    BY <1>1, <1>2, <1>3, <1>4, <1>5, <1>6, <1>7, <1>8, <1>9, <1>10, <1>11,
       <1>12, <1>13, <1>14, <1>15, <1>16, <1>17, <1>18, <1>19, <1>20, <1>21,
       <1>22, <1>23, <1>24, <1>25, <1>26, <1>27 DEF Next

(* A reader on its way to sleep() keeps cons.Lock, so no line arrives.     *)
LEMMA ConsStep ==
    ASSUME TypeOK, CpuInv, PcInv, ConsInv, ForkInv, [Next]_vars
    PROVE  ConsInv'
<1>1. ASSUME NEW c \in Cpus, SchedulerAcquire(c) PROVE ConsInv'
    BY <1>1 DEF SchedulerAcquire, ConsInv, threadVars, consVars
<1>2. ASSUME NEW c \in Cpus, SchedulerRelease(c) PROVE ConsInv'
    BY <1>2 DEF SchedulerRelease, ConsInv, threadVars, cpuVars, consVars
<1>3. ASSUME NEW c \in Cpus, InitExits(c) PROVE ConsInv'
    BY <1>3 DEF InitExits, ConsInv, threadVars, cpuVars, consVars
<1>4. ASSUME NEW c \in Cpus, NEW p \in Slots, SchedulerRun(c, p) PROVE ConsInv'
    BY <1>4 DEF SchedulerRun, PcInv, ConsInv, threadVars, consVars
<1>5. ASSUME NEW c \in Cpus, NEW p \in Slots, Sched(c, p) PROVE ConsInv'
    BY <1>5 DEF Sched, PcInv, ConsInv, threadVars, consVars
<1>6. ASSUME NEW c \in Cpus, NEW p \in Slots, ForkRet(c, p) PROVE ConsInv'
    BY <1>6 DEF ForkRet, At, Goto, ConsInv, cpuVars, consVars
<1>7. ASSUME NEW c \in Cpus, NEW p \in Slots, Yield(c, p) PROVE ConsInv'
    BY <1>7 DEF Yield, ConsInv, cpuVars, consVars
<1>8. ASSUME NEW c \in Cpus, NEW p \in Slots, YieldReturn(c, p) PROVE ConsInv'
    BY <1>8 DEF YieldReturn, ConsInv, cpuVars, consVars
<1>9. ASSUME NEW c \in Cpus, NEW p \in Slots, ForkFail(c, p) PROVE ConsInv'
    BY <1>9 DEF ForkFail, At, Goto, ConsInv, cpuVars, consVars
<1>10. ASSUME NEW c \in Cpus, NEW p \in Slots, ForkCopy(c, p) PROVE ConsInv'
    BY <1>10 DEF ForkCopy, At, TypeOK, ConsInv, ForkInv, cpuVars, consVars
<1>11. ASSUME NEW c \in Cpus, NEW p \in Slots, ForkPublish(c, p) PROVE ConsInv'
    BY <1>11 DEF ForkPublish, At, Goto, ConsInv, cpuVars, consVars
<1>12. ASSUME NEW c \in Cpus, NEW p \in Slots, Exit(c, p) PROVE ConsInv'
    BY <1>12 DEF Exit, At, Goto, ConsInv, cpuVars, consVars
<1>13. ASSUME NEW c \in Cpus, NEW p \in Slots, WaitCall(c, p) PROVE ConsInv'
    BY <1>13 DEF WaitCall, AtSyscall, At, Goto, ConsInv, cpuVars, consVars
<1>14. ASSUME NEW c \in Cpus, NEW p \in Slots, WaitFail(c, p) PROVE ConsInv'
    BY <1>14 DEF WaitFail, WaitScan, At, Goto, ConsInv, cpuVars, consVars
<1>15. ASSUME NEW c \in Cpus, NEW p \in Slots, WaitSleep(c, p) PROVE ConsInv'
    BY <1>15 DEF WaitSleep, ConsInv, threadVars, cpuVars, consVars
<1>16. ASSUME NEW c \in Cpus, NEW p \in Slots, Fault(c, p) PROVE ConsInv'
    BY <1>16 DEF Fault, ConsInv, threadVars, cpuVars, consVars
<1>17. ASSUME NEW c \in Cpus, NEW p \in Slots, ReadLine(c, p) PROVE ConsInv'
    BY <1>17 DEF ReadLine, Goto, ConsInv, cpuVars
<1>18. ASSUME NEW c \in Cpus, NEW p \in Slots, ReadKilled(c, p) PROVE ConsInv'
    BY <1>18, Constants DEF ReadKilled, Goto, ConsInv, cpuVars, consVars
<1>19. ASSUME NEW c \in Cpus, NEW p \in Slots, ReadBlock(c, p) PROVE ConsInv'
    BY <1>19, Constants DEF ReadBlock, AtSyscall, At, Goto, TestLocked,
       TypeOK, CpuInv, ConsInv, cpuVars
<1>20. ASSUME NEW c \in Cpus, NEW p \in Slots, Sleep(c, p) PROVE ConsInv'
    <2>1. /\ pc \in [Slots -> Labels] /\ cur \in [Cpus -> Slots \cup {None}]
          /\ None \notin Cpus
        BY Constants DEF TypeOK
    <2>2. /\ cur[c] = p /\ pc[p] = "sleep" /\ consLock = c
          /\ consLock' = None /\ cur' = cur /\ line' = line
        BY <1>20, <2>1, Constants
           DEF Sleep, At, SleepDropsLock, ConsInv, cpuVars
    <2>3. pc' = [pc EXCEPT ![p] = "slept"]
        BY <1>20 DEF Sleep, Goto
    <2> QED
        BY <2>1, <2>2, <2>3 DEF ConsInv
<1>21. ASSUME NEW c \in Cpus, NEW p \in Slots, SleepReturn(c, p) PROVE ConsInv'
    BY <1>21 DEF SleepReturn, At, Goto, ConsInv, cpuVars, consVars
<1>22. ASSUME NEW c \in Cpus, NEW p \in Slots, NEW q \in Slots,
              ForkAllocate(c, p, q)
       PROVE  ConsInv'
    BY <1>22 DEF ForkAllocate, AtSyscall, At, Goto, ConsInv, cpuVars, consVars
<1>23. ASSUME NEW c \in Cpus, NEW p \in Slots, NEW q \in Slots,
              WaitReap(c, p, q)
       PROVE  ConsInv'
    BY <1>23 DEF WaitReap, WaitScan, At, Goto, ConsInv, cpuVars, consVars
<1>24. ASSUME NEW c \in Cpus, NEW p \in Slots, NEW n \in 0..MaxPid, NEW q \in Slots,
              Kill(c, p, n, q)
       PROVE  ConsInv'
    BY <1>24 DEF Kill, ConsInv, threadVars, cpuVars, consVars
<1>25. CASE ConsoleInterrupt
    BY <1>25, Constants DEF ConsoleInterrupt, CpuInv, PcInv, ConsInv,
       threadVars, cpuVars
<1>26. CASE Panicked
    BY <1>26 DEF Panicked, vars, threadVars, cpuVars, consVars, ConsInv
<1>27. CASE UNCHANGED vars
    BY <1>27 DEF vars, ConsInv, threadVars, cpuVars, consVars
<1> QED
    BY <1>1, <1>2, <1>3, <1>4, <1>5, <1>6, <1>7, <1>8, <1>9, <1>10, <1>11,
       <1>12, <1>13, <1>14, <1>15, <1>16, <1>17, <1>18, <1>19, <1>20, <1>21,
       <1>22, <1>23, <1>24, <1>25, <1>26, <1>27 DEF Next
=============================================================================
