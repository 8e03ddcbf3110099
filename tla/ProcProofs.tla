----------------------------- MODULE ProcProofs -----------------------------
(***************************************************************************)
(* The safety properties of Proc for any number of CPUs and table entries. *)
(***************************************************************************)
EXTENDS ProcInvariant

(* The provers a leaf is tried with, and the time each may take.           *)
USE SMTT(30), Z3T(30), ZenonT(30)

(* Nobody else touches the entry a fork() is filling in.                   *)
LEMMA ForkStep ==
    ASSUME TypeOK, PcInv, ForkInv, FamilyInv, [Next]_vars
    PROVE  ForkInv'
<1> USE Constants DEF TypeOK, PcInv, ForkInv, FamilyInv, Preemptible, Alive,
    idVars, tableVars, threadVars, cpuVars, consVars
<1>1. ASSUME NEW c \in Cpus, SchedulerAcquire(c) PROVE ForkInv'
    BY <1>1 DEF SchedulerAcquire
<1>2. ASSUME NEW c \in Cpus, SchedulerRelease(c) PROVE ForkInv'
    BY <1>2 DEF SchedulerRelease
<1>3. ASSUME NEW c \in Cpus, InitExits(c) PROVE ForkInv'
    BY <1>3 DEF InitExits, At
<1>4. ASSUME NEW c \in Cpus, NEW p \in Slots, SchedulerRun(c, p) PROVE ForkInv'
    BY <1>4 DEF SchedulerRun, ScanAfter
<1>5. ASSUME NEW c \in Cpus, NEW p \in Slots, Sched(c, p) PROVE ForkInv'
    BY <1>5 DEF Sched
<1>6. ASSUME NEW c \in Cpus, NEW p \in Slots, ForkRet(c, p) PROVE ForkInv'
    BY <1>6 DEF ForkRet, At, Goto
<1>7. ASSUME NEW c \in Cpus, NEW p \in Slots, Yield(c, p) PROVE ForkInv'
    BY <1>7 DEF Yield, At
<1>8. ASSUME NEW c \in Cpus, NEW p \in Slots, YieldReturn(c, p) PROVE ForkInv'
    BY <1>8 DEF YieldReturn
<1>9. ASSUME NEW c \in Cpus, NEW p \in Slots, ForkFail(c, p) PROVE ForkInv'
    BY <1>9 DEF ForkFail, At, Goto
<1>10. ASSUME NEW c \in Cpus, NEW p \in Slots, ForkCopy(c, p) PROVE ForkInv'
    BY <1>10 DEF ForkCopy, At
<1>11. ASSUME NEW c \in Cpus, NEW p \in Slots, ForkPublish(c, p) PROVE ForkInv'
    BY <1>11 DEF ForkPublish, At, Goto
<1>12. ASSUME NEW c \in Cpus, NEW p \in Slots, Exit(c, p) PROVE ForkInv'
    BY <1>12 DEF Exit, At, Goto, ExitWakeups, Wakeup1, Reparent, ExitKeepsLock
<1>13. ASSUME NEW c \in Cpus, NEW p \in Slots, WaitCall(c, p) PROVE ForkInv'
    BY <1>13 DEF WaitCall, AtSyscall, At, Goto
<1>14. ASSUME NEW c \in Cpus, NEW p \in Slots, WaitFail(c, p) PROVE ForkInv'
    BY <1>14 DEF WaitFail, WaitScan, At, Goto, Children
<1>15. ASSUME NEW c \in Cpus, NEW p \in Slots, WaitSleep(c, p) PROVE ForkInv'
    BY <1>15 DEF WaitSleep, WaitScan, At, Children
<1>16. ASSUME NEW c \in Cpus, NEW p \in Slots, Fault(c, p) PROVE ForkInv'
    BY <1>16 DEF Fault, At
<1>17. ASSUME NEW c \in Cpus, NEW p \in Slots, ReadLine(c, p) PROVE ForkInv'
    BY <1>17 DEF ReadLine, AtSyscall, At, Goto
<1>18. ASSUME NEW c \in Cpus, NEW p \in Slots, ReadKilled(c, p) PROVE ForkInv'
    BY <1>18 DEF ReadKilled, At, Goto
<1>19. ASSUME NEW c \in Cpus, NEW p \in Slots, ReadBlock(c, p) PROVE ForkInv'
    BY <1>19 DEF ReadBlock, AtSyscall, At, Goto, SleepsUnlessKilled, TestLocked
<1>20. ASSUME NEW c \in Cpus, NEW p \in Slots, Sleep(c, p) PROVE ForkInv'
    BY <1>20 DEF Sleep, At, Goto, SleepDropsLock
<1>21. ASSUME NEW c \in Cpus, NEW p \in Slots, SleepReturn(c, p) PROVE ForkInv'
    BY <1>21 DEF SleepReturn, At, Goto
<1>22. ASSUME NEW c \in Cpus, NEW p \in Slots, NEW q \in Slots,
              ForkAllocate(c, p, q)
       PROVE  ForkInv'
    BY <1>22 DEF ForkAllocate, AtSyscall, At, Goto, PidAdvances, Labels
<1>23. ASSUME NEW c \in Cpus, NEW p \in Slots, NEW q \in Slots,
              WaitReap(c, p, q)
       PROVE  ForkInv'
    BY <1>23 DEF WaitReap, WaitScan, At, Goto, Children
<1>24. ASSUME NEW c \in Cpus, NEW p \in Slots, NEW n \in 0..MaxPid, NEW q \in Slots,
              Kill(c, p, n, q)
       PROVE  ForkInv'
    BY <1>24 DEF Kill, AtSyscall, At, KillWakes
<1>25. CASE ConsoleInterrupt
    BY <1>25 DEF ConsoleInterrupt, Wakeup1
<1>26. CASE Panicked
    BY <1>26 DEF Panicked, vars, tableVars, threadVars, cpuVars, consVars
<1>27. CASE UNCHANGED vars
    BY <1>27 DEF vars
<1> QED
    BY Zenon, <1>1, <1>2, <1>3, <1>4, <1>5, <1>6, <1>7, <1>8, <1>9, <1>10,
       <1>11,
        <1>12, <1>13, <1>14, <1>15, <1>16, <1>17, <1>18, <1>19, <1>20, <1>21,
        <1>22, <1>23, <1>24, <1>25, <1>26, <1>27 DEF Next

(* exit() and wait() keep every process attached to a living parent.       *)
LEMMA FamilyStep ==
    ASSUME TypeOK, PcInv, ForkInv, FamilyInv, [Next]_vars
    PROVE  FamilyInv'
<1>1. ASSUME NEW c \in Cpus, SchedulerAcquire(c) PROVE FamilyInv'
    BY <1>1 DEF SchedulerAcquire, FamilyInv, idVars, tableVars
<1>2. ASSUME NEW c \in Cpus, SchedulerRelease(c) PROVE FamilyInv'
    BY <1>2 DEF SchedulerRelease, FamilyInv, idVars, tableVars
<1>3. ASSUME NEW c \in Cpus, InitExits(c) PROVE FamilyInv'
    BY <1>3 DEF InitExits, FamilyInv, idVars, tableVars
<1>4. ASSUME NEW c \in Cpus, NEW p \in Slots, SchedulerRun(c, p)
       PROVE  FamilyInv'
    BY <1>4 DEF SchedulerRun, FamilyInv, Alive, idVars
<1>5. ASSUME NEW c \in Cpus, NEW p \in Slots, Sched(c, p) PROVE FamilyInv'
    BY <1>5 DEF Sched, FamilyInv, idVars, tableVars
<1>6. ASSUME NEW c \in Cpus, NEW p \in Slots, ForkRet(c, p) PROVE FamilyInv'
    BY <1>6 DEF ForkRet, FamilyInv, idVars, tableVars
<1>7. ASSUME NEW c \in Cpus, NEW p \in Slots, Yield(c, p) PROVE FamilyInv'
    BY <1>7 DEF Yield, At, FamilyInv, Alive, idVars
<1>8. ASSUME NEW c \in Cpus, NEW p \in Slots, YieldReturn(c, p)
       PROVE  FamilyInv'
    BY <1>8 DEF YieldReturn, FamilyInv, idVars, tableVars
<1>9. ASSUME NEW c \in Cpus, NEW p \in Slots, ForkFail(c, p) PROVE FamilyInv'
    BY <1>9 DEF ForkFail, At, TypeOK, ForkInv, FamilyInv, Alive, idVars
<1>10. ASSUME NEW c \in Cpus, NEW p \in Slots, ForkCopy(c, p) PROVE FamilyInv'
    BY <1>10 DEF ForkCopy, At, ForkInv, FamilyInv, Alive
<1>11. ASSUME NEW c \in Cpus, NEW p \in Slots, ForkPublish(c, p)
       PROVE  FamilyInv'
    BY <1>11, Constants DEF ForkPublish, At, ForkInv, FamilyInv, Alive, idVars
<1>12. ASSUME NEW c \in Cpus, NEW p \in Slots, Exit(c, p) PROVE FamilyInv'
    <2>1. /\ state'[p] = "ZOMBIE"
          /\ \A q \in Slots \ {p} :
                \/ state'[q] = state[q]
                \/ state[q] = "SLEEPING" /\ state'[q] = "RUNNABLE"
        BY <1>12, ExitStates
    <2> QED
        BY <1>12, <2>1, Constants DEF Exit, At, Goto, Reparent, TypeOK, PcInv,
           FamilyInv, Alive
<1>13. ASSUME NEW c \in Cpus, NEW p \in Slots, WaitCall(c, p) PROVE FamilyInv'
    BY <1>13 DEF WaitCall, FamilyInv, idVars, tableVars
<1>14. ASSUME NEW c \in Cpus, NEW p \in Slots, WaitFail(c, p) PROVE FamilyInv'
    BY <1>14 DEF WaitFail, FamilyInv, idVars
<1>15. ASSUME NEW c \in Cpus, NEW p \in Slots, WaitSleep(c, p) PROVE FamilyInv'
    BY <1>15 DEF WaitSleep, WaitScan, At, Children, TypeOK, FamilyInv, Alive,
       idVars
<1>16. ASSUME NEW c \in Cpus, NEW p \in Slots, Fault(c, p) PROVE FamilyInv'
    BY <1>16 DEF Fault, FamilyInv, idVars
<1>17. ASSUME NEW c \in Cpus, NEW p \in Slots, ReadLine(c, p) PROVE FamilyInv'
    BY <1>17 DEF ReadLine, FamilyInv, idVars, tableVars
<1>18. ASSUME NEW c \in Cpus, NEW p \in Slots, ReadKilled(c, p)
       PROVE  FamilyInv'
    BY <1>18 DEF ReadKilled, FamilyInv, idVars, tableVars
<1>19. ASSUME NEW c \in Cpus, NEW p \in Slots, ReadBlock(c, p) PROVE FamilyInv'
    BY <1>19 DEF ReadBlock, FamilyInv, idVars, tableVars
<1>20. ASSUME NEW c \in Cpus, NEW p \in Slots, Sleep(c, p) PROVE FamilyInv'
    BY <1>20 DEF Sleep, At, SleepDropsLock, PcInv, FamilyInv, Preemptible,
       Alive, idVars
<1>21. ASSUME NEW c \in Cpus, NEW p \in Slots, SleepReturn(c, p)
       PROVE  FamilyInv'
    BY <1>21 DEF SleepReturn, FamilyInv, idVars
<1>22. ASSUME NEW c \in Cpus, NEW p \in Slots, NEW q \in Slots,
              ForkAllocate(c, p, q)
       PROVE  FamilyInv'
    BY <1>22 DEF ForkAllocate, Goto, TypeOK, PcInv, ForkInv, FamilyInv,
       Preemptible, Alive
<1>23. ASSUME NEW c \in Cpus, NEW p \in Slots, NEW q \in Slots,
              WaitReap(c, p, q)
       PROVE  FamilyInv'
    BY <1>23 DEF WaitReap, Children, TypeOK, PcInv, ForkInv, FamilyInv,
       Preemptible, Alive
<1>24. ASSUME NEW c \in Cpus, NEW p \in Slots, NEW n \in 0..MaxPid, NEW q \in Slots,
              Kill(c, p, n, q)
       PROVE  FamilyInv'
    BY <1>24 DEF Kill, KillWakes, TypeOK, PcInv, ForkInv, FamilyInv,
       Preemptible, Alive, idVars
<1>25. CASE ConsoleInterrupt
    BY <1>25, Constants DEF ConsoleInterrupt, Wakeup1, TypeOK, FamilyInv,
       Alive, idVars
<1>26. CASE Panicked
    BY <1>26 DEF Panicked, vars, tableVars, FamilyInv, idVars
<1>27. CASE UNCHANGED vars
    BY <1>27 DEF vars, FamilyInv, idVars, tableVars
<1> QED
    BY <1>1, <1>2, <1>3, <1>4, <1>5, <1>6, <1>7, <1>8, <1>9, <1>10, <1>11,
       <1>12, <1>13, <1>14, <1>15, <1>16, <1>17, <1>18, <1>19, <1>20, <1>21,
       <1>22, <1>23, <1>24, <1>25, <1>26, <1>27 DEF Next, PcInv, Alive

(* No step leaves a sleeper behind whose condition has come true.          *)
LEMMA WakeupStep ==
    ASSUME TypeOK, ConsInv, ForkInv, FamilyInv, NoLostWakeup, [Next]_vars
    PROVE  NoLostWakeup'
<1> USE Constants DEF idVars, tableVars, threadVars, cpuVars, consVars
(* Most steps put nobody to sleep, make no zombie and bring no input.      *)
<1>a. ASSUME \A q \in Slots : state'[q] = "SLEEPING" =>
                 state[q] = "SLEEPING" /\ chan'[q] = chan[q] /\ killed'[q] = killed[q],
             \A q \in Slots : state'[q] = "ZOMBIE" => state[q] = "ZOMBIE",
             parent' = parent,
             line' => line
      PROVE  NoLostWakeup'
    <2> SUFFICES ASSUME NEW p \in Slots, state'[p] = "SLEEPING"
                 PROVE  /\ chan'[p] = p =>
                            /\ \E q \in Slots : parent'[q] = p
                            /\ \A q \in Slots : parent'[q] = p => state'[q] # "ZOMBIE"
                            /\ ~killed'[p]
                        /\ chan'[p] = InputChan => ~line'
        BY DEF NoLostWakeup
    <2>1. state[p] = "SLEEPING" /\ chan'[p] = chan[p] /\ killed'[p] = killed[p]
        BY <1>a
    <2>2. chan[p] = p => /\ \E q \in Slots : parent[q] = p
                         /\ \A q \in Slots : parent[q] = p => state[q] # "ZOMBIE"
                         /\ ~killed[p]
        BY <2>1 DEF NoLostWakeup
    <2>3. chan[p] = InputChan => ~line
        BY <2>1 DEF NoLostWakeup
    <2> QED
        BY <1>a, <2>1, <2>2, <2>3
<1>1. ASSUME NEW c \in Cpus, SchedulerAcquire(c) PROVE NoLostWakeup'
    BY <1>1, <1>a DEF SchedulerAcquire
<1>2. ASSUME NEW c \in Cpus, SchedulerRelease(c) PROVE NoLostWakeup'
    BY <1>2, <1>a DEF SchedulerRelease
<1>3. ASSUME NEW c \in Cpus, InitExits(c) PROVE NoLostWakeup'
    BY <1>3, <1>a DEF InitExits
<1>4. ASSUME NEW c \in Cpus, NEW p \in Slots, SchedulerRun(c, p)
       PROVE  NoLostWakeup'
    BY <1>4, <1>a DEF SchedulerRun, TypeOK
<1>5. ASSUME NEW c \in Cpus, NEW p \in Slots, Sched(c, p) PROVE NoLostWakeup'
    BY <1>5, <1>a DEF Sched
<1>6. ASSUME NEW c \in Cpus, NEW p \in Slots, ForkRet(c, p) PROVE NoLostWakeup'
    BY <1>6, <1>a DEF ForkRet
<1>7. ASSUME NEW c \in Cpus, NEW p \in Slots, Yield(c, p) PROVE NoLostWakeup'
    BY <1>7, <1>a DEF Yield, TypeOK
<1>8. ASSUME NEW c \in Cpus, NEW p \in Slots, YieldReturn(c, p)
       PROVE  NoLostWakeup'
    BY <1>8, <1>a DEF YieldReturn
<1>9. ASSUME NEW c \in Cpus, NEW p \in Slots, ForkFail(c, p)
       PROVE  NoLostWakeup'
    BY <1>9, <1>a DEF ForkFail, TypeOK
<1>10. ASSUME NEW c \in Cpus, NEW p \in Slots, ForkCopy(c, p)
       PROVE  NoLostWakeup'
    <2>1. state[p] = "RUNNING" /\ pc[p] = "fork"
        BY <1>10 DEF ForkCopy, At
    <2>2. np[p] \in Slots /\ state[np[p]] = "EMBRYO"
        BY <2>1 DEF ForkInv, TypeOK
    <2>3. parent[np[p]] = None
        <3>1. parent[np[p]] # None =>
                  /\ parent[np[p]] \in Slots /\ pc[parent[np[p]]] = "publish"
                  /\ np[parent[np[p]]] = np[p]
            BY <2>2 DEF ForkInv, TypeOK
        <3> QED
            BY <2>1, <2>2, <3>1 DEF ForkInv
    <2>4. /\ UNCHANGED <<state, chan, killed, line>>
          /\ \A r \in Slots : parent'[r] = IF r = np[p] THEN p ELSE parent[r]
        BY <1>10, <2>2 DEF ForkCopy, TypeOK
    <2> QED
        BY <2>1, <2>2, <2>3, <2>4 DEF NoLostWakeup
<1>11. ASSUME NEW c \in Cpus, NEW p \in Slots, ForkPublish(c, p)
       PROVE  NoLostWakeup'
    BY <1>11, <1>a DEF ForkPublish, TypeOK
<1>12. ASSUME NEW c \in Cpus, NEW p \in Slots, Exit(c, p) PROVE NoLostWakeup'
    <2>1. ASSUME NEW q \in Slots, state'[q] = "SLEEPING"
          PROVE  /\ q # p /\ state[q] = "SLEEPING" /\ chan[q] # parent[p]
                 /\ (\E r \in Slots : parent[r] = p /\ state[r] = "ZOMBIE") =>
                        chan[q] # initproc
        BY <1>12, <2>1 DEF Exit, ExitWakeups, Wakeup1, TypeOK
    <2>2. \A r \in Slots : state'[r] = "ZOMBIE" => r = p \/ state[r] = "ZOMBIE"
        BY <1>12, ExitStates
    <2>3. /\ \A r \in Slots : parent'[r] = IF parent[r] = p THEN initproc ELSE parent[r]
          /\ UNCHANGED <<chan, killed, line>>
        BY <1>12 DEF Exit, Reparent
    <2>4. parent[p] # p
        BY DEF FamilyInv
    <2>5. ASSUME NEW q \in Slots, state'[q] = "SLEEPING", chan[q] = q
          PROVE  \A r \in Slots : parent'[r] = q => state'[r] # "ZOMBIE"
        BY <2>1, <2>2, <2>3, <2>4, <2>5 DEF NoLostWakeup
    <2>6. ASSUME NEW q \in Slots, state'[q] = "SLEEPING", chan[q] = q
          PROVE  \E r \in Slots : parent'[r] = q
        BY <2>1, <2>3, <2>6 DEF NoLostWakeup
    <2> QED
        BY <2>1, <2>3, <2>5, <2>6 DEF NoLostWakeup
<1>13. ASSUME NEW c \in Cpus, NEW p \in Slots, WaitCall(c, p)
       PROVE  NoLostWakeup'
    BY <1>13, <1>a DEF WaitCall
<1>14. ASSUME NEW c \in Cpus, NEW p \in Slots, WaitFail(c, p)
       PROVE  NoLostWakeup'
    BY <1>14, <1>a DEF WaitFail, WaitScan, At, TypeOK
<1>15. ASSUME NEW c \in Cpus, NEW p \in Slots, WaitSleep(c, p)
       PROVE  NoLostWakeup'
    <2>1. /\ ~killed[p] /\ \E q \in Slots : parent[q] = p
          /\ \A q \in Slots : parent[q] = p => state[q] # "ZOMBIE"
        BY <1>15 DEF WaitSleep, Children
    <2>2. /\ state' = [state EXCEPT ![p] = "SLEEPING"] /\ chan' = [chan EXCEPT ![p] = p]
          /\ UNCHANGED <<parent, killed, line>>
        BY <1>15 DEF WaitSleep
    <2> QED
        BY <2>1, <2>2 DEF NoLostWakeup, TypeOK
<1>16. ASSUME NEW c \in Cpus, NEW p \in Slots, Fault(c, p) PROVE NoLostWakeup'
    <2>1. state[p] = "RUNNING" /\ \A q \in Slots \ {p} : killed'[q] = killed[q]
        BY <1>16 DEF Fault, At, TypeOK
    <2>2. UNCHANGED <<state, parent, chan, line>>
        BY <1>16 DEF Fault
    <2> QED
        BY <2>1, <2>2, <1>a
<1>17. ASSUME NEW c \in Cpus, NEW p \in Slots, ReadLine(c, p)
       PROVE  NoLostWakeup'
    BY <1>17, <1>a DEF ReadLine
<1>18. ASSUME NEW c \in Cpus, NEW p \in Slots, ReadKilled(c, p)
       PROVE  NoLostWakeup'
    BY <1>18, <1>a DEF ReadKilled
<1>19. ASSUME NEW c \in Cpus, NEW p \in Slots, ReadBlock(c, p)
       PROVE  NoLostWakeup'
    BY <1>19, <1>a DEF ReadBlock
<1>20. ASSUME NEW c \in Cpus, NEW p \in Slots, Sleep(c, p) PROVE NoLostWakeup'
    <2>1. ~line
        BY <1>20 DEF Sleep, At, ConsInv
    <2>2. /\ state' = [state EXCEPT ![p] = "SLEEPING"]
          /\ chan' = [chan EXCEPT ![p] = InputChan]
          /\ UNCHANGED <<parent, killed, line>>
        BY <1>20 DEF Sleep
    <2> QED
        BY <2>1, <2>2 DEF NoLostWakeup, TypeOK
<1>21. ASSUME NEW c \in Cpus, NEW p \in Slots, SleepReturn(c, p)
       PROVE  NoLostWakeup'
    BY <1>21, <1>a DEF SleepReturn, At, TypeOK
<1>22. ASSUME NEW c \in Cpus, NEW p \in Slots, NEW q \in Slots,
              ForkAllocate(c, p, q)
       PROVE  NoLostWakeup'
    BY <1>22, <1>a DEF ForkAllocate, TypeOK
<1>23. ASSUME NEW c \in Cpus, NEW p \in Slots, NEW q \in Slots,
              WaitReap(c, p, q)
       PROVE  NoLostWakeup'
    <2>1. state[p] = "RUNNING" /\ parent[q] = p /\ state[q] = "ZOMBIE"
        BY <1>23 DEF WaitReap, WaitScan, At
    <2>2. /\ state' = [state EXCEPT ![q] = "UNUSED"]
          /\ parent' = [parent EXCEPT ![q] = None]
          /\ killed' = [killed EXCEPT ![q] = FALSE]
          /\ chan' = [chan EXCEPT ![p] = None]
          /\ line' = line
        BY <1>23 DEF WaitReap
    <2> QED
        BY <2>1, <2>2 DEF NoLostWakeup, TypeOK
<1>24. ASSUME NEW c \in Cpus, NEW p \in Slots, NEW n \in 0..MaxPid, NEW q \in Slots,
              Kill(c, p, n, q)
       PROVE  NoLostWakeup'
    <2>1. \A r \in Slots \ {q} : state'[r] = state[r] /\ killed'[r] = killed[r]
        BY <1>24 DEF Kill, TypeOK
    <2>2. state'[q] # "SLEEPING" /\ (state'[q] = "ZOMBIE" => state[q] = "ZOMBIE")
        BY <1>24 DEF Kill, KillWakes, TypeOK
    <2>3. UNCHANGED <<parent, chan, line>>
        BY <1>24 DEF Kill
    <2> QED
        BY <2>1, <2>2, <2>3, <1>a
<1>25. CASE ConsoleInterrupt
    BY <1>25 DEF ConsoleInterrupt, Wakeup1, NoLostWakeup, TypeOK
<1>26. CASE Panicked
    BY <1>26, <1>a DEF Panicked, vars
<1>27. CASE UNCHANGED vars
    BY <1>27, <1>a DEF vars
<1> QED
    BY <1>1, <1>2, <1>3, <1>4, <1>5, <1>6, <1>7, <1>8, <1>9, <1>10, <1>11,
        <1>12, <1>13, <1>14, <1>15, <1>16, <1>17, <1>18, <1>19, <1>20, <1>21,
        <1>22, <1>23, <1>24, <1>25, <1>26, <1>27 DEF Next

(* fork() gives out each ProcessId once.                                   *)
LEMMA PidStep ==
    ASSUME TypeOK, PidInv, [Next]_vars
    PROVE  PidInv'
<1> USE Constants DEF TypeOK, PidInv, PidsUnique, idVars, tableVars,
    threadVars, cpuVars, consVars
<1>1. ASSUME NEW c \in Cpus, SchedulerAcquire(c) PROVE PidInv'
    BY <1>1 DEF SchedulerAcquire
<1>2. ASSUME NEW c \in Cpus, SchedulerRelease(c) PROVE PidInv'
    BY <1>2 DEF SchedulerRelease
<1>3. ASSUME NEW c \in Cpus, InitExits(c) PROVE PidInv'
    BY <1>3 DEF InitExits, At
<1>4. ASSUME NEW c \in Cpus, NEW p \in Slots, SchedulerRun(c, p) PROVE PidInv'
    BY <1>4 DEF SchedulerRun, ScanAfter
<1>5. ASSUME NEW c \in Cpus, NEW p \in Slots, Sched(c, p) PROVE PidInv'
    BY <1>5 DEF Sched
<1>6. ASSUME NEW c \in Cpus, NEW p \in Slots, ForkRet(c, p) PROVE PidInv'
    BY <1>6 DEF ForkRet, At, Goto
<1>7. ASSUME NEW c \in Cpus, NEW p \in Slots, Yield(c, p) PROVE PidInv'
    BY <1>7 DEF Yield, At
<1>8. ASSUME NEW c \in Cpus, NEW p \in Slots, YieldReturn(c, p) PROVE PidInv'
    BY <1>8 DEF YieldReturn
<1>9. ASSUME NEW c \in Cpus, NEW p \in Slots, ForkFail(c, p) PROVE PidInv'
    BY <1>9 DEF ForkFail, At, Goto
<1>10. ASSUME NEW c \in Cpus, NEW p \in Slots, ForkCopy(c, p) PROVE PidInv'
    BY <1>10 DEF ForkCopy, At
<1>11. ASSUME NEW c \in Cpus, NEW p \in Slots, ForkPublish(c, p) PROVE PidInv'
    BY <1>11 DEF ForkPublish, At, Goto
<1>12. ASSUME NEW c \in Cpus, NEW p \in Slots, Exit(c, p) PROVE PidInv'
    BY <1>12 DEF Exit, At, Goto, ExitWakeups, Wakeup1, Reparent, ExitKeepsLock
<1>13. ASSUME NEW c \in Cpus, NEW p \in Slots, WaitCall(c, p) PROVE PidInv'
    BY <1>13 DEF WaitCall, AtSyscall, At, Goto
<1>14. ASSUME NEW c \in Cpus, NEW p \in Slots, WaitFail(c, p) PROVE PidInv'
    BY <1>14 DEF WaitFail, WaitScan, At, Goto, Children
<1>15. ASSUME NEW c \in Cpus, NEW p \in Slots, WaitSleep(c, p) PROVE PidInv'
    BY <1>15 DEF WaitSleep, WaitScan, At, Children
<1>16. ASSUME NEW c \in Cpus, NEW p \in Slots, Fault(c, p) PROVE PidInv'
    BY <1>16 DEF Fault, At
<1>17. ASSUME NEW c \in Cpus, NEW p \in Slots, ReadLine(c, p) PROVE PidInv'
    BY <1>17 DEF ReadLine, AtSyscall, At, Goto
<1>18. ASSUME NEW c \in Cpus, NEW p \in Slots, ReadKilled(c, p) PROVE PidInv'
    BY <1>18 DEF ReadKilled, At, Goto
<1>19. ASSUME NEW c \in Cpus, NEW p \in Slots, ReadBlock(c, p) PROVE PidInv'
    BY <1>19 DEF ReadBlock, AtSyscall, At, Goto, SleepsUnlessKilled, TestLocked
<1>20. ASSUME NEW c \in Cpus, NEW p \in Slots, Sleep(c, p) PROVE PidInv'
    BY <1>20 DEF Sleep, At, Goto, SleepDropsLock
<1>21. ASSUME NEW c \in Cpus, NEW p \in Slots, SleepReturn(c, p) PROVE PidInv'
    BY <1>21 DEF SleepReturn, At, Goto
<1>22. ASSUME NEW c \in Cpus, NEW p \in Slots, NEW q \in Slots,
              ForkAllocate(c, p, q)
       PROVE  PidInv'
    <2>1. nextpid' = nextpid + 1 /\ pid' = [pid EXCEPT ![q] = nextpid]
        BY <1>22 DEF ForkAllocate, PidAdvances
    <2> QED
        BY <2>1
<1>23. ASSUME NEW c \in Cpus, NEW p \in Slots, NEW q \in Slots,
              WaitReap(c, p, q)
       PROVE  PidInv'
    BY <1>23 DEF WaitReap, WaitScan, At, Goto, Children
<1>24. ASSUME NEW c \in Cpus, NEW p \in Slots, NEW n \in 0..MaxPid, NEW q \in Slots,
              Kill(c, p, n, q)
       PROVE  PidInv'
    BY <1>24 DEF Kill, AtSyscall, At, KillWakes
<1>25. CASE ConsoleInterrupt
    BY <1>25 DEF ConsoleInterrupt, Wakeup1
<1>26. CASE Panicked
    BY <1>26 DEF Panicked, vars, tableVars, threadVars, cpuVars, consVars
<1>27. CASE UNCHANGED vars
    BY <1>27 DEF vars
<1> QED
    BY Zenon, <1>1, <1>2, <1>3, <1>4, <1>5, <1>6, <1>7, <1>8, <1>9, <1>10,
       <1>11,
        <1>12, <1>13, <1>14, <1>15, <1>16, <1>17, <1>18, <1>19, <1>20, <1>21,
        <1>22, <1>23, <1>24, <1>25, <1>26, <1>27 DEF Next

(* With one CPU nothing can run between the IsKilled test of a reader and  *)
(* its sleep().                                                            *)
KillInv ==
    /\ \A p \in Slots : pc[p] = "sleep" => ~killed[p]
    /\ KilledNotAsleep

(* Inductiveness of KillInv on a machine with one CPU.                     *)
LEMMA KillStep ==
    ASSUME TypeOK, PcInv, CpuInv, KillInv, [Next]_vars, NCPU = 1
    PROVE  KillInv'
<1> USE Constants DEF TypeOK, KillInv, KilledNotAsleep, idVars, tableVars,
    threadVars, cpuVars, consVars
<1>a. \A c, d \in Cpus : c = d
    BY DEF Cpus
<1>1. ASSUME NEW c \in Cpus, SchedulerAcquire(c) PROVE KillInv'
    BY <1>1 DEF SchedulerAcquire
<1>2. ASSUME NEW c \in Cpus, SchedulerRelease(c) PROVE KillInv'
    BY <1>2 DEF SchedulerRelease
<1>3. ASSUME NEW c \in Cpus, InitExits(c) PROVE KillInv'
    BY <1>3 DEF InitExits, At
<1>4. ASSUME NEW c \in Cpus, NEW p \in Slots, SchedulerRun(c, p) PROVE KillInv'
    BY <1>4 DEF SchedulerRun, ScanAfter
<1>5. ASSUME NEW c \in Cpus, NEW p \in Slots, Sched(c, p) PROVE KillInv'
    BY <1>5 DEF Sched
<1>6. ASSUME NEW c \in Cpus, NEW p \in Slots, ForkRet(c, p) PROVE KillInv'
    BY <1>6 DEF ForkRet, At, Goto
<1>7. ASSUME NEW c \in Cpus, NEW p \in Slots, Yield(c, p) PROVE KillInv'
    BY <1>7 DEF Yield, At, Preemptible
<1>8. ASSUME NEW c \in Cpus, NEW p \in Slots, YieldReturn(c, p) PROVE KillInv'
    BY <1>8 DEF YieldReturn
<1>9. ASSUME NEW c \in Cpus, NEW p \in Slots, ForkFail(c, p) PROVE KillInv'
    BY <1>9 DEF ForkFail, At, Goto
<1>10. ASSUME NEW c \in Cpus, NEW p \in Slots, ForkCopy(c, p) PROVE KillInv'
    BY <1>10 DEF ForkCopy, At
<1>11. ASSUME NEW c \in Cpus, NEW p \in Slots, ForkPublish(c, p) PROVE KillInv'
    BY <1>11 DEF ForkPublish, At, Goto
<1>12. ASSUME NEW c \in Cpus, NEW p \in Slots, Exit(c, p) PROVE KillInv'
    BY <1>12 DEF Exit, At, Goto, ExitWakeups, Wakeup1, Reparent, ExitKeepsLock
<1>13. ASSUME NEW c \in Cpus, NEW p \in Slots, WaitCall(c, p) PROVE KillInv'
    BY <1>13 DEF WaitCall, AtSyscall, At, Goto
<1>14. ASSUME NEW c \in Cpus, NEW p \in Slots, WaitFail(c, p) PROVE KillInv'
    BY <1>14 DEF WaitFail, WaitScan, At, Goto, Children
<1>15. ASSUME NEW c \in Cpus, NEW p \in Slots, WaitSleep(c, p) PROVE KillInv'
    BY <1>15 DEF WaitSleep, WaitScan, At, Children
<1>16. ASSUME NEW c \in Cpus, NEW p \in Slots, Fault(c, p) PROVE KillInv'
    BY <1>16 DEF Fault, At
<1>17. ASSUME NEW c \in Cpus, NEW p \in Slots, ReadLine(c, p) PROVE KillInv'
    BY <1>17 DEF ReadLine, AtSyscall, At, Goto
<1>18. ASSUME NEW c \in Cpus, NEW p \in Slots, ReadKilled(c, p) PROVE KillInv'
    BY <1>18 DEF ReadKilled, At, Goto
<1>19. ASSUME NEW c \in Cpus, NEW p \in Slots, ReadBlock(c, p) PROVE KillInv'
    BY <1>19 DEF ReadBlock, AtSyscall, At, Goto, SleepsUnlessKilled, TestLocked
<1>20. ASSUME NEW c \in Cpus, NEW p \in Slots, Sleep(c, p) PROVE KillInv'
    BY <1>20 DEF Sleep, At, Goto, SleepDropsLock
<1>21. ASSUME NEW c \in Cpus, NEW p \in Slots, SleepReturn(c, p) PROVE KillInv'
    BY <1>21 DEF SleepReturn, At, Goto
<1>22. ASSUME NEW c \in Cpus, NEW p \in Slots, NEW q \in Slots,
              ForkAllocate(c, p, q)
       PROVE  KillInv'
    BY <1>22 DEF ForkAllocate, AtSyscall, At, Goto, PidAdvances
<1>23. ASSUME NEW c \in Cpus, NEW p \in Slots, NEW q \in Slots,
              WaitReap(c, p, q)
       PROVE  KillInv'
    BY <1>23 DEF WaitReap, WaitScan, At, Goto, Children
<1>24. ASSUME NEW c \in Cpus, NEW p \in Slots, NEW n \in 0..MaxPid, NEW q \in Slots,
              Kill(c, p, n, q)
       PROVE  KillInv'
    BY <1>24, <1>a DEF Kill, AtSyscall, At, KillWakes, PcInv, CpuInv
<1>25. CASE ConsoleInterrupt
    BY <1>25 DEF ConsoleInterrupt, Wakeup1
<1>26. CASE Panicked
    BY <1>26 DEF Panicked, vars, tableVars, threadVars, cpuVars, consVars
<1>27. CASE UNCHANGED vars
    BY <1>27 DEF vars
<1> QED
    BY Zenon, <1>1, <1>2, <1>3, <1>4, <1>5, <1>6, <1>7, <1>8, <1>9, <1>10,
       <1>11,
        <1>12, <1>13, <1>14, <1>15, <1>16, <1>17, <1>18, <1>19, <1>20, <1>21,
        <1>22, <1>23, <1>24, <1>25, <1>26, <1>27 DEF Next

-----------------------------------------------------------------------------

(* The initial state satisfies the invariant.                              *)
LEMMA InitEstablishes == Init => IInv
<1> SUFFICES ASSUME Init PROVE IInv
    OBVIOUS
<1> USE Constants, ProcAssumption DEF Init
<1>1. TypeOK
    <2>1. 1 \in 1..(NPROC + 1)
        BY ProcAssumption
    <2> QED
        BY Zenon, <2>1 DEF TypeOK, States, Labels
<1>2. PcInv /\ FamilyInv
    BY Zenon DEF PcInv, FamilyInv, Preemptible, Alive
<1>3. CpuInv /\ HandOffInv /\ ConsInv
    BY DEF CpuInv, HandOffInv, ConsInv
<1>4. ForkInv /\ NoLostWakeup
    BY DEF ForkInv, NoLostWakeup
<1>5. PidInv
    BY DEF PidInv, PidsUnique
<1> QED
    BY <1>1, <1>2, <1>3, <1>4, <1>5 DEF IInv

(* The inductive invariant holds throughout.                               *)
THEOREM Invariance == Spec => []IInv
<1>1. IInv /\ [Next]_vars => IInv'
    BY TypeStep, PcStep, CpuStep, HandOffStep, ConsStep, ForkStep, FamilyStep,
       WakeupStep, PidStep DEF IInv
<1> QED
    BY InitEstablishes, <1>1, PTL DEF Spec

(* Every variable keeps its type, for any size of the machine.             *)
THEOREM TypeCorrect == Spec => []TypeOK
<1>1. IInv => TypeOK
    BY DEF IInv
<1> QED
    BY Invariance, <1>1, PTL

(* The panics of sched() are unreachable, and the table lock taken by      *)
(* scheduler() is the lock the resumed thread releases.                    *)
THEOREM Scheduling == Spec => []SchedDiscipline
<1>1. IInv => SchedDiscipline
    BY Constants DEF IInv, TypeOK, CpuInv, HandOffInv, ConsInv, PcInv,
       SchedDiscipline
<1> QED
    BY Invariance, <1>1, PTL

(* wait() never frees a kernel stack that a CPU still runs on.             *)
THEOREM StackSafety == Spec => []StackInUse
<1>1. IInv => StackInUse
    BY Constants DEF IInv, TypeOK, CpuInv, FamilyInv, StackInUse
<1> QED
    BY Invariance, <1>1, PTL

(* No wakeup of wait() or consoleRead is lost.                             *)
THEOREM Wakeups == Spec => []NoLostWakeup
<1>1. IInv => NoLostWakeup
    BY DEF IInv
<1> QED
    BY Invariance, <1>1, PTL

(* Every process but initproc has a living parent to wait for it.          *)
THEOREM Parents == Spec => []ParentAlive
<1>1. IInv => ParentAlive
    BY Constants DEF IInv, TypeOK, FamilyInv, ParentAlive, Alive
<1> QED
    BY Invariance, <1>1, PTL

(* A ProcessId names one table entry.                                      *)
THEOREM Pids == Spec => []PidsUnique
<1>1. IInv => PidsUnique
    BY DEF IInv, PidInv
<1> QED
    BY Invariance, <1>1, PTL

(* On the one-CPU machine main() brings up, no process sleeps on with      *)
(* IsKilled set: kill() cannot slip between a sleeper's test and its sleep.*)
THEOREM KilledSleepers ==
    ASSUME NCPU = 1
    PROVE  Spec => []KilledNotAsleep
<1>1. Init => KillInv
    BY DEF Init, KillInv, KilledNotAsleep
<1>2. IInv /\ KillInv /\ [Next]_vars => KillInv'
    BY KillStep DEF IInv
<1>3. KillInv => KilledNotAsleep
    BY DEF KillInv
<1> QED
    BY Invariance, <1>1, <1>2, <1>3, PTL DEF Spec
=============================================================================
