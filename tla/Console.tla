------------------------------ MODULE Console ------------------------------
(***************************************************************************)
(* Kernel threads and interrupts on one CPU: console.c's input, the        *)
(* sleep() system call, and what proc.c and trap.c do for them.  A         *)
(* keyboard or timer interrupt comes between any two steps that leave the  *)
(* interrupt flag on, in a process or in scheduler(); code that runs with  *)
(* the flag off is split where it touches shared state or switches.        *)
(***************************************************************************)
EXTENDS Spinlock, Sequences

CONSTANTS Procs,
          INPUT_BUF,    \* size of the input ring
          Wrap,         \* where r, w and e wrap: 2^32
          Keys, Newline, EndOfFile, KillLine, Backspace,
          Reads,        \* bound: the lengths read() is called with
          Sleeps        \* bound: the arguments of sleep()

ASSUME ConsoleAssumption ==
    /\ INPUT_BUF \in Nat \ {0} /\ Wrap \in Nat \ {0}
    /\ Wrap % INPUT_BUF = 0 /\ INPUT_BUF < Wrap
    /\ Reads \subseteq Nat \ {0} /\ Sleeps \subseteq Nat
    /\ "scheduler" \notin Procs

VARIABLES
    m,          \* the CPU, see Spinlock
    state, chan, killed,    \* Process.State, Chan and IsKilled
    cur,        \* the process the CPU runs, or scheduler()
    pc,         \* where a thread is
    preempted,  \* processes inside yield(), called by the timer's trap()
    intena,     \* sched()'s local
    lk, n, start,   \* the lock and the counts of consoleRead() and sys_sleep()
    input,      \* the indices r, w and e
    buf,        \* input.buf
    got,        \* what the read() of a process has delivered (ghost)
    ticks

threadVars == <<state, chan, killed, cur, pc, preempted, intena>>
callVars == <<lk, n, start, got>>
inputVars == <<input, buf>>
vars == <<m, threadVars, callVars, inputVars, ticks>>

scheduler == "scheduler"
none == "none"
Threads == Procs \cup {scheduler}

(* A process: forkret (switched to for the first time), born (about to     *)
(* return from forkret()), user, loop (in the loop of consoleRead() or     *)
(* sys_sleep(), holding lk), unlock (in sleep(), about to release lk),     *)
(* slept (past the call of sched()), again (about to take lk), release     *)
(* (about to release lk for good), ret (about to return from trap()),      *)
(* zombie.                                                                 *)
(* scheduler(): enabled (about to take the table lock), scan.              *)
InLoop == {"loop", "unlock", "slept", "again"}

Init ==
    /\ m = enableInterrupts(Booted)
    /\ state = [p \in Procs |-> "RUNNABLE"]
    /\ chan = [p \in Procs |-> none]
    /\ killed = [p \in Procs |-> FALSE]
    /\ cur = scheduler
    /\ pc = [t \in Threads |-> IF t = scheduler THEN "enabled" ELSE "forkret"]
    /\ preempted = {}
    /\ intena = [p \in Procs |-> FALSE]
    /\ lk = [p \in Procs |-> none]
    /\ n = [p \in Procs |-> 0]
    /\ start = [p \in Procs |-> 0]
    /\ input = [r |-> 0, w |-> 0, e |-> 0]
    /\ buf = [i \in 0..(INPUT_BUF - 1) |-> none]
    /\ got = [p \in Procs |-> <<>>]
    /\ ticks = 0

\* wakeup(ch): the locks, and the states after it.
wakeup(k) == spinlockRelease(spinlockAcquire(k, "table"), "table")
Woken(ch) ==
    [p \in Procs |-> IF state[p] = "SLEEPING" /\ chan[p] = ch THEN "RUNNABLE" ELSE state[p]]

At(t, l) == ~m.panicked /\ cur = t /\ t \notin preempted /\ pc[t] = l
Goto(t, l) == pc' = [pc EXCEPT ![t] = l]

-----------------------------------------------------------------------------
(* scheduler() and sched()                                                 *)

SchedulerAcquire ==
    /\ At(scheduler, "enabled")
    /\ m' = spinlockAcquire(m, "table")
    /\ Goto(scheduler, "scan")
    /\ UNCHANGED <<state, chan, killed, cur, preempted, intena, callVars, inputVars, ticks>>

\* A thread that comes back from swtch() in sched() puts its InterruptsEnabled
\* back, one that starts in forkret() has none (mutated: nobody does).
NotRestored(p) == m
Restored(p) ==
    IF pc[p] = "forkret" THEN m ELSE [m EXCEPT !.InterruptsEnabled = intena[p]]

SchedulerRun(p) ==
    /\ At(scheduler, "scan")
    /\ state[p] = "RUNNABLE"
    /\ state' = [state EXCEPT ![p] = "RUNNING"]
    /\ cur' = p
    /\ m' = Restored(p)
    /\ UNCHANGED <<chan, killed, pc, preempted, intena, callVars, inputVars, ticks>>

\* ... and on to the next round, with interrupts on.
SchedulerRelease ==
    /\ At(scheduler, "scan")
    /\ m' = enableInterrupts(spinlockRelease(m, "table"))
    /\ Goto(scheduler, "enabled")
    /\ UNCHANGED <<state, chan, killed, cur, preempted, intena, callVars, inputVars, ticks>>

\* sched() of p with its panics, from the machine k and the states st, p's being
\* s, up to the return of swtch() in scheduler().
Sched(p, k, st, s) ==
    /\ m' = [k EXCEPT !.panicked = @ \/ ~isHolding(k, "table") \/ k.CliDepth # 1
                                     \/ s = "RUNNING" \/ k.flag]
    /\ state' = [st EXCEPT ![p] = s]
    /\ intena' = [intena EXCEPT ![p] = k.InterruptsEnabled]
    /\ cur' = scheduler

-----------------------------------------------------------------------------
(* Processes                                                               *)

ForkRet(p) ==
    /\ At(p, "forkret")
    /\ m' = spinlockRelease(m, "table")
    /\ Goto(p, "born")
    /\ UNCHANGED <<state, chan, killed, cur, preempted, intena, callVars, inputVars, ticks>>

\* trapret: iret, with interrupts on in the user's flags.
ReturnToUser(p) ==
    /\ At(p, "born") \/ (At(p, "ret") /\ ~killed[p])
    /\ m' = enableInterrupts(m)
    /\ got' = [got EXCEPT ![p] = <<>>]
    /\ Goto(p, "user")
    /\ UNCHANGED <<state, chan, killed, cur, preempted, intena, lk, n, start, inputVars,
                   ticks>>

\* exit(), called by trap().
Exit(p) ==
    /\ At(p, "ret") \/ At(p, "user")
    /\ killed[p]
    /\ Sched(p, spinlockAcquire(m, "table"), state, "ZOMBIE")
    /\ Goto(p, "zombie")
    /\ UNCHANGED <<chan, killed, preempted, callVars, inputVars, ticks>>

Kill(p, q) ==
    /\ At(p, "user") /\ ~killed[p]
    /\ m' = spinlockRelease(spinlockAcquire(m, "table"), "table")
    /\ killed' = [killed EXCEPT ![q] = TRUE]
    /\ state' = [state EXCEPT ![q] = IF @ = "SLEEPING" THEN "RUNNABLE" ELSE @]
    /\ UNCHANGED <<chan, cur, pc, preempted, intena, callVars, inputVars, ticks>>

\* consoleRead() or sys_sleep() up to its loop; start is target or ticks0.
SystemCall(p, l, i) ==
    /\ At(p, "user") /\ ~killed[p]
    /\ m' = spinlockAcquire(m, l)
    /\ lk' = [lk EXCEPT ![p] = l]
    /\ n' = [n EXCEPT ![p] = i]
    /\ start' = [start EXCEPT ![p] = IF l = "cons" THEN i ELSE ticks]
    /\ Goto(p, "loop")
    /\ UNCHANGED <<state, chan, killed, cur, preempted, intena, got, inputVars, ticks>>

Empty == input.r = input.w
After(i) == (i + 1) % Wrap
Before(i, j) == (i - j) % Wrap

\* consoleRead() takes a character.  ^D ends the read, and is left for the next
\* one unless this one has nothing (mutated: it is always taken).
EndTaken(p) == TRUE
EndIsWholeRead(p) == n[p] = start[p]
ReadTake(p) ==
    /\ At(p, "loop") /\ lk[p] = "cons"
    /\ n[p] > 0 /\ ~Empty
    /\ LET k == buf[input.r % INPUT_BUF] IN
       \/ /\ k = EndOfFile
          /\ input' = IF EndIsWholeRead(p) THEN [input EXCEPT !.r = After(@)] ELSE input
          /\ Goto(p, "release")
          /\ UNCHANGED <<n, got>>
       \/ /\ k # EndOfFile
          /\ input' = [input EXCEPT !.r = After(@)]
          /\ got' = [got EXCEPT ![p] = Append(@, k)]
          /\ n' = [n EXCEPT ![p] = @ - 1]
          /\ Goto(p, IF k = Newline THEN "release" ELSE "loop")
    /\ UNCHANGED <<m, state, chan, killed, cur, preempted, intena, lk, start, buf, ticks>>

\* The conditions to wait on; ticks - ticks0 < n is unsigned.
Waits(p) ==
    IF lk[p] = "cons" THEN n[p] > 0 /\ Empty ELSE ticks - start[p] < n[p]
LoopKilled(p) ==
    /\ At(p, "loop") /\ Waits(p) /\ killed[p]
    /\ Goto(p, "release")
    /\ UNCHANGED <<m, state, chan, killed, cur, preempted, intena, callVars, inputVars, ticks>>

LoopEnd(p) ==
    /\ At(p, "loop") /\ ~Waits(p)
    /\ lk[p] = "cons" => n[p] = 0
    /\ Goto(p, "release")
    /\ UNCHANGED <<m, state, chan, killed, cur, preempted, intena, callVars, inputVars, ticks>>

Release(p) ==
    /\ At(p, "release")
    /\ m' = spinlockRelease(m, lk[p])
    /\ lk' = [lk EXCEPT ![p] = none]
    /\ n' = [n EXCEPT ![p] = 0]
    /\ start' = [start EXCEPT ![p] = 0]
    /\ Goto(p, "ret")
    /\ UNCHANGED <<state, chan, killed, cur, preempted, intena, got, inputVars, ticks>>

\* sleep(): the table lock is taken before the caller's is released.
LoopSleep(p) ==
    /\ At(p, "loop") /\ Waits(p) /\ ~killed[p]
    /\ m' = spinlockAcquire(m, "table")
    /\ Goto(p, "unlock")
    /\ UNCHANGED <<state, chan, killed, cur, preempted, intena, callVars, inputVars, ticks>>

SleepSched(p) ==
    /\ At(p, "unlock")
    /\ Sched(p, spinlockRelease(m, lk[p]), state, "SLEEPING")
    /\ chan' = [chan EXCEPT ![p] = lk[p]]
    /\ Goto(p, "slept")
    /\ UNCHANGED <<killed, preempted, callVars, inputVars, ticks>>

SleepReturn(p) ==
    /\ At(p, "slept")
    /\ chan' = [chan EXCEPT ![p] = none]
    /\ m' = spinlockRelease(m, "table")
    /\ Goto(p, "again")
    /\ UNCHANGED <<state, killed, cur, preempted, intena, callVars, inputVars, ticks>>

SleepAgain(p) ==
    /\ At(p, "again")
    /\ m' = spinlockAcquire(m, lk[p])
    /\ Goto(p, "loop")
    /\ UNCHANGED <<state, chan, killed, cur, preempted, intena, callVars, inputVars, ticks>>

-----------------------------------------------------------------------------
(* Interrupts.  A handler runs with interrupts off, from the interrupt gate *)
(* to iret, on the stack of the thread it interrupts.                      *)

Interruptible == ~m.panicked /\ m.flag

\* consoleInterrupt() is entered with interrupts off and leaves by iret; a line
\* that becomes readable wakes the readers.
KeyHandled(line) ==
    LET k == spinlockAcquire(disableInterrupts(m), "cons") IN
    /\ m' = enableInterrupts(spinlockRelease(IF line THEN wakeup(k) ELSE k, "cons"))
    /\ state' = IF line THEN Woken("cons") ELSE state

\* How far e moves back: to the first place the loop of ^U stops at, or by one
\* for a backspace that is not at the start of the line.
Stops(j) == \/ Before(input.e, j) = input.w
            \/ buf[Before(input.e, j + 1) % INPUT_BUF] = Newline
Erased(k) ==
    IF k = Backspace THEN IF input.e = input.w THEN 0 ELSE 1
    ELSE CHOOSE j \in 0..INPUT_BUF : Stops(j) /\ \A i \in 0..(j - 1) : ~Stops(i)

KeyEdit(k) ==
    /\ Interruptible
    /\ k \in {KillLine, Backspace}
    /\ input' = [input EXCEPT !.e = Before(@, Erased(k))]
    /\ KeyHandled(FALSE)
    /\ UNCHANGED <<chan, killed, cur, pc, preempted, intena, callVars, buf, ticks>>

\* A key that finds the ring full is dropped.
KeyTyped(k) ==
    /\ Interruptible
    /\ k \notin {KillLine, Backspace}
    /\ Before(input.e, input.r) < INPUT_BUF
    /\ buf' = [buf EXCEPT ![input.e % INPUT_BUF] = k]
    /\ LET e == After(input.e)
           line == k \in {Newline, EndOfFile} \/ Before(e, input.r) = INPUT_BUF IN
       /\ input' = [input EXCEPT !.e = e, !.w = IF line THEN e ELSE @]
       /\ KeyHandled(line)
    /\ UNCHANGED <<chan, killed, cur, pc, preempted, intena, callVars, ticks>>

KeyDropped ==
    /\ Interruptible
    /\ Before(input.e, input.r) >= INPUT_BUF
    /\ KeyHandled(FALSE)
    /\ UNCHANGED <<chan, killed, cur, pc, preempted, intena, callVars, inputVars, ticks>>

\* trap() for the timer.  myCpu() is a pointer into cpus[] and is compared with
\* 0, which it never is.
NullCpu == FALSE

Tick == ticks' = IF NullCpu THEN ticks + 1 ELSE ticks
Ticked == IF NullCpu THEN Woken("time") ELSE state

\* In scheduler() there is no process to yield.
TimerInScheduler ==
    /\ Interruptible /\ cur = scheduler
    /\ Tick /\ state' = Ticked
    /\ UNCHANGED <<m, chan, killed, cur, pc, preempted, intena, callVars, inputVars>>

\* yield() up to the return of swtch() in scheduler().
TimerInProcess(p) ==
    /\ Interruptible /\ cur = p
    /\ Tick
    /\ Sched(p, spinlockAcquire(disableInterrupts(m), "table"), Ticked, "RUNNABLE")
    /\ preempted' = preempted \cup {p}
    /\ UNCHANGED <<chan, killed, pc, callVars, inputVars>>

YieldReturn(p) ==
    /\ ~m.panicked /\ cur = p /\ p \in preempted
    /\ m' = enableInterrupts(spinlockRelease(m, "table"))
    /\ preempted' = preempted \ {p}
    /\ UNCHANGED <<state, chan, killed, cur, pc, intena, callVars, inputVars, ticks>>

-----------------------------------------------------------------------------

Next ==
    \/ SchedulerAcquire \/ SchedulerRelease
    \/ \E k \in Keys : KeyEdit(k) \/ KeyTyped(k)
    \/ KeyDropped \/ TimerInScheduler
    \/ \E p \in Procs :
        \/ SchedulerRun(p) \/ TimerInProcess(p) \/ YieldReturn(p)
        \/ ForkRet(p) \/ ReturnToUser(p) \/ Exit(p)
        \/ \E q \in Procs : Kill(p, q)
        \/ \E i \in Reads : SystemCall(p, "cons", i)
        \/ \E i \in Sleeps : SystemCall(p, "time", i)
        \/ ReadTake(p) \/ LoopSleep(p) \/ LoopEnd(p) \/ Release(p)
        \/ LoopKilled(p) \/ SleepSched(p) \/ SleepReturn(p) \/ SleepAgain(p)

Spec == Init /\ [][Next]_vars

-----------------------------------------------------------------------------

\* None of the panics of spinlock.c and of sched() is reached: no interrupt
\* handler finds a lock held by the thread it interrupted, no thread releases
\* a lock it has not, and no thread switches with another lock held or with
\* interrupts on.
NoLockPanic == ~m.panicked

\* The interrupt flag outlives swtch(): a thread that has released all its locks
\* has interrupts on and CliDepth 0, whatever threads and interrupts the CPU
\* has run since it took the first one.  A new process takes over the
\* InterruptsEnabled of whoever ran before it, which may be a handler's; the
\* first one, which reads the disk in forkret(), does have interrupts on.
InterruptsRestored ==
    LET free == m.CliDepth = 0 /\ m.held = {} IN
    /\ cur \notin preempted /\ pc[cur] \in {"user", "ret", "again", "enabled"} =>
          m.flag /\ free
    /\ pc[cur] = "born" /\ cur \notin preempted =>
          /\ free
          /\ (\A p \in Procs \ {cur} : pc[p] = "forkret") => m.flag

\* Every timer interrupt on the one CPU is counted: ticks, which uptime()
\* returns, is "how many clock tick interrupts have occurred since start"
\* (sysproc.c:84), and sleep(n) lasts until it has grown by n.  The code counts
\* none of them.
TicksCounted ==
    [][TimerInScheduler \/ (\E p \in Procs : TimerInProcess(p)) => ticks' = ticks + 1]_vars

\* The ring with its three wrapping indices, filled by interrupts and emptied by
\* readers that sleep and are preempted, is the edited line and the queue of
\* Terminal.
Slice(i, j) == [k \in 1..Before(j, i) |-> buf[(i + k - 1) % INPUT_BUF]]
Tty == INSTANCE Terminal WITH
           ready <- Slice(input.r, input.w),
           edited <- Slice(input.w, input.e),
           want <- [p \in Procs |-> IF lk[p] = "cons" /\ pc[p] \in InLoop THEN n[p] ELSE 0],
           Capacity <- INPUT_BUF
ImplementsTerminal == Tty!Spec

=============================================================================
