-------------------------------- MODULE Pipe --------------------------------
(***************************************************************************)
(* pipe.c: one pipe, the processes that hold its ends, and the closing of  *)
(* the ends by fileClose.  p->Lock is explicit; sleep() gives it up and    *)
(* blocks in one step, which module Proc justifies.  The byte counters     *)
(* wrap at Wrap as the uint32_t of the code wraps at 2^32.                 *)
(***************************************************************************)
EXTENDS Integers, Sequences, FiniteSets

CONSTANTS PIPESIZE,
          Wrap,         \* number of values of ReadCount and WriteCount
          Byte,
          Junk,         \* the byte kalloc.c fills a free page with
          Procs,        \* processes that hold an end
          Readers,      \* those that hold the read end at the start
          Writers,      \* those that hold the write end at the start
          MaxN,         \* bound: longest read() or write()
          Nobody

ASSUME PipeAssumption ==
    /\ PIPESIZE \in Nat \ {0}
    /\ Wrap \in Nat
    /\ Wrap % PIPESIZE = 0 /\ Wrap > PIPESIZE
    /\ Readers \subseteq Procs /\ Writers \subseteq Procs
    /\ Junk \in Byte
    /\ MaxN \in Nat \ {0}
    /\ Nobody \notin Procs

VARIABLES
    Data, ReadCount, WriteCount, ReadOpen, WriteOpen,   \* struct _Pipe
    frees,      \* how often the pipe's page was given to kalloc
    lock,       \* holder of p->Lock
    rd, wr,     \* processes with a descriptor of the read, write end
    pc,         \* where a process is
    n,          \* bytes a call has still to transfer
    killed,     \* Process.IsKilled
    copied,     \* processes whose piperead has copied a byte (i > 0)
    last,       \* the byte copied out last, as <<b>>
    eof,        \* a read() of some bytes has returned 0
    abandoned   \* a write() gave up on a full pipe because it was killed, and
                \* nobody has called wakeup(&ReadCount) since

pipeVars == <<Data, ReadCount, WriteCount, ReadOpen, WriteOpen, frees>>
obsVars == <<last, eof, abandoned>>
vars == <<pipeVars, lock, rd, wr, pc, n, killed, copied, obsVars>>

(* idle    outside pipe.c                                                  *)
(* write / read      called, waiting for p->Lock                           *)
(* wloop   in the loop of pipewrite, lock held                             *)
(* rwait / rcopy     in the first, second loop of piperead, lock held      *)
(* wsleep / rsleep   asleep on &WriteCount, &ReadCount                     *)
(* closeW / closeR   in fileClose, last reference dropped                  *)
Labels == {"idle", "write", "wloop", "wsleep", "read", "rwait", "rcopy",
           "rsleep", "closeW", "closeR"}

-----------------------------------------------------------------------------

\* pipealloc() has succeeded and the descriptors have been inherited.
Init ==
    /\ Data = [i \in 0..(PIPESIZE - 1) |-> Junk]
    /\ ReadCount = 0 /\ WriteCount = 0
    /\ ReadOpen = TRUE /\ WriteOpen = TRUE
    /\ frees = 0
    /\ lock = Nobody
    /\ rd = Readers /\ wr = Writers
    /\ pc = [p \in Procs |-> "idle"]
    /\ n = [p \in Procs |-> 0]
    /\ killed = {}
    /\ copied = {}
    /\ last = <<>> /\ eof = FALSE /\ abandoned = FALSE

\* wakeup(&ReadCount) and wakeup(&WriteCount): a woken process contends for
\* p->Lock again.
WakeReaders(f) == [p \in Procs |-> IF f[p] = "rsleep" THEN "read" ELSE f[p]]
WakeWriters(f) == [p \in Procs |-> IF f[p] = "wsleep" THEN "write" ELSE f[p]]

Empty == ReadCount = WriteCount
\* (mutated: off by one)
FullLate == WriteCount = (ReadCount + PIPESIZE + 1) % Wrap
Full == WriteCount = (ReadCount + PIPESIZE) % Wrap

\* A call ends: its locals are gone and the lock is free.
Return(p, f) ==
    /\ lock' = Nobody
    /\ pc' = [f EXCEPT ![p] = "idle"]
    /\ n' = [n EXCEPT ![p] = 0]
    /\ copied' = copied \ {p}

Call(p, l, k) ==
    /\ pc[p] = "idle"
    /\ p \notin killed
    /\ pc' = [pc EXCEPT ![p] = l]
    /\ n' = [n EXCEPT ![p] = k]
    /\ UNCHANGED <<pipeVars, lock, rd, wr, killed, copied, obsVars>>

Acquire(p, from, to) ==
    /\ pc[p] = from
    /\ lock = Nobody
    /\ lock' = p
    /\ pc' = [pc EXCEPT ![p] = to]
    /\ UNCHANGED <<pipeVars, rd, wr, n, killed, copied, obsVars>>

-----------------------------------------------------------------------------
(* pipewrite()                                                             *)

WriteCall(p, k) == p \in wr /\ Call(p, "write", k)
WriteAcquire(p) == Acquire(p, "write", "wloop")

WriteByte(p, b) ==
    /\ pc[p] = "wloop"
    /\ n[p] > 0
    /\ ~Full
    /\ Data' = [Data EXCEPT ![WriteCount % PIPESIZE] = b]
    /\ WriteCount' = (WriteCount + 1) % Wrap
    /\ n' = [n EXCEPT ![p] = @ - 1]
    /\ UNCHANGED <<ReadCount, ReadOpen, WriteOpen, frees, lock, rd, wr, pc,
                   killed, copied, obsVars>>

\* Full, and nobody to read it or the writer was killed: return -1.
WriteFail(p) ==
    /\ pc[p] = "wloop"
    /\ n[p] > 0
    /\ Full
    /\ ~ReadOpen \/ p \in killed
    /\ Return(p, pc)
    /\ abandoned' = (abandoned \/ ReadOpen)
    /\ UNCHANGED <<pipeVars, rd, wr, killed, last, eof>>

WriteSleep(p) ==
    /\ pc[p] = "wloop"
    /\ n[p] > 0
    /\ Full
    /\ ReadOpen /\ p \notin killed
    /\ lock' = Nobody
    /\ pc' = [WakeReaders(pc) EXCEPT ![p] = "wsleep"]
    /\ abandoned' = FALSE
    /\ UNCHANGED <<pipeVars, rd, wr, n, killed, copied, last, eof>>

\* (mutated: the readers are not told)
WriteWakesNobody(f) == f
WriteWakes(f) == WakeReaders(f)

WriteDone(p) ==
    /\ pc[p] = "wloop"
    /\ n[p] = 0
    /\ Return(p, WriteWakes(pc))
    /\ abandoned' = FALSE
    /\ UNCHANGED <<pipeVars, rd, wr, killed, last, eof>>

-----------------------------------------------------------------------------
(* piperead()                                                              *)

ReadCall(p, k) == p \in rd /\ Call(p, "read", k)
ReadAcquire(p) == Acquire(p, "read", "rwait")

\* Killed while there is nothing to read: return -1.
ReadFail(p) ==
    /\ pc[p] = "rwait"
    /\ Empty /\ WriteOpen
    /\ p \in killed
    /\ Return(p, pc)
    /\ UNCHANGED <<pipeVars, rd, wr, killed, obsVars>>

ReadSleep(p) ==
    /\ pc[p] = "rwait"
    /\ Empty /\ WriteOpen
    /\ p \notin killed
    /\ lock' = Nobody
    /\ pc' = [pc EXCEPT ![p] = "rsleep"]
    /\ UNCHANGED <<pipeVars, rd, wr, n, killed, copied, obsVars>>

ReadReady(p) ==
    /\ pc[p] = "rwait"
    /\ ~Empty \/ ~WriteOpen
    /\ pc' = [pc EXCEPT ![p] = "rcopy"]
    /\ UNCHANGED <<pipeVars, lock, rd, wr, n, killed, copied, obsVars>>

\* (mutated: the index is advanced before it is used)
ReadIndexNext == ((ReadCount + 1) % Wrap) % PIPESIZE
ReadIndex == ReadCount % PIPESIZE

ReadByte(p) ==
    /\ pc[p] = "rcopy"
    /\ n[p] > 0
    /\ ~Empty
    /\ last' = <<Data[ReadIndex]>>
    /\ ReadCount' = (ReadCount + 1) % Wrap
    /\ n' = [n EXCEPT ![p] = @ - 1]
    /\ copied' = copied \cup {p}
    /\ UNCHANGED <<Data, WriteCount, ReadOpen, WriteOpen, frees, lock, rd, wr,
                   pc, killed, eof, abandoned>>

ReadDone(p) ==
    /\ pc[p] = "rcopy"
    /\ n[p] = 0 \/ Empty
    /\ Return(p, WakeWriters(pc))
    /\ eof' = (eof \/ (n[p] > 0 /\ p \notin copied))
    /\ UNCHANGED <<pipeVars, rd, wr, killed, last, abandoned>>

-----------------------------------------------------------------------------
(* Closing: sys_close or exit(), fileClose(), pipeclose()                  *)

\* fileClose drops one reference under FileTable.Lock; the last one goes on
\* to pipeclose after that lock is released.
CloseWriteEnd(p) ==
    /\ pc[p] = "idle"
    /\ p \in wr
    /\ wr' = wr \ {p}
    /\ pc' = [pc EXCEPT ![p] = IF wr' = {} THEN "closeW" ELSE "idle"]
    /\ UNCHANGED <<pipeVars, lock, rd, n, killed, copied, obsVars>>

CloseReadEnd(p) ==
    /\ pc[p] = "idle"
    /\ p \in rd
    /\ rd' = rd \ {p}
    /\ pc' = [pc EXCEPT ![p] = IF rd' = {} THEN "closeR" ELSE "idle"]
    /\ UNCHANGED <<pipeVars, lock, wr, n, killed, copied, obsVars>>

\* (mutated: whoever closes last its end frees, the other end not looked at)
FreesAlways(ro, wo) == TRUE
FreesPipe(ro, wo) == ~ro /\ ~wo

\* (mutated: closing the write end tells no reader)
CloseWakesNobody(f) == f
CloseWakes(f) == WakeReaders(f)

PipeCloseWrite(p) ==
    /\ pc[p] = "closeW"
    /\ lock = Nobody
    /\ WriteOpen' = FALSE
    /\ pc' = [CloseWakes(pc) EXCEPT ![p] = "idle"]
    /\ frees' = IF FreesPipe(ReadOpen, FALSE) THEN frees + 1 ELSE frees
    /\ abandoned' = FALSE
    /\ UNCHANGED <<Data, ReadCount, WriteCount, ReadOpen, lock, rd, wr, n,
                   killed, copied, last, eof>>

\* (mutated: closing the read end tells no writer)
CloseLeavesWriters(f) == f
CloseFreesWriters(f) == WakeWriters(f)

PipeCloseRead(p) ==
    /\ pc[p] = "closeR"
    /\ lock = Nobody
    /\ ReadOpen' = FALSE
    /\ pc' = [CloseFreesWriters(pc) EXCEPT ![p] = "idle"]
    /\ frees' = IF FreesPipe(FALSE, WriteOpen) THEN frees + 1 ELSE frees
    /\ UNCHANGED <<Data, ReadCount, WriteCount, WriteOpen, lock, rd, wr, n,
                   killed, copied, obsVars>>

\* (mutated: a sleeper sleeps on)
KillLeaves(f, p) == f
KillWakes(f, p) ==
    [f EXCEPT ![p] = CASE @ = "rsleep" -> "read" [] @ = "wsleep" -> "write"
                       [] OTHER -> @]

\* kill() of p by some process.
Kill(p) ==
    /\ p \notin killed
    /\ killed' = killed \cup {p}
    /\ pc' = KillWakes(pc, p)
    /\ UNCHANGED <<pipeVars, lock, rd, wr, n, copied, obsVars>>

-----------------------------------------------------------------------------

\* What a process inside pipe.c does next.
Step(p) ==
    \/ WriteAcquire(p) \/ WriteFail(p) \/ WriteSleep(p) \/ WriteDone(p)
    \/ \E b \in Byte : WriteByte(p, b)
    \/ ReadAcquire(p) \/ ReadFail(p) \/ ReadSleep(p) \/ ReadReady(p)
    \/ ReadByte(p) \/ ReadDone(p)
    \/ PipeCloseWrite(p) \/ PipeCloseRead(p)

\* Every descriptor is closed and nothing is left to do.
Done ==
    /\ rd = {} /\ wr = {}
    /\ \A p \in Procs : pc[p] = "idle"
    /\ UNCHANGED vars

Next ==
    \/ \E p \in Procs :
        \/ Step(p)
        \/ \E k \in 0..MaxN : WriteCall(p, k) \/ ReadCall(p, k)
        \/ CloseWriteEnd(p) \/ CloseReadEnd(p)
        \/ Kill(p)
    \/ Done

(* A process inside the kernel gets the CPU again and again, also while    *)
(* others contend for the same lock, and a lock is never held for ever.    *)
Fairness == \A p \in Procs : SF_vars(Step(p))

Spec == Init /\ [][Next]_vars /\ Fairness

-----------------------------------------------------------------------------

Count == (WriteCount - ReadCount) % Wrap

TypeOK ==
    /\ Data \in [0..(PIPESIZE - 1) -> Byte]
    /\ ReadCount \in 0..(Wrap - 1) /\ WriteCount \in 0..(Wrap - 1)
    /\ Count <= PIPESIZE
    /\ ReadOpen \in BOOLEAN /\ WriteOpen \in BOOLEAN
    /\ frees \in Nat
    /\ lock \in Procs \cup {Nobody}
    /\ rd \subseteq Readers /\ wr \subseteq Writers
    /\ pc \in [Procs -> Labels]
    /\ n \in [Procs -> 0..MaxN]
    /\ killed \subseteq Procs
    /\ copied \subseteq Procs
    /\ last \in {<<>>} \cup {<<b>> : b \in Byte}
    /\ eof \in BOOLEAN /\ abandoned \in BOOLEAN

(* The ring buffer, read from ReadCount on, is the queue of Channel: bytes *)
(* come out in the order they went in, also when the counters wrap, and    *)
(* end of file is reported only after the last byte.                       *)
Ring == [i \in 1..Count |-> Data[((ReadCount + i - 1) % Wrap) % PIPESIZE]]

C == INSTANCE Channel WITH Capacity <- PIPESIZE, queue <- Ring,
                           wOpen <- WriteOpen, rOpen <- ReadOpen

ImplementsChannel == C!ChSpec

(* A process asleep in pipe.c has a reason to be: the reader finds the     *)
(* pipe empty and the write end open, the writer finds it full and the     *)
(* read end open.  The exception is the write() a kill cut short, which    *)
(* leaves the buffer full and returns without wakeup(&p->ReadCount): up to *)
(* the next write() that sleeps or returns, or the last close() of the     *)
(* write end, a reader may sleep before a full pipe.                       *)
PipeSleepersBlocked ==
    lock = Nobody =>
        \A p \in Procs :
            /\ pc[p] = "rsleep" => (Empty /\ WriteOpen) \/ abandoned
            /\ pc[p] = "wsleep" => Full /\ ReadOpen

(* The pipe's page is freed once, and by then no process is inside         *)
(* pipewrite or piperead or holds a descriptor.                            *)
FreedOnceUnused ==
    /\ frees <= 1
    /\ frees = 1 => /\ rd = {} /\ wr = {}
                    /\ \A p \in Procs : pc[p] = "idle"

(* A reader blocked on a pipe whose write end is closed returns.           *)
ReaderSeesEof ==
    \A p \in Procs :
        pc[p] \in {"read", "rwait", "rsleep"} /\ ~WriteOpen ~> pc[p] = "idle"

(* A writer blocked on a pipe whose read end is closed returns.            *)
WriterSeesClose ==
    \A p \in Procs :
        pc[p] \in {"write", "wloop", "wsleep"} /\ ~ReadOpen ~> pc[p] = "idle"

(* A killed process leaves pipe.c.                                         *)
KilledReturns ==
    \A p \in Procs : p \in killed /\ pc[p] # "idle" ~> pc[p] = "idle"
=============================================================================
