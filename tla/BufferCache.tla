---------------------------- MODULE BufferCache ----------------------------
(***************************************************************************)
(* The disk path: the buffer cache (bio.c), the sleep lock of each buffer  *)
(* (sleeplock.c) and the request queue of the IDE driver with its          *)
(* interrupt handler (ide.c).  A step is a region under                    *)
(* diskBufferCache.Lock, under the spinlock of a sleep lock, or under      *)
(* idelock; sleep() gives its lock up and blocks in one step, which module *)
(* Proc justifies.                                                         *)
(*                                                                         *)
(* A process uses one buffer at a time, as fs.c does.  Device is always 0. *)
(* diskBufferWrite has no caller in the kernel yet; here whoever holds a   *)
(* buffer may call it.                                                     *)
(***************************************************************************)
EXTENDS Integers, Sequences, FiniteSets

CONSTANTS NBUF,
          Procs,    \* processes inside the file system
          Sectors,  \* sector numbers, 0 among them
          Value,    \* contents of a sector, 0 among them
          Nothing

ASSUME BufferAssumption ==
    /\ NBUF \in Nat \ {0}
    /\ IsFiniteSet(Procs)
    /\ Sectors \subseteq Nat /\ 0 \in Sectors
    /\ 0 \in Value /\ Nothing \notin Value

Buffers == 1..NBUF
NoBuffer == 0

VARIABLES
    SectorNumber, Flags, ReferenceCount, Data,  \* DiskBuffer
    Locked,     \* DiskBuffer.Lock.Locked
    mru,        \* the list from Head.Next to Head.Previous
    idequeue,
    active,     \* the disk executes a command for the first of idequeue
    disk,       \* the content of the disk
    pc, buf,    \* where a process is, and its buffer
    panicked

bufVars == <<SectorNumber, Flags, ReferenceCount, Data, Locked>>
ideVars == <<idequeue, active, disk>>
vars == <<bufVars, mru, ideVars, pc, buf, panicked>>

(* idle     outside                                                        *)
(* lock     counted in ReferenceCount, about to take the sleep lock        *)
(* asleep   asleep on the sleep lock                                       *)
(* read     lock held, about to look at B_VALID in diskBufferRead          *)
(* ioread   asleep in ideReadWrite, called from diskBufferRead             *)
(* got      awake again in ideReadWrite, called from diskBufferRead        *)
(* use      outside, with the buffer diskBufferRead returned               *)
(* write    in diskBufferWrite, B_DIRTY set                                *)
(* iowrite  asleep in ideReadWrite, called from diskBufferWrite            *)
(* put      awake again in ideReadWrite, called from diskBufferWrite       *)
(* release  in diskBufferRelease, the sleep lock released                  *)
Labels == {"idle", "lock", "asleep", "read", "ioread", "got", "use", "write",
           "iowrite", "put", "release"}

-----------------------------------------------------------------------------

\* Every buffer starts out as an invalid copy of sector 0.
Init ==
    /\ SectorNumber = [b \in Buffers |-> 0]
    /\ Flags = [b \in Buffers |-> {}]
    /\ ReferenceCount = [b \in Buffers |-> 0]
    /\ Data = [b \in Buffers |-> 0]
    /\ Locked = [b \in Buffers |-> FALSE]
    /\ mru = [i \in Buffers |-> NBUF + 1 - i]
    /\ idequeue = <<>>
    /\ active = FALSE
    /\ disk \in [Sectors -> Value]
    /\ pc = [p \in Procs |-> "idle"]
    /\ buf = [p \in Procs |-> NoBuffer]
    /\ panicked = FALSE

At(p, l) == ~panicked /\ pc[p] = l
Goto(p, l) == pc' = [pc EXCEPT ![p] = l]

\* wakeup() of those asleep at label l on b, who go on at label m.
Wakeup(f, b, l, m) ==
    [p \in Procs |-> IF f[p] = l /\ buf[p] = b THEN m ELSE f[p]]

-----------------------------------------------------------------------------
(* bio.c                                                                   *)

\* mru[i] is the first copy of sector s in the list.
Cached(i, s) ==
    /\ SectorNumber[mru[i]] = s
    /\ \A j \in 1..(i - 1) : SectorNumber[mru[j]] # s

\* A buffer that may be recycled (mutated: ReferenceCount not looked at, the
\* wrong flag looked at).
UnusedClean(b) == "DIRTY" \notin Flags[b]
UnusedInvalid(b) == ReferenceCount[b] = 0 /\ "VALID" \notin Flags[b]
Unused(b) == ReferenceCount[b] = 0 /\ "DIRTY" \notin Flags[b]

\* mru[i] is the last unused buffer of the list.
Victim(i) == Unused(mru[i]) /\ \A j \in (i + 1)..NBUF : ~Unused(mru[j])

\* diskBufferGet, under diskBufferCache.Lock.
GetCached(p, s, i) ==
    /\ At(p, "idle")
    /\ Cached(i, s)
    /\ ReferenceCount' = [ReferenceCount EXCEPT ![mru[i]] = @ + 1]
    /\ buf' = [buf EXCEPT ![p] = mru[i]]
    /\ Goto(p, "lock")
    /\ UNCHANGED <<SectorNumber, Flags, Data, Locked, mru, ideVars, panicked>>

\* Flags of a recycled buffer (mutated: B_VALID is left set).
KeptFlags(b) == Flags[b]
RecycledFlags(b) == {}

GetRecycled(p, s, i) ==
    /\ At(p, "idle")
    /\ \A j \in Buffers : SectorNumber[mru[j]] # s
    /\ Victim(i)
    /\ LET b == mru[i]
       IN  /\ SectorNumber' = [SectorNumber EXCEPT ![b] = s]
           /\ Flags' = [Flags EXCEPT ![b] = RecycledFlags(b)]
           /\ ReferenceCount' = [ReferenceCount EXCEPT ![b] = 1]
           /\ buf' = [buf EXCEPT ![p] = b]
    /\ Goto(p, "lock")
    /\ UNCHANGED <<Data, Locked, mru, ideVars, panicked>>

GetPanics(p, s) ==
    /\ At(p, "idle")
    /\ \A b \in Buffers : SectorNumber[b] # s /\ ~Unused(b)
    /\ panicked' = TRUE
    /\ UNCHANGED <<bufVars, mru, ideVars, pc, buf>>

\* diskBufferRead finds the data, or has them read.
ReadValid(p) ==
    /\ At(p, "read")
    /\ "VALID" \in Flags[buf[p]]
    /\ Goto(p, "use")
    /\ UNCHANGED <<bufVars, mru, ideVars, buf, panicked>>

\* The holder changes the data and calls diskBufferWrite.
Write(p, v) ==
    /\ At(p, "use")
    /\ Data' = [Data EXCEPT ![buf[p]] = v]
    /\ Flags' = [Flags EXCEPT ![buf[p]] = @ \cup {"DIRTY"}]
    /\ Goto(p, "write")
    /\ UNCHANGED <<SectorNumber, ReferenceCount, Locked, mru, ideVars, buf,
                   panicked>>

\* The place of buffer b in the list.
Place(b) == CHOOSE k \in Buffers : mru[k] = b

\* Released buffers go to the head of the list (mutated: to its end), the
\* ones before them move on by one.
ToEnd(b) ==
    [i \in Buffers |-> IF i = NBUF THEN b
                       ELSE IF i >= Place(b) THEN mru[i + 1] ELSE mru[i]]
ToHead(b) ==
    [i \in Buffers |-> IF i = 1 THEN b
                       ELSE IF i <= Place(b) THEN mru[i - 1] ELSE mru[i]]

\* diskBufferRelease after sleeplockRelease.
Unreference(p) ==
    /\ At(p, "release")
    /\ LET b == buf[p]
       IN  /\ ReferenceCount' = [ReferenceCount EXCEPT ![b] = @ - 1]
           /\ mru' = IF ReferenceCount[b] = 1 THEN ToHead(b) ELSE mru
    /\ buf' = [buf EXCEPT ![p] = NoBuffer]
    /\ Goto(p, "idle")
    /\ UNCHANGED <<SectorNumber, Flags, Data, Locked, ideVars, panicked>>

-----------------------------------------------------------------------------
(* sleeplock.c                                                             *)

sleeplockAcquire(p) ==
    /\ At(p, "lock")
    /\ ~Locked[buf[p]]
    /\ Locked' = [Locked EXCEPT ![buf[p]] = TRUE]
    /\ Goto(p, "read")
    /\ UNCHANGED <<SectorNumber, Flags, ReferenceCount, Data, mru, ideVars,
                   buf, panicked>>

SleeplockSleep(p) ==
    /\ At(p, "lock")
    /\ Locked[buf[p]]
    /\ Goto(p, "asleep")
    /\ UNCHANGED <<bufVars, mru, ideVars, buf, panicked>>

\* Every waiter is woken and tries again.
sleeplockRelease(p) ==
    /\ At(p, "use")
    /\ Locked' = [Locked EXCEPT ![buf[p]] = FALSE]
    /\ pc' = [Wakeup(pc, buf[p], "asleep", "lock") EXCEPT ![p] = "release"]
    /\ UNCHANGED <<SectorNumber, Flags, ReferenceCount, Data, mru, ideVars,
                   buf, panicked>>

-----------------------------------------------------------------------------
(* ide.c                                                                   *)

\* ideReadWrite, under idelock, up to its sleep(): the disk is started if
\* the queue was empty.
Enqueue(b) ==
    /\ idequeue' = Append(idequeue, b)
    /\ active' = (active \/ idequeue = <<>>)

ReadRequest(p) ==
    /\ At(p, "read")
    /\ "VALID" \notin Flags[buf[p]]
    /\ Enqueue(buf[p])
    /\ Goto(p, "ioread")
    /\ UNCHANGED <<bufVars, mru, disk, buf, panicked>>

WriteRequest(p) ==
    /\ At(p, "write")
    /\ Enqueue(buf[p])
    /\ Goto(p, "iowrite")
    /\ UNCHANGED <<bufVars, mru, disk, buf, panicked>>

\* The next request is started (mutated: it is not).
NotStarted(q) == FALSE
Started(q) == q # <<>>

\* ideInterruptHandler.  The disk has carried out the command for the sector
\* of the first buffer.
IdeComplete(b) ==
    /\ idequeue' = Tail(idequeue)
    /\ Flags' = [Flags EXCEPT ![b] = {"VALID"}]
    /\ pc' = Wakeup(Wakeup(pc, b, "ioread", "got"), b, "iowrite", "put")
    /\ active' = Started(Tail(idequeue))
    /\ UNCHANGED <<SectorNumber, ReferenceCount, Locked, mru, buf, panicked>>

IdeInterrupt ==
    /\ ~panicked
    /\ active
    /\ LET b == Head(idequeue)
       IN  /\ IdeComplete(b)
           /\ IF "DIRTY" \in Flags[b]
              THEN /\ disk' = [disk EXCEPT ![SectorNumber[b]] = Data[b]]
                   /\ UNCHANGED Data
              ELSE /\ Data' = [Data EXCEPT ![b] = disk[SectorNumber[b]]]
                   /\ UNCHANGED disk

\* The disk reports an error for a read: ideWait(1) fails, the data stay what
\* they were, and B_VALID is set all the same.
IdeReadError ==
    /\ ~panicked
    /\ active
    /\ LET b == Head(idequeue)
       IN  "DIRTY" \notin Flags[b] /\ IdeComplete(b)
    /\ UNCHANGED <<Data, disk>>

\* ideReadWrite finds the flags it waited for.
IoDone(p) ==
    /\ \/ At(p, "got")
       \/ At(p, "put")
    /\ Flags[buf[p]] = {"VALID"}
    /\ Goto(p, "use")
    /\ UNCHANGED <<bufVars, mru, ideVars, buf, panicked>>

\* panic() loops for ever.
Panicked == panicked /\ UNCHANGED vars

-----------------------------------------------------------------------------

Next ==
    \/ \E p \in Procs :
        \/ ReadValid(p) \/ Unreference(p)
        \/ sleeplockAcquire(p) \/ SleeplockSleep(p) \/ sleeplockRelease(p)
        \/ ReadRequest(p) \/ WriteRequest(p) \/ IoDone(p)
        \/ \E s \in Sectors, i \in Buffers :
            GetCached(p, s, i) \/ GetRecycled(p, s, i)
        \/ \E s \in Sectors : GetPanics(p, s)
        \/ \E v \in Value : Write(p, v)
    \/ IdeInterrupt
    \/ Panicked

Spec == Init /\ [][Next]_vars

(* With a disk that may fail to read a sector.                             *)
ErrorSpec == Init /\ [][Next \/ IdeReadError]_vars

-----------------------------------------------------------------------------

TypeOK ==
    /\ SectorNumber \in [Buffers -> Sectors]
    /\ Flags \in [Buffers -> SUBSET {"VALID", "DIRTY"}]
    /\ ReferenceCount \in [Buffers -> Nat]
    /\ Data \in [Buffers -> Value]
    /\ Locked \in [Buffers -> BOOLEAN]
    /\ mru \in [Buffers -> Buffers]
    /\ idequeue \in Seq(Buffers)
    /\ active \in BOOLEAN
    /\ disk \in [Sectors -> Value]
    /\ pc \in [Procs -> Labels]
    /\ buf \in [Procs -> Buffers \cup {NoBuffer}]
    /\ panicked \in BOOLEAN

(* A sector has one buffer: of the buffers that carry its number at most   *)
(* one is in use or valid.  Sector 0 is the hard case: buffers never used  *)
(* carry its number too, and only the order of the list keeps              *)
(* diskBufferGet away from them while the real copy exists.                *)
OneBufferPerSector ==
    \A b, c \in Buffers :
        /\ SectorNumber[b] = SectorNumber[c]
        /\ ReferenceCount[b] > 0 \/ "VALID" \in Flags[b]
        /\ ReferenceCount[c] > 0 \/ "VALID" \in Flags[c]
        => b = c

\* Processes that were given buffer b by diskBufferRead, or are being given.
Using == {"use", "write", "iowrite", "put"}
Holding == Using \cup {"read", "ioread", "got"}

(* Every sleeper will be woken: the sleep lock it waits for is held by a   *)
(* process that is not itself waiting for it; the request it waits for is  *)
(* in the queue; and a queue that is not empty has the disk at work.       *)
SleepersServed ==
    /\ \A p \in Procs :
        /\ pc[p] = "asleep" =>
               \E q \in Procs : buf[q] = buf[p] /\ pc[q] \in Holding
        /\ pc[p] \in {"ioread", "iowrite"} =>
               \E i \in DOMAIN idequeue : idequeue[i] = buf[p]
    /\ active <=> idequeue # <<>>

\* What the cache holds for sector s: the data not yet on the disk, else the
\* disk's.
DirtyFor(b, s) == SectorNumber[b] = s /\ "DIRTY" \in Flags[b]
Stored(s) ==
    IF \E b \in Buffers : DirtyFor(b, s)
    THEN Data[CHOOSE b \in Buffers : DirtyFor(b, s)]
    ELSE disk[s]

UsersOf(s) == {p \in Procs : pc[p] \in Using /\ SectorNumber[buf[p]] = s}
Seen(p) == IF pc[p] \in Using THEN Data[buf[p]] ELSE Nothing

(* "Only one process at a time can use a buffer" (bio.c:13), and what it   *)
(* sees is what was last written to the sector, through whichever buffer.  *)
S == INSTANCE SectorStore WITH
        store <- [s \in Sectors |-> Stored(s)],
        user <- [s \in Sectors |-> UsersOf(s)],
        seen <- [p \in Procs |-> Seen(p)]

ImplementsStore == S!SSSpec

(* diskBufferGet panics for want of a buffer only when every buffer is in  *)
(* the hands of a process: none is lost, and no panic is possible with as  *)
(* many buffers as processes.                                              *)
PanicOnlyIfAllInUse ==
    panicked => \A b \in Buffers : \E p \in Procs : buf[p] = b

(* "B_VALID: the buffer data has been read from the disk." (bio.c:17)      *)
ValidMeansRead ==
    \A b \in Buffers :
        "VALID" \in Flags[b] /\ "DIRTY" \notin Flags[b] =>
            Data[b] = disk[SectorNumber[b]]
=============================================================================
