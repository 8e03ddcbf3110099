------------------------- MODULE BufferCacheProofs -------------------------
(***************************************************************************)
(* The safety properties of BufferCache, and that it implements            *)
(* SectorStore, for any number of buffers, processes and sectors.          *)
(***************************************************************************)
EXTENDS BufferCache, TLAPS

(* The list holds every buffer once.                                       *)
ListInv ==
    /\ \A i, j \in Buffers : mru[i] = mru[j] => i = j
    /\ \A b \in Buffers : \E i \in Buffers : mru[i] = b

Users(b) == {p \in Procs : buf[p] = b}

(* ReferenceCount counts the processes that have the buffer.               *)
CountInv ==
    /\ \A b \in Buffers : ReferenceCount[b] = Cardinality(Users(b))
    /\ \A p \in Procs : pc[p] = "idle" <=> buf[p] = NoBuffer

(* A buffer is referenced exactly when some process has it.                *)
UseInv ==
    \A b \in Buffers : ReferenceCount[b] > 0 <=> \E p \in Procs : buf[p] = b

(* The sleep lock is held by one process, which is not waiting for it.     *)
LockInv ==
    /\ \A p \in Procs : pc[p] \in Holding => Locked[buf[p]]
    /\ \A b \in Buffers : Locked[b] =>
           \E p \in Procs : buf[p] = b /\ pc[p] \in Holding
    /\ \A p, q \in Procs :
           buf[p] = buf[q] /\ pc[p] \in Holding /\ pc[q] \in Holding => p = q
    /\ \A p \in Procs : pc[p] = "asleep" => Locked[buf[p]]

(* What the holder of a buffer knows of its flags.                         *)
FlagInv ==
    /\ \A p \in Procs :
        /\ pc[p] \in {"use", "got", "put"} => Flags[buf[p]] = {"VALID"}
        /\ pc[p] \in {"write", "iowrite"} =>
               Flags[buf[p]] = {"VALID", "DIRTY"}
        /\ pc[p] = "ioread" => Flags[buf[p]] = {}
    /\ \A b \in Buffers : "DIRTY" \in Flags[b] =>
           \E p \in Procs : buf[p] = b /\ pc[p] \in {"write", "iowrite"}

(* The queue holds the buffers of those asleep in ideReadWrite, each once. *)
QueueInv ==
    /\ \A i \in DOMAIN idequeue :
           \E p \in Procs : buf[p] = idequeue[i] /\ pc[p] \in {"ioread", "iowrite"}
    /\ \A i, j \in DOMAIN idequeue : idequeue[i] = idequeue[j] => i = j
    /\ \A p \in Procs : pc[p] \in {"ioread", "iowrite"} =>
           \E i \in DOMAIN idequeue : idequeue[i] = buf[p]
    /\ active <=> idequeue # <<>>

Real(b) == ReferenceCount[b] > 0 \/ "VALID" \in Flags[b]

(* The buffer that really stands for a sector comes before all others that *)
(* carry its number.                                                       *)
OrderInv ==
    \A i, j \in Buffers :
        SectorNumber[mru[i]] = SectorNumber[mru[j]] /\ Real(mru[i]) => i <= j

IInv ==
    /\ TypeOK
    /\ ListInv
    /\ CountInv
    /\ UseInv
    /\ LockInv
    /\ FlagInv
    /\ QueueInv
    /\ OrderInv
    /\ PanicOnlyIfAllInUse
    /\ ValidMeansRead
-----------------------------------------------------------------------------

(* The provers a leaf is tried with, and the time each may take.           *)
USE SMTT(30), Z3T(30), ZenonT(30)

(* A process's buffer is never the number 0 that stands for none.          *)
LEMMA NoBufferIsNone == NoBuffer \notin Buffers
BY DEF NoBuffer, Buffers

(* Moving a buffer to the head keeps every buffer on the list once, and    *)
(* the other buffers in their order.                                       *)
LEMMA MoveToHead ==
    ASSUME TypeOK, ListInv, NEW b \in Buffers, mru' = ToHead(b)
    PROVE  /\ mru' \in [Buffers -> Buffers] /\ ListInv'
           /\ mru'[1] = b
           /\ \A i, j \in Buffers : i < j /\ mru'[i] # b =>
                  \E k, l \in Buffers :
                      k < l /\ mru[k] = mru'[i] /\ mru[l] = mru'[j]
<1> DEFINE n == Place(b)
<1>1. n \in Buffers /\ mru[n] = b
    BY DEF ListInv, Place
<1>2. /\ 1 \in Buffers
      /\ \A i \in Buffers : i \in Nat /\ 1 <= i
      /\ \A i \in Buffers : i # 1 => i - 1 \in Buffers
      /\ \A i \in Buffers : i < n => i + 1 \in Buffers
    BY <1>1, BufferAssumption DEF Buffers
<1>3. /\ mru'[1] = b
      /\ \A i \in Buffers : i # 1 /\ i <= n => mru'[i] = mru[i - 1]
      /\ \A i \in Buffers : i > n => mru'[i] = mru[i]
    BY <1>1, <1>2 DEF ToHead
<1> HIDE DEF n
<1>4. mru' \in [Buffers -> Buffers]
    BY <1>2 DEF ToHead, TypeOK
<1>5. ListInv'
    <2>1. ASSUME NEW i \in Buffers, NEW j \in Buffers, mru'[i] = mru'[j]
          PROVE  i = j
        <3>1. \A k, l \in Buffers : mru[k] = mru[l] => k = l
            BY DEF ListInv
        <3> DEFINE old(k) == IF k = 1 THEN n ELSE IF k <= n THEN k - 1 ELSE k
        <3>2. ASSUME NEW k \in Buffers
              PROVE  old(k) \in Buffers /\ mru'[k] = mru[old(k)]
            BY <1>1, <1>2, <1>3
        <3> HIDE DEF old
        <3>3. old(i) = old(j)
            BY <2>1, <3>1, <3>2
        <3> QED
            BY <1>1, <1>2, <3>3 DEF old
    <2>2. ASSUME NEW c \in Buffers PROVE \E i \in Buffers : mru'[i] = c
        <3>1. PICK k \in Buffers : mru[k] = c
            BY DEF ListInv
        <3>2. CASE k < n
            <4>1. k + 1 \in Buffers /\ k + 1 # 1 /\ k + 1 <= n /\ (k + 1) - 1 = k
                BY <1>1, <1>2, <3>2
            <4> QED
                BY <1>3, <3>1, <4>1
        <3>3. CASE k = n
            BY <1>1, <1>2, <1>3, <3>1, <3>3
        <3>4. CASE k > n
            BY <1>3, <3>1, <3>4
        <3> QED
            BY <1>1, <1>2, <3>2, <3>3, <3>4
    <2> QED
        BY <2>1, <2>2 DEF ListInv
<1>6. ASSUME NEW i \in Buffers, NEW j \in Buffers, i < j, mru'[i] # b
      PROVE  \E k, l \in Buffers :
                 k < l /\ mru[k] = mru'[i] /\ mru[l] = mru'[j]
    BY <1>1, <1>2, <1>3, <1>6
<1> QED
    BY <1>3, <1>4, <1>5, <1>6


(* A process that is not idle has a buffer.                                *)
LEMMA HasBuffer ==
    ASSUME TypeOK, CountInv
    PROVE  \A p \in Procs : pc[p] # "idle" => buf[p] \in Buffers
BY DEF TypeOK, CountInv

(* While the disk works there is a first buffer in the queue.              *)
LEMMA FirstBuffer ==
    ASSUME TypeOK, QueueInv, active
    PROVE  /\ idequeue # <<>> /\ 1 \in DOMAIN idequeue
           /\ Head(idequeue) \in Buffers /\ Head(idequeue) = idequeue[1]
           /\ Tail(idequeue) \in Seq(Buffers)
           /\ DOMAIN Tail(idequeue) = 1..(Len(idequeue) - 1)
           /\ DOMAIN idequeue = 1..Len(idequeue) /\ Len(idequeue) \in Nat
           /\ \A i \in DOMAIN Tail(idequeue) :
                  Tail(idequeue)[i] = idequeue[i + 1]
BY DEF TypeOK, QueueInv

(* Every step keeps the types.                                             *)
LEMMA TypeStep ==
    ASSUME TypeOK, ListInv, CountInv, UseInv, QueueInv, [Next]_vars
    PROVE  TypeOK'
<1> USE NoBufferIsNone, HasBuffer DEF TypeOK, Labels, bufVars, ideVars
<1>1. ASSUME NEW p \in Procs, ReadValid(p) PROVE TypeOK'
    BY <1>1 DEF ReadValid, At, Goto
<1>2. ASSUME NEW p \in Procs, Unreference(p) PROVE TypeOK'
    <2>1. buf[p] \in Buffers
        BY <1>2, HasBuffer DEF Unreference, At
    <2>2. ReferenceCount' \in [Buffers -> Nat]
        BY <1>2, <2>1 DEF Unreference, UseInv
    <2>3. mru' \in [Buffers -> Buffers]
        BY <1>2, <2>1, MoveToHead DEF Unreference
    <2> QED
        BY <1>2, <2>1, <2>2, <2>3 DEF Unreference, Goto
<1>3. ASSUME NEW p \in Procs, sleeplockAcquire(p) PROVE TypeOK'
    BY <1>3 DEF sleeplockAcquire, At, Goto
<1>4. ASSUME NEW p \in Procs, SleeplockSleep(p) PROVE TypeOK'
    BY <1>4 DEF SleeplockSleep, At, Goto
<1>5. ASSUME NEW p \in Procs, sleeplockRelease(p) PROVE TypeOK'
    BY <1>5 DEF sleeplockRelease, At, Wakeup
<1>6. ASSUME NEW p \in Procs, ReadRequest(p) PROVE TypeOK'
    BY <1>6 DEF ReadRequest, At, Goto, Enqueue
<1>7. ASSUME NEW p \in Procs, WriteRequest(p) PROVE TypeOK'
    BY <1>7 DEF WriteRequest, At, Goto, Enqueue
<1>8. ASSUME NEW p \in Procs, IoDone(p) PROVE TypeOK'
    BY <1>8 DEF IoDone, At, Goto
<1>9. ASSUME NEW p \in Procs, NEW s \in Sectors, NEW i \in Buffers,
             GetCached(p, s, i)
      PROVE TypeOK'
    BY <1>9 DEF GetCached, At, Goto, Cached
<1>10. ASSUME NEW p \in Procs, NEW s \in Sectors, NEW i \in Buffers,
              GetRecycled(p, s, i)
       PROVE TypeOK'
    BY <1>10 DEF GetRecycled, At, Goto, Victim, Unused, RecycledFlags
<1>11. ASSUME NEW p \in Procs, NEW s \in Sectors, GetPanics(p, s) PROVE TypeOK'
    BY <1>11 DEF GetPanics, At, Unused
<1>12. ASSUME NEW p \in Procs, NEW v \in Value, Write(p, v) PROVE TypeOK'
    BY <1>12 DEF Write, At, Goto
<1>13. CASE IdeInterrupt
    <2> DEFINE b == Head(idequeue)
    <2>1. b \in Buffers /\ Tail(idequeue) \in Seq(Buffers)
        BY <1>13, FirstBuffer DEF IdeInterrupt
    <2> HIDE DEF b
    <2>2. Data' \in [Buffers -> Value] /\ disk' \in [Sectors -> Value]
        <3>1. CASE "DIRTY" \in Flags[b]
            BY Zenon, <1>13, <2>1, <3>1 DEF IdeInterrupt, b
        <3>2. CASE "DIRTY" \notin Flags[b]
            BY ZenonT(60), <1>13, <2>1, <3>2 DEF IdeInterrupt, b
        <3> QED
            BY <3>1, <3>2
    <2>3. Flags' \in [Buffers -> SUBSET {"VALID", "DIRTY"}]
        BY <1>13, <2>1 DEF IdeInterrupt, IdeComplete, b
    <2>4. pc' \in [Procs -> Labels]
        BY <1>13 DEF IdeInterrupt, IdeComplete, Wakeup
    <2>5. idequeue' \in Seq(Buffers) /\ active' \in BOOLEAN
        BY <1>13, <2>1 DEF IdeInterrupt, IdeComplete, Started
    <2> QED
        BY <1>13, <2>2, <2>3, <2>4, <2>5 DEF IdeInterrupt, IdeComplete
<1>14. CASE UNCHANGED vars
    BY <1>14 DEF vars
<1> QED
    BY <1>1, <1>2, <1>3, <1>4, <1>5, <1>6, <1>7, <1>8, <1>9, <1>10, <1>11,
       <1>12, <1>13, <1>14
       DEF Next, Panicked

(* Every step keeps the list.                                              *)
LEMMA ListStep ==
    ASSUME TypeOK, ListInv, CountInv, [Next]_vars
    PROVE  ListInv'
<1> USE NoBufferIsNone, HasBuffer DEF ListInv, bufVars, ideVars
<1>1. ASSUME NEW p \in Procs, ReadValid(p) PROVE ListInv'
    BY <1>1 DEF ReadValid, At, Goto
<1>2. ASSUME NEW p \in Procs, Unreference(p) PROVE ListInv'
    BY Zenon, <1>2, HasBuffer, MoveToHead DEF Unreference, At
<1>3. ASSUME NEW p \in Procs, sleeplockAcquire(p) PROVE ListInv'
    BY <1>3 DEF sleeplockAcquire, At, Goto
<1>4. ASSUME NEW p \in Procs, SleeplockSleep(p) PROVE ListInv'
    BY <1>4 DEF SleeplockSleep, At, Goto
<1>5. ASSUME NEW p \in Procs, sleeplockRelease(p) PROVE ListInv'
    BY <1>5 DEF sleeplockRelease, At, Wakeup
<1>6. ASSUME NEW p \in Procs, ReadRequest(p) PROVE ListInv'
    BY <1>6 DEF ReadRequest, At, Goto, Enqueue
<1>7. ASSUME NEW p \in Procs, WriteRequest(p) PROVE ListInv'
    BY <1>7 DEF WriteRequest, At, Goto, Enqueue
<1>8. ASSUME NEW p \in Procs, IoDone(p) PROVE ListInv'
    BY <1>8 DEF IoDone, At, Goto
<1>9. ASSUME NEW p \in Procs, NEW s \in Sectors, NEW i \in Buffers,
             GetCached(p, s, i)
      PROVE ListInv'
    BY <1>9 DEF GetCached, At, Goto, Cached
<1>10. ASSUME NEW p \in Procs, NEW s \in Sectors, NEW i \in Buffers,
              GetRecycled(p, s, i)
       PROVE ListInv'
    BY <1>10 DEF GetRecycled, At, Goto, Victim, Unused, RecycledFlags
<1>11. ASSUME NEW p \in Procs, NEW s \in Sectors, GetPanics(p, s)
       PROVE ListInv'
    BY <1>11 DEF GetPanics, At, Unused
<1>12. ASSUME NEW p \in Procs, NEW v \in Value, Write(p, v) PROVE ListInv'
    BY <1>12 DEF Write, At, Goto
<1>13. CASE IdeInterrupt
    BY <1>13 DEF IdeInterrupt, IdeComplete, Wakeup, Started
<1>14. CASE UNCHANGED vars
    BY <1>14 DEF vars
<1> QED
    BY <1>1, <1>2, <1>3, <1>4, <1>5, <1>6, <1>7, <1>8, <1>9, <1>10, <1>11,
       <1>12, <1>13, <1>14
       DEF Next, Panicked

(* What a step does to the counts: diskBufferGet() takes a buffer and      *)
(* diskBufferRelease() gives one back, each with its reference, and no     *)
(* other step touches either.                                              *)
Taken(p, b) == /\ buf[p] = NoBuffer /\ buf' = [buf EXCEPT ![p] = b]
               /\ ReferenceCount' = [ReferenceCount EXCEPT ![b] = @ + 1]
GivenBack(p, b) ==
    /\ buf[p] = b /\ buf' = [buf EXCEPT ![p] = NoBuffer]
    /\ ReferenceCount' = [ReferenceCount EXCEPT ![b] = @ - 1]
UsersKept ==
    /\ \A p \in Procs : pc'[p] = "idle" <=> buf'[p] = NoBuffer
    /\ \/ UNCHANGED <<buf, ReferenceCount>>
       \/ \E p \in Procs, b \in Buffers : Taken(p, b)
       \/ \E p \in Procs, b \in Buffers : GivenBack(p, b)

LEMMA UserStep ==
    ASSUME TypeOK, ListInv, CountInv, QueueInv, [Next]_vars
    PROVE  UsersKept
<1>a. /\ pc \in [Procs -> Labels] /\ buf \in [Procs -> Buffers \cup {NoBuffer}]
      /\ ReferenceCount \in [Buffers -> Nat] /\ mru \in [Buffers -> Buffers]
    BY DEF TypeOK
<1> USE <1>a, NoBufferIsNone, HasBuffer DEF CountInv, UsersKept, bufVars,
       ideVars
<1>1. ASSUME NEW p \in Procs, ReadValid(p) PROVE UsersKept
    BY <1>1 DEF ReadValid, At, Goto
<1>2. ASSUME NEW p \in Procs, Unreference(p) PROVE UsersKept
    <2>1. buf[p] \in Buffers
        BY <1>2, HasBuffer DEF Unreference, At
    <2>2. GivenBack(p, buf[p])
        BY Zenon, <1>2, <2>1 DEF Unreference, GivenBack
    <2>3. \A q \in Procs : pc'[q] = "idle" <=> buf'[q] = NoBuffer
        BY <1>2 DEF Unreference, Goto
    <2> QED
        BY Zenon, <2>1, <2>2, <2>3
<1>3. ASSUME NEW p \in Procs, sleeplockAcquire(p) PROVE UsersKept
    BY <1>3 DEF sleeplockAcquire, At, Goto
<1>4. ASSUME NEW p \in Procs, SleeplockSleep(p) PROVE UsersKept
    BY <1>4 DEF SleeplockSleep, At, Goto
<1>5. ASSUME NEW p \in Procs, sleeplockRelease(p) PROVE UsersKept
    BY <1>5 DEF sleeplockRelease, At, Wakeup
<1>6. ASSUME NEW p \in Procs, ReadRequest(p) PROVE UsersKept
    BY <1>6 DEF ReadRequest, At, Goto, Enqueue
<1>7. ASSUME NEW p \in Procs, WriteRequest(p) PROVE UsersKept
    BY <1>7 DEF WriteRequest, At, Goto, Enqueue
<1>8. ASSUME NEW p \in Procs, IoDone(p) PROVE UsersKept
    BY <1>8 DEF IoDone, At, Goto
<1>9. ASSUME NEW p \in Procs, NEW s \in Sectors, NEW i \in Buffers,
             GetCached(p, s, i)
      PROVE UsersKept
    <2>1. mru[i] \in Buffers /\ buf[p] = NoBuffer
        BY <1>9 DEF GetCached, At
    <2>2. Taken(p, mru[i])
        BY Zenon, <1>9, <2>1 DEF GetCached, Taken
    <2>3. \A q \in Procs : pc'[q] = "idle" <=> buf'[q] = NoBuffer
        BY <1>9, <2>1 DEF GetCached, Goto
    <2> QED
        BY Zenon, <2>1, <2>2, <2>3
<1>10. ASSUME NEW p \in Procs, NEW s \in Sectors, NEW i \in Buffers,
              GetRecycled(p, s, i)
       PROVE UsersKept
    <2>1. mru[i] \in Buffers /\ buf[p] = NoBuffer
        BY <1>10 DEF GetRecycled, At
    <2>2. ReferenceCount' = [ReferenceCount EXCEPT ![mru[i]] = @ + 1]
        BY <1>10, <2>1 DEF GetRecycled, Victim, Unused
    <2>3. Taken(p, mru[i])
        BY Zenon, <1>10, <2>1, <2>2 DEF GetRecycled, Taken
    <2>4. \A q \in Procs : pc'[q] = "idle" <=> buf'[q] = NoBuffer
        BY <1>10, <2>1 DEF GetRecycled, Goto
    <2> QED
        BY Zenon, <2>1, <2>3, <2>4
<1>11. ASSUME NEW p \in Procs, NEW s \in Sectors, GetPanics(p, s)
       PROVE UsersKept
    BY <1>11 DEF GetPanics, At, Unused
<1>12. ASSUME NEW p \in Procs, NEW v \in Value, Write(p, v) PROVE UsersKept
    BY <1>12 DEF Write, At, Goto
<1>13. CASE IdeInterrupt
    BY <1>13 DEF IdeInterrupt, IdeComplete, Wakeup, Started
<1>14. CASE UNCHANGED vars
    BY <1>14 DEF vars
<1> QED
    BY Zenon, <1>1, <1>2, <1>3, <1>4, <1>5, <1>6, <1>7, <1>8, <1>9, <1>10,
       <1>11, <1>12, <1>13, <1>14
       DEF Next, Panicked

(* Every step keeps the sleep locks.                                       *)
LEMMA LockStep ==
    ASSUME TypeOK, CountInv, LockInv, FlagInv, QueueInv, [Next]_vars
    PROVE  LockInv'
<1>a. /\ pc \in [Procs -> Labels]
      /\ buf \in [Procs -> Buffers \cup {NoBuffer}]
      /\ mru \in [Buffers -> Buffers]
      /\ Locked \in [Buffers -> BOOLEAN]
    BY DEF TypeOK
<1> USE <1>a, NoBufferIsNone, HasBuffer DEF LockInv, Holding, Using, bufVars, ideVars
<1>1. ASSUME NEW p \in Procs, ReadValid(p) PROVE LockInv'
    BY <1>1 DEF ReadValid, At, Goto
<1>2. ASSUME NEW p \in Procs, Unreference(p) PROVE LockInv'
    BY <1>2 DEF Unreference, At, Goto
<1>3. ASSUME NEW p \in Procs, sleeplockAcquire(p) PROVE LockInv'
    BY <1>3 DEF sleeplockAcquire, At, Goto
<1>4. ASSUME NEW p \in Procs, SleeplockSleep(p) PROVE LockInv'
    BY <1>4 DEF SleeplockSleep, At, Goto
<1>5. ASSUME NEW p \in Procs, sleeplockRelease(p) PROVE LockInv'
    <2>1. pc[p] = "use" /\ buf[p] \in Buffers
        BY <1>5 DEF sleeplockRelease, At
    <2>2. \A q \in Procs : pc'[q] =
              IF q = p THEN "release"
              ELSE IF pc[q] = "asleep" /\ buf[q] = buf[p] THEN "lock" ELSE pc[q]
        BY <1>5 DEF sleeplockRelease, Wakeup
    <2>3. \A q \in Procs : pc'[q] \in Holding <=> q # p /\ pc[q] \in Holding
        BY <2>2
    <2>4. \A q \in Procs : pc'[q] = "asleep" =>
              pc[q] = "asleep" /\ buf[q] # buf[p]
        BY <2>1, <2>2
    <2>5. /\ pc[p] \in Holding /\ buf' = buf
          /\ ~Locked'[buf[p]]
          /\ \A c \in Buffers : c # buf[p] => Locked'[c] = Locked[c]
        BY <1>5, <2>1 DEF sleeplockRelease
    <2>6. \A q \in Procs : pc[q] \in Holding \/ pc[q] = "asleep" =>
              buf[q] \in Buffers
        OBVIOUS
    <2> HIDE DEF Holding, Using
    <2>7. \A q \in Procs : pc'[q] \in Holding \/ pc'[q] = "asleep" =>
              Locked'[buf'[q]]
        BY <2>3, <2>4, <2>5, <2>6
    <2>8. ASSUME NEW c \in Buffers, Locked'[c]
          PROVE  \E q \in Procs : buf'[q] = c /\ pc'[q] \in Holding
        BY <2>3, <2>5, <2>8
    <2> QED
        BY <2>3, <2>5, <2>7, <2>8
<1>6. ASSUME NEW p \in Procs, ReadRequest(p) PROVE LockInv'
    BY <1>6 DEF ReadRequest, At, Goto, Enqueue
<1>7. ASSUME NEW p \in Procs, WriteRequest(p) PROVE LockInv'
    BY <1>7 DEF WriteRequest, At, Goto, Enqueue
<1>8. ASSUME NEW p \in Procs, IoDone(p) PROVE LockInv'
    BY <1>8 DEF IoDone, At, Goto
<1>9. ASSUME NEW p \in Procs, NEW s \in Sectors, NEW i \in Buffers,
             GetCached(p, s, i)
      PROVE LockInv'
    BY <1>9 DEF GetCached, At, Goto, Cached
<1>10. ASSUME NEW p \in Procs, NEW s \in Sectors, NEW i \in Buffers,
              GetRecycled(p, s, i)
       PROVE LockInv'
    BY <1>10 DEF GetRecycled, At, Goto, Victim, Unused, RecycledFlags
<1>11. ASSUME NEW p \in Procs, NEW s \in Sectors, GetPanics(p, s)
       PROVE LockInv'
    BY <1>11 DEF GetPanics, At, Unused
<1>12. ASSUME NEW p \in Procs, NEW v \in Value, Write(p, v) PROVE LockInv'
    BY <1>12 DEF Write, At, Goto
<1>13. CASE IdeInterrupt
    BY <1>13 DEF IdeInterrupt, IdeComplete, Wakeup, Started
<1>14. CASE UNCHANGED vars
    BY <1>14 DEF vars
<1> QED
    BY Zenon, <1>1, <1>2, <1>3, <1>4, <1>5, <1>6, <1>7, <1>8, <1>9, <1>10,
       <1>11, <1>12, <1>13, <1>14
       DEF Next, Panicked

(* Every step keeps the flags.                                             *)
LEMMA FlagStep ==
    ASSUME TypeOK, CountInv, UseInv, LockInv, FlagInv, QueueInv, [Next]_vars
    PROVE  FlagInv'
<1>a. /\ pc \in [Procs -> Labels]
      /\ buf \in [Procs -> Buffers \cup {NoBuffer}]
      /\ mru \in [Buffers -> Buffers]
      /\ Flags \in [Buffers -> SUBSET {"VALID", "DIRTY"}]
    BY DEF TypeOK
<1> USE <1>a, NoBufferIsNone, HasBuffer DEF FlagInv, LockInv, Holding, Using, bufVars, ideVars
<1>1. ASSUME NEW p \in Procs, ReadValid(p) PROVE FlagInv'
    BY <1>1 DEF ReadValid, At, Goto
<1>2. ASSUME NEW p \in Procs, Unreference(p) PROVE FlagInv'
    BY <1>2 DEF Unreference, At, Goto
<1>3. ASSUME NEW p \in Procs, sleeplockAcquire(p) PROVE FlagInv'
    BY <1>3 DEF sleeplockAcquire, At, Goto
<1>4. ASSUME NEW p \in Procs, SleeplockSleep(p) PROVE FlagInv'
    BY <1>4 DEF SleeplockSleep, At, Goto
<1>5. ASSUME NEW p \in Procs, sleeplockRelease(p) PROVE FlagInv'
    <2>1. pc[p] = "use" /\ buf[p] \in Buffers
        BY <1>5 DEF sleeplockRelease, At
    <2>2. \A q \in Procs : pc'[q] =
              IF q = p THEN "release"
              ELSE IF pc[q] = "asleep" /\ buf[q] = buf[p] THEN "lock" ELSE pc[q]
        BY <1>5 DEF sleeplockRelease, Wakeup
    <2>3. \A q \in Procs :
              pc'[q] \in {"use", "got", "put", "write", "iowrite", "ioread"} =>
                  pc'[q] = pc[q]
        BY <2>2
    <2>4. \A q \in Procs : pc[q] \in {"write", "iowrite"} => pc'[q] = pc[q]
        BY <2>1, <2>2
    <2>5. Flags' = Flags /\ buf' = buf
        BY <1>5 DEF sleeplockRelease
    <2> QED
        BY <2>3, <2>4, <2>5
<1>6. ASSUME NEW p \in Procs, ReadRequest(p) PROVE FlagInv'
    BY <1>6 DEF ReadRequest, At, Goto, Enqueue
<1>7. ASSUME NEW p \in Procs, WriteRequest(p) PROVE FlagInv'
    BY <1>7 DEF WriteRequest, At, Goto, Enqueue
<1>8. ASSUME NEW p \in Procs, IoDone(p) PROVE FlagInv'
    BY <1>8 DEF IoDone, At, Goto
<1>9. ASSUME NEW p \in Procs, NEW s \in Sectors, NEW i \in Buffers,
             GetCached(p, s, i)
      PROVE FlagInv'
    BY <1>9 DEF GetCached, At, Goto, Cached
<1>10. ASSUME NEW p \in Procs, NEW s \in Sectors, NEW i \in Buffers,
              GetRecycled(p, s, i)
       PROVE FlagInv'
    <2> DEFINE b == mru[i]
    <2>1. b \in Buffers /\ ReferenceCount[b] = 0 /\ pc[p] = "idle"
        BY <1>10 DEF GetRecycled, Victim, Unused, At
    <2> HIDE DEF b
    <2>2. \A q \in Procs : buf[q] # b
        BY <2>1 DEF UseInv
    <2>3. /\ \A q \in Procs : q # p => pc'[q] = pc[q] /\ buf'[q] = buf[q]
          /\ pc'[p] = "lock"
        BY <1>10 DEF GetRecycled, Goto
    <2>4. /\ \A c \in Buffers : c # b => Flags'[c] = Flags[c]
          /\ Flags'[b] = {}
        BY <1>10, <2>1 DEF GetRecycled, RecycledFlags, b
    <2>5. \A q \in Procs : pc'[q] # "lock" /\ pc'[q] # "idle" =>
              pc'[q] = pc[q] /\ buf'[q] = buf[q] /\ Flags'[buf'[q]] = Flags[buf[q]]
        BY <2>1, <2>2, <2>3, <2>4
    <2>6. \A q \in Procs : pc[q] # "idle" => pc'[q] = pc[q] /\ buf'[q] = buf[q]
        BY <2>1, <2>3
    <2> QED
        BY <2>1, <2>4, <2>5, <2>6
<1>11. ASSUME NEW p \in Procs, NEW s \in Sectors, GetPanics(p, s)
       PROVE FlagInv'
    BY <1>11 DEF GetPanics, At, Unused
<1>12. ASSUME NEW p \in Procs, NEW v \in Value, Write(p, v) PROVE FlagInv'
    BY <1>12 DEF Write, At, Goto
<1>13. CASE IdeInterrupt
    <2> DEFINE b == Head(idequeue)
    <2>1. PICK r \in Procs : buf[r] = b /\ pc[r] \in {"ioread", "iowrite"}
        BY <1>13, FirstBuffer DEF IdeInterrupt, QueueInv
    <2>2. b \in Buffers
        BY <1>13, FirstBuffer DEF IdeInterrupt
    <2> HIDE DEF b
    <2>3. \A q \in Procs : buf[q] = b /\ pc[q] \in Holding => q = r
        BY <2>1
    <2>4. /\ \A q \in Procs : buf[q] # b => pc'[q] = pc[q]
          /\ \A q \in Procs : pc[q] \notin {"ioread", "iowrite"} => pc'[q] = pc[q]
          /\ pc'[r] \in {"got", "put"}
          /\ buf' = buf
        BY <1>13, <2>1 DEF IdeInterrupt, IdeComplete, Wakeup, b
    <2>5. /\ \A c \in Buffers : c # b => Flags'[c] = Flags[c]
          /\ Flags'[b] = {"VALID"}
        BY <1>13, <2>2 DEF IdeInterrupt, IdeComplete, b
    <2>6. ASSUME NEW q \in Procs
          PROVE  /\ pc'[q] \in {"use", "got", "put"} => Flags'[buf'[q]] = {"VALID"}
                 /\ pc'[q] \in {"write", "iowrite"} =>
                        Flags'[buf'[q]] = {"VALID", "DIRTY"}
                 /\ pc'[q] = "ioread" => Flags'[buf'[q]] = {}
        <3>1. CASE buf[q] = b
            BY <2>1, <2>3, <2>4, <2>5, <3>1
        <3>2. CASE buf[q] # b
            BY <2>4, <2>5, <3>2
        <3> QED
            BY <3>1, <3>2
    <2>7. ASSUME NEW c \in Buffers, "DIRTY" \in Flags'[c]
          PROVE  \E q \in Procs : buf'[q] = c /\ pc'[q] \in {"write", "iowrite"}
        BY <2>4, <2>5, <2>7
    <2> QED
        BY <2>6, <2>7
<1>14. CASE UNCHANGED vars
    BY <1>14 DEF vars
<1> QED
    BY Zenon, <1>1, <1>2, <1>3, <1>4, <1>5, <1>6, <1>7, <1>8, <1>9, <1>10,
       <1>11, <1>12, <1>13, <1>14
       DEF Next, Panicked

(* A request enters the queue once, because its buffer is locked.          *)
LEMMA EnqueueStep ==
    ASSUME TypeOK, CountInv, LockInv, QueueInv, NEW p \in Procs,
           pc[p] \in {"read", "write"}, Enqueue(buf[p]), buf' = buf,
           Goto(p, "ioread") \/ Goto(p, "iowrite")
    PROVE  QueueInv'
<1>1. buf[p] \in Buffers /\ pc[p] \notin {"ioread", "iowrite"}
    BY HasBuffer
<1>2. /\ DOMAIN idequeue = 1..Len(idequeue) /\ Len(idequeue) \in Nat
      /\ DOMAIN idequeue' = 1..(Len(idequeue) + 1)
      /\ \A i \in DOMAIN idequeue : idequeue'[i] = idequeue[i]
      /\ idequeue'[Len(idequeue) + 1] = buf[p]
    BY <1>1 DEF TypeOK, Enqueue
<1>3. /\ \A i \in DOMAIN idequeue' :
             i \in DOMAIN idequeue \/ i = Len(idequeue) + 1
      /\ DOMAIN idequeue \subseteq DOMAIN idequeue'
      /\ Len(idequeue) + 1 \in DOMAIN idequeue'
    BY <1>2
<1>4. /\ \A q \in Procs : q # p => pc'[q] = pc[q]
      /\ pc'[p] \in {"ioread", "iowrite"}
    BY DEF TypeOK, Goto
<1>5. \A i \in DOMAIN idequeue : idequeue[i] # buf[p]
    BY <1>1 DEF QueueInv, LockInv, Holding, Using
<1>6. ASSUME NEW i \in DOMAIN idequeue'
      PROVE  \E q \in Procs :
                 buf'[q] = idequeue'[i] /\ pc'[q] \in {"ioread", "iowrite"}
    BY <1>1, <1>2, <1>3, <1>4 DEF QueueInv
<1>7. \A i, j \in DOMAIN idequeue' : idequeue'[i] = idequeue'[j] => i = j
    BY <1>2, <1>3, <1>5 DEF QueueInv
<1>8. ASSUME NEW q \in Procs, pc'[q] \in {"ioread", "iowrite"}
      PROVE  \E i \in DOMAIN idequeue' : idequeue'[i] = buf'[q]
    <2>1. CASE q = p
        BY <1>2, <1>3, <2>1
    <2>2. CASE q # p
        BY <1>2, <1>3, <1>4, <1>8, <2>2 DEF QueueInv
    <2> QED
        BY <2>1, <2>2
<1>9. idequeue' # <<>>
    BY <1>2
<1>10. active'
    BY Zenon DEF Enqueue, QueueInv
<1> QED
    BY <1>6, <1>7, <1>8, <1>9, <1>10 DEF QueueInv

(* Every step keeps the queue.                                             *)
LEMMA QueueStep ==
    ASSUME TypeOK, CountInv, LockInv, QueueInv, [Next]_vars
    PROVE  QueueInv'
<1>a. /\ pc \in [Procs -> Labels]
      /\ buf \in [Procs -> Buffers \cup {NoBuffer}]
      /\ mru \in [Buffers -> Buffers]
      /\ idequeue \in Seq(Buffers)
    BY DEF TypeOK
<1> USE <1>a, NoBufferIsNone, HasBuffer DEF QueueInv, LockInv, Holding, Using, bufVars, ideVars
<1>1. ASSUME NEW p \in Procs, ReadValid(p) PROVE QueueInv'
    BY <1>1 DEF ReadValid, At, Goto
<1>2. ASSUME NEW p \in Procs, Unreference(p) PROVE QueueInv'
    BY <1>2 DEF Unreference, At, Goto
<1>3. ASSUME NEW p \in Procs, sleeplockAcquire(p) PROVE QueueInv'
    BY <1>3 DEF sleeplockAcquire, At, Goto
<1>4. ASSUME NEW p \in Procs, SleeplockSleep(p) PROVE QueueInv'
    BY <1>4 DEF SleeplockSleep, At, Goto
<1>5. ASSUME NEW p \in Procs, sleeplockRelease(p) PROVE QueueInv'
    <2>1. pc[p] = "use" /\ buf[p] \in Buffers
        BY <1>5 DEF sleeplockRelease, At
    <2>2. \A q \in Procs : pc'[q] =
              IF q = p THEN "release"
              ELSE IF pc[q] = "asleep" /\ buf[q] = buf[p] THEN "lock" ELSE pc[q]
        BY <1>5 DEF sleeplockRelease, Wakeup
    <2>3. \A q \in Procs : pc'[q] \in {"ioread", "iowrite"} <=>
              pc[q] \in {"ioread", "iowrite"}
        BY <2>1, <2>2
    <2>4. buf' = buf /\ idequeue' = idequeue /\ active' = active
        BY <1>5 DEF sleeplockRelease
    <2> QED
        BY <2>3, <2>4
<1>6. ASSUME NEW p \in Procs, ReadRequest(p) PROVE QueueInv'
    BY <1>6, EnqueueStep DEF ReadRequest, At
<1>7. ASSUME NEW p \in Procs, WriteRequest(p) PROVE QueueInv'
    BY <1>7, EnqueueStep DEF WriteRequest, At
<1>8. ASSUME NEW p \in Procs, IoDone(p) PROVE QueueInv'
    BY <1>8 DEF IoDone, At, Goto
<1>9. ASSUME NEW p \in Procs, NEW s \in Sectors, NEW i \in Buffers,
             GetCached(p, s, i)
      PROVE QueueInv'
    BY <1>9 DEF GetCached, At, Goto, Cached
<1>10. ASSUME NEW p \in Procs, NEW s \in Sectors, NEW i \in Buffers,
              GetRecycled(p, s, i)
       PROVE QueueInv'
    BY <1>10 DEF GetRecycled, At, Goto, Victim, Unused, RecycledFlags
<1>11. ASSUME NEW p \in Procs, NEW s \in Sectors, GetPanics(p, s)
       PROVE QueueInv'
    BY <1>11 DEF GetPanics, At, Unused
<1>12. ASSUME NEW p \in Procs, NEW v \in Value, Write(p, v) PROVE QueueInv'
    BY <1>12 DEF Write, At, Goto
<1>13. CASE IdeInterrupt
    <2> DEFINE b == Head(idequeue)
    <2>1. /\ b = idequeue[1] /\ 1 \in DOMAIN idequeue
          /\ idequeue' = Tail(idequeue)
          /\ DOMAIN idequeue = 1..Len(idequeue) /\ Len(idequeue) \in Nat
          /\ DOMAIN idequeue' = 1..(Len(idequeue) - 1)
          /\ \A i \in DOMAIN idequeue' : idequeue'[i] = idequeue[i + 1]
        BY <1>13, FirstBuffer DEF IdeInterrupt, IdeComplete
    <2>2. /\ \A i \in DOMAIN idequeue' : i + 1 \in DOMAIN idequeue /\ i + 1 # 1
          /\ \A i \in DOMAIN idequeue : i # 1 =>
                 i - 1 \in DOMAIN idequeue' /\ (i - 1) + 1 = i
          /\ \A i, j \in DOMAIN idequeue' : i + 1 = j + 1 => i = j
        BY <2>1
    <2>3. /\ \A q \in Procs : pc'[q] \in {"ioread", "iowrite"} <=>
                 pc[q] \in {"ioread", "iowrite"} /\ buf[q] # b
          /\ buf' = buf
        BY <1>13 DEF IdeInterrupt, IdeComplete, Wakeup
    <2>4. active' <=> idequeue' # <<>>
        BY Zenon, <1>13 DEF IdeInterrupt, IdeComplete, Started
    <2> HIDE DEF b
    <2>5. ASSUME NEW i \in DOMAIN idequeue'
          PROVE  \E q \in Procs :
                     buf'[q] = idequeue'[i] /\ pc'[q] \in {"ioread", "iowrite"}
        <3>1. idequeue[i + 1] # b
            BY Zenon, <2>1, <2>2
        <3> QED
            BY <2>1, <2>2, <2>3, <3>1
    <2>6. \A i, j \in DOMAIN idequeue' : idequeue'[i] = idequeue'[j] => i = j
        BY <2>1, <2>2
    <2>7. ASSUME NEW q \in Procs, pc'[q] \in {"ioread", "iowrite"}
          PROVE  \E i \in DOMAIN idequeue' : idequeue'[i] = buf'[q]
        <3>1. PICK i \in DOMAIN idequeue : idequeue[i] = buf[q]
            BY <2>3, <2>7
        <3>2. i # 1
            BY <2>1, <2>3, <2>7, <3>1
        <3> QED
            BY <2>1, <2>2, <2>3, <3>1, <3>2
    <2> QED
        BY <2>4, <2>5, <2>6, <2>7
<1>14. CASE UNCHANGED vars
    BY <1>14 DEF vars
<1> QED
    BY Zenon, <1>1, <1>2, <1>3, <1>4, <1>5, <1>6, <1>7, <1>8, <1>9, <1>10,
       <1>11, <1>12, <1>13, <1>14
       DEF Next, Panicked

(* The order of the list tells the real copy of a sector from the others.  *)
LEMMA OneBuffer ==
    ASSUME TypeOK, ListInv, OrderInv
    PROVE  OneBufferPerSector
<1> SUFFICES ASSUME NEW b \in Buffers, NEW c \in Buffers,
                    SectorNumber[b] = SectorNumber[c], Real(b), Real(c)
             PROVE  b = c
    BY DEF OneBufferPerSector, Real
<1>1. PICK i \in Buffers : mru[i] = b
    BY DEF ListInv
<1>2. PICK j \in Buffers : mru[j] = c
    BY DEF ListInv
<1>3. i <= j /\ j <= i
    BY <1>1, <1>2 DEF OrderInv
<1> QED
    BY <1>1, <1>2, <1>3 DEF Buffers

(* Every step keeps the order of the list.                                 *)
LEMMA OrderStep ==
    ASSUME TypeOK, ListInv, CountInv, UseInv, LockInv, FlagInv, QueueInv,
           OrderInv,
           [Next]_vars
    PROVE  OrderInv'
<1>a. /\ pc \in [Procs -> Labels]
      /\ buf \in [Procs -> Buffers \cup {NoBuffer}]
      /\ mru \in [Buffers -> Buffers]
      /\ Flags \in [Buffers -> SUBSET {"VALID", "DIRTY"}]
      /\ SectorNumber \in [Buffers -> Sectors]
      /\ ReferenceCount \in [Buffers -> Nat]
    BY DEF TypeOK
<1> USE <1>a, NoBufferIsNone, HasBuffer DEF OrderInv, Real, bufVars, ideVars
<1>1. ASSUME NEW p \in Procs, ReadValid(p) PROVE OrderInv'
    BY <1>1 DEF ReadValid, At, Goto
<1>2. ASSUME NEW p \in Procs, Unreference(p) PROVE OrderInv'
    <2> DEFINE b == buf[p]
    <2>1. b \in Buffers /\ ReferenceCount[b] > 0
        BY <1>2 DEF Unreference, At, UseInv
    <2> HIDE DEF b
    <2>2. /\ SectorNumber' = SectorNumber
          /\ \A c \in Buffers : Real(c)' => Real(c)
        BY <1>2, <2>1 DEF Unreference, b
    <2> HIDE DEF Real
    <2>3. CASE mru' = mru
        BY <2>2, <2>3
    <2>4. CASE mru' = ToHead(b)
        <3> SUFFICES ASSUME NEW i \in Buffers, NEW j \in Buffers, ~(i <= j),
                            SectorNumber'[mru'[i]] = SectorNumber'[mru'[j]],
                            Real(mru[i])'
                     PROVE  FALSE
            BY Zenon
        <3>a. j < i /\ SectorNumber[mru'[i]] = SectorNumber[mru'[j]]
            BY <2>2 DEF Buffers
        <3>b. \/ ReferenceCount'[mru'[i]] > 0
              \/ "VALID" \in Flags'[mru'[i]]
            BY DEF Real
        <3>1. /\ mru' \in [Buffers -> Buffers] /\ ListInv'
              /\ mru'[j] # b => \E k, l \in Buffers :
                     k < l /\ mru[k] = mru'[j] /\ mru[l] = mru'[i]
            BY <2>1, <2>4, <3>a, MoveToHead
        <3>2. Real(mru'[i])
            BY <2>2, <3>b, <3>1 DEF Real
        <3>3. CASE mru'[j] # b
            <4>1. PICK k, l \in Buffers :
                      k < l /\ mru[k] = mru'[j] /\ mru[l] = mru'[i]
                BY <3>1, <3>3
            <4>2. l <= k
                BY Zenon, <3>a, <3>2, <4>1
            <4> QED
                BY <4>1, <4>2 DEF Buffers
        <3>4. CASE mru'[j] = b
            <4>1. Real(b)
                BY <2>1 DEF Real
            <4>2. mru'[i] = b
                BY <2>1, <3>a, <3>1, <3>2, <3>4, <4>1, OneBuffer
                   DEF OneBufferPerSector, Real
            <4> QED
                BY <3>a, <3>1, <3>4, <4>2 DEF ListInv, Buffers
        <3> QED
            BY <3>3, <3>4
    <2> QED
        BY <1>2, <2>3, <2>4 DEF Unreference, b
<1>3. ASSUME NEW p \in Procs, sleeplockAcquire(p) PROVE OrderInv'
    BY <1>3 DEF sleeplockAcquire, At, Goto
<1>4. ASSUME NEW p \in Procs, SleeplockSleep(p) PROVE OrderInv'
    BY <1>4 DEF SleeplockSleep, At, Goto
<1>5. ASSUME NEW p \in Procs, sleeplockRelease(p) PROVE OrderInv'
    BY <1>5 DEF sleeplockRelease, At, Wakeup
<1>6. ASSUME NEW p \in Procs, ReadRequest(p) PROVE OrderInv'
    BY <1>6 DEF ReadRequest, At, Goto, Enqueue
<1>7. ASSUME NEW p \in Procs, WriteRequest(p) PROVE OrderInv'
    BY <1>7 DEF WriteRequest, At, Goto, Enqueue
<1>8. ASSUME NEW p \in Procs, IoDone(p) PROVE OrderInv'
    BY <1>8 DEF IoDone, At, Goto
<1>9. ASSUME NEW p \in Procs, NEW s \in Sectors, NEW i \in Buffers,
             GetCached(p, s, i)
      PROVE OrderInv'
    <2>1. SectorNumber' = SectorNumber /\ mru' = mru
        BY <1>9 DEF GetCached
    <2>2. \A k \in Buffers : Real(mru[k])' => k = i \/ Real(mru[k])
        BY <1>9 DEF GetCached, ListInv
    <2>3. /\ SectorNumber[mru[i]] = s
          /\ \A k \in Buffers : SectorNumber[mru[k]] = s => i <= k
        BY <1>9 DEF GetCached, Cached, Buffers
    <2> HIDE DEF Real
    <2> QED
        BY <2>1, <2>2, <2>3
<1>10. ASSUME NEW p \in Procs, NEW s \in Sectors, NEW i \in Buffers,
              GetRecycled(p, s, i)
       PROVE OrderInv'
    <2>1. mru' = mru /\ SectorNumber'[mru[i]] = s
        BY <1>10 DEF GetRecycled
    <2>2. \A k \in Buffers : k # i =>
              /\ SectorNumber'[mru[k]] = SectorNumber[mru[k]]
              /\ SectorNumber[mru[k]] # s
              /\ Real(mru[k])' => Real(mru[k])
        BY <1>10 DEF GetRecycled, ListInv
    <2> HIDE DEF Real
    <2>3. \A k \in Buffers : k <= k
        BY DEF Buffers
    <2> QED
        BY <2>1, <2>2, <2>3
<1>11. ASSUME NEW p \in Procs, NEW s \in Sectors, GetPanics(p, s)
       PROVE OrderInv'
    BY <1>11 DEF GetPanics, At, Unused
<1>12. ASSUME NEW p \in Procs, NEW v \in Value, Write(p, v) PROVE OrderInv'
    BY <1>12 DEF Write, At, Goto
<1>13. CASE IdeInterrupt
    <2>1. Head(idequeue) \in Buffers
        BY <1>13, FirstBuffer DEF IdeInterrupt
    <2>2. ReferenceCount[Head(idequeue)] > 0
        BY <1>13, <2>1, FirstBuffer DEF IdeInterrupt, QueueInv, UseInv
    <2>3. /\ SectorNumber' = SectorNumber /\ mru' = mru
          /\ \A c \in Buffers : Real(c)' => Real(c)
        BY <1>13, <2>1, <2>2 DEF IdeInterrupt, IdeComplete
    <2> HIDE DEF Real
    <2> QED
        BY <2>3
<1>14. CASE UNCHANGED vars
    BY <1>14 DEF vars
<1> QED
    BY Zenon, <1>1, <1>2, <1>3, <1>4, <1>5, <1>6, <1>7, <1>8, <1>9, <1>10,
       <1>11, <1>12, <1>13, <1>14
       DEF Next, Panicked

(* Every step keeps the reason for a panic.                                *)
LEMMA PanicStep ==
    ASSUME TypeOK, CountInv, UseInv, FlagInv, PanicOnlyIfAllInUse, [Next]_vars
    PROVE  PanicOnlyIfAllInUse'
<1>a. /\ pc \in [Procs -> Labels]
      /\ buf \in [Procs -> Buffers \cup {NoBuffer}]
      /\ mru \in [Buffers -> Buffers]
      /\ ReferenceCount \in [Buffers -> Nat]
    BY DEF TypeOK
<1> USE <1>a, NoBufferIsNone, HasBuffer DEF PanicOnlyIfAllInUse, bufVars, ideVars
<1>1. ASSUME NEW p \in Procs, ReadValid(p) PROVE PanicOnlyIfAllInUse'
    BY <1>1 DEF ReadValid, At, Goto
<1>2. ASSUME NEW p \in Procs, Unreference(p) PROVE PanicOnlyIfAllInUse'
    BY <1>2 DEF Unreference, At, Goto
<1>3. ASSUME NEW p \in Procs, sleeplockAcquire(p) PROVE PanicOnlyIfAllInUse'
    BY <1>3 DEF sleeplockAcquire, At, Goto
<1>4. ASSUME NEW p \in Procs, SleeplockSleep(p) PROVE PanicOnlyIfAllInUse'
    BY <1>4 DEF SleeplockSleep, At, Goto
<1>5. ASSUME NEW p \in Procs, sleeplockRelease(p) PROVE PanicOnlyIfAllInUse'
    BY <1>5 DEF sleeplockRelease, At, Wakeup
<1>6. ASSUME NEW p \in Procs, ReadRequest(p) PROVE PanicOnlyIfAllInUse'
    BY <1>6 DEF ReadRequest, At, Goto, Enqueue
<1>7. ASSUME NEW p \in Procs, WriteRequest(p) PROVE PanicOnlyIfAllInUse'
    BY <1>7 DEF WriteRequest, At, Goto, Enqueue
<1>8. ASSUME NEW p \in Procs, IoDone(p) PROVE PanicOnlyIfAllInUse'
    BY <1>8 DEF IoDone, At, Goto
<1>9. ASSUME NEW p \in Procs, NEW s \in Sectors, NEW i \in Buffers,
             GetCached(p, s, i)
      PROVE PanicOnlyIfAllInUse'
    BY <1>9 DEF GetCached, At, Goto, Cached
<1>10. ASSUME NEW p \in Procs, NEW s \in Sectors, NEW i \in Buffers,
              GetRecycled(p, s, i)
       PROVE PanicOnlyIfAllInUse'
    BY <1>10 DEF GetRecycled, At, Goto, Victim, Unused, RecycledFlags
<1>11. ASSUME NEW p \in Procs, NEW s \in Sectors, GetPanics(p, s)
       PROVE PanicOnlyIfAllInUse'
    <2>1. \A b \in Buffers : ReferenceCount[b] > 0 \/ "DIRTY" \in Flags[b]
        BY <1>11 DEF GetPanics, Unused
    <2>2. buf' = buf
        BY <1>11 DEF GetPanics
    <2> QED
        BY Zenon, <2>1, <2>2 DEF FlagInv, UseInv
<1>12. ASSUME NEW p \in Procs, NEW v \in Value, Write(p, v)
       PROVE PanicOnlyIfAllInUse'
    BY <1>12 DEF Write, At, Goto
<1>13. CASE IdeInterrupt
    BY <1>13 DEF IdeInterrupt, IdeComplete, Wakeup, Started
<1>14. CASE UNCHANGED vars
    BY <1>14 DEF vars
<1> QED
    BY <1>1, <1>2, <1>3, <1>4, <1>5, <1>6, <1>7, <1>8, <1>9, <1>10, <1>11,
       <1>12, <1>13, <1>14
       DEF Next, Panicked

(* Every step keeps valid data equal to the disk.                          *)
LEMMA ReadStep ==
    ASSUME TypeOK, ListInv, CountInv, UseInv, LockInv, FlagInv, QueueInv,
           OrderInv,
           ValidMeansRead, [Next]_vars
    PROVE  ValidMeansRead'
<1>a. /\ pc \in [Procs -> Labels]
      /\ buf \in [Procs -> Buffers \cup {NoBuffer}]
      /\ mru \in [Buffers -> Buffers]
      /\ Flags \in [Buffers -> SUBSET {"VALID", "DIRTY"}]
      /\ SectorNumber \in [Buffers -> Sectors]
      /\ Data \in [Buffers -> Value]
      /\ disk \in [Sectors -> Value]
    BY DEF TypeOK
<1> USE <1>a, NoBufferIsNone, HasBuffer DEF ValidMeansRead, bufVars, ideVars
<1>1. ASSUME NEW p \in Procs, ReadValid(p) PROVE ValidMeansRead'
    BY <1>1 DEF ReadValid, At, Goto
<1>2. ASSUME NEW p \in Procs, Unreference(p) PROVE ValidMeansRead'
    BY <1>2 DEF Unreference, At, Goto
<1>3. ASSUME NEW p \in Procs, sleeplockAcquire(p) PROVE ValidMeansRead'
    BY <1>3 DEF sleeplockAcquire, At, Goto
<1>4. ASSUME NEW p \in Procs, SleeplockSleep(p) PROVE ValidMeansRead'
    BY <1>4 DEF SleeplockSleep, At, Goto
<1>5. ASSUME NEW p \in Procs, sleeplockRelease(p) PROVE ValidMeansRead'
    BY <1>5 DEF sleeplockRelease, At, Wakeup
<1>6. ASSUME NEW p \in Procs, ReadRequest(p) PROVE ValidMeansRead'
    BY <1>6 DEF ReadRequest, At, Goto, Enqueue
<1>7. ASSUME NEW p \in Procs, WriteRequest(p) PROVE ValidMeansRead'
    BY <1>7 DEF WriteRequest, At, Goto, Enqueue
<1>8. ASSUME NEW p \in Procs, IoDone(p) PROVE ValidMeansRead'
    BY <1>8 DEF IoDone, At, Goto
<1>9. ASSUME NEW p \in Procs, NEW s \in Sectors, NEW i \in Buffers,
             GetCached(p, s, i)
      PROVE ValidMeansRead'
    BY <1>9 DEF GetCached, At, Goto, Cached
<1>10. ASSUME NEW p \in Procs, NEW s \in Sectors, NEW i \in Buffers,
              GetRecycled(p, s, i)
       PROVE ValidMeansRead'
    BY <1>10 DEF GetRecycled, At, Goto, Victim, Unused, RecycledFlags
<1>11. ASSUME NEW p \in Procs, NEW s \in Sectors, GetPanics(p, s)
       PROVE ValidMeansRead'
    BY <1>11 DEF GetPanics, At, Unused
<1>12. ASSUME NEW p \in Procs, NEW v \in Value, Write(p, v)
       PROVE ValidMeansRead'
    BY <1>12 DEF Write, At, Goto
<1>13. CASE IdeInterrupt
    <2> DEFINE b == Head(idequeue)
    <2>1. b \in Buffers
        BY <1>13, FirstBuffer DEF IdeInterrupt
    <2>2. ReferenceCount[b] > 0
        BY <1>13, <2>1, FirstBuffer DEF IdeInterrupt, QueueInv, UseInv
    <2> HIDE DEF b
    <2>3. /\ SectorNumber' = SectorNumber
          /\ \A c \in Buffers : c # b => Flags'[c] = Flags[c]
        BY <1>13, <2>1 DEF IdeInterrupt, IdeComplete, b
    <2>4. CASE "DIRTY" \in Flags[b]
        <3>1. /\ disk' = [disk EXCEPT ![SectorNumber[b]] = Data[b]]
              /\ Data' = Data
            BY <1>13, <2>4 DEF IdeInterrupt, b
        <3>2. \A c \in Buffers : c # b /\ "VALID" \in Flags[c] =>
                  SectorNumber[c] # SectorNumber[b]
            BY <2>1, <2>2, OneBuffer DEF OneBufferPerSector
        <3> QED
            BY <2>1, <2>3, <3>1, <3>2
    <2>5. CASE "DIRTY" \notin Flags[b]
        <3>1. /\ Data' = [Data EXCEPT ![b] = disk[SectorNumber[b]]]
              /\ disk' = disk
            BY <1>13, <2>5 DEF IdeInterrupt, b
        <3> QED
            BY <2>1, <2>3, <3>1
    <2> QED
        BY <2>4, <2>5
<1>14. CASE UNCHANGED vars
    BY <1>14 DEF vars
<1> QED
    BY Zenon, <1>1, <1>2, <1>3, <1>4, <1>5, <1>6, <1>7, <1>8, <1>9, <1>10,
       <1>11, <1>12, <1>13, <1>14
       DEF Next, Panicked

-----------------------------------------------------------------------------
(* The cache implements SectorStore.                                       *)

(* What the invariant says of the abstract state: the users of a sector    *)
(* exclude each other, and the content of a sector is in its one dirty     *)
(* buffer or, if it has none, on the disk.                                 *)
StoreInv ==
    /\ \A p, q \in Procs :
           /\ pc[p] \in Holding /\ pc[q] \in Holding
           /\ SectorNumber[buf[p]] = SectorNumber[buf[q]]
           => p = q
    /\ \A p \in Procs : \A b \in Buffers :
           pc[p] \in Holding /\ DirtyFor(b, SectorNumber[buf[p]]) =>
               b = buf[p] /\ pc[p] \in {"write", "iowrite"}
    /\ \A s \in Sectors : \A b \in Buffers :
           DirtyFor(b, s) => Stored(s) = Data[b]
    /\ \A s \in Sectors :
           (\A b \in Buffers : ~DirtyFor(b, s)) => Stored(s) = disk[s]

(* The abstract state is well defined wherever the invariant holds.        *)
LEMMA StoreFacts == IInv => StoreInv
<1> SUFFICES ASSUME IInv PROVE StoreInv
    OBVIOUS
<1>1. \A p \in Procs : pc[p] \in Holding =>
          buf[p] \in Buffers /\ ReferenceCount[buf[p]] > 0
    <2>1. \A p \in Procs : pc[p] \in Holding => buf[p] \in Buffers
        BY HasBuffer DEF IInv, Holding, Using
    <2> QED
        BY <2>1 DEF IInv, UseInv
<1>2. \A b, c \in Buffers :
          /\ SectorNumber[b] = SectorNumber[c]
          /\ ReferenceCount[b] > 0 /\ ReferenceCount[c] > 0
          => b = c
    BY OneBuffer DEF IInv, OneBufferPerSector
<1>3. ASSUME NEW p \in Procs, NEW q \in Procs,
             pc[p] \in Holding, pc[q] \in Holding,
             SectorNumber[buf[p]] = SectorNumber[buf[q]]
      PROVE  p = q
    BY <1>1, <1>2, <1>3 DEF IInv, LockInv
<1>4. ASSUME NEW b \in Buffers, "DIRTY" \in Flags[b]
      PROVE  \E p \in Procs : /\ buf[p] = b /\ pc[p] \in Holding
                              /\ pc[p] \in {"write", "iowrite"}
    BY <1>4 DEF IInv, FlagInv, Holding, Using
<1>5. ASSUME NEW p \in Procs, NEW b \in Buffers,
             pc[p] \in Holding, DirtyFor(b, SectorNumber[buf[p]])
      PROVE  b = buf[p] /\ pc[p] \in {"write", "iowrite"}
    <2>1. PICK q \in Procs : /\ buf[q] = b /\ pc[q] \in Holding
                             /\ pc[q] \in {"write", "iowrite"}
        BY <1>4, <1>5 DEF DirtyFor
    <2>2. q = p
        BY <1>3, <1>5, <2>1 DEF DirtyFor
    <2> QED
        BY <2>1, <2>2
<1>6. ASSUME NEW s \in Sectors, NEW b \in Buffers, DirtyFor(b, s)
      PROVE  Stored(s) = Data[b]
    <2> DEFINE c == CHOOSE d \in Buffers : DirtyFor(d, s)
    <2>1. c \in Buffers /\ DirtyFor(c, s)
        BY <1>6
    <2>2. c = b
        BY <1>1, <1>2, <1>4, <1>6, <2>1 DEF DirtyFor
    <2> QED
        BY Zenon, <1>6, <2>2 DEF Stored
<1>7. ASSUME NEW s \in Sectors, \A b \in Buffers : ~DirtyFor(b, s)
      PROVE  Stored(s) = disk[s]
    BY <1>7 DEF Stored
<1> QED
    BY <1>3, <1>5, <1>6, <1>7 DEF StoreInv

(* What leaves the data of the dirty buffers and the disk alone leaves the *)
(* abstract store alone.                                                   *)
LEMMA StoreFrame ==
    ASSUME StoreInv, StoreInv', disk' = disk,
           \A b \in Buffers : \A s \in Sectors :
               /\ DirtyFor(b, s)' <=> DirtyFor(b, s)
               /\ DirtyFor(b, s) => Data'[b] = Data[b]
    PROVE  \A s \in Sectors : Stored(s)' = Stored(s)
<1> SUFFICES ASSUME NEW s \in Sectors PROVE Stored(s)' = Stored(s)
    OBVIOUS
<1>1. ASSUME NEW b \in Buffers, DirtyFor(b, s) PROVE Stored(s)' = Stored(s)
    <2>1. Stored(s) = Data[b]
        BY Zenon, <1>1 DEF StoreInv
    <2>2. Stored(s)' = Data'[b]
        BY Zenon, <1>1 DEF StoreInv
    <2> QED
        BY <1>1, <2>1, <2>2
<1>2. ASSUME \A b \in Buffers : ~DirtyFor(b, s) PROVE Stored(s)' = Stored(s)
    <2>1. Stored(s) = disk[s]
        BY ZenonT(60), <1>2 DEF StoreInv
    <2>2. Stored(s)' = disk'[s]
        BY <1>2 DEF StoreInv
    <2> QED
        BY <2>1, <2>2
<1> QED
    BY <1>1, <1>2

(* What leaves the users and their data alone leaves the rest of the       *)
(* abstract state alone.                                                   *)
LEMMA UserFrame ==
    ASSUME \A p \in Procs :
               /\ pc'[p] \in Using <=> pc[p] \in Using
               /\ pc[p] \in Using =>
                      /\ SectorNumber'[buf'[p]] = SectorNumber[buf[p]]
                      /\ Data'[buf'[p]] = Data[buf[p]]
    PROVE  /\ \A s \in Sectors : UsersOf(s)' = UsersOf(s)
           /\ \A p \in Procs : Seen(p)' = Seen(p)
BY DEF UsersOf, Seen

(* A process is given a buffer with valid data: Take.                      *)
LEMMA TakeStep ==
    ASSUME IInv, StoreInv, StoreInv', NEW p \in Procs,
           pc[p] \in {"read", "got"}, "VALID" \in Flags[buf[p]],
           Goto(p, "use"), UNCHANGED <<bufVars, disk, buf>>
    PROVE  \E s \in Sectors : S!Take(p, s)
<1>1. PICK s \in Sectors : s = SectorNumber[buf[p]]
    BY HasBuffer DEF IInv, TypeOK
<1>2. /\ buf[p] \in Buffers
      /\ pc[p] \in Holding /\ pc[p] \notin Using
    BY HasBuffer DEF IInv, TypeOK, Holding, Using
<1>3. \A b \in Buffers : ~DirtyFor(b, s)
    BY <1>1, <1>2 DEF StoreInv
<1>4. Stored(s) = Data[buf[p]]
    BY <1>1, <1>2, <1>3 DEF StoreInv, IInv, ValidMeansRead, DirtyFor
<1>5. \A r \in Sectors : Stored(r)' = Stored(r)
    BY StoreFrame DEF DirtyFor, bufVars
<1>6. /\ \A q \in Procs : q # p => pc'[q] = pc[q]
      /\ pc'[p] = "use" /\ pc'[p] \in Using
    BY DEF Goto, IInv, TypeOK, Using
<1>7. /\ buf' = buf /\ SectorNumber' = SectorNumber /\ Data' = Data
    BY DEF bufVars
<1>8. UsersOf(s) = {}
    BY ZenonT(60), <1>1, <1>2 DEF UsersOf, StoreInv, Holding
<1>9. /\ UsersOf(s)' = {p}
      /\ \A r \in Sectors : r # s => UsersOf(r)' = UsersOf(r)
      /\ \A r \in Sectors : p \notin UsersOf(r)
    <2>1. \A r \in Sectors : p \notin UsersOf(r)
        BY <1>1, <1>2 DEF UsersOf
    <2>2. \A r \in Sectors : r # s => UsersOf(r)' = UsersOf(r)
        BY <1>1, <1>2, <1>6, <1>7 DEF UsersOf
    <2>3. UsersOf(s)' = UsersOf(s) \cup {p}
        BY <1>1, <1>2, <1>6, <1>7 DEF UsersOf
    <2> QED
        BY <1>8, <2>1, <2>2, <2>3
<1>10. Seen(p)' = Data[buf[p]] /\ \A q \in Procs : q # p => Seen(q)' = Seen(q)
    BY <1>6, <1>7 DEF Seen
<1> QED
    BY Zenon, <1>1, <1>2, <1>4, <1>5, <1>8, <1>9, <1>10 DEF S!Take

(* The holder of a buffer changes its data: Change.                        *)
LEMMA WriteStep ==
    ASSUME IInv, StoreInv, StoreInv', NEW p \in Procs, NEW v \in Value,
           Write(p, v)
    PROVE  \E s \in Sectors : S!Change(p, s, v)
<1>1. PICK s \in Sectors : s = SectorNumber[buf[p]]
    BY HasBuffer DEF IInv, TypeOK, Write, sleeplockRelease, At
<1>2. /\ buf[p] \in Buffers /\ pc[p] = "use"
      /\ pc[p] \in Holding /\ pc[p] \in Using
    BY HasBuffer DEF IInv, TypeOK, Holding, Using, Write, At
<1>3. /\ \A q \in Procs : q # p => pc'[q] = pc[q]
      /\ pc'[p] \in Using
      /\ buf' = buf /\ SectorNumber' = SectorNumber /\ disk' = disk
    BY DEF Write, Goto, IInv, TypeOK, Using, ideVars
<1>4. /\ Data'[buf[p]] = v /\ "DIRTY" \in Flags'[buf[p]]
      /\ \A b \in Buffers : b # buf[p] =>
             Data'[b] = Data[b] /\ Flags'[b] = Flags[b]
    BY <1>1, <1>2 DEF Write, IInv, TypeOK
<1>5. Stored(s)' = v
    <2>1. PICK b \in Buffers : b = buf[p]
        BY Zenon, <1>2
    <2>2. DirtyFor(b, s)'
        BY <1>1, <1>3, <1>4, <2>1 DEF DirtyFor
    <2>3. Stored(s)' = Data'[b]
        BY Zenon, <2>2 DEF StoreInv
    <2> QED
        BY Zenon, <1>4, <2>1, <2>3
<1>6. ASSUME NEW r \in Sectors, r # s PROVE Stored(r)' = Stored(r)
    <2>1. \A b \in Buffers : /\ DirtyFor(b, r)' <=> DirtyFor(b, r)
                             /\ DirtyFor(b, r) => b # buf[p]
        BY Zenon, <1>1, <1>3, <1>4, <1>6 DEF DirtyFor
    <2>2. ASSUME NEW b \in Buffers, DirtyFor(b, r) PROVE Stored(r)' = Stored(r)
        <3>1. Stored(r) = Data[b] /\ Stored(r)' = Data'[b]
            BY Zenon, <2>1, <2>2 DEF StoreInv
        <3> QED
            BY <1>4, <2>1, <2>2, <3>1
    <2>3. ASSUME \A b \in Buffers : ~DirtyFor(b, r)
          PROVE Stored(r)' = Stored(r)
        <3>1. Stored(r) = disk[r] /\ Stored(r)' = disk'[r]
            BY Zenon, <2>1, <2>3 DEF StoreInv
        <3> QED
            BY <1>3, <3>1
    <2> QED
        BY <2>2, <2>3
<1>7. \A r \in Sectors : UsersOf(r)' = UsersOf(r)
    BY <1>1, <1>2, <1>3 DEF UsersOf
<1>8. p \in UsersOf(s)
    BY <1>1, <1>2 DEF UsersOf
<1>9. Seen(p)' = v
    BY Zenon, <1>3, <1>4 DEF Seen
<1>10. ASSUME NEW q \in Procs, q # p PROVE Seen(q)' = Seen(q)
    <2>1. pc[q] \in Using => buf[q] \in Buffers /\ buf[q] # buf[p]
        BY <1>1, <1>2, <1>10, HasBuffer DEF IInv, LockInv, Holding, Using
    <2> QED
        BY <1>3, <1>4, <1>10, <2>1 DEF Seen
<1> QED
    BY Zenon, <1>1, <1>2, <1>5, <1>6, <1>7, <1>8, <1>9, <1>10 DEF S!Change

(* The holder of a buffer gives it up: Leave.                              *)
LEMMA LeaveStep ==
    ASSUME IInv, StoreInv, StoreInv', NEW p \in Procs, sleeplockRelease(p)
    PROVE  \E s \in Sectors : S!Leave(p, s)
<1>1. PICK s \in Sectors : s = SectorNumber[buf[p]]
    BY HasBuffer DEF IInv, TypeOK, Write, sleeplockRelease, At
<1>2. /\ buf[p] \in Buffers /\ pc[p] = "use"
      /\ pc[p] \in Holding /\ pc[p] \in Using
    BY HasBuffer DEF IInv, TypeOK, Holding, Using, sleeplockRelease, At
<1>3. /\ \A q \in Procs : q # p => (pc'[q] \in Using <=> pc[q] \in Using)
      /\ pc'[p] \notin Using
    BY Zenon DEF sleeplockRelease, Wakeup, Using
<1>4. /\ buf' = buf /\ SectorNumber' = SectorNumber /\ disk' = disk
      /\ Data' = Data /\ Flags' = Flags
    BY DEF sleeplockRelease, ideVars
<1>5. \A r \in Sectors : Stored(r)' = Stored(r)
    BY <1>4, StoreFrame DEF DirtyFor
<1>6. UsersOf(s) = {p}
    BY ZenonT(60), <1>1, <1>2 DEF UsersOf, StoreInv, Holding
<1>7. \A r \in Sectors : UsersOf(r)' = UsersOf(r) \ {p}
    BY <1>3, <1>4 DEF UsersOf
<1>8. \A r \in Sectors : r # s => p \notin UsersOf(r)
    BY <1>1 DEF UsersOf
<1>9. UsersOf(s)' = {} /\ \A r \in Sectors : r # s => UsersOf(r)' = UsersOf(r)
    <2>1. UsersOf(s)' = UsersOf(s) \ {p} /\ UsersOf(s) \ {p} = {}
        BY <1>6, <1>7
    <2>2. ASSUME NEW r \in Sectors, r # s PROVE UsersOf(r)' = UsersOf(r)
        <3>1. UsersOf(r)' = UsersOf(r) \ {p} /\ p \notin UsersOf(r)
            BY Zenon, <1>7, <1>8, <2>2
        <3>2. \A T : p \notin T => T \ {p} = T
            OBVIOUS
        <3> QED
            BY Zenon, <3>1, <3>2
    <2> QED
        BY Zenon, <2>1, <2>2
<1>10. Seen(p)' = Nothing /\ \A q \in Procs : q # p => Seen(q)' = Seen(q)
    BY <1>3, <1>4 DEF Seen
<1> QED
    BY Zenon, <1>1, <1>2, <1>5, <1>6, <1>9, <1>10 DEF S!Leave

(* Every step of the cache is a step of the abstract store, or leaves it   *)
(* alone.                                                                  *)
LEMMA StepRefines ==
    ASSUME IInv, StoreInv, StoreInv', [Next]_vars
    PROVE  [S!SSNext]_(S!ssVars)
<1>f. ASSUME \A s \in Sectors : Stored(s)' = Stored(s),
             \A s \in Sectors : UsersOf(s)' = UsersOf(s),
             \A p \in Procs : Seen(p)' = Seen(p)
      PROVE  UNCHANGED S!ssVars
    BY <1>f DEF S!ssVars
<1>t. /\ pc \in [Procs -> Labels] /\ buf \in [Procs -> Buffers \cup {NoBuffer}]
      /\ mru \in [Buffers -> Buffers] /\ SectorNumber \in [Buffers -> Sectors]
      /\ Flags \in [Buffers -> SUBSET {"VALID", "DIRTY"}]
    BY DEF IInv, TypeOK
<1>b. \A p \in Procs : pc[p] # "idle" => buf[p] \in Buffers
    BY HasBuffer DEF IInv
<1>1. ASSUME NEW p \in Procs, ReadValid(p) PROVE S!SSNext
    BY <1>1, TakeStep DEF ReadValid, At, bufVars, ideVars, S!SSNext
<1>2. ASSUME NEW p \in Procs, IoDone(p), pc[p] = "got" PROVE S!SSNext
    BY Zenon, <1>2, TakeStep DEF IoDone, At, bufVars, ideVars, S!SSNext
<1>3. ASSUME NEW p \in Procs, NEW v \in Value, Write(p, v) PROVE S!SSNext
    BY <1>3, WriteStep DEF S!SSNext
<1>4. ASSUME NEW p \in Procs, sleeplockRelease(p) PROVE S!SSNext
    BY <1>4, LeaveStep DEF S!SSNext
<1>5. ASSUME UNCHANGED <<SectorNumber, Flags, Data, disk>>,
             \A p \in Procs :
                 /\ pc'[p] \in Using <=> pc[p] \in Using
                 /\ pc[p] \in Using => buf'[p] = buf[p]
      PROVE  UNCHANGED S!ssVars
    <2>1. \A s \in Sectors : Stored(s)' = Stored(s)
        BY <1>5, StoreFrame DEF DirtyFor
    <2>2. /\ \A s \in Sectors : UsersOf(s)' = UsersOf(s)
          /\ \A p \in Procs : Seen(p)' = Seen(p)
        BY <1>5, UserFrame
    <2> QED
        BY <1>f, <2>1, <2>2
<1> USE <1>t DEF bufVars, ideVars, Using
<1>6. ASSUME NEW p \in Procs, IoDone(p), pc[p] = "put" PROVE UNCHANGED S!ssVars
    BY <1>5, <1>6 DEF IoDone, Goto
<1>7. ASSUME NEW p \in Procs, Unreference(p) PROVE UNCHANGED S!ssVars
    BY <1>5, <1>7 DEF Unreference, At, Goto
<1>8. ASSUME NEW p \in Procs, sleeplockAcquire(p) PROVE UNCHANGED S!ssVars
    BY <1>5, <1>8 DEF sleeplockAcquire, At, Goto
<1>9. ASSUME NEW p \in Procs, SleeplockSleep(p) PROVE UNCHANGED S!ssVars
    BY <1>5, <1>9 DEF SleeplockSleep, At, Goto
<1>10. ASSUME NEW p \in Procs, ReadRequest(p) PROVE UNCHANGED S!ssVars
    BY <1>5, <1>10 DEF ReadRequest, At, Goto
<1>11. ASSUME NEW p \in Procs, WriteRequest(p) PROVE UNCHANGED S!ssVars
    BY <1>5, <1>11 DEF WriteRequest, At, Goto
<1>12. ASSUME NEW p \in Procs, NEW s \in Sectors, NEW i \in Buffers,
              GetCached(p, s, i)
       PROVE  UNCHANGED S!ssVars
    BY <1>5, <1>12 DEF GetCached, At, Goto
<1>13. ASSUME NEW p \in Procs, NEW s \in Sectors, GetPanics(p, s)
       PROVE  UNCHANGED S!ssVars
    BY <1>5, <1>13 DEF GetPanics
<1>14. CASE UNCHANGED vars
    BY <1>5, <1>14 DEF vars
<1>15. ASSUME NEW p \in Procs, NEW s \in Sectors, NEW i \in Buffers,
              GetRecycled(p, s, i)
       PROVE  UNCHANGED S!ssVars
    <2>1. PICK b \in Buffers : b = mru[i]
        OBVIOUS
    <2>2. ReferenceCount[b] = 0 /\ "DIRTY" \notin Flags[b] /\ pc[p] = "idle"
        BY Zenon, <1>15, <2>1 DEF GetRecycled, Victim, Unused, At
    <2>3. \A q \in Procs : buf[q] # b
        BY <2>2 DEF IInv, UseInv
    <2>4. /\ Data' = Data /\ disk' = disk /\ "DIRTY" \notin Flags'[b]
          /\ \A c \in Buffers : c # b => /\ Flags'[c] = Flags[c]
                                         /\ SectorNumber'[c] = SectorNumber[c]
        BY <1>15, <2>1 DEF GetRecycled, RecycledFlags
    <2>5. \A q \in Procs : /\ pc'[q] \in Using <=> pc[q] \in Using
                           /\ pc[q] \in Using => buf'[q] = buf[q]
        BY <1>15, <2>2 DEF GetRecycled, Goto
    <2>6. \A r \in Sectors : Stored(r)' = Stored(r)
        BY <2>2, <2>4, StoreFrame DEF DirtyFor
    <2>7. \A q \in Procs : pc[q] \in Using =>
              SectorNumber'[buf'[q]] = SectorNumber[buf[q]]
        BY <1>b, <2>3, <2>4, <2>5
    <2> QED
        BY Zenon, <1>f, <2>4, <2>5, <2>6, <2>7, UserFrame
<1>16. CASE IdeInterrupt
    <2>1. PICK b \in Buffers : b = Head(idequeue)
        BY <1>16, FirstBuffer DEF IInv, IdeInterrupt
    <2>2. PICK r \in Procs : buf[r] = b /\ pc[r] \in {"ioread", "iowrite"}
        BY <1>16, <2>1, FirstBuffer DEF IInv, QueueInv, IdeInterrupt
    <2>3. /\ SectorNumber' = SectorNumber /\ buf' = buf
          /\ \A c \in Buffers : c # b => Flags'[c] = Flags[c]
          /\ "DIRTY" \notin Flags'[b]
        BY <1>16, <2>1 DEF IdeInterrupt, IdeComplete
    <2>4. \A q \in Procs : pc'[q] \in Using <=> pc[q] \in Using
        BY <1>16 DEF IdeInterrupt, IdeComplete, Wakeup
    <2>5. CASE "DIRTY" \in Flags[b]
        <3>1. PICK s \in Sectors : s = SectorNumber[b]
            OBVIOUS
        <3>2. disk' = [disk EXCEPT ![s] = Data[b]] /\ Data' = Data
            BY <1>16, <2>1, <2>5, <3>1 DEF IdeInterrupt
        <3>3. Stored(s)' = Stored(s)
            <4>1. DirtyFor(b, s) /\ Stored(s) = Data[b]
                BY Zenon, <2>5, <3>1 DEF StoreInv, DirtyFor
            <4>2. ASSUME NEW c \in Buffers PROVE ~DirtyFor(c, s)'
                <5>1. DirtyFor(c, s) => c = b
                    BY ZenonT(60), <2>2, <3>1 DEF StoreInv, Holding
                <5> QED
                    BY Zenon, <2>3, <5>1 DEF DirtyFor
            <4>3. Stored(s)' = disk'[s]
                BY Zenon, <4>2 DEF StoreInv
            <4> QED
                BY <3>2, <4>1, <4>3 DEF IInv, TypeOK
        <3>4. ASSUME NEW u \in Sectors, u # s PROVE Stored(u)' = Stored(u)
            <4>1. \A c \in Buffers : DirtyFor(c, u)' <=> DirtyFor(c, u)
                BY <2>3, <3>1, <3>4 DEF DirtyFor
            <4>2. ASSUME NEW c \in Buffers, DirtyFor(c, u)
                  PROVE  Stored(u)' = Stored(u)
                <5>1. Stored(u) = Data[c] /\ Stored(u)' = Data'[c]
                    BY Zenon, <4>1, <4>2 DEF StoreInv
                <5> QED
                    BY <3>2, <5>1
            <4>3. ASSUME \A c \in Buffers : ~DirtyFor(c, u)
                  PROVE  Stored(u)' = Stored(u)
                <5>1. Stored(u) = disk[u] /\ Stored(u)' = disk'[u]
                    BY Zenon, <4>1, <4>3 DEF StoreInv
                <5> QED
                    BY <3>2, <3>4, <5>1
            <4> QED
                BY <4>2, <4>3
        <3> QED
            BY Zenon, <1>f, <2>3, <2>4, <3>2, <3>3, <3>4, UserFrame
    <2>6. CASE "DIRTY" \notin Flags[b]
        <3>1. disk' = disk /\ \A c \in Buffers : c # b => Data'[c] = Data[c]
            BY <1>16, <2>1, <2>6 DEF IdeInterrupt, IInv, TypeOK
        <3>2. \A s \in Sectors : Stored(s)' = Stored(s)
            BY <2>3, <2>6, <3>1, StoreFrame DEF DirtyFor
        <3>3. pc[r] \notin Using /\ pc[r] \in Holding
            BY <2>2, <2>6 DEF IInv, FlagInv, Holding
        <3>4. \A q \in Procs : pc[q] \in Using => buf[q] \in Buffers /\ buf[q] # b
            BY <1>b, <2>2, <3>3 DEF IInv, LockInv, Holding
        <3> QED
            BY Zenon, <1>f, <2>3, <2>4, <3>1, <3>2, <3>4, UserFrame
    <2> QED
        BY <2>5, <2>6
<1> QED
    BY Zenon, <1>1, <1>2, <1>3, <1>4, <1>6, <1>7, <1>8, <1>9, <1>10, <1>11,
       <1>12,
       <1>13, <1>14, <1>15, <1>16
       DEF Next, Panicked, IoDone, At

-----------------------------------------------------------------------------
(* How ReferenceCount counts.                                              *)

INSTANCE FiniteSetTheorems

(* The set of a buffer's users is finite, so that ReferenceCount is above  *)
(* zero exactly when some process has the buffer.                          *)
LEMMA Counted ==
    ASSUME TypeOK, CountInv, NEW b \in Buffers
    PROVE  /\ IsFiniteSet(Users(b))
           /\ ReferenceCount[b] > 0 <=> \E p \in Procs : buf[p] = b
<1>1. IsFiniteSet(Users(b))
    BY BufferAssumption, FS_Subset, Users(b) \in SUBSET Procs DEF Users
<1>2. Cardinality(Users(b)) = 0 <=> Users(b) = {}
    BY <1>1, FS_EmptySet
<1>3. ReferenceCount[b] \in Nat /\ ReferenceCount[b] = Cardinality(Users(b))
    BY DEF TypeOK, CountInv
<1>4. Users(b) = {} <=> ~ \E p \in Procs : buf[p] = b
    BY DEF Users
<1>5. ReferenceCount[b] > 0 <=> ReferenceCount[b] # 0
    BY <1>3
<1> QED
    BY <1>1, <1>2, <1>3, <1>4, <1>5

(* A process that has no buffer and takes b adds one to the users of b and *)
(* of no other buffer.                                                     *)
LEMMA AddUser ==
    ASSUME TypeOK, CountInv, NEW p \in Procs, NEW b \in Buffers,
           buf[p] = NoBuffer, buf' = [buf EXCEPT ![p] = b],
           ReferenceCount' = [ReferenceCount EXCEPT ![b] = @ + 1]
    PROVE  \A c \in Buffers : ReferenceCount'[c] = Cardinality(Users(c)')
<1>1. SUFFICES ASSUME NEW c \in Buffers
               PROVE  ReferenceCount'[c] = Cardinality(Users(c)')
    OBVIOUS
<1>2. CASE c = b
    <2>1. Users(b)' = Users(b) \cup {p} /\ p \notin Users(b)
        BY NoBufferIsNone DEF Users, TypeOK
    <2>2. Cardinality(Users(b) \cup {p}) = Cardinality(Users(b)) + 1
        BY Zenon, <2>1, Counted, FS_AddElement
    <2> QED
        BY <1>2, <2>1, <2>2 DEF TypeOK, CountInv
<1>3. CASE c # b
    <2>1. Users(c)' = Users(c)
        BY <1>3, NoBufferIsNone DEF Users, TypeOK
    <2> QED
        BY <1>3, <2>1 DEF TypeOK, CountInv
<1> QED
    BY <1>2, <1>3

(* A process that gives its buffer back takes one from the users of that   *)
(* buffer and of no other.                                                 *)
LEMMA RemoveUser ==
    ASSUME TypeOK, CountInv, NEW p \in Procs, NEW b \in Buffers,
           buf[p] = b, buf' = [buf EXCEPT ![p] = NoBuffer],
           ReferenceCount' = [ReferenceCount EXCEPT ![b] = @ - 1]
    PROVE  \A c \in Buffers : ReferenceCount'[c] = Cardinality(Users(c)')
<1>1. ReferenceCount[b] > 0
    BY Counted
<1>2. SUFFICES ASSUME NEW c \in Buffers
               PROVE  ReferenceCount'[c] = Cardinality(Users(c)')
    BY <1>1 DEF TypeOK
<1>3. CASE c = b
    <2>1. Users(b)' = Users(b) \ {p} /\ p \in Users(b)
        BY NoBufferIsNone DEF Users, TypeOK
    <2>2. Cardinality(Users(b) \ {p}) = Cardinality(Users(b)) - 1
        BY Zenon, <2>1, Counted, FS_RemoveElement
    <2> QED
        BY <1>3, <2>1, <2>2 DEF TypeOK, CountInv
<1>4. CASE c # b
    <2>1. Users(c)' = Users(c)
        BY <1>4, NoBufferIsNone DEF Users, TypeOK
    <2> QED
        BY <1>4, <2>1 DEF TypeOK, CountInv
<1> QED
    BY <1>3, <1>4

(* Every step keeps the counts.                                            *)
LEMMA CountStep ==
    ASSUME TypeOK, CountInv, UsersKept
    PROVE  CountInv'
<1>1. \A c \in Buffers : ReferenceCount'[c] = Cardinality(Users(c)')
    <2>1. CASE UNCHANGED <<buf, ReferenceCount>>
        BY <2>1 DEF CountInv, Users
    <2>2. CASE \E p \in Procs, b \in Buffers : Taken(p, b)
        BY Zenon, <2>2, AddUser DEF Taken
    <2>3. CASE \E p \in Procs, b \in Buffers : GivenBack(p, b)
        BY Zenon, <2>3, RemoveUser DEF GivenBack
    <2> QED
        BY Zenon, <2>1, <2>2, <2>3 DEF UsersKept
<1> QED
    BY Zenon, <1>1 DEF CountInv, UsersKept

-----------------------------------------------------------------------------
(* The initial states satisfy the invariant.                               *)
LEMMA Initially == Init => IInv
<1> SUFFICES ASSUME Init PROVE IInv
    OBVIOUS
<1> USE BufferAssumption, NoBufferIsNone DEF Init
<1>1. TypeOK
    <2>1. mru \in [Buffers -> Buffers]
        BY DEF Buffers
    <2>2. idequeue \in Seq(Buffers)
        OBVIOUS
    <2>3. /\ pc \in [Procs -> Labels]
          /\ buf \in [Procs -> Buffers \cup {NoBuffer}]
        BY DEF Labels
    <2> QED
        BY Zenon, <2>1, <2>2, <2>3 DEF TypeOK
<1>2. ListInv
    <2>1. \A i, j \in Buffers : mru[i] = mru[j] => i = j
        BY DEF Buffers
    <2>2. ASSUME NEW b \in Buffers PROVE \E i \in Buffers : mru[i] = b
        <3>1. NBUF + 1 - b \in Buffers /\ NBUF + 1 - (NBUF + 1 - b) = b
            BY DEF Buffers
        <3> QED
            BY <3>1
    <2> QED
        BY <2>1, <2>2 DEF ListInv
<1>3. CountInv
    <2>1. \A b \in Buffers : Users(b) = {}
        BY DEF Users
    <2> QED
        BY Zenon, <2>1, FS_EmptySet DEF CountInv
<1>4. UseInv /\ LockInv /\ FlagInv /\ QueueInv
    BY DEF UseInv, LockInv, FlagInv, QueueInv, Holding, Using
<1>5. OrderInv /\ PanicOnlyIfAllInUse /\ ValidMeansRead
    BY DEF OrderInv, Real, PanicOnlyIfAllInUse, ValidMeansRead, Buffers
<1> QED
    BY <1>1, <1>2, <1>3, <1>4, <1>5 DEF IInv

(* Every step keeps the invariant.                                         *)
LEMMA Inductive == IInv /\ [Next]_vars => IInv'
<1>1. TypeOK /\ CountInv => UseInv
    BY Counted DEF UseInv
<1>2. TypeOK' /\ CountInv' => UseInv'
    BY <1>1, PTL
<1> QED
    BY <1>2, TypeStep, ListStep, UserStep, CountStep, LockStep, FlagStep,
       QueueStep,
       OrderStep, PanicStep, ReadStep
       DEF IInv

(* The inductive invariant of the disk path holds in every reachable state.*)
THEOREM Invariance == Spec => []IInv
BY Initially, Inductive, PTL DEF Spec

(* Every value stays in its range; above all, ReferenceCount never falls   *)
(* below zero in diskBufferRelease.                                        *)
THEOREM TypeCorrect == Spec => []TypeOK
<1>1. IInv => TypeOK
    BY DEF IInv
<1> QED
    BY <1>1, Invariance, PTL

(* diskBufferGet never gives a sector a second buffer while the first is   *)
(* in use or holds valid data.                                             *)
THEOREM OneCopy == Spec => []OneBufferPerSector
<1>1. IInv => OneBufferPerSector
    BY OneBuffer DEF IInv
<1> QED
    BY <1>1, Invariance, PTL

(* No process sleeps in sleeplockAcquire or ideReadWrite without somebody  *)
(* who will wake it.                                                       *)
THEOREM NobodyForgotten == Spec => []SleepersServed
<1>1. ASSUME IInv PROVE SleepersServed
    <2>1. \A p \in Procs : pc[p] = "asleep" =>
              \E q \in Procs : buf[q] = buf[p] /\ pc[q] \in Holding
        <3>1. \A p \in Procs : pc[p] = "asleep" => buf[p] \in Buffers
            BY <1>1, HasBuffer DEF IInv
        <3> QED
            BY <1>1, <3>1 DEF IInv, LockInv
    <2>2. /\ active <=> idequeue # <<>>
          /\ \A p \in Procs : pc[p] \in {"ioread", "iowrite"} =>
                 \E i \in DOMAIN idequeue : idequeue[i] = buf[p]
        BY <1>1 DEF IInv, QueueInv
    <2> QED
        BY <2>1, <2>2 DEF SleepersServed
<1> QED
    BY <1>1, Invariance, PTL

(* diskBufferGet panics only when every buffer has a user.                 *)
THEOREM PanicJustified == Spec => []PanicOnlyIfAllInUse
<1>1. IInv => PanicOnlyIfAllInUse
    BY DEF IInv
<1> QED
    BY <1>1, Invariance, PTL

(* diskBufferRead, diskBufferWrite and diskBufferRelease use a sector one  *)
(* process at a time, and each sees what was last written: the cache, the  *)
(* sleep locks and the IDE queue together implement SectorStore.           *)
THEOREM Refinement == Spec => ImplementsStore
<1>1. Init => S!SSInit
    <2> SUFFICES ASSUME Init PROVE S!SSInit
        OBVIOUS
    <2>1. \A s \in Sectors : Stored(s) = disk[s] /\ UsersOf(s) = {}
        BY DEF Init, Stored, DirtyFor, UsersOf, Using
    <2>2. \A p \in Procs : Seen(p) = Nothing
        BY DEF Init, Seen, Using
    <2>3. disk \in [Sectors -> Value]
        BY DEF Init
    <2> QED
        BY <2>1, <2>2, <2>3 DEF S!SSInit
<1>2. IInv /\ StoreInv /\ StoreInv' /\ [Next]_vars => [S!SSNext]_(S!ssVars)
    BY StepRefines
<1> QED
    BY <1>1, <1>2, Invariance, StoreFacts, PTL
       DEF Spec, ImplementsStore, S!SSSpec
=============================================================================
