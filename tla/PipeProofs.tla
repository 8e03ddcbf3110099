----------------------------- MODULE PipeProofs -----------------------------
(***************************************************************************)
(* The safety properties of Pipe, and that it implements Channel, for any  *)
(* size of the buffer and any number of readers and writers.               *)
(***************************************************************************)
EXTENDS Pipe, SequenceTheorems, TLAPS

(* p->Lock is held by the process inside one of the loops.                 *)
LockInv ==
    \A p \in Procs : pc[p] \in {"wloop", "rwait", "rcopy"} <=> lock = p

Reading == {"read", "rwait", "rcopy", "rsleep"}
Writing == {"write", "wloop", "wsleep"}

(* A process inside piperead or pipewrite has the end it uses.  Each end   *)
(* is closed by one process, once nobody has it.                           *)
EndInv ==
    /\ \A p \in Procs :
        /\ pc[p] \in Reading => p \in rd
        /\ pc[p] \in Writing => p \in wr
        /\ pc[p] = "closeR" => rd = {} /\ ReadOpen
        /\ pc[p] = "closeW" => wr = {} /\ WriteOpen
    /\ \A p, q \in Procs :
        pc[p] = pc[q] /\ pc[p] \in {"closeR", "closeW"} => p = q
    /\ ~ReadOpen => rd = {}
    /\ ~WriteOpen => wr = {}

FreeInv == frees = IF ReadOpen \/ WriteOpen THEN 0 ELSE 1

(* Only the process that holds the lock may have made a sleeper's reason   *)
(* to sleep go away, and it has yet to wake it.                            *)
SleepInv ==
    \A p \in Procs :
        /\ pc[p] = "rsleep" =>
               \/ Empty /\ WriteOpen
               \/ abandoned
               \/ \E q \in Procs : pc[q] = "wloop"
        /\ pc[p] = "wsleep" =>
               /\ ReadOpen
               /\ Full \/ \E q \in Procs : pc[q] = "rcopy"

(* A piperead that has copied nothing yet left its first loop for a byte   *)
(* or for the end of file.                                                 *)
CopyInv ==
    \A p \in Procs :
        /\ p \in copied => pc[p] = "rcopy"
        /\ pc[p] = "rcopy" /\ p \notin copied => ~Empty \/ ~WriteOpen

IInv ==
    /\ TypeOK
    /\ LockInv
    /\ EndInv
    /\ FreeInv
    /\ SleepInv
    /\ CopyInv
-----------------------------------------------------------------------------
(* The counters, which wrap, and the ring they index.                      *)

(* The provers a leaf is tried with, and the time each may take.           *)
USE SMTT(30), Z3T(30), ZenonT(30)

(* A number less than a whole turn off is brought back by one turn.        *)
LEMMA ModNear ==
    ASSUME NEW m \in Nat \ {0}, NEW x \in Int, -m <= x, x < 2 * m
    PROVE  x % m = IF x < 0 THEN x + m ELSE IF x < m THEN x ELSE x - m
<1>1. x < 0 => x % m = x + m
    OBVIOUS
<1>2. 0 <= x /\ x < m => x % m = x
    OBVIOUS
<1>3. m <= x => x % m = x - m
    OBVIOUS
<1> QED
    BY <1>1, <1>2, <1>3

(* Every number is a multiple plus its remainder.                          *)
LEMMA ModParts ==
    ASSUME NEW m \in Nat \ {0}, NEW x \in Int
    PROVE  x % m \in 0..(m - 1) /\ \E q \in Int : x = m * q + (x % m)
<1>1. x \div m \in Int /\ x % m \in 0..(m - 1)
    OBVIOUS
<1>2. x = m * (x \div m) + (x % m)
    OBVIOUS
<1> QED
    BY Zenon, <1>1, <1>2

(* The wrapping of a counter does not show in the index it yields, because *)
(* PIPESIZE divides the number of values of the counter.                   *)
LEMMA IndexWraps ==
    ASSUME NEW m \in Nat \ {0}, NEW t \in Int, 0 < t, t % m = 0,
           NEW x \in Int, 0 <= x, x < 2 * t
    PROVE  (x % t) % m = x % m
<1>2. CASE x < t
    BY <1>2
<1>3. CASE x >= t
    <2>1. x % t = x - t
        BY <1>3
    <2>2. PICK k \in Int : t = m * k
        <3>1. PICK k \in Int : t = m * k + (t % m)
            BY Zenon, ModParts
        <3> QED
            BY <3>1
    <2>3. PICK q \in Int : x = m * q + (x % m)
        BY Zenon, ModParts
    <2>4. /\ x - t \in Int /\ q - k \in Int
          /\ x % m \in 0..(m - 1)
        BY ModParts
    <2>5. x - t = m * (q - k) + (x % m)
        BY <2>2, <2>3, <2>4
    <2>6. ASSUME NEW y \in Int, NEW u \in Int, NEW r \in 0..(m - 1),
                 y = m * u + r
          PROVE  y % m = r
        BY <2>6
    <2>7. (x - t) % m = x % m
        BY Zenon, <2>4, <2>5, <2>6
    <2> QED
        BY Zenon, <2>1, <2>7
<1> QED
    BY <1>2, <1>3

(* Fewer than PIPESIZE bytes apart, two bytes have different places.       *)
LEMMA PlacesDiffer ==
    ASSUME NEW m \in Nat \ {0}, NEW x \in Int, NEW y \in Int, x < y, y < x + m
    PROVE  x % m # y % m
<1> SUFFICES ASSUME x % m = y % m PROVE FALSE
    BY Zenon
<1>2. PICK q \in Int : x = m * q + (x % m)
    BY Zenon, ModParts
<1>3. PICK u \in Int : y = m * u + (x % m)
    BY Zenon, ModParts
<1>4. x % m \in Int
    BY ModParts
<1>5. y - x = m * (u - q)
    BY <1>2, <1>3, <1>4
<1>6. (u - q >= 1 => m * (u - q) >= m) /\ (u - q <= 0 => m * (u - q) <= 0)
    OBVIOUS
<1> QED
    BY <1>5, <1>6

-----------------------------------------------------------------------------

(* What the counters of the pipe say.                                      *)
LEMMA PipeCounters ==
    ASSUME TypeOK
    PROVE  /\ Count \in 0..PIPESIZE
           /\ Count = 0 <=> Empty
           /\ Count = PIPESIZE <=> Full
           /\ WriteCount = (ReadCount + Count) % Wrap
           /\ (WriteCount + 1) % Wrap \in 0..(Wrap - 1)
           /\ (ReadCount + 1) % Wrap \in 0..(Wrap - 1)
           /\ ~Full => (((WriteCount + 1) % Wrap) - ReadCount) % Wrap = Count + 1
           /\ ~Empty => (WriteCount - ((ReadCount + 1) % Wrap)) % Wrap = Count - 1
<1>1. PICK t \in Nat \ {0}, s \in Nat \ {0} :
          t = Wrap /\ s = PIPESIZE /\ s < t
    BY PipeAssumption
<1>2. PICK r \in 0..(t - 1), w \in 0..(t - 1) :
          r = ReadCount /\ w = WriteCount /\ (w - r) % t <= s
    BY Zenon, <1>1 DEF TypeOK, Count
<1>3. ASSUME NEW x \in Int, -t <= x, x < 2 * t
      PROVE  x % t = IF x < 0 THEN x + t ELSE IF x < t THEN x ELSE x - t
    BY Zenon, <1>3, ModNear
<1>4. ASSUME NEW a \in 0..(t - 1), NEW b \in 0..(t - 1)
      PROVE  /\ (a - b) % t = IF a < b THEN a - b + t ELSE a - b
             /\ (a + b) % t = IF a + b < t THEN a + b ELSE a + b - t
    BY <1>3
<1>5. /\ (w + 1) % t = IF w + 1 = t THEN 0 ELSE w + 1
      /\ (r + 1) % t = IF r + 1 = t THEN 0 ELSE r + 1
    BY <1>3
<1>6. PICK c \in 0..s : /\ c = (w - r) % t
                       /\ c = IF w < r THEN w - r + t ELSE w - r
    <2>1. (w - r) % t = IF w < r THEN w - r + t ELSE w - r
        BY Zenon, <1>4
    <2>2. (w - r) % t \in 0..s
        BY <1>2, <2>1
    <2> QED
        BY Zenon, <2>1, <2>2
<1>7. (c = 0 <=> r = w) /\ (c = s <=> w = (r + s) % t)
    <2>1. s \in 0..(t - 1)
        BY <1>1
    <2>2. (r + s) % t = IF r + s < t THEN r + s ELSE r + s - t
        BY Zenon, <1>4, <2>1
    <2> QED
        BY <1>1, <1>6, <2>2
<1>8. w = (r + c) % t
    BY <1>1, <1>4, <1>6
<1>9. (w + 1) % t \in 0..(t - 1) /\ (r + 1) % t \in 0..(t - 1)
    BY <1>5
<1>10. c < s => (((w + 1) % t) - r) % t = c + 1
    <2>1. PICK v \in 0..(t - 1) : /\ v = (w + 1) % t
                                  /\ v = IF w + 1 = t THEN 0 ELSE w + 1
        BY <1>5
    <2>2. (v - r) % t = IF v < r THEN v - r + t ELSE v - r
        BY Zenon, <1>4
    <2> QED
        BY <1>1, <1>6, <2>1, <2>2
<1>11. r # w => (w - ((r + 1) % t)) % t = c - 1
    <2>1. PICK v \in 0..(t - 1) : /\ v = (r + 1) % t
                                  /\ v = IF r + 1 = t THEN 0 ELSE r + 1
        BY <1>5
    <2>2. (w - v) % t = IF w < v THEN w - v + t ELSE w - v
        BY Zenon, <1>4
    <2> QED
        BY <1>1, <1>6, <2>1, <2>2
<1>12. Count = c
    BY Zenon, <1>1, <1>2, <1>6 DEF Count
<1>13. (Count = 0 <=> Empty) /\ (Count = PIPESIZE <=> Full)
    BY Zenon, <1>1, <1>2, <1>7, <1>12 DEF Empty, Full
<1>14. c # s => c < s
    OBVIOUS
<1> QED
    BY Zenon, <1>1, <1>2, <1>8, <1>9, <1>10, <1>11, <1>12, <1>13, <1>14
       DEF Empty

(* Every step keeps the types.                                             *)
LEMMA TypeStep ==
    ASSUME TypeOK, [Next]_vars
    PROVE  TypeOK'
<1> USE DEF TypeOK, pipeVars, obsVars, Labels, Count
<1>1. ASSUME NEW p \in Procs, WriteAcquire(p) PROVE TypeOK'
    BY Zenon, <1>1 DEF WriteAcquire, Acquire
<1>2. ASSUME NEW p \in Procs, WriteFail(p) PROVE TypeOK'
    <2>1. n' \in [Procs -> 0..MaxN] /\ pc' \in [Procs -> Labels]
        BY <1>2, PipeAssumption DEF WriteFail, Return
    <2>2. eof' \in BOOLEAN /\ abandoned' \in BOOLEAN
        BY Zenon, <1>2 DEF WriteFail
    <2> QED
        BY Zenon, <1>2, <2>1, <2>2 DEF WriteFail, Return
<1>3. ASSUME NEW p \in Procs, WriteSleep(p) PROVE TypeOK'
    BY Zenon, <1>3 DEF WriteSleep, WakeReaders
<1>4. ASSUME NEW p \in Procs, WriteDone(p) PROVE TypeOK'
    BY Zenon, <1>4 DEF WriteDone, Return, WriteWakes, WakeReaders
<1>5. ASSUME NEW p \in Procs, NEW b \in Byte, WriteByte(p, b) PROVE TypeOK'
    <2>1. Count' = Count + 1 /\ Count + 1 <= PIPESIZE /\ WriteCount' \in 0..(Wrap - 1)
        BY <1>5, PipeCounters, PipeAssumption DEF WriteByte, Count
    <2>2. Data' \in [0..(PIPESIZE - 1) -> Byte]
        BY Zenon, <1>5 DEF WriteByte
    <2>3. n' \in [Procs -> 0..MaxN]
        BY <1>5, PipeAssumption DEF WriteByte
    <2> QED
        BY Zenon, <1>5, <2>1, <2>2, <2>3 DEF WriteByte
<1>6. ASSUME NEW p \in Procs, ReadAcquire(p) PROVE TypeOK'
    BY Zenon, <1>6 DEF ReadAcquire, Acquire
<1>7. ASSUME NEW p \in Procs, ReadFail(p) PROVE TypeOK'
    <2>1. n' \in [Procs -> 0..MaxN] /\ pc' \in [Procs -> Labels]
        BY <1>7, PipeAssumption DEF ReadFail, Return
    <2>2. eof' \in BOOLEAN /\ abandoned' \in BOOLEAN
        BY Zenon, <1>7 DEF ReadFail
    <2> QED
        BY Zenon, <1>7, <2>1, <2>2 DEF ReadFail, Return
<1>8. ASSUME NEW p \in Procs, ReadSleep(p) PROVE TypeOK'
    BY Zenon, <1>8 DEF ReadSleep
<1>9. ASSUME NEW p \in Procs, ReadReady(p) PROVE TypeOK'
    BY <1>9 DEF ReadReady
<1>10. ASSUME NEW p \in Procs, ReadByte(p) PROVE TypeOK'
    <2>1. Count' = Count - 1 /\ Count - 1 <= PIPESIZE /\ ReadCount' \in 0..(Wrap - 1)
        BY <1>10, PipeCounters, PipeAssumption DEF ReadByte, Count
    <2>2. last' \in {<<b>> : b \in Byte}
        <3>1. ReadIndex \in 0..(PIPESIZE - 1)
            BY PipeAssumption DEF ReadIndex
        <3> QED
            BY Zenon, <1>10, <3>1 DEF ReadByte
    <2>3. n' \in [Procs -> 0..MaxN]
        BY <1>10, PipeAssumption DEF ReadByte
    <2> QED
        BY <1>10, <2>1, <2>2, <2>3 DEF ReadByte
<1>11. ASSUME NEW p \in Procs, ReadDone(p) PROVE TypeOK'
    <2>1. n' \in [Procs -> 0..MaxN] /\ pc' \in [Procs -> Labels]
        BY <1>11, PipeAssumption DEF ReadDone, Return, WakeWriters
    <2>2. eof' \in BOOLEAN /\ abandoned' \in BOOLEAN
        BY Zenon, <1>11 DEF ReadDone
    <2> QED
        BY Zenon, <1>11, <2>1, <2>2 DEF ReadDone, Return
<1>12. ASSUME NEW p \in Procs, PipeCloseWrite(p) PROVE TypeOK'
    <2>1. frees' \in Nat
        BY <1>12 DEF PipeCloseWrite, FreesPipe
    <2>2. pc' \in [Procs -> Labels]
        BY Zenon, <1>12 DEF PipeCloseWrite, CloseWakes, WakeReaders
    <2> QED
        BY Zenon, <1>12, <2>1, <2>2 DEF PipeCloseWrite
<1>13. ASSUME NEW p \in Procs, PipeCloseRead(p) PROVE TypeOK'
    <2>1. frees' \in Nat
        BY <1>13 DEF PipeCloseRead, FreesPipe
    <2>2. pc' \in [Procs -> Labels]
        BY Zenon, <1>13 DEF PipeCloseRead, CloseFreesWriters, WakeWriters
    <2> QED
        BY Zenon, <1>13, <2>1, <2>2 DEF PipeCloseRead
<1>14. ASSUME NEW p \in Procs, NEW k \in 0..MaxN, WriteCall(p, k) PROVE TypeOK'
    BY <1>14 DEF WriteCall, Call
<1>15. ASSUME NEW p \in Procs, NEW k \in 0..MaxN, ReadCall(p, k) PROVE TypeOK'
    BY <1>15 DEF ReadCall, Call
<1>16. ASSUME NEW p \in Procs, CloseWriteEnd(p) PROVE TypeOK'
    BY <1>16 DEF CloseWriteEnd
<1>17. ASSUME NEW p \in Procs, CloseReadEnd(p) PROVE TypeOK'
    BY <1>17 DEF CloseReadEnd
<1>18. ASSUME NEW p \in Procs, Kill(p) PROVE TypeOK'
    BY <1>18 DEF Kill, KillWakes
<1>19. CASE UNCHANGED vars
    BY <1>19 DEF vars
<1> QED
    BY Zenon, <1>1, <1>2, <1>3, <1>4, <1>5, <1>6, <1>7, <1>8, <1>9, <1>10,
       <1>11, <1>12, <1>13, <1>14, <1>15, <1>16, <1>17, <1>18, <1>19
       DEF Next, Step, Done

(* Every step keeps the lock.                                              *)
LEMMA LockStep ==
    ASSUME TypeOK, LockInv, [Next]_vars
    PROVE  LockInv'
<1>a. /\ pc \in [Procs -> Labels]
      /\ Nobody \notin Procs
    BY PipeAssumption DEF TypeOK
<1> USE <1>a DEF LockInv, pipeVars, obsVars, Labels
<1>1. ASSUME NEW p \in Procs, WriteAcquire(p) PROVE LockInv'
    BY Zenon, <1>1 DEF WriteAcquire, Acquire
<1>2. ASSUME NEW p \in Procs, WriteFail(p) PROVE LockInv'
    BY Zenon, <1>2 DEF WriteFail, Return
<1>3. ASSUME NEW p \in Procs, WriteSleep(p) PROVE LockInv'
    BY Zenon, <1>3 DEF WriteSleep, WakeReaders
<1>4. ASSUME NEW p \in Procs, WriteDone(p) PROVE LockInv'
    BY Zenon, <1>4 DEF WriteDone, Return, WriteWakes, WakeReaders
<1>5. ASSUME NEW p \in Procs, NEW b \in Byte, WriteByte(p, b) PROVE LockInv'
    BY Zenon, <1>5 DEF WriteByte
<1>6. ASSUME NEW p \in Procs, ReadAcquire(p) PROVE LockInv'
    BY Zenon, <1>6 DEF ReadAcquire, Acquire
<1>7. ASSUME NEW p \in Procs, ReadFail(p) PROVE LockInv'
    BY Zenon, <1>7 DEF ReadFail, Return
<1>8. ASSUME NEW p \in Procs, ReadSleep(p) PROVE LockInv'
    BY Zenon, <1>8 DEF ReadSleep
<1>9. ASSUME NEW p \in Procs, ReadReady(p) PROVE LockInv'
    BY Zenon, <1>9 DEF ReadReady
<1>10. ASSUME NEW p \in Procs, ReadByte(p) PROVE LockInv'
    BY Zenon, <1>10 DEF ReadByte
<1>11. ASSUME NEW p \in Procs, ReadDone(p) PROVE LockInv'
    BY Zenon, <1>11 DEF ReadDone, Return, WakeWriters
<1>12. ASSUME NEW p \in Procs, PipeCloseWrite(p) PROVE LockInv'
    BY Zenon, <1>12 DEF PipeCloseWrite, CloseWakes, WakeReaders, FreesPipe
<1>13. ASSUME NEW p \in Procs, PipeCloseRead(p) PROVE LockInv'
    BY Zenon, <1>13 DEF PipeCloseRead, CloseFreesWriters, WakeWriters,
       FreesPipe
<1>14. ASSUME NEW p \in Procs, NEW k \in 0..MaxN, WriteCall(p, k)
       PROVE LockInv'
    BY Zenon, <1>14 DEF WriteCall, Call
<1>15. ASSUME NEW p \in Procs, NEW k \in 0..MaxN, ReadCall(p, k) PROVE LockInv'
    BY Zenon, <1>15 DEF ReadCall, Call
<1>16. ASSUME NEW p \in Procs, CloseWriteEnd(p) PROVE LockInv'
    BY Zenon, <1>16 DEF CloseWriteEnd
<1>17. ASSUME NEW p \in Procs, CloseReadEnd(p) PROVE LockInv'
    BY Zenon, <1>17 DEF CloseReadEnd
<1>18. ASSUME NEW p \in Procs, Kill(p) PROVE LockInv'
    BY Zenon, <1>18 DEF Kill, KillWakes
<1>19. CASE UNCHANGED vars
    BY Zenon, <1>19 DEF vars
<1> QED
    BY <1>1, <1>2, <1>3, <1>4, <1>5, <1>6, <1>7, <1>8, <1>9, <1>10, <1>11,
       <1>12, <1>13, <1>14, <1>15, <1>16, <1>17, <1>18, <1>19
       DEF Next, Step, Done

(* Every step keeps the ends.                                              *)
LEMMA EndStep ==
    ASSUME TypeOK, EndInv, [Next]_vars
    PROVE  EndInv'
<1>a. /\ pc \in [Procs -> Labels]
      /\ Nobody \notin Procs
    BY Zenon, PipeAssumption DEF TypeOK
<1> USE <1>a DEF EndInv, Reading, Writing, pipeVars, obsVars, Labels
<1>1. ASSUME NEW p \in Procs, WriteAcquire(p) PROVE EndInv'
    BY <1>1 DEF WriteAcquire, Acquire
<1>2. ASSUME NEW p \in Procs, WriteFail(p) PROVE EndInv'
    BY <1>2 DEF WriteFail, Return
<1>3. ASSUME NEW p \in Procs, WriteSleep(p) PROVE EndInv'
    BY <1>3 DEF WriteSleep, WakeReaders
<1>4. ASSUME NEW p \in Procs, WriteDone(p) PROVE EndInv'
    BY <1>4 DEF WriteDone, Return, WriteWakes, WakeReaders
<1>5. ASSUME NEW p \in Procs, NEW b \in Byte, WriteByte(p, b) PROVE EndInv'
    BY Zenon, <1>5 DEF WriteByte
<1>6. ASSUME NEW p \in Procs, ReadAcquire(p) PROVE EndInv'
    BY <1>6 DEF ReadAcquire, Acquire
<1>7. ASSUME NEW p \in Procs, ReadFail(p) PROVE EndInv'
    BY <1>7 DEF ReadFail, Return
<1>8. ASSUME NEW p \in Procs, ReadSleep(p) PROVE EndInv'
    BY <1>8 DEF ReadSleep
<1>9. ASSUME NEW p \in Procs, ReadReady(p) PROVE EndInv'
    BY <1>9 DEF ReadReady
<1>10. ASSUME NEW p \in Procs, ReadByte(p) PROVE EndInv'
    BY Zenon, <1>10 DEF ReadByte
<1>11. ASSUME NEW p \in Procs, ReadDone(p) PROVE EndInv'
    BY <1>11 DEF ReadDone, Return, WakeWriters
<1>12. ASSUME NEW p \in Procs, PipeCloseWrite(p) PROVE EndInv'
    BY <1>12 DEF PipeCloseWrite, CloseWakes, WakeReaders, FreesPipe
<1>13. ASSUME NEW p \in Procs, PipeCloseRead(p) PROVE EndInv'
    BY <1>13 DEF PipeCloseRead, CloseFreesWriters, WakeWriters, FreesPipe
<1>14. ASSUME NEW p \in Procs, NEW k \in 0..MaxN, WriteCall(p, k) PROVE EndInv'
    BY <1>14 DEF WriteCall, Call
<1>15. ASSUME NEW p \in Procs, NEW k \in 0..MaxN, ReadCall(p, k) PROVE EndInv'
    BY <1>15 DEF ReadCall, Call
<1>16. ASSUME NEW p \in Procs, CloseWriteEnd(p) PROVE EndInv'
    BY <1>16 DEF CloseWriteEnd
<1>17. ASSUME NEW p \in Procs, CloseReadEnd(p) PROVE EndInv'
    BY <1>17 DEF CloseReadEnd
<1>18. ASSUME NEW p \in Procs, Kill(p) PROVE EndInv'
    BY <1>18 DEF Kill, KillWakes
<1>19. CASE UNCHANGED vars
    BY Zenon, <1>19 DEF vars
<1> QED
    BY Zenon, <1>1, <1>2, <1>3, <1>4, <1>5, <1>6, <1>7, <1>8, <1>9, <1>10,
       <1>11, <1>12, <1>13, <1>14, <1>15, <1>16, <1>17, <1>18, <1>19
       DEF Next, Step, Done

(* Every step keeps the number of frees.                                   *)
LEMMA FreeStep ==
    ASSUME TypeOK, EndInv, FreeInv, [Next]_vars
    PROVE  FreeInv'
<1>a. /\ pc \in [Procs -> Labels]
      /\ Nobody \notin Procs
    BY Zenon, PipeAssumption DEF TypeOK
<1> USE <1>a DEF FreeInv, pipeVars
<1>1. ASSUME NEW p \in Procs, WriteAcquire(p) PROVE FreeInv'
    BY Zenon, <1>1 DEF WriteAcquire, Acquire
<1>2. ASSUME NEW p \in Procs, WriteFail(p) PROVE FreeInv'
    BY Zenon, <1>2 DEF WriteFail, Return
<1>3. ASSUME NEW p \in Procs, WriteSleep(p) PROVE FreeInv'
    BY Zenon, <1>3 DEF WriteSleep, WakeReaders
<1>4. ASSUME NEW p \in Procs, WriteDone(p) PROVE FreeInv'
    BY Zenon, <1>4 DEF WriteDone, Return, WriteWakes, WakeReaders
<1>5. ASSUME NEW p \in Procs, NEW b \in Byte, WriteByte(p, b) PROVE FreeInv'
    BY Zenon, <1>5 DEF WriteByte
<1>6. ASSUME NEW p \in Procs, ReadAcquire(p) PROVE FreeInv'
    BY Zenon, <1>6 DEF ReadAcquire, Acquire
<1>7. ASSUME NEW p \in Procs, ReadFail(p) PROVE FreeInv'
    BY Zenon, <1>7 DEF ReadFail, Return
<1>8. ASSUME NEW p \in Procs, ReadSleep(p) PROVE FreeInv'
    BY Zenon, <1>8 DEF ReadSleep
<1>9. ASSUME NEW p \in Procs, ReadReady(p) PROVE FreeInv'
    BY Zenon, <1>9 DEF ReadReady
<1>10. ASSUME NEW p \in Procs, ReadByte(p) PROVE FreeInv'
    BY Zenon, <1>10 DEF ReadByte
<1>11. ASSUME NEW p \in Procs, ReadDone(p) PROVE FreeInv'
    BY Zenon, <1>11 DEF ReadDone, Return, WakeWriters
<1>12. ASSUME NEW p \in Procs, PipeCloseWrite(p) PROVE FreeInv'
    <2>1. WriteOpen /\ frees = 0
        BY Zenon, <1>12 DEF PipeCloseWrite, EndInv
    <2>2. ~WriteOpen' /\ ReadOpen' = ReadOpen
        BY Zenon, <1>12 DEF PipeCloseWrite
    <2>3. frees' = IF ReadOpen THEN 0 ELSE 1
        BY <1>12, <2>1 DEF PipeCloseWrite, FreesPipe
    <2> QED
        BY Zenon, <2>2, <2>3
<1>13. ASSUME NEW p \in Procs, PipeCloseRead(p) PROVE FreeInv'
    <2>1. ReadOpen /\ frees = 0
        BY Zenon, <1>13 DEF PipeCloseRead, EndInv
    <2>2. ~ReadOpen' /\ WriteOpen' = WriteOpen
        BY Zenon, <1>13 DEF PipeCloseRead
    <2>3. frees' = IF WriteOpen THEN 0 ELSE 1
        BY <1>13, <2>1 DEF PipeCloseRead, FreesPipe
    <2> QED
        BY Zenon, <2>2, <2>3
<1>14. ASSUME NEW p \in Procs, NEW k \in 0..MaxN, WriteCall(p, k)
       PROVE FreeInv'
    BY Zenon, <1>14 DEF WriteCall, Call
<1>15. ASSUME NEW p \in Procs, NEW k \in 0..MaxN, ReadCall(p, k) PROVE FreeInv'
    BY Zenon, <1>15 DEF ReadCall, Call
<1>16. ASSUME NEW p \in Procs, CloseWriteEnd(p) PROVE FreeInv'
    BY Zenon, <1>16 DEF CloseWriteEnd
<1>17. ASSUME NEW p \in Procs, CloseReadEnd(p) PROVE FreeInv'
    BY Zenon, <1>17 DEF CloseReadEnd
<1>18. ASSUME NEW p \in Procs, Kill(p) PROVE FreeInv'
    BY Zenon, <1>18 DEF Kill, KillWakes
<1>19. CASE UNCHANGED vars
    BY <1>19 DEF vars
<1> QED
    BY Zenon, <1>1, <1>2, <1>3, <1>4, <1>5, <1>6, <1>7, <1>8, <1>9, <1>10,
       <1>11, <1>12, <1>13, <1>14, <1>15, <1>16, <1>17, <1>18, <1>19
       DEF Next, Step, Done

(* Every step keeps the reasons to sleep.                                  *)
LEMMA SleepStep ==
    ASSUME TypeOK, LockInv, EndInv, SleepInv, [Next]_vars
    PROVE  SleepInv'
<1>a. /\ pc \in [Procs -> Labels]
      /\ Nobody \notin Procs
    BY PipeAssumption DEF TypeOK
<1> USE <1>a DEF SleepInv, LockInv, Empty, Full, pipeVars, obsVars, Labels
<1>1. ASSUME NEW p \in Procs, WriteAcquire(p) PROVE SleepInv'
    BY <1>1 DEF WriteAcquire, Acquire
<1>2. ASSUME NEW p \in Procs, WriteFail(p) PROVE SleepInv'
    <2>1. CASE ReadOpen
        BY Zenon, <1>2, <2>1 DEF WriteFail, Return
    <2>2. CASE ~ReadOpen
        <3>1. \A q \in Procs : pc[q] # "rsleep" /\ pc[q] # "wsleep"
            BY <2>2 DEF EndInv, Reading
        <3> QED
            BY <1>2, <3>1 DEF WriteFail, Return
    <2> QED
        BY <2>1, <2>2
<1>3. ASSUME NEW p \in Procs, WriteSleep(p) PROVE SleepInv'
    BY <1>3 DEF WriteSleep, WakeReaders
<1>4. ASSUME NEW p \in Procs, WriteDone(p) PROVE SleepInv'
    BY <1>4 DEF WriteDone, Return, WriteWakes, WakeReaders
<1>5. ASSUME NEW p \in Procs, NEW b \in Byte, WriteByte(p, b) PROVE SleepInv'
    BY <1>5 DEF WriteByte
<1>6. ASSUME NEW p \in Procs, ReadAcquire(p) PROVE SleepInv'
    BY <1>6 DEF ReadAcquire, Acquire
<1>7. ASSUME NEW p \in Procs, ReadFail(p) PROVE SleepInv'
    BY <1>7 DEF ReadFail, Return
<1>8. ASSUME NEW p \in Procs, ReadSleep(p) PROVE SleepInv'
    BY <1>8 DEF ReadSleep
<1>9. ASSUME NEW p \in Procs, ReadReady(p) PROVE SleepInv'
    BY <1>9 DEF ReadReady
<1>10. ASSUME NEW p \in Procs, ReadByte(p) PROVE SleepInv'
    BY <1>10 DEF ReadByte
<1>11. ASSUME NEW p \in Procs, ReadDone(p) PROVE SleepInv'
    BY <1>11 DEF ReadDone, Return, WakeWriters
<1>12. ASSUME NEW p \in Procs, PipeCloseWrite(p) PROVE SleepInv'
    BY <1>12 DEF PipeCloseWrite, CloseWakes, WakeReaders, FreesPipe
<1>13. ASSUME NEW p \in Procs, PipeCloseRead(p) PROVE SleepInv'
    BY <1>13 DEF PipeCloseRead, CloseFreesWriters, WakeWriters, FreesPipe
<1>14. ASSUME NEW p \in Procs, NEW k \in 0..MaxN, WriteCall(p, k)
       PROVE SleepInv'
    BY <1>14 DEF WriteCall, Call
<1>15. ASSUME NEW p \in Procs, NEW k \in 0..MaxN, ReadCall(p, k)
       PROVE SleepInv'
    BY <1>15 DEF ReadCall, Call
<1>16. ASSUME NEW p \in Procs, CloseWriteEnd(p) PROVE SleepInv'
    BY <1>16 DEF CloseWriteEnd
<1>17. ASSUME NEW p \in Procs, CloseReadEnd(p) PROVE SleepInv'
    BY <1>17 DEF CloseReadEnd
<1>18. ASSUME NEW p \in Procs, Kill(p) PROVE SleepInv'
    BY <1>18 DEF Kill, KillWakes
<1>19. CASE UNCHANGED vars
    BY Zenon, <1>19 DEF vars
<1> QED
    BY <1>1, <1>2, <1>3, <1>4, <1>5, <1>6, <1>7, <1>8, <1>9, <1>10, <1>11,
       <1>12, <1>13, <1>14, <1>15, <1>16, <1>17, <1>18, <1>19
       DEF Next, Step, Done

(* Every step keeps the state of the copying.                              *)
LEMMA CopyStep ==
    ASSUME TypeOK, LockInv, CopyInv, [Next]_vars
    PROVE  CopyInv'
<1>a. /\ pc \in [Procs -> Labels]
      /\ Nobody \notin Procs
      /\ n \in [Procs -> 0..MaxN]
    BY PipeAssumption DEF TypeOK
<1> USE <1>a DEF CopyInv, LockInv, Empty, pipeVars, obsVars, Labels
<1>1. ASSUME NEW p \in Procs, WriteAcquire(p) PROVE CopyInv'
    BY <1>1 DEF WriteAcquire, Acquire
<1>2. ASSUME NEW p \in Procs, WriteFail(p) PROVE CopyInv'
    BY <1>2 DEF WriteFail, Return
<1>3. ASSUME NEW p \in Procs, WriteSleep(p) PROVE CopyInv'
    BY <1>3 DEF WriteSleep, WakeReaders
<1>4. ASSUME NEW p \in Procs, WriteDone(p) PROVE CopyInv'
    BY <1>4 DEF WriteDone, Return, WriteWakes, WakeReaders
<1>5. ASSUME NEW p \in Procs, NEW b \in Byte, WriteByte(p, b) PROVE CopyInv'
    BY <1>5 DEF WriteByte
<1>6. ASSUME NEW p \in Procs, ReadAcquire(p) PROVE CopyInv'
    BY <1>6 DEF ReadAcquire, Acquire
<1>7. ASSUME NEW p \in Procs, ReadFail(p) PROVE CopyInv'
    BY <1>7 DEF ReadFail, Return
<1>8. ASSUME NEW p \in Procs, ReadSleep(p) PROVE CopyInv'
    BY <1>8 DEF ReadSleep
<1>9. ASSUME NEW p \in Procs, ReadReady(p) PROVE CopyInv'
    BY <1>9 DEF ReadReady
<1>10. ASSUME NEW p \in Procs, ReadByte(p) PROVE CopyInv'
    BY <1>10 DEF ReadByte
<1>11. ASSUME NEW p \in Procs, ReadDone(p) PROVE CopyInv'
    BY <1>11 DEF ReadDone, Return, WakeWriters
<1>12. ASSUME NEW p \in Procs, PipeCloseWrite(p) PROVE CopyInv'
    BY <1>12 DEF PipeCloseWrite, CloseWakes, WakeReaders, FreesPipe
<1>13. ASSUME NEW p \in Procs, PipeCloseRead(p) PROVE CopyInv'
    BY <1>13 DEF PipeCloseRead, CloseFreesWriters, WakeWriters, FreesPipe
<1>14. ASSUME NEW p \in Procs, NEW k \in 0..MaxN, WriteCall(p, k)
       PROVE CopyInv'
    BY <1>14 DEF WriteCall, Call
<1>15. ASSUME NEW p \in Procs, NEW k \in 0..MaxN, ReadCall(p, k) PROVE CopyInv'
    BY <1>15 DEF ReadCall, Call
<1>16. ASSUME NEW p \in Procs, CloseWriteEnd(p) PROVE CopyInv'
    BY <1>16 DEF CloseWriteEnd
<1>17. ASSUME NEW p \in Procs, CloseReadEnd(p) PROVE CopyInv'
    BY <1>17 DEF CloseReadEnd
<1>18. ASSUME NEW p \in Procs, Kill(p) PROVE CopyInv'
    BY <1>18 DEF Kill, KillWakes
<1>19. CASE UNCHANGED vars
    BY Zenon, <1>19 DEF vars
<1> QED
    BY Zenon, <1>1, <1>2, <1>3, <1>4, <1>5, <1>6, <1>7, <1>8, <1>9, <1>10,
       <1>11, <1>12, <1>13, <1>14, <1>15, <1>16, <1>17, <1>18, <1>19
       DEF Next, Step, Done

(* The initial states satisfy the invariant.                               *)
LEMMA Initially == Init => IInv
<1> SUFFICES ASSUME Init PROVE IInv
    BY Zenon
<1>1. TypeOK
    <2>1. Count = 0
        BY PipeAssumption DEF Init, Count
    <2>2. /\ Data \in [0..(PIPESIZE - 1) -> Byte]
          /\ ReadCount \in 0..(Wrap - 1) /\ WriteCount \in 0..(Wrap - 1)
          /\ Count <= PIPESIZE
        BY <2>1, PipeAssumption DEF Init
    <2>3. n \in [Procs -> 0..MaxN] /\ pc \in [Procs -> Labels]
        BY PipeAssumption DEF Init, Labels
    <2> QED
        BY Zenon, <2>2, <2>3, PipeAssumption DEF Init, TypeOK
<1>2. LockInv /\ EndInv /\ FreeInv /\ SleepInv /\ CopyInv
    BY Zenon, PipeAssumption
       DEF Init, LockInv, EndInv, FreeInv, SleepInv, CopyInv, Reading, Writing
<1> QED
    BY Zenon, <1>1, <1>2 DEF IInv

(* Every step keeps the invariant.                                         *)
LEMMA Inductive == IInv /\ [Next]_vars => IInv'
BY Zenon, TypeStep, LockStep, EndStep, FreeStep, SleepStep, CopyStep DEF IInv

(* The inductive invariant of the pipe holds in every reachable state.     *)
THEOREM Invariance == Spec => []IInv
BY Initially, Inductive, PTL DEF Spec

(* Every value stays in its range; above all, the pipe never holds more    *)
(* than PIPESIZE bytes, however often the counters have wrapped.           *)
THEOREM TypeCorrect == Spec => []TypeOK
<1>1. IInv => TypeOK
    BY Zenon DEF IInv
<1> QED
    BY <1>1, Invariance, PTL

(* No reader or writer of the pipe sleeps through the event it waits for,  *)
(* unless a killed write() left the pipe full without a wakeup().          *)
THEOREM SleepersBlocked == Spec => []PipeSleepersBlocked
<1>1. ASSUME IInv, lock = Nobody, NEW p \in Procs
      PROVE  /\ pc[p] = "rsleep" => (Empty /\ WriteOpen) \/ abandoned
             /\ pc[p] = "wsleep" => Full /\ ReadOpen
    <2>1. \A q \in Procs : pc[q] # "wloop" /\ pc[q] # "rcopy"
        BY Zenon, <1>1, PipeAssumption DEF IInv, LockInv
    <2> QED
        BY Zenon, <1>1, <2>1 DEF IInv, SleepInv
<1>2. IInv => PipeSleepersBlocked
    BY Zenon, <1>1 DEF PipeSleepersBlocked
<1> QED
    BY <1>2, Invariance, PTL

(* pipeclose frees the pipe once, and when nobody can use it any more.     *)
THEOREM FreedOnce == Spec => []FreedOnceUnused
<1>1. ASSUME IInv PROVE FreedOnceUnused
    <2>1. frees <= 1 /\ (frees = 1 => ~ReadOpen /\ ~WriteOpen)
        BY <1>1 DEF IInv, FreeInv
    <2>2. ASSUME ~ReadOpen, ~WriteOpen, NEW p \in Procs PROVE pc[p] = "idle"
        <3>1. pc[p] \in Labels
            BY Zenon, <1>1 DEF IInv, TypeOK
        <3>2. rd = {} /\ wr = {} /\ pc[p] # "closeR" /\ pc[p] # "closeW"
            BY Zenon, <1>1, <2>2 DEF IInv, EndInv
        <3>3. pc[p] \notin Reading /\ pc[p] \notin Writing
            BY Zenon, <1>1, <3>2 DEF IInv, EndInv
        <3> QED
            BY Zenon, <3>1, <3>2, <3>3 DEF Labels, Reading, Writing
    <2>3. ~ReadOpen /\ ~WriteOpen => rd = {} /\ wr = {}
        BY Zenon, <1>1 DEF IInv, EndInv
    <2> QED
        BY Zenon, <2>1, <2>2, <2>3 DEF FreedOnceUnused
<1> QED
    BY <1>1, Invariance, PTL

-----------------------------------------------------------------------------
(* The ring buffer implements Channel.                                     *)

(* The ring as a sequence, its places computed without the wrapping.       *)
RingInv ==
    /\ Ring \in Seq(Byte)
    /\ Len(Ring) = Count
    /\ \A i \in 1..Count : Ring[i] = Data[(ReadCount + i - 1) % PIPESIZE]

(* The wrapping of ReadCount does not show in the ring.                    *)
LEMMA RingIs == TypeOK => RingInv
<1> SUFFICES ASSUME TypeOK PROVE RingInv
    BY Zenon
<1>1. PICK t \in Int, s \in Nat \ {0} :
          t = Wrap /\ s = PIPESIZE /\ 0 < t /\ s < t /\ t % s = 0
    BY PipeAssumption
<1>2. PICK r \in 0..(t - 1), c \in 0..s : r = ReadCount /\ c = Count
    BY Zenon, <1>1, PipeCounters DEF TypeOK
<1>3. ASSUME NEW i \in 1..c
      PROVE  /\ ((r + i - 1) % t) % s = (r + i - 1) % s
             /\ (r + i - 1) % s \in 0..(s - 1)
    <2>1. PICK x \in Int : x = r + i - 1 /\ 0 <= x /\ x < 2 * t
        BY <1>1, <1>3
    <2>2. 0 < t /\ t % s = 0 /\ 0 <= x /\ x < 2 * t
        BY Zenon, <1>1, <2>1
    <2>3. (x % t) % s = x % s
        BY Zenon, <2>2, IndexWraps
    <2> QED
        BY <2>1, <2>3
<1>4. \A i \in 1..c : /\ Data[((r + i - 1) % t) % s] = Data[(r + i - 1) % s]
                      /\ Data[(r + i - 1) % s] \in Byte
    BY Zenon, <1>1, <1>3 DEF TypeOK
<1>5. Ring = [i \in 1..c |-> Data[((r + i - 1) % t) % s]]
    BY Zenon, <1>1, <1>2 DEF Ring
<1>6. Ring \in [1..c -> Byte] /\ \A i \in 1..c : Ring[i] = Data[(r + i - 1) % s]
    BY Zenon, <1>4, <1>5
<1>7. Ring \in Seq(Byte) /\ Len(Ring) = c
    BY <1>6
<1> QED
    BY Zenon, <1>1, <1>2, <1>6, <1>7 DEF RingInv

(* A byte written goes to the end of the ring and overwrites no other.     *)
LEMMA PutRing ==
    ASSUME TypeOK, RingInv, RingInv', NEW b \in Byte, ~Full,
           Data' = [Data EXCEPT ![WriteCount % PIPESIZE] = b],
           WriteCount' = (WriteCount + 1) % Wrap, ReadCount' = ReadCount
    PROVE  Len(Ring) < PIPESIZE /\ Ring' = Append(Ring, b)
<1>1. PICK t \in Int, s \in Nat \ {0} :
          t = Wrap /\ s = PIPESIZE /\ 0 < t /\ s < t /\ t % s = 0
    BY PipeAssumption
<1>2. PICK r \in 0..(t - 1), w \in 0..(t - 1), c \in 0..(s - 1) :
          /\ r = ReadCount /\ w = WriteCount /\ c = Count
          /\ Count' = c + 1
          /\ w = (r + c) % t
    BY <1>1, PipeCounters DEF TypeOK, Count
<1>3. w % s = (r + c) % s
    <2>1. PICK x \in Int : x = r + c /\ 0 <= x /\ x < 2 * t
        BY <1>1
    <2>2. 0 < t /\ t % s = 0
        BY Zenon, <1>1
    <2>3. (x % t) % s = x % s
        BY Zenon, <2>1, <2>2, IndexWraps
    <2> QED
        BY Zenon, <1>2, <2>1, <2>3
<1>4. ASSUME NEW i \in 1..c PROVE (r + i - 1) % s # (r + c) % s
    <2>1. PICK x \in Int, y \in Int :
              x = r + i - 1 /\ y = r + c /\ x < y /\ y < x + s
        BY <1>4
    <2>2. x % s # y % s
        BY Zenon, <2>1, PlacesDiffer
    <2> QED
        BY <2>1, <2>2
<1>5. \A x \in Int : x % s \in 0..(s - 1)
    OBVIOUS
<1>6. /\ Len(Ring) = c /\ Len(Ring') = c + 1
      /\ Ring \in Seq(Byte) /\ Ring' \in Seq(Byte)
    BY Zenon, <1>2 DEF RingInv
<1>7. ASSUME NEW i \in 1..c PROVE Ring'[i] = Ring[i]
    <2>1. i \in 1..(c + 1) /\ r + i - 1 \in Int
        OBVIOUS
    <2>2. Ring'[i] = Data'[(r + i - 1) % s]
        BY Zenon, <1>1, <1>2, <2>1 DEF RingInv
    <2>3. Ring[i] = Data[(r + i - 1) % s]
        BY <1>1, <1>2 DEF RingInv
    <2>4. (r + i - 1) % s # w % s
        BY Zenon, <1>3, <1>4
    <2>5. (r + i - 1) % s \in 0..(s - 1)
        BY <1>5, <2>1
    <2> QED
        BY Zenon, <1>1, <1>2, <2>2, <2>3, <2>4, <2>5 DEF TypeOK
<1>8. Ring'[c + 1] = b
    <2>1. Ring'[c + 1] = Data'[(r + (c + 1) - 1) % s]
        BY <1>1, <1>2 DEF RingInv
    <2>2. r + (c + 1) - 1 = r + c /\ (r + c) % s \in 0..(s - 1)
        BY <1>5
    <2> QED
        BY Zenon, <1>1, <1>2, <1>3, <2>1, <2>2 DEF TypeOK
<1>9. Ring' = Append(Ring, b)
    BY <1>6, <1>7, <1>8, SeqEqual
<1> QED
    BY <1>1, <1>6, <1>9

(* The byte read is the oldest, and the others move up.                    *)
LEMMA GetRing ==
    ASSUME TypeOK, RingInv, RingInv', ~Empty, Data' = Data,
           ReadCount' = (ReadCount + 1) % Wrap, WriteCount' = WriteCount
    PROVE  Ring # <<>> /\ Data[ReadIndex] = Head(Ring) /\ Ring' = Tail(Ring)
<1>1. PICK t \in Int, s \in Nat \ {0} :
          t = Wrap /\ s = PIPESIZE /\ 0 < t /\ s < t /\ t % s = 0
    BY PipeAssumption
<1>2. PICK r \in 0..(t - 1), v \in 0..(t - 1), c \in 1..s :
          /\ r = ReadCount /\ v = ReadCount' /\ c = Count
          /\ Count' = c - 1
          /\ v = (r + 1) % t
    BY <1>1, PipeCounters DEF TypeOK, Count
<1>3. ASSUME NEW i \in 1..(c - 1)
      PROVE  (v + i - 1) % s = (r + (i + 1) - 1) % s
    <2>1. CASE r + 1 < t
        <3>1. v = r + 1
            BY <1>1, <1>2, <2>1
        <3>2. v + i - 1 = r + (i + 1) - 1
            BY <3>1
        <3> QED
            BY Zenon, <3>2
    <2>2. CASE r + 1 = t
        <3>1. v = 0
            BY <1>1, <1>2, <2>2
        <3>2. PICK x \in Int : /\ x = r + (i + 1) - 1
                               /\ 0 <= x /\ x < 2 * t /\ t <= x /\ x - t = v + i - 1
            BY <1>1, <2>2, <3>1
        <3>3. 0 < t /\ t % s = 0
            BY Zenon, <1>1
        <3>4. (x % t) % s = x % s
            BY Zenon, <3>2, <3>3, IndexWraps
        <3>5. x % t = x - t
            BY <3>2, <3>3
        <3> QED
            BY Zenon, <3>2, <3>4, <3>5
    <2> QED
        BY <2>1, <2>2
<1>4. /\ Len(Ring) = c /\ Len(Ring') = c - 1
      /\ Ring \in Seq(Byte) /\ Ring' \in Seq(Byte) /\ Ring # <<>>
    BY <1>2 DEF RingInv
<1>5. ASSUME NEW i \in 1..(c - 1) PROVE Ring'[i] = Ring[i + 1]
    <2>1. Ring'[i] = Data'[(v + i - 1) % s]
        BY <1>1, <1>2 DEF RingInv
    <2>2. Ring[i + 1] = Data[(r + (i + 1) - 1) % s]
        BY <1>1, <1>2 DEF RingInv
    <2> QED
        BY Zenon, <1>3, <2>1, <2>2
<1>6. Ring' = Tail(Ring)
    BY <1>4, <1>5, HeadTailProperties, SeqEqual
<1>7. Head(Ring) = Data[ReadIndex]
    <2>1. Ring[1] = Data[(r + 1 - 1) % s]
        BY <1>1, <1>2 DEF RingInv
    <2>2. r + 1 - 1 = r
        OBVIOUS
    <2> QED
        BY <1>1, <1>2, <1>4, <2>1, <2>2 DEF ReadIndex
<1> QED
    BY <1>4, <1>6, <1>7

(* Every step of the pipe is a step of the channel, or leaves it alone.    *)
LEMMA StepRefines ==
    ASSUME IInv, RingInv, RingInv', [Next]_vars
    PROVE  [C!ChNext]_(C!chVars)
<1>f. ASSUME UNCHANGED <<Data, ReadCount, WriteCount>>
      PROVE  Ring' = Ring
    BY Zenon, <1>f DEF Ring, Count
<1>g. ASSUME UNCHANGED <<Data, ReadCount, WriteCount>>,
             UNCHANGED <<ReadOpen, WriteOpen, last, eof>>
      PROVE  UNCHANGED C!chVars
    BY Zenon, <1>f, <1>g DEF C!chVars
<1>h. \A p \in Procs : /\ pc[p] \in Reading => ReadOpen
                       /\ pc[p] \in Writing => WriteOpen
                       /\ pc[p] = "closeR" => ReadOpen
                       /\ pc[p] = "closeW" => WriteOpen
    BY Zenon DEF IInv, EndInv
<1>1. ASSUME NEW p \in Procs, NEW b \in Byte, WriteByte(p, b) PROVE C!ChNext
    <2>1. Len(Ring) < PIPESIZE /\ Ring' = Append(Ring, b)
        BY Zenon, <1>1, PutRing DEF WriteByte, IInv
    <2>2. WriteOpen
        BY Zenon, <1>1, <1>h DEF WriteByte, Writing
    <2> QED
        BY <1>1, <2>1, <2>2 DEF WriteByte, obsVars, C!ChNext, C!Put
<1>2. ASSUME NEW p \in Procs, ReadByte(p) PROVE C!ChNext
    <2>1. Ring # <<>> /\ Data[ReadIndex] = Head(Ring) /\ Ring' = Tail(Ring)
        BY Zenon, <1>2, GetRing DEF ReadByte, IInv
    <2>2. ReadOpen
        BY Zenon, <1>2, <1>h DEF ReadByte, Reading
    <2> QED
        BY <1>2, <2>1, <2>2 DEF ReadByte, C!ChNext, C!Get
<1>3. ASSUME NEW p \in Procs, ReadDone(p) PROVE C!ChNext \/ UNCHANGED C!chVars
    <2>1. CASE p \in copied \/ ~(n[p] > 0)
        <3>1. eof' = eof
            BY <1>3, <2>1 DEF ReadDone, IInv, TypeOK
        <3> QED
            BY <1>3, <1>g, <3>1 DEF ReadDone, pipeVars
    <2>2. CASE p \notin copied /\ n[p] > 0
        <3>1. Empty /\ ~WriteOpen
            BY <1>3, <2>2 DEF ReadDone, IInv, CopyInv
        <3>2. Ring = <<>>
            BY <3>1, PipeCounters DEF RingInv, IInv
        <3>3. ReadOpen /\ eof' = TRUE
            BY Zenon, <1>3, <1>h, <2>2 DEF ReadDone, Reading
        <3> QED
            BY <1>3, <1>f, <3>1, <3>2, <3>3
               DEF ReadDone, pipeVars, C!ChNext, C!EndOfFile
    <2> QED
        BY Zenon, <2>1, <2>2
<1>4. ASSUME NEW p \in Procs, PipeCloseWrite(p) PROVE C!ChNext
    BY <1>4, <1>f, <1>h
       DEF PipeCloseWrite, obsVars, C!ChNext, C!CloseWrite
<1>5. ASSUME NEW p \in Procs, PipeCloseRead(p) PROVE C!ChNext
    BY <1>5, <1>f, <1>h DEF PipeCloseRead, obsVars, C!ChNext, C!CloseRead
<1> USE <1>g DEF pipeVars, obsVars
<1>6. ASSUME NEW p \in Procs,
             WriteAcquire(p) \/ WriteFail(p) \/ WriteSleep(p) \/ WriteDone(p)
      PROVE  UNCHANGED C!chVars
    BY Zenon, <1>6 DEF WriteAcquire, Acquire, WriteFail, WriteSleep, WriteDone
<1>7. ASSUME NEW p \in Procs,
             ReadAcquire(p) \/ ReadFail(p) \/ ReadSleep(p) \/ ReadReady(p)
      PROVE  UNCHANGED C!chVars
    BY Zenon, <1>7 DEF ReadAcquire, Acquire, ReadFail, ReadSleep, ReadReady
<1>8. ASSUME NEW p \in Procs, NEW k \in 0..MaxN, WriteCall(p, k) \/ ReadCall(p, k)
      PROVE  UNCHANGED C!chVars
    BY Zenon, <1>8 DEF WriteCall, ReadCall, Call
<1>9. ASSUME NEW p \in Procs, CloseWriteEnd(p) \/ CloseReadEnd(p) \/ Kill(p)
      PROVE  UNCHANGED C!chVars
    BY Zenon, <1>9 DEF CloseWriteEnd, CloseReadEnd, Kill
<1>10. CASE UNCHANGED vars
    BY Zenon, <1>10 DEF vars
<1> QED
    BY Zenon, <1>1, <1>2, <1>3, <1>4, <1>5, <1>6, <1>7, <1>8, <1>9, <1>10
       DEF Next, Step, Done

(* A pipe delivers the bytes written to it, each once and in order, and    *)
(* reports end of file only when the write end is closed and nothing is    *)
(* left, also after WriteCount and ReadCount have wrapped.                 *)
THEOREM Refinement == Spec => ImplementsChannel
<1>1. Init => C!ChInit
    <2> SUFFICES ASSUME Init PROVE C!ChInit
        BY Zenon
    <2>1. Count = 0
        BY PipeAssumption DEF Init, Count
    <2>2. RingInv
        BY Zenon, Initially, RingIs DEF IInv
    <2>3. Ring = <<>>
        BY <2>1, <2>2 DEF RingInv
    <2> QED
        BY Zenon, <2>3 DEF Init, C!ChInit
<1>2. IInv /\ RingInv /\ RingInv' /\ [Next]_vars => [C!ChNext]_(C!chVars)
    BY Zenon, StepRefines
<1>3. IInv => RingInv
    BY Zenon, RingIs DEF IInv
<1> QED
    BY <1>1, <1>2, <1>3, Invariance, PTL DEF Spec, ImplementsChannel, C!ChSpec
=============================================================================
