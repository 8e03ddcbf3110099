---------------------------- MODULE FilesInvariant ---------------------------
(***************************************************************************)
(* The inductive invariant of Files, for any number of processes, Files,   *)
(* descriptors and pipes, and the proof that every step keeps its types    *)
(* and what it says of the Files that calls hold.  FilesSteps and          *)
(* FilesProofs have the other parts.  The steps are those of Step: the     *)
(* invariant holds up to the first exec() that fails after its fileClose(),*)
(* which is what late records.                                             *)
(***************************************************************************)
EXTENDS Files, TLAPS

(* The provers a leaf is tried with, and the time each may take.           *)
USE SMTT(30), Z3T(30), ZenonT(30)

(* The labels at which a call holds Files of its own.                      *)
Holding == {"pipe", "page", "close", "exec"}
Forking == {"copy", "fork"}

(* How many Files a call holds; sys_dup has installed its File twice.      *)
CallInv ==
    \A p \in Procs :
        /\ pc[p] \in {"pipe", "exec", "dup"} => Len(held[p]) = 1
        /\ pc[p] = "page" => Len(held[p]) = 2
        /\ pc[p] = "close" => Len(held[p]) \in {1, 2}
        /\ pc[p] = "dup" => \E d, e \in Fds : /\ d # e
                                              /\ OpenFile[p][d] = held[p][1]
                                              /\ OpenFile[p][e] = held[p][1]

(* A File that a call holds has one reference: no descriptor and no other  *)
(* call names it.                                                          *)
HeldInv ==
    \A p \in Procs : \A i \in 1..Len(held[p]) : pc[p] \in Holding =>
        /\ ref[held[p][i]] = 1
        /\ \A q \in Procs, d \in Fds : OpenFile[q][d] # held[p][i]
        /\ \A q \in Procs : \A j \in 1..Len(held[q]) :
               pc[q] \in Holding /\ held[q][j] = held[p][i] => q = p /\ j = i
        /\ pc[p] \in {"pipe", "page"} => file[held[p][i]] = NoFile
        /\ pc[p] = "exec" => file[held[p][i]].type = "FILE"

(* A fork() builds a child of its own; what it has still to copy is open,  *)
(* and replaces nothing but a console.                                     *)
ForkInv ==
    \A p \in Procs : pc[p] \in Forking =>
        /\ np[p] \in Procs
        /\ pc[np[p]] = "embryo"
        /\ \A q \in Procs : pc[q] \in Forking /\ np[q] = np[p] => q = p
        /\ pc[p] = "fork" => \A d \in left[p] :
               /\ OpenFile[p][d] # Null
               /\ OpenFile[np[p]][d] # Null =>
                      file[OpenFile[np[p]][d]].type = "DEVICE"

(* An entry that is unused or just allocated has at most its console, and  *)
(* shares it with nobody.                                                  *)
Fresh(q) == pc[q] = "unused" \/ \E p \in Procs : pc[p] = "copy" /\ np[p] = q

FreshInv ==
    \A q \in Procs, d \in Fds : Fresh(q) /\ OpenFile[q][d] # Null =>
        /\ d \in StdFds
        /\ file[OpenFile[q][d]].type = "DEVICE"
        /\ \A r \in Procs, e \in Fds : OpenFile[r][e] = OpenFile[q][d] => r = q

(* A File without references is closed; an open descriptor names a File    *)
(* with references that is not.                                            *)
OpenInv ==
    /\ \A f \in FileIds : ref[f] = 0 => file[f] = NoFile
    /\ \A p \in Procs, d \in Fds : OpenFile[p][d] # Null =>
           /\ ref[OpenFile[p][d]] > 0
           /\ file[OpenFile[p][d]].type # "NONE"

(* An end of a pipe is open as long as the one File, or the one fileClose()*)
(* on its way to pipeclose(), that stands for it.                          *)
PageInv == \A k \in Pipes : k \in pages <=> ends[k] # {}
EndFiles ==
    \A f \in FileIds : file[f].type = "PIPE" =>
        \E k \in Pipes, e \in {"r", "w"} : file[f] = PipeEnd(k, e)
EndOf(k, e) ==
    /\ e \in ends[k] <=> \/ \E f \in FileIds : file[f] = PipeEnd(k, e)
                         \/ \E p \in Procs : closing[p] = PipeEnd(k, e)
    /\ \A f, g \in FileIds :
           file[f] = PipeEnd(k, e) /\ file[g] = PipeEnd(k, e) => f = g
    /\ \A p, q \in Procs :
           closing[p] = PipeEnd(k, e) /\ closing[q] = PipeEnd(k, e) => p = q
    /\ \A f \in FileIds, p \in Procs :
           ~(file[f] = PipeEnd(k, e) /\ closing[p] = PipeEnd(k, e))

EndInv ==
    /\ PageInv /\ EndFiles
    /\ \A k \in Pipes, e \in {"r", "w"} : EndOf(k, e)

(* RefCount in a form that changes by one with every step: a File is held  *)
(* by at most one call.                                                    *)
Holds(p, f) == /\ pc[p] \in Holding
               /\ \E i \in 1..Len(held[p]) : held[p][i] = f
IsHeld(f) == \E p \in Procs : Holds(p, f)
Owed(f) == Cardinality(Named(f)) + (IF IsHeld(f) THEN 1 ELSE 0)
               - Cardinality(Uncounted(f))
CountOf(f) == /\ ref[f] >= Owed(f)
              /\ file[f].type # "DEVICE" => ref[f] = Owed(f)

CountInv == \A f \in FileIds : CountOf(f)

(* No panic but the one allocateProcess() may run into.                    *)
PanicInv ==
    /\ panicked \notin {"fileClose", "fileRead"}
    /\ panicked = "fileDup" => NoFreeFile

IInv ==
    /\ SysTypes /\ CallInv /\ HeldInv /\ ForkInv /\ FreshInv /\ CountInv
    /\ OpenInv /\ EndInv /\ PanicInv

(* What the counting uses of finite sets.  FilesProofs derives it from the *)
(* library, after the lemmas that assume it.                               *)
CardEmpty == IsFiniteSet({}) /\ Cardinality({}) = 0
CardSingleton == \A x : IsFiniteSet({x}) /\ Cardinality({x}) = 1
CardType == \A S : IsFiniteSet(S) => Cardinality(S) \in Nat
CardAdd ==
    \A S, x : IsFiniteSet(S) =>
        /\ IsFiniteSet(S \cup {x})
        /\ Cardinality(S \cup {x}) =
               IF x \in S THEN Cardinality(S) ELSE Cardinality(S) + 1
CardRemove ==
    \A S, x : IsFiniteSet(S) =>
        /\ IsFiniteSet(S \ {x})
        /\ Cardinality(S \ {x}) =
               IF x \in S THEN Cardinality(S) - 1 ELSE Cardinality(S)
CardSubset ==
    \A S : \A T \in SUBSET S : IsFiniteSet(S) =>
        IsFiniteSet(T) /\ Cardinality(T) <= Cardinality(S)
CardInjection ==
    \A S, T : \A h \in [S -> T] :
        IsFiniteSet(T) /\ (\A x, y \in S : h[x] = h[y] => x = y) =>
            IsFiniteSet(S) /\ Cardinality(S) <= Cardinality(T)
CardProduct ==
    \A S, T : IsFiniteSet(S) /\ IsFiniteSet(T) =>
        /\ IsFiniteSet(S \X T)
        /\ Cardinality(S \X T) = Cardinality(S) * Cardinality(T)
CardTables ==
    /\ IsFiniteSet(Procs) /\ IsFiniteSet(Fds) /\ IsFiniteSet(StdFds)
    /\ IsFiniteSet(Procs \X Fds)
    /\ Cardinality(StdFds) \in Nat \ {0}

FiniteFacts ==
    /\ CardEmpty /\ CardSingleton /\ CardType /\ CardAdd /\ CardRemove
    /\ CardSubset /\ CardInjection /\ CardProduct /\ CardTables

(* What a step does to the descriptors it does not change: they name the   *)
(* same open File as before.                                               *)
Kept ==
    \A q \in Procs, e \in Fds :
        OpenFile[q][e] # Null /\ OpenFile'[q][e] = OpenFile[q][e] =>
            /\ file'[OpenFile[q][e]] = file[OpenFile[q][e]]
            /\ ref'[OpenFile[q][e]] > 0

-----------------------------------------------------------------------------

(* Processes, Files and pipes are numbered from 1, apart from Null.        *)
LEMMA Constants ==
    /\ Null \notin FileIds /\ Null \notin Procs /\ Null \notin Pipes
    /\ Fds \subseteq Int /\ StdFds \subseteq Fds
    /\ initproc \in Procs /\ 1 \in FileIds
    BY FilesAssumption DEF Procs, FileIds, Fds, Pipes, Null, initproc

(* The contents a File is given.                                           *)
LEMMA Records ==
    /\ NoFile \in FileRecords /\ NoFile.type = "NONE" /\ NoFile \notin PipeEnds
    /\ Console \in FileRecords /\ Console.type = "DEVICE"
    /\ \A m \in SUBSET {"r", "w"} :
           Disk(m) \in FileRecords /\ Disk(m).type = "FILE"
    /\ \A k \in Pipes, e \in {"r", "w"} :
           /\ PipeEnd(k, e) \in FileRecords \cap PipeEnds
           /\ PipeEnd(k, e).type = "PIPE"
           /\ PipeEnd(k, e).pipe = k /\ PipeEnd(k, e).mode = {e}
    /\ \A x \in PipeEnds : \E k \in Pipes, e \in {"r", "w"} : x = PipeEnd(k, e)
    /\ \A x \in FileRecords \cup PipeEnds : x.type = "PIPE" => x # NoFile
    BY DEF NoFile, Console, Disk, PipeEnd, FileRecords, PipeEnds

(* fileClose() of a File with references takes one; the last one resets    *)
(* the File and leaves a pipe's end to pipeclose().                        *)
LEMMA CloseFile ==
    ASSUME SysTypes, NEW p \in Procs, NEW f \in FileIds, ref[f] > 0,
           fileClose(p, f)
    PROVE  /\ ref' = [ref EXCEPT ![f] = @ - 1]
           /\ file' = [file EXCEPT ![f] = IF ref[f] = 1 THEN NoFile ELSE @]
           /\ closing' = [closing EXCEPT ![p] =
                             IF ref[f] = 1 /\ file[f].type = "PIPE"
                             THEN file[f] ELSE @]
           /\ panicked' = panicked
<1>1. ref \in [FileIds -> Nat]
    BY Zenon DEF SysTypes
<1>2. ref[f] - 1 = 0 <=> ref[f] = 1
    BY <1>1
<1> QED
    BY <1>1, <1>2 DEF fileClose, ClosesAt

(* fileDup() of a File with references adds one.                           *)
LEMMA DupFile ==
    ASSUME SysTypes, NEW f \in FileIds, ref[f] > 0, fileDup(f)
    PROVE  ref' = [ref EXCEPT ![f] = @ + 1] /\ panicked' = panicked
<1>1. ref \in [FileIds -> Nat]
    BY Zenon DEF SysTypes
<1> QED
    BY <1>1 DEF fileDup

(* The sequences of Files a call holds.                                    *)
LEMMA HeldLen ==
    ASSUME NEW s \in HeldFiles
    PROVE  /\ s \in Seq(FileIds)
           /\ Len(s) \in Nat /\ Len(s) \in {0, 1, 2}
           /\ \A i \in 1..Len(s) : s[i] \in FileIds
<1>1. s \in Seq(FileIds) /\ Len(s) <= 2
    BY Zenon DEF HeldFiles
<1>2. Len(s) \in Nat /\ \A i \in 1..Len(s) : s[i] \in FileIds
    BY <1>1
<1>3. \A n \in Nat : n <= 2 => n \in {0, 1, 2}
    OBVIOUS
<1> QED
    BY Zenon, <1>1, <1>2, <1>3

(* A call that holds nothing.                                              *)
LEMMA HeldNone == <<>> \in HeldFiles /\ Len(<<>>) = 0
    BY DEF HeldFiles

(* A call that holds one File.                                             *)
LEMMA HeldOne ==
    ASSUME NEW f \in FileIds
    PROVE  <<f>> \in HeldFiles /\ Len(<<f>>) = 1 /\ <<f>>[1] = f
    BY DEF HeldFiles

(* A call that holds Files closes the first of them first.                 *)
LEMMA HeldHead ==
    ASSUME NEW s \in HeldFiles, Len(s) \in {1, 2}
    PROVE  /\ Head(s) = s[1] /\ s[1] \in FileIds /\ 1 \in 1..Len(s)
           /\ Tail(s) \in HeldFiles /\ Len(Tail(s)) = Len(s) - 1
           /\ Len(s) = 2 => s[2] \in FileIds /\ Tail(s)[1] = s[2]
<1>1. s \in Seq(FileIds) /\ s # <<>>
    BY HeldLen
<1>2. Tail(s) \in Seq(FileIds) /\ Len(Tail(s)) = Len(s) - 1
    BY <1>1
<1>3. \A n \in {1, 2} : n - 1 <= 2
    OBVIOUS
<1>4. Tail(s) \in HeldFiles
    BY Zenon, <1>2, <1>3 DEF HeldFiles
<1>5. Head(s) = s[1] /\ s[1] \in FileIds /\ 1 \in 1..Len(s)
    BY <1>1
<1>6. Len(s) = 2 => s[2] \in FileIds /\ Tail(s)[1] = s[2]
    BY <1>1
<1> QED
    BY <1>2, <1>4, <1>5, <1>6

(* A call that holds one File takes another.                               *)
LEMMA HeldAppend ==
    ASSUME NEW s \in HeldFiles, NEW f \in FileIds, Len(s) = 1
    PROVE  /\ Append(s, f) \in HeldFiles /\ Len(Append(s, f)) = 2
           /\ Append(s, f)[1] = s[1] /\ Append(s, f)[2] = f
<1>1. s \in Seq(FileIds)
    BY HeldLen
<1>2. Append(s, f) \in Seq(FileIds) /\ Len(Append(s, f)) = 2
    BY <1>1
<1>3. Append(s, f)[1] = s[1] /\ Append(s, f)[2] = f
    BY <1>1
<1> QED
    BY <1>2, <1>3 DEF HeldFiles

(* What the calls close or count has references.                           *)
LEMMA InUse ==
    ASSUME IInv, NEW p \in Procs
    PROVE  /\ \A d \in Fds : OpenFile[p][d] # Null =>
                  OpenFile[p][d] \in FileIds /\ ref[OpenFile[p][d]] > 0
           /\ pc[p] \in Holding =>
                  /\ Head(held[p]) = held[p][1] /\ held[p][1] \in FileIds
                  /\ ref[held[p][1]] = 1 /\ ref[held[p][1]] > 0
                  /\ 1 \in 1..Len(held[p])
           /\ pc[p] = "dup" =>
                  /\ Head(held[p]) = held[p][1] /\ held[p][1] \in FileIds
                  /\ ref[held[p][1]] > 0
<1>1. held[p] \in HeldFiles /\ OpenFile[p] \in [Fds -> FileIds \cup {Null}]
    BY Zenon DEF IInv, SysTypes
<1>2. \A d \in Fds : OpenFile[p][d] # Null =>
          OpenFile[p][d] \in FileIds /\ ref[OpenFile[p][d]] > 0
    BY <1>1 DEF IInv, OpenInv
<1>3. pc[p] \in Holding \cup {"dup"} =>
          /\ Head(held[p]) = held[p][1] /\ held[p][1] \in FileIds
          /\ 1 \in 1..Len(held[p])
    <2>1. pc[p] \in Holding \cup {"dup"} => Len(held[p]) \in {1, 2}
        BY DEF IInv, CallInv, Holding
    <2> QED
        BY Zenon, <1>1, <2>1, HeldHead
<1>4. pc[p] \in Holding => ref[held[p][1]] = 1
    BY <1>3 DEF IInv, HeldInv
<1>5. pc[p] = "dup" => \E d \in Fds : OpenFile[p][d] = held[p][1]
    BY DEF IInv, CallInv
<1> QED
    BY <1>2, <1>3, <1>4, <1>5, Constants

(* A File that a descriptor names is not one that a call holds.            *)
LEMMA NamedNotHeld ==
    ASSUME HeldInv, NEW p \in Procs, NEW d \in Fds
    PROVE  \A q \in Procs : \A i \in 1..Len(held[q]) :
               pc[q] \in Holding => held[q][i] # OpenFile[p][d]
    BY DEF HeldInv

(* Nothing names or holds a File that allocateFileStructure() takes.       *)
LEMMA FreeFile ==
    ASSUME IInv, NEW f \in FileIds, FirstFreeFile(f)
    PROVE  /\ ref[f] = 0 /\ file[f] = NoFile
           /\ \A q \in Procs, d \in Fds : OpenFile[q][d] # f
           /\ \A q \in Procs : \A i \in 1..Len(held[q]) :
                  pc[q] \in Holding => held[q][i] # f
           /\ \A q \in Procs : pc[q] = "dup" => held[q][1] # f
<1>1. ref[f] = 0 /\ ~(ref[f] > 0) /\ ref[f] # 1
    BY DEF FirstFreeFile
<1>2. file[f] = NoFile
    BY <1>1 DEF IInv, OpenInv
<1>3. \A q \in Procs, d \in Fds : OpenFile[q][d] # f
    BY <1>1, InUse, Constants
<1>4. \A q \in Procs : \A i \in 1..Len(held[q]) :
          pc[q] \in Holding => held[q][i] # f
    BY <1>1 DEF IInv, HeldInv
<1>5. \A q \in Procs : pc[q] = "dup" => held[q][1] # f
    BY Zenon, <1>1, InUse
<1> QED
    BY Zenon, <1>1, <1>2, <1>3, <1>4, <1>5

(* What leaves alone the Files that the calls go on holding keeps HeldInv. *)
LEMMA HeldFrame ==
    ASSUME HeldInv,
           \A q \in Procs : pc'[q] \in Holding =>
               /\ held'[q] = held[q] /\ pc[q] \in Holding
               /\ pc'[q] = pc[q] \/ pc'[q] = "close",
           \A q \in Procs : \A i \in 1..Len(held[q]) : pc'[q] \in Holding =>
               /\ ref'[held[q][i]] = ref[held[q][i]]
               /\ file'[held[q][i]] = file[held[q][i]]
               /\ \A r \in Procs, d \in Fds : OpenFile'[r][d] # held[q][i]
    PROVE  HeldInv'
<1> SUFFICES ASSUME NEW q \in Procs, NEW i \in 1..Len(held'[q]),
                    pc'[q] \in Holding
             PROVE  /\ ref'[held'[q][i]] = 1
                    /\ \A r \in Procs, d \in Fds : OpenFile'[r][d] # held'[q][i]
                    /\ \A r \in Procs : \A j \in 1..Len(held'[r]) :
                           pc'[r] \in Holding /\ held'[r][j] = held'[q][i]
                               => r = q /\ j = i
                    /\ pc'[q] \in {"pipe", "page"} =>
                           file'[held'[q][i]] = NoFile
                    /\ pc'[q] = "exec" => file'[held'[q][i]].type = "FILE"
    BY Zenon DEF HeldInv, Holding
<1>1. /\ held'[q] = held[q] /\ pc[q] \in Holding /\ i \in 1..Len(held[q])
      /\ pc'[q] = pc[q] \/ pc'[q] = "close"
    BY Zenon
<1>2. /\ ref'[held[q][i]] = 1
      /\ \A r \in Procs, d \in Fds : OpenFile'[r][d] # held'[q][i]
    BY <1>1 DEF HeldInv
<1>3. ASSUME NEW r \in Procs, NEW j \in 1..Len(held'[r]),
             pc'[r] \in Holding, held'[r][j] = held'[q][i]
      PROVE  r = q /\ j = i
    <2>1. held'[r] = held[r] /\ pc[r] \in Holding /\ j \in 1..Len(held[r])
        BY Zenon, <1>3
    <2> QED
        BY <1>1, <1>3, <2>1 DEF HeldInv
<1>4. /\ pc'[q] \in {"pipe", "page"} => file'[held'[q][i]] = NoFile
      /\ pc'[q] = "exec" => file'[held'[q][i]].type = "FILE"
    BY <1>1 DEF HeldInv
<1> QED
    BY Zenon, <1>1, <1>2, <1>3, <1>4

(* The two Files of a pipe() before it installs them.                      *)
LEMMA PipeFiles ==
    ASSUME IInv, NEW p \in Procs, pc[p] = "page"
    PROVE  /\ pc[p] \in Holding /\ held[p] \in HeldFiles /\ Len(held[p]) = 2
           /\ 1 \in 1..Len(held[p]) /\ 2 \in 1..Len(held[p])
           /\ held[p][1] \in FileIds /\ held[p][2] \in FileIds
           /\ held[p][1] # held[p][2]
           /\ ref[held[p][1]] = 1 /\ ref[held[p][2]] = 1
           /\ file[held[p][1]] = NoFile /\ file[held[p][2]] = NoFile
           /\ \A q \in Procs, e \in Fds : /\ OpenFile[q][e] # held[p][1]
                                          /\ OpenFile[q][e] # held[p][2]
<1>1. pc[p] \in Holding /\ held[p] \in HeldFiles /\ Len(held[p]) = 2
    BY Zenon DEF IInv, SysTypes, CallInv, Holding
<1>2. 1 \in 1..Len(held[p]) /\ 2 \in 1..Len(held[p])
    BY <1>1
<1>3. held[p][1] \in FileIds /\ held[p][2] \in FileIds
    BY Zenon, <1>1, <1>2, HeldLen
<1>4. ASSUME NEW i \in 1..Len(held[p])
      PROVE  /\ ref[held[p][i]] = 1 /\ file[held[p][i]] = NoFile
             /\ \A q \in Procs, e \in Fds : OpenFile[q][e] # held[p][i]
             /\ \A j \in 1..Len(held[p]) : held[p][j] = held[p][i] => j = i
    BY <1>1 DEF IInv, HeldInv
<1>5. held[p][1] # held[p][2]
    <2>1. held[p][2] = held[p][1] => 2 = 1
        BY Zenon, <1>2, <1>4
    <2> QED
        BY <2>1
<1> QED
    BY <1>1, <1>2, <1>3, <1>4, <1>5

(* fileClose() keeps the types of what it changes.                         *)
CloseTypes ==
    /\ ref' \in [FileIds -> Nat]
    /\ file' \in [FileIds -> FileRecords]
    /\ closing' \in [Procs -> {NoFile} \cup PipeEnds]
    /\ panicked' = panicked

(* fileClose() of a File with references keeps the types.                  *)
LEMMA CloseTypesHold ==
    ASSUME IInv, NEW p \in Procs, NEW f \in FileIds, ref[f] > 0,
           fileClose(p, f)
    PROVE  CloseTypes
<1>1. SysTypes
    BY DEF IInv
<1>2. ref' = [ref EXCEPT ![f] = @ - 1] /\ panicked' = panicked
    BY <1>1, CloseFile
<1>3. ref' \in [FileIds -> Nat]
    <2>1. ref \in [FileIds -> Nat]
        BY Zenon, <1>1 DEF SysTypes
    <2>2. ref[f] - 1 \in Nat
        BY <2>1
    <2> QED
        BY <1>2, <2>1, <2>2
<1>4. file' = [file EXCEPT ![f] = IF ref[f] = 1 THEN NoFile ELSE @]
    BY <1>1, CloseFile
<1>5. file' \in [FileIds -> FileRecords]
    BY ZenonT(60), <1>1, <1>4, Records DEF SysTypes
<1>6. closing' = [closing EXCEPT ![p] = IF ref[f] = 1 /\ file[f].type = "PIPE"
                                        THEN file[f] ELSE @]
    BY <1>1, CloseFile
<1>7. file[f].type = "PIPE" => file[f] \in PipeEnds
    BY Records DEF IInv, EndInv, EndFiles
<1>8. closing' \in [Procs -> {NoFile} \cup PipeEnds]
    BY Zenon, <1>1, <1>6, <1>7 DEF SysTypes
<1> QED
    BY <1>2, <1>3, <1>5, <1>8 DEF CloseTypes

(* Every step keeps the types.                                             *)
LEMMA TypeStep ==
    ASSUME FiniteFacts, IInv, [Step]_sysVars
    PROVE  SysTypes'
<1>1. ASSUME NEW p \in Procs, PipeClose(p)
       PROVE  SysTypes'
    <2>1. /\ ends' \in [Pipes -> SUBSET {"r", "w"}] /\ pages' \subseteq Pipes
        BY Zenon, <1>1 DEF PipeClose, IInv, SysTypes
    <2>2. closing' \in [Procs -> {NoFile} \cup PipeEnds]
        BY Zenon, <1>1 DEF PipeClose, IInv, SysTypes
    <2> QED
        BY Zenon, <2>1, <2>2, <1>1 DEF PipeClose, IInv, SysTypes, fileVars
<1>2. ASSUME NEW p \in Procs, DupCount(p)
       PROVE  SysTypes'
    <2>1. ref' = [ref EXCEPT ![held[p][1]] = @ + 1] /\ panicked' = panicked
        BY Zenon, <1>2, InUse, DupFile DEF DupCount, At, IInv
    <2>2. held[p][1] \in FileIds /\ ref \in [FileIds -> Nat]
        BY Zenon, <1>2, InUse DEF DupCount, At, IInv, SysTypes
    <2>3. ref' \in [FileIds -> Nat]
        BY <2>1, <2>2
    <2>4. held' \in [Procs -> HeldFiles]
        BY Zenon, <1>2, HeldNone DEF DupCount, IInv, SysTypes
    <2> QED
        BY Zenon, <2>1, <2>3, <2>4, <1>2 DEF DupCount, Goto, IInv, SysTypes,
           pipeVars, Labels
<1>3. ASSUME NEW p \in Procs, PipeFail(p)
       PROVE  SysTypes'
    BY Zenon, <1>3 DEF PipeFail, At, Goto, IInv, SysTypes, fileVars, pipeVars,
       callVars, Labels
<1>4. ASSUME NEW p \in Procs, CloseHeld(p)
       PROVE  SysTypes'
    <2>1. held[p] \in HeldFiles /\ Len(held[p]) \in {1, 2}
        BY Zenon, <1>4 DEF CloseHeld, At, IInv, CallInv, SysTypes
    <2>2. Tail(held[p]) \in HeldFiles
        BY Zenon, <2>1, HeldHead
    <2>3. held' \in [Procs -> HeldFiles]
        BY Zenon, <1>4, <2>2 DEF CloseHeld, IInv, SysTypes
    <2>4. CloseTypes
        <3>1. pc[p] \in Holding /\ fileClose(p, Head(held[p]))
            BY Zenon, <1>4 DEF CloseHeld, At, Holding
        <3>2. Head(held[p]) \in FileIds /\ ref[Head(held[p])] > 0
            BY Zenon, <3>1, InUse
        <3> QED
            BY Zenon, <3>1, <3>2, CloseTypesHold
    <2> QED
        BY Zenon, <2>3, <2>4, <1>4 DEF CloseHeld, Goto, CloseTypes, IInv,
           SysTypes, pipeVars, Labels
<1>5. ASSUME NEW p \in Procs, ForkNoMemory(p)
       PROVE  SysTypes'
    BY Zenon, <1>5 DEF ForkNoMemory, At, Goto, IInv, SysTypes, fileVars,
       pipeVars,
       callVars, Labels
<1>6. ASSUME NEW p \in Procs, ForkCopied(p)
       PROVE  SysTypes'
    <2>1. left' \in [Procs -> SUBSET Fds]
        <3>1. left \in [Procs -> SUBSET Fds] /\ OpenFds(p) \in SUBSET Fds
            BY Zenon DEF OpenFds, IInv, SysTypes
        <3> QED
            BY <1>6, <3>1 DEF ForkCopied
    <2> QED
        BY Zenon, <1>6, <2>1 DEF ForkCopied, Goto, IInv, SysTypes, fileVars,
           pipeVars, Labels
<1>7. ASSUME NEW p \in Procs, ForkDup(p)
       PROVE  SysTypes'
    <2>1. PICK d \in Fds :
              /\ d \in left[p] /\ fileDup(OpenFile[p][d])
              /\ OpenFile' = [OpenFile EXCEPT ![np[p]][d] = OpenFile[p][d]]
              /\ left' = [left EXCEPT ![p] = @ \ {d}]
        BY Zenon, <1>7 DEF ForkDup, Lowest
    <2>2. OpenFile[p][d] # Null
        BY Zenon, <2>1, <1>7 DEF ForkDup, At, IInv, ForkInv, Forking
    <2>3. ref' = [ref EXCEPT ![OpenFile[p][d]] = @ + 1] /\ panicked' = panicked
        BY <2>1, <2>2, InUse, DupFile DEF IInv
    <2>4. ref' \in [FileIds -> Nat]
        <3>1. OpenFile[p][d] \in FileIds /\ ref \in [FileIds -> Nat]
            BY Zenon, <2>2, InUse DEF IInv, SysTypes
        <3> QED
            BY <2>3, <3>1
    <2>5. OpenFile' \in [Procs -> [Fds -> FileIds \cup {Null}]]
        <3>1. OpenFile \in [Procs -> [Fds -> FileIds \cup {Null}]]
            BY Zenon DEF IInv, SysTypes
        <3> QED
            BY Zenon, <2>1, <3>1
    <2> QED
        BY Zenon, <2>1, <2>3, <2>4, <2>5, <1>7 DEF ForkDup, IInv, SysTypes,
           pipeVars
<1>8. ASSUME NEW p \in Procs, ForkPublish(p)
       PROVE  SysTypes'
    BY Zenon, <1>8 DEF ForkPublish, At, Goto, IInv, SysTypes, fileVars, pipeVars,
       callVars, Labels
<1>9. ASSUME NEW p \in Procs, Exit(p)
       PROVE  SysTypes'
    BY Zenon, <1>9 DEF Exit, At, Goto, IInv, SysTypes, fileVars, pipeVars,
       callVars,
       Labels
<1>10. ASSUME NEW p \in Procs, ExitClose(p)
       PROVE  SysTypes'
    <2>1. PICK d \in Fds : /\ OpenFile[p][d] # Null
                           /\ fileClose(p, OpenFile[p][d])
                           /\ OpenFile' = [OpenFile EXCEPT ![p][d] = Null]
        BY Zenon, <1>10 DEF ExitClose, Lowest, OpenFds
    <2>2. CloseTypes
        BY <2>1, InUse, CloseTypesHold
    <2> QED
        BY Zenon, <2>1, <2>2, <1>10 DEF ExitClose, CloseTypes, IInv, SysTypes,
           pipeVars
<1>11. ASSUME NEW p \in Procs, ExitDone(p)
       PROVE  SysTypes'
    BY Zenon, <1>11 DEF ExitDone, At, Goto, IInv, SysTypes, fileVars, pipeVars,
       callVars, Labels
<1>12. ASSUME NEW p \in Procs, ExecFail(p)
       PROVE  SysTypes'
    BY Zenon, <1>12 DEF ExecFail, At, Goto, IInv, SysTypes, fileVars, pipeVars,
       callVars, Labels
<1>13. ASSUME NEW p \in Procs, ExecLoaded(p)
       PROVE  SysTypes'
    <2>1. CloseTypes
        <3>1. pc[p] \in Holding /\ fileClose(p, Head(held[p]))
            BY Zenon, <1>13 DEF ExecLoaded, At, Holding
        <3>2. Head(held[p]) \in FileIds /\ ref[Head(held[p])] > 0
            BY Zenon, <3>1, InUse
        <3> QED
            BY Zenon, <3>1, <3>2, CloseTypesHold
    <2> QED
        BY Zenon, <2>1, <1>13 DEF ExecLoaded, Goto, CloseTypes, IInv, SysTypes,
           pipeVars, Labels
<1>14. ASSUME NEW p \in Procs, ExecDone(p)
       PROVE  SysTypes'
    <2>1. held' \in [Procs -> HeldFiles]
        BY Zenon, <1>14, HeldNone DEF ExecDone, IInv, SysTypes
    <2> QED
        BY Zenon, <1>14, <2>1 DEF ExecDone, At, Goto, IInv, SysTypes, fileVars,
           pipeVars, callVars, Labels
<1>15. ASSUME NEW p \in Procs, NEW d \in Fds, sys_close(p, d)
       PROVE  SysTypes'
    <2>1. CloseTypes
        BY <1>15, InUse, CloseTypesHold DEF sys_close
    <2> QED
        BY Zenon, <2>1, <1>15 DEF sys_close, CloseTypes, IInv, SysTypes, pipeVars
<1>16. ASSUME NEW p \in Procs, NEW d \in Fds, sys_read(p, d)
       PROVE  SysTypes'
    BY Zenon, <1>16 DEF sys_read, At, Goto, IInv, SysTypes, fileVars, pipeVars,
       callVars, Labels
<1>17. ASSUME NEW p \in Procs, NEW d \in Fds, sys_write(p, d)
       PROVE  SysTypes'
    BY Zenon, <1>17 DEF sys_write, At, Goto, IInv, SysTypes, fileVars, pipeVars,
       callVars, Labels
<1>18. ASSUME NEW p \in Procs, NEW d \in Fds, NEW e \in Fds, DupInstall(p, d, e)
       PROVE  SysTypes'
    <2>1. OpenFile[p][d] \in FileIds
        BY <1>18, InUse DEF DupInstall
    <2>2. held' \in [Procs -> HeldFiles]
        BY Zenon, <1>18, <2>1, HeldOne DEF DupInstall, IInv, SysTypes
    <2>3. OpenFile' \in [Procs -> [Fds -> FileIds \cup {Null}]]
        <3>1. OpenFile \in [Procs -> [Fds -> FileIds \cup {Null}]]
            BY Zenon DEF IInv, SysTypes
        <3> QED
            BY <1>18, <3>1 DEF DupInstall
    <2> QED
        BY Zenon, <1>18, <2>2, <2>3 DEF DupInstall, Goto, IInv, SysTypes,
           fileVars, pipeVars, Labels
<1>19. ASSUME NEW p \in Procs, NEW f \in FileIds, PipeFirst(p, f)
       PROVE  SysTypes'
    <2>1. held' \in [Procs -> HeldFiles]
        BY Zenon, <1>19, HeldOne DEF PipeFirst, IInv, SysTypes
    <2> QED
        BY Zenon, <1>19, <2>1 DEF PipeFirst, At, Goto, IInv, SysTypes, fileVars,
           pipeVars, callVars, Labels
<1>20. ASSUME NEW p \in Procs, NEW f \in FileIds, PipeSecond(p, f)
       PROVE  SysTypes'
    <2>1. held[p] \in HeldFiles /\ Len(held[p]) = 1
        BY Zenon, <1>20 DEF PipeSecond, At, IInv, CallInv, SysTypes
    <2>2. held' \in [Procs -> HeldFiles]
        BY Zenon, <1>20, <2>1, HeldAppend DEF PipeSecond, IInv, SysTypes
    <2> QED
        BY Zenon, <2>2, <1>20 DEF PipeSecond, Goto, IInv, SysTypes, pipeVars,
           Labels
<1>21. ASSUME NEW p \in Procs, NEW f \in FileIds, ExecOpen(p, f)
       PROVE  SysTypes'
    <2>1. file' \in [FileIds -> FileRecords]
        BY Zenon, <1>21, Records DEF ExecOpen, IInv, SysTypes
    <2>2. held' \in [Procs -> HeldFiles]
        BY Zenon, <1>21, HeldOne DEF ExecOpen, IInv, SysTypes
    <2> QED
        BY Zenon, <2>1, <2>2, <1>21 DEF ExecOpen, Goto, IInv, SysTypes, pipeVars,
           Labels
<1>22. ASSUME NEW p \in Procs, NEW f \in FileIds, NEW m \in Modes, Open(p, f, m)
       PROVE  SysTypes'
    <2>1. ref' \in [FileIds -> Nat]
        BY Zenon, <1>22 DEF Open, IInv, SysTypes
    <2>2. file' \in [FileIds -> FileRecords]
        BY Zenon, <1>22, FilesAssumption, Records DEF Open, IInv, SysTypes
    <2>3. OpenFile' \in [Procs -> [Fds -> FileIds \cup {Null}]]
        <3>1. OpenFile \in [Procs -> [Fds -> FileIds \cup {Null}]]
            BY Zenon DEF IInv, SysTypes
        <3> QED
            BY <1>22, <3>1 DEF Open
    <2>4. pc' \in [Procs -> Labels]
        BY Zenon, <1>22 DEF Open, Goto, IInv, SysTypes, Labels
    <2>5. held' \in [Procs -> HeldFiles]
        <3>1. CASE held' = [held EXCEPT ![p] = <<f>>]
            BY Zenon, <3>1, HeldOne DEF IInv, SysTypes
        <3>2. CASE held' = held
            BY Zenon, <3>2 DEF IInv, SysTypes
        <3> QED
            BY <1>22, <3>1, <3>2 DEF Open
    <2> QED
        BY Zenon, <2>1, <2>2, <2>3, <2>4, <2>5, <1>22 DEF Open, IInv, SysTypes,
           pipeVars
<1>23. ASSUME NEW p \in Procs, NEW k \in Pipes, PipeMake(p, k)
       PROVE  SysTypes'
    <2>1. held[p][1] \in FileIds /\ held[p][2] \in FileIds
        <3>1. held[p] \in HeldFiles /\ Len(held[p]) = 2
            BY Zenon, <1>23 DEF PipeMake, At, IInv, CallInv, SysTypes
        <3> QED
            BY Zenon, <3>1, HeldHead
    <2>2. file' \in [FileIds -> FileRecords]
        BY Zenon, <2>1, <1>23, Records DEF PipeMake, IInv, SysTypes
    <2>3. OpenFile' \in [Procs -> [Fds -> FileIds \cup {Null}]]
        <3>1. OpenFile \in [Procs -> [Fds -> FileIds \cup {Null}]]
            BY Zenon DEF IInv, SysTypes
        <3>2. CASE OpenFile' = OpenFile
            BY <3>1, <3>2
        <3>3. ASSUME NEW d \in Fds, NEW e \in Fds,
                     OpenFile' = [OpenFile EXCEPT ![p][d] = held[p][1],
                                                  ![p][e] = held[p][2]]
              PROVE  OpenFile' \in [Procs -> [Fds -> FileIds \cup {Null}]]
            BY <2>1, <3>1, <3>3
        <3> QED
            BY Zenon, <1>23, <3>2, <3>3 DEF PipeMake, FreeFds
    <2>5. pc' \in [Procs -> Labels]
        BY Zenon, <1>23 DEF PipeMake, Goto, IInv, SysTypes, Labels
    <2>6. held' \in [Procs -> HeldFiles]
        <3>1. CASE held' = [held EXCEPT ![p] = <<>>]
            BY Zenon, <3>1, HeldNone DEF IInv, SysTypes
        <3>2. CASE held' = held
            BY Zenon, <3>2 DEF IInv, SysTypes
        <3> QED
            BY <1>23, <3>1, <3>2 DEF PipeMake
    <2>4. ends' \in [Pipes -> SUBSET {"r", "w"}] /\ pages' \subseteq Pipes
        BY Zenon, <1>23 DEF PipeMake, IInv, SysTypes
    <2> QED
        BY Zenon, <2>2, <2>3, <2>4, <2>5, <2>6, <1>23 DEF PipeMake, IInv,
           SysTypes
<1>24. ASSUME NEW p \in Procs, NEW q \in Procs, ForkNullFile(p, q)
       PROVE  SysTypes'
    <2>1. OpenFile \in [Procs -> [Fds -> FileIds \cup {Null}]]
        BY Zenon DEF IInv, SysTypes
    <2>2. OpenFile' \in [Procs -> [Fds -> FileIds \cup {Null}]]
        BY <1>24, <2>1 DEF ForkNullFile
    <2>3. pc' \in [Procs -> Labels] /\ np' \in [Procs -> Procs \cup {Null}]
        <3>1. CASE ForkGot(p, q)
            BY Zenon, <3>1 DEF ForkGot, IInv, SysTypes, Labels
        <3>2. CASE pc' = pc /\ np' = np
            BY Zenon, <3>2 DEF IInv, SysTypes
        <3> QED
            BY <1>24, <3>1, <3>2 DEF ForkNullFile
    <2> QED
        BY Zenon, <1>24, <2>2, <2>3 DEF ForkNullFile, IInv, SysTypes, fileVars,
           pipeVars
<1>25. ASSUME NEW p \in Procs, NEW q \in Procs, NEW f \in FileIds, ForkAllocate(p, q, f)
       PROVE  SysTypes'
    <2>1. ref' \in [FileIds -> Nat] /\ pc' \in [Procs -> Labels]
        BY Zenon, <1>25, Constants
        DEF ForkAllocate, ForkGot, IInv, SysTypes, Labels, FiniteFacts,
           CardTables
    <2>2. file' \in [FileIds -> FileRecords]
        BY Zenon, <1>25, Records DEF ForkAllocate, IInv, SysTypes
    <2>3. OpenFile' \in [Procs -> [Fds -> FileIds \cup {Null}]]
        BY ZenonT(60), <1>25 DEF ForkAllocate, IInv, SysTypes
    <2> QED
        BY Zenon, <2>1, <2>2, <2>3, <1>25 DEF ForkAllocate, ForkGot, IInv,
           SysTypes, pipeVars
<1>26. CASE Panicked
    BY Zenon, <1>26 DEF IInv, SysTypes, sysVars, fileVars, pipeVars, callVars,
       Panicked
<1>27. CASE UNCHANGED sysVars
    BY Zenon, <1>27 DEF IInv, SysTypes, sysVars, fileVars, pipeVars, callVars
<1> QED
    BY <1>1, <1>2, <1>3, <1>4, <1>5, <1>6, <1>7, <1>8, <1>9, <1>10, <1>11,
       <1>12, <1>13, <1>14, <1>15, <1>16, <1>17, <1>18, <1>19, <1>20, <1>21,
       <1>22, <1>23, <1>24, <1>25, <1>26, <1>27 DEF Step

(* Every step keeps CallInv.                                               *)
LEMMA CallStep ==
    ASSUME IInv, [Step]_sysVars
    PROVE  CallInv'
<1>t. /\ pc \in [Procs -> Labels] /\ held \in [Procs -> HeldFiles]
      /\ OpenFile \in [Procs -> [Fds -> FileIds \cup {Null}]]
      /\ CallInv
    BY Zenon DEF IInv, SysTypes
<1>1. ASSUME NEW p \in Procs, PipeClose(p)
       PROVE  CallInv'
    BY Zenon, <1>1, <1>t DEF PipeClose, At, Goto, CallInv, fileVars, callVars,
       ForkGot
<1>2. ASSUME NEW p \in Procs, DupCount(p)
       PROVE  CallInv'
    BY Zenon, <1>2, <1>t DEF DupCount, At, Goto, CallInv, fileVars, callVars,
       ForkGot
<1>3. ASSUME NEW p \in Procs, PipeFail(p)
       PROVE  CallInv'
    BY Zenon, <1>3, <1>t DEF PipeFail, At, Goto, CallInv, fileVars, callVars,
       ForkGot
<1>4. ASSUME NEW p \in Procs, CloseHeld(p)
       PROVE  CallInv'
    <2>1. Len(held[p]) \in {1, 2} /\ held[p] \in HeldFiles
        BY Zenon, <1>4, <1>t DEF CloseHeld, At, CallInv
    <2>2. Len(Tail(held[p])) = Len(held[p]) - 1
        BY Zenon, <2>1, HeldHead
    <2>3. held' = [held EXCEPT ![p] = Tail(held[p])] /\ OpenFile' = OpenFile
        BY <1>4 DEF CloseHeld
    <2>4. pc' = [pc EXCEPT ![p] = IF Len(held[p]) = 1 THEN "user" ELSE "close"]
        BY <1>4 DEF CloseHeld, Goto
    <2> QED
        BY <1>t, <2>1, <2>2, <2>3, <2>4 DEF CallInv
<1>5. ASSUME NEW p \in Procs, ForkNoMemory(p)
       PROVE  CallInv'
    <2>1. np[p] \in Procs
        BY Zenon, <1>5 DEF ForkNoMemory, At, IInv, ForkInv, Forking
    <2> QED
        BY <1>5, <1>t, <2>1 DEF ForkNoMemory, CallInv
<1>6. ASSUME NEW p \in Procs, ForkCopied(p)
       PROVE  CallInv'
    BY ZenonT(60), <1>6, <1>t DEF ForkCopied, At, Goto, CallInv, fileVars,
       callVars,
       ForkGot
<1>7. ASSUME NEW p \in Procs, ForkDup(p)
       PROVE  CallInv'
    <2>1. PICK d \in Fds :
              OpenFile' = [OpenFile EXCEPT ![np[p]][d] = OpenFile[p][d]]
        BY Zenon, <1>7 DEF ForkDup
    <2>2. np[p] \in Procs /\ pc[np[p]] = "embryo"
        BY Zenon, <1>7 DEF ForkDup, At, IInv, ForkInv, Forking
    <2> QED
        BY <1>7, <1>t, <2>1, <2>2 DEF ForkDup, CallInv
<1>8. ASSUME NEW p \in Procs, ForkPublish(p)
       PROVE  CallInv'
    <2>1. np[p] \in Procs
        BY Zenon, <1>8 DEF ForkPublish, At, IInv, ForkInv, Forking
    <2> QED
        BY <1>8, <1>t, <2>1 DEF ForkPublish, CallInv
<1>9. ASSUME NEW p \in Procs, Exit(p)
       PROVE  CallInv'
    BY Zenon, <1>9, <1>t DEF Exit, At, Goto, CallInv, fileVars, callVars,
       ForkGot
<1>10. ASSUME NEW p \in Procs, ExitClose(p)
       PROVE  CallInv'
    <2>1. PICK d \in Fds : OpenFile' = [OpenFile EXCEPT ![p][d] = Null]
        BY Zenon, <1>10 DEF ExitClose
    <2> QED
        <3>1. pc[p] = "exit" /\ pc' = pc /\ held' = held
            BY <1>10 DEF ExitClose, At
        <3>2. \A q \in Procs : q # p => OpenFile'[q] = OpenFile[q]
            BY <1>t, <2>1
        <3> QED
            BY <1>t, <3>1, <3>2 DEF CallInv
<1>11. ASSUME NEW p \in Procs, ExitDone(p)
       PROVE  CallInv'
    BY Zenon, <1>11, <1>t DEF ExitDone, At, Goto, CallInv, fileVars, callVars,
       ForkGot
<1>12. ASSUME NEW p \in Procs, ExecFail(p)
       PROVE  CallInv'
    BY Zenon, <1>12, <1>t DEF ExecFail, At, Goto, CallInv, fileVars, callVars,
       ForkGot
<1>13. ASSUME NEW p \in Procs, ExecLoaded(p)
       PROVE  CallInv'
    BY Zenon, <1>13, <1>t DEF ExecLoaded, At, Goto, CallInv, fileVars,
       callVars,
       ForkGot
<1>14. ASSUME NEW p \in Procs, ExecDone(p)
       PROVE  CallInv'
    BY ZenonT(60), <1>14, <1>t DEF ExecDone, At, Goto, CallInv, fileVars,
       callVars,
       ForkGot
<1>15. ASSUME NEW p \in Procs, NEW d \in Fds, sys_close(p, d)
       PROVE  CallInv'
    BY ZenonT(60), <1>15, <1>t DEF sys_close, At, Goto, CallInv, fileVars,
       callVars,
       ForkGot
<1>16. ASSUME NEW p \in Procs, NEW d \in Fds, sys_read(p, d)
       PROVE  CallInv'
    BY Zenon, <1>16, <1>t DEF sys_read, At, Goto, CallInv, fileVars, callVars,
       ForkGot
<1>17. ASSUME NEW p \in Procs, NEW d \in Fds, sys_write(p, d)
       PROVE  CallInv'
    BY Zenon, <1>17, <1>t DEF sys_write, At, Goto, CallInv, fileVars, callVars,
       ForkGot
<1>18. ASSUME NEW p \in Procs, NEW d \in Fds, NEW e \in Fds, DupInstall(p, d, e)
       PROVE  CallInv'
    <2>1. d # e /\ OpenFile[p][d] \in FileIds
        BY <1>18, InUse DEF DupInstall, FirstFreeFd
    <2> QED
        BY <1>18, <1>t, <2>1, HeldOne DEF DupInstall, Goto, CallInv
<1>19. ASSUME NEW p \in Procs, NEW f \in FileIds, PipeFirst(p, f)
       PROVE  CallInv'
    <2>1. Len(<<f>>) = 1
        BY HeldOne
    <2> QED
        BY ZenonT(60), <1>19, <1>t, <2>1 DEF PipeFirst, At, Goto, CallInv
<1>20. ASSUME NEW p \in Procs, NEW f \in FileIds, PipeSecond(p, f)
       PROVE  CallInv'
    <2>1. Len(Append(held[p], f)) = 2
        BY Zenon, <1>20, <1>t, HeldAppend DEF PipeSecond, At, CallInv
    <2> QED
        BY ZenonT(60), <1>20, <1>t, <2>1 DEF PipeSecond, At, Goto, CallInv
<1>21. ASSUME NEW p \in Procs, NEW f \in FileIds, ExecOpen(p, f)
       PROVE  CallInv'
    <2>1. Len(<<f>>) = 1
        BY HeldOne
    <2> QED
        BY ZenonT(60), <1>21, <1>t, <2>1 DEF ExecOpen, At, Goto, CallInv
<1>22. ASSUME NEW p \in Procs, NEW f \in FileIds, NEW m \in Modes, Open(p, f, m)
       PROVE  CallInv'
    <2>1. Len(<<f>>) = 1
        BY HeldOne
    <2>2. CASE held' = held /\ pc' = pc
        <3>1. pc[p] = "user" /\ \A q \in Procs \ {p} : OpenFile'[q] = OpenFile[q]
            BY Zenon, <1>22, <1>t DEF Open, At
        <3> QED
            BY <1>t, <2>2, <3>1 DEF CallInv
    <2>3. CASE /\ held' = [held EXCEPT ![p] = <<f>>]
               /\ Goto(p, "close") /\ OpenFile' = OpenFile
        BY <1>t, <2>1, <2>3 DEF Goto, CallInv
    <2> QED
        BY <1>22, <2>2, <2>3 DEF Open
<1>23. ASSUME NEW p \in Procs, NEW k \in Pipes, PipeMake(p, k)
       PROVE  CallInv'
    <2>1. CASE held' = held /\ OpenFile' = OpenFile /\ Goto(p, "close")
        BY Zenon, <1>23, <1>t, <2>1 DEF PipeMake, At, Goto, CallInv
    <2>2. CASE held' = [held EXCEPT ![p] = <<>>] /\ Goto(p, "user")
        <3>1. \A q \in Procs \ {p} : OpenFile'[q] = OpenFile[q]
            BY Zenon, <1>23, <1>t DEF PipeMake
        <3> QED
            BY <1>t, <2>2, <3>1 DEF Goto, CallInv
    <2> QED
        BY <1>23, <2>1, <2>2 DEF PipeMake
<1>24. ASSUME NEW p \in Procs, NEW q \in Procs, ForkNullFile(p, q)
       PROVE  CallInv'
    <2>1. CASE ForkGot(p, q)
        <3>1. /\ pc[q] = "unused" /\ held' = held
              /\ \A r \in Procs \ {q} : OpenFile'[r] = OpenFile[r]
            BY <1>24, <1>t DEF ForkNullFile
        <3>2. \A r \in Procs :
                  pc'[r] \in {"pipe", "exec", "dup", "page", "close"} =>
                      pc'[r] = pc[r] /\ OpenFile'[r] = OpenFile[r]
            BY <1>t, <2>1, <3>1 DEF ForkGot
        <3> QED
            BY <1>t, <3>1, <3>2 DEF CallInv
    <2>2. CASE pc' = pc /\ OpenFile' = OpenFile
        BY <1>24, <1>t, <2>2 DEF ForkNullFile, CallInv
    <2> QED
        BY <1>24, <2>1, <2>2 DEF ForkNullFile
<1>25. ASSUME NEW p \in Procs, NEW q \in Procs, NEW f \in FileIds, ForkAllocate(p, q, f)
       PROVE  CallInv'
    BY ZenonT(60), <1>25, <1>t DEF ForkAllocate, At, Goto, CallInv, fileVars,
       callVars,
       ForkGot
<1>26. CASE UNCHANGED sysVars
    BY <1>26, <1>t DEF CallInv, sysVars, callVars
<1> QED
    BY ZenonT(60), <1>1, <1>2, <1>3, <1>4, <1>5, <1>6, <1>7, <1>8, <1>9, <1>10,
       <1>11, <1>12, <1>13, <1>14, <1>15, <1>16, <1>17, <1>18, <1>19, <1>20,
       <1>21, <1>22, <1>23, <1>24, <1>25, <1>26 DEF Step, Panicked

(* So does a step that changes one File no call goes on holding, and makes *)
(* descriptors name it or nothing.                                         *)
LEMMA HeldOther ==
    ASSUME SysTypes, HeldInv, NEW f,
           \A q \in Procs : pc'[q] \in Holding =>
               /\ held'[q] = held[q] /\ pc[q] \in Holding
               /\ pc'[q] = pc[q] \/ pc'[q] = "close",
           \A q \in Procs : \A i \in 1..Len(held[q]) :
               pc'[q] \in Holding => held[q][i] # f,
           \A g \in FileIds : g # f => ref'[g] = ref[g] /\ file'[g] = file[g],
           \A r \in Procs, d \in Fds :
               OpenFile'[r][d] = OpenFile[r][d] \/ OpenFile'[r][d] \in {f, Null}
    PROVE  HeldInv'
<1>1. ASSUME NEW q \in Procs, NEW i \in 1..Len(held[q]), pc'[q] \in Holding
      PROVE  /\ ref'[held[q][i]] = ref[held[q][i]]
             /\ file'[held[q][i]] = file[held[q][i]]
             /\ \A r \in Procs, d \in Fds : OpenFile'[r][d] # held[q][i]
    <2>1. held[q] \in HeldFiles
        BY Zenon DEF SysTypes
    <2>2. held[q][i] \in FileIds /\ held[q][i] # f /\ held[q][i] # Null
        BY <1>1, <2>1, HeldLen, Constants
    <2>3. pc[q] \in Holding
        BY Zenon, <1>1
    <2>4. \A r \in Procs, d \in Fds : OpenFile[r][d] # held[q][i]
        BY <2>3 DEF HeldInv
    <2> QED
        BY <2>2, <2>4
<1> QED
    BY <1>1, HeldFrame

(* So does a step that changes no File and no descriptor.                  *)
LEMMA HeldSame ==
    ASSUME SysTypes, HeldInv,
           \A q \in Procs : pc'[q] \in Holding =>
               /\ held'[q] = held[q] /\ pc[q] \in Holding
               /\ pc'[q] = pc[q] \/ pc'[q] = "close",
           UNCHANGED <<ref, file, OpenFile>>
    PROVE  HeldInv'
<1>1. ASSUME NEW q \in Procs, NEW i \in 1..Len(held[q])
      PROVE  held[q][i] # Null
    <2>1. held[q] \in HeldFiles
        BY ZenonT(60) DEF SysTypes
    <2> QED
        BY <2>1, HeldLen, Constants
<1> QED
    BY Zenon, <1>1, HeldOther

(* A call that holds nothing takes a free File.                            *)
LEMMA HeldFirst ==
    ASSUME IInv, NEW p \in Procs, NEW f \in FileIds, FirstFreeFile(f),
           pc[p] = "user",
           ref' = [ref EXCEPT ![f] = 1],
           held' = [held EXCEPT ![p] = <<f>>], OpenFile' = OpenFile,
           NEW l \in {"pipe", "exec", "close"}, Goto(p, l),
           \A g \in FileIds : g # f => file'[g] = file[g],
           l = "pipe" => file'[f] = NoFile, l = "exec" => file'[f].type = "FILE"
    PROVE  HeldInv'
<1>1. /\ held'[p] = <<f>> /\ \A q \in Procs : q # p => held'[q] = held[q]
      /\ pc'[p] = l /\ \A q \in Procs : q # p => pc'[q] = pc[q]
      /\ ref'[f] = 1 /\ \A g \in FileIds : g # f => ref'[g] = ref[g]
    <2>1. /\ held \in [Procs -> HeldFiles] /\ pc \in [Procs -> Labels]
          /\ ref \in [FileIds -> Nat]
        BY DEF IInv, SysTypes
    <2> QED
        BY <2>1 DEF Goto
<1>2. /\ \A q \in Procs, d \in Fds : OpenFile[q][d] # f
      /\ \A q \in Procs : \A i \in 1..Len(held[q]) :
             pc[q] \in Holding => held[q][i] # f
    BY Zenon, FreeFile
<1>3. \A i \in 1..Len(held'[p]) : i = 1 /\ held'[p][i] = f
    <2>1. Len(<<f>>) = 1 /\ <<f>>[1] = f
        BY Zenon, HeldOne
    <2>2. \A i \in 1..1 : i = 1
        OBVIOUS
    <2> QED
        BY Zenon, <1>1, <2>1, <2>2
<1>4. \A q \in Procs : \A i \in 1..Len(held[q]) : held[q][i] \in FileIds
    BY Zenon, HeldLen DEF IInv, SysTypes
<1>5. HeldInv
    BY DEF IInv
<1> SUFFICES ASSUME NEW q \in Procs, NEW i \in 1..Len(held'[q]),
                    pc'[q] \in Holding
             PROVE  /\ ref'[held'[q][i]] = 1
                    /\ \A r \in Procs, d \in Fds : OpenFile'[r][d] # held'[q][i]
                    /\ \A r \in Procs : \A j \in 1..Len(held'[r]) :
                           pc'[r] \in Holding /\ held'[r][j] = held'[q][i]
                               => r = q /\ j = i
                    /\ pc'[q] \in {"pipe", "page"} =>
                           file'[held'[q][i]] = NoFile
                    /\ pc'[q] = "exec" => file'[held'[q][i]].type = "FILE"
    BY ZenonT(60) DEF HeldInv, Holding
<1>6. CASE q = p
    BY <1>1, <1>2, <1>3, <1>6
<1>7. CASE q # p
    <2>1. /\ held'[q] = held[q] /\ pc'[q] = pc[q] /\ i \in 1..Len(held[q])
          /\ held[q][i] \in FileIds /\ held[q][i] # f
        BY <1>1, <1>2, <1>4, <1>7
    <2> QED
        BY <1>1, <1>3, <1>5, <1>7, <2>1 DEF HeldInv
<1> QED
    BY <1>6, <1>7

(* Every step keeps HeldInv.                                                *)
LEMMA HeldStep ==
    ASSUME IInv, [Step]_sysVars
    PROVE  HeldInv'
<1>t. /\ pc \in [Procs -> Labels] /\ held \in [Procs -> HeldFiles]
      /\ OpenFile \in [Procs -> [Fds -> FileIds \cup {Null}]]
      /\ ref \in [FileIds -> Nat] /\ file \in [FileIds -> FileRecords]
      /\ SysTypes /\ HeldInv
    BY Zenon DEF IInv, SysTypes
<1>u. \A q, r \in Procs : \A i \in 1..Len(held[q]), j \in 1..Len(held[r]) :
          pc[q] \in Holding /\ pc[r] \in Holding /\ held[r][j] = held[q][i]
              => r = q /\ j = i
    BY <1>t DEF HeldInv
<1>1. ASSUME NEW p \in Procs, PipeClose(p)
       PROVE  HeldInv'
    <2>1. \A q \in Procs : pc'[q] \in Holding =>
              /\ held'[q] = held[q] /\ pc[q] \in Holding
              /\ pc'[q] = pc[q] \/ pc'[q] = "close"
        BY Zenon, <1>1, <1>t DEF PipeClose, At, Goto, Holding, callVars
    <2>2. UNCHANGED <<ref, file, OpenFile>>
        BY Zenon, <1>1 DEF PipeClose, fileVars
    <2> QED
        BY Zenon, <1>t, <2>1, <2>2, HeldSame
<1>2. ASSUME NEW p \in Procs, DupCount(p)
       PROVE  HeldInv'
    <2> DEFINE f == held[p][1]
    <2>1. f \in FileIds /\ ref[f] > 0
        BY Zenon, <1>2, InUse DEF DupCount, At
    <2>2. \A q \in Procs : pc'[q] \in Holding =>
              /\ held'[q] = held[q] /\ pc[q] \in Holding
              /\ pc'[q] = pc[q] \/ pc'[q] = "close"
        BY Zenon, <1>2, <1>t DEF DupCount, At, Goto, Holding, callVars
    <2>3. \A q \in Procs : \A i \in 1..Len(held[q]) :
              pc'[q] \in Holding => held[q][i] # f
        <3>1. PICK d \in Fds : OpenFile[p][d] = f
            BY Zenon, <1>2 DEF DupCount, At, IInv, CallInv
        <3> QED
            BY <1>t, <2>2, <3>1, NamedNotHeld
    <2> HIDE DEF f
    <2>4. \A g \in FileIds : g # f => ref'[g] = ref[g] /\ file'[g] = file[g]
        <3>1. fileDup(f)
            BY Zenon, <1>2, InUse DEF DupCount, At, f
        <3> QED
            BY <1>2, <1>t, <2>1, <3>1, DupFile DEF DupCount
    <2>5. \A r \in Procs, c \in Fds :
              OpenFile'[r][c] = OpenFile[r][c] \/ OpenFile'[r][c] \in {f, Null}
        BY <1>2, <1>t DEF DupCount, f
    <2> QED
        BY Zenon, <1>t, <2>2, <2>3, <2>4, <2>5, HeldOther
<1>3. ASSUME NEW p \in Procs, PipeFail(p)
       PROVE  HeldInv'
    <2>1. \A q \in Procs : pc'[q] \in Holding =>
              /\ held'[q] = held[q] /\ pc[q] \in Holding
              /\ pc'[q] = pc[q] \/ pc'[q] = "close"
        BY Zenon, <1>3, <1>t DEF PipeFail, At, Goto, Holding, callVars
    <2>2. UNCHANGED <<ref, file, OpenFile>>
        BY <1>3 DEF PipeFail, fileVars
    <2> QED
        BY Zenon, <1>t, <2>1, <2>2, HeldSame
<1>4. ASSUME NEW p \in Procs, CloseHeld(p)
       PROVE  HeldInv'
    <2>1. pc[p] \in Holding /\ Len(held[p]) \in {1, 2} /\ held[p] \in HeldFiles
        BY Zenon, <1>4, <1>t DEF CloseHeld, At, IInv, CallInv, Holding
    <2>2. PICK f \in FileIds : f = held[p][1] /\ f = Head(held[p]) /\ ref[f] > 0
        BY ZenonT(60), <2>1, InUse
    <2>3. /\ \A g \in FileIds : g # f => ref'[g] = ref[g] /\ file'[g] = file[g]
          /\ OpenFile' = OpenFile
        BY <1>4, <1>t, <2>2, CloseFile DEF CloseHeld
    <2>4. held' = [held EXCEPT ![p] = Tail(held[p])]
        BY <1>4 DEF CloseHeld
    <2>5. pc' = [pc EXCEPT ![p] = IF Len(held[p]) = 1 THEN "user" ELSE "close"]
        BY <1>4 DEF CloseHeld, Goto
    <2>6. ASSUME NEW q \in Procs, NEW i \in 1..Len(held'[q]), pc'[q] \in Holding
          PROVE  \E k \in 1..Len(held[q]) :
                     /\ held'[q][i] = held[q][k] /\ pc[q] \in Holding
                     /\ pc'[q] = pc[q]
                     /\ q = p => i = 1 /\ k = 2
                     /\ q # p => k = i
        <3>1. CASE q # p
            BY <1>t, <2>4, <2>5, <2>6, <3>1
        <3>2. CASE q = p
            <4>1. Len(held[p]) = 2 /\ pc'[p] = "close" /\ pc[p] = "close"
                BY ZenonT(60), <1>4, <1>t, <2>1, <2>5, <2>6, <3>2 DEF Holding,
                   CloseHeld, At
            <4>2. held'[p] = Tail(held[p]) /\ Len(held'[p]) = 1
                  /\ Tail(held[p])[1] = held[p][2] /\ 2 \in 1..Len(held[p])
                BY <1>t, <2>1, <2>4, <4>1, HeldHead
            <4>3. i \in 1..1
                BY Zenon, <3>2, <4>2
            <4>4. i = 1
                BY <4>3
            <4> QED
                BY <2>1, <2>6, <3>2, <4>1, <4>2, <4>4
        <3> QED
            BY <3>1, <3>2
    <2>7. ASSUME NEW q \in Procs, NEW i \in 1..Len(held'[q]), pc'[q] \in Holding
          PROVE  held'[q][i] \in FileIds /\ held'[q][i] # f
        <3>1. PICK k \in 1..Len(held[q]) :
                     /\ held'[q][i] = held[q][k] /\ pc[q] \in Holding
                     /\ q = p => k = 2
            BY <2>6, <2>7
        <3>2. held[q][k] \in FileIds
            BY <1>t, HeldLen
        <3> QED
            BY <1>t, <2>1, <2>2, <3>1, <3>2 DEF HeldInv
    <2> SUFFICES ASSUME NEW q \in Procs, NEW i \in 1..Len(held'[q]),
                        pc'[q] \in Holding
              PROVE  /\ ref'[held'[q][i]] = 1
                     /\ \A r \in Procs, c \in Fds : OpenFile'[r][c] # held'[q][i]
                     /\ \A r \in Procs : \A j \in 1..Len(held'[r]) :
                            pc'[r] \in Holding /\ held'[r][j] = held'[q][i]
                                => r = q /\ j = i
                     /\ pc'[q] \in {"pipe", "page"} =>
                            file'[held'[q][i]] = NoFile
                     /\ pc'[q] = "exec" => file'[held'[q][i]].type = "FILE"
        BY Zenon DEF HeldInv, Holding
    <2>8. PICK k \in 1..Len(held[q]) :
              /\ held'[q][i] = held[q][k] /\ pc[q] \in Holding /\ pc'[q] = pc[q]
              /\ q = p => i = 1 /\ k = 2
              /\ q # p => k = i
        BY <2>6
    <2>9. held'[q][i] \in FileIds /\ held'[q][i] # f
        BY <2>7
    <2>10. ASSUME NEW r \in Procs, NEW j \in 1..Len(held'[r]),
                  pc'[r] \in Holding, held'[r][j] = held'[q][i]
           PROVE  r = q /\ j = i
        <3>1. PICK l \in 1..Len(held[r]) :
              /\ held'[r][j] = held[r][l] /\ pc[r] \in Holding
              /\ r = p => j = 1 /\ l = 2
              /\ r # p => l = j
            BY <2>6, <2>10
        <3>2. r = q /\ l = k
            <4>1. held[r][l] = held[q][k]
                BY <2>8, <2>10, <3>1
            <4> QED
                BY Zenon, <1>u, <2>8, <3>1, <4>1
        <3> QED
            BY <2>8, <3>1, <3>2
    <2> QED
        BY <1>t, <2>3, <2>8, <2>9, <2>10 DEF HeldInv
<1>5. ASSUME NEW p \in Procs, ForkNoMemory(p)
       PROVE  HeldInv'
    <2>a. np[p] \in Procs
        BY Zenon, <1>5 DEF ForkNoMemory, At, IInv, ForkInv, Forking
    <2>1. \A q \in Procs : pc'[q] \in Holding =>
              /\ held'[q] = held[q] /\ pc[q] \in Holding
              /\ pc'[q] = pc[q] \/ pc'[q] = "close"
        BY Zenon, <1>5, <1>t, <2>a DEF ForkNoMemory, At, Goto, Holding,
           callVars
    <2>2. UNCHANGED <<ref, file, OpenFile>>
        BY <1>5 DEF ForkNoMemory, fileVars
    <2> QED
        BY Zenon, <1>t, <2>1, <2>2, HeldSame
<1>6. ASSUME NEW p \in Procs, ForkCopied(p)
       PROVE  HeldInv'
    <2>1. \A q \in Procs : pc'[q] \in Holding =>
              /\ held'[q] = held[q] /\ pc[q] \in Holding
              /\ pc'[q] = pc[q] \/ pc'[q] = "close"
        BY Zenon, <1>6, <1>t DEF ForkCopied, At, Goto, Holding, callVars
    <2>2. UNCHANGED <<ref, file, OpenFile>>
        BY <1>6 DEF ForkCopied, fileVars
    <2> QED
        BY Zenon, <1>t, <2>1, <2>2, HeldSame
<1>7. ASSUME NEW p \in Procs, ForkDup(p)
       PROVE  HeldInv'
    <2>n. np[p] \in Procs /\ \A d \in left[p] : OpenFile[p][d] # Null
        BY Zenon, <1>7 DEF ForkDup, At, IInv, ForkInv, Forking
    <2>p. PICK d \in Fds : /\ OpenFile[p][d] # Null
                        /\ fileDup(OpenFile[p][d])
                        /\ OpenFile' = [OpenFile EXCEPT ![np[p]][d] = OpenFile[p][d]]
        BY Zenon, <1>7, <2>n DEF ForkDup, Lowest
    <2> DEFINE f == OpenFile[p][d]
    <2>1. f \in FileIds /\ ref[f] > 0
        BY <2>p, InUse
    <2>2. \A q \in Procs : pc'[q] \in Holding =>
              /\ held'[q] = held[q] /\ pc[q] \in Holding
              /\ pc'[q] = pc[q] \/ pc'[q] = "close"
        BY Zenon, <1>7, <1>t DEF ForkDup, At, Goto, Holding, callVars
    <2>3. \A q \in Procs : \A i \in 1..Len(held[q]) :
              pc'[q] \in Holding => held[q][i] # f
        BY <1>t, <2>2, NamedNotHeld
    <2> HIDE DEF f
    <2>4. \A g \in FileIds : g # f => ref'[g] = ref[g] /\ file'[g] = file[g]
        BY <1>7, <1>t, <2>p, <2>1, DupFile DEF ForkDup, f
    <2>5. \A r \in Procs, c \in Fds :
              OpenFile'[r][c] = OpenFile[r][c] \/ OpenFile'[r][c] \in {f, Null}
        BY <1>t, <2>p, <2>n DEF f
    <2> QED
        BY Zenon, <1>t, <2>2, <2>3, <2>4, <2>5, HeldOther
<1>8. ASSUME NEW p \in Procs, ForkPublish(p)
       PROVE  HeldInv'
    <2>a. np[p] \in Procs
        BY Zenon, <1>8 DEF ForkPublish, At, IInv, ForkInv, Forking
    <2>1. \A q \in Procs : pc'[q] \in Holding =>
              /\ held'[q] = held[q] /\ pc[q] \in Holding
              /\ pc'[q] = pc[q] \/ pc'[q] = "close"
        BY Zenon, <1>8, <1>t, <2>a DEF ForkPublish, At, Goto, Holding, callVars
    <2>2. UNCHANGED <<ref, file, OpenFile>>
        BY <1>8 DEF ForkPublish, fileVars
    <2> QED
        BY Zenon, <1>t, <2>1, <2>2, HeldSame
<1>9. ASSUME NEW p \in Procs, Exit(p)
       PROVE  HeldInv'
    <2>1. \A q \in Procs : pc'[q] \in Holding =>
              /\ held'[q] = held[q] /\ pc[q] \in Holding
              /\ pc'[q] = pc[q] \/ pc'[q] = "close"
        BY Zenon, <1>9, <1>t DEF Exit, At, Goto, Holding, callVars
    <2>2. UNCHANGED <<ref, file, OpenFile>>
        BY <1>9 DEF Exit, fileVars
    <2> QED
        BY Zenon, <1>t, <2>1, <2>2, HeldSame
<1>10. ASSUME NEW p \in Procs, ExitClose(p)
       PROVE  HeldInv'
    <2>p. PICK d \in Fds : /\ OpenFile[p][d] # Null
                        /\ fileClose(p, OpenFile[p][d])
                        /\ OpenFile' = [OpenFile EXCEPT ![p][d] = Null]
        BY Zenon, <1>10 DEF ExitClose, Lowest, OpenFds
    <2> DEFINE f == OpenFile[p][d]
    <2>1. f \in FileIds /\ ref[f] > 0
        BY <2>p, InUse
    <2>2. \A q \in Procs : pc'[q] \in Holding =>
              /\ held'[q] = held[q] /\ pc[q] \in Holding
              /\ pc'[q] = pc[q] \/ pc'[q] = "close"
        BY ZenonT(60), <1>10, <1>t DEF ExitClose, At, Goto, Holding, callVars
    <2>3. \A q \in Procs : \A i \in 1..Len(held[q]) :
              pc'[q] \in Holding => held[q][i] # f
        BY <1>t, <2>2, NamedNotHeld
    <2> HIDE DEF f
    <2>4. \A g \in FileIds : g # f => ref'[g] = ref[g] /\ file'[g] = file[g]
        BY <1>t, <2>p, <2>1, CloseFile DEF f
    <2>5. \A r \in Procs, c \in Fds :
              OpenFile'[r][c] = OpenFile[r][c] \/ OpenFile'[r][c] \in {f, Null}
        BY <1>t, <2>p DEF f
    <2> QED
        BY Zenon, <1>t, <2>2, <2>3, <2>4, <2>5, HeldOther
<1>11. ASSUME NEW p \in Procs, ExitDone(p)
       PROVE  HeldInv'
    <2>1. \A q \in Procs : pc'[q] \in Holding =>
              /\ held'[q] = held[q] /\ pc[q] \in Holding
              /\ pc'[q] = pc[q] \/ pc'[q] = "close"
        BY Zenon, <1>11, <1>t DEF ExitDone, At, Goto, Holding, callVars
    <2>2. UNCHANGED <<ref, file, OpenFile>>
        BY <1>11 DEF ExitDone, fileVars
    <2> QED
        BY Zenon, <1>t, <2>1, <2>2, HeldSame
<1>12. ASSUME NEW p \in Procs, ExecFail(p)
       PROVE  HeldInv'
    <2>1. \A q \in Procs : pc'[q] \in Holding =>
              /\ held'[q] = held[q] /\ pc[q] \in Holding
              /\ pc'[q] = pc[q] \/ pc'[q] = "close"
        BY Zenon, <1>12, <1>t DEF ExecFail, At, Goto, Holding, callVars
    <2>2. UNCHANGED <<ref, file, OpenFile>>
        BY <1>12 DEF ExecFail, fileVars
    <2> QED
        BY Zenon, <1>t, <2>1, <2>2, HeldSame
<1>13. ASSUME NEW p \in Procs, ExecLoaded(p)
       PROVE  HeldInv'
    <2> DEFINE f == held[p][1]
    <2>1. f \in FileIds /\ ref[f] > 0
        BY Zenon, <1>13, InUse DEF ExecLoaded, At, Holding
    <2>2. \A q \in Procs : pc'[q] \in Holding =>
              /\ held'[q] = held[q] /\ pc[q] \in Holding
              /\ pc'[q] = pc[q] \/ pc'[q] = "close"
        BY Zenon, <1>13, <1>t DEF ExecLoaded, At, Goto, Holding, callVars
    <2>3. \A q \in Procs : \A i \in 1..Len(held[q]) :
              pc'[q] \in Holding => held[q][i] # f
        <3>1. /\ pc[p] \in Holding /\ pc'[p] \notin Holding
              /\ 1 \in 1..Len(held[p])
            BY ZenonT(60), <1>13, <1>t, InUse DEF ExecLoaded, At, Goto, Holding
        <3> QED
            BY Zenon, <1>u, <2>2, <3>1
    <2> HIDE DEF f
    <2>4. \A g \in FileIds : g # f => ref'[g] = ref[g] /\ file'[g] = file[g]
        <3>1. fileClose(p, f)
            BY Zenon, <1>13, InUse DEF ExecLoaded, At, Holding, f
        <3> QED
            BY <1>t, <2>1, <3>1, CloseFile
    <2>5. \A r \in Procs, c \in Fds :
              OpenFile'[r][c] = OpenFile[r][c] \/ OpenFile'[r][c] \in {f, Null}
        BY <1>13, <1>t DEF ExecLoaded, f
    <2> QED
        BY Zenon, <1>t, <2>2, <2>3, <2>4, <2>5, HeldOther
<1>14. ASSUME NEW p \in Procs, ExecDone(p)
       PROVE  HeldInv'
    <2>1. \A q \in Procs : pc'[q] \in Holding =>
              /\ held'[q] = held[q] /\ pc[q] \in Holding
              /\ pc'[q] = pc[q] \/ pc'[q] = "close"
        BY Zenon, <1>14, <1>t DEF ExecDone, At, Goto, Holding, callVars
    <2>2. UNCHANGED <<ref, file, OpenFile>>
        BY <1>14 DEF ExecDone, fileVars
    <2> QED
        BY Zenon, <1>t, <2>1, <2>2, HeldSame
<1>15. ASSUME NEW p \in Procs, NEW d \in Fds, sys_close(p, d)
       PROVE  HeldInv'
    <2> DEFINE f == OpenFile[p][d]
    <2>1. f \in FileIds /\ ref[f] > 0
        BY <1>15, InUse DEF sys_close
    <2>2. \A q \in Procs : pc'[q] \in Holding =>
              /\ held'[q] = held[q] /\ pc[q] \in Holding
              /\ pc'[q] = pc[q] \/ pc'[q] = "close"
        BY ZenonT(60), <1>15, <1>t DEF sys_close, At, Goto, Holding, callVars
    <2>3. \A q \in Procs : \A i \in 1..Len(held[q]) :
              pc'[q] \in Holding => held[q][i] # f
        BY <1>t, <2>2, NamedNotHeld
    <2> HIDE DEF f
    <2>4. \A g \in FileIds : g # f => ref'[g] = ref[g] /\ file'[g] = file[g]
        BY <1>15, <1>t, <2>1, CloseFile DEF sys_close, f
    <2>5. \A r \in Procs, c \in Fds :
              OpenFile'[r][c] = OpenFile[r][c] \/ OpenFile'[r][c] \in {f, Null}
        BY <1>15, <1>t DEF sys_close, f
    <2> QED
        BY Zenon, <1>t, <2>2, <2>3, <2>4, <2>5, HeldOther
<1>16. ASSUME NEW p \in Procs, NEW d \in Fds, sys_read(p, d)
       PROVE  HeldInv'
    <2>1. \A q \in Procs : pc'[q] \in Holding =>
              /\ held'[q] = held[q] /\ pc[q] \in Holding
              /\ pc'[q] = pc[q] \/ pc'[q] = "close"
        BY Zenon, <1>16, <1>t DEF sys_read, At, Goto, Holding, callVars
    <2>2. UNCHANGED <<ref, file, OpenFile>>
        BY <1>16 DEF sys_read, fileVars
    <2> QED
        BY Zenon, <1>t, <2>1, <2>2, HeldSame
<1>17. ASSUME NEW p \in Procs, NEW d \in Fds, sys_write(p, d)
       PROVE  HeldInv'
    <2>1. \A q \in Procs : pc'[q] \in Holding =>
              /\ held'[q] = held[q] /\ pc[q] \in Holding
              /\ pc'[q] = pc[q] \/ pc'[q] = "close"
        BY Zenon, <1>17, <1>t DEF sys_write, At, Goto, Holding, callVars
    <2>2. UNCHANGED <<ref, file, OpenFile>>
        BY <1>17 DEF sys_write, fileVars
    <2> QED
        BY Zenon, <1>t, <2>1, <2>2, HeldSame
<1>18. ASSUME NEW p \in Procs, NEW d \in Fds, NEW e \in Fds, DupInstall(p, d, e)
       PROVE  HeldInv'
    <2> DEFINE f == OpenFile[p][d]
    <2>1. f \in FileIds /\ ref[f] > 0
        BY <1>18, InUse DEF DupInstall
    <2>2. \A q \in Procs : pc'[q] \in Holding =>
              /\ held'[q] = held[q] /\ pc[q] \in Holding
              /\ pc'[q] = pc[q] \/ pc'[q] = "close"
        BY Zenon, <1>18, <1>t DEF DupInstall, At, Goto, Holding, callVars
    <2>3. \A q \in Procs : \A i \in 1..Len(held[q]) :
              pc'[q] \in Holding => held[q][i] # f
        BY <1>t, <2>2, NamedNotHeld
    <2> HIDE DEF f
    <2>4. \A g \in FileIds : g # f => ref'[g] = ref[g] /\ file'[g] = file[g]
        BY <1>18 DEF DupInstall, fileVars
    <2>5. \A r \in Procs, c \in Fds :
              OpenFile'[r][c] = OpenFile[r][c] \/ OpenFile'[r][c] \in {f, Null}
        BY <1>18, <1>t DEF DupInstall, f
    <2> QED
        BY Zenon, <1>t, <2>2, <2>3, <2>4, <2>5, HeldOther
<1>19. ASSUME NEW p \in Procs, NEW f \in FileIds, PipeFirst(p, f)
       PROVE  HeldInv'
    <2>1. /\ pc[p] = "user" /\ FirstFreeFile(f)
          /\ ref' = [ref EXCEPT ![f] = 1] /\ OpenFile' = OpenFile
          /\ held' = [held EXCEPT ![p] = <<f>>] /\ Goto(p, "pipe")
        BY Zenon, <1>19 DEF PipeFirst, At
    <2>2. \A g \in FileIds : g # f => file'[g] = file[g]
        BY <1>19, <1>t DEF PipeFirst
    <2>3. file'[f] = NoFile
        BY <1>19, <2>1, FreeFile DEF PipeFirst
    <2> QED
        BY Zenon, <2>1, <2>2, <2>3, HeldFirst
<1>20. ASSUME NEW p \in Procs, NEW f \in FileIds, PipeSecond(p, f)
       PROVE  HeldInv'
    <2>1. /\ pc[p] = "pipe" /\ held[p] \in HeldFiles /\ Len(held[p]) = 1
        BY Zenon, <1>20, <1>t DEF PipeSecond, At, IInv, CallInv
    <2>2. /\ ref' = [ref EXCEPT ![f] = 1] /\ OpenFile' = OpenFile /\ file' = file
          /\ held' = [held EXCEPT ![p] = Append(held[p], f)]
          /\ pc' = [pc EXCEPT ![p] = "page"]
        BY <1>20 DEF PipeSecond, Goto
    <2>3. /\ \A r \in Procs, c \in Fds : OpenFile[r][c] # f
          /\ \A r \in Procs : \A i \in 1..Len(held[r]) :
                 pc[r] \in Holding => held[r][i] # f
        BY Zenon, <1>20, FreeFile DEF PipeSecond
    <2>4. file[f] = NoFile
        BY ZenonT(60), <1>20, FreeFile DEF PipeSecond
    <2>5. /\ Len(held'[p]) = 2 /\ held'[p][1] = held[p][1] /\ held'[p][2] = f
          /\ 1 \in 1..Len(held[p])
        BY <1>t, <2>1, <2>2, HeldAppend
    <2>6. ASSUME NEW q \in Procs, NEW i \in 1..Len(held'[q]), pc'[q] \in Holding
          PROVE  \/ q = p /\ i = 2 /\ held'[q][i] = f
                 \/ /\ pc[q] \in Holding /\ i \in 1..Len(held[q])
                    /\ held'[q][i] = held[q][i] /\ held'[q][i] # f
                    /\ held'[q][i] \in FileIds
                    /\ pc'[q] = pc[q] \/ q = p
        <3>1. CASE q # p
            <4>1. held'[q] = held[q] /\ pc'[q] = pc[q]
                BY <1>t, <2>2, <3>1
            <4>2. held[q][i] \in FileIds
                BY <1>t, <4>1, HeldLen
            <4> QED
                BY <2>3, <2>6, <4>1, <4>2
        <3>2. CASE q = p
            <4>0. i \in 1..2
                BY Zenon, <2>5, <3>2
            <4>1. i \in {1, 2}
                BY <4>0
            <4>2. held[p][1] \in FileIds
                BY <1>t, <2>5, HeldLen
            <4> QED
                BY <2>1, <2>3, <2>5, <3>2, <4>1, <4>2 DEF Holding
        <3> QED
            BY <3>1, <3>2
    <2> SUFFICES ASSUME NEW q \in Procs, NEW i \in 1..Len(held'[q]),
                        pc'[q] \in Holding
              PROVE  /\ ref'[held'[q][i]] = 1
                     /\ \A r \in Procs, c \in Fds : OpenFile'[r][c] # held'[q][i]
                     /\ \A r \in Procs : \A j \in 1..Len(held'[r]) :
                            pc'[r] \in Holding /\ held'[r][j] = held'[q][i]
                                => r = q /\ j = i
                     /\ pc'[q] \in {"pipe", "page"} =>
                            file'[held'[q][i]] = NoFile
                     /\ pc'[q] = "exec" => file'[held'[q][i]].type = "FILE"
        BY Zenon DEF HeldInv, Holding
    <2>7. CASE q = p /\ i = 2 /\ held'[q][i] = f
        BY <1>t, <2>1, <2>2, <2>3, <2>4, <2>6, <2>7
    <2>8. CASE /\ pc[q] \in Holding /\ i \in 1..Len(held[q])
               /\ held'[q][i] = held[q][i] /\ held'[q][i] # f
               /\ held'[q][i] \in FileIds
               /\ pc'[q] = pc[q] \/ q = p
        <3>1. ref'[held'[q][i]] = 1
            BY <1>t, <2>2, <2>8 DEF HeldInv
        <3>2. ASSUME NEW r \in Procs, NEW j \in 1..Len(held'[r]),
                     pc'[r] \in Holding, held'[r][j] = held'[q][i]
              PROVE  r = q /\ j = i
            <4>1. /\ pc[r] \in Holding /\ j \in 1..Len(held[r])
                  /\ held'[r][j] = held[r][j]
                BY ZenonT(60), <2>6, <2>8, <3>2
            <4>2. held[r][j] = held[q][i]
                BY <2>8, <3>2, <4>1
            <4> QED
                BY Zenon, <1>u, <2>8, <4>1, <4>2
        <3>3. /\ pc'[q] \in {"pipe", "page"} => file'[held'[q][i]] = NoFile
              /\ pc'[q] = "exec" => file'[held'[q][i]].type = "FILE"
            BY <1>t, <2>1, <2>2, <2>8 DEF HeldInv
        <3> QED
            BY <1>t, <2>2, <2>8, <3>1, <3>2, <3>3 DEF HeldInv
    <2> QED
        BY <2>6, <2>7, <2>8
<1>21. ASSUME NEW p \in Procs, NEW f \in FileIds, ExecOpen(p, f)
       PROVE  HeldInv'
    <2>1. /\ pc[p] = "user" /\ FirstFreeFile(f)
          /\ ref' = [ref EXCEPT ![f] = 1] /\ OpenFile' = OpenFile
          /\ held' = [held EXCEPT ![p] = <<f>>] /\ Goto(p, "exec")
        BY Zenon, <1>21 DEF ExecOpen, At
    <2>2. \A g \in FileIds : g # f => file'[g] = file[g]
        BY <1>21, <1>t DEF ExecOpen
    <2>3. file'[f].type = "FILE"
        BY <1>21, <1>t, Records DEF ExecOpen
    <2> QED
        BY Zenon, <2>1, <2>2, <2>3, HeldFirst
<1>22. ASSUME NEW p \in Procs, NEW f \in FileIds, NEW m \in Modes, Open(p, f, m)
       PROVE  HeldInv'
    <2>1. CASE held' = held /\ pc' = pc
        <3>1. /\ \A r \in Procs, c \in Fds : OpenFile[r][c] # f
              /\ \A r \in Procs : \A i \in 1..Len(held[r]) :
                     pc[r] \in Holding => held[r][i] # f
            BY Zenon, <1>22, FreeFile DEF Open
        <3>2. \A q \in Procs : pc'[q] \in Holding =>
                  /\ held'[q] = held[q] /\ pc[q] \in Holding
                  /\ pc'[q] = pc[q] \/ pc'[q] = "close"
            BY <1>t, <2>1 DEF Holding
        <3>3. \A g \in FileIds : g # f => ref'[g] = ref[g] /\ file'[g] = file[g]
            BY <1>22, <1>t DEF Open
        <3>4. \A r \in Procs, c \in Fds :
                  OpenFile'[r][c] = OpenFile[r][c] \/ OpenFile'[r][c] \in {f, Null}
            BY <1>22, <1>t DEF Open
        <3>5. \A q \in Procs : \A i \in 1..Len(held[q]) :
                  pc'[q] \in Holding => held[q][i] # f
            BY Zenon, <3>1, <3>2
        <3> QED
            BY Zenon, <1>t, <3>2, <3>3, <3>4, <3>5, HeldOther
    <2>2. CASE /\ held' = [held EXCEPT ![p] = <<f>>]
               /\ Goto(p, "close") /\ OpenFile' = OpenFile
        <3>1. /\ pc[p] = "user" /\ FirstFreeFile(f)
              /\ ref' = [ref EXCEPT ![f] = 1]
            BY Zenon, <1>22 DEF Open, At
        <3>2. \A g \in FileIds : g # f => file'[g] = file[g]
            BY <1>22, <1>t DEF Open
        <3> QED
            BY Zenon, <2>2, <3>1, <3>2, HeldFirst
    <2> QED
        BY <1>22, <2>1, <2>2 DEF Open
<1>23. ASSUME NEW p \in Procs, NEW k \in Pipes, PipeMake(p, k)
       PROVE  HeldInv'
    <2>1. /\ pc[p] = "page" /\ ref' = ref
          /\ \A g \in FileIds : g # held[p][1] /\ g # held[p][2]
                 => file'[g] = file[g]
        BY Zenon, <1>23, <1>t DEF PipeMake, At
    <2>2. \A q \in Procs : pc'[q] \in Holding =>
              /\ held'[q] = held[q] /\ pc[q] \in Holding
              /\ pc'[q] = IF q = p THEN "close" ELSE pc[q]
        BY ZenonT(60), <1>23, <1>t DEF PipeMake, At, Goto, Holding
    <2>3. \A r \in Procs, c \in Fds :
              \/ OpenFile'[r][c] = OpenFile[r][c]
              \/ OpenFile'[r][c] \in {held[p][1], held[p][2]} /\ pc'[p] = "user"
        <3>1. CASE OpenFile' = OpenFile
            BY <3>1
        <3>2. CASE pc'[p] = "user" /\ OpenFile' # OpenFile
            <4>1. PICK d, e \in Fds :
                      OpenFile' = [OpenFile EXCEPT ![p][d] = held[p][1],
                                                   ![p][e] = held[p][2]]
                BY Zenon, <1>23, <3>2 DEF PipeMake, FreeFds
            <4>2. \A r \in Procs : r # p => OpenFile'[r] = OpenFile[r]
                BY <1>t, <4>1
            <4>3. \A c \in Fds : \/ OpenFile'[p][c] = OpenFile[p][c]
                                 \/ OpenFile'[p][c] \in {held[p][1], held[p][2]}
                BY <1>t, <4>1
            <4> QED
                BY <3>2, <4>2, <4>3
        <3> QED
            BY <1>23, <1>t, <3>1, <3>2 DEF PipeMake, Goto
    <2>4. held[p] \in HeldFiles /\ Len(held[p]) = 2 /\ pc[p] \in Holding
        BY <1>t, <2>1 DEF IInv, CallInv, Holding
    <2>5. 1 \in 1..Len(held[p]) /\ 2 \in 1..Len(held[p])
        BY <2>4
    <2> SUFFICES ASSUME NEW q \in Procs, NEW i \in 1..Len(held'[q]),
                        pc'[q] \in Holding
              PROVE  /\ ref'[held'[q][i]] = 1
                     /\ \A r \in Procs, c \in Fds : OpenFile'[r][c] # held'[q][i]
                     /\ \A r \in Procs : \A j \in 1..Len(held'[r]) :
                            pc'[r] \in Holding /\ held'[r][j] = held'[q][i]
                                => r = q /\ j = i
                     /\ pc'[q] \in {"pipe", "page"} =>
                            file'[held'[q][i]] = NoFile
                     /\ pc'[q] = "exec" => file'[held'[q][i]].type = "FILE"
        BY ZenonT(60) DEF HeldInv, Holding
    <2>6. /\ held'[q] = held[q] /\ pc[q] \in Holding /\ i \in 1..Len(held[q])
          /\ held[q][i] \in FileIds
        BY <1>t, <2>2, HeldLen
    <2>7. /\ ref'[held[q][i]] = 1
          /\ \A r \in Procs, c \in Fds : OpenFile[r][c] # held[q][i]
        BY <1>t, <2>1, <2>6 DEF HeldInv
    <2>8. q # p => held[q][i] # held[p][1] /\ held[q][i] # held[p][2]
        BY Zenon, <1>u, <2>4, <2>5, <2>6
    <2>9. pc'[p] = "user" => q # p
        BY DEF Holding
    <2>10. \A r \in Procs, c \in Fds : OpenFile'[r][c] # held[q][i]
        BY ZenonT(60), <2>3, <2>7, <2>8, <2>9
    <2>11. \A r \in Procs : \A j \in 1..Len(held'[r]) :
               pc'[r] \in Holding /\ held'[r][j] = held'[q][i] => r = q /\ j = i
        <3> SUFFICES ASSUME NEW r \in Procs, NEW j \in 1..Len(held'[r]),
                            pc'[r] \in Holding, held'[r][j] = held'[q][i]
                     PROVE  r = q /\ j = i
            OBVIOUS
        <3>1. /\ held'[r] = held[r] /\ pc[r] \in Holding
              /\ j \in 1..Len(held[r])
            BY Zenon, <2>2
        <3>2. held[r][j] = held[q][i]
            BY ZenonT(60), <2>6, <3>1
        <3> QED
            BY Zenon, <1>u, <2>6, <3>1, <3>2
    <2>12. /\ pc'[q] \in {"pipe", "page"} => file'[held'[q][i]] = NoFile
           /\ pc'[q] = "exec" => file'[held'[q][i]].type = "FILE"
        BY <1>t, <2>1, <2>2, <2>6, <2>8 DEF HeldInv
    <2> QED
        BY Zenon, <2>6, <2>7, <2>10, <2>11, <2>12
<1>24. ASSUME NEW p \in Procs, NEW q \in Procs, ForkNullFile(p, q)
       PROVE  HeldInv'
    <2>1. \A o \in Procs : pc'[o] \in Holding =>
              /\ held'[o] = held[o] /\ pc[o] \in Holding
              /\ pc'[o] = pc[o] \/ pc'[o] = "close"
        BY ZenonT(60), <1>24, <1>t DEF ForkNullFile, ForkGot, Holding
    <2>2. \A h \in FileIds : h # Null => ref'[h] = ref[h] /\ file'[h] = file[h]
        BY <1>24 DEF ForkNullFile, fileVars
    <2>3. \A r \in Procs, c \in Fds :
              OpenFile'[r][c] = OpenFile[r][c] \/ OpenFile'[r][c] \in {Null, Null}
        BY <1>24, <1>t DEF ForkNullFile
    <2>4. \A r \in Procs : \A i \in 1..Len(held[r]) :
              pc'[r] \in Holding => held[r][i] # Null
        BY <1>t, HeldLen, Constants
    <2> QED
        BY Zenon, <1>t, <2>1, <2>2, <2>3, <2>4, HeldOther
<1>25. ASSUME NEW p \in Procs, NEW q \in Procs, NEW f \in FileIds, ForkAllocate(p, q, f)
       PROVE  HeldInv'
    <2>1. /\ \A r \in Procs, c \in Fds : OpenFile[r][c] # f
          /\ \A r \in Procs : \A i \in 1..Len(held[r]) :
                 pc[r] \in Holding => held[r][i] # f
        BY Zenon, <1>25, FreeFile DEF ForkAllocate
    <2>2. \A o \in Procs : pc'[o] \in Holding =>
              /\ held'[o] = held[o] /\ pc[o] \in Holding
              /\ pc'[o] = pc[o] \/ pc'[o] = "close"
        BY <1>25, <1>t DEF ForkAllocate, ForkGot, Holding
    <2>3. \A g \in FileIds : g # f => ref'[g] = ref[g] /\ file'[g] = file[g]
        BY <1>25, <1>t DEF ForkAllocate
    <2>4. \A r \in Procs, c \in Fds :
              OpenFile'[r][c] = OpenFile[r][c] \/ OpenFile'[r][c] \in {f, Null}
        BY <1>25, <1>t DEF ForkAllocate
    <2>5. \A o \in Procs : \A i \in 1..Len(held[o]) :
              pc'[o] \in Holding => held[o][i] # f
        BY ZenonT(60), <2>1, <2>2
    <2> QED
        BY Zenon, <1>t, <2>2, <2>3, <2>4, <2>5, HeldOther
<1>26. CASE UNCHANGED sysVars
    BY <1>26, <1>t DEF sysVars, fileVars, callVars, HeldInv
<1> QED
    BY Zenon, <1>1, <1>2, <1>3, <1>4, <1>5, <1>6, <1>7, <1>8, <1>9, <1>10,
       <1>11, <1>12, <1>13, <1>14, <1>15, <1>16, <1>17, <1>18, <1>19, <1>20,
       <1>21, <1>22, <1>23, <1>24, <1>25, <1>26 DEF Step, Panicked

(* No step reaches the panics of fileClose() and fileRead().                *)
LEMMA PanicStep ==
    ASSUME IInv, [Step]_sysVars
    PROVE  PanicInv'
<1>t. /\ file \in [FileIds -> FileRecords] /\ SysTypes /\ PanicInv
    BY Zenon DEF IInv, SysTypes
<1>1. ASSUME NEW p \in Procs, PipeClose(p)
       PROVE  PanicInv'
    BY Zenon, <1>1 DEF PipeClose, PanicInv
<1>2. ASSUME NEW p \in Procs, DupCount(p)
       PROVE  PanicInv'
    <2>1. PICK f \in FileIds : ref[f] > 0 /\ fileDup(f)
        BY Zenon, <1>2, InUse DEF DupCount, At
    <2>2. panicked = "" /\ panicked' = panicked
        BY Zenon, <1>2, <1>t, <2>1, DupFile DEF DupCount, At
    <2> QED
        BY Zenon, <2>2 DEF PanicInv
<1>3. ASSUME NEW p \in Procs, PipeFail(p)
       PROVE  PanicInv'
    BY Zenon, <1>3 DEF PipeFail, At, PanicInv
<1>4. ASSUME NEW p \in Procs, CloseHeld(p)
       PROVE  PanicInv'
    <2>1. PICK f \in FileIds : ref[f] > 0 /\ fileClose(p, f)
        BY Zenon, <1>4, InUse DEF CloseHeld, At, Holding
    <2>2. panicked = "" /\ panicked' = panicked
        BY Zenon, <1>4, <1>t, <2>1, CloseFile DEF CloseHeld, At
    <2> QED
        BY Zenon, <2>2 DEF PanicInv
<1>5. ASSUME NEW p \in Procs, ForkNoMemory(p)
       PROVE  PanicInv'
    BY Zenon, <1>5 DEF ForkNoMemory, At, PanicInv
<1>6. ASSUME NEW p \in Procs, ForkCopied(p)
       PROVE  PanicInv'
    BY Zenon, <1>6 DEF ForkCopied, At, PanicInv
<1>7. ASSUME NEW p \in Procs, ForkDup(p)
       PROVE  PanicInv'
    <2>1. \A d \in left[p] : OpenFile[p][d] # Null
        BY Zenon, <1>7 DEF ForkDup, At, IInv, ForkInv, Forking
    <2>2. PICK d \in Fds : OpenFile[p][d] # Null /\ fileDup(OpenFile[p][d])
        BY <1>7, <2>1 DEF ForkDup, Lowest
    <2>3. PICK f \in FileIds : ref[f] > 0 /\ fileDup(f)
        BY Zenon, <2>2, InUse
    <2>4. panicked = "" /\ panicked' = panicked
        BY Zenon, <1>7, <1>t, <2>3, DupFile DEF ForkDup, At
    <2> QED
        BY Zenon, <2>4 DEF PanicInv
<1>8. ASSUME NEW p \in Procs, ForkPublish(p)
       PROVE  PanicInv'
    BY Zenon, <1>8 DEF ForkPublish, At, PanicInv
<1>9. ASSUME NEW p \in Procs, Exit(p)
       PROVE  PanicInv'
    BY Zenon, <1>9 DEF Exit, At, PanicInv
<1>10. ASSUME NEW p \in Procs, ExitClose(p)
       PROVE  PanicInv'
    <2>1. PICK f \in FileIds : ref[f] > 0 /\ fileClose(p, f)
        <3>1. PICK d \in Fds : /\ OpenFile[p][d] # Null
                            /\ fileClose(p, OpenFile[p][d])
            BY <1>10 DEF ExitClose, Lowest, OpenFds
        <3> QED
            BY <3>1, InUse
    <2>2. panicked = "" /\ panicked' = panicked
        BY Zenon, <1>10, <1>t, <2>1, CloseFile DEF ExitClose, At
    <2> QED
        BY Zenon, <2>2 DEF PanicInv
<1>11. ASSUME NEW p \in Procs, ExitDone(p)
       PROVE  PanicInv'
    BY Zenon, <1>11 DEF ExitDone, At, PanicInv
<1>12. ASSUME NEW p \in Procs, ExecFail(p)
       PROVE  PanicInv'
    BY Zenon, <1>12 DEF ExecFail, At, PanicInv
<1>13. ASSUME NEW p \in Procs, ExecLoaded(p)
       PROVE  PanicInv'
    <2>1. PICK f \in FileIds : ref[f] > 0 /\ fileClose(p, f)
        BY Zenon, <1>13, InUse DEF ExecLoaded, At, Holding
    <2>2. panicked = "" /\ panicked' = panicked
        BY Zenon, <1>13, <1>t, <2>1, CloseFile DEF ExecLoaded, At
    <2> QED
        BY Zenon, <2>2 DEF PanicInv
<1>14. ASSUME NEW p \in Procs, ExecDone(p)
       PROVE  PanicInv'
    BY ZenonT(60), <1>14 DEF ExecDone, At, PanicInv
<1>15. ASSUME NEW p \in Procs, NEW d \in Fds, sys_close(p, d)
       PROVE  PanicInv'
    <2>1. PICK f \in FileIds : ref[f] > 0 /\ fileClose(p, f)
        BY <1>15, InUse DEF sys_close
    <2>2. panicked = "" /\ panicked' = panicked
        BY Zenon, <1>15, <1>t, <2>1, CloseFile DEF sys_close, At
    <2> QED
        BY Zenon, <2>2 DEF PanicInv
<1>16. ASSUME NEW p \in Procs, NEW d \in Fds, sys_read(p, d)
       PROVE  PanicInv'
    <2>1. PICK f \in FileIds : f = OpenFile[p][d] /\ file[f].type # "NONE"
        BY <1>16, InUse DEF sys_read, IInv, OpenInv
    <2>2. file[f].type \in {"DEVICE", "PIPE", "FILE"}
        BY <1>t, <2>1 DEF FileRecords
    <2>3. panicked = "" /\ panicked' = panicked
        BY Zenon, <1>16, <2>1, <2>2 DEF sys_read, At
    <2> QED
        BY Zenon, <2>3 DEF PanicInv
<1>17. ASSUME NEW p \in Procs, NEW d \in Fds, sys_write(p, d)
       PROVE  PanicInv'
    BY Zenon, <1>17 DEF sys_write, At, PanicInv
<1>18. ASSUME NEW p \in Procs, NEW d \in Fds, NEW e \in Fds, DupInstall(p, d, e)
       PROVE  PanicInv'
    BY Zenon, <1>18 DEF DupInstall, At, PanicInv
<1>19. ASSUME NEW p \in Procs, NEW f \in FileIds, PipeFirst(p, f)
       PROVE  PanicInv'
    BY Zenon, <1>19 DEF PipeFirst, At, PanicInv
<1>20. ASSUME NEW p \in Procs, NEW f \in FileIds, PipeSecond(p, f)
       PROVE  PanicInv'
    BY Zenon, <1>20 DEF PipeSecond, At, PanicInv
<1>21. ASSUME NEW p \in Procs, NEW f \in FileIds, ExecOpen(p, f)
       PROVE  PanicInv'
    BY Zenon, <1>21 DEF ExecOpen, At, PanicInv
<1>22. ASSUME NEW p \in Procs, NEW f \in FileIds, NEW m \in Modes, Open(p, f, m)
       PROVE  PanicInv'
    BY Zenon, <1>22 DEF Open, At, PanicInv
<1>23. ASSUME NEW p \in Procs, NEW k \in Pipes, PipeMake(p, k)
       PROVE  PanicInv'
    BY Zenon, <1>23 DEF PipeMake, At, PanicInv
<1>24. ASSUME NEW p \in Procs, NEW q \in Procs, ForkNullFile(p, q)
       PROVE  PanicInv'
    <2>1. panicked = "" /\ NoFreeFile' /\ panicked' \in {"", "fileDup"}
        BY Zenon, <1>24 DEF ForkNullFile, At, NoFreeFile, fileVars
    <2> QED
        BY Zenon, <2>1 DEF PanicInv
<1>25. ASSUME NEW p \in Procs, NEW q \in Procs, NEW f \in FileIds, ForkAllocate(p, q, f)
       PROVE  PanicInv'
    BY Zenon, <1>25 DEF ForkAllocate, At, PanicInv
<1>26. CASE UNCHANGED sysVars
    BY <1>26, <1>t DEF sysVars, fileVars, PanicInv, NoFreeFile
<1> QED
    BY Zenon, <1>1, <1>2, <1>3, <1>4, <1>5, <1>6, <1>7, <1>8, <1>9, <1>10,
       <1>11, <1>12, <1>13, <1>14, <1>15, <1>16, <1>17, <1>18, <1>19, <1>20,
       <1>21, <1>22, <1>23, <1>24, <1>25, <1>26 DEF Step, Panicked
=============================================================================
