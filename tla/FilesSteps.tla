----------------------------- MODULE FilesSteps -----------------------------
(***************************************************************************)
(* Every step of Files keeps the parts of the inductive invariant that are *)
(* about pipes, about fork() and about what a descriptor names, and no step*)
(* closes or changes a File behind a descriptor.                           *)
(***************************************************************************)
EXTENDS FilesInvariant

(* The provers a leaf is tried with, and the time each may take.           *)
USE SMTT(30), Z3T(30), ZenonT(30)

(* Different ends are different Files.                                     *)
LEMMA PipeEndsDiffer ==
    \A i, j \in Pipes, e, b \in {"r", "w"} :
        PipeEnd(i, e) = PipeEnd(j, b) => i = j /\ e = b
    BY DEF PipeEnd

(* An end whose File and fileClose() stay keeps its part of EndInv.        *)
LEMMA EndKeeps ==
    ASSUME NEW k \in Pipes, NEW e \in {"r", "w"}, EndOf(k, e),
           e \in ends'[k] <=> e \in ends[k],
           \A f \in FileIds :
               file'[f] = PipeEnd(k, e) <=> file[f] = PipeEnd(k, e),
           \A p \in Procs :
               closing'[p] = PipeEnd(k, e) <=> closing[p] = PipeEnd(k, e)
    PROVE  EndOf(k, e)'
    BY Zenon DEF EndOf

(* What changes no pipe's File keeps EndInv.                               *)
LEMMA EndFrame ==
    ASSUME EndInv, UNCHANGED <<ends, pages, closing>>,
           \A f \in FileIds :
               \/ file'[f] = file[f]
               \/ file'[f].type # "PIPE" /\ file[f].type # "PIPE"
    PROVE  EndInv'
<1>1. ASSUME NEW f \in FileIds, NEW k \in Pipes, NEW e \in {"r", "w"}
      PROVE  file'[f] = PipeEnd(k, e) <=> file[f] = PipeEnd(k, e)
    BY Records
<1>2. EndFiles'
    BY DEF EndInv, EndFiles
<1>3. PageInv'
    BY DEF EndInv, PageInv
<1>4. ASSUME NEW k \in Pipes, NEW e \in {"r", "w"} PROVE EndOf(k, e)'
    BY Zenon, <1>1, EndKeeps DEF EndInv
<1> QED
    BY Zenon, <1>2, <1>3, <1>4 DEF EndInv

(* fileClose() of the last reference to a pipe's end hands it on to        *)
(* pipeclose().                                                            *)
LEMMA CloseEnd ==
    ASSUME SysTypes, EndInv, NEW p \in Procs, NEW f \in FileIds, ref[f] > 0,
           fileClose(p, f), closing[p] = NoFile, UNCHANGED <<ends, pages>>
    PROVE  EndInv'
<1>1. /\ file' = [file EXCEPT ![f] = IF ref[f] = 1 THEN NoFile ELSE @]
      /\ closing' = [closing EXCEPT ![p] =
                        IF ref[f] = 1 /\ file[f].type = "PIPE"
                        THEN file[f] ELSE @]
    BY Zenon, CloseFile
<1>t. /\ file \in [FileIds -> FileRecords]
      /\ closing \in [Procs -> {NoFile} \cup PipeEnds]
    BY Zenon DEF SysTypes
<1>2. CASE ref[f] = 1 /\ file[f].type = "PIPE"
    <2>1. PICK k \in Pipes, e \in {"r", "w"} : file[f] = PipeEnd(k, e)
        BY Zenon, <1>2 DEF EndInv, EndFiles
    <2>2. /\ file'[f] = NoFile /\ \A g \in FileIds : g # f => file'[g] = file[g]
          /\ closing'[p] = PipeEnd(k, e)
          /\ \A q \in Procs : q # p => closing'[q] = closing[q]
        BY <1>1, <1>t, <1>2, <2>1
    <2>3. /\ \A g \in FileIds : file[g] = PipeEnd(k, e) => g = f
          /\ \A q \in Procs : closing[q] # PipeEnd(k, e)
          /\ e \in ends[k]
        <3>1. EndOf(k, e)
            BY Zenon DEF EndInv
        <3> QED
            BY <2>1, <3>1 DEF EndOf
    <2>4. EndFiles' /\ PageInv'
        <3>1. NoFile.type # "PIPE"
            BY Records
        <3> QED
            BY ZenonT(60), <2>2, <3>1 DEF EndInv, EndFiles, PageInv
    <2>5. ASSUME NEW j \in Pipes, NEW a \in {"r", "w"}
          PROVE  EndOf(j, a)'
        <3>1. PipeEnd(j, a) # NoFile
            BY Records
        <3>2. CASE PipeEnd(j, a) = PipeEnd(k, e)
            <4>1. j = k /\ a = e
                BY <3>2, PipeEndsDiffer
            <4>2. /\ \A g \in FileIds : file'[g] # PipeEnd(k, e)
                  /\ \A q \in Procs : closing'[q] = PipeEnd(k, e) <=> q = p
                BY <2>2, <2>3, <3>1, <3>2
            <4> QED
                BY Zenon, <2>3, <4>1, <4>2 DEF EndOf
        <3>3. CASE PipeEnd(j, a) # PipeEnd(k, e)
            <4>1. /\ \A g \in FileIds : file'[g] = PipeEnd(j, a) <=>
                                            file[g] = PipeEnd(j, a)
                  /\ \A q \in Procs : closing'[q] = PipeEnd(j, a) <=>
                                          closing[q] = PipeEnd(j, a)
                BY <2>1, <2>2, <3>1, <3>3
            <4> QED
                BY Zenon, <4>1, EndKeeps DEF EndInv
        <3> QED
            BY <3>2, <3>3
    <2> QED
        BY Zenon, <2>4, <2>5 DEF EndInv
<1>3. CASE ~(ref[f] = 1 /\ file[f].type = "PIPE")
    <2>1. closing' = closing
        BY <1>1, <1>t, <1>3
    <2>2. \A g \in FileIds :
              \/ file'[g] = file[g]
              \/ file'[g].type # "PIPE" /\ file[g].type # "PIPE"
        BY <1>1, <1>t, <1>3, Records
    <2> QED
        BY <2>1, <2>2, EndFrame
<1> QED
    BY <1>2, <1>3

(* Every step keeps EndInv.                                                 *)
LEMMA EndStep ==
    ASSUME IInv, [Step]_sysVars
    PROVE  EndInv'
<1>t. /\ file \in [FileIds -> FileRecords]
      /\ ends \in [Pipes -> SUBSET {"r", "w"}] /\ pages \subseteq Pipes
      /\ closing \in [Procs -> {NoFile} \cup PipeEnds]
      /\ SysTypes /\ EndInv
    BY Zenon DEF IInv, SysTypes
<1>e. \A k \in Pipes, e \in {"r", "w"} : PipeEnd(k, e) # NoFile
    BY Records
<1>1. ASSUME NEW p \in Procs, PipeClose(p)
       PROVE  EndInv'
    <2>1. PICK k \in Pipes, e \in {"r", "w"} : closing[p] = PipeEnd(k, e)
        <3>1. closing[p] \in PipeEnds
            BY Zenon, <1>1, <1>t, Records DEF PipeClose
        <3> QED
            BY <3>1, Records
    <2>2. /\ ends' = [ends EXCEPT ![k] = ends[k] \ {e}]
          /\ pages' = IF ends[k] \ {e} = {} THEN pages \ {k} ELSE pages
          /\ closing' = [closing EXCEPT ![p] = NoFile] /\ file' = file
        <3>1. closing[p].pipe = k /\ closing[p].mode = {e}
            BY <2>1, Records
        <3> QED
            BY Zenon, <1>1, <3>1 DEF PipeClose, ClosedEnd, fileVars
    <2>3. /\ \A q \in Procs : q # p => closing'[q] = closing[q]
          /\ closing'[p] = NoFile
          /\ \A j \in Pipes : j # k => ends'[j] = ends[j]
          /\ ends'[k] = ends[k] \ {e}
        BY <1>t, <2>2
    <2>4. \A j \in Pipes : j \in pages' <=> ends'[j] # {}
        BY <1>t, <2>2, <2>3 DEF EndInv, PageInv
    <2>o. EndOf(k, e)
        BY Zenon, <1>t DEF EndInv
    <2>5. \A f \in FileIds : file[f] # PipeEnd(k, e)
        BY Zenon, <2>o, <2>1 DEF EndOf
    <2>6. \A q \in Procs : closing[q] = PipeEnd(k, e) => q = p
        BY Zenon, <2>o, <2>1 DEF EndOf
    <2>7. ASSUME NEW j \in Pipes, NEW a \in {"r", "w"}
          PROVE  EndOf(j, a)'
        <3>1. \A q \in Procs : closing'[q] = PipeEnd(j, a) <=>
                                  closing[q] = PipeEnd(j, a) /\ q # p
            BY <2>1, <2>3, <1>e
        <3>2. CASE j = k /\ a = e
            <4>1. /\ a \notin ends'[j]
                  /\ \A q \in Procs : closing'[q] # PipeEnd(j, a)
                BY <2>3, <2>6, <3>1, <3>2
            <4> QED
                BY <2>2, <2>5, <3>2, <4>1 DEF EndOf
        <3>3. CASE ~(j = k /\ a = e)
            <4>1. closing[p] # PipeEnd(j, a)
                BY <2>1, <3>3, PipeEndsDiffer
            <4>2. \A q \in Procs : closing'[q] = PipeEnd(j, a) <=>
                                       closing[q] = PipeEnd(j, a)
                BY Zenon, <3>1, <4>1
            <4>3. a \in ends'[j] <=> a \in ends[j]
                BY <2>3, <3>3
            <4> QED
                BY Zenon, <1>t, <2>2, <4>2, <4>3, EndKeeps DEF EndInv
        <3> QED
            BY <3>2, <3>3
    <2>8. EndFiles'
        BY <1>t, <2>2 DEF EndInv, EndFiles
    <2> QED
        BY Zenon, <2>4, <2>7, <2>8 DEF EndInv, PageInv
<1>2. ASSUME NEW p \in Procs, DupCount(p)
       PROVE  EndInv'
    <2>1. UNCHANGED <<file, ends, pages, closing>>
        BY <1>2 DEF DupCount, fileVars, pipeVars, callVars
    <2> QED
        BY Zenon, <1>t, <2>1, EndFrame
<1>3. ASSUME NEW p \in Procs, PipeFail(p)
       PROVE  EndInv'
    <2>1. UNCHANGED <<file, ends, pages, closing>>
        BY <1>3 DEF PipeFail, fileVars, pipeVars, callVars
    <2> QED
        BY Zenon, <1>t, <2>1, EndFrame
<1>4. ASSUME NEW p \in Procs, CloseHeld(p)
       PROVE  EndInv'
    <2>1. PICK f \in FileIds : ref[f] > 0 /\ fileClose(p, f)
        BY Zenon, <1>4, InUse DEF CloseHeld, At, Holding
    <2>2. closing[p] = NoFile /\ UNCHANGED <<ends, pages>>
        BY Zenon, <1>4 DEF CloseHeld, At, pipeVars
    <2> QED
        BY Zenon, <1>t, <2>1, <2>2, CloseEnd
<1>5. ASSUME NEW p \in Procs, ForkNoMemory(p)
       PROVE  EndInv'
    <2>1. UNCHANGED <<file, ends, pages, closing>>
        BY <1>5 DEF ForkNoMemory, fileVars, pipeVars, callVars
    <2> QED
        BY Zenon, <1>t, <2>1, EndFrame
<1>6. ASSUME NEW p \in Procs, ForkCopied(p)
       PROVE  EndInv'
    <2>1. UNCHANGED <<file, ends, pages, closing>>
        BY <1>6 DEF ForkCopied, fileVars, pipeVars, callVars
    <2> QED
        BY Zenon, <1>t, <2>1, EndFrame
<1>7. ASSUME NEW p \in Procs, ForkDup(p)
       PROVE  EndInv'
    <2>1. UNCHANGED <<file, ends, pages, closing>>
        BY <1>7 DEF ForkDup, fileVars, pipeVars, callVars
    <2> QED
        BY Zenon, <1>t, <2>1, EndFrame
<1>8. ASSUME NEW p \in Procs, ForkPublish(p)
       PROVE  EndInv'
    <2>1. UNCHANGED <<file, ends, pages, closing>>
        BY <1>8 DEF ForkPublish, fileVars, pipeVars, callVars
    <2> QED
        BY Zenon, <1>t, <2>1, EndFrame
<1>9. ASSUME NEW p \in Procs, Exit(p)
       PROVE  EndInv'
    <2>1. UNCHANGED <<file, ends, pages, closing>>
        BY <1>9 DEF Exit, fileVars, pipeVars, callVars
    <2> QED
        BY Zenon, <1>t, <2>1, EndFrame
<1>10. ASSUME NEW p \in Procs, ExitClose(p)
       PROVE  EndInv'
    <2>1. PICK f \in FileIds : ref[f] > 0 /\ fileClose(p, f)
        <3>1. PICK d \in Fds : /\ OpenFile[p][d] # Null
                            /\ fileClose(p, OpenFile[p][d])
            BY <1>10 DEF ExitClose, Lowest, OpenFds
        <3> QED
            BY <3>1, InUse
    <2>2. closing[p] = NoFile /\ UNCHANGED <<ends, pages>>
        BY Zenon, <1>10 DEF ExitClose, At, pipeVars
    <2> QED
        BY Zenon, <1>t, <2>1, <2>2, CloseEnd
<1>11. ASSUME NEW p \in Procs, ExitDone(p)
       PROVE  EndInv'
    <2>1. UNCHANGED <<file, ends, pages, closing>>
        BY <1>11 DEF ExitDone, fileVars, pipeVars, callVars
    <2> QED
        BY Zenon, <1>t, <2>1, EndFrame
<1>12. ASSUME NEW p \in Procs, ExecFail(p)
       PROVE  EndInv'
    <2>1. UNCHANGED <<file, ends, pages, closing>>
        BY <1>12 DEF ExecFail, fileVars, pipeVars, callVars
    <2> QED
        BY Zenon, <1>t, <2>1, EndFrame
<1>13. ASSUME NEW p \in Procs, ExecLoaded(p)
       PROVE  EndInv'
    <2>1. PICK f \in FileIds : ref[f] > 0 /\ fileClose(p, f)
        BY Zenon, <1>13, InUse DEF ExecLoaded, At, Holding
    <2>2. closing[p] = NoFile /\ UNCHANGED <<ends, pages>>
        BY Zenon, <1>13 DEF ExecLoaded, At, pipeVars
    <2> QED
        BY Zenon, <1>t, <2>1, <2>2, CloseEnd
<1>14. ASSUME NEW p \in Procs, ExecDone(p)
       PROVE  EndInv'
    <2>1. UNCHANGED <<file, ends, pages, closing>>
        BY <1>14 DEF ExecDone, fileVars, pipeVars, callVars
    <2> QED
        BY Zenon, <1>t, <2>1, EndFrame
<1>15. ASSUME NEW p \in Procs, NEW d \in Fds, sys_close(p, d)
       PROVE  EndInv'
    <2>1. PICK f \in FileIds : ref[f] > 0 /\ fileClose(p, f)
        BY <1>15, InUse DEF sys_close
    <2>2. closing[p] = NoFile /\ UNCHANGED <<ends, pages>>
        BY Zenon, <1>15 DEF sys_close, At, pipeVars
    <2> QED
        BY Zenon, <1>t, <2>1, <2>2, CloseEnd
<1>16. ASSUME NEW p \in Procs, NEW d \in Fds, sys_read(p, d)
       PROVE  EndInv'
    <2>1. UNCHANGED <<file, ends, pages, closing>>
        BY <1>16 DEF sys_read, fileVars, pipeVars, callVars
    <2> QED
        BY Zenon, <1>t, <2>1, EndFrame
<1>17. ASSUME NEW p \in Procs, NEW d \in Fds, sys_write(p, d)
       PROVE  EndInv'
    <2>1. UNCHANGED <<file, ends, pages, closing>>
        BY <1>17 DEF sys_write, fileVars, pipeVars, callVars
    <2> QED
        BY Zenon, <1>t, <2>1, EndFrame
<1>18. ASSUME NEW p \in Procs, NEW d \in Fds, NEW e \in Fds, DupInstall(p, d, e)
       PROVE  EndInv'
    <2>1. UNCHANGED <<file, ends, pages, closing>>
        BY <1>18 DEF DupInstall, fileVars, pipeVars, callVars
    <2> QED
        BY Zenon, <1>t, <2>1, EndFrame
<1>19. ASSUME NEW p \in Procs, NEW f \in FileIds, PipeFirst(p, f)
       PROVE  EndInv'
    <2>1. UNCHANGED <<file, ends, pages, closing>>
        BY <1>19 DEF PipeFirst, fileVars, pipeVars, callVars
    <2> QED
        BY Zenon, <1>t, <2>1, EndFrame
<1>20. ASSUME NEW p \in Procs, NEW f \in FileIds, PipeSecond(p, f)
       PROVE  EndInv'
    <2>1. UNCHANGED <<file, ends, pages, closing>>
        BY <1>20 DEF PipeSecond, fileVars, pipeVars, callVars
    <2> QED
        BY Zenon, <1>t, <2>1, EndFrame
<1>21. ASSUME NEW p \in Procs, NEW f \in FileIds, ExecOpen(p, f)
       PROVE  EndInv'
    <2>1. file[f] = NoFile
        BY Zenon, <1>21, FreeFile DEF ExecOpen
    <2>2. /\ \A g \in FileIds : g # f => file'[g] = file[g]
          /\ UNCHANGED <<ends, pages, closing>>
        BY <1>21, <1>t DEF ExecOpen, pipeVars
    <2>3. file'[f].type # "PIPE" /\ file[f].type # "PIPE"
        BY <1>21, <1>t, <2>1, Records DEF ExecOpen
    <2> QED
        BY <1>t, <2>2, <2>3, EndFrame
<1>22. ASSUME NEW p \in Procs, NEW f \in FileIds, NEW m \in Modes, Open(p, f, m)
       PROVE  EndInv'
    <2>1. file[f] = NoFile
        BY Zenon, <1>22, FreeFile DEF Open
    <2>2. /\ \A g \in FileIds : g # f => file'[g] = file[g]
          /\ UNCHANGED <<ends, pages, closing>>
        BY <1>22, <1>t DEF Open, pipeVars
    <2>3. file'[f].type # "PIPE" /\ file[f].type # "PIPE"
        BY <1>22, <1>t, <2>1, Records, FilesAssumption DEF Open
    <2> QED
        BY <1>t, <2>2, <2>3, EndFrame
<1>23. ASSUME NEW p \in Procs, NEW k \in Pipes, PipeMake(p, k)
       PROVE  EndInv'
    <2> DEFINE r == held[p][1]
               w == held[p][2]
    <2>1. /\ r \in FileIds /\ w \in FileIds /\ r # w
          /\ file[r] = NoFile /\ file[w] = NoFile
        BY Zenon, <1>23, PipeFiles DEF PipeMake, At
    <2>2. /\ file' = [file EXCEPT ![r] = PipeEnd(k, "r"), ![w] = PipeEnd(k, "w")]
          /\ pages' = pages \cup {k} /\ ends' = [ends EXCEPT ![k] = {"r", "w"}]
          /\ closing' = closing /\ k \notin pages
        BY <1>23 DEF PipeMake
    <2> HIDE DEF r, w
    <2>3. /\ file'[r] = PipeEnd(k, "r") /\ file'[w] = PipeEnd(k, "w")
          /\ \A f \in FileIds : f # r /\ f # w => file'[f] = file[f]
          /\ ends[k] = {} /\ ends'[k] = {"r", "w"}
          /\ \A j \in Pipes : j # k => ends'[j] = ends[j]
        BY <1>t, <2>1, <2>2 DEF EndInv, PageInv
    <2>4. \A e \in {"r", "w"} :
              /\ \A f \in FileIds : file[f] # PipeEnd(k, e)
              /\ \A q \in Procs : closing[q] # PipeEnd(k, e)
        BY <1>t, <2>3 DEF EndInv, EndOf
    <2>5. /\ \A j \in Pipes, e \in {"r", "w"} :
                 PipeEnd(j, e) # NoFile /\ PipeEnd(j, e).type = "PIPE"
          /\ \A i, j \in Pipes, e, b \in {"r", "w"} :
                 PipeEnd(i, e) = PipeEnd(j, b) => i = j /\ e = b
        <3>1. \A j \in Pipes, e \in {"r", "w"} :
                  PipeEnd(j, e) # NoFile /\ PipeEnd(j, e).type = "PIPE"
            BY <1>e, Records
        <3> QED
            BY Zenon, <3>1, PipeEndsDiffer
    <2>6. \A j \in Pipes : j \in pages' <=> ends'[j] # {}
        BY <1>t, <2>2, <2>3 DEF EndInv, PageInv
    <2>7. EndFiles'
        BY <1>t, <2>3 DEF EndInv, EndFiles
    <2>8. ASSUME NEW j \in Pipes, NEW a \in {"r", "w"}
          PROVE  EndOf(j, a)'
        <3>1. CASE j = k
            <4>1. \A f \in FileIds : file'[f] = PipeEnd(j, a) <=>
                                         f = IF a = "r" THEN r ELSE w
                BY <2>1, <2>3, <2>4, <2>5, <3>1
            <4>2. a \in ends'[j]
                BY Zenon, <2>3, <3>1
            <4> QED
                BY ZenonT(60), <2>1, <2>2, <2>4, <3>1, <4>1, <4>2 DEF EndOf
        <3>2. CASE j # k
            <4>1. \A f \in FileIds : file'[f] = PipeEnd(j, a) <=>
                                         file[f] = PipeEnd(j, a)
                BY <2>1, <2>3, <2>5, <3>2
            <4>2. ends'[j] = ends[j]
                BY <2>3, <3>2
            <4> QED
                <5>1. /\ \A q \in Procs : closing'[q] = PipeEnd(j, a) <=>
                                              closing[q] = PipeEnd(j, a)
                      /\ a \in ends'[j] <=> a \in ends[j]
                    BY <2>2, <4>2
                <5> QED
                    BY Zenon, <1>t, <4>1, <5>1, EndKeeps DEF EndInv
        <3> QED
            BY <3>1, <3>2
    <2> QED
        BY Zenon, <2>6, <2>7, <2>8 DEF EndInv, PageInv
<1>24. ASSUME NEW p \in Procs, NEW q \in Procs, ForkNullFile(p, q)
       PROVE  EndInv'
    <2>1. UNCHANGED <<file, ends, pages, closing>>
        BY <1>24 DEF ForkNullFile, fileVars, pipeVars, callVars
    <2> QED
        BY Zenon, <1>t, <2>1, EndFrame
<1>25. ASSUME NEW p \in Procs, NEW q \in Procs, NEW f \in FileIds, ForkAllocate(p, q, f)
       PROVE  EndInv'
    <2>1. file[f] = NoFile
        BY Zenon, <1>25, FreeFile DEF ForkAllocate
    <2>2. /\ \A g \in FileIds : g # f => file'[g] = file[g]
          /\ UNCHANGED <<ends, pages, closing>>
        BY <1>25, <1>t DEF ForkAllocate, pipeVars
    <2>3. file'[f].type # "PIPE" /\ file[f].type # "PIPE"
        <3>1. file'[f] = Console
            BY <1>25, <1>t DEF ForkAllocate
        <3> QED
            BY <2>1, <3>1, Records
    <2> QED
        BY <1>t, <2>2, <2>3, EndFrame
<1>26. CASE UNCHANGED sysVars
    BY <1>26, <1>t DEF sysVars, fileVars, pipeVars, callVars, EndInv, PageInv,
       EndFiles, EndOf
<1> QED
    BY ZenonT(60), <1>1, <1>2, <1>3, <1>4, <1>5, <1>6, <1>7, <1>8, <1>9, <1>10,
       <1>11, <1>12, <1>13, <1>14, <1>15, <1>16, <1>17, <1>18, <1>19, <1>20,
       <1>21, <1>22, <1>23, <1>24, <1>25, <1>26 DEF Step, Panicked

(* A fork() that goes on, with its child and the descriptors of both left  *)
(* alone, keeps its part of ForkInv.                                       *)
LEMMA ForkFrame ==
    ASSUME SysTypes, ForkInv, Kept,
           \A q \in Procs : pc'[q] \in Forking =>
               /\ pc[q] = pc'[q] /\ np'[q] = np[q] /\ left'[q] = left[q]
               /\ pc'[np[q]] = "embryo"
               /\ OpenFile'[q] = OpenFile[q] /\ OpenFile'[np[q]] = OpenFile[np[q]]
    PROVE  ForkInv'
<1> SUFFICES ASSUME NEW p \in Procs, pc'[p] \in Forking
             PROVE  /\ np'[p] \in Procs
                    /\ pc'[np'[p]] = "embryo"
                    /\ \A q \in Procs :
                           pc'[q] \in Forking /\ np'[q] = np'[p] => q = p
                    /\ pc'[p] = "fork" => \A d \in left'[p] :
                           /\ OpenFile'[p][d] # Null
                           /\ OpenFile'[np'[p]][d] # Null =>
                                  file'[OpenFile'[np'[p]][d]].type = "DEVICE"
    BY Zenon DEF ForkInv, Forking
<1>1. /\ pc[p] = pc'[p] /\ np'[p] = np[p] /\ left'[p] = left[p]
      /\ pc'[np[p]] = "embryo" /\ np[p] \in Procs
      /\ OpenFile'[p] = OpenFile[p] /\ OpenFile'[np[p]] = OpenFile[np[p]]
    BY DEF ForkInv
<1>2. \A q \in Procs : pc'[q] \in Forking /\ np'[q] = np'[p] => q = p
    BY <1>1 DEF ForkInv
<1>3. ASSUME pc'[p] = "fork", NEW d \in left[p]
      PROVE  /\ OpenFile[p][d] # Null
             /\ OpenFile[np[p]][d] # Null =>
                    file'[OpenFile[np[p]][d]].type = "DEVICE"
    <2>1. d \in Fds
        BY Zenon DEF SysTypes
    <2>2. /\ OpenFile[p][d] # Null
          /\ OpenFile[np[p]][d] # Null =>
                 file[OpenFile[np[p]][d]].type = "DEVICE"
        BY <1>1, <1>3 DEF ForkInv
    <2> QED
        BY <1>1, <2>1, <2>2 DEF Kept
<1> QED
    BY <1>1, <1>2, <1>3

(* So does a fork() that has its child.                                    *)
LEMMA ForkGotKeeps ==
    ASSUME SysTypes, ForkInv, Kept, NEW p \in Procs, NEW q \in Procs,
           pc[p] = "user", pc[q] = "unused", ForkGot(p, q), left' = left,
           \A r \in Procs : r # q => OpenFile'[r] = OpenFile[r]
    PROVE  ForkInv'
<1>1. /\ pc'[p] = "copy" /\ pc'[q] = "embryo" /\ np'[p] = q /\ p # q
      /\ \A r \in Procs : r # p => np'[r] = np[r]
      /\ \A r \in Procs : r # p /\ r # q => pc'[r] = pc[r]
    BY Zenon DEF ForkGot, SysTypes
<1>2. ASSUME NEW r \in Procs, pc'[r] \in Forking, r # p
      PROVE  /\ pc[r] = pc'[r] /\ np'[r] = np[r] /\ np[r] # q /\ np[r] \in Procs
             /\ pc'[np[r]] = "embryo"
             /\ OpenFile'[r] = OpenFile[r] /\ OpenFile'[np[r]] = OpenFile[np[r]]
    BY <1>1, <1>2 DEF ForkInv, Forking
<1> SUFFICES ASSUME NEW r \in Procs, pc'[r] \in Forking
             PROVE  /\ np'[r] \in Procs
                    /\ pc'[np'[r]] = "embryo"
                    /\ \A s \in Procs :
                           pc'[s] \in Forking /\ np'[s] = np'[r] => s = r
                    /\ pc'[r] = "fork" => \A d \in left'[r] :
                           /\ OpenFile'[r][d] # Null
                           /\ OpenFile'[np'[r]][d] # Null =>
                                  file'[OpenFile'[np'[r]][d]].type = "DEVICE"
    BY ZenonT(60) DEF ForkInv, Forking
<1>3. CASE r = p
    BY <1>1, <1>2, <1>3
<1>4. CASE r # p
    <2>1. \A s \in Procs : pc'[s] \in Forking /\ np'[s] = np'[r] => s = r
        BY <1>1, <1>2, <1>4 DEF ForkInv
    <2>2. ASSUME pc'[r] = "fork", NEW d \in left'[r]
          PROVE  /\ OpenFile'[r][d] # Null
                 /\ OpenFile'[np'[r]][d] # Null =>
                        file'[OpenFile'[np'[r]][d]].type = "DEVICE"
        <3>1. d \in Fds /\ d \in left[r]
            BY ZenonT(60) DEF SysTypes
        <3>2. /\ OpenFile[r][d] # Null
              /\ OpenFile[np[r]][d] # Null =>
                     file[OpenFile[np[r]][d]].type = "DEVICE"
            BY <1>2, <1>4, <2>2, <3>1 DEF ForkInv
        <3> QED
            BY <1>2, <1>4, <3>1, <3>2 DEF Kept
    <2> QED
        BY <1>2, <1>4, <2>1, <2>2
<1> QED
    BY <1>3, <1>4

(* Every step keeps ForkInv.                                                *)
LEMMA ForkStep ==
    ASSUME IInv, Kept, [Step]_sysVars
    PROVE  ForkInv'
<1>t. /\ pc \in [Procs -> Labels] /\ np \in [Procs -> Procs \cup {Null}]
      /\ left \in [Procs -> SUBSET Fds]
      /\ OpenFile \in [Procs -> [Fds -> FileIds \cup {Null}]]
      /\ file \in [FileIds -> FileRecords]
      /\ SysTypes /\ ForkInv /\ FreshInv
    BY Zenon DEF IInv, SysTypes
<1>1. ASSUME NEW p \in Procs, PipeClose(p)
       PROVE  ForkInv'
    <2>1. \A q \in Procs : pc'[q] \in Forking =>
              /\ pc[q] = pc'[q] /\ np'[q] = np[q] /\ left'[q] = left[q]
              /\ pc'[np[q]] = "embryo"
              /\ OpenFile'[q] = OpenFile[q] /\ OpenFile'[np[q]] = OpenFile[np[q]]
        BY Zenon, <1>1, <1>t DEF PipeClose, At, Goto, ForkInv, Forking,
           callVars
    <2> QED
        BY Zenon, <1>t, <2>1, ForkFrame
<1>2. ASSUME NEW p \in Procs, DupCount(p)
       PROVE  ForkInv'
    <2>1. \A q \in Procs : pc'[q] \in Forking =>
              /\ pc[q] = pc'[q] /\ np'[q] = np[q] /\ left'[q] = left[q]
              /\ pc'[np[q]] = "embryo"
              /\ OpenFile'[q] = OpenFile[q] /\ OpenFile'[np[q]] = OpenFile[np[q]]
        BY Zenon, <1>2, <1>t DEF DupCount, At, Goto, ForkInv, Forking, callVars
    <2> QED
        BY Zenon, <1>t, <2>1, ForkFrame
<1>3. ASSUME NEW p \in Procs, PipeFail(p)
       PROVE  ForkInv'
    <2>1. \A q \in Procs : pc'[q] \in Forking =>
              /\ pc[q] = pc'[q] /\ np'[q] = np[q] /\ left'[q] = left[q]
              /\ pc'[np[q]] = "embryo"
              /\ OpenFile'[q] = OpenFile[q] /\ OpenFile'[np[q]] = OpenFile[np[q]]
        BY Zenon, <1>3, <1>t DEF PipeFail, At, Goto, ForkInv, Forking, callVars
    <2> QED
        BY Zenon, <1>t, <2>1, ForkFrame
<1>4. ASSUME NEW p \in Procs, CloseHeld(p)
       PROVE  ForkInv'
    <2>1. \A q \in Procs : pc'[q] \in Forking =>
              /\ pc[q] = pc'[q] /\ np'[q] = np[q] /\ left'[q] = left[q]
              /\ pc'[np[q]] = "embryo"
              /\ OpenFile'[q] = OpenFile[q] /\ OpenFile'[np[q]] = OpenFile[np[q]]
        BY Zenon, <1>4, <1>t DEF CloseHeld, At, Goto, ForkInv, Forking,
           callVars
    <2> QED
        BY Zenon, <1>t, <2>1, ForkFrame
<1>5. ASSUME NEW p \in Procs, ForkNoMemory(p)
       PROVE  ForkInv'
    <2>1. \A q \in Procs : pc'[q] \in Forking =>
              /\ pc[q] = pc'[q] /\ np'[q] = np[q] /\ left'[q] = left[q]
              /\ pc'[np[q]] = "embryo"
              /\ OpenFile'[q] = OpenFile[q] /\ OpenFile'[np[q]] = OpenFile[np[q]]
        BY ZenonT(60), <1>5, <1>t DEF ForkNoMemory, At, Goto, ForkInv, Forking,
           callVars
    <2> QED
        BY Zenon, <1>t, <2>1, ForkFrame
<1>6. ASSUME NEW p \in Procs, ForkCopied(p)
       PROVE  ForkInv'
    <2>1. /\ pc[p] = "copy" /\ pc' = [pc EXCEPT ![p] = "fork"]
          /\ left' = [left EXCEPT ![p] = OpenFds(p)]
          /\ UNCHANGED <<file, OpenFile, np>>
        BY Zenon, <1>6 DEF ForkCopied, At, Goto, fileVars
    <2>2. np[p] \in Procs /\ Fresh(np[p]) /\ pc[np[p]] = "embryo"
        BY <1>t, <2>1 DEF ForkInv, Fresh, Forking
    <2>3. \A d \in OpenFds(p) :
              /\ OpenFile[p][d] # Null
              /\ OpenFile[np[p]][d] # Null =>
                     file[OpenFile[np[p]][d]].type = "DEVICE"
        BY <1>t, <2>2 DEF FreshInv, OpenFds
    <2>4. /\ \A q \in Procs : pc'[q] \in Forking <=> pc[q] \in Forking
          /\ \A q \in Procs : q # p => pc'[q] = pc[q] /\ left'[q] = left[q]
          /\ left'[p] = OpenFds(p)
          /\ \A q \in Procs : pc[q] = "embryo" => pc'[q] = "embryo"
        BY <1>t, <2>1 DEF Forking
    <2> HIDE DEF OpenFds
    <2> QED
        BY <1>t, <2>1, <2>2, <2>3, <2>4 DEF ForkInv
<1>7. ASSUME NEW p \in Procs, ForkDup(p)
       PROVE  ForkInv'
    <2>1. /\ pc[p] = "fork" /\ np[p] \in Procs /\ pc[np[p]] = "embryo"
          /\ \A q \in Procs : pc[q] \in Forking /\ np[q] = np[p] => q = p
        BY Zenon, <1>7, <1>t DEF ForkDup, At, ForkInv, Forking
    <2>2. PICK d \in Fds :
              /\ OpenFile' = [OpenFile EXCEPT ![np[p]][d] = OpenFile[p][d]]
              /\ left' = [left EXCEPT ![p] = left[p] \ {d}]
        BY Zenon, <1>7 DEF ForkDup
    <2>3. UNCHANGED <<file, pc, np>>
        BY <1>7 DEF ForkDup
    <2>4. \A q \in Procs : pc[q] \in Forking =>
              /\ q # np[p] /\ OpenFile'[q] = OpenFile[q]
              /\ left'[q] \subseteq left[q]
              /\ np[q] \in Procs /\ pc[np[q]] = "embryo"
              /\ \A c \in left'[q] : OpenFile'[np[q]][c] = OpenFile[np[q]][c]
        BY <1>t, <2>1, <2>2 DEF ForkInv, Forking
    <2> QED
        BY <1>t, <2>3, <2>4 DEF ForkInv
<1>8. ASSUME NEW p \in Procs, ForkPublish(p)
       PROVE  ForkInv'
    <2>1. \A q \in Procs : pc'[q] \in Forking =>
              /\ pc[q] = pc'[q] /\ np'[q] = np[q] /\ left'[q] = left[q]
              /\ pc'[np[q]] = "embryo"
              /\ OpenFile'[q] = OpenFile[q] /\ OpenFile'[np[q]] = OpenFile[np[q]]
        BY Zenon, <1>8, <1>t DEF ForkPublish, At, Goto, ForkInv, Forking,
           callVars
    <2> QED
        BY Zenon, <1>t, <2>1, ForkFrame
<1>9. ASSUME NEW p \in Procs, Exit(p)
       PROVE  ForkInv'
    <2>1. \A q \in Procs : pc'[q] \in Forking =>
              /\ pc[q] = pc'[q] /\ np'[q] = np[q] /\ left'[q] = left[q]
              /\ pc'[np[q]] = "embryo"
              /\ OpenFile'[q] = OpenFile[q] /\ OpenFile'[np[q]] = OpenFile[np[q]]
        BY Zenon, <1>9, <1>t DEF Exit, At, Goto, ForkInv, Forking, callVars
    <2> QED
        BY Zenon, <1>t, <2>1, ForkFrame
<1>10. ASSUME NEW p \in Procs, ExitClose(p)
       PROVE  ForkInv'
    <2>1. PICK d \in Fds : OpenFile' = [OpenFile EXCEPT ![p][d] = Null]
        BY Zenon, <1>10 DEF ExitClose
    <2>2. \A q \in Procs : pc'[q] \in Forking =>
              /\ pc[q] = pc'[q] /\ np'[q] = np[q] /\ left'[q] = left[q]
              /\ pc'[np[q]] = "embryo"
              /\ OpenFile'[q] = OpenFile[q] /\ OpenFile'[np[q]] = OpenFile[np[q]]
        BY Zenon, <1>10, <1>t, <2>1 DEF ExitClose, At, ForkInv, Forking
    <2> QED
        BY Zenon, <1>t, <2>2, ForkFrame
<1>11. ASSUME NEW p \in Procs, ExitDone(p)
       PROVE  ForkInv'
    <2>1. \A q \in Procs : pc'[q] \in Forking =>
              /\ pc[q] = pc'[q] /\ np'[q] = np[q] /\ left'[q] = left[q]
              /\ pc'[np[q]] = "embryo"
              /\ OpenFile'[q] = OpenFile[q] /\ OpenFile'[np[q]] = OpenFile[np[q]]
        BY Zenon, <1>11, <1>t DEF ExitDone, At, Goto, ForkInv, Forking,
           callVars
    <2> QED
        BY Zenon, <1>t, <2>1, ForkFrame
<1>12. ASSUME NEW p \in Procs, ExecFail(p)
       PROVE  ForkInv'
    <2>1. \A q \in Procs : pc'[q] \in Forking =>
              /\ pc[q] = pc'[q] /\ np'[q] = np[q] /\ left'[q] = left[q]
              /\ pc'[np[q]] = "embryo"
              /\ OpenFile'[q] = OpenFile[q] /\ OpenFile'[np[q]] = OpenFile[np[q]]
        BY Zenon, <1>12, <1>t DEF ExecFail, At, Goto, ForkInv, Forking,
           callVars
    <2> QED
        BY Zenon, <1>t, <2>1, ForkFrame
<1>13. ASSUME NEW p \in Procs, ExecLoaded(p)
       PROVE  ForkInv'
    <2>1. \A q \in Procs : pc'[q] \in Forking =>
              /\ pc[q] = pc'[q] /\ np'[q] = np[q] /\ left'[q] = left[q]
              /\ pc'[np[q]] = "embryo"
              /\ OpenFile'[q] = OpenFile[q] /\ OpenFile'[np[q]] = OpenFile[np[q]]
        BY Zenon, <1>13, <1>t DEF ExecLoaded, At, Goto, ForkInv, Forking,
           callVars
    <2> QED
        BY Zenon, <1>t, <2>1, ForkFrame
<1>14. ASSUME NEW p \in Procs, ExecDone(p)
       PROVE  ForkInv'
    <2>1. \A q \in Procs : pc'[q] \in Forking =>
              /\ pc[q] = pc'[q] /\ np'[q] = np[q] /\ left'[q] = left[q]
              /\ pc'[np[q]] = "embryo"
              /\ OpenFile'[q] = OpenFile[q] /\ OpenFile'[np[q]] = OpenFile[np[q]]
        BY Zenon, <1>14, <1>t DEF ExecDone, At, Goto, ForkInv, Forking,
           callVars
    <2> QED
        BY Zenon, <1>t, <2>1, ForkFrame
<1>15. ASSUME NEW p \in Procs, NEW d \in Fds, sys_close(p, d)
       PROVE  ForkInv'
    <2>1. \A q \in Procs : pc'[q] \in Forking =>
              /\ pc[q] = pc'[q] /\ np'[q] = np[q] /\ left'[q] = left[q]
              /\ pc'[np[q]] = "embryo"
              /\ OpenFile'[q] = OpenFile[q] /\ OpenFile'[np[q]] = OpenFile[np[q]]
        BY Zenon, <1>15, <1>t DEF sys_close, At, Goto, ForkInv, Forking,
           callVars
    <2> QED
        BY Zenon, <1>t, <2>1, ForkFrame
<1>16. ASSUME NEW p \in Procs, NEW d \in Fds, sys_read(p, d)
       PROVE  ForkInv'
    <2>1. \A q \in Procs : pc'[q] \in Forking =>
              /\ pc[q] = pc'[q] /\ np'[q] = np[q] /\ left'[q] = left[q]
              /\ pc'[np[q]] = "embryo"
              /\ OpenFile'[q] = OpenFile[q] /\ OpenFile'[np[q]] = OpenFile[np[q]]
        BY Zenon, <1>16, <1>t DEF sys_read, At, Goto, ForkInv, Forking,
           callVars
    <2> QED
        BY Zenon, <1>t, <2>1, ForkFrame
<1>17. ASSUME NEW p \in Procs, NEW d \in Fds, sys_write(p, d)
       PROVE  ForkInv'
    <2>1. \A q \in Procs : pc'[q] \in Forking =>
              /\ pc[q] = pc'[q] /\ np'[q] = np[q] /\ left'[q] = left[q]
              /\ pc'[np[q]] = "embryo"
              /\ OpenFile'[q] = OpenFile[q] /\ OpenFile'[np[q]] = OpenFile[np[q]]
        BY Zenon, <1>17, <1>t DEF sys_write, At, Goto, ForkInv, Forking,
           callVars
    <2> QED
        BY Zenon, <1>t, <2>1, ForkFrame
<1>18. ASSUME NEW p \in Procs, NEW d \in Fds, NEW e \in Fds, DupInstall(p, d, e)
       PROVE  ForkInv'
    <2>1. \A q \in Procs : pc'[q] \in Forking =>
              /\ pc[q] = pc'[q] /\ np'[q] = np[q] /\ left'[q] = left[q]
              /\ pc'[np[q]] = "embryo"
              /\ OpenFile'[q] = OpenFile[q] /\ OpenFile'[np[q]] = OpenFile[np[q]]
        BY Zenon, <1>18, <1>t DEF DupInstall, At, Goto, ForkInv, Forking,
           callVars
    <2> QED
        BY Zenon, <1>t, <2>1, ForkFrame
<1>19. ASSUME NEW p \in Procs, NEW f \in FileIds, PipeFirst(p, f)
       PROVE  ForkInv'
    <2>1. \A q \in Procs : pc'[q] \in Forking =>
              /\ pc[q] = pc'[q] /\ np'[q] = np[q] /\ left'[q] = left[q]
              /\ pc'[np[q]] = "embryo"
              /\ OpenFile'[q] = OpenFile[q] /\ OpenFile'[np[q]] = OpenFile[np[q]]
        BY Zenon, <1>19, <1>t DEF PipeFirst, At, Goto, ForkInv, Forking,
           callVars
    <2> QED
        BY Zenon, <1>t, <2>1, ForkFrame
<1>20. ASSUME NEW p \in Procs, NEW f \in FileIds, PipeSecond(p, f)
       PROVE  ForkInv'
    <2>1. \A q \in Procs : pc'[q] \in Forking =>
              /\ pc[q] = pc'[q] /\ np'[q] = np[q] /\ left'[q] = left[q]
              /\ pc'[np[q]] = "embryo"
              /\ OpenFile'[q] = OpenFile[q] /\ OpenFile'[np[q]] = OpenFile[np[q]]
        BY Zenon, <1>20, <1>t DEF PipeSecond, At, Goto, ForkInv, Forking,
           callVars
    <2> QED
        BY Zenon, <1>t, <2>1, ForkFrame
<1>21. ASSUME NEW p \in Procs, NEW f \in FileIds, ExecOpen(p, f)
       PROVE  ForkInv'
    <2>1. \A q \in Procs : pc'[q] \in Forking =>
              /\ pc[q] = pc'[q] /\ np'[q] = np[q] /\ left'[q] = left[q]
              /\ pc'[np[q]] = "embryo"
              /\ OpenFile'[q] = OpenFile[q] /\ OpenFile'[np[q]] = OpenFile[np[q]]
        BY Zenon, <1>21, <1>t DEF ExecOpen, At, Goto, ForkInv, Forking,
           callVars
    <2> QED
        BY Zenon, <1>t, <2>1, ForkFrame
<1>22. ASSUME NEW p \in Procs, NEW f \in FileIds, NEW m \in Modes, Open(p, f, m)
       PROVE  ForkInv'
    <2>1. \A q \in Procs : pc'[q] \in Forking =>
              /\ pc[q] = pc'[q] /\ np'[q] = np[q] /\ left'[q] = left[q]
              /\ pc'[np[q]] = "embryo"
              /\ OpenFile'[q] = OpenFile[q] /\ OpenFile'[np[q]] = OpenFile[np[q]]
        BY Zenon, <1>22, <1>t DEF Open, At, Goto, ForkInv, Forking, callVars
    <2> QED
        BY Zenon, <1>t, <2>1, ForkFrame
<1>23. ASSUME NEW p \in Procs, NEW k \in Pipes, PipeMake(p, k)
       PROVE  ForkInv'
    <2>1. \A q \in Procs : pc'[q] \in Forking =>
              /\ pc[q] = pc'[q] /\ np'[q] = np[q] /\ left'[q] = left[q]
              /\ pc'[np[q]] = "embryo"
              /\ OpenFile'[q] = OpenFile[q] /\ OpenFile'[np[q]] = OpenFile[np[q]]
        BY ZenonT(60), <1>23, <1>t DEF PipeMake, At, Goto, ForkInv, Forking,
           callVars
    <2> QED
        BY Zenon, <1>t, <2>1, ForkFrame
<1>24. ASSUME NEW p \in Procs, NEW q \in Procs, ForkNullFile(p, q)
       PROVE  ForkInv'
    <2>1. CASE ForkGot(p, q)
        <3>1. /\ pc[p] = "user" /\ pc[q] = "unused" /\ left' = left
              /\ \A r \in Procs : r # q => OpenFile'[r] = OpenFile[r]
            BY Zenon, <1>24, <1>t DEF ForkNullFile, At
        <3> QED
            BY Zenon, <1>t, <2>1, <3>1, ForkGotKeeps
    <2>2. CASE UNCHANGED <<OpenFile, pc, np, left, file>>
        BY <1>t, <2>2 DEF ForkInv
    <2> QED
        BY <1>24, <2>1, <2>2 DEF ForkNullFile, fileVars
<1>25. ASSUME NEW p \in Procs, NEW q \in Procs, NEW f \in FileIds, ForkAllocate(p, q, f)
       PROVE  ForkInv'
    <2>1. CASE ForkGot(p, q)
        <3>1. /\ pc[p] = "user" /\ pc[q] = "unused" /\ left' = left
              /\ \A r \in Procs : r # q => OpenFile'[r] = OpenFile[r]
            BY Zenon, <1>25, <1>t DEF ForkAllocate, At
        <3> QED
            BY Zenon, <1>t, <2>1, <3>1, ForkGotKeeps
    <2> QED
        BY <1>25, <2>1 DEF ForkAllocate
<1>26. CASE UNCHANGED sysVars
    BY <1>26, <1>t DEF sysVars, fileVars, callVars, ForkInv
<1> QED
    BY ZenonT(60), <1>1, <1>2, <1>3, <1>4, <1>5, <1>6, <1>7, <1>8, <1>9, <1>10,
       <1>11, <1>12, <1>13, <1>14, <1>15, <1>16, <1>17, <1>18, <1>19, <1>20,
       <1>21, <1>22, <1>23, <1>24, <1>25, <1>26 DEF Step, Panicked

(* The descriptors a pipe() installs are its own two Files.                *)
LEMMA PipeDescriptors ==
    ASSUME SysTypes, NEW p \in Procs, NEW k \in Pipes, PipeMake(p, k)
    PROVE  \A r \in Procs, c \in Fds :
               \/ OpenFile'[r][c] = OpenFile[r][c]
               \/ OpenFile'[r][c] \in {held[p][1], held[p][2]}
<1>1. CASE OpenFile' = OpenFile
    BY <1>1
<1>2. CASE OpenFile' # OpenFile
    <2>1. PICK d, e \in Fds :
              OpenFile' = [OpenFile EXCEPT ![p][d] = held[p][1],
                                           ![p][e] = held[p][2]]
        BY Zenon, <1>2 DEF PipeMake, FreeFds
    <2>2. OpenFile \in [Procs -> [Fds -> FileIds \cup {Null}]]
        BY Zenon DEF SysTypes
    <2>3. \A r \in Procs : r # p => OpenFile'[r] = OpenFile[r]
        BY <2>1, <2>2
    <2>4. \A c \in Fds : \/ OpenFile'[p][c] = OpenFile[p][c]
                         \/ OpenFile'[p][c] \in {held[p][1], held[p][2]}
        BY <2>1, <2>2
    <2> QED
        BY <2>3, <2>4
<1> QED
    BY <1>1, <1>2

(* A step that makes no entry fresh, and no descriptor name a console of   *)
(* one, keeps FreshInv.                                                    *)
LEMMA FreshFrame ==
    ASSUME FreshInv, Kept,
           \A o \in Procs : Fresh(o)' => Fresh(o) /\ OpenFile'[o] = OpenFile[o],
           \A r \in Procs, c \in Fds :
               \/ OpenFile'[r][c] = OpenFile[r][c] \/ OpenFile'[r][c] = Null
               \/ \A o \in Procs, b \in Fds :
                      Fresh(o)' => OpenFile[o][b] # OpenFile'[r][c]
    PROVE  FreshInv'
<1> SUFFICES ASSUME NEW o \in Procs, NEW b \in Fds, Fresh(o)',
                    OpenFile'[o][b] # Null
             PROVE  /\ b \in StdFds
                    /\ file'[OpenFile'[o][b]].type = "DEVICE"
                    /\ \A r \in Procs, e \in Fds :
                           OpenFile'[r][e] = OpenFile'[o][b] => r = o
    BY Zenon DEF FreshInv
<1>1. Fresh(o) /\ OpenFile'[o][b] = OpenFile[o][b] /\ OpenFile[o][b] # Null
    BY Zenon
<1>2. /\ b \in StdFds /\ file'[OpenFile[o][b]].type = "DEVICE"
      /\ \A r \in Procs, e \in Fds : OpenFile[r][e] = OpenFile[o][b] => r = o
    BY <1>1 DEF FreshInv, Kept
<1>3. ASSUME NEW r \in Procs, NEW e \in Fds, OpenFile'[r][e] = OpenFile'[o][b]
      PROVE  r = o
    BY <1>1, <1>2, <1>3
<1> QED
    BY Zenon, <1>1, <1>2, <1>3

(* Every step keeps FreshInv.                                               *)
LEMMA FreshStep ==
    ASSUME IInv, Kept, [Step]_sysVars
    PROVE  FreshInv'
<1>t. /\ pc \in [Procs -> Labels] /\ np \in [Procs -> Procs \cup {Null}]
      /\ held \in [Procs -> HeldFiles]
      /\ OpenFile \in [Procs -> [Fds -> FileIds \cup {Null}]]
      /\ file \in [FileIds -> FileRecords]
      /\ SysTypes /\ ForkInv /\ FreshInv /\ HeldInv /\ Kept
    BY Zenon DEF IInv, SysTypes
<1>n. \A o \in Procs : Fresh(o) => pc[o] \in {"unused", "embryo"}
    BY <1>t DEF Fresh, ForkInv, Forking
<1>1. ASSUME NEW p \in Procs, PipeClose(p)
       PROVE  FreshInv'
    <2>1. \A o \in Procs : Fresh(o)' => Fresh(o) /\ OpenFile'[o] = OpenFile[o]
        BY Zenon, <1>1, <1>t DEF PipeClose, At, Goto, Fresh, Forking, ForkInv,
           callVars
    <2>2. OpenFile' = OpenFile
        BY Zenon, <1>1 DEF PipeClose
    <2> QED
        BY <1>t, <2>1, <2>2, FreshFrame
<1>2. ASSUME NEW p \in Procs, DupCount(p)
       PROVE  FreshInv'
    <2>1. \A o \in Procs : Fresh(o)' => Fresh(o) /\ OpenFile'[o] = OpenFile[o]
        BY Zenon, <1>2, <1>t DEF DupCount, At, Goto, Fresh, Forking, ForkInv,
           callVars
    <2>2. OpenFile' = OpenFile
        BY <1>2 DEF DupCount
    <2> QED
        BY <1>t, <2>1, <2>2, FreshFrame
<1>3. ASSUME NEW p \in Procs, PipeFail(p)
       PROVE  FreshInv'
    <2>1. \A o \in Procs : Fresh(o)' => Fresh(o) /\ OpenFile'[o] = OpenFile[o]
        BY Zenon, <1>3, <1>t DEF PipeFail, At, Goto, Fresh, Forking, ForkInv,
           callVars
    <2>2. OpenFile' = OpenFile
        BY <1>3 DEF PipeFail
    <2> QED
        BY <1>t, <2>1, <2>2, FreshFrame
<1>4. ASSUME NEW p \in Procs, CloseHeld(p)
       PROVE  FreshInv'
    <2>1. \A o \in Procs : Fresh(o)' => Fresh(o) /\ OpenFile'[o] = OpenFile[o]
        BY Zenon, <1>4, <1>t DEF CloseHeld, At, Goto, Fresh, Forking, ForkInv,
           callVars
    <2>2. OpenFile' = OpenFile
        BY <1>4 DEF CloseHeld
    <2> QED
        BY <1>t, <2>1, <2>2, FreshFrame
<1>5. ASSUME NEW p \in Procs, ForkNoMemory(p)
       PROVE  FreshInv'
    <2>1. /\ pc[p] = "copy" /\ np[p] \in Procs /\ Fresh(np[p])
        BY Zenon, <1>5, <1>t DEF ForkNoMemory, At, ForkInv, Forking, Fresh
    <2>2. /\ pc' = [pc EXCEPT ![p] = "user", ![np[p]] = "unused"]
          /\ np' = [np EXCEPT ![p] = Null] /\ OpenFile' = OpenFile
        BY <1>5 DEF ForkNoMemory
    <2>3. \A o \in Procs : Fresh(o)' => Fresh(o) /\ OpenFile'[o] = OpenFile[o]
        BY <1>t, <2>1, <2>2 DEF Fresh
    <2> QED
        BY <1>t, <2>2, <2>3, FreshFrame
<1>6. ASSUME NEW p \in Procs, ForkCopied(p)
       PROVE  FreshInv'
    <2>1. \A o \in Procs : Fresh(o)' => Fresh(o) /\ OpenFile'[o] = OpenFile[o]
        BY Zenon, <1>6, <1>t DEF ForkCopied, At, Goto, Fresh, Forking, ForkInv,
           callVars
    <2>2. OpenFile' = OpenFile
        BY <1>6 DEF ForkCopied
    <2> QED
        BY <1>t, <2>1, <2>2, FreshFrame
<1>7. ASSUME NEW p \in Procs, ForkDup(p)
       PROVE  FreshInv'
    <2>0. /\ pc[p] = "fork" /\ np[p] \in Procs /\ ~Fresh(np[p]) /\ pc' = pc /\ np' = np
        BY ZenonT(60), <1>7, <1>t DEF ForkDup, At, ForkInv, Forking, Fresh
    <2>p. PICK d \in Fds : OpenFile' = [OpenFile EXCEPT ![np[p]][d] = OpenFile[p][d]]
        BY Zenon, <1>7 DEF ForkDup
    <2>1. \A o \in Procs : Fresh(o)' => Fresh(o) /\ OpenFile'[o] = OpenFile[o]
        BY <1>t, <2>0, <2>p DEF Fresh
    <2>2. \A r \in Procs, c \in Fds :
              \/ OpenFile'[r][c] = OpenFile[r][c] \/ OpenFile'[r][c] = Null
              \/ \A o \in Procs, b \in Fds :
                     Fresh(o)' => OpenFile[o][b] # OpenFile'[r][c]
        <3>1. OpenFile[p][d] # Null => \A o \in Procs, b \in Fds :
                  Fresh(o) => OpenFile[o][b] # OpenFile[p][d]
            BY <1>t, <1>n, <2>0 DEF FreshInv
        <3> QED
            BY <1>t, <2>1, <2>p, <3>1
    <2> QED
        BY Zenon, <1>t, <2>1, <2>2, FreshFrame
<1>8. ASSUME NEW p \in Procs, ForkPublish(p)
       PROVE  FreshInv'
    <2>1. np[p] \in Procs
        BY Zenon, <1>8, <1>t DEF ForkPublish, At, ForkInv, Forking
    <2>2. /\ pc' = [pc EXCEPT ![p] = "user", ![np[p]] = "user"]
          /\ np' = [np EXCEPT ![p] = Null] /\ OpenFile' = OpenFile
        BY <1>8 DEF ForkPublish
    <2>3. \A o \in Procs : Fresh(o)' => Fresh(o) /\ OpenFile'[o] = OpenFile[o]
        BY <1>t, <2>1, <2>2 DEF Fresh
    <2> QED
        BY <1>t, <2>2, <2>3, FreshFrame
<1>9. ASSUME NEW p \in Procs, Exit(p)
       PROVE  FreshInv'
    <2>1. \A o \in Procs : Fresh(o)' => Fresh(o) /\ OpenFile'[o] = OpenFile[o]
        BY Zenon, <1>9, <1>t DEF Exit, At, Goto, Fresh, Forking, ForkInv,
           callVars
    <2>2. OpenFile' = OpenFile
        BY <1>9 DEF Exit
    <2> QED
        BY <1>t, <2>1, <2>2, FreshFrame
<1>10. ASSUME NEW p \in Procs, ExitClose(p)
       PROVE  FreshInv'
    <2>p. PICK d \in Fds : OpenFile' = [OpenFile EXCEPT ![p][d] = Null]
        BY Zenon, <1>10 DEF ExitClose
    <2>1. \A o \in Procs : Fresh(o)' => Fresh(o) /\ OpenFile'[o] = OpenFile[o]
        BY Zenon, <1>10, <1>t, <1>n, <2>p DEF ExitClose, At, Fresh
    <2>2. \A r \in Procs, c \in Fds :
              \/ OpenFile'[r][c] = OpenFile[r][c] \/ OpenFile'[r][c] = Null
              \/ \A o \in Procs, b \in Fds :
                     Fresh(o)' => OpenFile[o][b] # OpenFile'[r][c]
        BY <1>t, <2>p
    <2> QED
        BY Zenon, <1>t, <2>1, <2>2, FreshFrame
<1>11. ASSUME NEW p \in Procs, ExitDone(p)
       PROVE  FreshInv'
    <2>1. /\ \A c \in Fds : OpenFile[p][c] = Null
          /\ UNCHANGED <<OpenFile, file>>
        BY <1>11 DEF ExitDone, OpenFds, fileVars
    <2>2. \A o \in Procs : Fresh(o)' => Fresh(o) \/ o = p
        BY <1>11, <1>t DEF ExitDone, Goto, Fresh
    <2> QED
        BY <1>t, <2>1, <2>2 DEF FreshInv
<1>12. ASSUME NEW p \in Procs, ExecFail(p)
       PROVE  FreshInv'
    <2>1. \A o \in Procs : Fresh(o)' => Fresh(o) /\ OpenFile'[o] = OpenFile[o]
        BY Zenon, <1>12, <1>t DEF ExecFail, At, Goto, Fresh, Forking, ForkInv,
           callVars
    <2>2. OpenFile' = OpenFile
        BY <1>12 DEF ExecFail
    <2> QED
        BY <1>t, <2>1, <2>2, FreshFrame
<1>13. ASSUME NEW p \in Procs, ExecLoaded(p)
       PROVE  FreshInv'
    <2>1. \A o \in Procs : Fresh(o)' => Fresh(o) /\ OpenFile'[o] = OpenFile[o]
        BY Zenon, <1>13, <1>t DEF ExecLoaded, At, Goto, Fresh, Forking,
           ForkInv, callVars
    <2>2. OpenFile' = OpenFile
        BY <1>13 DEF ExecLoaded
    <2> QED
        BY <1>t, <2>1, <2>2, FreshFrame
<1>14. ASSUME NEW p \in Procs, ExecDone(p)
       PROVE  FreshInv'
    <2>1. \A o \in Procs : Fresh(o)' => Fresh(o) /\ OpenFile'[o] = OpenFile[o]
        BY Zenon, <1>14, <1>t DEF ExecDone, At, Goto, Fresh, Forking, ForkInv,
           callVars
    <2>2. OpenFile' = OpenFile
        BY <1>14 DEF ExecDone
    <2> QED
        BY <1>t, <2>1, <2>2, FreshFrame
<1>15. ASSUME NEW p \in Procs, NEW d \in Fds, sys_close(p, d)
       PROVE  FreshInv'
    <2>1. \A o \in Procs : Fresh(o)' => Fresh(o) /\ OpenFile'[o] = OpenFile[o]
        BY ZenonT(60), <1>15, <1>t DEF sys_close, At, Goto, Fresh, Forking,
           ForkInv,
           callVars
    <2>2. \A r \in Procs, c \in Fds :
              \/ OpenFile'[r][c] = OpenFile[r][c] \/ OpenFile'[r][c] = Null
              \/ \A o \in Procs, b \in Fds :
                     Fresh(o)' => OpenFile[o][b] # OpenFile'[r][c]
        BY <1>15, <1>t DEF sys_close
    <2> QED
        BY Zenon, <1>t, <2>1, <2>2, FreshFrame
<1>16. ASSUME NEW p \in Procs, NEW d \in Fds, sys_read(p, d)
       PROVE  FreshInv'
    <2>1. \A o \in Procs : Fresh(o)' => Fresh(o) /\ OpenFile'[o] = OpenFile[o]
        BY ZenonT(60), <1>16, <1>t DEF sys_read, At, Goto, Fresh, Forking,
           ForkInv,
           callVars
    <2>2. OpenFile' = OpenFile
        BY <1>16 DEF sys_read
    <2> QED
        BY <1>t, <2>1, <2>2, FreshFrame
<1>17. ASSUME NEW p \in Procs, NEW d \in Fds, sys_write(p, d)
       PROVE  FreshInv'
    <2>1. \A o \in Procs : Fresh(o)' => Fresh(o) /\ OpenFile'[o] = OpenFile[o]
        BY Zenon, <1>17, <1>t DEF sys_write, At, Goto, Fresh, Forking, ForkInv,
           callVars
    <2>2. OpenFile' = OpenFile
        BY <1>17 DEF sys_write
    <2> QED
        BY <1>t, <2>1, <2>2, FreshFrame
<1>18. ASSUME NEW p \in Procs, NEW d \in Fds, NEW e \in Fds, DupInstall(p, d, e)
       PROVE  FreshInv'
    <2>1. \A o \in Procs : Fresh(o)' => Fresh(o) /\ OpenFile'[o] = OpenFile[o]
        BY ZenonT(60), <1>18, <1>t DEF DupInstall, At, Goto, Fresh, Forking,
           ForkInv, callVars
    <2>2. \A r \in Procs, c \in Fds :
              \/ OpenFile'[r][c] = OpenFile[r][c] \/ OpenFile'[r][c] = Null
              \/ \A o \in Procs, b \in Fds :
                     Fresh(o)' => OpenFile[o][b] # OpenFile'[r][c]
        <3>1. \A o \in Procs, b \in Fds :
                  Fresh(o) => OpenFile[o][b] # OpenFile[p][d]
            BY ZenonT(60), <1>18, <1>t, <1>n DEF FreshInv, DupInstall, At
        <3> QED
            BY <1>18, <1>t, <2>1, <3>1 DEF DupInstall
    <2> QED
        BY Zenon, <1>t, <2>1, <2>2, FreshFrame
<1>19. ASSUME NEW p \in Procs, NEW f \in FileIds, PipeFirst(p, f)
       PROVE  FreshInv'
    <2>1. \A o \in Procs : Fresh(o)' => Fresh(o) /\ OpenFile'[o] = OpenFile[o]
        BY Zenon, <1>19, <1>t DEF PipeFirst, At, Goto, Fresh, Forking, ForkInv,
           callVars
    <2>2. OpenFile' = OpenFile
        BY <1>19 DEF PipeFirst
    <2> QED
        BY <1>t, <2>1, <2>2, FreshFrame
<1>20. ASSUME NEW p \in Procs, NEW f \in FileIds, PipeSecond(p, f)
       PROVE  FreshInv'
    <2>1. \A o \in Procs : Fresh(o)' => Fresh(o) /\ OpenFile'[o] = OpenFile[o]
        BY Zenon, <1>20, <1>t DEF PipeSecond, At, Goto, Fresh, Forking,
           ForkInv, callVars
    <2>2. OpenFile' = OpenFile
        BY <1>20 DEF PipeSecond
    <2> QED
        BY <1>t, <2>1, <2>2, FreshFrame
<1>21. ASSUME NEW p \in Procs, NEW f \in FileIds, ExecOpen(p, f)
       PROVE  FreshInv'
    <2>1. \A o \in Procs : Fresh(o)' => Fresh(o) /\ OpenFile'[o] = OpenFile[o]
        BY Zenon, <1>21, <1>t DEF ExecOpen, At, Goto, Fresh, Forking, ForkInv,
           callVars
    <2>2. OpenFile' = OpenFile
        BY <1>21 DEF ExecOpen
    <2> QED
        BY <1>t, <2>1, <2>2, FreshFrame
<1>22. ASSUME NEW p \in Procs, NEW f \in FileIds, NEW m \in Modes, Open(p, f, m)
       PROVE  FreshInv'
    <2>1. \A o \in Procs : Fresh(o)' => Fresh(o) /\ OpenFile'[o] = OpenFile[o]
        BY ZenonT(60), <1>22, <1>t DEF Open, At, Goto, Fresh, Forking, ForkInv,
           callVars
    <2>2. \A r \in Procs, c \in Fds :
              \/ OpenFile'[r][c] = OpenFile[r][c] \/ OpenFile'[r][c] = Null
              \/ \A o \in Procs, b \in Fds :
                     Fresh(o)' => OpenFile[o][b] # OpenFile'[r][c]
        <3>1. \A o \in Procs, b \in Fds : OpenFile[o][b] # f
            BY Zenon, <1>22, FreeFile DEF Open
        <3> QED
            BY <1>22, <1>t, <3>1 DEF Open
    <2> QED
        BY Zenon, <1>t, <2>1, <2>2, FreshFrame
<1>23. ASSUME NEW p \in Procs, NEW k \in Pipes, PipeMake(p, k)
       PROVE  FreshInv'
    <2>1. \A o \in Procs : Fresh(o)' => Fresh(o) /\ OpenFile'[o] = OpenFile[o]
        BY ZenonT(60), <1>23, <1>t DEF PipeMake, At, Goto, Fresh, Forking,
           ForkInv,
           callVars
    <2>2. \A r \in Procs, c \in Fds :
              \/ OpenFile'[r][c] = OpenFile[r][c] \/ OpenFile'[r][c] = Null
              \/ \A o \in Procs, b \in Fds :
                     Fresh(o)' => OpenFile[o][b] # OpenFile'[r][c]
        <3>3. \A o \in Procs, b \in Fds : /\ OpenFile[o][b] # held[p][1]
                                         /\ OpenFile[o][b] # held[p][2]
            BY Zenon, <1>23, PipeFiles DEF PipeMake, At
        <3>4. \A r \in Procs, c \in Fds :
                  \/ OpenFile'[r][c] = OpenFile[r][c]
                  \/ OpenFile'[r][c] \in {held[p][1], held[p][2]}
            BY Zenon, <1>23, <1>t, PipeDescriptors
        <3> QED
            BY <3>3, <3>4
    <2> QED
        BY Zenon, <1>t, <2>1, <2>2, FreshFrame
<1>24. ASSUME NEW p \in Procs, NEW q \in Procs, ForkNullFile(p, q)
       PROVE  FreshInv'
    <2>1. CASE UNCHANGED <<OpenFile, pc, np, file>>
        BY <1>t, <2>1 DEF FreshInv, Fresh
    <2>2. CASE /\ ForkGot(p, q) /\ file' = file
               /\ OpenFile' = [OpenFile EXCEPT ![q] =
                     [d \in Fds |-> IF d \in StdFds THEN Null ELSE @[d]]]
        <3>1. pc[p] = "user" /\ pc[q] = "unused"
            BY Zenon, <1>24 DEF ForkNullFile, At
        <3>2. \A o \in Procs : Fresh(o)' => Fresh(o)
            BY <1>t, <2>2, <3>1 DEF ForkGot, Fresh
        <3>3. \A r \in Procs, c \in Fds :
                  OpenFile'[r][c] = OpenFile[r][c] \/ OpenFile'[r][c] = Null
            BY <1>t, <2>2
        <3> QED
            BY <1>t, <2>2, <3>2, <3>3 DEF FreshInv
    <2> QED
        BY <1>24, <2>1, <2>2 DEF ForkNullFile, fileVars
<1>25. ASSUME NEW p \in Procs, NEW q \in Procs, NEW f \in FileIds, ForkAllocate(p, q, f)
       PROVE  FreshInv'
    <2>1. /\ pc[p] = "user" /\ pc[q] = "unused"
        BY Zenon, <1>25 DEF ForkAllocate, At
    <2>2. \A r \in Procs : r # q => OpenFile'[r] = OpenFile[r]
        BY <1>25, <1>t DEF ForkAllocate
    <2>3. \A o \in Procs : Fresh(o)' => Fresh(o)
        BY <1>25, <1>t, <2>1 DEF ForkAllocate, ForkGot, Fresh
    <2>4. \A o \in Procs, b \in Fds : OpenFile[o][b] # f
        BY Zenon, <1>25, FreeFile DEF ForkAllocate
    <2>5. /\ \A c \in Fds : OpenFile'[q][c] = IF c \in StdFds THEN f ELSE OpenFile[q][c]
          /\ file'[f] = Console
        BY <1>25, <1>t DEF ForkAllocate
    <2>6. \A c \in Fds : c \notin StdFds => OpenFile[q][c] = Null
        BY <1>t, <2>1 DEF FreshInv, Fresh
    <2>7. \A c \in Fds : OpenFile'[q][c] = IF c \in StdFds THEN f ELSE Null
        BY <2>5, <2>6
    <2> SUFFICES ASSUME NEW o \in Procs, NEW b \in Fds, Fresh(o)',
                        OpenFile'[o][b] # Null
                 PROVE  /\ b \in StdFds
                        /\ file'[OpenFile'[o][b]].type = "DEVICE"
                        /\ \A r \in Procs, e \in Fds :
                               OpenFile'[r][e] = OpenFile'[o][b] => r = o
        BY ZenonT(60) DEF FreshInv
    <2>8. CASE o = q
        BY <2>2, <2>4, <2>5, <2>7, <2>8, Records
    <2>9. CASE o # q
        <3>1. Fresh(o) /\ OpenFile'[o][b] = OpenFile[o][b] /\ OpenFile[o][b] # Null
            BY ZenonT(60), <2>2, <2>3, <2>9
        <3>2. /\ b \in StdFds /\ file'[OpenFile[o][b]].type = "DEVICE"
              /\ \A r \in Procs, e \in Fds : OpenFile[r][e] = OpenFile[o][b] => r = o
            BY <1>t, <3>1 DEF FreshInv, Kept
        <3> QED
            BY <2>2, <2>4, <2>7, <3>1, <3>2
    <2> QED
        BY <2>8, <2>9
<1>26. CASE UNCHANGED sysVars
    BY <1>26, <1>t DEF sysVars, fileVars, callVars, FreshInv, Fresh
<1> QED
    BY Zenon, <1>1, <1>2, <1>3, <1>4, <1>5, <1>6, <1>7, <1>8, <1>9, <1>10,
       <1>11, <1>12, <1>13, <1>14, <1>15, <1>16, <1>17, <1>18, <1>19, <1>20,
       <1>21, <1>22, <1>23, <1>24, <1>25, <1>26 DEF Step, Panicked

(* Descriptors that stay, are closed or name an open File keep OpenInv.    *)
LEMMA OpenFrame ==
    ASSUME OpenInv, Kept,
           \A g \in FileIds : ref'[g] = 0 => file'[g] = NoFile,
           \A o \in Procs, b \in Fds :
               \/ OpenFile'[o][b] = OpenFile[o][b] \/ OpenFile'[o][b] = Null
               \/ /\ ref'[OpenFile'[o][b]] > 0
                  /\ file'[OpenFile'[o][b]].type # "NONE"
    PROVE  OpenInv'
<1> SUFFICES ASSUME NEW o \in Procs, NEW b \in Fds, OpenFile'[o][b] # Null
             PROVE  /\ ref'[OpenFile'[o][b]] > 0
                    /\ file'[OpenFile'[o][b]].type # "NONE"
    BY Zenon DEF OpenInv
<1>1. CASE OpenFile'[o][b] = OpenFile[o][b]
    BY <1>1 DEF OpenInv, Kept
<1>2. CASE OpenFile'[o][b] # OpenFile[o][b]
    BY Zenon, <1>2
<1> QED
    BY <1>1, <1>2

(* Every step keeps OpenInv.                                                *)
LEMMA OpenStep ==
    ASSUME FiniteFacts, IInv, Kept, [Step]_sysVars
    PROVE  OpenInv'
<1>t. /\ ref \in [FileIds -> Nat] /\ file \in [FileIds -> FileRecords]
      /\ OpenFile \in [Procs -> [Fds -> FileIds \cup {Null}]]
      /\ SysTypes /\ OpenInv /\ Kept
    BY Zenon DEF IInv, SysTypes
<1>1. ASSUME NEW p \in Procs, PipeClose(p)
       PROVE  OpenInv'
    <2>1. ref' = ref /\ file' = file
        BY Zenon, <1>1 DEF PipeClose, fileVars
    <2>2. OpenFile' = OpenFile
        BY Zenon, <1>1 DEF PipeClose
    <2> QED
        BY <1>t, <2>1, <2>2 DEF OpenInv
<1>2. ASSUME NEW p \in Procs, DupCount(p)
       PROVE  OpenInv'
    <2>1. PICK f \in FileIds : f = Head(held[p]) /\ ref[f] > 0
        BY Zenon, <1>2, InUse DEF DupCount, At
    <2>2. /\ ref' = [ref EXCEPT ![f] = @ + 1] /\ file' = file
          /\ OpenFile' = OpenFile
        BY <1>2, <1>t, <2>1, DupFile DEF DupCount
    <2>3. \A g \in FileIds : ref'[g] = 0 => file'[g] = NoFile
        BY <1>t, <2>1, <2>2 DEF OpenInv
    <2> QED
        BY <1>t, <2>2, <2>3, OpenFrame
<1>3. ASSUME NEW p \in Procs, PipeFail(p)
       PROVE  OpenInv'
    <2>1. ref' = ref /\ file' = file
        BY <1>3 DEF PipeFail, fileVars
    <2>2. OpenFile' = OpenFile
        BY <1>3 DEF PipeFail
    <2> QED
        BY <1>t, <2>1, <2>2 DEF OpenInv
<1>4. ASSUME NEW p \in Procs, CloseHeld(p)
       PROVE  OpenInv'
    <2>1. PICK f \in FileIds : ref[f] > 0 /\ fileClose(p, f)
        BY Zenon, <1>4, InUse DEF CloseHeld, At, Holding
    <2>2. /\ ref' = [ref EXCEPT ![f] = @ - 1]
          /\ file' = [file EXCEPT ![f] = IF ref[f] = 1 THEN NoFile ELSE @]
        BY Zenon, <1>t, <2>1, CloseFile
    <2>3. \A g \in FileIds : ref'[g] = 0 => file'[g] = NoFile
        BY <1>t, <2>1, <2>2 DEF OpenInv
    <2>4. \A o \in Procs, b \in Fds :
              OpenFile'[o][b] = OpenFile[o][b] \/ OpenFile'[o][b] = Null
        BY <1>4 DEF CloseHeld
    <2> QED
        BY Zenon, <1>t, <2>3, <2>4, OpenFrame
<1>5. ASSUME NEW p \in Procs, ForkNoMemory(p)
       PROVE  OpenInv'
    <2>1. ref' = ref /\ file' = file
        BY <1>5 DEF ForkNoMemory, fileVars
    <2>2. OpenFile' = OpenFile
        BY <1>5 DEF ForkNoMemory
    <2> QED
        BY <1>t, <2>1, <2>2 DEF OpenInv
<1>6. ASSUME NEW p \in Procs, ForkCopied(p)
       PROVE  OpenInv'
    <2>1. ref' = ref /\ file' = file
        BY <1>6 DEF ForkCopied, fileVars
    <2>2. OpenFile' = OpenFile
        BY <1>6 DEF ForkCopied
    <2> QED
        BY <1>t, <2>1, <2>2 DEF OpenInv
<1>7. ASSUME NEW p \in Procs, ForkDup(p)
       PROVE  OpenInv'
    <2>1. np[p] \in Procs /\ \A d \in left[p] : OpenFile[p][d] # Null
        BY Zenon, <1>7 DEF ForkDup, At, IInv, ForkInv, Forking
    <2>2. PICK d \in Fds :
              /\ OpenFile[p][d] # Null /\ fileDup(OpenFile[p][d])
              /\ OpenFile' = [OpenFile EXCEPT ![np[p]][d] = OpenFile[p][d]]
        BY ZenonT(60), <1>7, <2>1 DEF ForkDup, Lowest
    <2>3. PICK f \in FileIds : /\ f = OpenFile[p][d] /\ ref[f] > 0
                            /\ file[f].type # "NONE"
        BY <1>t, <2>2, InUse DEF OpenInv
    <2>4. ref' = [ref EXCEPT ![f] = @ + 1] /\ file' = file
        BY <1>7, <1>t, <2>2, <2>3, DupFile DEF ForkDup
    <2>5. \A g \in FileIds : ref'[g] = 0 => file'[g] = NoFile
        BY <1>t, <2>3, <2>4 DEF OpenInv
    <2>6. \A o \in Procs, b \in Fds :
              \/ OpenFile'[o][b] = OpenFile[o][b] \/ OpenFile'[o][b] = Null
              \/ /\ ref'[OpenFile'[o][b]] > 0
                 /\ file'[OpenFile'[o][b]].type # "NONE"
        BY <1>t, <2>1, <2>2, <2>3, <2>4
    <2> QED
        BY Zenon, <1>t, <2>5, <2>6, OpenFrame
<1>8. ASSUME NEW p \in Procs, ForkPublish(p)
       PROVE  OpenInv'
    <2>1. ref' = ref /\ file' = file
        BY <1>8 DEF ForkPublish, fileVars
    <2>2. OpenFile' = OpenFile
        BY <1>8 DEF ForkPublish
    <2> QED
        BY <1>t, <2>1, <2>2 DEF OpenInv
<1>9. ASSUME NEW p \in Procs, Exit(p)
       PROVE  OpenInv'
    <2>1. ref' = ref /\ file' = file
        BY <1>9 DEF Exit, fileVars
    <2>2. OpenFile' = OpenFile
        BY <1>9 DEF Exit
    <2> QED
        BY <1>t, <2>1, <2>2 DEF OpenInv
<1>10. ASSUME NEW p \in Procs, ExitClose(p)
       PROVE  OpenInv'
    <2>0. PICK d \in Fds : /\ OpenFile[p][d] # Null
                        /\ fileClose(p, OpenFile[p][d])
                        /\ OpenFile' = [OpenFile EXCEPT ![p][d] = Null]
        BY ZenonT(60), <1>10 DEF ExitClose, Lowest, OpenFds
    <2>1. PICK f \in FileIds : f = OpenFile[p][d] /\ ref[f] > 0 /\ fileClose(p, f)
        BY <2>0, InUse
    <2>2. /\ ref' = [ref EXCEPT ![f] = @ - 1]
          /\ file' = [file EXCEPT ![f] = IF ref[f] = 1 THEN NoFile ELSE @]
        BY ZenonT(60), <1>t, <2>1, CloseFile
    <2>3. \A g \in FileIds : ref'[g] = 0 => file'[g] = NoFile
        BY <1>t, <2>1, <2>2 DEF OpenInv
    <2>4. \A o \in Procs, b \in Fds :
              OpenFile'[o][b] = OpenFile[o][b] \/ OpenFile'[o][b] = Null
        BY <1>t, <2>0
    <2> QED
        BY Zenon, <1>t, <2>3, <2>4, OpenFrame
<1>11. ASSUME NEW p \in Procs, ExitDone(p)
       PROVE  OpenInv'
    <2>1. ref' = ref /\ file' = file
        BY <1>11 DEF ExitDone, fileVars
    <2>2. OpenFile' = OpenFile
        BY <1>11 DEF ExitDone
    <2> QED
        BY <1>t, <2>1, <2>2 DEF OpenInv
<1>12. ASSUME NEW p \in Procs, ExecFail(p)
       PROVE  OpenInv'
    <2>1. ref' = ref /\ file' = file
        BY <1>12 DEF ExecFail, fileVars
    <2>2. OpenFile' = OpenFile
        BY <1>12 DEF ExecFail
    <2> QED
        BY <1>t, <2>1, <2>2 DEF OpenInv
<1>13. ASSUME NEW p \in Procs, ExecLoaded(p)
       PROVE  OpenInv'
    <2>1. PICK f \in FileIds : ref[f] > 0 /\ fileClose(p, f)
        BY Zenon, <1>13, InUse DEF ExecLoaded, At, Holding
    <2>2. /\ ref' = [ref EXCEPT ![f] = @ - 1]
          /\ file' = [file EXCEPT ![f] = IF ref[f] = 1 THEN NoFile ELSE @]
        BY Zenon, <1>t, <2>1, CloseFile
    <2>3. \A g \in FileIds : ref'[g] = 0 => file'[g] = NoFile
        BY <1>t, <2>1, <2>2 DEF OpenInv
    <2>4. \A o \in Procs, b \in Fds :
              OpenFile'[o][b] = OpenFile[o][b] \/ OpenFile'[o][b] = Null
        BY <1>13 DEF ExecLoaded
    <2> QED
        BY Zenon, <1>t, <2>3, <2>4, OpenFrame
<1>14. ASSUME NEW p \in Procs, ExecDone(p)
       PROVE  OpenInv'
    <2>1. ref' = ref /\ file' = file
        BY <1>14 DEF ExecDone, fileVars
    <2>2. OpenFile' = OpenFile
        BY <1>14 DEF ExecDone
    <2> QED
        BY <1>t, <2>1, <2>2 DEF OpenInv
<1>15. ASSUME NEW p \in Procs, NEW d \in Fds, sys_close(p, d)
       PROVE  OpenInv'
    <2>1. PICK f \in FileIds : f = OpenFile[p][d] /\ ref[f] > 0 /\ fileClose(p, f)
        BY <1>15, InUse DEF sys_close
    <2>2. /\ ref' = [ref EXCEPT ![f] = @ - 1]
          /\ file' = [file EXCEPT ![f] = IF ref[f] = 1 THEN NoFile ELSE @]
        BY Zenon, <1>t, <2>1, CloseFile
    <2>3. \A g \in FileIds : ref'[g] = 0 => file'[g] = NoFile
        BY <1>t, <2>1, <2>2 DEF OpenInv
    <2>4. \A o \in Procs, b \in Fds :
              OpenFile'[o][b] = OpenFile[o][b] \/ OpenFile'[o][b] = Null
        BY <1>15, <1>t DEF sys_close
    <2> QED
        BY Zenon, <1>t, <2>3, <2>4, OpenFrame
<1>16. ASSUME NEW p \in Procs, NEW d \in Fds, sys_read(p, d)
       PROVE  OpenInv'
    <2>1. ref' = ref /\ file' = file
        BY <1>16 DEF sys_read, fileVars
    <2>2. OpenFile' = OpenFile
        BY <1>16 DEF sys_read
    <2> QED
        BY <1>t, <2>1, <2>2 DEF OpenInv
<1>17. ASSUME NEW p \in Procs, NEW d \in Fds, sys_write(p, d)
       PROVE  OpenInv'
    <2>1. ref' = ref /\ file' = file
        BY <1>17 DEF sys_write, fileVars
    <2>2. OpenFile' = OpenFile
        BY <1>17 DEF sys_write
    <2> QED
        BY <1>t, <2>1, <2>2 DEF OpenInv
<1>18. ASSUME NEW p \in Procs, NEW d \in Fds, NEW e \in Fds, DupInstall(p, d, e)
       PROVE  OpenInv'
    <2>1. ref' = ref /\ file' = file
        BY <1>18 DEF DupInstall, fileVars
    <2>2. PICK f \in FileIds : /\ f = OpenFile[p][d] /\ ref[f] > 0
                            /\ file[f].type # "NONE"
        BY <1>18, <1>t, InUse DEF OpenInv, DupInstall
    <2>3. OpenFile' = [OpenFile EXCEPT ![p][e] = f]
        BY <1>18, <2>2 DEF DupInstall
    <2>4. \A o \in Procs, b \in Fds :
              \/ OpenFile'[o][b] = OpenFile[o][b] \/ OpenFile'[o][b] = Null
              \/ /\ ref'[OpenFile'[o][b]] > 0
                 /\ file'[OpenFile'[o][b]].type # "NONE"
        BY <1>t, <2>1, <2>2, <2>3
    <2>5. \A g \in FileIds : ref'[g] = 0 => file'[g] = NoFile
        BY <1>t, <2>1 DEF OpenInv
    <2> QED
        BY Zenon, <1>t, <2>4, <2>5, OpenFrame
<1>19. ASSUME NEW p \in Procs, NEW f \in FileIds, PipeFirst(p, f)
       PROVE  OpenInv'
    <2>1. /\ ref'[f] > 0
          /\ \A g \in FileIds : g # f => ref'[g] = ref[g] /\ file'[g] = file[g]
        BY <1>19, <1>t DEF PipeFirst
    <2>2. \A g \in FileIds : ref'[g] = 0 => file'[g] = NoFile
        BY <1>t, <2>1 DEF OpenInv
    <2>3. OpenFile' = OpenFile
        BY <1>19 DEF PipeFirst
    <2> QED
        BY <1>t, <2>2, <2>3, OpenFrame
<1>20. ASSUME NEW p \in Procs, NEW f \in FileIds, PipeSecond(p, f)
       PROVE  OpenInv'
    <2>1. /\ ref'[f] > 0
          /\ \A g \in FileIds : g # f => ref'[g] = ref[g] /\ file'[g] = file[g]
        BY <1>20, <1>t DEF PipeSecond
    <2>2. \A g \in FileIds : ref'[g] = 0 => file'[g] = NoFile
        BY <1>t, <2>1 DEF OpenInv
    <2>3. OpenFile' = OpenFile
        BY <1>20 DEF PipeSecond
    <2> QED
        BY <1>t, <2>2, <2>3, OpenFrame
<1>21. ASSUME NEW p \in Procs, NEW f \in FileIds, ExecOpen(p, f)
       PROVE  OpenInv'
    <2>1. /\ ref'[f] > 0
          /\ \A g \in FileIds : g # f => ref'[g] = ref[g] /\ file'[g] = file[g]
        BY <1>21, <1>t DEF ExecOpen
    <2>2. \A g \in FileIds : ref'[g] = 0 => file'[g] = NoFile
        BY <1>t, <2>1 DEF OpenInv
    <2>3. OpenFile' = OpenFile
        BY <1>21 DEF ExecOpen
    <2> QED
        BY <1>t, <2>2, <2>3, OpenFrame
<1>22. ASSUME NEW p \in Procs, NEW f \in FileIds, NEW m \in Modes, Open(p, f, m)
       PROVE  OpenInv'
    <2>1. /\ ref'[f] > 0
          /\ \A g \in FileIds : g # f => ref'[g] = ref[g] /\ file'[g] = file[g]
        BY <1>22, <1>t DEF Open
    <2>2. \A g \in FileIds : ref'[g] = 0 => file'[g] = NoFile
        BY <1>t, <2>1 DEF OpenInv
    <2>3. file'[f].type # "NONE"
        BY <1>22, <1>t, Records, FilesAssumption DEF Open
    <2>4. \A o \in Procs, b \in Fds :
              OpenFile'[o][b] = OpenFile[o][b] \/ OpenFile'[o][b] = f
        BY <1>22, <1>t DEF Open
    <2> QED
        BY <1>t, <2>1, <2>2, <2>3, <2>4, OpenFrame
<1>23. ASSUME NEW p \in Procs, NEW k \in Pipes, PipeMake(p, k)
       PROVE  OpenInv'
    <2> DEFINE r == held[p][1]
               w == held[p][2]
    <2>1. /\ r \in FileIds /\ w \in FileIds /\ r # w /\ ref[r] = 1 /\ ref[w] = 1
        BY ZenonT(60), <1>23, PipeFiles DEF PipeMake, At
    <2>2. /\ file' = [file EXCEPT ![r] = PipeEnd(k, "r"), ![w] = PipeEnd(k, "w")]
          /\ ref' = ref
        BY <1>23 DEF PipeMake
    <2>3. \A o \in Procs, b \in Fds :
              OpenFile'[o][b] = OpenFile[o][b] \/ OpenFile'[o][b] \in {r, w}
        BY ZenonT(60), <1>23, <1>t, PipeDescriptors
    <2> HIDE DEF r, w
    <2>4. /\ file'[r].type = "PIPE" /\ file'[w].type = "PIPE"
          /\ \A g \in FileIds : g # r /\ g # w => file'[g] = file[g]
        BY <1>t, <2>1, <2>2, Records
    <2>5. \A g \in FileIds : ref'[g] = 0 => file'[g] = NoFile
        BY <1>t, <2>1, <2>2, <2>4 DEF OpenInv
    <2>6. \A o \in Procs, b \in Fds :
              \/ OpenFile'[o][b] = OpenFile[o][b] \/ OpenFile'[o][b] = Null
              \/ /\ ref'[OpenFile'[o][b]] > 0
                 /\ file'[OpenFile'[o][b]].type # "NONE"
        BY <2>1, <2>2, <2>3, <2>4
    <2> QED
        BY Zenon, <1>t, <2>5, <2>6, OpenFrame
<1>24. ASSUME NEW p \in Procs, NEW q \in Procs, ForkNullFile(p, q)
       PROVE  OpenInv'
    <2>1. ref' = ref /\ file' = file
        BY <1>24 DEF ForkNullFile, fileVars
    <2>2. \A o \in Procs, b \in Fds :
              OpenFile'[o][b] = OpenFile[o][b] \/ OpenFile'[o][b] = Null
        BY <1>24, <1>t DEF ForkNullFile
    <2>3. \A g \in FileIds : ref'[g] = 0 => file'[g] = NoFile
        BY <1>t, <2>1 DEF OpenInv
    <2> QED
        BY Zenon, <1>t, <2>2, <2>3, OpenFrame
<1>25. ASSUME NEW p \in Procs, NEW q \in Procs, NEW f \in FileIds, ForkAllocate(p, q, f)
       PROVE  OpenInv'
    <2>1. /\ ref'[f] > 0
          /\ \A g \in FileIds : g # f => ref'[g] = ref[g] /\ file'[g] = file[g]
        BY <1>25, <1>t DEF ForkAllocate, FiniteFacts, CardTables
    <2>2. \A g \in FileIds : ref'[g] = 0 => file'[g] = NoFile
        BY <1>t, <2>1 DEF OpenInv
    <2>3. file'[f].type # "NONE"
        BY <1>25, <1>t, Records DEF ForkAllocate
    <2>4. \A o \in Procs, b \in Fds :
              OpenFile'[o][b] = OpenFile[o][b] \/ OpenFile'[o][b] = f
        BY <1>25, <1>t DEF ForkAllocate
    <2> QED
        BY <1>t, <2>1, <2>2, <2>3, <2>4, OpenFrame
<1>26. CASE UNCHANGED sysVars
    BY <1>26, <1>t DEF sysVars, fileVars, callVars, OpenInv
<1> QED
    BY ZenonT(60), <1>1, <1>2, <1>3, <1>4, <1>5, <1>6, <1>7, <1>8, <1>9, <1>10,
       <1>11, <1>12, <1>13, <1>14, <1>15, <1>16, <1>17, <1>18, <1>19, <1>20,
       <1>21, <1>22, <1>23, <1>24, <1>25, <1>26 DEF Step, Panicked

(* What the sets that References counts consist of.                        *)
LEMMA Pairs ==
    ASSUME NEW f
    PROVE  /\ Named(f) \subseteq Procs \X Fds /\ Uncounted(f) \subseteq Procs
           /\ \A q \in Procs, e \in Fds :
                  <<q, e>> \in Named(f) <=> /\ pc[q] # "unused"
                                            /\ OpenFile[q][e] = f
    BY DEF Named, Uncounted

(* The sets that References counts are finite.                             *)
LEMMA Finite ==
    ASSUME FiniteFacts, NEW f
    PROVE  /\ IsFiniteSet(Named(f)) /\ Cardinality(Named(f)) \in Nat
           /\ IsFiniteSet(Uncounted(f)) /\ Cardinality(Uncounted(f)) \in Nat
<1>1. IsFiniteSet(Named(f)) /\ IsFiniteSet(Uncounted(f))
    BY Constants, Pairs DEF FiniteFacts, CardSubset, CardTables
<1> QED
    BY <1>1 DEF FiniteFacts, CardType

(* The descriptor that a process closes names a File with more references  *)
(* than one, or is the only one to name it: what sys_dup has installed and *)
(* not yet counted is always a second descriptor.                          *)
LEMMA LastOne ==
    ASSUME FiniteFacts, IInv, NEW p \in Procs, NEW d \in Fds,
           pc[p] \in {"user", "exit"},
           OpenFile[p][d] # Null, ref[OpenFile[p][d]] = 1
    PROVE  \A q \in Procs, e \in Fds :
               OpenFile[q][e] = OpenFile[p][d] => q = p /\ e = d
<1>1. PICK f \in FileIds : f = OpenFile[p][d]
    BY InUse
<1> SUFFICES ASSUME NEW q \in Procs, NEW e \in Fds, OpenFile[q][e] = f,
                    ~(q = p /\ e = d)
             PROVE  FALSE
    BY <1>1
<1>2. pc[q] # "unused" /\ pc[p] # "unused"
    <2>1. pc[q] = "unused" => p = q
        BY <1>1 DEF IInv, FreshInv, Fresh
    <2> QED
        BY <2>1
<1>3. ~IsHeld(f)
    BY <1>1, NamedNotHeld DEF IsHeld, Holds, IInv
<1> DEFINE x == <<p, d>>
           y == <<q, e>>
           N == Named(f)
           U == Uncounted(f)
           R == (N \ {x}) \ {y}
<1>4. x \in N /\ y \in N /\ x # y
    BY <1>1, <1>2, Pairs
<1>5. IsFiniteSet(R) /\ Cardinality(R) = Cardinality(N) - 2
    <2>1. IsFiniteSet(N) /\ Cardinality(N) \in Nat
        BY Finite
    <2>2. IsFiniteSet(N \ {x}) /\ Cardinality(N \ {x}) = Cardinality(N) - 1
        BY Zenon, <1>4, <2>1 DEF FiniteFacts, CardRemove
    <2>3. y \in N \ {x}
        BY <1>4
    <2>4. IsFiniteSet(R) /\ Cardinality(R) = Cardinality(N \ {x}) - 1
        BY Zenon, <2>2, <2>3 DEF FiniteFacts, CardRemove
    <2> QED
        BY <2>1, <2>2, <2>4
<1>6. ASSUME NEW u \in U
      PROVE  u \in Procs /\ u # p /\ \E c \in Fds : /\ <<u, c>> \in N
                                                    /\ u = q => c # e
    <2>1. u \in Procs /\ pc[u] = "dup" /\ held[u][1] = f
        BY DEF Uncounted
    <2>2. PICK a, b \in Fds : a # b /\ OpenFile[u][a] = f /\ OpenFile[u][b] = f
        BY <2>1 DEF IInv, CallInv
    <2>3. <<u, a>> \in N /\ <<u, b>> \in N
        BY <2>1, <2>2, Pairs
    <2> QED
        BY <2>1, <2>2, <2>3
<1> DEFINE g(u) == CHOOSE c \in Fds : <<u, c>> \in N /\ (u = q => c # e)
           h == [u \in U |-> <<u, g(u)>>]
<1> HIDE DEF N, U
<1>7. ASSUME NEW u \in U
      PROVE  h[u] = <<u, g(u)>> /\ h[u] \in R
    <2>1. u # p /\ g(u) \in Fds /\ <<u, g(u)>> \in N /\ (u = q => g(u) # e)
        BY <1>6
    <2> HIDE DEF g
    <2> QED
        BY <2>1
<1> HIDE DEF g
<1>8. h \in [U -> R] /\ \A u, v \in U : h[u] = h[v] => u = v
    <2>1. h \in [U -> R]
        BY <1>7
    <2>2. ASSUME NEW u \in U, NEW v \in U, h[u] = h[v] PROVE u = v
        BY <1>7, <2>2
    <2> QED
        BY Zenon, <2>1, <2>2
<1> HIDE DEF h, R
<1>9. Cardinality(U) <= Cardinality(N) - 2
    <2>1. Cardinality(U) <= Cardinality(R)
        BY Zenon, <1>5, <1>8 DEF FiniteFacts, CardInjection
    <2> QED
        BY <1>5, <2>1
<1>10. Cardinality(N) \in Nat /\ Cardinality(U) \in Nat
    BY Finite DEF N, U
<1>11. Owed(f) = Cardinality(N) - Cardinality(U)
    BY <1>3, <1>10 DEF Owed, N, U
<1>12. ref[f] >= Owed(f)
    BY DEF IInv, CountInv, CountOf
<1> QED
    BY <1>1, <1>9, <1>10, <1>11, <1>12

(* Closing a descriptor leaves alone what the others name.                 *)
LEMMA CloseKeeps ==
    ASSUME FiniteFacts, IInv, NEW p \in Procs, NEW d \in Fds,
           pc[p] \in {"user", "exit"},
           OpenFile[p][d] # Null, fileClose(p, OpenFile[p][d]),
           OpenFile' = [OpenFile EXCEPT ![p][d] = Null]
    PROVE  Kept
<1>t. /\ ref \in [FileIds -> Nat] /\ file \in [FileIds -> FileRecords]
      /\ OpenFile \in [Procs -> [Fds -> FileIds \cup {Null}]]
      /\ SysTypes
    BY Zenon DEF IInv, SysTypes
<1>1. PICK f \in FileIds : f = OpenFile[p][d] /\ ref[f] > 0
    BY Zenon, InUse
<1>2. /\ ref' = [ref EXCEPT ![f] = @ - 1]
      /\ file' = [file EXCEPT ![f] = IF ref[f] = 1 THEN NoFile ELSE @]
    BY Zenon, <1>t, <1>1, CloseFile
<1> SUFFICES ASSUME NEW q \in Procs, NEW e \in Fds, OpenFile[q][e] # Null,
                    OpenFile'[q][e] = OpenFile[q][e]
             PROVE  /\ file'[OpenFile[q][e]] = file[OpenFile[q][e]]
                    /\ ref'[OpenFile[q][e]] > 0
    BY Zenon DEF Kept
<1>3. PICK g \in FileIds : g = OpenFile[q][e] /\ ref[g] > 0
    BY Zenon, InUse
<1>4. ~(q = p /\ e = d)
    BY <1>t
<1>5. CASE g # f
    BY <1>t, <1>2, <1>3, <1>5
<1>6. CASE g = f
    <2>1. ASSUME ref[f] = 1 PROVE FALSE
        <3>1. ref[OpenFile[p][d]] = 1 /\ OpenFile[q][e] = OpenFile[p][d]
            BY <1>1, <1>3, <1>6, <2>1
        <3>2. q = p /\ e = d
            BY <3>1, LastOne
        <3> QED
            BY <1>4, <3>2
    <2> QED
        BY <1>t, <1>1, <1>2, <1>3, <1>6, <2>1
<1> QED
    BY <1>5, <1>6

(* A descriptor that stays names the same open File as before.              *)
LEMMA KeptStep ==
    ASSUME FiniteFacts, IInv, [Step]_sysVars
    PROVE  Kept
<1>t. /\ held \in [Procs -> HeldFiles]
      /\ ref \in [FileIds -> Nat] /\ file \in [FileIds -> FileRecords]
      /\ SysTypes /\ HeldInv
    BY Zenon DEF IInv, SysTypes
<1> USE DEF Kept
<1>0. \A q \in Procs, e \in Fds : OpenFile[q][e] # Null =>
          OpenFile[q][e] \in FileIds /\ ref[OpenFile[q][e]] > 0
    BY InUse
<1>1. ASSUME NEW p \in Procs, PipeClose(p)
       PROVE  Kept
    BY Zenon, <1>1, <1>0 DEF PipeClose, fileVars
<1>2. ASSUME NEW p \in Procs, DupCount(p)
       PROVE  Kept
    <2>1. PICK f \in FileIds : f = Head(held[p]) /\ ref[f] > 0
        BY Zenon, <1>2, InUse DEF DupCount, At
    <2>2. ref' = [ref EXCEPT ![f] = @ + 1] /\ file' = file
        BY <1>2, <1>t, <2>1, DupFile DEF DupCount
    <2> QED
        BY <1>t, <1>0, <2>1, <2>2
<1>3. ASSUME NEW p \in Procs, PipeFail(p)
       PROVE  Kept
    BY <1>3, <1>0 DEF PipeFail, fileVars
<1>4. ASSUME NEW p \in Procs, CloseHeld(p)
       PROVE  Kept
    <2>1. /\ pc[p] \in Holding /\ 1 \in 1..Len(held[p])
          /\ held[p][1] = Head(held[p])
        BY Zenon, <1>4, InUse DEF CloseHeld, At, Holding
    <2>2. PICK f \in FileIds : f = held[p][1] /\ ref[f] > 0
        BY Zenon, <2>1, InUse
    <2>3. \A q \in Procs, e \in Fds : OpenFile[q][e] # f
        BY <1>t, <2>1, <2>2 DEF HeldInv
    <2>4. \A g \in FileIds : g # f => ref'[g] = ref[g] /\ file'[g] = file[g]
        BY <1>4, <1>t, <2>1, <2>2, CloseFile DEF CloseHeld
    <2> QED
        BY <1>0, <2>3, <2>4
<1>5. ASSUME NEW p \in Procs, ForkNoMemory(p)
       PROVE  Kept
    BY <1>5, <1>0 DEF ForkNoMemory, fileVars
<1>6. ASSUME NEW p \in Procs, ForkCopied(p)
       PROVE  Kept
    BY <1>6, <1>0 DEF ForkCopied, fileVars
<1>7. ASSUME NEW p \in Procs, ForkDup(p)
       PROVE  Kept
    <2>1. \A d \in left[p] : OpenFile[p][d] # Null
        BY Zenon, <1>7 DEF ForkDup, At, IInv, ForkInv, Forking
    <2>2. PICK d \in Fds : OpenFile[p][d] # Null /\ fileDup(OpenFile[p][d])
        BY <1>7, <2>1 DEF ForkDup, Lowest
    <2>3. PICK f \in FileIds : f = OpenFile[p][d] /\ ref[f] > 0
        BY Zenon, <2>2, InUse
    <2>4. ref' = [ref EXCEPT ![f] = @ + 1] /\ file' = file
        BY <1>7, <1>t, <2>2, <2>3, DupFile DEF ForkDup
    <2> QED
        BY <1>t, <1>0, <2>3, <2>4
<1>8. ASSUME NEW p \in Procs, ForkPublish(p)
       PROVE  Kept
    BY <1>8, <1>0 DEF ForkPublish, fileVars
<1>9. ASSUME NEW p \in Procs, Exit(p)
       PROVE  Kept
    BY <1>9, <1>0 DEF Exit, fileVars
<1>10. ASSUME NEW p \in Procs, ExitClose(p)
       PROVE  Kept
    <2>1. PICK d \in Fds : /\ OpenFile[p][d] # Null
                        /\ fileClose(p, OpenFile[p][d])
                        /\ OpenFile' = [OpenFile EXCEPT ![p][d] = Null]
        BY Zenon, <1>10 DEF ExitClose, Lowest, OpenFds
    <2>2. pc[p] \in {"user", "exit"}
        BY Zenon, <1>10 DEF ExitClose, At
    <2> QED
        BY Zenon, <2>1, <2>2, CloseKeeps
<1>11. ASSUME NEW p \in Procs, ExitDone(p)
       PROVE  Kept
    BY <1>11, <1>0 DEF ExitDone, fileVars
<1>12. ASSUME NEW p \in Procs, ExecFail(p)
       PROVE  Kept
    BY <1>12, <1>0 DEF ExecFail, fileVars
<1>13. ASSUME NEW p \in Procs, ExecLoaded(p)
       PROVE  Kept
    <2>1. /\ pc[p] \in Holding /\ 1 \in 1..Len(held[p])
          /\ held[p][1] = Head(held[p])
        BY ZenonT(60), <1>13, InUse DEF ExecLoaded, At, Holding
    <2>2. PICK f \in FileIds : f = held[p][1] /\ ref[f] > 0
        BY Zenon, <2>1, InUse
    <2>3. \A q \in Procs, e \in Fds : OpenFile[q][e] # f
        BY <1>t, <2>1, <2>2 DEF HeldInv
    <2>4. \A g \in FileIds : g # f => ref'[g] = ref[g] /\ file'[g] = file[g]
        BY <1>13, <1>t, <2>1, <2>2, CloseFile DEF ExecLoaded
    <2> QED
        BY <1>0, <2>3, <2>4
<1>14. ASSUME NEW p \in Procs, ExecDone(p)
       PROVE  Kept
    BY <1>14, <1>0 DEF ExecDone, fileVars
<1>15. ASSUME NEW p \in Procs, NEW d \in Fds, sys_close(p, d)
       PROVE  Kept
    <2>1. /\ pc[p] \in {"user", "exit"} /\ OpenFile[p][d] # Null
          /\ fileClose(p, OpenFile[p][d])
          /\ OpenFile' = [OpenFile EXCEPT ![p][d] = Null]
        BY Zenon, <1>15 DEF sys_close, At
    <2> QED
        BY Zenon, <2>1, CloseKeeps
<1>16. ASSUME NEW p \in Procs, NEW d \in Fds, sys_read(p, d)
       PROVE  Kept
    BY <1>16, <1>0 DEF sys_read, fileVars
<1>17. ASSUME NEW p \in Procs, NEW d \in Fds, sys_write(p, d)
       PROVE  Kept
    BY <1>17, <1>0 DEF sys_write, fileVars
<1>18. ASSUME NEW p \in Procs, NEW d \in Fds, NEW e \in Fds, DupInstall(p, d, e)
       PROVE  Kept
    BY <1>18, <1>0 DEF DupInstall, fileVars
<1>19. ASSUME NEW p \in Procs, NEW f \in FileIds, PipeFirst(p, f)
       PROVE  Kept
    <2>1. \A r \in Procs, c \in Fds : OpenFile[r][c] # f
        BY Zenon, <1>19, FreeFile DEF PipeFirst
    <2>2. \A g \in FileIds : g # f => ref'[g] = ref[g] /\ file'[g] = file[g]
        BY <1>19, <1>t DEF PipeFirst
    <2> QED
        BY <1>0, <2>1, <2>2
<1>20. ASSUME NEW p \in Procs, NEW f \in FileIds, PipeSecond(p, f)
       PROVE  Kept
    <2>1. \A r \in Procs, c \in Fds : OpenFile[r][c] # f
        BY Zenon, <1>20, FreeFile DEF PipeSecond
    <2>2. \A g \in FileIds : g # f => ref'[g] = ref[g] /\ file'[g] = file[g]
        BY <1>20, <1>t DEF PipeSecond
    <2> QED
        BY <1>0, <2>1, <2>2
<1>21. ASSUME NEW p \in Procs, NEW f \in FileIds, ExecOpen(p, f)
       PROVE  Kept
    <2>1. \A r \in Procs, c \in Fds : OpenFile[r][c] # f
        BY Zenon, <1>21, FreeFile DEF ExecOpen
    <2>2. \A g \in FileIds : g # f => ref'[g] = ref[g] /\ file'[g] = file[g]
        BY <1>21, <1>t DEF ExecOpen
    <2> QED
        BY <1>0, <2>1, <2>2
<1>22. ASSUME NEW p \in Procs, NEW f \in FileIds, NEW m \in Modes, Open(p, f, m)
       PROVE  Kept
    <2>1. \A r \in Procs, c \in Fds : OpenFile[r][c] # f
        BY Zenon, <1>22, FreeFile DEF Open
    <2>2. \A g \in FileIds : g # f => ref'[g] = ref[g] /\ file'[g] = file[g]
        BY <1>22, <1>t DEF Open
    <2> QED
        BY <1>0, <2>1, <2>2
<1>23. ASSUME NEW p \in Procs, NEW k \in Pipes, PipeMake(p, k)
       PROVE  Kept
    <2>3. \A q \in Procs, e \in Fds : /\ OpenFile[q][e] # held[p][1]
                                     /\ OpenFile[q][e] # held[p][2]
        BY Zenon, <1>23, PipeFiles DEF PipeMake, At
    <2>4. /\ \A g \in FileIds : g # held[p][1] /\ g # held[p][2]
                 => file'[g] = file[g]
          /\ ref' = ref
        BY <1>23, <1>t DEF PipeMake
    <2> QED
        BY <1>0, <2>3, <2>4
<1>24. ASSUME NEW p \in Procs, NEW q \in Procs, ForkNullFile(p, q)
       PROVE  Kept
    BY Zenon, <1>24, <1>0 DEF ForkNullFile, fileVars
<1>25. ASSUME NEW p \in Procs, NEW q \in Procs, NEW f \in FileIds, ForkAllocate(p, q, f)
       PROVE  Kept
    <2>1. \A r \in Procs, c \in Fds : OpenFile[r][c] # f
        BY Zenon, <1>25, FreeFile DEF ForkAllocate
    <2>2. \A g \in FileIds : g # f => ref'[g] = ref[g] /\ file'[g] = file[g]
        BY <1>25, <1>t DEF ForkAllocate
    <2> QED
        BY <1>0, <2>1, <2>2
<1>26. CASE UNCHANGED sysVars
    BY <1>26, <1>0 DEF sysVars, fileVars
<1> QED
    BY ZenonT(60), <1>1, <1>2, <1>3, <1>4, <1>5, <1>6, <1>7, <1>8, <1>9, <1>10,
       <1>11, <1>12, <1>13, <1>14, <1>15, <1>16, <1>17, <1>18, <1>19, <1>20,
       <1>21, <1>22, <1>23, <1>24, <1>25, <1>26 DEF Step, Panicked
=============================================================================
