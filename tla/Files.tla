------------------------------- MODULE Files -------------------------------
(***************************************************************************)
(* Open files: the File table and its reference counts (file.c), the       *)
(* descriptors of the processes (sysfile.c), and what fork(), exit() and   *)
(* exec() do to both.  A step is a region under FileTable.Lock, or under   *)
(* the lock of a pipe, together with the code around it that touches only  *)
(* the process's own descriptors: nobody else reads those.                 *)
(*                                                                         *)
(* A pipe is its page and its open ends; its bytes are in module Pipe.     *)
(***************************************************************************)
EXTENDS Integers, Sequences, FiniteSets

CONSTANTS NPROC,
          NFILE,    \* entries of the File table
          NOFILE,   \* descriptors of a process
          StdFds,   \* the descriptors allocateProcess opens (0, 1 and 2)
          NPIPE,    \* bound: pages kalloc has for pipes
          Modes     \* the access modes open() is called with

ASSUME FilesAssumption ==
    /\ NPROC \in Nat \ {0} /\ NFILE \in Nat \ {0} /\ NOFILE \in Nat \ {0}
    /\ NPIPE \in Nat
    /\ Modes \subseteq SUBSET {"r", "w"}
    /\ StdFds \subseteq 0..(NOFILE - 1) /\ StdFds # {}

Procs == 1..NPROC
FileIds == 1..NFILE
Fds == 0..(NOFILE - 1)
Pipes == 1..NPIPE
Null == 0
initproc == 1

VARIABLES
    ref,        \* File.ReferenceCount
    file,       \* the other fields of a File
    OpenFile,   \* Process.OpenFile
    ends,       \* the open ends of a pipe (ReadOpen, WriteOpen)
    pages,      \* pipes whose page is allocated
    pc,         \* where a process is
    held,       \* Files a call holds in local variables, next to close first
    closing,    \* fileClose()'s copy ff of a File it closed, or NoFile
    np,         \* fork()'s child
    left,       \* descriptors fork() has still to copy
    panicked,   \* the argument of panic(), or ""
    late        \* history: an exec() has failed after its fileClose()

fileVars == <<ref, file>>
pipeVars == <<ends, pages>>
callVars == <<pc, held, closing, np, left>>
sysVars == <<fileVars, OpenFile, pipeVars, callVars, panicked>>
vars == <<sysVars, late>>

NoFile == [type |-> "NONE", mode |-> {}, pipe |-> Null]
Console == [type |-> "DEVICE", mode |-> {"r", "w"}, pipe |-> Null]
Disk(m) == [type |-> "FILE", mode |-> m, pipe |-> Null]
PipeEnd(k, e) == [type |-> "PIPE", mode |-> {e}, pipe |-> k]

(* unused   no process, or a zombie: its descriptors are closed            *)
(* embryo   a child fork() is still building                               *)
(* user     outside these calls                                            *)
(* dup      in sys_dup, the descriptor installed and not yet counted       *)
(* pipe     in pipealloc, one File held                                    *)
(* page     in pipealloc, both Files held                                  *)
(* copy     in fork(), about to copy the page table                        *)
(* fork     in fork(), copying descriptors                                 *)
(* exit     in exit(), closing descriptors                                 *)
(* exec     in exec(), the program file held                               *)
(* stack    in exec(), the program file closed                             *)
(* close    closing the Files a failed call holds                          *)
Labels == {"unused", "embryo", "user", "dup", "pipe", "page", "copy", "fork",
           "exit", "exec", "stack", "close"}

-----------------------------------------------------------------------------

\* filesInitialise, and the first process with its console descriptors.
Init ==
    /\ ref = [f \in FileIds |-> IF f = 1 THEN Cardinality(StdFds) ELSE 0]
    /\ file = [f \in FileIds |-> IF f = 1 THEN Console ELSE NoFile]
    /\ OpenFile = [p \in Procs |-> [d \in Fds |->
                      IF p = initproc /\ d \in StdFds THEN 1 ELSE Null]]
    /\ ends = [k \in Pipes |-> {}]
    /\ pages = {}
    /\ pc = [p \in Procs |-> IF p = initproc THEN "user" ELSE "unused"]
    /\ held = [p \in Procs |-> <<>>]
    /\ closing = [p \in Procs |-> NoFile]
    /\ np = [p \in Procs |-> Null]
    /\ left = [p \in Procs |-> {}]
    /\ panicked = ""
    /\ late = FALSE

At(p, l) ==
    /\ panicked = ""
    /\ pc[p] = l
    /\ closing[p] = NoFile

Goto(p, l) == pc' = [pc EXCEPT ![p] = l]

-----------------------------------------------------------------------------
(* file.c                                                                  *)

\* The entry allocateFileStructure() takes: the first with no reference
\* (mutated: one whose last reference is still there).
FirstUnsharedFile(f) == ref[f] <= 1 /\ \A g \in FileIds : g < f => ref[g] > 1
FirstFreeFile(f) == ref[f] = 0 /\ \A g \in FileIds : g < f => ref[g] > 0

NoFreeFile == \A f \in FileIds : ref[f] > 0

\* fileDup(f) (mutated: the count stays).
DupForgets(f) == panicked' = panicked /\ UNCHANGED ref
fileDup(f) ==
    IF ref[f] < 1
    THEN panicked' = "fileDup" /\ UNCHANGED ref
    ELSE ref' = [ref EXCEPT ![f] = @ + 1] /\ UNCHANGED panicked

\* The count at which a File is closed, once decremented (mutated: early).
ClosesEarly(n) == n <= 1
ClosesAt(n) == n = 0

\* fileClose(f) by p, under FileTable.Lock.  The last reference to a pipe end
\* leaves pipeclose() still to be called.  Of a closed File only the type is
\* reset in the code; the stale rest is written before it is read again.
fileClose(p, f) ==
    IF ref[f] < 1
    THEN panicked' = "fileClose" /\ UNCHANGED <<fileVars, closing>>
    ELSE LET last == ClosesAt(ref[f] - 1)
         IN  /\ ref' = [ref EXCEPT ![f] = IF last THEN 0 ELSE @ - 1]
             /\ file' = [file EXCEPT ![f] = IF last THEN NoFile ELSE @]
             /\ closing' = [closing EXCEPT ![p] =
                               IF last /\ file[f].type = "PIPE" THEN file[f]
                                                                ELSE @]
             /\ UNCHANGED panicked

\* The end pipeclose() marks closed (mutated: the other one).
ClosedEndSwapped(ff) == {"r", "w"} \ ff.mode
ClosedEnd(ff) == ff.mode

\* fileClose() after it has released FileTable.Lock: pipeclose().
PipeClose(p) ==
    /\ panicked = ""
    /\ closing[p].type = "PIPE"
    /\ LET k == closing[p].pipe
           open == ends[k] \ ClosedEnd(closing[p])
       IN  /\ ends' = [ends EXCEPT ![k] = open]
           /\ pages' = IF open = {} THEN pages \ {k} ELSE pages
    /\ closing' = [closing EXCEPT ![p] = NoFile]
    /\ UNCHANGED <<fileVars, OpenFile, pc, held, np, left, panicked>>

-----------------------------------------------------------------------------
(* sysfile.c                                                               *)

\* fdalloc() of p takes descriptor d.
FirstFreeFd(p, d) ==
    OpenFile[p][d] = Null /\ \A c \in Fds : c < d => OpenFile[p][c] # Null

FreeFds(p) == {d \in Fds : OpenFile[p][d] = Null}

\* (Mutated: the descriptor is not cleared.)
CloseKeepsFd(p, d) ==
    /\ At(p, "user")
    /\ OpenFile[p][d] # Null
    /\ fileClose(p, OpenFile[p][d])
    /\ UNCHANGED <<OpenFile, pipeVars, pc, held, np, left>>
sys_close(p, d) ==
    /\ At(p, "user")
    /\ OpenFile[p][d] # Null
    /\ OpenFile' = [OpenFile EXCEPT ![p][d] = Null]
    /\ fileClose(p, OpenFile[p][d])
    /\ UNCHANGED <<pipeVars, pc, held, np, left>>

\* sys_dup installs the descriptor first and counts it afterwards.
DupInstall(p, d, e) ==
    /\ At(p, "user")
    /\ OpenFile[p][d] # Null
    /\ FirstFreeFd(p, e)
    /\ OpenFile' = [OpenFile EXCEPT ![p][e] = OpenFile[p][d]]
    /\ held' = [held EXCEPT ![p] = <<OpenFile[p][d]>>]
    /\ Goto(p, "dup")
    /\ UNCHANGED <<fileVars, pipeVars, closing, np, left, panicked>>

DupCount(p) ==
    /\ At(p, "dup")
    /\ fileDup(Head(held[p]))
    /\ held' = [held EXCEPT ![p] = <<>>]
    /\ Goto(p, "user")
    /\ UNCHANGED <<file, OpenFile, pipeVars, closing, np, left>>

\* sys_open found the file on disk.  Without a free descriptor the File is
\* closed again.
Open(p, f, m) ==
    /\ At(p, "user")
    /\ FirstFreeFile(f)
    /\ ref' = [ref EXCEPT ![f] = 1]
    /\ file' = [file EXCEPT ![f] = Disk(m)]
    /\ \/ /\ \E d \in Fds : /\ FirstFreeFd(p, d)
                            /\ OpenFile' = [OpenFile EXCEPT ![p][d] = f]
          /\ UNCHANGED <<held, pc>>
       \/ /\ FreeFds(p) = {}
          /\ held' = [held EXCEPT ![p] = <<f>>]
          /\ Goto(p, "close")
          /\ UNCHANGED OpenFile
    /\ UNCHANGED <<pipeVars, closing, np, left, panicked>>

\* fileRead and fileWrite dispatch on the type; the transfer itself changes
\* nothing here.
sys_read(p, d) ==
    /\ At(p, "user")
    /\ OpenFile[p][d] # Null
    /\ LET f == file[OpenFile[p][d]]
       IN  panicked' = IF f.type \notin {"DEVICE", "PIPE", "FILE"}
                       THEN "fileRead" ELSE panicked
    /\ UNCHANGED <<fileVars, OpenFile, pipeVars, callVars>>

sys_write(p, d) ==
    /\ At(p, "user")
    /\ OpenFile[p][d] # Null
    /\ LET f == file[OpenFile[p][d]]
       IN  panicked' = IF "w" \in f.mode /\ f.type \notin {"DEVICE", "PIPE"}
                       THEN "fileWrite" ELSE panicked
    /\ UNCHANGED <<fileVars, OpenFile, pipeVars, callVars>>

-----------------------------------------------------------------------------
(* sys_pipe                                                                *)

\* pipealloc: the two Files, one allocateFileStructure() each.
PipeFirst(p, f) ==
    /\ At(p, "user")
    /\ FirstFreeFile(f)
    /\ ref' = [ref EXCEPT ![f] = 1]
    /\ held' = [held EXCEPT ![p] = <<f>>]
    /\ Goto(p, "pipe")
    /\ UNCHANGED <<file, OpenFile, pipeVars, closing, np, left, panicked>>

PipeSecond(p, f) ==
    /\ At(p, "pipe")
    /\ FirstFreeFile(f)
    /\ ref' = [ref EXCEPT ![f] = 1]
    /\ held' = [held EXCEPT ![p] = Append(@, f)]
    /\ Goto(p, "page")
    /\ UNCHANGED <<file, OpenFile, pipeVars, closing, np, left, panicked>>

\* No second File, or no page: freepiperesources() closes what is held.
PipeFail(p) ==
    /\ \/ At(p, "pipe") /\ NoFreeFile
       \/ At(p, "page") /\ pages = Pipes
    /\ Goto(p, "close")
    /\ UNCHANGED <<fileVars, OpenFile, pipeVars, held, closing, np, left,
                   panicked>>

\* The page is initialised and sys_pipe installs the descriptors, or closes
\* both Files if there are not two.
PipeMake(p, k) ==
    /\ At(p, "page")
    /\ k \notin pages
    /\ pages' = pages \cup {k}
    /\ ends' = [ends EXCEPT ![k] = {"r", "w"}]
    /\ LET rf == held[p][1]
           wf == held[p][2]
       IN  /\ file' = [file EXCEPT ![rf] = PipeEnd(k, "r"),
                                   ![wf] = PipeEnd(k, "w")]
           /\ \/ /\ \E d, e \in FreeFds(p) :
                        /\ d < e
                        /\ \A c \in FreeFds(p) : c >= d /\ (c > d => c >= e)
                        /\ OpenFile' = [OpenFile EXCEPT ![p][d] = rf,
                                                        ![p][e] = wf]
                 /\ held' = [held EXCEPT ![p] = <<>>]
                 /\ Goto(p, "user")
              \/ /\ Cardinality(FreeFds(p)) < 2
                 /\ Goto(p, "close")
                 /\ UNCHANGED <<OpenFile, held>>
    /\ UNCHANGED <<ref, closing, np, left, panicked>>

\* fileClose() of the next File a failed call holds.
CloseHeld(p) ==
    /\ At(p, "close")
    /\ fileClose(p, Head(held[p]))
    /\ held' = [held EXCEPT ![p] = Tail(@)]
    /\ Goto(p, IF Len(held[p]) = 1 THEN "user" ELSE "close")
    /\ UNCHANGED <<OpenFile, pipeVars, np, left>>

-----------------------------------------------------------------------------
(* fork(), exit(), exec()                                                  *)

\* fork() leaves allocateProcess() with a child q; which free entry of the
\* process table it is makes no difference here.
ForkGot(p, q) ==
    /\ pc' = [pc EXCEPT ![p] = "copy", ![q] = "embryo"]
    /\ np' = [np EXCEPT ![p] = q]

\* allocateProcess opens the console for the child, one File for all of the
\* standard descriptors.
ForkAllocate(p, q, f) ==
    /\ At(p, "user")
    /\ pc[q] = "unused"
    /\ FirstFreeFile(f)
    /\ ForkGot(p, q)
    /\ ref' = [ref EXCEPT ![f] = Cardinality(StdFds)]
    /\ file' = [file EXCEPT ![f] = Console]
    /\ OpenFile' = [OpenFile EXCEPT ![q] =
                       [d \in Fds |-> IF d \in StdFds THEN f ELSE @[d]]]
    /\ UNCHANGED <<pipeVars, held, closing, left, panicked>>

\* The table is full and the result of allocateFileStructure() is not
\* checked: the console's fields go to address 0, the caller's first page,
\* and what happens to be the count there decides whether fileDup panics.
ForkNullFile(p, q) ==
    /\ At(p, "user")
    /\ pc[q] = "unused"
    /\ NoFreeFile
    /\ \/ /\ panicked' = "fileDup"
          /\ UNCHANGED <<OpenFile, pc, np>>
       \/ /\ ForkGot(p, q)
          /\ OpenFile' = [OpenFile EXCEPT ![q] =
                             [d \in Fds |-> IF d \in StdFds THEN Null ELSE @[d]]]
          /\ UNCHANGED panicked
    /\ UNCHANGED <<fileVars, pipeVars, held, closing, left>>

\* No memory for the page table: the entry is given up as it is.
ForkNoMemory(p) ==
    /\ At(p, "copy")
    /\ pc' = [pc EXCEPT ![p] = "user", ![np[p]] = "unused"]
    /\ np' = [np EXCEPT ![p] = Null]
    /\ UNCHANGED <<fileVars, OpenFile, pipeVars, held, closing, left, panicked>>

\* The open descriptors of p (mutated: the loop runs one too far).
OpenFdsPast(p) == {d \in Fds : OpenFile[p][d] # Null} \cup {NOFILE}
OpenFds(p) == {d \in Fds : OpenFile[p][d] # Null}

\* The loops over the descriptors run upwards.
Lowest(d, S) == d \in S /\ \A c \in S : d <= c

ForkCopied(p) ==
    /\ At(p, "copy")
    /\ left' = [left EXCEPT ![p] = OpenFds(p)]
    /\ Goto(p, "fork")
    /\ UNCHANGED <<fileVars, OpenFile, pipeVars, held, closing, np, panicked>>

ForkDup(p) ==
    /\ At(p, "fork")
    /\ \E d \in Fds :
        /\ Lowest(d, left[p])
        /\ fileDup(OpenFile[p][d])
        /\ OpenFile' = [OpenFile EXCEPT ![np[p]][d] = OpenFile[p][d]]
        /\ left' = [left EXCEPT ![p] = @ \ {d}]
    /\ UNCHANGED <<file, pipeVars, pc, held, closing, np>>

ForkPublish(p) ==
    /\ At(p, "fork")
    /\ left[p] = {}
    /\ pc' = [pc EXCEPT ![p] = "user", ![np[p]] = "user"]
    /\ np' = [np EXCEPT ![p] = Null]
    /\ UNCHANGED <<fileVars, OpenFile, pipeVars, held, closing, left, panicked>>

Exit(p) ==
    /\ At(p, "user")
    /\ p # initproc
    /\ Goto(p, "exit")
    /\ UNCHANGED <<fileVars, OpenFile, pipeVars, held, closing, np, left,
                   panicked>>

\* The lowest open descriptor is closed and cleared.
ExitClose(p) ==
    /\ At(p, "exit")
    /\ \E d \in Fds :
        /\ Lowest(d, OpenFds(p))
        /\ fileClose(p, OpenFile[p][d])
        /\ OpenFile' = [OpenFile EXCEPT ![p][d] = Null]
    /\ UNCHANGED <<pipeVars, pc, held, np, left>>

\* The process is a zombie; wait() makes its entry UNUSED.
ExitDone(p) ==
    /\ At(p, "exit")
    /\ OpenFds(p) = {}
    /\ Goto(p, "unused")
    /\ UNCHANGED <<fileVars, OpenFile, pipeVars, held, closing, np, left,
                   panicked>>

\* exec() opens the program file.
ExecOpen(p, f) ==
    /\ At(p, "user")
    /\ FirstFreeFile(f)
    /\ ref' = [ref EXCEPT ![f] = 1]
    /\ file' = [file EXCEPT ![f] = Disk({"r"})]
    /\ held' = [held EXCEPT ![p] = <<f>>]
    /\ Goto(p, "exec")
    /\ UNCHANGED <<OpenFile, pipeVars, closing, np, left, panicked>>

\* Not a program, or no memory for its sections.
ExecFail(p) ==
    /\ At(p, "exec")
    /\ Goto(p, "close")
    /\ UNCHANGED <<fileVars, OpenFile, pipeVars, held, closing, np, left,
                   panicked>>

\* Every section is loaded; exec() closes the file and keeps the pointer.
ExecLoaded(p) ==
    /\ At(p, "exec")
    /\ fileClose(p, Head(held[p]))
    /\ Goto(p, "stack")
    /\ UNCHANGED <<OpenFile, pipeVars, held, np, left>>

\* No memory for the stack, or the arguments do not fit on it: cleanupExec()
\* closes the file once more.
ExecLateFail(p) ==
    /\ At(p, "stack")
    /\ fileClose(p, Head(held[p]))
    /\ held' = [held EXCEPT ![p] = <<>>]
    /\ Goto(p, "user")
    /\ UNCHANGED <<OpenFile, pipeVars, np, left>>

ExecDone(p) ==
    /\ At(p, "stack")
    /\ held' = [held EXCEPT ![p] = <<>>]
    /\ Goto(p, "user")
    /\ UNCHANGED <<fileVars, OpenFile, pipeVars, closing, np, left, panicked>>

\* panic() loops for ever.
Panicked == panicked # "" /\ UNCHANGED sysVars

\* The steps of every call, but for the failures of exec() that come after
\* its fileClose().
Step ==
    \/ \E p \in Procs :
        \/ PipeClose(p) \/ DupCount(p) \/ PipeFail(p) \/ CloseHeld(p)
        \/ ForkNoMemory(p) \/ ForkCopied(p) \/ ForkDup(p) \/ ForkPublish(p)
        \/ Exit(p) \/ ExitClose(p) \/ ExitDone(p)
        \/ ExecFail(p) \/ ExecLoaded(p) \/ ExecDone(p)
        \/ \E d \in Fds : sys_close(p, d) \/ sys_read(p, d) \/ sys_write(p, d)
        \/ \E d, e \in Fds : DupInstall(p, d, e)
        \/ \E f \in FileIds :
            \/ PipeFirst(p, f) \/ PipeSecond(p, f) \/ ExecOpen(p, f)
            \/ \E m \in Modes : Open(p, f, m)
        \/ \E k \in Pipes : PipeMake(p, k)
        \/ \E q \in Procs :
            \/ ForkNullFile(p, q)
            \/ \E f \in FileIds : ForkAllocate(p, q, f)
    \/ Panicked

Next ==
    \/ Step /\ UNCHANGED late
    \/ \E p \in Procs : ExecLateFail(p) /\ late' = TRUE

Spec == Init /\ [][Next]_vars

-----------------------------------------------------------------------------

FileRecords == [type : {"NONE", "PIPE", "FILE", "DEVICE"},
                mode : SUBSET {"r", "w"},
                pipe : Pipes \cup {Null}]
HeldFiles == {s \in Seq(FileIds) : Len(s) <= 2}
PipeEnds == [type : {"PIPE"}, mode : {{"r"}, {"w"}}, pipe : Pipes]

SysTypes ==
    /\ ref \in [FileIds -> Nat]
    /\ file \in [FileIds -> FileRecords]
    /\ OpenFile \in [Procs -> [Fds -> FileIds \cup {Null}]]
    /\ ends \in [Pipes -> SUBSET {"r", "w"}]
    /\ pages \subseteq Pipes
    /\ pc \in [Procs -> Labels]
    /\ held \in [Procs -> HeldFiles]
    /\ closing \in [Procs -> {NoFile} \cup PipeEnds]
    /\ np \in [Procs -> Procs \cup {Null}]
    /\ left \in [Procs -> SUBSET Fds]
    /\ panicked \in {"", "fileDup", "fileClose", "fileRead", "fileWrite"}

TypeOK == SysTypes /\ late \in BOOLEAN

\* The references to f: descriptors, and the Files calls hold; sys_dup's new
\* descriptor counts only once fileDup has run.
Named(f) == {x \in Procs \X Fds : pc[x[1]] # "unused"
                                  /\ OpenFile[x[1]][x[2]] = f}
HeldIn(f) == {x \in Procs \X {1, 2} :
                 /\ pc[x[1]] \in {"pipe", "page", "close", "exec"}
                 /\ x[2] <= Len(held[x[1]]) /\ held[x[1]][x[2]] = f}
Uncounted(f) == {p \in Procs : pc[p] = "dup" /\ held[p] = <<f>>}
References(f) ==
    Cardinality(Named(f)) + Cardinality(HeldIn(f)) - Cardinality(Uncounted(f))

(* exec() that fails after its fileClose() closes the program file again   *)
(* (ClosedOnce): it panics, or takes the reference of whoever has the entry*)
(* by then, and from there on counts and Files no longer agree.  The next  *)
(* five properties are about the system up to the first such failure; all  *)
(* other failures, early ones of exec() included, are covered.             *)

(* ReferenceCount is the number of descriptors and running calls that name *)
(* the File, whatever dup, close, fork, exit, pipe and exec of several     *)
(* processes interleave: too small and a File is closed under its owner,   *)
(* too large and its pipe never reports end of file.  The console Files    *)
(* fork() abandons are counted too often, never too seldom.                *)
RefCount ==
    ~late /\ panicked = "" =>
        \A f \in FileIds :
            /\ ref[f] >= References(f)
            /\ file[f].type # "DEVICE" => ref[f] = References(f)

(* Up to the first late failure of exec(), a descriptor names a File that  *)
(* is open and, if it is a pipe's, a page that is allocated and an end     *)
(* that is open.                                                           *)
DescriptorsValid ==
    ~late =>
        \A p \in Procs, d \in Fds :
            LET f == OpenFile[p][d] IN
            f # Null =>
                /\ file[f].type # "NONE"
                /\ file[f].type = "PIPE" =>
                       /\ file[f].pipe \in pages
                       /\ file[f].mode \subseteq ends[file[f].pipe]

(* Up to the first late failure of exec(), an end of a pipe is open        *)
(* exactly as long as an open File, or a fileClose() on its way to         *)
(* pipeclose(), stands for it, and the page is allocated exactly as long   *)
(* as an end is open.                                                      *)
PipeEndsTracked ==
    ~late =>
        \A k \in Pipes :
            /\ k \in pages <=> ends[k] # {}
            /\ \A e \in {"r", "w"} :
                e \in ends[k] <=>
                    \/ \E f \in FileIds : ref[f] > 0 /\ file[f] = PipeEnd(k, e)
                    \/ \E p \in Procs : closing[p] = PipeEnd(k, e)

(* Only a late failure of exec() leads to the panics of fileClose and      *)
(* fileRead, and to that of fileDup other than from allocateProcess() with *)
(* the table full.  The panic of fileWrite is reached by writing to a disk *)
(* file opened for writing.                                                *)
NoRefPanic ==
    ~late =>
        /\ panicked \notin {"fileClose", "fileRead"}
        /\ panicked = "fileDup" => NoFreeFile

(* What a descriptor stands for never changes under its owner, by no step  *)
(* up to the first late failure of exec().                                 *)
DescriptorStable ==
    [][~late' =>
          \A p \in Procs, d \in Fds :
              LET f == OpenFile[p][d] IN
              f # Null /\ OpenFile'[p][d] = f => file'[f] = file[f]]_vars

(* "Close file f.  (Decrement ref count, close when reaches 0.)"           *)
(* (file.c:62): no call closes a File that is closed already, the          *)
(* assertion of file.c:68.                                                 *)
ClosedOnce == panicked # "fileClose"
=============================================================================
