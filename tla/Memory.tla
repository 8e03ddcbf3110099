------------------------------- MODULE Memory -------------------------------
(***************************************************************************)
(* The processes as users of memory: fork, exit, wait and growProcess of   *)
(* proc.c, sbrk, exec() of exec.c, and the bounds syscall.c checks.  The   *)
(* calls of different processes interleave at every allocation and at      *)
(* every disk wait; an allocation is its region under kernelMemory.Lock    *)
(* with the code after it that touches only the caller's page table.       *)
(* Descriptors are in module Files, the scheduler is in module Proc.       *)
(***************************************************************************)
EXTENDS Vm, Sequences

CONSTANTS NPROC,
          Programs,     \* files exec() is called with
          Image,        \* their contents: [pe, nsections, sections]
          Deltas,       \* bound: the arguments of sbrk()
          ArgSizes,     \* bound: space the arguments of exec() take
          Written,      \* bound: pages a process writes to
          MaxCalls      \* bound: calls of sbrk(), fork() and exec()

Procs == 1..NPROC
initproc == 1

ASSUME MemoryAssumption ==
    /\ NPROC \in Nat \ {0}
    /\ Programs \subseteq Nat /\ Programs \cap 0..NPROC = {}
    /\ Deltas \subseteq Int /\ ArgSizes \subseteq Nat
    /\ Written \subseteq Vpns /\ MaxCalls \in Nat
    /\ \A g \in Programs : \A i \in 1..Len(Image[g].sections) :
          LET s == Image[g].sections[i] IN
          s.va \in 0..(Wrap - 1) /\ s.size \in 0..(Wrap - 1)

VARIABLES
    m,          \* physical memory: FreeList and what the pages hold
    lost,       \* pages that are in no list and no table any more
    pt,         \* Process.PageTable
    MemorySize, \* Process.MemorySize
    kstack,     \* Process.KernelStack
    Parent,     \* Process.Parent
    pc,         \* where a process is
    new,        \* page table a fork() or exec() is building
    sz,         \* its size; during sbrk() the size aimed at
    a,          \* next page number of a loop over pages
    child,      \* fork()'s np
    prog,       \* the file exec() was called with, or Null
    sect,       \* exec()'s section index i
    hdr,        \* the global imageFileHeader: who filled each of its parts
    mixed,      \* processes into whose exec() another one wrote the header
    calls,      \* how many calls were made so far
    panicked    \* the argument of panic(), or ""

memVars == <<m, lost>>
procVars == <<pt, MemorySize, kstack, Parent>>
callVars == <<new, sz, a, child>>
execVars == <<prog, sect, hdr, mixed>>
vars == <<memVars, procVars, pc, callVars, execVars, calls, panicked>>

(* unused, embryo, zombie    as State                                      *)
(* user     in user space                                                  *)
(* grow     in allocateMemoryAndPageTables() for sbrk()                    *)
(* fork     in fork(), about to set up the child's table                   *)
(* copy     in copyProcessPageTable()                                      *)
(* head     in exec(), waiting for the file header                         *)
(* sig      file header read, Signature to be tested                       *)
(* opt      waiting for the optional header                                *)
(* table    about to call setupKernelVirtualMemory()                       *)
(* loop     at the head of the loop over sections                          *)
(* alloc    allocating up to the end of a section                          *)
(* load     waiting for the section's bytes                                *)
(* stack    allocating guard page and stack                                *)
(* args     about to copy the arguments and commit                         *)
Labels == {"unused", "embryo", "zombie", "user", "grow", "fork", "copy", "head",
           "sig", "opt", "table", "loop", "alloc", "load", "stack", "args"}
ExecLabels == {"head", "sig", "opt", "table", "loop", "alloc", "load", "stack",
               "args"}

-----------------------------------------------------------------------------

\* initialiseFirstUserProcess(): stack, directory, kernel table, user table
\* and the page of initcode; the rest of memory is free.
initcode == Min(Programs)
firstTable == [NoTable EXCEPT !.dir = 2, !.ktab = 3, !.tab[0] = 4, !.pte[0] = 5]

Init ==
    /\ m = [free |-> Pages \ 1..5,
            data |-> [x \in Pages |-> IF x < 5 THEN Kernel
                                      ELSE IF x = 5 THEN initcode ELSE Junk]]
    /\ lost = {}
    /\ pt = [p \in Procs |-> IF p = initproc THEN firstTable ELSE NoTable]
    /\ MemorySize = [p \in Procs |-> IF p = initproc THEN PGSIZE ELSE 0]
    /\ kstack = [p \in Procs |-> IF p = initproc THEN 1 ELSE Null]
    /\ Parent = [p \in Procs |-> Null]
    /\ pc = [p \in Procs |-> IF p = initproc THEN "user" ELSE "unused"]
    /\ new = [p \in Procs |-> NoTable]
    /\ sz = [p \in Procs |-> 0]
    /\ a = [p \in Procs |-> 0]
    /\ child = [p \in Procs |-> Null]
    /\ prog = [p \in Procs |-> Null]
    /\ sect = [p \in Procs |-> 0]
    /\ hdr = [file |-> Null, opt |-> Null]
    /\ mixed = {}
    /\ calls = 0
    /\ panicked = ""

\* A process whose code is gone cannot make a call: see Sbrk.
Emptied(p) == Mapped(pt[p]) = {}
At(p, l) == panicked = "" /\ pc[p] = l
InUser(p) == At(p, "user") /\ ~Emptied(p)

Goto(p, l) == pc' = [pc EXCEPT ![p] = l]

\* A call is over: its locals are gone.
Done(p) ==
    /\ new' = [new EXCEPT ![p] = NoTable]
    /\ sz' = [sz EXCEPT ![p] = 0]
    /\ a' = [a EXCEPT ![p] = 0]
    /\ child' = [child EXCEPT ![p] = Null]

-----------------------------------------------------------------------------
(* User space                                                              *)

Write(p) ==
    /\ InUser(p)
    /\ \E v \in Written :
          /\ UserPage(pt[p], v)
          /\ m' = [m EXCEPT !.data[pt[p].pte[v]] = p]
    /\ UNCHANGED <<lost, procVars, pc, callVars, execVars, panicked>>

\* The first page an allocation that starts from a size maps (mutated: the page
\* the size lies in).
FirstTouched(size) == size \div PGSIZE
FirstNew(size) == PGROUNDUP(size) \div PGSIZE

\* sys_sbrk(n) and growProcess(n).  Sizes are uint32_t: a sum below 0 wraps to
\* more than any process has, and nothing happens.  Bringing the size to
\* exactly 0 frees every page, but growProcess() takes the 0 for a failure and
\* leaves MemorySize; the process returns into code that is gone.
Sbrk(p, n) ==
    LET newsz == (MemorySize[p] + n) % Wrap
        r == releaseUserPages(m, pt[p], MemorySize[p], newsz) IN
    /\ InUser(p)
    /\ \/ /\ n > 0 /\ Fits(newsz)
          /\ sz' = [sz EXCEPT ![p] = newsz]
          /\ a' = [a EXCEPT ![p] = FirstNew(MemorySize[p])]
          /\ Goto(p, "grow")
          /\ UNCHANGED <<m, pt, MemorySize>>
       \/ /\ n < 0 /\ newsz < MemorySize[p]
          /\ m' = r.m
          /\ pt' = [pt EXCEPT ![p] = r.pt]
          /\ MemorySize' = [MemorySize EXCEPT ![p] = IF newsz = 0 THEN @ ELSE newsz]
          /\ UNCHANGED <<pc, sz, a>>
    /\ UNCHANGED <<lost, kstack, Parent, new, child, execVars, panicked>>

\* The loop of allocateMemoryAndPageTables() on the caller's own table.
SbrkGrow(p) ==
    LET r == allocateMemoryAndPageTables(m, pt[p], a[p], MemorySize[p], sz[p]) IN
    /\ At(p, "grow")
    /\ IF a[p] * PGSIZE < sz[p]
       THEN /\ m' = r.m
            /\ pt' = [pt EXCEPT ![p] = r.pt]
            /\ IF r.r = "full"
               THEN Goto(p, "user") /\ Done(p)
               ELSE a' = [a EXCEPT ![p] = @ + 1] /\ UNCHANGED <<pc, new, sz, child>>
            /\ panicked' = IF r.r = "remap" THEN "remap" ELSE ""
            /\ UNCHANGED MemorySize
       ELSE /\ MemorySize' = [MemorySize EXCEPT ![p] = sz[p]]
            /\ Goto(p, "user") /\ Done(p)
            /\ UNCHANGED <<m, pt, panicked>>
    /\ UNCHANGED <<lost, kstack, Parent, execVars>>

-----------------------------------------------------------------------------
(* fork, exit and wait                                                     *)

\* allocateProcess(): an entry and a kernel stack.  Without either, fork()
\* returns -1 and memory is as before.
Fork(p) ==
    /\ InUser(p)
    /\ m.free # {}
    /\ \E q \in Procs :
          /\ pc[q] = "unused" /\ \A o \in Procs : pc[o] = "unused" => q <= o
          /\ pc' = [pc EXCEPT ![p] = "fork", ![q] = "embryo"]
          /\ child' = [child EXCEPT ![p] = q]
          /\ kstack' = [kstack EXCEPT ![q] = freePage(m)]
    /\ m' = allocatePhysicalMemoryPage(m, Kernel)
    /\ UNCHANGED <<lost, pt, MemorySize, Parent, new, sz, a, execVars, panicked>>

\* fork() without a page table for the child: the kernel stack goes back
\* (mutated: it stays allocated).
KeepsStack(m1, q) == m1
FreesStack(m1, q) == freePhysicalMemoryPage(m1, {kstack[q]})
ForkFails(p, m1) ==
    /\ m' = FreesStack(m1, child[p])
    /\ kstack' = [kstack EXCEPT ![child[p]] = Null]
    /\ pc' = [pc EXCEPT ![p] = "user", ![child[p]] = "unused"]
    /\ Done(p)

ForkTable(p) ==
    LET r == setupKernelVirtualMemory(m) IN
    /\ At(p, "fork")
    /\ \/ /\ r.r = "ok"
          /\ m' = r.m
          /\ new' = [new EXCEPT ![p] = r.pt]
          /\ Goto(p, "copy")
          /\ UNCHANGED <<kstack, sz, a, child>>
       \/ /\ r.r = "full"
          /\ ForkFails(p, r.m)
    /\ UNCHANGED <<lost, pt, MemorySize, Parent, execVars, panicked>>

\* The loop of copyProcessPageTable(); after it the child is RUNNABLE.
ForkCopy(p) ==
    LET r == copyProcessPageTable(m, pt[p], new[p], a[p]) IN
    /\ At(p, "copy") /\ a[p] * PGSIZE < MemorySize[p]
    /\ \/ /\ r.r \in {"ok", "not present", "remap"}
          /\ m' = r.m
          /\ new' = [new EXCEPT ![p] = r.pt]
          /\ a' = [a EXCEPT ![p] = @ + 1]
          /\ panicked' = IF r.r = "ok" THEN "" ELSE r.r
          /\ UNCHANGED <<lost, kstack, pc, sz, child>>
       \/ /\ r.r \in {"full", "lost"}
          /\ lost' = IF r.r = "lost" THEN lost \cup {freePage(m)} ELSE lost
          /\ ForkFails(p, r.m)
          /\ UNCHANGED panicked
    /\ UNCHANGED <<pt, MemorySize, Parent, execVars>>

ForkDone(p) ==
    LET q == child[p] IN
    /\ At(p, "copy") /\ a[p] * PGSIZE >= MemorySize[p]
    /\ pt' = [pt EXCEPT ![q] = new[p]]
    /\ MemorySize' = [MemorySize EXCEPT ![q] = MemorySize[p]]
    /\ Parent' = [Parent EXCEPT ![q] = p]
    /\ pc' = [pc EXCEPT ![p] = "user", ![q] = "user"]
    /\ Done(p)
    /\ UNCHANGED <<memVars, kstack, execVars, panicked>>

\* exit(), by a call or by a fault; the memory stays until wait().  init.c
\* does not call exit().
Exit(p) ==
    /\ At(p, "user")
    /\ p = initproc => Emptied(p)
    /\ IF p = initproc
       THEN panicked' = "init exiting" /\ UNCHANGED <<pc, Parent>>
       ELSE /\ Goto(p, "zombie")
            /\ Parent' = [q \in Procs |->
                             IF Parent[q] = p THEN initproc ELSE Parent[q]]
            /\ UNCHANGED panicked
    /\ UNCHANGED <<memVars, pt, MemorySize, kstack, callVars, execVars>>

\* wait() by p reaps q.  PageTable and MemorySize keep their stale values in
\* the code; they are written before they are read again.
Wait(p, q) ==
    /\ InUser(p)
    /\ pc[q] = "zombie" /\ Parent[q] = p
    /\ m' = freeMemoryAndPageTable(freePhysicalMemoryPage(m, {kstack[q]}), pt[q])
    /\ kstack' = [kstack EXCEPT ![q] = Null]
    /\ pt' = [pt EXCEPT ![q] = NoTable]
    /\ MemorySize' = [MemorySize EXCEPT ![q] = 0]
    /\ Parent' = [Parent EXCEPT ![q] = Null]
    /\ Goto(q, "unused")
    /\ UNCHANGED <<lost, callVars, execVars, panicked>>

-----------------------------------------------------------------------------
(* exec.c                                                                  *)

\* Section i of a file; past its section table the file is padded with zeros.
Section(g, i) ==
    IF i < Len(Image[g].sections) THEN Image[g].sections[i + 1]
    ELSE [va |-> 0, size |-> 0, infile |-> FALSE]
SectionEnd(s) == (s.va + s.size) % Wrap

ExecReturns(p) ==
    /\ Goto(p, "user")
    /\ Done(p)
    /\ prog' = [prog EXCEPT ![p] = Null]
    /\ sect' = [sect EXCEPT ![p] = 0]
    /\ mixed' = mixed \ {p}

\* A return of -1 that leaves memory m1.
ExecFails(p, m1) ==
    /\ m' = m1
    /\ ExecReturns(p)
    /\ UNCHANGED <<lost, pt, MemorySize, hdr>>

cleanupExec(p, m1, pt1) == ExecFails(p, freeMemoryAndPageTable(m1, pt1))

ExecOpen(p, g) ==
    /\ InUser(p)
    /\ prog' = [prog EXCEPT ![p] = g]
    /\ Goto(p, "head")
    /\ UNCHANGED <<memVars, procVars, callVars, sect, hdr, mixed, panicked>>

\* fileRead() into a part of imageFileHeader, which is p's from then on in
\* everybody's exec().  A short read returns -1.
ReadHeader(p, from, part, to) ==
    LET others == {q \in Procs \ {p} : pc[q] \in ExecLabels \ {"head"}} IN
    /\ At(p, from)
    /\ hdr' = [hdr EXCEPT ![part] = prog[p]]
    /\ \/ /\ Goto(p, to)
          /\ mixed' = mixed \cup others
          /\ UNCHANGED <<callVars, prog, sect>>
       \/ /\ Goto(p, "user") /\ Done(p)
          /\ mixed' = (mixed \cup others) \ {p}
          /\ prog' = [prog EXCEPT ![p] = Null]
          /\ UNCHANGED sect
    /\ UNCHANGED <<memVars, procVars, panicked>>
ReadFileHeader(p) == ReadHeader(p, "head", "file", "sig")
ReadOptionalHeader(p) == ReadHeader(p, "opt", "opt", "table")

TestSignature(p) ==
    /\ At(p, "sig")
    /\ \/ /\ Image[hdr.file].pe
          /\ Goto(p, "opt")
          /\ UNCHANGED <<memVars, pt, MemorySize, callVars, execVars>>
       \/ /\ ~Image[hdr.file].pe
          /\ ExecFails(p, m)
    /\ UNCHANGED <<kstack, Parent, panicked>>

ExecTable(p) ==
    LET r == setupKernelVirtualMemory(m) IN
    /\ At(p, "table")
    /\ \/ /\ r.r = "ok"
          /\ m' = r.m
          /\ new' = [new EXCEPT ![p] = r.pt]
          /\ Goto(p, "loop")
          /\ UNCHANGED <<lost, pt, MemorySize, sz, a, child, execVars>>
       \/ /\ r.r = "full"
          /\ ExecFails(p, r.m)
    /\ UNCHANGED <<kstack, Parent, panicked>>

\* The head of the loop over sections; the number of sections is read from the
\* global header every time (mutated: the last one is left out).
MoreButLast(p) == sect[p] + 1 < Image[hdr.file].nsections
MoreSections(p) == sect[p] < Image[hdr.file].nsections

\* The next section header is read.  On a short read exec() returns with the
\* page table it has built; allocateMemoryAndPageTables() leaves a table
\* alone that reaches past the section, and refuses one that reaches the
\* kernel or is empty.
ExecSection(p) ==
    LET end == SectionEnd(Section(prog[p], sect[p])) IN
    /\ At(p, "loop") /\ MoreSections(p)
    /\ \/ /\ lost' = lost \cup PagesOf(new[p])
          /\ ExecReturns(p)
          /\ UNCHANGED <<m, pt, MemorySize, hdr>>
       \/ /\ ~Fits(end) \/ (end = 0 /\ sz[p] = 0)
          /\ cleanupExec(p, m, new[p])
       \/ /\ Fits(end) /\ end < sz[p]
          /\ Goto(p, "load")
          /\ UNCHANGED <<memVars, pt, MemorySize, callVars, execVars>>
       \/ /\ Fits(end) /\ end >= sz[p] /\ end > 0
          /\ Goto(p, "alloc")
          /\ a' = [a EXCEPT ![p] = FirstNew(sz[p])]
          /\ UNCHANGED <<memVars, pt, MemorySize, new, sz, child, execVars>>
    /\ UNCHANGED <<kstack, Parent, panicked>>

\* One iteration of allocateMemoryAndPageTables() on the new table, up to newsz.
ExecGrow(p, newsz) ==
    LET r == allocateMemoryAndPageTables(m, new[p], a[p], sz[p], newsz) IN
    /\ a[p] * PGSIZE < newsz
    /\ \/ /\ r.r # "full"
          /\ m' = r.m
          /\ new' = [new EXCEPT ![p] = r.pt]
          /\ a' = [a EXCEPT ![p] = @ + 1]
          /\ panicked' = IF r.r = "remap" THEN "remap" ELSE ""
          /\ UNCHANGED <<lost, pt, MemorySize, pc, sz, child, execVars>>
       \/ /\ r.r = "full"
          /\ cleanupExec(p, r.m, r.pt)
          /\ UNCHANGED panicked
    /\ UNCHANGED <<kstack, Parent>>

ExecAlloc(p) ==
    LET end == SectionEnd(Section(prog[p], sect[p])) IN
    /\ At(p, "alloc")
    /\ \/ ExecGrow(p, end)
       \/ /\ a[p] * PGSIZE >= end
          /\ sz' = [sz EXCEPT ![p] = end]
          /\ Goto(p, "load")
          /\ UNCHANGED <<memVars, procVars, new, a, child, execVars, panicked>>

\* The bytes of the section have been read, or a read was short.  A section
\* that goes on above KERNBASE is written over the kernel, or over devices
\* ("wild", which ends the model), or panics where the kernel has no mapping.
ExecLoad(p) ==
    LET s == Section(prog[p], sect[p])
        holds == IF s.infile THEN prog[p] ELSE Zero
        r == loadProgramSegmentIntoPageTable(m, new[p], s.va, s.size, holds) IN
    /\ At(p, "load")
    /\ \/ /\ r.r = "ok"
          /\ m' = r.m
          /\ sect' = [sect EXCEPT ![p] = @ + 1]
          /\ Goto(p, "loop")
          /\ UNCHANGED <<lost, pt, MemorySize, callVars, prog, hdr, mixed, panicked>>
       \/ /\ r.r # "ok"
          /\ panicked' \in IF r.r = "kernel" THEN {"wild", "address should exist"}
                                             ELSE {r.r}
          /\ UNCHANGED <<memVars, pt, MemorySize, pc, callVars, execVars>>
       \/ /\ s.infile /\ ReadsSegment(new[p], s.va, s.size)
          /\ cleanupExec(p, m, new[p])
          /\ UNCHANGED panicked
    /\ UNCHANGED <<kstack, Parent>>

\* After the loop: PGROUNDUP of the size, then guard page and stack.
ExecLoopEnd(p) ==
    /\ At(p, "loop") /\ ~MoreSections(p)
    /\ sz' = [sz EXCEPT ![p] = PGROUNDUP(@)]
    /\ a' = [a EXCEPT ![p] = FirstNew(sz[p])]
    /\ Goto(p, "stack")
    /\ UNCHANGED <<memVars, procVars, new, child, execVars, panicked>>

ExecStack(p) ==
    LET newsz == sz[p] + 2 * PGSIZE IN
    /\ At(p, "stack")
    /\ \/ /\ ~Fits(newsz)
          /\ cleanupExec(p, m, new[p])
          /\ UNCHANGED <<kstack, Parent, panicked>>
       \/ Fits(newsz) /\ ExecGrow(p, newsz)
       \/ /\ Fits(newsz) /\ a[p] * PGSIZE >= newsz
          /\ sz' = [sz EXCEPT ![p] = newsz]
          /\ new' = [new EXCEPT ![p] = clearPTEU(@, sz[p] \div PGSIZE)]
          /\ Goto(p, "args")
          /\ UNCHANGED <<memVars, procVars, a, child, execVars, panicked>>

\* copyToUserVirtualMemory() of arguments that take n units below the top of
\* the stack, then the commit: the old image goes, the entry point is the one
\* in the global header.  Arguments that reach the guard page fail.
ExecCommit(p, n) ==
    LET touched == copyToUserVirtualMemory(sz[p] - n, sz[p]) IN
    /\ At(p, "args")
    /\ \/ /\ \A v \in touched : UserPage(new[p], v)
          /\ pt' = [pt EXCEPT ![p] = new[p]]
          /\ MemorySize' = [MemorySize EXCEPT ![p] = sz[p]]
          /\ LET args == [m EXCEPT !.data = [x \in Pages |->
                         IF \E v \in touched : new[p].pte[v] = x THEN p ELSE @[x]]] IN
             m' = freeMemoryAndPageTable(args, pt[p])
          /\ ExecReturns(p)
          /\ UNCHANGED <<lost, hdr>>
       \/ /\ \E v \in touched : ~UserPage(new[p], v)
          /\ cleanupExec(p, m, new[p])
    /\ UNCHANGED <<kstack, Parent, panicked>>

-----------------------------------------------------------------------------

\* A process makes a call, or goes on with one, or runs in user space.
Call(p) ==
    \/ \E n \in Deltas : Sbrk(p, n)
    \/ Fork(p)
    \/ \E g \in Programs : ExecOpen(p, g)
Step(p) ==
    \/ Write(p) \/ SbrkGrow(p)
    \/ ForkTable(p) \/ ForkCopy(p) \/ ForkDone(p)
    \/ Exit(p) \/ \E q \in Procs : Wait(p, q)
    \/ ReadFileHeader(p) \/ TestSignature(p) \/ ReadOptionalHeader(p)
    \/ ExecTable(p) \/ ExecSection(p) \/ ExecAlloc(p) \/ ExecLoad(p)
    \/ ExecLoopEnd(p) \/ ExecStack(p)
    \/ \E n \in ArgSizes : ExecCommit(p, n)

Next ==
    \E p \in Procs :
        \/ calls < MaxCalls /\ Call(p) /\ calls' = calls + 1
        \/ Step(p) /\ UNCHANGED calls

Spec == Init /\ [][Next]_vars

-----------------------------------------------------------------------------
(* syscall.c                                                               *)

\* fetchint(), argptr() and fetchstr() let a call use the n units at addr; as
\* an int, an n from KERNBASE up is negative.
Accepts(p, addr, n) ==
    n < KERNBASE /\ addr < MemorySize[p] /\ (addr + n) % Wrap <= MemorySize[p]

-----------------------------------------------------------------------------
(* Properties                                                              *)

\* Every variable keeps its type.
TypeOK ==
    /\ m.free \subseteq Pages /\ lost \subseteq Pages
    /\ m.data \in [Pages -> {Zero, Junk, Kernel} \cup Procs \cup Programs]
    /\ \A p \in Procs : \A t \in {pt[p], new[p]} :
          /\ PagesOf(t) \subseteq Pages
          /\ DOMAIN t.tab = Dirs /\ DOMAIN t.pte = Vpns /\ t.guard \subseteq Mapped(t)
    /\ MemorySize \in [Procs -> 0..(KERNBASE - 1)]
    /\ sz \in [Procs -> 0..KERNBASE] /\ a \in [Procs -> 0..KERNBASE]
    /\ kstack \in [Procs -> Pages \cup {Null}]
    /\ Parent \in [Procs -> Procs \cup {Null}]
    /\ child \in [Procs -> Procs \cup {Null}]
    /\ pc \in [Procs -> Labels]
    /\ prog \in [Procs -> Programs \cup {Null}] /\ sect \in [Procs -> Nat]
    /\ hdr \in [file : Programs \cup {Null}, opt : Programs \cup {Null}]
    /\ mixed \subseteq Procs

\* Every page is free, or has exactly one use: in one process's page table,
\* in one being built, or as one kernel stack (freeMemoryAndPageTable,
\* cleanupExec, the failures of fork() and of allocateMemoryAndPageTables()).
\* The exceptions are the pages given up at vm.c:415 and exec.c:79, which
\* nothing can free any more.
PagesOwnedOnce ==
    LET stacks == {p \in Procs : kstack[p] # Null}
        used == UNION {PagesOf(pt[p]) \cup PagesOf(new[p]) : p \in Procs}
                \cup {kstack[p] : p \in stacks} IN
    /\ m.free \cup lost \cup used = Pages
    /\ NPAGES = Cardinality(m.free) + Cardinality(lost) + Cardinality(stacks)
                + MapThenSumSet(LAMBDA p : EntriesOf(pt[p]) + EntriesOf(new[p]), Procs)

\* Addresses argptr() and its like accept are mapped, so that the kernel can
\* follow them without a fault, and every mapped page is below MemorySize:
\* growProcess(), exec() and fork() keep size and page table together.
SizeIsMapped ==
    \A p \in Procs : InUser(p) =>
        /\ \A addr \in 0..(MemorySize[p] - 1), n \in 0..(Wrap - 1) : Accepts(p, addr, n) =>
              \A v \in VpnsBelow(addr + n) :
                  (v + 1) * PGSIZE > addr => v \in Mapped(pt[p])
        /\ \A v \in Mapped(pt[p]) : Accepts(p, v * PGSIZE, 1)

\* A section the checks of exec() let through and its loader cannot place:
\* not aligned, or its end wraps past 2^32.
Malformed(s) == s.va % PGSIZE # 0 \/ s.va + s.size >= Wrap

\* No page is mapped twice, fork() finds every page below MemorySize present,
\* and the loader of exec() finds every page of a section mapped and never
\* leaves user memory.  The exception is a program file with a malformed
\* section: what exec.c:82 computes for it does not cover the section, and
\* loading it panics or writes over the kernel.
NoVmPanic ==
    \/ panicked \in {"", "init exiting"}
    \/ /\ panicked \in {"unaligned", "address should exist", "wild"}
       /\ \E p \in Procs :
             pc[p] = "load" /\ Malformed(Section(prog[p], sect[p]))

\* An exec() into which no other exec() read a header has, when it commits,
\* every section of its own file in place and its own entry point in
\* imageFileHeader.  Between two exec() calls that overlap, neither holds.
ReadyImage ==
    \A p \in Procs : At(p, "args") /\ p \notin mixed =>
        /\ hdr.opt = prog[p]
        /\ sect[p] = Image[prog[p]].nsections
        /\ \A i \in 0..(sect[p] - 1) : LET s == Section(prog[p], i) IN
              \A v \in VpnsBelow(SectionEnd(s)) : v * PGSIZE >= s.va =>
                  m.data[new[p].pte[v]] = IF s.infile THEN prog[p] ELSE Zero

\* Memory implements AddressSpaces: no page is seen by two processes, none
\* leaks contents from its last owner, copies are exact.
Spaces == INSTANCE AddressSpaces WITH
    MaxVpn <- Max(Vpns),
    space <- [p \in Procs |-> [v \in Mapped(pt[p]) |-> m.data[pt[p].pte[v]]]],
    guard <- [p \in Procs |-> pt[p].guard]
ImplementsAddressSpaces == Spaces!Spec
=============================================================================
