--------------------------------- MODULE Vm ---------------------------------
(***************************************************************************)
(* Physical pages (kalloc.c) and page tables (vm.c) as functions of the    *)
(* memory they change.  A memory m is the pages on FreeList and what each  *)
(* page holds; a page table is the pages it is made of and its entries for *)
(* user addresses.  Sizes and addresses are in units of PGSIZE to a page.  *)
(*                                                                         *)
(* Which free page an allocation takes is immaterial: it is the lowest.    *)
(***************************************************************************)
EXTENDS Integers, FiniteSets, FiniteSetsExt

CONSTANTS NPAGES,       \* pages between kernelEnd and PHYSTOP
          PGSIZE,       \* units of a page: 2 lets a size end inside one
          NPTENTRIES,   \* user pages one page-table page maps
          KERNBASE      \* first kernel address

ASSUME VmAssumption ==
    /\ NPAGES \in Nat /\ PGSIZE \in Nat \ {0} /\ NPTENTRIES \in Nat \ {0}
    /\ KERNBASE \in Nat /\ KERNBASE % PGSIZE = 0

Wrap == 2 * KERNBASE    \* 2^32: addresses are uint32_t, KERNBASE is 2^31

Pages == 1..NPAGES
Null == 0
Vpns == 0..(KERNBASE \div PGSIZE - 1)       \* user page numbers
Dirs == {v \div NPTENTRIES : v \in Vpns}    \* page directory entries used

\* What a page holds: zeros, the fill of freePhysicalMemoryPage, kernel data,
\* or what a process or a program file (named by positive numbers) put there.
Zero == 0
Junk == -1
Kernel == -2

NoTable == [dir |-> Null, ktab |-> Null, tab |-> [d \in Dirs |-> Null],
            pte |-> [v \in Vpns |-> Null], guard |-> {}]

PGROUNDUP(sz) == ((sz + PGSIZE - 1) \div PGSIZE) * PGSIZE

\* The pages of [0, sz), and those an allocation or release from one size to
\* another goes through: a = PGROUNDUP(lo); a < hi; a += PGSIZE
\* (mutated: from the page lo lies in).
VpnsBelow(sz) == {v \in Vpns : v * PGSIZE < sz}
VpnsFromDown(lo, hi) == {v \in VpnsBelow(hi) : (v + 1) * PGSIZE > lo}
VpnsBetween(lo, hi) == {v \in VpnsBelow(hi) : v * PGSIZE >= PGROUNDUP(lo)}

Mapped(pt) == {v \in Vpns : pt.pte[v] # Null}

\* The pages a page table is made of and maps, with how often each is named.
PagesOf(pt) ==
    ({pt.dir, pt.ktab} \cup {pt.tab[d] : d \in Dirs}
                       \cup {pt.pte[v] : v \in Vpns}) \ {Null}
EntriesOf(pt) ==
    Cardinality({f \in {"dir", "ktab"} : pt[f] # Null})
    + Cardinality({d \in Dirs : pt.tab[d] # Null}) + Cardinality(Mapped(pt))

-----------------------------------------------------------------------------
(* kalloc.c                                                                *)

\* allocatePhysicalMemoryPage() when FreeList is not empty, and the first
\* write to the page.
freePage(m) == Min(m.free)
allocatePhysicalMemoryPage(m, holds) ==
    [m EXCEPT !.free = @ \ {freePage(m)}, !.data[freePage(m)] = holds]

\* freePhysicalMemoryPage() of each page of S.
freePhysicalMemoryPage(m, S) ==
    [free |-> m.free \cup S,
     data |-> [x \in Pages |-> IF x \in S THEN Junk ELSE m.data[x]]]

-----------------------------------------------------------------------------
(* vm.c.  A result says how the call ended, and what memory and page table *)
(* it leaves.                                                              *)

Result(r, m, pt) == [r |-> r, m |-> m, pt |-> pt]

\* createPageTableEntries() of one user page x at v; getPageTableEntry()
\* allocates the page-table page when there is none yet.
createPageTableEntries(m, pt, v, x) ==
    LET d == v \div NPTENTRIES
        tab == freePage(m) IN
    CASE pt.pte[v] # Null -> Result("remap", m, pt)
      [] pt.pte[v] = Null /\ pt.tab[d] # Null ->
            Result("ok", m, [pt EXCEPT !.pte[v] = x])
      [] pt.pte[v] = Null /\ pt.tab[d] = Null /\ m.free = {} ->
            Result("full", m, pt)
      [] OTHER ->
            Result("ok", allocatePhysicalMemoryPage(m, Kernel),
                   [pt EXCEPT !.tab[d] = tab, !.pte[v] = x])

\* releaseUserPages(): the pages from newsz up to oldsz that are present; an
\* entry is cleared with its flags.
Released(pt, oldsz, newsz) ==
    IF newsz >= oldsz THEN {} ELSE VpnsBetween(newsz, oldsz) \cap Mapped(pt)
ClearsEntries(pt, S) ==
    [pt EXCEPT !.pte = [v \in Vpns |-> IF v \in S THEN Null ELSE @[v]],
               !.guard = @ \ S]
releaseUserPages(m, pt, oldsz, newsz) ==
    LET S == Released(pt, oldsz, newsz) IN
    Result("ok", freePhysicalMemoryPage(m, {pt.pte[v] : v \in S}),
           ClearsEntries(pt, S))

freeMemoryAndPageTable(m, pt) == freePhysicalMemoryPage(m, PagesOf(pt))

\* setupKernelVirtualMemory(): the directory, and one page-table page for the
\* kernel's mappings (the code needs several and takes them the same way).
setupKernelVirtualMemory(m) ==
    LET m1 == allocatePhysicalMemoryPage(m, Kernel)
        m2 == allocatePhysicalMemoryPage(m1, Kernel)
        pt == [NoTable EXCEPT !.dir = freePage(m)] IN
    CASE m.free = {} -> Result("full", m, NoTable)
      [] m.free # {} /\ m1.free = {} ->
            Result("full", freeMemoryAndPageTable(m1, pt), NoTable)
      [] OTHER -> Result("ok", m2, [pt EXCEPT !.ktab = freePage(m1)])

\* What a page holds once it was cleared (mutated: it is not).
NotCleared(m) == m.data[freePage(m)]
Cleared(m) == Zero

\* allocateMemoryAndPageTables() goes up to a size below the kernel only
\* (mutated: up to any).
FitsAnywhere(newsz) == TRUE
Fits(newsz) == newsz < KERNBASE

\* One iteration of allocateMemoryAndPageTables(oldsz, newsz), for page v:
\* a page of zeros and its entry.  On failure the pages of this call go back,
\* and the page that found no entry.
allocateMemoryAndPageTables(m, pt, v, oldsz, newsz) ==
    LET x == freePage(m)
        c == createPageTableEntries(
                 allocatePhysicalMemoryPage(m, Cleared(m)), pt, v, x)
        undo(m1) == [releaseUserPages(m1, pt, newsz, oldsz) EXCEPT !.r = "full"] IN
    CASE m.free = {} -> undo(m)
      [] m.free # {} /\ c.r = "full" -> undo(freePhysicalMemoryPage(c.m, {x}))
      [] OTHER -> c

\* One iteration of copyProcessPageTable(), for page v of the parent's table
\* from.  On failure the copy is torn down; a page that was copied but found
\* no entry is in no list any more ("lost").
copyProcessPageTable(m, from, pt, v) ==
    LET x == freePage(m)
        c == createPageTableEntries(
                 allocatePhysicalMemoryPage(m, m.data[from.pte[v]]), pt, v, x)
        fail(r, m1) == Result(r, freeMemoryAndPageTable(m1, pt), NoTable) IN
    CASE from.pte[v] = Null -> Result("not present", m, pt)
      [] from.pte[v] # Null /\ m.free = {} -> fail("full", m)
      [] from.pte[v] # Null /\ m.free # {} /\ c.r = "full" -> fail("lost", c.m)
      [] OTHER -> [c EXCEPT !.pt.guard = IF v \in from.guard THEN @ \cup {v} ELSE @]

\* getPageTableEntry() without alloc finds no user entry for page number v:
\* there is no page-table page for it, or v is the kernel's.
NoEntry(pt, v) == v \notin Vpns \/ pt.tab[v \div NPTENTRIES] = Null

\* The page numbers loadProgramSegmentIntoPageTable() goes through, by the
\* number of the iteration; addresses wrap.
SegmentSteps(sz) == 0..(PGROUNDUP(sz) \div PGSIZE - 1)
SegmentVpn(va, i) == ((va \div PGSIZE) + i) % (Wrap \div PGSIZE)

\* It reads from the file at least once.
ReadsSegment(pt, va, sz) ==
    sz > 0 /\ va % PGSIZE = 0 /\ ~NoEntry(pt, SegmentVpn(va, 0))

\* loadProgramSegmentIntoPageTable(): the pages of [va, va + sz) hold the
\* section of the file, or zeros for a section that is not in the file.  It
\* panics for an address that is not aligned, and for one without a
\* page-table page; a page that is not present takes physical page 0 for its
\* own, which the kernel does not use after start-up.
loadProgramSegmentIntoPageTable(m, pt, va, sz, holds) ==
    LET bad == {i \in SegmentSteps(sz) : NoEntry(pt, SegmentVpn(va, i))}
        loaded == {SegmentVpn(va, i) : i \in SegmentSteps(sz)} IN
    CASE va % PGSIZE # 0 -> Result("unaligned", m, pt)
      [] va % PGSIZE = 0 /\ bad # {} ->
            Result(IF SegmentVpn(va, Min(bad)) \in Vpns
                   THEN "address should exist" ELSE "kernel", m, pt)
      [] OTHER ->
            Result("ok", [m EXCEPT !.data = [x \in Pages |->
                       IF \E v \in loaded : pt.pte[v] = x THEN holds ELSE @[x]]],
                   pt)

\* mapVirtualAddressToKernelAddress() finds a page the user may touch.
UserPage(pt, v) == v \in Vpns /\ pt.pte[v] # Null /\ v \notin pt.guard

clearPTEU(pt, v) == [pt EXCEPT !.guard = @ \cup {v}]

\* The pages copyToUserVirtualMemory() writes between two addresses.
copyToUserVirtualMemory(va, end) == {v \in VpnsBelow(end) : (v + 1) * PGSIZE > va}
=============================================================================
