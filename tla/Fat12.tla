------------------------------- MODULE Fat12 -------------------------------
(***************************************************************************)
(* fs.c: the FAT in memory, opening a path, and reading a file whose File  *)
(* may be shared after fork().  The disk is never written.  Reads of       *)
(* different processes interleave at every disk wait and at every access   *)
(* to the fields of a File, which no lock protects.                        *)
(*                                                                         *)
(* A byte of the disk is its cluster and its place in it.  A character of  *)
(* a name stands for both its cases.  Positions are in units, Bytes of     *)
(* them to a sector; a FAT byte keeps its eight bits.                      *)
(***************************************************************************)
EXTENDS Integers, Sequences, FiniteSets, SequencesExt

CONSTANTS Procs,
          NFILE,
          Bytes,        \* BytesPerSector, for data
          SectorsPerCluster,
          FatSector,    \* bytes of a FAT sector
          Fats,         \* the FATs a disk may have: cluster -> 12-bit entry
          Root,         \* the entries of the root directory
          Dir,          \* the entries of a directory, by its first cluster
          PerSector,    \* directory entries of a sector
          NameLen, ExtLen,  \* 8 and 3
          Paths,        \* bound: the paths opened, as sequences of parts
          Chdirs,       \* bound: the arguments of chdir(), as sequences of parts
          PartSize,     \* the size of pathPart, 20
          Stale,        \* bound: what pathPart holds before its first use
          Lengths       \* bound: the lengths read() is called with

ASSUME Fat12Assumption ==
    /\ NFILE \in Nat /\ Bytes \in Nat \ {0} /\ SectorsPerCluster \in Nat \ {0}
    /\ FatSector \in Nat \ {0} /\ PerSector \in Nat \ {0}
    /\ NameLen \in Nat /\ ExtLen \in Nat
    /\ Lengths \subseteq Nat \ {0}

Min2(a, b) == IF a < b THEN a ELSE b
ClusterSize == SectorsPerCluster * Bytes
FileIds == 1..NFILE
Null == 0
Nul == "nul"        \* the character 0
Space == " "
Dot == "."
Junk == <<>>        \* a byte from behind the Data of a buffer

NoFile == [type |-> "NONE", cluster |-> 0, size |-> 0, pos |-> 0, eof |-> FALSE]

VARIABLES
    FAT,        \* the table on the disk
    file,       \* FileTable: Type, DirectoryEntry.FirstCluster, Size, Position, Eof
    fd,         \* the File a process has open, or Null
    pc,         \* where a process is
    walk,       \* fsFat12Open()'s locals
    rd,         \* fsFat12Read()'s and fsFat12ReadCluster()'s locals
    buf,        \* the bytes a read() has delivered so far
    overlapped  \* Files that two processes have read at the same time (ghost)

vars == <<FAT, file, fd, pc, walk, rd, buf, overlapped>>

(* idle     outside fs.c                                                   *)
(* part     in fsFat12Open(), about to look up the next part of the path   *)
(* sub      reading a subdirectory through a File of its own               *)
(* found    the part has been found                                        *)
(* wild     goes on with a null File                                       *)
(* opened   about to return from fsFat12Open()                             *)
(* sector   waiting for a sector                                           *)
(* add      a piece has been read, Position is about to be read            *)
(* store    Position is about to be written                                *)
(* eof      Eof is about to be set                                         *)
(* ret      about to return from fsFat12Read()                             *)
Reading == {"sector", "add", "store", "eof", "ret"}
Labels == Reading \cup {"idle", "part", "sub", "found", "wild", "opened"}

NoEntry == [name |-> <<>>, dir |-> FALSE, cluster |-> 0, size |-> 0]
NoWalk == [path |-> <<>>, left |-> <<>>, part |-> <<>>, entry |-> NoEntry, file |-> Null]
NoRead == [start |-> 0, asked |-> 0, cluster |-> 0, offset |-> 0, sector |-> 0,
           skip |-> 0, size |-> 0, piece |-> 0, length |-> 0, newpos |-> 0]

-----------------------------------------------------------------------------
(* The File Allocation Table                                               *)

\* Byte i of a FAT12 table on the disk: two entries in three bytes.
Entry(c) == IF c \in DOMAIN FAT THEN FAT[c] ELSE 0
FatByte(i) ==
    LET c == 2 * (i \div 3) IN
    CASE i % 3 = 0 -> Entry(c) % 256
      [] i % 3 = 1 -> Entry(c) \div 256 + 16 * (Entry(c + 1) % 16)
      [] i % 3 = 2 -> Entry(c + 1) \div 16

\* fat[] after fsFat12Initialise().  &fat + fatOffset counts in whole tables,
\* so that every sector but the first is copied to somewhere behind fat[].
fat(i) == IF i < FatSector THEN FatByte(i) ELSE 0

\* fsFat12GetNextCluster() (mutated: odd and even entries are exchanged).
NextClusterSwapped(c) ==
    LET i == c + c \div 2
        w == fat(i) + 256 * fat(i + 1)
        next == IF c % 2 = 0 THEN w \div 16 ELSE w % 4096 IN
    IF next >= 4088 THEN 0 ELSE next
fsFat12GetNextCluster(c) ==
    LET i == c + c \div 2
        w == fat(i) + 256 * fat(i + 1)
        next == IF c % 2 = 1 THEN w \div 16 ELSE w % 4096 IN
    IF next >= 4088 THEN 0 ELSE next

\* The cluster n hops behind c.
Hops(c, n) ==
    LET hop[k \in 0..n] == IF k = 0 THEN c ELSE fsFat12GetNextCluster(hop[k - 1]) IN
    hop[n]

-----------------------------------------------------------------------------
(* Names and paths                                                         *)

\* toDosFileName() of the characters in b, which go on behind the Nul that
\* ends the name: base and extension, padded with spaces.  The extension is
\* copied without regard to that Nul.
toDosFileName(b) ==
    LET At(i) == IF i \in DOMAIN b THEN b[i] ELSE Nul
        len == (CHOOSE i \in 1..Len(b) : b[i] = Nul /\ \A j \in 1..(i - 1) : b[j] # Nul) - 1
        stop == CHOOSE i \in 1..(len + 1) :
                    /\ i = len + 1 \/ b[i] = Dot \/ i = NameLen + 1
                    /\ \A j \in 1..(i - 1) : b[j] # Dot /\ j # NameLen + 1
        Ext(k) == IF At(stop) = Dot /\ At(stop + k) # Nul THEN At(stop + k) ELSE Space IN
    IF SubSeq(b, 1, len) \in {<<Dot>>, <<Dot, Dot>>}
    THEN [i \in 1..(NameLen + ExtLen) |-> IF i <= len THEN Dot ELSE Space]
    ELSE [i \in 1..(NameLen + ExtLen) |->
             IF i > NameLen THEN Ext(i - NameLen) ELSE IF i < stop THEN b[i] ELSE Space]

\* The characters of a path, its parts separated by "/".
Joined(parts) ==
    LET join[k \in 1..Len(parts)] ==
            IF k = 1 THEN parts[1] ELSE join[k - 1] \o <<"/">> \o parts[k] IN
    join[Len(parts)]

\* fsGetPathPart(): all of the rest of the path goes into pathPart, and a Nul
\* behind its first part.
fsGetPathPart(left, part) ==
    LET rest == Joined(left) \o <<Nul>> IN
    [i \in DOMAIN part |->
        IF i = Len(Head(left)) + 1 THEN Nul ELSE IF i <= Len(rest) THEN rest[i] ELSE part[i]]

\* What is searched of a subdirectory: its File is an FD_FILE, so that one
\* read() sets Eof as soon as Position reaches the size in its entry
\* (mutated: one sector too few).
OneSectorLess(e) ==
    LET sectors == (e.size + Bytes - 1) \div Bytes IN
    SubSeq(Dir[e.cluster], 1, Min2(PerSector * sectors, Len(Dir[e.cluster])))
Searched(e) ==
    LET sectors == IF e.size = 0 THEN 1 ELSE (e.size + Bytes - 1) \div Bytes IN
    SubSeq(Dir[e.cluster], 1, Min2(PerSector * sectors, Len(Dir[e.cluster])))

-----------------------------------------------------------------------------

Init ==
    /\ FAT \in Fats
    /\ file = [f \in FileIds |-> NoFile]
    /\ fd = [p \in Procs |-> Null]
    /\ pc = [p \in Procs |-> "idle"]
    /\ walk = [p \in Procs |-> NoWalk]
    /\ rd = [p \in Procs |-> NoRead]
    /\ buf = [p \in Procs |-> <<>>]
    /\ overlapped = {}

Goto(p, label) == pc' = [pc EXCEPT ![p] = label]

\* A File the table has free, and its contents for a directory entry.
Free(f) == f \in FileIds /\ file[f].type = "NONE"
Full == \A f \in FileIds : ~Free(f)
Lowest(f) == Free(f) /\ \A g \in FileIds : Free(g) => f <= g
fsFat12CreateFileStructure(f, e) ==
    /\ file' = [file EXCEPT ![f] = [type |-> "FILE", cluster |-> e.cluster,
                                    size |-> e.size, pos |-> 0, eof |-> FALSE]]
    /\ overlapped' = overlapped \ {f}

-----------------------------------------------------------------------------
(* open()                                                                  *)

\* What sys_chdir() makes of its argument: Cwd is the argument, unchecked, and a
\* "/".  A path is walked from its second character on, so that an argument
\* without a leading "/" loses one.
sys_chdir(d, absolute) ==
    (IF absolute THEN d ELSE <<Tail(Head(d))>> \o Tail(d)) \o << <<>> >>

\* The Cwd a process can have, which nothing but its own open() looks at: "/",
\* or what chdir() left.
Cwds == {<< <<>> >>} \cup {sys_chdir(d, absolute) : d \in Chdirs, absolute \in BOOLEAN}

\* fsFat12Open() puts a path without a leading "/" behind Cwd.
Whole(cwd, path) == Front(cwd) \o <<Last(cwd) \o Head(path)>> \o Tail(path)
Open(p, path, c) ==
    /\ pc[p] = "idle" /\ fd[p] = Null
    /\ Len(Joined(path)) < PartSize
    /\ walk' = [walk EXCEPT ![p] = [NoWalk EXCEPT !.path = path, !.left = path,
                                                  !.part = [i \in 1..PartSize |-> c]]]
    /\ Goto(p, "part")
    /\ UNCHANGED <<FAT, file, fd, rd, buf, overlapped>>

\* A search has ended: with the first of the entries that match, or with none.
SearchEnds(p, entries) ==
    LET part == fsGetPathPart(walk[p].left, walk[p].part)
        found == SelectSeq(entries, LAMBDA e : e.name = toDosFileName(part))
        done == [walk[p] EXCEPT !.part = part, !.file = Null] IN
    IF found = <<>>
    THEN Goto(p, "opened") /\ walk' = [walk EXCEPT ![p] = done]
    ELSE Goto(p, "found") /\ walk' = [walk EXCEPT ![p] = [done EXCEPT !.entry = Head(found)]]

AtRoot(p) == Len(walk[p].left) = Len(walk[p].path)

fsFat12FindInRootDirectory(p) ==
    /\ pc[p] = "part" /\ AtRoot(p)
    /\ SearchEnds(p, Root)
    /\ UNCHANGED <<FAT, file, fd, rd, buf, overlapped>>

\* fsFat12FindInSubDirectory() makes a File for the directory.
SubDirectory(p) ==
    /\ pc[p] = "part" /\ ~AtRoot(p)
    /\ \/ Full /\ Goto(p, "wild") /\ UNCHANGED <<file, walk, overlapped>>
       \/ \E f \in FileIds :
             /\ Lowest(f)
             /\ fsFat12CreateFileStructure(f, walk[p].entry)
             /\ walk' = [walk EXCEPT ![p].file = f]
             /\ Goto(p, "sub")
    /\ UNCHANGED <<FAT, fd, rd, buf>>

\* It reads the directory, closes the File and reports the outcome (mutated:
\* the File stays open).
FindInOpenDirectory(p) ==
    /\ pc[p] = "sub"
    /\ SearchEnds(p, Searched(walk[p].entry))
    /\ UNCHANGED <<FAT, file, fd, rd, buf, overlapped>>
fsFat12FindInSubDirectory(p) ==
    /\ pc[p] = "sub"
    /\ file' = [file EXCEPT ![walk[p].file] = NoFile]
    /\ SearchEnds(p, Searched(walk[p].entry))
    /\ UNCHANGED <<FAT, fd, rd, buf, overlapped>>

\* With the part found: the file itself, or the next part if it is a directory.
Found(p) ==
    /\ pc[p] = "found"
    /\ LET left == walk[p].left
           last == Len(left) = 1 \/ Head(left) = <<>> IN
       \/ /\ last /\ Full
          /\ Goto(p, "opened")
          /\ UNCHANGED <<file, walk, overlapped>>
       \/ /\ last
          /\ \E f \in FileIds :
                /\ Lowest(f)
                /\ fsFat12CreateFileStructure(f, walk[p].entry)
                /\ walk' = [walk EXCEPT ![p].file = f]
          /\ Goto(p, "opened")
       \/ /\ ~last /\ ~walk[p].entry.dir
          /\ Goto(p, "opened")
          /\ UNCHANGED <<file, walk, overlapped>>
       \/ /\ ~last /\ walk[p].entry.dir
          /\ walk' = [walk EXCEPT ![p].left = Tail(left)]
          /\ Goto(p, "part")
          /\ UNCHANGED <<file, overlapped>>
    /\ UNCHANGED <<FAT, fd, rd, buf>>

Opened(p) ==
    /\ pc[p] = "opened"
    /\ fd' = [fd EXCEPT ![p] = walk[p].file]
    /\ walk' = [walk EXCEPT ![p] = NoWalk]
    /\ Goto(p, "idle")
    /\ UNCHANGED <<FAT, file, rd, buf, overlapped>>

\* fork() shares the File; the last close() frees it.
Share(p, q) ==
    /\ pc[p] = "idle" /\ fd[p] # Null
    /\ pc[q] = "idle" /\ fd[q] = Null
    /\ fd' = [fd EXCEPT ![q] = fd[p]]
    /\ UNCHANGED <<FAT, file, pc, walk, rd, buf, overlapped>>

Close(p) ==
    /\ pc[p] = "idle" /\ fd[p] # Null
    /\ fd' = [fd EXCEPT ![p] = Null]
    /\ file' = IF \E q \in Procs \ {p} : fd[q] = fd[p] THEN file
               ELSE [file EXCEPT ![fd[p]] = NoFile]
    /\ UNCHANGED <<FAT, pc, walk, rd, buf, overlapped>>

-----------------------------------------------------------------------------
(* read()                                                                  *)

\* fsFat12ReadCluster() up to its first disk wait.
fsFat12ReadCluster(r) ==
    LET piece == Min2(r.length, ClusterSize - r.offset) IN
    [r EXCEPT !.piece = piece, !.size = piece,
              !.sector = r.offset \div Bytes, !.skip = r.offset % Bytes]

\* fsFat12Read() from its call to its first disk wait.
Read(p, n) ==
    /\ pc[p] = "idle" /\ fd[p] # Null
    /\ LET f == file[fd[p]]
           hops == f.pos \div ClusterSize
           others == {q \in Procs \ {p} : fd[q] = fd[p] /\ pc[q] \in Reading}
           r == [NoRead EXCEPT !.start = f.pos, !.asked = n, !.length = n,
                               !.cluster = IF f.eof THEN 0 ELSE Hops(f.cluster, hops),
                               !.offset = f.pos % ClusterSize] IN
       /\ rd' = [rd EXCEPT ![p] = IF f.eof THEN r ELSE fsFat12ReadCluster(r)]
       /\ Goto(p, IF f.eof THEN "ret" ELSE "sector")
       /\ overlapped' = IF others = {} THEN overlapped ELSE overlapped \cup {fd[p]}
    /\ UNCHANGED <<FAT, file, fd, walk, buf>>

\* Byte i behind the start of a sector's data, which ends after Bytes of them.
DataByte(c, sector, i) == IF i < Bytes THEN <<c, sector * Bytes + i>> ELSE Junk

\* The loop of fsFat12ReadCluster(): one sector.
ReadSector(p) ==
    /\ pc[p] = "sector"
    /\ LET r == rd[p]
           n == Min2(r.size, Bytes) IN
       /\ buf' = [buf EXCEPT ![p] = @ \o
                    [i \in 1..n |-> DataByte(r.cluster, r.sector, r.skip + i - 1)]]
       /\ rd' = [rd EXCEPT ![p] = [r EXCEPT !.skip = 0, !.size = r.size - n,
                                            !.sector = r.sector + 1]]
       /\ Goto(p, IF r.size = n THEN "add" ELSE "sector")
    /\ UNCHANGED <<FAT, file, fd, walk, overlapped>>

\* file->Position += readLength is a load and a store.
AddPosition(p) ==
    /\ pc[p] = "add"
    /\ rd' = [rd EXCEPT ![p].newpos = file[fd[p]].pos + rd[p].piece,
                        ![p].length = @ - rd[p].piece]
    /\ Goto(p, "store")
    /\ UNCHANGED <<FAT, file, fd, walk, buf, overlapped>>

\* ... and on to the end of the file, the end of the chain or the next cluster.
AtEnd(r, f) == r.newpos >= f.size
StorePosition(p) ==
    /\ pc[p] = "store"
    /\ LET r == rd[p]
           f == file[fd[p]]
           next == IF r.offset + r.piece = ClusterSize
                   THEN fsFat12GetNextCluster(r.cluster) ELSE r.cluster
           more == [r EXCEPT !.cluster = next, !.offset = 0] IN
       /\ file' = [file EXCEPT ![fd[p]].pos = r.newpos]
       /\ \/ /\ AtEnd(r, f) \/ next = 0
             /\ Goto(p, "eof") /\ rd' = rd
          \/ /\ ~AtEnd(r, f) /\ next # 0 /\ r.length = 0
             /\ Goto(p, "ret") /\ rd' = rd
          \/ /\ ~AtEnd(r, f) /\ next # 0 /\ r.length > 0
             /\ Goto(p, "sector") /\ rd' = [rd EXCEPT ![p] = fsFat12ReadCluster(more)]
    /\ UNCHANGED <<FAT, fd, walk, buf, overlapped>>

SetEof(p) ==
    /\ pc[p] = "eof"
    /\ file' = [file EXCEPT ![fd[p]].eof = TRUE]
    /\ Goto(p, "ret")
    /\ UNCHANGED <<FAT, fd, walk, rd, buf, overlapped>>

Return(p) ==
    /\ pc[p] = "ret"
    /\ rd' = [rd EXCEPT ![p] = NoRead]
    /\ buf' = [buf EXCEPT ![p] = <<>>]
    /\ Goto(p, "idle")
    /\ UNCHANGED <<FAT, file, fd, walk, overlapped>>

Call(p) ==
    \/ \E path \in Paths \cup {Whole(cwd, path) : cwd \in Cwds, path \in Paths}, c \in Stale :
          Open(p, path, c)
    \/ \E q \in Procs : Share(p, q)
    \/ Close(p)
    \/ \E n \in Lengths : Read(p, n)

Step(p) ==
    \/ fsFat12FindInRootDirectory(p) \/ SubDirectory(p) \/ fsFat12FindInSubDirectory(p)
    \/ Found(p) \/ Opened(p)
    \/ ReadSector(p) \/ AddPosition(p) \/ StorePosition(p) \/ SetEof(p) \/ Return(p)

Next == \E p \in Procs : Call(p) \/ Step(p)

Spec == Init /\ [][Next]_vars

-----------------------------------------------------------------------------

\* Every File in use belongs to the processes that have it open or to the one
\* that searches a directory through it, and has nothing else does.
TypeOK ==
    /\ file \in [FileIds -> [type : {"NONE", "FILE"}, cluster : Nat, size : Nat,
                             pos : Nat, eof : BOOLEAN]]
    /\ fd \in [Procs -> FileIds \cup {Null}]
    /\ pc \in [Procs -> Labels]
    /\ overlapped \subseteq FileIds
    /\ \A f \in FileIds : ~Free(f) <=> \E p \in Procs : fd[p] = f \/ walk[p].file = f

\* The k-th cluster of a file by the table on the disk, and whether fat[] holds
\* all the entries that lead to it.
ClusterOf(f, k) == LET hop[j \in 0..k] == IF j = 0 THEN f.cluster ELSE Entry(hop[j - 1]) IN hop[k]
Held(f, k) == \A j \in 0..(k - 1) : LET c == ClusterOf(f, j) IN c + c \div 2 + 1 < FatSector

\* Whether byte i of a read lies in its first piece but behind the sector the
\* read starts inside of: fsFat12ReadCluster() takes such a byte from the
\* wrong place.
Misplaced(r, i) ==
    /\ r.start % Bytes # 0
    /\ i >= Bytes - (r.start % Bytes)
    /\ i < Min2(r.asked, ClusterSize - (r.start % ClusterSize))

\* What a read() can get at: the code reads on to the end of the cluster in
\* which the file ends, and of an empty file it reads one cluster.
Extent(f) ==
    ClusterSize * (IF f.size = 0 THEN 1 ELSE (f.size + ClusterSize - 1) \div ClusterSize)

\* A read() that returns has delivered the bytes of the file that follow the
\* Position it started from, whoever else reads the File at the same time.
\* There are three exceptions in the code: bytes behind a sector boundary after
\* a start inside a sector, clusters behind the first FAT sector, and bytes
\* behind Size, to which no length is clamped.  On a File that no two processes
\* have read at the same time a read() is exact all the same: bytes behind Size
\* are those that follow in the cluster the file ends in (for an empty file,
\* whose first cluster is 0, those of the disk two clusters before the first
\* one for data), it has delivered and counted all that was asked for up to the end
\* of that cluster, has moved Position by as much, and has set Eof exactly when
\* Position has reached Size.
ReadExact ==
    \A p \in Procs : pc[p] = "ret" =>
        LET r == rd[p]
            f == file[fd[p]]
            n == Len(buf[p])
            alone == fd[p] \notin overlapped IN
        /\ \A i \in 0..(n - 1) :
              LET at == r.start + i
                  k == at \div ClusterSize IN
              (alone \/ at < f.size) /\ Held(f, k) /\ ~Misplaced(r, i)
                  => buf[p][i + 1] = <<ClusterOf(f, k), at % ClusterSize>>
        /\ alone => n <= r.asked /\ f.pos = r.start + n
        /\ alone /\ Held(f, f.size \div ClusterSize) =>
              /\ n = IF r.start = 0 \/ r.start < f.size
                     THEN Min2(r.asked, Extent(f) - r.start) ELSE 0
              /\ f.eof <=> f.pos >= f.size

\* The 8.3 form of a name, and the entry a path leads to on the disk:
\* directories searched to their end, cluster 0 being the root.  Of a name that
\* is too long as many characters count as there is room for, and it has no
\* extension: fs.c:94 stops short of the dot.
Stem(part) ==
    LET ends == {i \in DOMAIN part : part[i] = Dot} IN
    IF ends = {} THEN part ELSE SubSeq(part, 1, Min(ends) - 1)
Suffix(part) == SubSeq(part, Len(Stem(part)) + 2, Len(part))
Padded(s, n) == [i \in 1..n |-> IF i <= Len(s) THEN s[i] ELSE Space]
TooLong(part) == Len(Stem(part)) > NameLen
DotName(part) == part \in {<<Dot>>, <<Dot, Dot>>}
DosName(part) == IF DotName(part) THEN Padded(part, NameLen + ExtLen)
                 ELSE Padded(Stem(part), NameLen)
                      \o Padded(IF TooLong(part) THEN <<>> ELSE Suffix(part), ExtLen)

Content(e) == IF e.cluster = 0 THEN Root ELSE Dir[e.cluster]
Named(entries, part) ==
    IF \E i \in DOMAIN entries : entries[i].name = DosName(part)
    THEN entries[CHOOSE i \in DOMAIN entries : entries[i].name = DosName(part)] ELSE NoEntry
Lookup(path) ==
    LET look[k \in 1..Len(path)] ==
            IF k = 1 THEN Named(Root, path[1])
            ELSE IF look[k - 1].dir THEN Named(Content(look[k - 1]), path[k]) ELSE NoEntry IN
    look

\* The paths the code can follow: an extension is at most one short of full
\* length, and no part is behind the first sector of a subdirectory or is
\* looked up in the root as reached through "..".
Followed(path) ==
    LET look == Lookup(path) IN
    \A k \in DOMAIN path :
        /\ \/ Stem(path[k]) = path[k] \/ DotName(path[k]) \/ TooLong(path[k])
           \/ Len(Suffix(path[k])) >= ExtLen - 1
        /\ k > 1 => /\ look[k - 1].cluster # 0
                    /\ \E i \in 1..Min2(PerSector, Len(Dir[look[k - 1].cluster])) :
                          Dir[look[k - 1].cluster][i] = look[k]

\* fsFat12Open() never opens another file than the one its path leads to on
\* the disk, whatever pathPart held before and whatever is behind the name in
\* it, and it finds that file on every path of the kind above.  A name in the
\* path with more than NameLen characters before its dot leads to the file of
\* the first NameLen of them and no extension, which is what the code looks for.
OpenFinds ==
    \A p \in Procs : pc[p] = "opened" =>
        LET path == walk[p].path
            e == Lookup(path)[Len(path)] IN
        /\ walk[p].file # Null => /\ e # NoEntry
                                  /\ file[walk[p].file].cluster = e.cluster
                                  /\ file[walk[p].file].size = e.size
        /\ e # NoEntry /\ Followed(path) => walk[p].entry = e

=============================================================================
