----------------------------- MODULE FilesProofs -----------------------------
(***************************************************************************)
(* Every step of Files keeps the reference counts, and the theorems.       *)
(***************************************************************************)
EXTENDS FilesSteps

(* The provers a leaf is tried with, and the time each may take.           *)
USE SMTT(30), Z3T(30), ZenonT(30)

(* One element more or less in the sets that Owed counts.                  *)
LEMMA NamedIs ==
    ASSUME NEW f, NEW S, S \subseteq Procs \X Fds,
           \A q \in Procs, e \in Fds :
               <<q, e>> \in S <=> pc[q] # "unused" /\ OpenFile[q][e] = f
    PROVE  Named(f) = S
    BY DEF Named

(* The same of the names after a step.                                     *)
LEMMA NamedBecomes ==
    ASSUME NEW f, NEW S, S \subseteq Procs \X Fds,
           \A q \in Procs, e \in Fds :
               <<q, e>> \in S <=> pc'[q] # "unused" /\ OpenFile'[q][e] = f
    PROVE  Named(f)' = S
    BY DEF Named

(* A File whose holders and counts stay keeps its part of CountInv.        *)
LEMMA CountFrame ==
    ASSUME CountInv, NEW g \in FileIds,
           \A q \in Procs, e \in Fds :
               (pc'[q] # "unused" /\ OpenFile'[q][e] = g)
                   <=> (pc[q] # "unused" /\ OpenFile[q][e] = g),
           \A q \in Procs : Holds(q, g)' <=> Holds(q, g),
           \A q \in Procs : (pc'[q] = "dup" /\ held'[q] = <<g>>)
                                <=> (pc[q] = "dup" /\ held[q] = <<g>>),
           ref'[g] = ref[g],
           file'[g].type = file[g].type \/ file[g].type # "DEVICE"
    PROVE  CountOf(g)'
<1>1. Named(g)' = Named(g)
    BY DEF Named
<1>2. Uncounted(g)' = Uncounted(g)
    BY DEF Uncounted
<1>3. IsHeld(g)' <=> IsHeld(g)
    BY DEF IsHeld
<1>4. Owed(g)' = Owed(g)
    BY <1>1, <1>2, <1>3 DEF Owed
<1> QED
    BY <1>4 DEF CountInv, CountOf

(* What process o holds and has to count stays.                            *)
SameCall(o) ==
    /\ pc'[o] = "unused" <=> pc[o] = "unused"
    /\ pc'[o] = "dup" <=> pc[o] = "dup"
    /\ pc'[o] \in Holding <=> pc[o] \in Holding
    /\ pc[o] \in Holding \cup {"dup"} => held'[o] = held[o]

(* A step that leaves all that alone keeps CountInv.                       *)
LEMMA CountSame ==
    ASSUME CountInv, UNCHANGED <<ref, file, OpenFile>>,
           \A o \in Procs : SameCall(o), NEW g \in FileIds
    PROVE  CountOf(g)'
<1>1. \A o \in Procs, b \in Fds :
          (pc'[o] # "unused" /\ OpenFile'[o][b] = g)
              <=> (pc[o] # "unused" /\ OpenFile[o][b] = g)
    BY DEF SameCall
<1>2. \A o \in Procs : Holds(o, g)' <=> Holds(o, g)
    BY Zenon DEF SameCall, Holds
<1>3. \A o \in Procs : (pc'[o] = "dup" /\ held'[o] = <<g>>)
                           <=> (pc[o] = "dup" /\ held[o] = <<g>>)
    BY DEF SameCall
<1>4. /\ ref'[g] = ref[g]
      /\ file'[g].type = file[g].type \/ file[g].type # "DEVICE"
    OBVIOUS
<1> QED
    BY ZenonT(60), <1>1, <1>2, <1>3, <1>4, CountFrame

(* A File that one call holds, and nothing names.                          *)
LEMMA OwedFacts ==
    ASSUME FiniteFacts, NEW f, NEW n \in Nat, Cardinality(Named(f)) = n,
           Uncounted(f) = {}
    PROVE  Owed(f) = IF IsHeld(f) THEN n + 1 ELSE n
<1>1. Cardinality(Uncounted(f)) = 0
    BY DEF FiniteFacts, CardEmpty
<1> QED
    BY <1>1 DEF Owed

(* A File whose references after a step are those the step leaves it.      *)
LEMMA OwedNext ==
    ASSUME FiniteFacts, NEW f \in FileIds, NEW n \in Nat,
           Cardinality(Named(f)') = n,
           Uncounted(f)' = {}, ref'[f] = IF IsHeld(f)' THEN n + 1 ELSE n
    PROVE  CountOf(f)'
<1>1. Cardinality(Uncounted(f)') = 0
    BY DEF FiniteFacts, CardEmpty
<1>2. Owed(f)' = IF IsHeld(f)' THEN n + 1 ELSE n
    BY <1>1 DEF Owed
<1> QED
    BY <1>2 DEF CountOf

(* What nothing names is not waiting to be counted either.                 *)
LEMMA Unnamed ==
    ASSUME IInv, NEW f, \A q \in Procs, e \in Fds : OpenFile[q][e] # f
    PROVE  /\ \A q \in Procs : ~(pc[q] = "dup" /\ held[q] = <<f>>)
           /\ \A q \in Procs : pc[q] = "dup" => held[q][1] # f
<1>1. ASSUME NEW q \in Procs, pc[q] = "dup", held[q][1] = f PROVE FALSE
    BY <1>1 DEF IInv, CallInv
<1>2. ASSUME NEW q \in Procs, pc[q] = "dup", held[q] = <<f>> PROVE FALSE
    <2>1. held[q][1] = f
        BY <1>2
    <2> QED
        BY <1>1, <1>2, <2>1
<1> QED
    BY Zenon, <1>1, <1>2

(* sys_dup holds just the File it is to count.                             *)
LEMMA DupHolds ==
    ASSUME IInv, NEW p \in Procs, pc[p] = "dup"
    PROVE  held[p] = <<held[p][1]>>
<1>1. held[p] \in Seq(FileIds) /\ Len(held[p]) = 1
    BY Zenon, HeldLen DEF IInv, SysTypes, CallInv
<1> QED
    BY <1>1

(* As many references as names more or less.                               *)
LEMMA CountShift ==
    ASSUME FiniteFacts, CountInv, NEW f \in FileIds, NEW a \in Int,
           NEW b \in Int,
           Cardinality(Named(f)') = Cardinality(Named(f)) + a,
           Cardinality(Uncounted(f)') = Cardinality(Uncounted(f)) + b,
           IsHeld(f)' <=> IsHeld(f), ref[f] \in Nat, ref'[f] = ref[f] + a - b,
           file'[f].type = file[f].type
    PROVE  CountOf(f)'
<1>1. CountOf(f)
    BY DEF CountInv
<1>2. Cardinality(Named(f)) \in Nat /\ Cardinality(Uncounted(f)) \in Nat
    BY Zenon, Finite
<1>3. Owed(f) \in Int /\ Owed(f)' = Owed(f) + a - b
    BY <1>2 DEF Owed
<1> QED
    BY <1>1, <1>3 DEF CountOf

(* A console may lose names, and need not lose references.                 *)
LEMMA CountLess ==
    ASSUME FiniteFacts, CountInv, NEW f \in FileIds,
           Named(f)' \subseteq Named(f),
           Uncounted(f)' = Uncounted(f), IsHeld(f)' <=> IsHeld(f),
           ref[f] \in Nat, ref'[f] \in Nat, ref'[f] >= ref[f],
           file'[f].type = "DEVICE"
    PROVE  CountOf(f)'
<1>1. CountOf(f)
    BY DEF CountInv
<1>2. Cardinality(Named(f)) \in Nat /\ Cardinality(Uncounted(f)) \in Nat
    BY ZenonT(60), Finite
<1>3. /\ Cardinality(Named(f)') \in Nat
      /\ Cardinality(Named(f)') <= Cardinality(Named(f))
    BY Finite DEF FiniteFacts, CardType, CardSubset
<1>4. Owed(f) \in Int /\ Owed(f)' \in Int /\ Owed(f)' <= Owed(f)
    BY <1>2, <1>3 DEF Owed
<1> QED
    BY <1>1, <1>4 DEF CountOf

(* Nothing counts a File that allocateFileStructure() takes.               *)
LEMMA FreeCount ==
    ASSUME IInv, NEW f \in FileIds, FirstFreeFile(f)
    PROVE  /\ Named(f) = {} /\ Uncounted(f) = {} /\ ~IsHeld(f)
           /\ \A o \in Procs, b \in Fds : OpenFile[o][b] # f
<1>1. /\ \A q \in Procs, d \in Fds : OpenFile[q][d] # f
      /\ \A q \in Procs : \A i \in 1..Len(held[q]) :
             pc[q] \in Holding => held[q][i] # f
    BY Zenon, FreeFile
<1>2. Named(f) = {}
    BY <1>1 DEF Named
<1>3. Uncounted(f) = {}
    BY <1>1, Unnamed DEF Uncounted
<1>4. ~IsHeld(f)
    BY <1>1 DEF IsHeld, Holds
<1> QED
    BY <1>1, <1>2, <1>3, <1>4

(* A call takes a free File and holds it.                                  *)
LEMMA CountTake ==
    ASSUME FiniteFacts, IInv, NEW p \in Procs, NEW f \in FileIds,
           FirstFreeFile(f),
           pc[p] \in {"user", "pipe"}, ref' = [ref EXCEPT ![f] = 1],
           \A q \in Procs : q # p => held'[q] = held[q],
           OpenFile' = OpenFile, NEW l \in Holding, Goto(p, l),
           \A h \in FileIds : Holds(p, h)' <=> Holds(p, h) \/ h = f,
           \A h \in FileIds : h # f => file'[h] = file[h]
    PROVE  \A g \in FileIds : CountOf(g)'
<1>t. /\ pc \in [Procs -> Labels] /\ held \in [Procs -> HeldFiles]
      /\ OpenFile \in [Procs -> [Fds -> FileIds \cup {Null}]]
      /\ ref \in [FileIds -> Nat] /\ file \in [FileIds -> FileRecords]
      /\ SysTypes /\ CountInv
    BY Zenon DEF IInv, SysTypes
<1>1. /\ pc'[p] = l /\ \A q \in Procs : q # p => pc'[q] = pc[q]
      /\ l # "unused" /\ l # "dup" /\ pc[p] # "unused" /\ pc[p] # "dup"
    BY <1>t DEF Goto, Holding
<1> SUFFICES ASSUME NEW g \in FileIds PROVE CountOf(g)'
    OBVIOUS
<1>2. CASE g # f
    <2>n. \A o \in Procs, b \in Fds :
              (pc'[o] # "unused" /\ OpenFile'[o][b] = g)
                  <=> (pc[o] # "unused" /\ OpenFile[o][b] = g)
        BY <1>1
    <2>h. \A o \in Procs : Holds(o, g)' <=> Holds(o, g)
        BY <1>1, <1>2 DEF Holds
    <2>u. \A o \in Procs : (pc'[o] = "dup" /\ held'[o] = <<g>>)
                               <=> (pc[o] = "dup" /\ held[o] = <<g>>)
        BY <1>1
    <2>r. /\ ref'[g] = ref[g]
          /\ file'[g].type = file[g].type \/ file[g].type # "DEVICE"
        BY <1>t, <1>2
    <2> QED
        BY ZenonT(60), <1>t, <2>n, <2>h, <2>u, <2>r, CountFrame
<1>3. CASE g = f
    <2>1. Named(f) = {} /\ Uncounted(f) = {}
        BY ZenonT(60), FreeCount
    <2>2. Named(f)' = {}
        BY <1>1, <2>1 DEF Named
    <2>3. Uncounted(f)' = {}
        BY <1>1, <2>1 DEF Uncounted
    <2>4. Cardinality(Named(f)') = 0
        BY Zenon, <2>2 DEF FiniteFacts, CardEmpty
    <2>5. IsHeld(f)'
        BY DEF IsHeld
    <2>6. ref'[f] = 0 + 1
        BY <1>t
    <2> QED
        BY <1>3, <2>3, <2>4, <2>5, <2>6, OwedNext
<1> QED
    BY <1>2, <1>3

(* A call takes a free File and installs it in a descriptor.               *)
LEMMA CountInstall ==
    ASSUME FiniteFacts, IInv, NEW p \in Procs, NEW d \in Fds,
           NEW f \in FileIds,
           FirstFreeFile(f), pc[p] # "unused", OpenFile[p][d] = Null,
           ref' = [ref EXCEPT ![f] = 1], UNCHANGED <<pc, held>>,
           OpenFile' = [OpenFile EXCEPT ![p][d] = f],
           \A h \in FileIds : h # f => file'[h] = file[h]
    PROVE  \A g \in FileIds : CountOf(g)'
<1>t. /\ pc \in [Procs -> Labels] /\ held \in [Procs -> HeldFiles]
      /\ OpenFile \in [Procs -> [Fds -> FileIds \cup {Null}]]
      /\ ref \in [FileIds -> Nat] /\ file \in [FileIds -> FileRecords]
      /\ SysTypes /\ CountInv
    BY Zenon DEF IInv, SysTypes
<1> SUFFICES ASSUME NEW g \in FileIds PROVE CountOf(g)'
    OBVIOUS
<1>g. g # Null
    BY Constants
<1>1. CASE g # f
    <2>n. \A o \in Procs, b \in Fds :
              (pc'[o] # "unused" /\ OpenFile'[o][b] = g)
                  <=> (pc[o] # "unused" /\ OpenFile[o][b] = g)
        BY <1>t, <1>g, <1>1
    <2>h. \A o \in Procs : Holds(o, g)' <=> Holds(o, g)
        BY DEF Holds
    <2>u. \A o \in Procs : (pc'[o] = "dup" /\ held'[o] = <<g>>)
                               <=> (pc[o] = "dup" /\ held[o] = <<g>>)
        OBVIOUS
    <2>r. /\ ref'[g] = ref[g]
          /\ file'[g].type = file[g].type \/ file[g].type # "DEVICE"
        BY <1>t, <1>1
    <2> QED
        BY ZenonT(60), <1>t, <2>n, <2>h, <2>u, <2>r, CountFrame
<1>2. CASE g = f
    <2>1. /\ Uncounted(f) = {} /\ ~IsHeld(f)
          /\ \A o \in Procs, b \in Fds : OpenFile[o][b] # f
        BY Zenon, FreeCount
    <2>2. Named(f)' = {<<p, d>>}
        <3>1. \A o \in Procs, b \in Fds :
                  OpenFile'[o][b] = f <=> o = p /\ b = d
            BY <1>t, <2>1
        <3>2. {<<p, d>>} \subseteq Procs \X Fds
            OBVIOUS
        <3>3. \A o \in Procs, b \in Fds :
                  <<o, b>> \in {<<p, d>>}
                      <=> pc'[o] # "unused" /\ OpenFile'[o][b] = f
            BY <3>1
        <3> QED
            BY Zenon, <3>2, <3>3, NamedBecomes
    <2>3. Cardinality(Named(f)') = 1
        BY Zenon, <2>2 DEF FiniteFacts, CardSingleton
    <2>4. Uncounted(f)' = {} /\ ~IsHeld(f)'
        BY <2>1 DEF Uncounted, IsHeld, Holds
    <2>5. ref'[f] = 1
        BY <1>t
    <2> QED
        BY <1>2, <2>3, <2>4, <2>5, OwedNext
<1> QED
    BY <1>1, <1>2

(* A descriptor is closed.                                                 *)
LEMMA CountClose ==
    ASSUME FiniteFacts, IInv, NEW p \in Procs, NEW d \in Fds,
           pc[p] \in {"user", "exit"},
           OpenFile[p][d] # Null, OpenFile' = [OpenFile EXCEPT ![p][d] = Null],
           fileClose(p, OpenFile[p][d]), UNCHANGED <<pc, held>>
    PROVE  \A g \in FileIds : CountOf(g)'
<1>t. /\ pc \in [Procs -> Labels] /\ held \in [Procs -> HeldFiles]
      /\ OpenFile \in [Procs -> [Fds -> FileIds \cup {Null}]]
      /\ ref \in [FileIds -> Nat] /\ file \in [FileIds -> FileRecords]
      /\ SysTypes /\ CountInv
    BY Zenon DEF IInv, SysTypes
<1>1. PICK f \in FileIds : f = OpenFile[p][d] /\ ref[f] > 0
    BY InUse
<1>2. /\ ref' = [ref EXCEPT ![f] = @ - 1]
      /\ file' = [file EXCEPT ![f] = IF ref[f] = 1 THEN NoFile ELSE @]
    BY <1>t, <1>1, CloseFile
<1> SUFFICES ASSUME NEW g \in FileIds PROVE CountOf(g)'
    OBVIOUS
<1>g. g # Null
    BY Constants
<1>3. CASE g # f
    <2>n. \A o \in Procs, b \in Fds :
              (pc'[o] # "unused" /\ OpenFile'[o][b] = g)
                  <=> (pc[o] # "unused" /\ OpenFile[o][b] = g)
        BY <1>t, <1>g, <1>1, <1>3
    <2>h. \A o \in Procs : Holds(o, g)' <=> Holds(o, g)
        BY DEF Holds
    <2>u. \A o \in Procs : (pc'[o] = "dup" /\ held'[o] = <<g>>)
                               <=> (pc[o] = "dup" /\ held[o] = <<g>>)
        OBVIOUS
    <2>r. /\ ref'[g] = ref[g]
          /\ file'[g].type = file[g].type \/ file[g].type # "DEVICE"
        BY <1>t, <1>2, <1>3
    <2> QED
        BY ZenonT(60), <1>t, <2>n, <2>h, <2>u, <2>r, CountFrame
<1>4. ~IsHeld(f) /\ ~IsHeld(f)' /\ Uncounted(f)' = Uncounted(f)
    BY <1>1, NamedNotHeld DEF IsHeld, Holds, Uncounted, IInv
<1>5. \A o \in Procs, b \in Fds :
          OpenFile'[o][b] = f <=> OpenFile[o][b] = f /\ ~(o = p /\ b = d)
    BY <1>t, <1>1, Constants
<1>6. CASE g = f /\ ref[f] = 1
    <2>1. \A o \in Procs, b \in Fds : OpenFile[o][b] = f => o = p /\ b = d
        <3>1. ref[OpenFile[p][d]] = 1
            BY <1>1, <1>6
        <3>2. \A o \in Procs, b \in Fds :
                  OpenFile[o][b] = OpenFile[p][d] => o = p /\ b = d
            BY Zenon, <3>1, LastOne
        <3> QED
            BY <1>1, <3>2
    <2>2. Named(f)' = {}
        BY <1>5, <2>1 DEF Named
    <2>3. ASSUME NEW o \in Procs, pc[o] = "dup", held[o] = <<f>> PROVE FALSE
        <3>1. held[o][1] = f
            BY <2>3
        <3>2. PICK a, b \in Fds : /\ a # b /\ OpenFile[o][a] = f
                                 /\ OpenFile[o][b] = f
            BY <2>3, <3>1 DEF IInv, CallInv
        <3> QED
            BY <2>1, <3>2
    <2>4. Uncounted(f)' = {}
        BY <1>4, <2>3 DEF Uncounted
    <2>5. Cardinality(Named(f)') = 0
        BY Zenon, <2>2 DEF FiniteFacts, CardEmpty
    <2>6. ref'[f] = 0
        BY <1>t, <1>2, <1>6
    <2> QED
        BY <1>4, <1>6, <2>4, <2>5, <2>6, OwedNext
<1>7. CASE g = f /\ ref[f] # 1
    <2>1. Named(f)' = Named(f) \ {<<p, d>>}
        <3>1. Named(f) \ {<<p, d>>} \subseteq Procs \X Fds
            BY Pairs
        <3>2. \A o \in Procs, b \in Fds :
                  <<o, b>> \in Named(f) \ {<<p, d>>}
                      <=> pc'[o] # "unused" /\ OpenFile'[o][b] = f
            <4>1. \A o \in Procs, b \in Fds :
                      <<o, b>> \in Named(f)
                          <=> pc[o] # "unused" /\ OpenFile[o][b] = f
                BY Zenon, Pairs
            <4> QED
                BY Zenon, <1>5, <4>1
        <3> QED
            BY Zenon, <3>1, <3>2, NamedBecomes
    <2>2. <<p, d>> \in Named(f)
        BY <1>1, Pairs
    <2>3. Cardinality(Named(f)') = Cardinality(Named(f)) - 1
        BY ZenonT(60), <2>1, <2>2, Finite DEF FiniteFacts, CardRemove
    <2>4. Cardinality(Named(f)') = Cardinality(Named(f)) + (-1)
        BY <2>3, Finite
    <2>5. /\ Cardinality(Uncounted(f)') = Cardinality(Uncounted(f)) + 0
          /\ ref[f] \in Nat /\ ref'[f] = ref[f] + (-1) - 0
          /\ file'[f].type = file[f].type
        BY <1>t, <1>2, <1>4, <1>7, Finite
    <2>6. -1 \in Int /\ 0 \in Int
        OBVIOUS
    <2>7. CountOf(f)'
        BY ZenonT(60), <1>t, <1>4, <2>4, <2>5, <2>6, CountShift
    <2> QED
        BY <1>7, <2>7
<1> QED
    BY <1>3, <1>6, <1>7

(* What is left to a call that has closed the first File it holds.         *)
LEMMA HoldsRest ==
    ASSUME IInv, NEW p \in Procs, pc[p] \in Holding, held[p] \in HeldFiles,
           Len(held[p]) \in {1, 2}, held'[p] = Tail(held[p]),
           pc'[p] \in Holding <=> Len(held[p]) = 2
    PROVE  \A h \in FileIds : Holds(p, h)' <=> Holds(p, h) /\ h # held[p][1]
<1>1. /\ \A i \in 1..1 : i = 1
      /\ \A i \in 1..2 : i = 1 \/ i = 2
      /\ 1 \in 1..1 /\ 1 \in 1..2 /\ 2 \in 1..2 /\ 1 # 2
    OBVIOUS
<1>2. CASE Len(held[p]) = 1
    <2>1. pc'[p] \notin Holding
        BY <1>2
    <2> QED
        BY Zenon, <1>1, <1>2, <2>1 DEF Holds
<1>3. CASE Len(held[p]) = 2
    <2>1. Len(Tail(held[p])) = 1 /\ Tail(held[p])[1] = held[p][2]
        <3>1. /\ Len(Tail(held[p])) = Len(held[p]) - 1
              /\ Len(held[p]) = 2 => Tail(held[p])[1] = held[p][2]
            BY Zenon, HeldHead
        <3>2. \A n : n = 2 => n - 1 = 1
            OBVIOUS
        <3> QED
            BY Zenon, <1>3, <3>1, <3>2
    <2>2. held[p][1] # held[p][2]
        <3>1. 1 \in 1..Len(held[p]) /\ 2 \in 1..Len(held[p])
            BY <1>3
        <3>2. HeldInv
            BY DEF IInv
        <3>3. held[p][2] = held[p][1] => 2 = 1
            BY <3>1, <3>2 DEF HeldInv
        <3> QED
            BY <1>1, <3>3
    <2>3. \A h : Holds(p, h) <=> h = held[p][1] \/ h = held[p][2]
        BY <1>1, <1>3 DEF Holds
    <2>4. \A h : Holds(p, h)' <=> h = held[p][2]
        <3>1. Len(held'[p]) = 1 /\ held'[p][1] = held[p][2] /\ pc'[p] \in Holding
            BY Zenon, <1>3, <2>1
        <3> QED
            BY <1>1, <3>1 DEF Holds
    <2> QED
        BY Zenon, <2>2, <2>3, <2>4
<1> QED
    BY <1>2, <1>3

(* A call closes a File that it holds.                                     *)
LEMMA CountRelease ==
    ASSUME FiniteFacts, IInv, NEW p \in Procs, pc[p] \in Holding, fileClose(p,
           Head(held[p])),
           \A q \in Procs : q # p => held'[q] = held[q], OpenFile' = OpenFile,
           NEW l \in Labels \ {"unused", "dup"}, Goto(p, l),
           \A h \in FileIds : Holds(p, h)' <=> Holds(p, h) /\ h # held[p][1]
    PROVE  \A g \in FileIds : CountOf(g)'
<1>t. /\ pc \in [Procs -> Labels] /\ held \in [Procs -> HeldFiles]
      /\ OpenFile \in [Procs -> [Fds -> FileIds \cup {Null}]]
      /\ ref \in [FileIds -> Nat] /\ file \in [FileIds -> FileRecords]
      /\ SysTypes /\ CountInv
    BY ZenonT(60) DEF IInv, SysTypes
<1>1. PICK f \in FileIds : /\ f = held[p][1] /\ f = Head(held[p])
                            /\ ref[f] = 1 /\ ref[f] > 0
                            /\ 1 \in 1..Len(held[p])
    BY InUse
<1>2. /\ ref' = [ref EXCEPT ![f] = @ - 1]
      /\ file' = [file EXCEPT ![f] = IF ref[f] = 1 THEN NoFile ELSE @]
    BY <1>t, <1>1, CloseFile
<1>3. /\ pc'[p] = l /\ \A q \in Procs : q # p => pc'[q] = pc[q]
      /\ l # "unused" /\ l # "dup" /\ pc[p] # "unused" /\ pc[p] # "dup"
    BY <1>t DEF Goto, Holding
<1> SUFFICES ASSUME NEW g \in FileIds PROVE CountOf(g)'
    OBVIOUS
<1>4. CASE g # f
    <2>n. \A o \in Procs, b \in Fds :
              (pc'[o] # "unused" /\ OpenFile'[o][b] = g)
                  <=> (pc[o] # "unused" /\ OpenFile[o][b] = g)
        BY <1>3
    <2>h. \A o \in Procs : Holds(o, g)' <=> Holds(o, g)
        BY <1>1, <1>3, <1>4 DEF Holds
    <2>u. \A o \in Procs : (pc'[o] = "dup" /\ held'[o] = <<g>>)
                               <=> (pc[o] = "dup" /\ held[o] = <<g>>)
        BY <1>3
    <2>r. /\ ref'[g] = ref[g]
          /\ file'[g].type = file[g].type \/ file[g].type # "DEVICE"
        BY <1>t, <1>2, <1>4
    <2> QED
        BY ZenonT(60), <1>t, <2>n, <2>h, <2>u, <2>r, CountFrame
<1>5. CASE g = f
    <2>1. /\ \A o \in Procs, b \in Fds : OpenFile[o][b] # f
          /\ \A o \in Procs : \A j \in 1..Len(held[o]) :
                 pc[o] \in Holding /\ held[o][j] = f => o = p
        BY <1>1 DEF IInv, HeldInv
    <2>2. Named(f)' = {}
        BY <2>1 DEF Named
    <2>3. Uncounted(f)' = {}
        <3>1. \A o \in Procs : ~(pc[o] = "dup" /\ held[o] = <<f>>)
            BY Zenon, <2>1, Unnamed
        <3> QED
            BY <1>3, <3>1 DEF Uncounted
    <2>4. ~IsHeld(f)'
        <3>1. \A o \in Procs : o # p => (Holds(o, f)' <=> Holds(o, f))
            BY <1>3 DEF Holds
        <3>2. \A o \in Procs : Holds(o, f) => o = p
            BY Zenon, <2>1 DEF Holds
        <3> QED
            BY Zenon, <1>1, <3>1, <3>2 DEF IsHeld
    <2>5. Cardinality(Named(f)') = 0
        BY ZenonT(60), <2>2 DEF FiniteFacts, CardEmpty
    <2>6. ref'[f] = 0
        BY <1>t, <1>1, <1>2
    <2> QED
        BY <1>5, <2>3, <2>4, <2>5, <2>6, OwedNext
<1> QED
    BY <1>4, <1>5

(* sys_dup installs a second descriptor and counts it afterwards.          *)
LEMMA CountDupInstall ==
    ASSUME FiniteFacts, IInv, NEW p \in Procs, NEW d \in Fds, NEW e \in Fds,
           DupInstall(p, d, e)
    PROVE  \A g \in FileIds : CountOf(g)'
<1>t. /\ pc \in [Procs -> Labels] /\ held \in [Procs -> HeldFiles]
      /\ OpenFile \in [Procs -> [Fds -> FileIds \cup {Null}]]
      /\ ref \in [FileIds -> Nat] /\ file \in [FileIds -> FileRecords]
      /\ SysTypes /\ CountInv
    BY Zenon DEF IInv, SysTypes
<1>1. PICK f \in FileIds : f = OpenFile[p][d]
    BY InUse DEF DupInstall
<1>2. /\ pc[p] = "user" /\ OpenFile[p][e] = Null
      /\ OpenFile' = [OpenFile EXCEPT ![p][e] = f]
      /\ held'[p] = <<f>> /\ \A o \in Procs : o # p => held'[o] = held[o]
      /\ pc'[p] = "dup" /\ \A o \in Procs : o # p => pc'[o] = pc[o]
      /\ ref' = ref /\ file' = file
    BY Zenon, <1>t, <1>1 DEF DupInstall, At, Goto, FirstFreeFd, fileVars
<1> SUFFICES ASSUME NEW g \in FileIds PROVE CountOf(g)'
    OBVIOUS
<1>g. g # Null
    BY Constants
<1>h. IsHeld(g)' <=> IsHeld(g)
    BY <1>2 DEF IsHeld, Holds, Holding
<1>3. CASE g # f
    <2>n. \A o \in Procs, b \in Fds :
              (pc'[o] # "unused" /\ OpenFile'[o][b] = g)
                  <=> (pc[o] # "unused" /\ OpenFile[o][b] = g)
        BY <1>t, <1>g, <1>2, <1>3
    <2>h. \A o \in Procs : Holds(o, g)' <=> Holds(o, g)
        BY <1>2 DEF Holds, Holding
    <2>u. \A o \in Procs : (pc'[o] = "dup" /\ held'[o] = <<g>>)
                               <=> (pc[o] = "dup" /\ held[o] = <<g>>)
        <3>1. <<f>> # <<g>>
            BY <1>3
        <3> QED
            BY <1>2, <3>1
    <2>r. /\ ref'[g] = ref[g]
          /\ file'[g].type = file[g].type \/ file[g].type # "DEVICE"
        BY <1>2
    <2> QED
        BY Zenon, <1>t, <2>n, <2>h, <2>u, <2>r, CountFrame
<1>4. CASE g = f
    <2>1. Named(f)' = Named(f) \cup {<<p, e>>}
        <3>1. \A o \in Procs, b \in Fds :
                  <<o, b>> \in Named(f)
                      <=> pc[o] # "unused" /\ OpenFile[o][b] = f
            BY Zenon, Pairs
        <3>2. \A o \in Procs, b \in Fds :
                  <<o, b>> \in Named(f) \cup {<<p, e>>}
                      <=> pc'[o] # "unused" /\ OpenFile'[o][b] = f
            BY Zenon, <1>t, <1>2, <3>1
        <3>3. Named(f) \cup {<<p, e>>} \subseteq Procs \X Fds
            BY Pairs
        <3> QED
            BY ZenonT(60), <3>2, <3>3, NamedBecomes
    <2>2. <<p, e>> \notin Named(f)
        BY <1>2, <1>g, <1>4, Pairs
    <2>3. Cardinality(Named(f)') = Cardinality(Named(f)) + 1
        BY ZenonT(60), <2>1, <2>2, Finite DEF FiniteFacts, CardAdd
    <2>4. Uncounted(f)' = Uncounted(f) \cup {p} /\ p \notin Uncounted(f)
        BY <1>2 DEF Uncounted
    <2>5. Cardinality(Uncounted(f)') = Cardinality(Uncounted(f)) + 1
        BY ZenonT(60), <2>4, Finite DEF FiniteFacts, CardAdd
    <2>6. ref[f] \in Nat /\ ref'[f] = ref[f] + 1 - 1 /\ 1 \in Int
        BY <1>t, <1>2
    <2>7. file'[f].type = file[f].type
        BY <1>2
    <2>8. IsHeld(f)' <=> IsHeld(f)
        BY <1>h, <1>4
    <2>9. CountOf(f)'
        BY ZenonT(60), <1>t, <2>3, <2>5, <2>6, <2>7, <2>8, CountShift
    <2> QED
        BY <1>4, <2>9
<1> QED
    BY <1>3, <1>4

(* sys_dup counts the descriptor it installed.                             *)
LEMMA CountDupCount ==
    ASSUME FiniteFacts, IInv, NEW p \in Procs, DupCount(p)
    PROVE  \A g \in FileIds : CountOf(g)'
<1>t. /\ pc \in [Procs -> Labels] /\ held \in [Procs -> HeldFiles]
      /\ OpenFile \in [Procs -> [Fds -> FileIds \cup {Null}]]
      /\ ref \in [FileIds -> Nat] /\ file \in [FileIds -> FileRecords]
      /\ SysTypes /\ CountInv
    BY Zenon DEF IInv, SysTypes
<1>1. PICK f \in FileIds : /\ f = held[p][1] /\ f = Head(held[p])
                            /\ ref[f] > 0 /\ held[p] = <<f>>
    BY Zenon, InUse, DupHolds DEF DupCount, At
<1>2. /\ ref' = [ref EXCEPT ![f] = @ + 1]
      /\ pc[p] = "dup" /\ pc'[p] = "user"
      /\ \A o \in Procs : o # p => held'[o] = held[o] /\ pc'[o] = pc[o]
      /\ OpenFile' = OpenFile /\ file' = file
    BY Zenon, <1>t, <1>1, DupFile DEF DupCount, At, Goto
<1> SUFFICES ASSUME NEW g \in FileIds PROVE CountOf(g)'
    OBVIOUS
<1>3. CASE g # f
    <2>n. \A o \in Procs, b \in Fds :
              (pc'[o] # "unused" /\ OpenFile'[o][b] = g)
                  <=> (pc[o] # "unused" /\ OpenFile[o][b] = g)
        BY <1>2
    <2>h. \A o \in Procs : Holds(o, g)' <=> Holds(o, g)
        BY <1>2 DEF Holds, Holding
    <2>u. \A o \in Procs : (pc'[o] = "dup" /\ held'[o] = <<g>>)
                               <=> (pc[o] = "dup" /\ held[o] = <<g>>)
        <3>1. <<f>> # <<g>>
            BY <1>3
        <3> QED
            BY <1>1, <1>2, <3>1
    <2>r. /\ ref'[g] = ref[g]
          /\ file'[g].type = file[g].type \/ file[g].type # "DEVICE"
        BY <1>t, <1>2, <1>3
    <2> QED
        BY ZenonT(60), <1>t, <2>n, <2>h, <2>u, <2>r, CountFrame
<1>4. CASE g = f
    <2>1. Named(f)' = Named(f)
        BY <1>2 DEF Named
    <2>2. Cardinality(Named(f)') = Cardinality(Named(f)) + 0
        BY <2>1, Finite
    <2>3. Uncounted(f)' = Uncounted(f) \ {p} /\ p \in Uncounted(f)
        BY Zenon, <1>1, <1>2 DEF Uncounted
    <2>4. Cardinality(Uncounted(f)') = Cardinality(Uncounted(f)) - 1
        BY ZenonT(60), <2>3, Finite DEF FiniteFacts, CardRemove
    <2>5. /\ Cardinality(Uncounted(f)') = Cardinality(Uncounted(f)) + (-1)
          /\ ref[f] \in Nat /\ ref'[f] = ref[f] + 0 - (-1)
          /\ 0 \in Int /\ -1 \in Int /\ file'[f].type = file[f].type
        BY <1>t, <1>2, <2>4, Finite
    <2>6. IsHeld(f)' <=> IsHeld(f)
        BY <1>2 DEF IsHeld, Holds, Holding
    <2>7. CountOf(f)'
        BY ZenonT(60), <1>t, <2>2, <2>5, <2>6, CountShift
    <2> QED
        BY <1>4, <2>7
<1> QED
    BY <1>3, <1>4

(* allocateProcess counts the standard descriptors of a child, whose other *)
(* descriptors are closed.                                                 *)
LEMMA CountAllocate ==
    ASSUME FiniteFacts, IInv, NEW p \in Procs, NEW q \in Procs,
           NEW f \in FileIds,
           ForkAllocate(p, q, f)
    PROVE  \A g \in FileIds : CountOf(g)'
<1>t. /\ pc \in [Procs -> Labels] /\ held \in [Procs -> HeldFiles]
      /\ OpenFile \in [Procs -> [Fds -> FileIds \cup {Null}]]
      /\ ref \in [FileIds -> Nat] /\ file \in [FileIds -> FileRecords]
      /\ SysTypes /\ CountInv
    BY Zenon DEF IInv, SysTypes
<1>1. /\ pc[p] = "user" /\ pc[q] = "unused" /\ FirstFreeFile(f)
      /\ pc' = [pc EXCEPT ![p] = "copy", ![q] = "embryo"]
      /\ ref' = [ref EXCEPT ![f] = Cardinality(StdFds)]
      /\ file' = [file EXCEPT ![f] = Console] /\ held' = held
      /\ \A o \in Procs : o # q => OpenFile'[o] = OpenFile[o]
      /\ \A b \in Fds : OpenFile'[q][b] = IF b \in StdFds THEN f
                                                         ELSE OpenFile[q][b]
    BY ZenonT(60), <1>t DEF ForkAllocate, ForkGot, At
<1>2. \A b \in Fds : b \notin StdFds => OpenFile'[q][b] = Null
    BY <1>1 DEF IInv, FreshInv, Fresh
<1> SUFFICES ASSUME NEW g \in FileIds PROVE CountOf(g)'
    OBVIOUS
<1>g. g # Null
    BY Constants
<1>3. CASE g # f
    <2>n. \A o \in Procs, b \in Fds :
              (pc'[o] # "unused" /\ OpenFile'[o][b] = g)
                  <=> (pc[o] # "unused" /\ OpenFile[o][b] = g)
        BY <1>t, <1>g, <1>1, <1>2, <1>3
    <2>h. \A o \in Procs : Holds(o, g)' <=> Holds(o, g)
        BY <1>t, <1>1 DEF Holds, Holding
    <2>u. \A o \in Procs : (pc'[o] = "dup" /\ held'[o] = <<g>>)
                               <=> (pc[o] = "dup" /\ held[o] = <<g>>)
        BY <1>t, <1>1
    <2>r. /\ ref'[g] = ref[g]
          /\ file'[g].type = file[g].type \/ file[g].type # "DEVICE"
        BY <1>t, <1>1, <1>3
    <2> QED
        BY ZenonT(60), <1>t, <2>n, <2>h, <2>u, <2>r, CountFrame
<1>4. CASE g = f
    <2>1. /\ Uncounted(f) = {} /\ ~IsHeld(f)
          /\ \A o \in Procs, b \in Fds : OpenFile[o][b] # f
        BY Zenon, <1>1, FreeCount
    <2>2. Named(f)' = {q} \X StdFds
        <3>1. {q} \X StdFds \subseteq Procs \X Fds
            BY ZenonT(60), Constants
        <3>2. \A o \in Procs, b \in Fds :
                  <<o, b>> \in {q} \X StdFds
                      <=> pc'[o] # "unused" /\ OpenFile'[o][b] = f
            BY <1>t, <1>1, <1>2, <1>g, <1>4, <2>1
        <3> DEFINE X == {q} \X StdFds
        <3> HIDE DEF X
        <3>3. /\ X \subseteq Procs \X Fds
              /\ \A o \in Procs, b \in Fds :
                     <<o, b>> \in X <=> pc'[o] # "unused" /\ OpenFile'[o][b] = f
            BY <3>1, <3>2 DEF X
        <3>4. Named(f)' = X
            BY Zenon, <3>3, NamedBecomes
        <3> QED
            BY <3>4 DEF X
    <2>3. Cardinality(Named(f)') = Cardinality(StdFds)
        <3>1. IsFiniteSet({q}) /\ Cardinality({q}) = 1
            BY Zenon DEF FiniteFacts, CardSingleton
        <3>2. Cardinality({q} \X StdFds) = Cardinality({q}) * Cardinality(StdFds)
            BY Zenon, <3>1, Constants DEF FiniteFacts, CardProduct, CardTables
        <3> QED
            BY <2>2, <3>1, <3>2 DEF FiniteFacts, CardTables
    <2>4. Uncounted(f)' = {} /\ ~IsHeld(f)'
        BY Zenon, <1>t, <1>1, <2>1 DEF Uncounted, IsHeld, Holds, Holding
    <2>5. ref'[f] = Cardinality(StdFds) /\ Cardinality(StdFds) \in Nat
        BY <1>t, <1>1 DEF FiniteFacts, CardTables
    <2> QED
        BY <1>4, <2>3, <2>4, <2>5, OwedNext
<1> QED
    BY <1>3, <1>4

(* A child without a console names nothing.                                *)
LEMMA CountNullFile ==
    ASSUME IInv, NEW p \in Procs, NEW q \in Procs, ForkNullFile(p, q)
    PROVE  \A g \in FileIds : CountOf(g)'
<1>t. /\ pc \in [Procs -> Labels] /\ held \in [Procs -> HeldFiles]
      /\ OpenFile \in [Procs -> [Fds -> FileIds \cup {Null}]]
      /\ ref \in [FileIds -> Nat] /\ file \in [FileIds -> FileRecords]
      /\ SysTypes /\ CountInv
    BY Zenon DEF IInv, SysTypes
<1>1. pc[p] = "user" /\ pc[q] = "unused" /\ UNCHANGED <<ref, file, held>>
    BY Zenon DEF ForkNullFile, At, fileVars
<1>2. \A b \in Fds : b \notin StdFds => OpenFile[q][b] = Null
    BY <1>1 DEF IInv, FreshInv, Fresh
<1> SUFFICES ASSUME NEW g \in FileIds PROVE CountOf(g)'
    OBVIOUS
<1>g. g # Null
    BY Constants
<1>3. CASE UNCHANGED <<OpenFile, pc>>
    <2>n. \A o \in Procs, b \in Fds :
              (pc'[o] # "unused" /\ OpenFile'[o][b] = g)
                  <=> (pc[o] # "unused" /\ OpenFile[o][b] = g)
        BY <1>3
    <2>h. \A o \in Procs : Holds(o, g)' <=> Holds(o, g)
        BY <1>1, <1>3 DEF Holds
    <2>u. \A o \in Procs : (pc'[o] = "dup" /\ held'[o] = <<g>>)
                               <=> (pc[o] = "dup" /\ held[o] = <<g>>)
        BY <1>1, <1>3
    <2>r. /\ ref'[g] = ref[g]
          /\ file'[g].type = file[g].type \/ file[g].type # "DEVICE"
        BY <1>1
    <2> QED
        BY Zenon, <1>t, <2>n, <2>h, <2>u, <2>r, CountFrame
<1>4. CASE /\ ForkGot(p, q)
           /\ OpenFile' = [OpenFile EXCEPT ![q] =
                              [d \in Fds |-> IF d \in StdFds THEN Null ELSE @[d]]]
    <2>1. /\ pc' = [pc EXCEPT ![p] = "copy", ![q] = "embryo"]
          /\ \A o \in Procs : o # q => OpenFile'[o] = OpenFile[o]
          /\ \A b \in Fds : OpenFile'[q][b] = Null
        BY <1>t, <1>2, <1>4 DEF ForkGot
    <2>n. \A o \in Procs, b \in Fds :
              (pc'[o] # "unused" /\ OpenFile'[o][b] = g)
                  <=> (pc[o] # "unused" /\ OpenFile[o][b] = g)
        BY <1>t, <1>g, <1>1, <2>1
    <2>h. \A o \in Procs : Holds(o, g)' <=> Holds(o, g)
        BY <1>t, <1>1, <2>1 DEF Holds, Holding
    <2>u. \A o \in Procs : (pc'[o] = "dup" /\ held'[o] = <<g>>)
                               <=> (pc[o] = "dup" /\ held[o] = <<g>>)
        BY <1>t, <1>1, <2>1
    <2>r. /\ ref'[g] = ref[g]
          /\ file'[g].type = file[g].type \/ file[g].type # "DEVICE"
        BY <1>1
    <2> QED
        BY Zenon, <1>t, <2>n, <2>h, <2>u, <2>r, CountFrame
<1> QED
    BY <1>3, <1>4 DEF ForkNullFile

(* fork() gives up a child that has nothing but a console of its own.      *)
LEMMA CountNoMemory ==
    ASSUME FiniteFacts, IInv, NEW p \in Procs, ForkNoMemory(p)
    PROVE  \A g \in FileIds : CountOf(g)'
<1>t. /\ pc \in [Procs -> Labels] /\ held \in [Procs -> HeldFiles]
      /\ OpenFile \in [Procs -> [Fds -> FileIds \cup {Null}]]
      /\ ref \in [FileIds -> Nat] /\ file \in [FileIds -> FileRecords]
      /\ SysTypes /\ CountInv
    BY Zenon DEF IInv, SysTypes
<1>1. PICK n \in Procs : n = np[p] /\ pc[n] = "embryo"
    BY Zenon DEF ForkNoMemory, At, IInv, ForkInv, Forking
<1>2. /\ pc[p] = "copy" /\ pc' = [pc EXCEPT ![p] = "user", ![n] = "unused"]
      /\ UNCHANGED <<ref, file, OpenFile, held>>
    BY Zenon, <1>1 DEF ForkNoMemory, At, fileVars
<1>3. Fresh(n)
    BY <1>1, <1>2 DEF Fresh
<1> SUFFICES ASSUME NEW g \in FileIds PROVE CountOf(g)'
    OBVIOUS
<1>g. g # Null
    BY Constants
<1>4. CASE \A b \in Fds : OpenFile[n][b] # g
    <2>n. \A o \in Procs, b \in Fds :
              (pc'[o] # "unused" /\ OpenFile'[o][b] = g)
                  <=> (pc[o] # "unused" /\ OpenFile[o][b] = g)
        BY <1>t, <1>1, <1>2, <1>4
    <2>h. \A o \in Procs : Holds(o, g)' <=> Holds(o, g)
        BY <1>t, <1>1, <1>2 DEF Holds, Holding
    <2>u. \A o \in Procs : (pc'[o] = "dup" /\ held'[o] = <<g>>)
                               <=> (pc[o] = "dup" /\ held[o] = <<g>>)
        BY <1>t, <1>1, <1>2
    <2>r. /\ ref'[g] = ref[g]
          /\ file'[g].type = file[g].type \/ file[g].type # "DEVICE"
        BY <1>2
    <2> QED
        BY Zenon, <1>t, <2>n, <2>h, <2>u, <2>r, CountFrame
<1>5. CASE \E b \in Fds : OpenFile[n][b] = g
    <2>1. file'[g].type = "DEVICE"
        BY <1>2, <1>3, <1>5, <1>g DEF IInv, FreshInv
    <2>2. Named(g)' \subseteq Named(g)
        BY <1>t, <1>1, <1>2 DEF Named
    <2>3. Uncounted(g)' = Uncounted(g)
        BY <1>t, <1>1, <1>2 DEF Uncounted
    <2>4. IsHeld(g)' <=> IsHeld(g)
        BY ZenonT(60), <1>t, <1>1, <1>2 DEF IsHeld, Holds, Holding
    <2>5. ref[g] \in Nat /\ ref'[g] \in Nat /\ ref'[g] >= ref[g]
        BY <1>t, <1>2
    <2> QED
        BY ZenonT(60), <1>t, <2>1, <2>2, <2>3, <2>4, <2>5, CountLess
<1> QED
    BY <1>4, <1>5

(* fork() copies a descriptor, perhaps over the child's console.           *)
LEMMA CountForkDup ==
    ASSUME FiniteFacts, IInv, NEW p \in Procs, ForkDup(p)
    PROVE  \A g \in FileIds : CountOf(g)'
<1>t. /\ pc \in [Procs -> Labels] /\ held \in [Procs -> HeldFiles]
      /\ OpenFile \in [Procs -> [Fds -> FileIds \cup {Null}]]
      /\ ref \in [FileIds -> Nat] /\ file \in [FileIds -> FileRecords]
      /\ SysTypes /\ CountInv
    BY Zenon DEF IInv, SysTypes
<1>1. PICK n \in Procs : n = np[p] /\ pc[n] = "embryo"
    BY Zenon DEF ForkDup, At, IInv, ForkInv, Forking
<1>2. pc[p] = "fork" /\ UNCHANGED <<file, pc, held>>
    BY Zenon DEF ForkDup, At
<1>3. PICK d \in Fds : /\ d \in left[p] /\ fileDup(OpenFile[p][d])
                      /\ OpenFile' = [OpenFile EXCEPT ![n][d] = OpenFile[p][d]]
    BY ZenonT(60), <1>1 DEF ForkDup, Lowest
<1>4. /\ OpenFile[p][d] # Null
      /\ OpenFile[n][d] # Null => file[OpenFile[n][d]].type = "DEVICE"
    BY <1>1, <1>2, <1>3 DEF IInv, ForkInv, Forking
<1>5. PICK f \in FileIds : f = OpenFile[p][d] /\ ref[f] > 0
    BY <1>4, InUse
<1>6. /\ ref' = [ref EXCEPT ![f] = @ + 1]
      /\ OpenFile' = [OpenFile EXCEPT ![n][d] = f]
    BY <1>t, <1>3, <1>5, DupFile
<1> SUFFICES ASSUME NEW g \in FileIds PROVE CountOf(g)'
    OBVIOUS
<1>g. g # Null
    BY Constants
<1>h. Uncounted(g)' = Uncounted(g) /\ (IsHeld(g)' <=> IsHeld(g))
    BY <1>2 DEF Uncounted, IsHeld, Holds
<1>r. /\ ref[g] \in Nat /\ ref'[g] \in Nat /\ ref'[g] >= ref[g]
      /\ g = f => ref'[g] = ref[g] + 1
      /\ g # f => ref'[g] = ref[g]
    BY <1>t, <1>6
<1>7. CASE g # f /\ OpenFile[n][d] # g
    <2>n. \A o \in Procs, b \in Fds :
              (pc'[o] # "unused" /\ OpenFile'[o][b] = g)
                  <=> (pc[o] # "unused" /\ OpenFile[o][b] = g)
        BY <1>t, <1>2, <1>6, <1>7
    <2>h. \A o \in Procs : Holds(o, g)' <=> Holds(o, g)
        BY <1>2 DEF Holds
    <2>u. \A o \in Procs : (pc'[o] = "dup" /\ held'[o] = <<g>>)
                               <=> (pc[o] = "dup" /\ held[o] = <<g>>)
        BY <1>2
    <2>r. /\ ref'[g] = ref[g]
          /\ file'[g].type = file[g].type \/ file[g].type # "DEVICE"
        BY <1>2, <1>7, <1>r
    <2> QED
        BY ZenonT(60), <1>t, <2>n, <2>h, <2>u, <2>r, CountFrame
<1>8. CASE OpenFile[n][d] = g
    <2>1. file'[g].type = "DEVICE"
        BY <1>2, <1>4, <1>8, <1>g
    <2>2. Named(g)' \subseteq Named(g)
        BY <1>t, <1>2, <1>6, <1>8 DEF Named
    <2> QED
        BY ZenonT(60), <1>t, <1>h, <1>r, <2>1, <2>2, CountLess
<1>9. CASE g = f /\ OpenFile[n][d] # g
    <2>1. Named(g)' = Named(g) \cup {<<n, d>>}
        <3>1. \A o \in Procs, b \in Fds :
                  <<o, b>> \in Named(g)
                      <=> pc[o] # "unused" /\ OpenFile[o][b] = g
            BY Zenon, Pairs
        <3>2. \A o \in Procs, b \in Fds :
                  <<o, b>> \in Named(g) \cup {<<n, d>>}
                      <=> pc'[o] # "unused" /\ OpenFile'[o][b] = g
            BY Zenon, <1>t, <1>1, <1>2, <1>6, <1>9, <3>1
        <3>3. Named(g) \cup {<<n, d>>} \subseteq Procs \X Fds
            BY Pairs
        <3> QED
            BY ZenonT(60), <3>2, <3>3, NamedBecomes
    <2>2. <<n, d>> \notin Named(g)
        BY <1>9, Pairs
    <2>3. Cardinality(Named(g)') = Cardinality(Named(g)) + 1
        BY ZenonT(60), <2>1, <2>2, Finite DEF FiniteFacts, CardAdd
    <2>4. /\ Cardinality(Uncounted(g)') = Cardinality(Uncounted(g)) + 0
          /\ ref'[g] = ref[g] + 1 - 0 /\ file'[g].type = file[g].type
          /\ 1 \in Int /\ 0 \in Int
        BY <1>2, <1>9, <1>h, <1>r, Finite
    <2> QED
        BY ZenonT(60), <1>t, <1>h, <1>r, <2>3, <2>4, CountShift
<1> QED
    BY <1>7, <1>8, <1>9

(* sys_pipe installs the two Files it holds, or goes on to close them.     *)
LEMMA CountPipeMake ==
    ASSUME FiniteFacts, IInv, NEW p \in Procs, NEW k \in Pipes, PipeMake(p, k)
    PROVE  \A g \in FileIds : CountOf(g)'
<1>t. /\ pc \in [Procs -> Labels] /\ held \in [Procs -> HeldFiles]
      /\ OpenFile \in [Procs -> [Fds -> FileIds \cup {Null}]]
      /\ ref \in [FileIds -> Nat] /\ file \in [FileIds -> FileRecords]
      /\ SysTypes /\ CountInv
    BY Zenon DEF IInv, SysTypes
<1>1. pc[p] = "page" /\ ref' = ref
    BY Zenon DEF PipeMake, At
<1>2. PICK rf \in FileIds, wf \in FileIds :
          rf = held[p][1] /\ wf = held[p][2]
    BY <1>1, PipeFiles
<1>3. /\ pc[p] \in Holding /\ Len(held[p]) = 2
      /\ 1 \in 1..Len(held[p]) /\ 2 \in 1..Len(held[p])
      /\ rf # wf /\ ref[rf] = 1 /\ ref[wf] = 1
      /\ file[rf].type = "NONE" /\ file[wf].type = "NONE"
      /\ \A o \in Procs, b \in Fds : OpenFile[o][b] # rf /\ OpenFile[o][b] # wf
    BY <1>1, <1>2, PipeFiles, Records
<1>4. \A g \in FileIds : file'[g].type = file[g].type \/ file[g].type # "DEVICE"
    BY <1>t, <1>2, <1>3 DEF PipeMake
<1>5. CASE Goto(p, "close") /\ UNCHANGED <<OpenFile, held>>
    <2>1. /\ pc'[p] = "close" /\ pc'[p] \in Holding
          /\ \A o \in Procs : o # p => pc'[o] = pc[o]
        BY <1>t, <1>5 DEF Goto, Holding
    <2> SUFFICES ASSUME NEW g \in FileIds PROVE CountOf(g)'
        OBVIOUS
    <2>n. \A o \in Procs, b \in Fds :
              (pc'[o] # "unused" /\ OpenFile'[o][b] = g)
                  <=> (pc[o] # "unused" /\ OpenFile[o][b] = g)
        BY Zenon, <1>1, <1>5, <2>1
    <2>h. \A o \in Procs : Holds(o, g)' <=> Holds(o, g)
        BY Zenon, <1>3, <1>5, <2>1 DEF Holds
    <2>u. \A o \in Procs : (pc'[o] = "dup" /\ held'[o] = <<g>>)
                               <=> (pc[o] = "dup" /\ held[o] = <<g>>)
        BY <1>1, <1>5, <2>1
    <2>r. /\ ref'[g] = ref[g]
          /\ file'[g].type = file[g].type \/ file[g].type # "DEVICE"
        BY <1>1, <1>4
    <2> QED
        BY Zenon, <1>t, <2>n, <2>h, <2>u, <2>r, CountFrame
<1>6. CASE /\ \E d, e \in FreeFds(p) :
                  d < e /\ OpenFile' = [OpenFile EXCEPT ![p][d] = rf,
                                                       ![p][e] = wf]
           /\ held' = [held EXCEPT ![p] = <<>>] /\ Goto(p, "user")
    <2>a. PICK d \in FreeFds(p), e \in FreeFds(p) :
              d < e /\ OpenFile' = [OpenFile EXCEPT ![p][d] = rf, ![p][e] = wf]
        BY Zenon, <1>6
    <2>1. /\ d \in Fds /\ OpenFile[p][d] = Null
          /\ e \in Fds /\ OpenFile[p][e] = Null
          /\ d # e
        <3>1. \A c \in FreeFds(p) : c \in Fds /\ OpenFile[p][c] = Null /\ c \in Int
            BY Constants DEF FreeFds
        <3> QED
            BY <2>a, <3>1
    <2>2. /\ pc'[p] = "user" /\ "user" \notin Holding
          /\ \A o \in Procs : o # p => pc'[o] = pc[o] /\ held'[o] = held[o]
        BY <1>t, <1>6 DEF Goto, Holding
    <2>3. /\ OpenFile'[p][d] = rf /\ OpenFile'[p][e] = wf
          /\ \A o \in Procs, b \in Fds :
                 ~(o = p /\ b \in {d, e}) => OpenFile'[o][b] = OpenFile[o][b]
        BY <1>t, <2>a, <2>1
    <2>4. \A h \in FileIds : Holds(p, h) <=> h \in {rf, wf}
        <3>1. \A i \in 1..2 : i = 1 \/ i = 2
            OBVIOUS
        <3> QED
            BY <1>2, <1>3, <3>1 DEF Holds
    <2>5. /\ \A h \in FileIds : ~Holds(p, h)'
          /\ \A o \in Procs : o # p =>
                 \A h \in FileIds : Holds(o, h)' <=> Holds(o, h)
        BY Zenon, <2>2 DEF Holds
    <2>6. \A o \in Procs : ~Holds(o, rf)' /\ ~Holds(o, wf)'
        <3>1. ASSUME NEW o \in Procs, NEW i \in 1..2, Holds(o, held[p][i])
              PROVE  o = p
            BY <1>3, <3>1 DEF IInv, HeldInv, Holds
        <3>2. 1 \in 1..2 /\ 2 \in 1..2
            OBVIOUS
        <3> QED
            BY <1>2, <2>5, <3>1, <3>2
    <2>7. ASSUME NEW f \in {rf, wf}, NEW b \in Fds,
                 \A o \in Procs, c \in Fds :
                     OpenFile'[o][c] = f <=> o = p /\ c = b
          PROVE  CountOf(f)'
        <3>1. {<<p, b>>} \subseteq Procs \X Fds
            OBVIOUS
        <3>2. \A o \in Procs, c \in Fds :
                  <<o, c>> \in {<<p, b>>}
                      <=> pc'[o] # "unused" /\ OpenFile'[o][c] = f
            BY Zenon, <2>2, <2>7
        <3>3. Named(f)' = {<<p, b>>}
            BY Zenon, <3>1, <3>2, NamedBecomes
        <3>4. Cardinality(Named(f)') = 1
            BY ZenonT(60), <3>3 DEF FiniteFacts, CardSingleton
        <3>5. Uncounted(f)' = {}
            BY <1>3, <2>2, Unnamed DEF Uncounted
        <3>6. ~IsHeld(f)'
            BY <2>6 DEF IsHeld
        <3>7. f \in FileIds /\ ref'[f] = 1
            BY <1>1, <1>3
        <3> QED
            BY <3>4, <3>5, <3>6, <3>7, OwedNext
    <2>8. CountOf(rf)' /\ CountOf(wf)'
        <3>1. /\ \A o \in Procs, c \in Fds :
                     OpenFile'[o][c] = rf <=> o = p /\ c = d
              /\ \A o \in Procs, c \in Fds :
                     OpenFile'[o][c] = wf <=> o = p /\ c = e
            BY <1>3, <2>1, <2>3
        <3> QED
            BY ZenonT(60), <2>1, <2>7, <3>1
    <2>9. ASSUME NEW g \in FileIds, g # rf, g # wf PROVE CountOf(g)'
        <3>n. \A o \in Procs, b \in Fds :
                  (pc'[o] # "unused" /\ OpenFile'[o][b] = g)
                      <=> (pc[o] # "unused" /\ OpenFile[o][b] = g)
            BY <1>1, <2>1, <2>2, <2>3, <2>9, Constants
        <3>h. \A o \in Procs : Holds(o, g)' <=> Holds(o, g)
            BY <2>4, <2>5, <2>9
        <3>u. \A o \in Procs : (pc'[o] = "dup" /\ held'[o] = <<g>>)
                                   <=> (pc[o] = "dup" /\ held[o] = <<g>>)
            BY <1>1, <2>2
        <3>r. /\ ref'[g] = ref[g]
              /\ file'[g].type = file[g].type \/ file[g].type # "DEVICE"
            BY <1>1, <1>4
        <3> QED
            BY ZenonT(60), <1>t, <3>n, <3>h, <3>u, <3>r, CountFrame
    <2> QED
        BY <2>8, <2>9
<1> QED
    BY Zenon, <1>2, <1>5, <1>6 DEF PipeMake

(* Every step keeps CountInv.                                               *)
LEMMA CountStep ==
    ASSUME FiniteFacts, IInv, [Step]_sysVars
    PROVE  CountInv'
<1>t. /\ pc \in [Procs -> Labels] /\ held \in [Procs -> HeldFiles]
      /\ OpenFile \in [Procs -> [Fds -> FileIds \cup {Null}]]
      /\ np \in [Procs -> Procs \cup {Null}]
      /\ ref \in [FileIds -> Nat] /\ file \in [FileIds -> FileRecords]
      /\ SysTypes /\ CountInv
    BY Zenon DEF IInv, SysTypes
<1> SUFFICES ASSUME NEW g \in FileIds PROVE CountOf(g)'
    BY Zenon DEF CountInv
<1>1. ASSUME NEW p \in Procs, PipeClose(p)
       PROVE  CountOf(g)'
    <2>1. /\ UNCHANGED <<ref, file, OpenFile>>
          /\ \A o \in Procs : SameCall(o)
        BY Zenon, <1>1, <1>t DEF PipeClose, At, Goto, SameCall, Holding,
           fileVars,
           callVars
    <2> QED
        BY ZenonT(60), <1>t, <2>1, CountSame
<1>2. ASSUME NEW p \in Procs, DupCount(p)
       PROVE  CountOf(g)'
    <2>1. \A h \in FileIds : CountOf(h)'
        BY ZenonT(60), <1>2, CountDupCount
    <2> QED
        BY Zenon, <2>1
<1>3. ASSUME NEW p \in Procs, PipeFail(p)
       PROVE  CountOf(g)'
    <2>1. /\ UNCHANGED <<ref, file, OpenFile>>
          /\ \A o \in Procs : SameCall(o)
        BY Zenon, <1>3, <1>t DEF PipeFail, At, Goto, SameCall, Holding,
           fileVars,
           callVars
    <2> QED
        BY Zenon, <1>t, <2>1, CountSame
<1>4. ASSUME NEW p \in Procs, CloseHeld(p)
       PROVE  CountOf(g)'
    <2> DEFINE l == IF Len(held[p]) = 1 THEN "user" ELSE "close"
    <2>1. /\ pc[p] = "close" /\ pc[p] \in Holding /\ fileClose(p, Head(held[p]))
          /\ l \in Labels \ {"unused", "dup"} /\ Goto(p, l)
          /\ held'[p] = Tail(held[p])
          /\ \A o \in Procs : o # p => held'[o] = held[o]
          /\ OpenFile' = OpenFile
        BY ZenonT(60), <1>4, <1>t DEF CloseHeld, At, Holding, Labels
    <2>2. pc'[p] = l /\ Len(held[p]) \in {1, 2} /\ held[p] \in HeldFiles
        BY <1>t, <2>1 DEF IInv, CallInv, Goto
    <2>3. \A h \in FileIds : Holds(p, h)' <=> Holds(p, h) /\ h # held[p][1]
        <3>1. pc'[p] \in Holding <=> Len(held[p]) = 2
            BY <2>2 DEF Holding
        <3> HIDE DEF l
        <3> QED
            BY ZenonT(60), <2>1, <2>2, <3>1, HoldsRest
    <2> HIDE DEF l
    <2>4. \A h \in FileIds : CountOf(h)'
        BY ZenonT(60), <2>1, <2>3, CountRelease
    <2> QED
        BY Zenon, <2>4
<1>5. ASSUME NEW p \in Procs, ForkNoMemory(p)
       PROVE  CountOf(g)'
    <2>1. \A h \in FileIds : CountOf(h)'
        BY Zenon, <1>5, CountNoMemory
    <2> QED
        BY Zenon, <2>1
<1>6. ASSUME NEW p \in Procs, ForkCopied(p)
       PROVE  CountOf(g)'
    <2>1. /\ UNCHANGED <<ref, file, OpenFile>>
          /\ \A o \in Procs : SameCall(o)
        BY ZenonT(60), <1>6, <1>t DEF ForkCopied, At, Goto, SameCall, Holding,
           fileVars,
           callVars
    <2> QED
        BY Zenon, <1>t, <2>1, CountSame
<1>7. ASSUME NEW p \in Procs, ForkDup(p)
       PROVE  CountOf(g)'
    <2>1. \A h \in FileIds : CountOf(h)'
        BY Zenon, <1>7, CountForkDup
    <2> QED
        BY Zenon, <2>1
<1>8. ASSUME NEW p \in Procs, ForkPublish(p)
       PROVE  CountOf(g)'
    <2>p. np[p] \in Procs /\ pc[np[p]] = "embryo"
        BY Zenon, <1>8 DEF ForkPublish, At, IInv, ForkInv, Forking
    <2>n. \A o \in Procs, b \in Fds :
              (pc'[o] # "unused" /\ OpenFile'[o][b] = g)
                  <=> (pc[o] # "unused" /\ OpenFile[o][b] = g)
        BY Zenon, <1>8, <1>t, <2>p DEF ForkPublish, At
    <2>h. \A o \in Procs : Holds(o, g)' <=> Holds(o, g)
        BY Zenon, <1>8, <1>t, <2>p DEF ForkPublish, At, Holds, Holding
    <2>u. \A o \in Procs : (pc'[o] = "dup" /\ held'[o] = <<g>>)
                               <=> (pc[o] = "dup" /\ held[o] = <<g>>)
        BY ZenonT(60), <1>8, <1>t, <2>p DEF ForkPublish, At
    <2>r. /\ ref'[g] = ref[g]
          /\ file'[g].type = file[g].type \/ file[g].type # "DEVICE"
        BY <1>8 DEF ForkPublish, fileVars
    <2> QED
        BY ZenonT(60), <1>t, <2>n, <2>h, <2>u, <2>r, CountFrame
<1>9. ASSUME NEW p \in Procs, Exit(p)
       PROVE  CountOf(g)'
    <2>1. /\ UNCHANGED <<ref, file, OpenFile>>
          /\ \A o \in Procs : SameCall(o)
        BY Zenon, <1>9, <1>t DEF Exit, At, Goto, SameCall, Holding, fileVars,
           callVars
    <2> QED
        BY Zenon, <1>t, <2>1, CountSame
<1>10. ASSUME NEW p \in Procs, ExitClose(p)
       PROVE  CountOf(g)'
    <2>1. PICK d \in Fds : /\ OpenFile[p][d] # Null
                          /\ OpenFile' = [OpenFile EXCEPT ![p][d] = Null]
                          /\ fileClose(p, OpenFile[p][d])
        BY Zenon, <1>10 DEF ExitClose, Lowest, OpenFds
    <2>2. pc[p] \in {"user", "exit"} /\ UNCHANGED <<pc, held>>
        BY Zenon, <1>10 DEF ExitClose, At
    <2>3. \A h \in FileIds : CountOf(h)'
        BY ZenonT(60), <2>1, <2>2, CountClose
    <2> QED
        BY Zenon, <2>3
<1>11. ASSUME NEW p \in Procs, ExitDone(p)
       PROVE  CountOf(g)'
    <2>p. \A b \in Fds : OpenFile[p][b] # g
        BY <1>11, Constants DEF ExitDone, OpenFds
    <2>n. \A o \in Procs, b \in Fds :
              (pc'[o] # "unused" /\ OpenFile'[o][b] = g)
                  <=> (pc[o] # "unused" /\ OpenFile[o][b] = g)
        BY Zenon, <1>11, <1>t, <2>p DEF ExitDone, At, Goto
    <2>h. \A o \in Procs : Holds(o, g)' <=> Holds(o, g)
        BY Zenon, <1>11, <1>t DEF ExitDone, At, Goto, Holds, Holding
    <2>u. \A o \in Procs : (pc'[o] = "dup" /\ held'[o] = <<g>>)
                               <=> (pc[o] = "dup" /\ held[o] = <<g>>)
        BY ZenonT(60), <1>11, <1>t DEF ExitDone, At, Goto
    <2>r. /\ ref'[g] = ref[g]
          /\ file'[g].type = file[g].type \/ file[g].type # "DEVICE"
        BY <1>11 DEF ExitDone, fileVars
    <2> QED
        BY Zenon, <1>t, <2>n, <2>h, <2>u, <2>r, CountFrame
<1>12. ASSUME NEW p \in Procs, ExecFail(p)
       PROVE  CountOf(g)'
    <2>1. /\ UNCHANGED <<ref, file, OpenFile>>
          /\ \A o \in Procs : SameCall(o)
        BY Zenon, <1>12, <1>t DEF ExecFail, At, Goto, SameCall, Holding,
           fileVars,
           callVars
    <2> QED
        BY Zenon, <1>t, <2>1, CountSame
<1>13. ASSUME NEW p \in Procs, ExecLoaded(p)
       PROVE  CountOf(g)'
    <2>1. /\ pc[p] = "exec" /\ pc[p] \in Holding /\ fileClose(p, Head(held[p]))
          /\ "stack" \in Labels \ {"unused", "dup"} /\ Goto(p, "stack")
          /\ UNCHANGED <<held, OpenFile>>
        BY Zenon, <1>13 DEF ExecLoaded, At, Holding, Labels
    <2>2. Len(held[p]) = 1 /\ pc'[p] \notin Holding
        BY <1>t, <2>1 DEF IInv, CallInv, Goto, Holding
    <2>3. \A i \in 1..1 : i = 1
        OBVIOUS
    <2>4. \A h \in FileIds : Holds(p, h)' <=> Holds(p, h) /\ h # held[p][1]
        BY <2>2, <2>3 DEF Holds
    <2>5. \A o \in Procs : o # p => held'[o] = held[o]
        BY <2>1
    <2>6. \A h \in FileIds : CountOf(h)'
        BY ZenonT(60), <2>1, <2>4, <2>5, CountRelease
    <2> QED
        BY Zenon, <2>6
<1>14. ASSUME NEW p \in Procs, ExecDone(p)
       PROVE  CountOf(g)'
    <2>1. /\ UNCHANGED <<ref, file, OpenFile>>
          /\ \A o \in Procs : SameCall(o)
        BY Zenon, <1>14, <1>t DEF ExecDone, At, Goto, SameCall, Holding,
           fileVars,
           callVars
    <2> QED
        BY Zenon, <1>t, <2>1, CountSame
<1>15. ASSUME NEW p \in Procs, NEW d \in Fds, sys_close(p, d)
       PROVE  CountOf(g)'
    <2>1. /\ pc[p] \in {"user", "exit"} /\ OpenFile[p][d] # Null
          /\ OpenFile' = [OpenFile EXCEPT ![p][d] = Null]
          /\ fileClose(p, OpenFile[p][d]) /\ UNCHANGED <<pc, held>>
        BY Zenon, <1>15 DEF sys_close, At
    <2>2. \A h \in FileIds : CountOf(h)'
        BY Zenon, <2>1, CountClose
    <2> QED
        BY Zenon, <2>2
<1>16. ASSUME NEW p \in Procs, NEW d \in Fds, sys_read(p, d)
       PROVE  CountOf(g)'
    <2>1. /\ UNCHANGED <<ref, file, OpenFile>>
          /\ \A o \in Procs : SameCall(o)
        BY ZenonT(60), <1>16, <1>t DEF sys_read, At, Goto, SameCall, Holding,
           fileVars,
           callVars
    <2> QED
        BY ZenonT(60), <1>t, <2>1, CountSame
<1>17. ASSUME NEW p \in Procs, NEW d \in Fds, sys_write(p, d)
       PROVE  CountOf(g)'
    <2>1. /\ UNCHANGED <<ref, file, OpenFile>>
          /\ \A o \in Procs : SameCall(o)
        BY Zenon, <1>17, <1>t DEF sys_write, At, Goto, SameCall, Holding,
           fileVars,
           callVars
    <2> QED
        BY Zenon, <1>t, <2>1, CountSame
<1>18. ASSUME NEW p \in Procs, NEW d \in Fds, NEW e \in Fds, DupInstall(p, d, e)
       PROVE  CountOf(g)'
    <2>1. \A h \in FileIds : CountOf(h)'
        BY Zenon, <1>18, CountDupInstall
    <2> QED
        BY Zenon, <2>1
<1>19. ASSUME NEW p \in Procs, NEW f \in FileIds, PipeFirst(p, f)
       PROVE  CountOf(g)'
    <2>1. /\ pc[p] \in {"user", "pipe"} /\ Goto(p, "pipe") /\ FirstFreeFile(f)
          /\ \A o \in Procs : o # p => held'[o] = held[o]
          /\ OpenFile' = OpenFile /\ ref' = [ref EXCEPT ![f] = 1]
        BY ZenonT(60), <1>19, <1>t DEF PipeFirst, At
    <2>2. \A h \in FileIds : h # f => file'[h] = file[h]
        BY <1>19, <1>t DEF PipeFirst
    <2>3. "pipe" \in Holding
        BY DEF Holding
    <2>4. \A h \in FileIds : Holds(p, h)' <=> Holds(p, h) \/ h = f
        <3>1. pc[p] \notin Holding /\ pc'[p] \in Holding /\ held'[p] = <<f>>
            BY Zenon, <1>19, <1>t DEF PipeFirst, At, Goto, Holding
        <3>2. Len(<<f>>) = 1 /\ <<f>>[1] = f /\ \A i \in 1..1 : i = 1
            OBVIOUS
        <3>3. 1 \in 1..1
            OBVIOUS
        <3> QED
            BY <3>1, <3>2, <3>3 DEF Holds
    <2>5. \A h \in FileIds : CountOf(h)'
        BY ZenonT(60), <2>1, <2>2, <2>3, <2>4, CountTake
    <2> QED
        BY Zenon, <2>5
<1>20. ASSUME NEW p \in Procs, NEW f \in FileIds, PipeSecond(p, f)
       PROVE  CountOf(g)'
    <2>1. /\ pc[p] \in {"user", "pipe"} /\ Goto(p, "page") /\ FirstFreeFile(f)
          /\ \A o \in Procs : o # p => held'[o] = held[o]
          /\ OpenFile' = OpenFile /\ ref' = [ref EXCEPT ![f] = 1]
        BY ZenonT(60), <1>20, <1>t DEF PipeSecond, At
    <2>2. \A h \in FileIds : h # f => file'[h] = file[h]
        BY <1>20, <1>t DEF PipeSecond
    <2>3. "page" \in Holding
        BY DEF Holding
    <2>4. \A h \in FileIds : Holds(p, h)' <=> Holds(p, h) \/ h = f
        <3>1. /\ pc[p] \in Holding /\ pc'[p] \in Holding /\ Len(held[p]) = 1
              /\ held[p] \in HeldFiles /\ held'[p] = Append(held[p], f)
            BY ZenonT(60), <1>20, <1>t DEF PipeSecond, At, Goto, Holding, IInv,
               CallInv
        <3>2. Len(held'[p]) = 2 /\ held'[p][1] = held[p][1] /\ held'[p][2] = f
            BY <3>1, HeldAppend
        <3>3. /\ \A i \in 1..1 : i = 1
              /\ \A i \in 1..2 : i = 1 \/ i = 2
              /\ 1 \in 1..1 /\ 1 \in 1..2 /\ 2 \in 1..2
            OBVIOUS
        <3> QED
            BY <3>1, <3>2, <3>3 DEF Holds
    <2>5. \A h \in FileIds : CountOf(h)'
        BY ZenonT(60), <2>1, <2>2, <2>3, <2>4, CountTake
    <2> QED
        BY Zenon, <2>5
<1>21. ASSUME NEW p \in Procs, NEW f \in FileIds, ExecOpen(p, f)
       PROVE  CountOf(g)'
    <2>1. /\ pc[p] \in {"user", "pipe"} /\ Goto(p, "exec") /\ FirstFreeFile(f)
          /\ \A o \in Procs : o # p => held'[o] = held[o]
          /\ OpenFile' = OpenFile /\ ref' = [ref EXCEPT ![f] = 1]
        BY ZenonT(60), <1>21, <1>t DEF ExecOpen, At
    <2>2. \A h \in FileIds : h # f => file'[h] = file[h]
        BY <1>21, <1>t DEF ExecOpen
    <2>3. "exec" \in Holding
        BY DEF Holding
    <2>4. \A h \in FileIds : Holds(p, h)' <=> Holds(p, h) \/ h = f
        <3>1. pc[p] \notin Holding /\ pc'[p] \in Holding /\ held'[p] = <<f>>
            BY Zenon, <1>21, <1>t DEF ExecOpen, At, Goto, Holding
        <3>2. Len(<<f>>) = 1 /\ <<f>>[1] = f /\ \A i \in 1..1 : i = 1
            OBVIOUS
        <3>3. 1 \in 1..1
            OBVIOUS
        <3> QED
            BY <3>1, <3>2, <3>3 DEF Holds
    <2>5. \A h \in FileIds : CountOf(h)'
        BY ZenonT(60), <2>1, <2>2, <2>3, <2>4, CountTake
    <2> QED
        BY Zenon, <2>5
<1>22. ASSUME NEW p \in Procs, NEW f \in FileIds, NEW m \in Modes, Open(p, f, m)
       PROVE  CountOf(g)'
    <2>1. /\ pc[p] = "user" /\ FirstFreeFile(f) /\ ref' = [ref EXCEPT ![f] = 1]
          /\ \A h \in FileIds : h # f => file'[h] = file[h]
        BY Zenon, <1>22, <1>t DEF Open, At
    <2>2. CASE /\ held' = [held EXCEPT ![p] = <<f>>] /\ OpenFile' = OpenFile
               /\ Goto(p, "close")
        <3>1. /\ pc[p] \in {"user", "pipe"} /\ "close" \in Holding
              /\ pc[p] \notin Holding /\ pc'[p] \in Holding
              /\ held'[p] = <<f>> /\ \A o \in Procs : o # p => held'[o] = held[o]
            BY <1>t, <2>1, <2>2 DEF Goto, Holding
        <3>2. Len(<<f>>) = 1 /\ <<f>>[1] = f /\ \A i \in 1..1 : i = 1
            OBVIOUS
        <3>3. 1 \in 1..1
            OBVIOUS
        <3>4. \A h \in FileIds : Holds(p, h)' <=> Holds(p, h) \/ h = f
            BY <3>1, <3>2, <3>3 DEF Holds
        <3>5. \A h \in FileIds : CountOf(h)'
            BY Zenon, <2>1, <2>2, <3>1, <3>4, CountTake
        <3> QED
            BY ZenonT(60), <3>5
    <2>3. CASE /\ \E d \in Fds : /\ FirstFreeFd(p, d)
                                /\ OpenFile' = [OpenFile EXCEPT ![p][d] = f]
               /\ UNCHANGED <<held, pc>>
        <3>1. PICK d \in Fds : /\ OpenFile' = [OpenFile EXCEPT ![p][d] = f]
                              /\ OpenFile[p][d] = Null
            BY Zenon, <2>3 DEF FirstFreeFd
        <3>2. pc[p] # "unused" /\ UNCHANGED <<pc, held>>
            BY <2>1, <2>3
        <3>3. \A h \in FileIds : CountOf(h)'
            BY ZenonT(60), <2>1, <3>1, <3>2, CountInstall
        <3> QED
            BY Zenon, <3>3
    <2> QED
        BY <1>22, <2>2, <2>3 DEF Open
<1>23. ASSUME NEW p \in Procs, NEW k \in Pipes, PipeMake(p, k)
       PROVE  CountOf(g)'
    <2>1. \A h \in FileIds : CountOf(h)'
        BY Zenon, <1>23, CountPipeMake
    <2> QED
        BY Zenon, <2>1
<1>24. ASSUME NEW p \in Procs, NEW q \in Procs, ForkNullFile(p, q)
       PROVE  CountOf(g)'
    <2>1. \A h \in FileIds : CountOf(h)'
        BY Zenon, <1>24, CountNullFile
    <2> QED
        BY Zenon, <2>1
<1>25. ASSUME NEW p \in Procs, NEW q \in Procs, NEW f \in FileIds, ForkAllocate(p, q, f)
       PROVE  CountOf(g)'
    <2>1. \A h \in FileIds : CountOf(h)'
        BY Zenon, <1>25, CountAllocate
    <2> QED
        BY Zenon, <2>1
<1>26. CASE UNCHANGED sysVars
    BY ZenonT(60), <1>26, <1>t DEF sysVars, fileVars, callVars, CountInv, CountOf,
       Owed,
       Named, Uncounted, IsHeld, Holds
<1> QED
    BY ZenonT(60), <1>1, <1>2, <1>3, <1>4, <1>5, <1>6, <1>7, <1>8, <1>9, <1>10,
       <1>11, <1>12, <1>13, <1>14, <1>15, <1>16, <1>17, <1>18, <1>19, <1>20,
       <1>21, <1>22, <1>23, <1>24, <1>25, <1>26 DEF Step, Panicked

-----------------------------------------------------------------------------

(* The first process has its console and nothing else is open.             *)
LEMMA Initially ==
    ASSUME FiniteFacts
    PROVE  Init => IInv
<1> SUFFICES ASSUME Init PROVE IInv
    OBVIOUS
<1>1. SysTypes
    <2>1. /\ ref \in [FileIds -> Nat] /\ file \in [FileIds -> FileRecords]
          /\ OpenFile \in [Procs -> [Fds -> FileIds \cup {Null}]]
        BY Zenon, Constants, Records DEF Init, FiniteFacts, CardTables
    <2>2. /\ ends \in [Pipes -> SUBSET {"r", "w"}] /\ pages \subseteq Pipes
          /\ pc \in [Procs -> Labels] /\ held \in [Procs -> HeldFiles]
          /\ closing \in [Procs -> {NoFile} \cup PipeEnds]
          /\ np \in [Procs -> Procs \cup {Null}] /\ left \in [Procs -> SUBSET Fds]
        BY Zenon, HeldNone DEF Init, Labels
    <2> QED
        BY Zenon, <2>1, <2>2 DEF SysTypes, Init
<1>2. /\ \A p \in Procs : pc[p] = IF p = initproc THEN "user" ELSE "unused"
      /\ \A p \in Procs : held[p] = <<>> /\ closing[p] = NoFile
      /\ \A p \in Procs, d \in Fds :
             OpenFile[p][d] = IF p = initproc /\ d \in StdFds THEN 1 ELSE Null
    BY Zenon DEF Init
<1>3. /\ file[1] = Console /\ \A f \in FileIds : f # 1 => file[f] = NoFile
      /\ ref[1] = Cardinality(StdFds) /\ \A f \in FileIds : f # 1 => ref[f] = 0
    BY ZenonT(60), Constants DEF Init
<1>4. CallInv /\ HeldInv /\ ForkInv
    BY <1>2 DEF CallInv, HeldInv, ForkInv, Holding, Forking
<1>5. FreshInv
    <2>1. \A q \in Procs : Fresh(q) => q # initproc
        BY <1>2 DEF Fresh
    <2> QED
        BY <1>2, <2>1 DEF FreshInv
<1>6. OpenInv
    <2>1. Console.type # "NONE" /\ Cardinality(StdFds) > 0
        BY Records DEF FiniteFacts, CardTables
    <2> QED
        BY <1>2, <1>3, <2>1, Constants DEF OpenInv
<1>7. EndInv
    <2>1. \A f \in FileIds : file[f].type # "PIPE"
        BY <1>3, Records
    <2>2. \A k \in Pipes, e \in {"r", "w"} :
              /\ \A f \in FileIds : file[f] # PipeEnd(k, e)
              /\ \A p \in Procs : closing[p] # PipeEnd(k, e)
        BY <1>2, <2>1, Records
    <2>3. pages = {} /\ \A k \in Pipes : ends[k] = {}
        BY Zenon DEF Init
    <2> QED
        BY <2>1, <2>2, <2>3 DEF EndInv, PageInv, EndFiles, EndOf
<1>8. PanicInv
    BY Zenon DEF Init, PanicInv
<1>9. CountInv
    <2>1. \A f \in FileIds : Uncounted(f) = {} /\ ~IsHeld(f)
        BY <1>2 DEF Uncounted, IsHeld, Holds, Holding
    <2>2. ASSUME NEW f \in FileIds, f # 1 PROVE CountOf(f)
        <3>1. Named(f) = {}
            BY ZenonT(60), <1>2, <2>2, Constants DEF Named
        <3>2. Cardinality(Named(f)) = 0
            BY Zenon, <3>1 DEF FiniteFacts, CardEmpty
        <3>3. Owed(f) = 0
            BY <2>1, <3>2, OwedFacts
        <3> QED
            BY <1>3, <2>2, <3>3 DEF CountOf
    <2>3. CountOf(1)
        <3> DEFINE X == {initproc} \X StdFds
        <3>1. /\ X \subseteq Procs \X Fds
              /\ \A q \in Procs, e \in Fds :
                     <<q, e>> \in X <=> pc[q] # "unused" /\ OpenFile[q][e] = 1
            BY Zenon, <1>2, Constants
        <3>2. Cardinality(X) = Cardinality({initproc}) * Cardinality(StdFds)
            BY Zenon, Constants
            DEF FiniteFacts, CardSingleton, CardProduct, CardTables
        <3>3. Cardinality(X) = Cardinality(StdFds)
            <4>1. Cardinality({initproc}) = 1 /\ Cardinality(StdFds) \in Nat
                BY Zenon, Constants DEF FiniteFacts, CardSingleton, CardTables
            <4> HIDE DEF X
            <4> QED
                BY <3>2, <4>1
        <3> HIDE DEF X
        <3>4. Named(1) = X
            BY ZenonT(60), <3>1, NamedIs
        <3>5. Owed(1) = Cardinality(StdFds)
            <4>1. /\ Cardinality(StdFds) \in Nat
                  /\ Cardinality(Named(1)) = Cardinality(StdFds)
                BY Zenon, <3>3, <3>4 DEF FiniteFacts, CardTables
            <4>2. Owed(1) = IF IsHeld(1) THEN Cardinality(StdFds) + 1
                                         ELSE Cardinality(StdFds)
                BY Zenon, <2>1, <4>1, OwedFacts, Constants
            <4> QED
                BY Zenon, <2>1, <4>2, Constants
        <3> QED
            BY <1>3, <3>5 DEF CountOf, FiniteFacts, CardTables
    <2> QED
        BY ZenonT(60), <2>2, <2>3 DEF CountInv
<1> QED
    BY Zenon, <1>1, <1>4, <1>5, <1>6, <1>7, <1>8, <1>9 DEF IInv

(* Every step keeps the invariant.                                         *)
LEMMA Inductive ==
    ASSUME FiniteFacts
    PROVE  IInv /\ [Step]_sysVars => IInv'
    BY ZenonT(60), KeptStep, TypeStep, CallStep, HeldStep, ForkStep, FreshStep,
       CountStep, OpenStep, EndStep, PanicStep DEF IInv

(* At most one call holds a File, so References counts what Owed does.     *)
LEMMA HeldCount ==
    ASSUME FiniteFacts, IInv, NEW f \in FileIds
    PROVE  References(f) = Owed(f)
<1>1. held \in [Procs -> HeldFiles]
    BY Zenon DEF IInv, SysTypes
<1>2. ASSUME NEW p \in Procs, NEW i
      PROVE  i \in {1, 2} /\ i <= Len(held[p]) <=> i \in 1..Len(held[p])
    <2>1. Len(held[p]) \in {0, 1, 2}
        BY Zenon, <1>1, HeldLen
    <2>2. \A n \in {0, 1, 2} : i \in 1..n => i \in {1, 2} /\ i <= n
        OBVIOUS
    <2>3. \A n \in {0, 1, 2} : i \in {1, 2} /\ i <= n => i \in 1..n
        OBVIOUS
    <2> QED
        BY Zenon, <2>1, <2>2, <2>3
<1>3. CASE ~IsHeld(f)
    <2>1. HeldIn(f) = {}
        BY <1>2, <1>3 DEF HeldIn, IsHeld, Holds, Holding
    <2>2. Cardinality(HeldIn(f)) = 0
        BY Zenon, <2>1 DEF FiniteFacts, CardEmpty
    <2> QED
        BY <1>3, <2>2 DEF References, Owed
<1>4. CASE IsHeld(f)
    <2>0. PICK p \in Procs : Holds(p, f)
        BY Zenon, <1>4 DEF IsHeld
    <2>1. PICK i \in 1..Len(held[p]) : pc[p] \in Holding /\ held[p][i] = f
        BY ZenonT(60), <2>0 DEF Holds
    <2>2. ASSUME NEW q \in Procs, NEW j \in 1..Len(held[q]),
                 pc[q] \in Holding, held[q][j] = f
          PROVE  q = p /\ j = i
        BY <2>1, <2>2 DEF IInv, HeldInv
    <2>3. i \in {1, 2} /\ i <= Len(held[p])
        BY Zenon, <1>2
    <2>4. <<p, i>> \in HeldIn(f)
        BY <2>1, <2>3 DEF HeldIn, Holding
    <2>5. ASSUME NEW x \in HeldIn(f) PROVE x = <<p, i>>
        <3>1. PICK q \in Procs, j \in {1, 2} :
                  /\ x = <<q, j>> /\ pc[q] \in Holding
                  /\ j <= Len(held[q]) /\ held[q][j] = f
            BY DEF HeldIn, Holding
        <3>2. j \in 1..Len(held[q])
            BY Zenon, <1>2, <3>1
        <3>3. q = p /\ j = i
            BY Zenon, <2>2, <3>1, <3>2
        <3> QED
            BY <3>1, <3>3
    <2>6. HeldIn(f) = {<<p, i>>}
        BY <2>4, <2>5
    <2>7. Cardinality(HeldIn(f)) = 1
        BY Zenon, <2>6 DEF FiniteFacts, CardSingleton
    <2> QED
        BY <1>4, <2>7 DEF References, Owed
<1> QED
    BY <1>3, <1>4

-----------------------------------------------------------------------------

INSTANCE FiniteSetTheorems

(* The facts about finite sets, and that all the tables are finite.        *)
LEMMA Finiteness == FiniteFacts
<1>1. CardEmpty /\ CardSingleton /\ CardType
    BY ZenonT(60), FS_EmptySet, FS_Singleton, FS_CardinalityType
    DEF CardEmpty, CardSingleton, CardType
<1>2. CardAdd /\ CardRemove
    BY Zenon, FS_AddElement, FS_RemoveElement DEF CardAdd, CardRemove
<1>3. CardSubset
    BY Zenon, FS_Subset DEF CardSubset
<1>4. CardInjection
    <2> SUFFICES ASSUME NEW S, NEW T, NEW h \in [S -> T], IsFiniteSet(T),
                        \A x, y \in S : h[x] = h[y] => x = y
                 PROVE  IsFiniteSet(S) /\ Cardinality(S) <= Cardinality(T)
        BY DEF CardInjection
    <2>1. h \in Injection(S, T)
        BY DEF Injection, IsInjective
    <2> QED
        BY ZenonT(60), <2>1, FS_Injection
<1>5. CardProduct
    BY Zenon, FS_Product DEF CardProduct
<1>6. CardTables
    <2>1. IsFiniteSet(Procs) /\ IsFiniteSet(Fds)
        BY FilesAssumption, FS_Interval DEF Procs, Fds
    <2>2. StdFds \subseteq Fds /\ StdFds # {}
        BY FilesAssumption DEF Fds
    <2>3. IsFiniteSet(StdFds)
        BY <2>1, <2>2, FS_Subset
    <2>4. Cardinality(StdFds) \in Nat \ {0}
        BY <2>2, <2>3, FS_CardinalityType, FS_EmptySet
    <2>5. IsFiniteSet(Procs \X Fds)
        BY ZenonT(60), <2>1, FS_Product
    <2> QED
        BY <2>1, <2>3, <2>4, <2>5 DEF CardTables
<1> QED
    BY <1>1, <1>2, <1>3, <1>4, <1>5, <1>6 DEF FiniteFacts

(* The inductive invariant of the File table holds in every reachable      *)
(* state up to the first failure of exec() after its fileClose().          *)
THEOREM Invariance == Spec => [](~late => IInv)
<1>1. Init => (~late => IInv)
    BY Finiteness, Initially
<1>2. (~late => IInv) /\ [Next]_vars => (~late => IInv)'
    <2> SUFFICES ASSUME ~late => IInv, [Next]_vars, ~late'
                 PROVE  IInv'
        OBVIOUS
    <2>1. ~late /\ [Step]_sysVars
        BY DEF Next, vars
    <2> QED
        BY <2>1, Finiteness, Inductive
<1> QED
    BY <1>1, <1>2, PTL DEF Spec

(* Up to the first late failure of exec(), every value stays in its range: *)
(* no count goes below zero.                                               *)
THEOREM TypeCorrect == Spec => [](~late => TypeOK)
<1>1. Init => late \in BOOLEAN
    BY DEF Init
<1>2. late \in BOOLEAN /\ [Next]_vars => (late \in BOOLEAN)'
    BY DEF Next, vars
<1>3. late \in BOOLEAN /\ (~late => IInv) => (~late => TypeOK)
    BY ZenonT(60) DEF IInv, TypeOK
<1> QED
    BY <1>1, <1>2, <1>3, Invariance, PTL DEF Spec

(* Up to the first late failure of exec(), ReferenceCount is exact,        *)
(* whatever the calls of several processes interleave; only a console File *)
(* that fork() abandoned counts too often.                                 *)
THEOREM CountsReferences == Spec => []RefCount
<1>1. (~late => IInv) => RefCount
    BY ZenonT(60), Finiteness, HeldCount DEF IInv, CountInv, CountOf, RefCount
<1> QED
    BY <1>1, Invariance, PTL

(* Up to the first late failure of exec(), a descriptor names an open      *)
(* File, and a pipe with its page and that end.                            *)
THEOREM ValidDescriptors == Spec => []DescriptorsValid
<1>1. ASSUME ~late => IInv PROVE DescriptorsValid
    <2> SUFFICES ASSUME IInv,
                        NEW p \in Procs, NEW d \in Fds, OpenFile[p][d] # Null
                 PROVE  LET f == OpenFile[p][d] IN
                        /\ file[f].type # "NONE"
                        /\ file[f].type = "PIPE" =>
                               /\ file[f].pipe \in pages
                               /\ file[f].mode \subseteq ends[file[f].pipe]
        BY <1>1 DEF DescriptorsValid
    <2>1. PICK f \in FileIds : f = OpenFile[p][d]
        BY InUse
    <2>2. file[f].type # "NONE"
        BY <2>1 DEF IInv, OpenInv
    <2>3. ASSUME file[f].type = "PIPE"
          PROVE  /\ file[f].pipe \in pages
                 /\ file[f].mode \subseteq ends[file[f].pipe]
        <3>1. PICK k \in Pipes, e \in {"r", "w"} : file[f] = PipeEnd(k, e)
            BY ZenonT(60), <2>3 DEF IInv, EndInv, EndFiles
        <3>2. e \in ends[k]
            BY ZenonT(60), <3>1 DEF IInv, EndInv, EndOf
        <3>3. k \in pages
            BY <3>2 DEF IInv, EndInv, PageInv
        <3>4. file[f].pipe = k /\ file[f].mode = {e}
            BY <3>1 DEF PipeEnd
        <3> QED
            BY <3>2, <3>3, <3>4
    <2> QED
        BY <2>1, <2>2, <2>3
<1> QED
    BY <1>1, Invariance, PTL

(* Up to the first late failure of exec(), an end of a pipe is open as     *)
(* long as somebody is still to close it, and the page allocated as long   *)
(* as an end is open.                                                      *)
THEOREM EndsTracked == Spec => []PipeEndsTracked
<1>1. ASSUME ~late => IInv PROVE PipeEndsTracked
    <2> SUFFICES ASSUME IInv, ~late PROVE PipeEndsTracked
        BY <1>1 DEF PipeEndsTracked
    <2>1. ASSUME NEW f \in FileIds, NEW k \in Pipes, NEW e \in {"r", "w"},
                 file[f] = PipeEnd(k, e)
          PROVE  ref[f] > 0
        <3>1. file[f] # NoFile
            BY <2>1, Records
        <3>2. ref[f] # 0 /\ ref[f] \in Nat
            BY ZenonT(60), <3>1 DEF IInv, OpenInv, SysTypes
        <3> QED
            BY <3>2
    <2>2. /\ \A k \in Pipes : k \in pages <=> ends[k] # {}
          /\ \A k \in Pipes, e \in {"r", "w"} :
                 e \in ends[k] <=> \/ \E f \in FileIds : file[f] = PipeEnd(k, e)
                                   \/ \E p \in Procs : closing[p] = PipeEnd(k, e)
        BY ZenonT(60) DEF IInv, EndInv, PageInv, EndOf
    <2> QED
        BY ZenonT(60), <2>1, <2>2 DEF PipeEndsTracked
<1> QED
    BY <1>1, Invariance, PTL

(* Up to the first late failure of exec(), no count is found below one     *)
(* where fileClose() and fileDup() look at it, and no read meets a File    *)
(* without a type.                                                         *)
THEOREM NeverRefPanics == Spec => []NoRefPanic
<1>1. (~late => IInv) => NoRefPanic
    BY Zenon DEF IInv, PanicInv, NoRefPanic
<1> QED
    BY <1>1, Invariance, PTL

(* Up to the first late failure of exec(), what a descriptor stands for    *)
(* does not change under its owner.                                        *)
THEOREM StableDescriptors == Spec => DescriptorStable
<1>1. ASSUME ~late => IInv, [Next]_vars
      PROVE  [~late' =>
                 \A p \in Procs, d \in Fds :
                     LET f == OpenFile[p][d] IN
                     f # Null /\ OpenFile'[p][d] = f => file'[f] = file[f]]_vars
    <2> SUFFICES ASSUME ~late'
                 PROVE  \A p \in Procs, d \in Fds :
                            LET f == OpenFile[p][d] IN
                            f # Null /\ OpenFile'[p][d] = f =>
                                file'[f] = file[f]
        OBVIOUS
    <2>1. ~late /\ [Step]_sysVars
        BY <1>1 DEF Next, vars
    <2> QED
        BY <1>1, <2>1, Finiteness, KeptStep DEF Kept
<1> QED
    BY <1>1, Invariance, PTL DEF Spec, DescriptorStable
=============================================================================
