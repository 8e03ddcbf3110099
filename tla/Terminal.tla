------------------------------ MODULE Terminal ------------------------------
(***************************************************************************)
(* What the console promises its readers: keys are edited in a line of     *)
(* their own, a line becomes readable as a whole, and what is readable is  *)
(* delivered once, in order, a read ending with its line.                  *)
(***************************************************************************)
EXTENDS Integers, Sequences

CONSTANTS Procs, Keys, Newline, EndOfFile, KillLine, Backspace, Capacity, Reads

VARIABLES ready,    \* characters that can be read
          edited,   \* the line being typed
          want,     \* how many characters a read still asks for
          got       \* what it has delivered

vars == <<ready, edited, want, got>>

Init ==
    /\ ready = <<>> /\ edited = <<>>
    /\ want = [p \in Procs |-> 0]
    /\ got = [p \in Procs |-> <<>>]

Type(k) ==
    /\ k \notin {KillLine, Backspace}
    /\ Len(ready) + Len(edited) < Capacity
    /\ LET line == Append(edited, k) IN
       IF k \in {Newline, EndOfFile} \/ Len(ready) + Len(line) = Capacity
       THEN ready' = ready \o line /\ edited' = <<>>
       ELSE ready' = ready /\ edited' = line
    /\ UNCHANGED <<want, got>>

Erase(k) ==
    /\ edited # <<>>
    /\ \/ k = KillLine /\ edited' = <<>>
       \/ k = Backspace /\ edited' = SubSeq(edited, 1, Len(edited) - 1)
    /\ UNCHANGED <<ready, want, got>>

Begin(p) ==
    /\ want[p] = 0 /\ got[p] = <<>>
    /\ \E n \in Reads : want' = [want EXCEPT ![p] = n]
    /\ UNCHANGED <<ready, edited, got>>

Take(p) ==
    /\ want[p] > 0 /\ ready # <<>> /\ Head(ready) # EndOfFile
    /\ ready' = Tail(ready)
    /\ got' = [got EXCEPT ![p] = Append(@, Head(ready))]
    /\ want' = [want EXCEPT ![p] = IF Head(ready) = Newline THEN 0 ELSE @ - 1]
    /\ edited' = edited

\* The end of the file ends a read, and stays for the next one unless this one
\* has delivered nothing.
TakeEnd(p) ==
    /\ want[p] > 0 /\ ready # <<>> /\ Head(ready) = EndOfFile
    /\ ready' = IF got[p] = <<>> THEN Tail(ready) ELSE ready
    /\ want' = [want EXCEPT ![p] = 0]
    /\ UNCHANGED <<edited, got>>

\* A read gives up only while there is nothing to read.
GiveUp(p) ==
    /\ want[p] > 0 /\ ready = <<>>
    /\ want' = [want EXCEPT ![p] = 0]
    /\ UNCHANGED <<ready, edited, got>>

Finish(p) ==
    /\ want[p] = 0
    /\ got' = [got EXCEPT ![p] = <<>>]
    /\ UNCHANGED <<ready, edited, want>>

Next ==
    \/ \E k \in Keys : Type(k) \/ Erase(k)
    \/ \E p \in Procs : Begin(p) \/ Take(p) \/ TakeEnd(p) \/ GiveUp(p) \/ Finish(p)

Spec == Init /\ [][Next]_vars
=============================================================================
