------------------------------ MODULE Channel ------------------------------
(***************************************************************************)
(* What a pipe promises: a bounded first-in first-out byte queue that      *)
(* reports end of file only once the write end is closed and every byte    *)
(* has been delivered.                                                     *)
(***************************************************************************)
EXTENDS Naturals, Sequences

CONSTANTS Byte, Capacity

VARIABLES queue,        \* bytes written and not yet read
          last,         \* the byte most recently delivered, or <<>>
          wOpen, rOpen, \* the ends
          eof           \* some reader has been told end of file

chVars == <<queue, last, wOpen, rOpen, eof>>

ChInit ==
    /\ queue = <<>>
    /\ last = <<>>
    /\ wOpen = TRUE
    /\ rOpen = TRUE
    /\ eof = FALSE

Put(b) ==
    /\ wOpen
    /\ Len(queue) < Capacity
    /\ queue' = Append(queue, b)
    /\ UNCHANGED <<last, wOpen, rOpen, eof>>

Get ==
    /\ rOpen
    /\ queue # <<>>
    /\ last' = <<Head(queue)>>
    /\ queue' = Tail(queue)
    /\ UNCHANGED <<wOpen, rOpen, eof>>

EndOfFile ==
    /\ rOpen
    /\ ~wOpen
    /\ queue = <<>>
    /\ eof' = TRUE
    /\ UNCHANGED <<queue, last, wOpen, rOpen>>

CloseWrite == wOpen /\ wOpen' = FALSE /\ UNCHANGED <<queue, last, rOpen, eof>>
CloseRead == rOpen /\ rOpen' = FALSE /\ UNCHANGED <<queue, last, wOpen, eof>>

ChNext ==
    \/ \E b \in Byte : Put(b)
    \/ Get \/ EndOfFile \/ CloseWrite \/ CloseRead

ChSpec == ChInit /\ [][ChNext]_chVars
=============================================================================
