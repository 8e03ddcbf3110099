------------------------------ MODULE MCMemory ------------------------------
(***************************************************************************)
(* TLC instance of Memory: two processes and four files.  11 is a program  *)
(* of two sections (text, and .bss, which is not in the file), 12 is one   *)
(* too large to have a stack, 13 is not a program, and its bytes where the *)
(* number of sections would be say 3, and the section of 14 starts above   *)
(* KERNBASE and wraps past 2^32.  Two more malformed sections are read     *)
(* when another exec() has replaced the header: behind the section table   *)
(* of 11, one that wraps from user addresses, and in 13 one that is not    *)
(* aligned.  There is room for two processes and one exec(), not for two   *)
(* at the same time.                                                       *)
(***************************************************************************)
EXTENDS Memory

Section1(addr, n, f) == [va |-> addr, size |-> n, infile |-> f]

MCImage == [g \in Programs |->
    CASE g = 11 -> [pe |-> TRUE, nsections |-> 2,
                    sections |-> <<Section1(0, 2, TRUE), Section1(2, 1, FALSE),
                                   Section1(2, Wrap - 1, TRUE)>>]
      [] g = 12 -> [pe |-> TRUE, nsections |-> 1,
                    sections |-> <<Section1(0, KERNBASE - 3, FALSE)>>]
      [] g = 13 -> [pe |-> FALSE, nsections |-> 3,
                    sections |-> <<Section1(1, 2, TRUE)>>]
      [] g = 14 -> [pe |-> TRUE, nsections |-> 1,
                    sections |-> <<Section1(Wrap - 4, 6, TRUE)>>]]

MCDeltas == {3, -2}
=============================================================================
