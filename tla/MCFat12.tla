------------------------------ MODULE MCFat12 ------------------------------
(***************************************************************************)
(* A disk with clusters of two sectors of two units and a FAT whose first  *)
(* sector ends inside the entry of cluster 5: the file "a.xyz" has its     *)
(* chain in it, contiguous or not, "b" has not.  "e" is empty.  "eq" and   *)
(* "eq.xyz" are what longer names are taken for or could be.  The          *)
(* directory "d" has a one-letter extension in its first sector and an     *)
(* entry in its second.                                                    *)
(***************************************************************************)
EXTENDS Fat12

\* Entry 0 is the media byte's; the chain of "b" goes on in cluster 18 or 16.
End == 4095
MCFats == { [c \in 0..18 |-> CASE c = 0 -> 4080 [] c = 2 -> 3 [] c = 5 -> 18 [] OTHER -> End],
            [c \in 0..18 |-> CASE c = 0 -> 4080 [] c = 2 -> 4 [] c = 4 -> 3 [] c = 5 -> 16
                               [] OTHER -> End] }

File(name, c, n) == [name |-> name, dir |-> FALSE, cluster |-> c, size |-> n]
Folder(name, c) == [name |-> name, dir |-> TRUE, cluster |-> c, size |-> 0]

MCRoot == << File(<<"a", " ", "x", "y", "z">>, 2, 6), File(<<"b", " ", " ", " ", " ">>, 5, 5),
             Folder(<<"d", " ", " ", " ", " ">>, 7), File(<<"e", " ", " ", " ", " ">>, 0, 0),
             File(<<"e", "q", " ", " ", " ">>, 5, 5), File(<<"e", "q", "x", "y", "z">>, 2, 6) >>
MCDirs == << Folder(<<".", ".", " ", " ", " ">>, 0), File(<<"c", " ", "x", " ", " ">>, 4, 3),
             File(<<"g", " ", " ", " ", " ">>, 4, 3), File(<<"n", " ", " ", " ", " ">>, 4, 3) >>
MCDir == [c \in {0, 7} |-> IF c = 0 THEN <<>> ELSE MCDirs]

axyz == <<"a", ".", "x", "y", "z">>
MCPaths == { <<axyz>>, << <<"b">> >>, << <<"e">> >>, << <<"c", ".", "x">> >>, << <<"g">> >>,
             << <<"n">> >>, << <<".", ".">>, <<"b">> >>, <<axyz, <<"n">> >>,
             \* A full name, names that are too long, and a long extension.
             << <<"e", "q">> \o Tail(axyz) >>, << <<"e", "q", "z">> \o Tail(axyz) >>,
             << <<"e", "q", "z">> >>, << axyz \o <<"w">> >> }
MCChdirs == { << <<"d">> >> }
MCSymmetry == Permutations(Procs)
=============================================================================
