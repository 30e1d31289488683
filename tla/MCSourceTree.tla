---------------------------- MODULE MCSourceTree -----------------------------
(***************************************************************************)
(* A folder with a file, a socket and a subfolder, where one file may not  *)
(* be opened and one is excluded, and a file named on the command line.    *)
(***************************************************************************)
EXTENDS SourceTree

CONSTANTS top, sub, other, a, b, c, s, v, w, x, y, z

MCInodes == {top, sub, other, a, b, c, s}
MCKinds == [i \in MCInodes |-> IF i \in {top, sub, other} THEN "dir"
                               ELSE IF i = s THEN "other" ELSE "file"]
L(d, n, i) == [dir |-> d, name |-> n, ino |-> i]
MCFound == {L(top, x, a), L(top, y, sub), L(sub, x, b), L(sub, z, c), L(other, w, c),
            L(top, v, s), L(sub, w, a)}

\* A folder in place of the file, the subfolder under a new name, a new file.
MCCreatable == {L(top, x, other), L(top, z, sub), L(sub, y, a)}
MCExtras == <<[dir |-> other, name |-> w]>>
Lim(cur, hard, fileMax, nrOpen, p) ==
    [cur |-> cur, hard |-> hard, fileMax |-> fileMax, nrOpen |-> nrOpen, privileged |-> p]
MCLimits == {Lim(4, 4, 9, 9, TRUE), Lim(4, 4, 9, 9, FALSE), Lim(1, 1, 1, 9, TRUE), Lim(9, 9, 99, 20, TRUE)}
=============================================================================
