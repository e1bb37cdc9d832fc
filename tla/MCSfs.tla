--------------------------------- MODULE MCSfs ---------------------------------
(* Two files and two descriptors; a file has one direct block and two in    *)
(* the indirect block, and the disk is full before both files are.          *)
EXTENDS Sfs, TLC

CONSTANTS f1, f2, h1, h2

Symmetric == Permutations({f1, f2}) \cup Permutations({h1, h2})
MCLengths == {3}
MCPositions == {0, 5, 7}
=============================================================================
