-------------------------------- MODULE MCFiles --------------------------------
(* Two processes with tables of three entries, one program on the disk.     *)
EXTENDS Files, TLC

CONSTANTS p1, p2, sh
=============================================================================
