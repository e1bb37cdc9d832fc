----------------------------- MODULE MCProcess -----------------------------
(* The process core for TLC: idleproc, initproc and a few user processes.   *)
EXTENDS Process, TLC

Users == Procs \ {Idle, InitProc}

\* User processes are interchangeable.
Symmetry == Permutations(Users)
=============================================================================
