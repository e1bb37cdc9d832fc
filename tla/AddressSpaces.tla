---------------------------- MODULE AddressSpaces ----------------------------
(***************************************************************************)
(* What the memory management of the kernel promises to programs: memory   *)
(* of their own, which fork copies, execve replaces and exit discards, and *)
(* which nobody else changes.                                              *)
(***************************************************************************)
CONSTANTS Procs, VPages, Values, Unset,
          Eager,     \* the pages a program starts with
          FromFile,  \* those of them that hold its data, FileValue
          FileValue

VARIABLES threads, \* the processes that exist
          alive,   \* those that have an address space
          mem      \* what each page of a process holds, Unset before the first access

vars == <<threads, alive, mem>>

Blank == [v \in VPages |-> Unset]
\* A program finds its data and its stack; what is on the stack is not said.
Images == {m \in [VPages -> Values \cup {Unset}] :
              /\ \A v \in FromFile : m[v] = FileValue
              /\ \A v \in VPages : m[v] = Unset <=> v \notin Eager}

Init == /\ threads \subseteq Procs /\ alive \subseteq threads
        /\ mem = [p \in Procs |-> Blank]

Write(p, v, x) == /\ p \in alive /\ mem[p][v] # Unset
                  /\ mem' = [mem EXCEPT ![p][v] = x]
                  /\ UNCHANGED <<threads, alive>>
FirstAccess(p, v) == /\ p \in alive /\ mem[p][v] = Unset
                     /\ \E x \in Values : mem' = [mem EXCEPT ![p][v] = x]
                     /\ UNCHANGED <<threads, alive>>
Fork(p, c) == /\ p \in threads /\ c \notin threads
              /\ threads' = threads \cup {c}
              /\ alive' = IF p \in alive THEN alive \cup {c} ELSE alive
              /\ mem' = [mem EXCEPT ![c] = mem[p]]
Load(p) == /\ p \in threads \ alive
           /\ alive' = alive \cup {p}
           /\ \E image \in Images : mem' = [mem EXCEPT ![p] = image]
           /\ UNCHANGED threads
Discard(p) == /\ p \in alive
              /\ alive' = alive \ {p}
              /\ mem' = [mem EXCEPT ![p] = Blank]
              /\ UNCHANGED threads
Reap(p) == /\ p \in threads \ alive
           /\ threads' = threads \ {p}
           /\ UNCHANGED <<alive, mem>>

Next == \E p \in Procs :
            \/ Load(p) \/ Discard(p) \/ Reap(p)
            \/ \E c \in Procs : Fork(p, c)
            \/ \E v \in VPages : FirstAccess(p, v) \/ \E x \in Values : Write(p, v, x)

Spec == Init /\ [][Next]_vars
=============================================================================
