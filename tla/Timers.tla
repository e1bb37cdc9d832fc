------------------------------- MODULE Timers -------------------------------
(***************************************************************************)
(* What the timers of the kernel promise to do_sleep: a process that asks  *)
(* for n ticks is woken by the n-th tick after it, unless somebody wakes   *)
(* it before and it takes its timer back.  No list is kept: each process   *)
(* has a count of its own.  This is also how module Process sees timers.   *)
(***************************************************************************)
EXTENDS Integers

CONSTANTS
    Procs,    \* the processes that sleep
    MaxSleep  \* largest argument of sleep (a bound of the model)

VARIABLES
    phase,    \* out of do_sleep, asleep in it, or woken and about to leave it
    remaining \* ticks until the timer fires, 0 if the process has none

Init ==
    /\ phase = [p \in Procs |-> "out"]
    /\ remaining = [p \in Procs |-> 0]

Sleep(p, n) ==
    /\ phase[p] = "out"
    /\ phase' = [phase EXCEPT ![p] = "asleep"]
    /\ remaining' = [remaining EXCEPT ![p] = n]

Kill(p) ==
    /\ phase[p] = "asleep"
    /\ phase' = [phase EXCEPT ![p] = "woken"]
    /\ UNCHANGED remaining

Return(p) ==
    /\ phase[p] = "woken"
    /\ phase' = [phase EXCEPT ![p] = "out"]
    /\ remaining' = [remaining EXCEPT ![p] = 0]

Tick ==
    /\ phase' = [p \in Procs |-> IF remaining[p] = 1 THEN "woken" ELSE phase[p]]
    /\ remaining' = [p \in Procs |-> IF remaining[p] > 0 THEN remaining[p] - 1 ELSE 0]

Next ==
    \/ \E p \in Procs : (\E n \in 1..MaxSleep : Sleep(p, n)) \/ Kill(p) \/ Return(p)
    \/ Tick

Spec == Init /\ [][Next]_<< phase, remaining >>
=============================================================================
