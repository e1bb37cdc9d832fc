---------------------------- MODULE HoareMonitor ----------------------------
(***************************************************************************)
(* What the header of kern/sync/monitor.h says a monitor is: at most one   *)
(* process is active in it, a signal hands the monitor over to the process *)
(* that has waited longest for the condition, and the signaller waits,     *)
(* before everybody who wants to enter, until the monitor is free again.   *)
(***************************************************************************)
EXTENDS Sequences

CONSTANTS Threads, Nobody, Conds

VARIABLES
    owner,  \* the thread that is active in the monitor, or Nobody
    entry,  \* those that want to enter, the oldest first
    urgent, \* the signallers, the oldest first
    waiters \* those that wait for each condition, the oldest first

Init ==
    /\ owner = Nobody
    /\ entry = << >>
    /\ urgent = << >>
    /\ waiters = [c \in Conds |-> << >>]

Range(s) == {s[i] : i \in DOMAIN s}
Inside == {owner} \cup Range(entry) \cup Range(urgent) \cup UNION {Range(waiters[c]) : c \in Conds}

\* The monitor goes to the oldest signaller, else to the oldest at the entry.
Release ==
    \/ /\ urgent # << >>
       /\ owner' = Head(urgent)
       /\ urgent' = Tail(urgent)
       /\ UNCHANGED entry
    \/ /\ urgent = << >> /\ entry # << >>
       /\ owner' = Head(entry)
       /\ entry' = Tail(entry)
       /\ UNCHANGED urgent
    \/ /\ urgent = << >> /\ entry = << >>
       /\ owner' = Nobody
       /\ UNCHANGED << entry, urgent >>

Enter(t) ==
    /\ t \notin Inside
    /\ IF owner = Nobody THEN owner' = t /\ UNCHANGED entry
                         ELSE entry' = Append(entry, t) /\ UNCHANGED owner
    /\ UNCHANGED << urgent, waiters >>

Leave == owner # Nobody /\ Release /\ UNCHANGED waiters

Wait(c) ==
    /\ owner # Nobody
    /\ waiters' = [waiters EXCEPT ![c] = Append(@, owner)]
    /\ Release

Signal(c) ==
    /\ owner # Nobody
    /\ waiters[c] # << >>
    /\ owner' = Head(waiters[c])
    /\ waiters' = [waiters EXCEPT ![c] = Tail(@)]
    /\ urgent' = Append(urgent, owner)
    /\ UNCHANGED entry

Next == (\E t \in Threads : Enter(t)) \/ Leave \/ (\E c \in Conds : Wait(c) \/ Signal(c))

Spec == Init /\ [][Next]_<< owner, entry, urgent, waiters >>
=============================================================================
