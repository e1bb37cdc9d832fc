------------------------------ MODULE TimerList -----------------------------
(***************************************************************************)
(* The timer list of the kernel (kern/schedule/sched.c): one list for all  *)
(* timers, sorted by time, in which "expires" counts from the timer before *)
(* it, so that a tick only touches the head.  The list's clients are the  *)
(* processes in do_sleep.  All three operations run with interrupts off.   *)
(***************************************************************************)
EXTENDS Integers, Sequences, FiniteSets, SequencesExt

CONSTANTS
    Procs,    \* the processes that sleep
    MaxSleep  \* largest argument of sleep (a bound of the model)

VARIABLES
    phase,     \* out of do_sleep, asleep in it, or woken and about to leave it
    timer_list \* the linked timers: [proc, expires]

vars == << phase, timer_list >>

\* The ticks until the first k timers of the list have fired.
Due(list, k) ==
    LET due[i \in 0..Len(list)] == IF i = 0 THEN 0 ELSE due[i - 1] + list[i].expires
    IN  due[k]

Linked == {timer_list[i].proc : i \in DOMAIN timer_list}
IndexOf(p) == CHOOSE i \in DOMAIN timer_list : timer_list[i].proc = p

\* The smallest element of a set of numbers.
Least(S) == CHOOSE i \in S : \A j \in S : i <= j

Init ==
    /\ phase = [p \in Procs |-> "out"]
    /\ timer_list = << >>

-----------------------------------------------------------------------------

\* add_timer: in front of the first timer that fires later, which is shortened.
AddTimer(list, p, n) ==
    LET later == {i \in DOMAIN list : n < Due(list, i)}
        at    == IF later = {} THEN Len(list) + 1 ELSE Least(later)
        own   == n - Due(list, at - 1)
        rest  == IF later = {} THEN list ELSE [list EXCEPT ![at].expires = @ - own]
    IN  InsertAt(rest, at, [proc |-> p, expires |-> own])

\* Variant for the mutation runs: the timer behind the deleted one fires early.
DelTimerForgetsNext(list, p) == SelectSeq(list, LAMBDA t : t.proc # p)

\* Variant for the mutation runs: a timer without time left stays linked.
DelTimerKeepsExpired(list, p) ==
    SelectSeq(list, LAMBDA t : t.proc # p \/ t.expires = 0)

\* del_timer: what the timer had left goes to the timer behind it.
DelTimer(list, p) ==
    LET at   == {i \in DOMAIN list : list[i].proc = p}
        i    == Least(at)
        rest == IF i = Len(list) THEN list
                ELSE [list EXCEPT ![i + 1].expires = @ + list[i].expires]
    IN  IF at = {} THEN list ELSE RemoveAt(rest, i)

\* do_sleep with a time n > 0.
Sleep(p, n) ==
    /\ phase[p] = "out"
    /\ phase' = [phase EXCEPT ![p] = "asleep"]
    /\ timer_list' = AddTimer(timer_list, p, n)

\* do_kill wakes the sleeper; its timer stays linked until the sleeper runs.
Kill(p) ==
    /\ phase[p] = "asleep"
    /\ phase' = [phase EXCEPT ![p] = "woken"]
    /\ UNCHANGED timer_list

\* Back in do_sleep after schedule().
Return(p) ==
    /\ phase[p] = "woken"
    /\ phase' = [phase EXCEPT ![p] = "out"]
    /\ timer_list' = DelTimer(timer_list, p)

\* Variant for the mutation runs: only the head is looked at.
FiringHeadOnly(list) == {i \in {1} : list[1].expires = 0}

\* The timers that fire, in the list after the head has been decremented: the
\* leading ones that have no time left.
Firing(list) == {i \in DOMAIN list : \A j \in 1..i : list[j].expires = 0}

\* run_timer_list: the processes of the firing timers are woken (a process
\* that is awake already only gives a warning) and the timers are unlinked.
Tick ==
    IF timer_list = << >>
    THEN UNCHANGED vars
    ELSE LET ticked == [timer_list EXCEPT ![1].expires = @ - 1]
             firing == Firing(ticked)
             woken  == {ticked[i].proc : i \in firing}
         IN  /\ timer_list' = SubSeq(ticked, Cardinality(firing) + 1, Len(ticked))
             /\ phase' = [p \in Procs |-> IF p \in woken THEN "woken" ELSE phase[p]]

Next ==
    \/ \E p \in Procs : (\E n \in 1..MaxSleep : Sleep(p, n)) \/ Kill(p) \/ Return(p)
    \/ Tick

Spec == Init /\ [][Next]_vars

-----------------------------------------------------------------------------

\* The head of the list always has time left (run_timer_list asserts it before
\* it decrements), and no process has two timers, whatever was deleted between
\* two ticks.
HeadHasTime ==
    /\ timer_list # << >> => timer_list[1].expires > 0
    /\ Cardinality(Linked) = Len(timer_list)

\* A process asleep in do_sleep has a timer, and one outside has none (it
\* would lie in a stack frame that is gone).
TimersMatchSleepers ==
    \A p \in Procs : /\ phase[p] = "asleep" => p \in Linked
                     /\ p \in Linked => phase[p] # "out"

\* The list keeps what the timers promise: each process is woken at the very
\* tick it asked for, whatever others add, delete and let fire in between.
Abstract == INSTANCE Timers WITH
    remaining <- [p \in Procs |-> IF p \in Linked THEN Due(timer_list, IndexOf(p)) ELSE 0]

KeepsPromise == Abstract!Spec
=============================================================================
