----------------------------- MODULE PhilMonitor ----------------------------
(***************************************************************************)
(* The philosophers with a monitor (kern/sync/check_sync.c): state_condvar *)
(* is what the monitor protects, and philosopher i waits for condition i.  *)
(* ph[i] is the place of philosopher i in the code of the philosophers:    *)
(*   think       at the head of the loop, about to sleep or to quit        *)
(*   take, hungry, test, check, leave1       in phi_take_forks_condvar     *)
(*   eat         behind it, about to sleep                                 *)
(*   put, full, left, right, leave2          in phi_put_forks_condvar      *)
(*   quit        has returned                                              *)
(* While he is inside cond_wait or cond_signal, at[i] of the monitor tells *)
(* where, and ph[i] is the place behind the call.                          *)
(***************************************************************************)
EXTENDS Integers, Sequences, FiniteSets

CONSTANTS
    N,       \* the number of philosophers
    TIMES,   \* how often each of them eats
    Nobody,  \* on the CPU when none of them is
    Mutex,   \* mtp->mutex
    NextSem  \* mtp->next

Phils == 0..N-1

ASSUME PhilMonitorAssumption ==
    /\ N \in Nat \ {0}
    /\ Nobody \notin Phils
    /\ Mutex # NextSem /\ Mutex \notin Phils /\ NextSem \notin Phils

VARIABLES
    value, waiting, cpu, ready, asleep, \* of the semaphores
    count, next_count, at, on,          \* of the monitor
    state, \* state_condvar
    ph,    \* the place of each philosopher, see above
    iter   \* how often he has begun to think

M == INSTANCE Monitor WITH Threads <- Phils, Conds <- Phils

monvars == << count, next_count, at, on >>
syncvars == << value, waiting, cpu, ready, asleep, monvars >>
vars == << syncvars, state, ph, iter >>

LEFT(i) == (i - 1 + N) % N
RIGHT(i) == (i + 1) % N

Init ==
    /\ M!MonitorInit
    /\ state = [i \in Phils |-> "THINKING"]
    /\ ph = [i \in Phils |-> "think"]
    /\ iter = [i \in Phils |-> 0]

Move(i, from, to) ==
    /\ cpu = i
    /\ at[i] \in {"outside", "inside"}
    /\ ph[i] = from
    /\ ph' = [ph EXCEPT ![i] = to]

SetState(i, s) == state' = [state EXCEPT ![i] = s]

\* Variant for the mutation runs: only the right neighbour is looked at.
MayEatRightOnly(j) == state[j] = "HUNGRY" /\ state[RIGHT(j)] # "EATING"

MayEat(j) == state[j] = "HUNGRY" /\ state[LEFT(j)] # "EATING" /\ state[RIGHT(j)] # "EATING"

\* Variant for the mutation runs: the philosopher tested is not told.
PhiTestSilent(i, j) ==
    /\ IF MayEat(j) THEN SetState(j, "EATING") ELSE UNCHANGED state
    /\ UNCHANGED syncvars

\* Variant for the mutation runs: the philosopher told is not entered as eating.
PhiTestUnmarked(i, j) ==
    /\ IF MayEat(j) /\ count[j] = 0 THEN SetState(j, "EATING") ELSE UNCHANGED state
    /\ IF MayEat(j) /\ count[j] > 0 THEN M!Signal(i, j) ELSE UNCHANGED syncvars

\* phi_test_condvar(j) by i: j is entered as eating before he is signalled.
PhiTest(i, j) ==
    /\ IF MayEat(j) THEN SetState(j, "EATING") ELSE UNCHANGED state
    /\ IF MayEat(j) /\ count[j] > 0 THEN M!Signal(i, j) ELSE UNCHANGED syncvars

\* Variant for the mutation runs: signallers are forgotten.
LeaveMutexOnly(i) == M!Move(i, "inside", "outside") /\ M!Up(Mutex) /\ UNCHANGED << count, next_count, on >>

\* The end of both routines, which pass the monitor on.
Leave(i) == M!Leave(i)

Sleep(i, from, to) == Move(i, from, to) /\ M!SleepOnTimer /\ UNCHANGED << monvars, state, iter >>

\* The head of the loop of philosopher_using_condvar.
Think(i) ==
    \/ /\ iter[i] < TIMES
       /\ Sleep(i, "think", "take")
    \/ /\ iter[i] = TIMES
       /\ Move(i, "think", "quit")
       /\ M!Quit
       /\ UNCHANGED << monvars, state, iter >>

\* phi_take_forks_condvar.
TakeForks(i) ==
    \/ Move(i, "take", "hungry") /\ M!Enter(i) /\ UNCHANGED << state, iter >>
    \/ Move(i, "hungry", "test") /\ SetState(i, "HUNGRY") /\ UNCHANGED << syncvars, iter >>
    \/ Move(i, "test", "check") /\ PhiTest(i, i) /\ UNCHANGED iter
    \/ /\ Move(i, "check", "leave1")
       /\ IF state[i] # "EATING" THEN M!Wait(i, i) ELSE UNCHANGED syncvars
       /\ UNCHANGED << state, iter >>
    \/ Move(i, "leave1", "eat") /\ Leave(i) /\ UNCHANGED << state, iter >>

Eat(i) == Sleep(i, "eat", "put")

\* phi_put_forks_condvar; the next turn of the loop begins.
PutForks(i) ==
    \/ Move(i, "put", "full") /\ M!Enter(i) /\ UNCHANGED << state, iter >>
    \/ Move(i, "full", "left") /\ SetState(i, "THINKING") /\ UNCHANGED << syncvars, iter >>
    \/ Move(i, "left", "right") /\ PhiTest(i, LEFT(i)) /\ UNCHANGED iter
    \/ Move(i, "right", "leave2") /\ PhiTest(i, RIGHT(i)) /\ UNCHANGED iter
    \/ /\ Move(i, "leave2", "think")
       /\ Leave(i)
       /\ iter' = [iter EXCEPT ![i] = @ + 1]
       /\ UNCHANGED state

Step(i) ==
    \/ Think(i)
    \/ TakeForks(i)
    \/ Eat(i)
    \/ PutForks(i)
    \/ M!MonitorStep(i) /\ UNCHANGED << state, ph, iter >>

Elsewhere(i) ==
    (M!TimerFires(i) \/ M!Dispatch(i)) /\ UNCHANGED << monvars, state, ph, iter >>

\* All have quit, and the kernel has other things to do.
Over == (\A i \in Phils : ph[i] = "quit") /\ UNCHANGED vars

Next ==
    \/ \E i \in Phils : Step(i)
    \/ \E i \in Phils : Elsewhere(i)
    \/ Over

Spec == Init /\ [][Next]_vars

\* Timers fire, and the scheduler passes nobody over for ever.
Fairness == \A i \in Phils : WF_vars(Step(i)) /\ SF_vars(Elsewhere(i))

FairSpec == Spec /\ Fairness

-----------------------------------------------------------------------------

\* When cond_wait returns, the philosopher may eat: phi_take_forks_condvar is
\* right to test his state with an "if" and not in a loop.
WokenMayEat ==
    \A i \in Phils :
        /\ ph[i] = "leave1"
        /\ at[i] \in {"wait_ret", "inside"}
        /\ i \in M!Active
        => state[i] = "EATING"

\* The states change as at the table of the books.
Table == INSTANCE Dining WITH N <- N, state <- state

IsDining == Table!Spec

\* The philosophers use the monitor as module Monitor lets threads use it, so
\* what is checked there of every client holds of them.
UsesMonitor == M!Spec

\* Nobody starves: all eat TIMES times and quit.
AllQuit == <>(\A i \in Phils : ph[i] = "quit")
=============================================================================
