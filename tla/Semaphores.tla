----------------------------- MODULE Semaphores -----------------------------
(***************************************************************************)
(* Kernel semaphores (kern/sync/sem.c, kern/sync/wait.c) among kernel      *)
(* threads on one CPU.  The kernel is not preemptive: the thread on the    *)
(* CPU keeps it until a "down" blocks it or it calls do_sleep; interrupts  *)
(* in between only make sleepers runnable.  WT_KSEM is not interruptible,  *)
(* so do_kill wakes nobody who waits for a semaphore.                      *)
(***************************************************************************)
EXTENDS Integers, Sequences, FiniteSets, SequencesExt

CONSTANTS
    Threads, \* the kernel threads
    Nobody   \* on the CPU when none of them is

ASSUME SemaphoresAssumption == Nobody \notin Threads

VARIABLES
    value,   \* sem->value of each semaphore
    waiting, \* the threads in sem->wait_queue of each semaphore, the oldest first
    cpu,     \* the thread on the CPU, or Nobody
    ready,   \* the runnable threads in the run queue
    asleep   \* the threads in do_sleep

semvars == << value, waiting, cpu, ready, asleep >>

\* sem_init for the semaphores of "initially" with their values; all threads
\* have been created.
SemInit(initially) ==
    /\ value = initially
    /\ waiting = [s \in DOMAIN initially |-> << >>]
    /\ cpu = Nobody
    /\ ready = Threads
    /\ asleep = {}

\* up: a waiting thread gets the unit, and the value does not change.
Up(s) ==
    /\ IF waiting[s] = << >>
       THEN /\ value' = [value EXCEPT ![s] = @ + 1]
            /\ UNCHANGED << waiting, ready >>
       ELSE /\ waiting' = [waiting EXCEPT ![s] = Tail(@)]
            /\ ready' = ready \cup {Head(waiting[s])}
            /\ UNCHANGED value
    /\ UNCHANGED << cpu, asleep >>

\* Variant for the mutation runs: the newest waiter is put in front.
DownInFront(s) ==
    /\ IF value[s] > 0
       THEN /\ value' = [value EXCEPT ![s] = @ - 1]
            /\ UNCHANGED << waiting, cpu >>
       ELSE /\ waiting' = [waiting EXCEPT ![s] = << cpu >> \o @]
            /\ cpu' = Nobody
            /\ UNCHANGED value
    /\ UNCHANGED << ready, asleep >>

\* down by the thread on the CPU, which blocks if there is no unit.  When it
\* runs again it has left the queue and goes on behind the call.
Down(s) ==
    /\ IF value[s] > 0
       THEN /\ value' = [value EXCEPT ![s] = @ - 1]
            /\ UNCHANGED << waiting, cpu >>
       ELSE /\ waiting' = [waiting EXCEPT ![s] = Append(@, cpu)]
            /\ cpu' = Nobody
            /\ UNCHANGED value
    /\ UNCHANGED << ready, asleep >>

\* do_sleep by the thread on the CPU.
SleepOnTimer ==
    /\ cpu' = Nobody
    /\ asleep' = asleep \cup {cpu}
    /\ UNCHANGED << value, waiting, ready >>

\* The thread on the CPU returns from its function, and exits.
Quit ==
    /\ cpu' = Nobody
    /\ UNCHANGED << value, waiting, ready, asleep >>

\* The timer of t fires, or t is killed.  A call of do_sleep promises no more
\* than that it ends: SLEEP_TIME is not counted.
TimerFires(t) ==
    /\ t \in asleep
    /\ asleep' = asleep \ {t}
    /\ ready' = ready \cup {t}
    /\ UNCHANGED << value, waiting, cpu >>

\* schedule() picks a runnable thread.
Dispatch(t) ==
    /\ cpu = Nobody
    /\ t \in ready
    /\ cpu' = t
    /\ ready' = ready \ {t}
    /\ UNCHANGED << value, waiting, asleep >>

\* t waits for the semaphore s.
Blocked(t, s) == t \in ToSet(waiting[s])
=============================================================================
