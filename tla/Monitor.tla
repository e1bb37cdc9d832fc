------------------------------- MODULE Monitor ------------------------------
(***************************************************************************)
(* Monitors (kern/sync/monitor.c) built from semaphores.  A routine of the *)
(* monitor begins with down(mutex) and ends with an up of "next" or of     *)
(* mutex; inside, a thread waits for and signals conditions as it likes.   *)
(* at[t] is the place of t:                                                *)
(*   outside     in no routine of the monitor                              *)
(*   inside      in a routine, behind down(mutex), cond_wait, cond_signal  *)
(*   wait_up     in cond_wait, before the up                               *)
(*   wait_down   in cond_wait, before down(cv.sem)                         *)
(*   wait_ret    in cond_wait, behind it                                   *)
(*   signal_up, signal_down, signal_ret   likewise in cond_signal          *)
(* A thread that a "down" has blocked stands behind it already.            *)
(***************************************************************************)
EXTENDS Semaphores

CONSTANTS
    Conds, \* the condition variables, and their semaphores
    Mutex, \* mtp->mutex
    NextSem \* mtp->next

\* monitor_init asserts that there is a condition.
ASSUME MonitorAssumption ==
    Mutex # NextSem /\ Mutex \notin Conds /\ NextSem \notin Conds /\ Conds # {}

VARIABLES
    count,      \* cv->count of each condition
    next_count, \* mtp->next_count
    at,         \* the place of each thread, see above
    on          \* the condition of the call it is in, or the last one

monvars == << count, next_count, at, on >>
vars == << semvars, monvars >>

\* monitor_init.
MonitorInit ==
    /\ SemInit([s \in Conds \cup {Mutex, NextSem} |-> IF s = Mutex THEN 1 ELSE 0])
    /\ count = [c \in Conds |-> 0]
    /\ next_count = 0
    /\ at = [t \in Threads |-> "outside"]
    /\ on = [t \in Threads |-> CHOOSE c \in Conds : TRUE]

Move(t, from, to) ==
    /\ cpu = t
    /\ at[t] = from
    /\ at' = [at EXCEPT ![t] = to]

Enter(t) ==
    /\ Move(t, "outside", "inside")
    /\ Down(Mutex)
    /\ UNCHANGED << count, next_count, on >>

\* Variant for the mutation runs: signallers are forgotten.
PassOnMutexOnly == Up(Mutex)

\* Variant for the mutation runs: only signallers are thought of.
PassOnNextOnly == Up(NextSem)

\* Who gives the monitor up passes it to a signaller if there is one.
PassOn == IF next_count > 0 THEN Up(NextSem) ELSE Up(Mutex)

Leave(t) ==
    /\ Move(t, "inside", "outside")
    /\ PassOn
    /\ UNCHANGED << count, next_count, on >>

\* cond_wait.
Wait(t, c) ==
    /\ Move(t, "inside", "wait_up")
    /\ on' = [on EXCEPT ![t] = c]
    /\ count' = [count EXCEPT ![c] = @ + 1]
    /\ UNCHANGED << next_count, semvars >>

WaitUp(t) ==
    /\ Move(t, "wait_up", "wait_down")
    /\ PassOn
    /\ UNCHANGED << count, next_count, on >>

WaitDown(t) ==
    /\ Move(t, "wait_down", "wait_ret")
    /\ Down(on[t])
    /\ UNCHANGED << count, next_count, on >>

\* Variant for the mutation runs: the count is not taken back.
WaitReturnKeepsCount(t) ==
    /\ Move(t, "wait_ret", "inside")
    /\ UNCHANGED << count, next_count, on, semvars >>

WaitReturn(t) ==
    /\ Move(t, "wait_ret", "inside")
    /\ count' = [count EXCEPT ![on[t]] = @ - 1]
    /\ UNCHANGED << next_count, on, semvars >>

\* cond_signal when somebody waits; it does nothing otherwise.
Signal(t, c) ==
    /\ count[c] > 0
    /\ Move(t, "inside", "signal_up")
    /\ on' = [on EXCEPT ![t] = c]
    /\ next_count' = next_count + 1
    /\ UNCHANGED << count, semvars >>

SignalUp(t) ==
    /\ Move(t, "signal_up", "signal_down")
    /\ Up(on[t])
    /\ UNCHANGED << count, next_count, on >>

\* Variant for the mutation runs: the signaller goes on at once.
SignalNoDown(t) ==
    /\ Move(t, "signal_down", "signal_ret")
    /\ UNCHANGED << count, next_count, on, semvars >>

SignalDown(t) ==
    /\ Move(t, "signal_down", "signal_ret")
    /\ Down(NextSem)
    /\ UNCHANGED << count, next_count, on >>

SignalReturn(t) ==
    /\ Move(t, "signal_ret", "inside")
    /\ next_count' = next_count - 1
    /\ UNCHANGED << count, on, semvars >>

\* What cond_wait and cond_signal go on with by themselves.
MonitorStep(t) ==
    WaitUp(t) \/ WaitDown(t) \/ WaitReturn(t) \/ SignalUp(t) \/ SignalDown(t) \/ SignalReturn(t)

-----------------------------------------------------------------------------
(* Threads that use the monitor in every way.                              *)

Step(t) ==
    \/ Enter(t)
    \/ Leave(t)
    \/ \E c \in Conds : Wait(t, c) \/ Signal(t, c)
    \/ MonitorStep(t)

\* Outside the monitor a thread may sleep or come to its end.
Pause(t) == cpu = t /\ at[t] = "outside" /\ (SleepOnTimer \/ Quit) /\ UNCHANGED monvars

Next ==
    \/ \E t \in Threads : Step(t) \/ Pause(t)
    \/ \E t \in Threads : (TimerFires(t) \/ Dispatch(t)) /\ UNCHANGED monvars

Spec == MonitorInit /\ [][Next]_vars

\* The thread on the CPU goes on, the routines of the monitor end (those of
\* check_sync.c have no loops), and the scheduler passes nobody over for ever.
Fairness ==
    /\ \A t \in Threads : WF_vars(Step(t)) /\ SF_vars(Leave(t))
    /\ \A t \in Threads : SF_vars(Dispatch(t) /\ UNCHANGED monvars)

FairSpec == Spec /\ Fairness

-----------------------------------------------------------------------------

\* The threads that may work on what the monitor protects: those behind a
\* "down" that has given them the monitor, until they pass it on.
Active ==
    {t \in Threads :
       \/ at[t] \in {"wait_up", "signal_up"}
       \/ at[t] = "inside" /\ ~Blocked(t, Mutex)
       \/ at[t] = "wait_ret" /\ ~Blocked(t, on[t])
       \/ at[t] = "signal_ret" /\ ~Blocked(t, NextSem)}

\* Only one thread at a time is active in the monitor.
OneActive == Cardinality(Active) <= 1

\* The counters count: next_count the signallers, cv->count the waiters.
CountersExact ==
    /\ next_count = Cardinality({t \in Threads : at[t] \in {"signal_up", "signal_down", "signal_ret"}})
    /\ \A c \in Conds :
         count[c] = Cardinality({t \in Threads :
                       at[t] \in {"wait_up", "wait_down", "wait_ret"} /\ on[t] = c})

\* A thread about to block, of which there is one at most, is behind the queue.
Behind(S, queue) == IF S = {} THEN queue ELSE Append(queue, CHOOSE t \in S : TRUE)

\* What the monitor of the books is made of.
Owner == IF Active = {} THEN Nobody ELSE CHOOSE t \in Active : TRUE
Urgent == Behind({t \in Threads : at[t] = "signal_down"}, waiting[NextSem])
CondQueues ==
    [c \in Conds |-> Behind({t \in Threads : at[t] = "wait_down" /\ on[t] = c}, waiting[c])]

\* The semaphores implement the monitor of the books: see HoareMonitor.
Hoare == INSTANCE HoareMonitor WITH
    owner <- Owner, entry <- waiting[Mutex], urgent <- Urgent, waiters <- CondQueues

IsHoareMonitor == Hoare!Spec

\* A thread that has signalled gets the monitor back.
SignallerReturns == \A t \in Threads : at[t] = "signal_down" ~> at[t] = "inside"

\* A thread that wants to enter gets in.
EntrantGetsIn == \A t \in Threads : Blocked(t, Mutex) ~> ~Blocked(t, Mutex)
=============================================================================
