------------------------------ MODULE Process ------------------------------
(***************************************************************************)
(* The process core of the ucore kernel of lab8: life cycle of processes   *)
(* (kern/process/proc.c), run queue, wake-up and timers                    *)
(* (kern/schedule/sched.c), return from traps (kern/trap/trap.c) and the   *)
(* keyboard device on which processes block (kern/fs/devs/dev_stdin.c).    *)
(*                                                                         *)
(* One CPU.  A step is what the code does between two points at which      *)
(* something else may happen: another process runs only when "current"     *)
(* calls schedule(), an interrupt comes only while interrupts are enabled. *)
(* The kernel itself is not preemptive.  pc[p] is the place where p stands:*)
(*   user         in user mode                                             *)
(*   trapret      in trap(), after trap_dispatch                           *)
(*   wait         at the label "repeat" of do_wait                         *)
(*   xxx_sched    about to call schedule()                                 *)
(*   xxx_ret      back from the schedule() in do_wait, do_sleep or         *)
(*                dev_stdin_read                                           *)
(*   idle         in the loop of cpu_idle                                  *)
(*   init_main    initproc before it has created user_main                 *)
(*   init_done    initproc after do_wait has found no child                *)
(*   panic        the kernel has stopped                                   *)
(*   dead         the process has called schedule() for the last time      *)
(*   none         the slot holds no process                                *)
(***************************************************************************)
EXTENDS Integers, FiniteSets

CONSTANTS
    Procs,        \* process slots; a slot in use stands for one pid
    Idle,         \* idleproc
    InitProc,     \* initproc
    AnyChild,     \* the argument 0 of do_wait: any child
    Killable,     \* the processes that user programs pass to kill
    MaxTimeSlice, \* rq->max_time_slice
    MaxSleep,     \* largest argument of sleep (a bound of the model)
    StdinSize     \* STDIN_BUFSIZE

ASSUME ProcessAssumption ==
    /\ Idle \in Procs
    /\ InitProc \in Procs
    /\ Idle # InitProc
    /\ AnyChild \notin Procs
    /\ Killable \subseteq Procs \ {Idle}
    /\ MaxTimeSlice \in Nat \ {0}
    /\ MaxSleep \in Nat
    /\ StdinSize \in Nat \ {0}

VARIABLES
    current,      \* the process on the CPU
    state,        \* proc->state; FREE for a slot without process
    wait_state,   \* proc->wait_state
    exiting,      \* PF_EXITING \in proc->flags
    need_resched, \* proc->need_resched
    time_slice,   \* proc->time_slice
    parent,       \* proc->parent
    runq,         \* the processes linked in the run queue
    pc,           \* where the process stands, see above
    waitfor,      \* the argument of the do_wait the process is in, AnyChild outside
    timer,        \* ticks until the timer of the process fires, 0 if it has none
    kbdq,         \* the processes in the wait queue of stdin
    kbdflag,      \* wait->wakeup_flags of its entry there, INTERRUPTED outside
    unread        \* p_wpos - p_rpos

vars == << current, state, wait_state, exiting, need_resched, time_slice,
           parent, runq, pc, waitfor, timer, kbdq, kbdflag, unread >>

Live == {p \in Procs : state[p] # "FREE"}
Children(p) == {c \in Procs \ {Idle} : state[c] # "FREE" /\ parent[c] = p}
Panicked == pc[InitProc] = "panic"

PCs == { "user", "trapret", "wait", "resched", "wait_sched", "wait_ret",
         "sleep_sched", "sleep_ret", "kbd_sched", "kbd_ret", "loop_sched",
         "exit_sched", "idle", "init_main", "init_done", "panic", "dead", "none" }

\* Where a process goes on after the schedule() it stands at.
AfterSchedule == [ resched     |-> "user",
                   wait_sched  |-> "wait_ret",
                   sleep_sched |-> "sleep_ret",
                   kbd_sched   |-> "kbd_ret",
                   loop_sched  |-> "wait",
                   idle        |-> "idle",
                   exit_sched  |-> "dead" ]

Init ==
    /\ current = Idle
    /\ state = [p \in Procs |-> IF p \in {Idle, InitProc} THEN "RUNNABLE" ELSE "FREE"]
    /\ wait_state = [p \in Procs |-> "none"]
    /\ exiting = [p \in Procs |-> FALSE]
    /\ need_resched = [p \in Procs |-> p = Idle]
    /\ time_slice = [p \in Procs |-> IF p = InitProc THEN MaxTimeSlice ELSE 0]
    /\ parent = [p \in Procs |-> Idle]
    /\ runq = {InitProc}
    /\ pc = [p \in Procs |-> CASE p = Idle -> "idle"
                               [] p = InitProc -> "init_main"
                               [] OTHER -> "none"]
    /\ waitfor = [p \in Procs |-> AnyChild]
    /\ timer = [p \in Procs |-> 0]
    /\ kbdq = {}
    /\ kbdflag = [p \in Procs |-> "INTERRUPTED"]
    /\ unread = 0

-----------------------------------------------------------------------------
(* Run queue and wake-up.                                                  *)

\* Variant for the mutation runs: the slice is added instead of refilled.
EnqueuedAdds(ts, E) ==
    [p \in Procs |-> IF p \in E THEN ts[p] + MaxTimeSlice ELSE ts[p]]

\* sched_class_enqueue for the processes of E, over the time slices ts.
Enqueued(ts, E) ==
    [p \in Procs |-> IF p \in E /\ ts[p] = 0 THEN MaxTimeSlice ELSE ts[p]]

\* Variant for the mutation runs: wait_state is not reset.
WakeupKeepsWaitState(W, st, ts) ==
    LET asleep == {p \in W : st[p] # "RUNNABLE"}
    IN  /\ state' = [p \in Procs |-> IF p \in asleep THEN "RUNNABLE" ELSE st[p]]
        /\ wait_state' = wait_state
        /\ runq' = runq \cup (asleep \ {current})
        /\ time_slice' = Enqueued(ts, asleep \ {current})

\* Variant for the mutation runs: without the test "proc != current".
WakeupEnqueuesCurrent(W, st, ts) ==
    LET asleep == {p \in W : st[p] # "RUNNABLE"}
    IN  /\ state' = [p \in Procs |-> IF p \in asleep THEN "RUNNABLE" ELSE st[p]]
        /\ wait_state' = [p \in Procs |-> IF p \in asleep THEN "none" ELSE wait_state[p]]
        /\ runq' = runq \cup asleep
        /\ time_slice' = Enqueued(ts, asleep)

\* wakeup_proc for every process of W, with st and ts for the states and time
\* slices before it.  A process that is already runnable only gets a warning;
\* current is not enqueued, the schedule() it is about to call does that.
Wakeup(W, st, ts) ==
    LET asleep == {p \in W : st[p] # "RUNNABLE"}
    IN  /\ state' = [p \in Procs |-> IF p \in asleep THEN "RUNNABLE" ELSE st[p]]
        /\ wait_state' = [p \in Procs |-> IF p \in asleep THEN "none" ELSE wait_state[p]]
        /\ runq' = runq \cup (asleep \ {current})
        /\ time_slice' = Enqueued(ts, asleep \ {current})

Goto(p, there) == pc' = [pc EXCEPT ![p] = there]

\* current puts itself to sleep; it is still on the CPU until schedule().
Sleep(p, why, there) ==
    /\ state' = [state EXCEPT ![p] = "SLEEPING"]
    /\ wait_state' = [wait_state EXCEPT ![p] = why]
    /\ Goto(p, there)

\* schedule(): any process of the run queue may have the smallest stride.
ScheduleTo(next) ==
    LET p     == current
        ready == IF state[p] = "RUNNABLE" /\ p # Idle THEN runq \cup {p} ELSE runq
    IN  /\ pc[p] \in DOMAIN AfterSchedule
        /\ pc[p] = "idle" => need_resched[p]
        /\ next \in (IF ready = {} THEN {Idle} ELSE ready)
        /\ need_resched' = [need_resched EXCEPT ![p] = FALSE]
        /\ time_slice' = Enqueued(time_slice, ready \ runq)
        /\ runq' = ready \ {next}
        /\ current' = next
        /\ Goto(p, AfterSchedule[pc[p]])
        /\ UNCHANGED << state, wait_state, exiting, parent, waitfor, timer,
                        kbdq, kbdflag, unread >>

-----------------------------------------------------------------------------
(* Exit and fork.                                                          *)

\* Variant for the mutation runs: initproc is not told of zombies it inherits.
WokenByExitParentOnly(p) == {q \in {parent[p]} : wait_state[q] = "CHILD"}

\* Variant for the mutation runs: initproc is only told of zombies it inherits.
WokenByExitHeirOnly(p) ==
    {q \in {InitProc} : wait_state[q] = "CHILD" /\ \E c \in Children(p) : state[c] = "ZOMBIE"}

\* Whom do_exit wakes: the parent, and initproc if it inherits a zombie.
WokenByExit(p) ==
    {q \in Procs :
       /\ wait_state[q] = "CHILD"
       /\ \/ q = parent[p]
          \/ q = InitProc /\ \E c \in Children(p) : state[c] = "ZOMBIE"}

\* Variants for the mutation runs: children stay with the dead parent, or go
\* to idleproc.
ReparentedNot(p) == parent
ReparentedToIdle(p) == [c \in Procs |-> IF c \in Children(p) THEN Idle ELSE parent[c]]

\* The parents after the exit of p: its children go to initproc.
Reparented(p) ==
    [c \in Procs |-> IF c \in Children(p) THEN InitProc ELSE parent[c]]

\* do_exit of current, which stands anywhere in the kernel.
DoExit(p) ==
    IF p = InitProc
    THEN /\ Goto(p, "panic")
         /\ UNCHANGED << state, wait_state, runq, time_slice, parent >>
    ELSE /\ Wakeup(WokenByExit(p), [state EXCEPT ![p] = "ZOMBIE"], time_slice)
         /\ parent' = Reparented(p)
         /\ Goto(p, "exit_sched")

\* The child c starts in user mode (forkret returns to it directly).  The
\* process p goes on at "there".
Fork(p, c, there) ==
    /\ state[c] = "FREE"
    /\ state' = [state EXCEPT ![c] = "RUNNABLE"]
    /\ wait_state' = [wait_state EXCEPT ![c] = "none"]
    /\ exiting' = [exiting EXCEPT ![c] = FALSE]
    /\ need_resched' = [need_resched EXCEPT ![c] = FALSE]
    /\ time_slice' = [time_slice EXCEPT ![c] = MaxTimeSlice]
    /\ parent' = [parent EXCEPT ![c] = p]
    /\ runq' = runq \cup {c}
    /\ pc' = [pc EXCEPT ![c] = "user", ![p] = there]
    /\ UNCHANGED << current, waitfor, timer, kbdq, kbdflag, unread >>

\* initproc creates user_main and enters the loop around do_wait(0, NULL); the
\* threads of check_sync, its other children, are those of PhilMonitor.
InitMain(c) ==
    /\ current = InitProc
    /\ pc[InitProc] = "init_main"
    /\ Fork(InitProc, c, "wait")

\* A system call of current from user mode.
Syscall(p) == p = current /\ pc[p] = "user"

SysFork(p, c) == Syscall(p) /\ Fork(p, c, "trapret")

\* do_fork runs out of process slots or of memory, or the call is one that
\* changes nothing here (getpid and the like).
SysNothing(p) ==
    /\ Syscall(p)
    /\ Goto(p, "trapret")
    /\ UNCHANGED << current, state, wait_state, exiting, need_resched, time_slice,
                    parent, runq, waitfor, timer, kbdq, kbdflag, unread >>

SysExit(p) ==
    /\ Syscall(p)
    /\ DoExit(p)
    /\ UNCHANGED << current, exiting, need_resched, waitfor, timer, kbdq,
                    kbdflag, unread >>

-----------------------------------------------------------------------------
(* do_wait.                                                                *)

SysWait(p, target) ==
    /\ Syscall(p)
    /\ waitfor' = [waitfor EXCEPT ![p] = target]
    /\ Goto(p, "wait")
    /\ UNCHANGED << current, state, wait_state, exiting, need_resched, time_slice,
                    parent, runq, timer, kbdq, kbdflag, unread >>

\* The children that the do_wait of p asks for.
Awaited(p) == {c \in Children(p) : waitfor[p] \in {AnyChild, c}}

DoWait(p) == p = current /\ pc[p] = "wait"

\* A zombie is found: its proc_struct and kernel stack are freed.  What is left
\* in a freed slot is fixed, nothing reads it before alloc_proc sets it again.
WaitReap(p, c) ==
    /\ DoWait(p)
    /\ c \in Awaited(p)
    /\ state[c] = "ZOMBIE"
    /\ state' = [state EXCEPT ![c] = "FREE"]
    /\ exiting' = [exiting EXCEPT ![c] = FALSE]
    /\ need_resched' = [need_resched EXCEPT ![c] = FALSE]
    /\ time_slice' = [time_slice EXCEPT ![c] = 0]
    /\ parent' = [parent EXCEPT ![c] = Idle]
    /\ waitfor' = [waitfor EXCEPT ![p] = AnyChild]
    /\ pc' = [pc EXCEPT ![c] = "none",
                        ![p] = IF p = InitProc THEN "loop_sched" ELSE "trapret"]
    /\ UNCHANGED << current, wait_state, runq, timer, kbdq, kbdflag, unread >>

\* There is such a child, and none is a zombie.
WaitSleep(p) ==
    /\ DoWait(p)
    /\ Awaited(p) # {}
    /\ \A c \in Awaited(p) : state[c] # "ZOMBIE"
    /\ Sleep(p, "CHILD", "wait_sched")
    /\ UNCHANGED << current, exiting, need_resched, time_slice, parent, runq,
                    waitfor, timer, kbdq, kbdflag, unread >>

\* -E_BAD_PROC: for initproc this ends the loop of init_main.
WaitNoChild(p) ==
    /\ DoWait(p)
    /\ Awaited(p) = {}
    /\ Goto(p, IF p = InitProc THEN "init_done" ELSE "trapret")
    /\ waitfor' = [waitfor EXCEPT ![p] = AnyChild]
    /\ UNCHANGED << current, state, wait_state, exiting, need_resched, time_slice,
                    parent, runq, timer, kbdq, kbdflag, unread >>

\* Variant for the mutation runs: PF_EXITING is not looked at.
WaitReturnUnchecked(p) ==
    /\ p = current
    /\ pc[p] = "wait_ret"
    /\ Goto(p, "wait")
    /\ UNCHANGED << current, state, wait_state, exiting, need_resched, time_slice,
                    parent, runq, waitfor, timer, kbdq, kbdflag, unread >>

\* Back from schedule(): a killed process exits here, others try again.
WaitReturn(p) ==
    /\ p = current
    /\ pc[p] = "wait_ret"
    /\ IF exiting[p]
       THEN /\ DoExit(p)
            /\ waitfor' = [waitfor EXCEPT ![p] = AnyChild]
       ELSE /\ Goto(p, "wait")
            /\ UNCHANGED << state, wait_state, runq, time_slice, parent, waitfor >>
    /\ UNCHANGED << current, exiting, need_resched, timer, kbdq, kbdflag, unread >>

\* init_main returns to kernel_thread_entry, which calls do_exit.
InitReturn ==
    /\ current = InitProc
    /\ pc[InitProc] = "init_done"
    /\ DoExit(InitProc)
    /\ UNCHANGED << current, exiting, need_resched, waitfor, timer, kbdq,
                    kbdflag, unread >>

-----------------------------------------------------------------------------
(* Kill, yield, sleep, and reading the keyboard.                           *)

\* Variant for the mutation runs: without the test of wait_state.
WokenByKillAlways(q) == {r \in {q} : ~exiting[r]}

\* A process in an interruptible wait is woken; WT_CHILD, WT_TIMER and WT_KBD
\* all contain WT_INTERRUPTED.  Killing a killed process does nothing.
WokenByKill(q) == {r \in {q} : ~exiting[r] /\ wait_state[r] # "none"}

SysKill(p, q) ==
    /\ Syscall(p)
    /\ state[q] # "FREE"
    /\ exiting' = [exiting EXCEPT ![q] = TRUE]
    /\ Wakeup(WokenByKill(q), state, time_slice)
    /\ Goto(p, "trapret")
    /\ UNCHANGED << current, need_resched, parent, waitfor, timer, kbdq, kbdflag,
                    unread >>

SysYield(p) ==
    /\ Syscall(p)
    /\ need_resched' = [need_resched EXCEPT ![p] = TRUE]
    /\ Goto(p, "trapret")
    /\ UNCHANGED << current, state, wait_state, exiting, time_slice, parent, runq,
                    waitfor, timer, kbdq, kbdflag, unread >>

\* do_sleep with a time n > 0: add_timer, then schedule.
SysSleep(p, n) ==
    /\ Syscall(p)
    /\ Sleep(p, "TIMER", "sleep_sched")
    /\ timer' = [timer EXCEPT ![p] = n]
    /\ UNCHANGED << current, exiting, need_resched, time_slice, parent, runq,
                    waitfor, kbdq, kbdflag, unread >>

\* Variant for the mutation runs: del_timer is forgotten.
SleepReturnKeepsTimer(p) ==
    /\ p = current
    /\ pc[p] = "sleep_ret"
    /\ Goto(p, "trapret")
    /\ UNCHANGED << current, state, wait_state, exiting, need_resched, time_slice,
                    parent, runq, waitfor, timer, kbdq, kbdflag, unread >>

\* Back in do_sleep: del_timer, whether the timer has fired or not.
SleepReturn(p) ==
    /\ p = current
    /\ pc[p] = "sleep_ret"
    /\ timer' = [timer EXCEPT ![p] = 0]
    /\ Goto(p, "trapret")
    /\ UNCHANGED << current, state, wait_state, exiting, need_resched, time_slice,
                    parent, runq, waitfor, kbdq, kbdflag, unread >>

\* One turn of the loop of dev_stdin_read, for a read of one character; q is
\* the wait queue without the entry of p.
StdinTry(p, q) ==
    \/ /\ unread > 0
       /\ unread' = unread - 1
       /\ kbdq' = q
       /\ kbdflag' = [kbdflag EXCEPT ![p] = "INTERRUPTED"]
       /\ Goto(p, "trapret")
       /\ UNCHANGED << state, wait_state >>
    \/ /\ unread = 0
       /\ kbdq' = q \cup {p}
       /\ kbdflag' = [kbdflag EXCEPT ![p] = "INTERRUPTED"]
       /\ Sleep(p, "KBD", "kbd_sched")
       /\ UNCHANGED unread

SysRead(p) ==
    /\ Syscall(p)
    /\ StdinTry(p, kbdq)
    /\ UNCHANGED << current, exiting, need_resched, time_slice, parent, runq,
                    waitfor, timer >>

\* Back in dev_stdin_read: wait_current_del, then the wake-up flags decide.
ReadReturn(p) ==
    /\ p = current
    /\ pc[p] = "kbd_ret"
    /\ \/ /\ kbdflag[p] = "KBD"
          /\ StdinTry(p, kbdq \ {p})
       \/ /\ kbdflag[p] # "KBD"
          /\ kbdq' = kbdq \ {p}
          /\ Goto(p, "trapret")
          /\ UNCHANGED << state, wait_state, kbdflag, unread >>
    /\ UNCHANGED << current, exiting, need_resched, time_slice, parent, runq,
                    waitfor, timer >>

-----------------------------------------------------------------------------
(* Traps.                                                                  *)

\* The end of trap() when it was entered from user mode.
TrapReturn(p) ==
    /\ p = current
    /\ pc[p] = "trapret"
    /\ IF exiting[p]
       THEN DoExit(p)
       ELSE /\ Goto(p, IF need_resched[p] THEN "resched" ELSE "user")
            /\ UNCHANGED << state, wait_state, runq, time_slice, parent >>
    /\ UNCHANGED << current, exiting, need_resched, waitfor, timer, kbdq,
                    kbdflag, unread >>

\* An interrupt leaves current where it is, except that one taken in user
\* mode goes through the end of trap().
Interrupted == Goto(current, IF pc[current] = "user" THEN "trapret" ELSE pc[current])

\* Variant for the mutation runs: at most one timer fires at a tick.
ExpiringFirst ==
    LET E == {q \in Procs : timer[q] = 1}
    IN  IF E = {} THEN {} ELSE {CHOOSE q \in E : TRUE}

\* The processes whose timers fire at the next tick.
Expiring == {q \in Procs : timer[q] = 1}

\* The timer interrupt: run_timer_list wakes those whose time is over, and
\* charges the tick to current.
Tick ==
    LET p     == current
        slice == IF p # Idle /\ time_slice[p] > 0 THEN time_slice[p] - 1 ELSE time_slice[p]
    IN  /\ ~Panicked
        /\ timer' = [q \in Procs |-> IF timer[q] = 0 THEN 0 ELSE timer[q] - 1]
        /\ Wakeup(Expiring, state, [time_slice EXCEPT ![p] = slice])
        /\ need_resched' = [need_resched EXCEPT ![p] = @ \/ slice = 0]
        /\ Interrupted
        /\ UNCHANGED << current, exiting, parent, waitfor, kbdq, kbdflag, unread >>

\* The keyboard interrupt: dev_stdin_write wakes every reader.
KeyPress ==
    /\ ~Panicked
    /\ unread' = IF unread < StdinSize THEN unread + 1 ELSE unread
    /\ kbdq' = {}
    /\ kbdflag' = [p \in Procs |-> IF p \in kbdq THEN "KBD" ELSE kbdflag[p]]
    /\ Wakeup(kbdq, state, time_slice)
    /\ Interrupted
    /\ UNCHANGED << current, exiting, need_resched, parent, waitfor, timer >>

-----------------------------------------------------------------------------

\* What a program asks the kernel to do.
UserStep(p) ==
    \/ \E c \in Procs : SysFork(p, c)
    \/ SysNothing(p)
    \/ SysExit(p)
    \/ \E target \in Procs \cup {AnyChild} : SysWait(p, target)
    \/ \E q \in Killable : SysKill(p, q)
    \/ SysYield(p)
    \/ \E n \in 1..MaxSleep : SysSleep(p, n)
    \/ SysRead(p)

\* What the kernel goes on with on behalf of current.
KernelStep(p) ==
    \/ \E c \in Procs : InitMain(c)
    \/ \E c \in Procs : WaitReap(p, c)
    \/ WaitSleep(p)
    \/ WaitNoChild(p)
    \/ WaitReturn(p)
    \/ SleepReturn(p)
    \/ ReadReturn(p)
    \/ TrapReturn(p)
    \/ InitReturn

\* After the panic the kernel does nothing more.
Halted == Panicked /\ UNCHANGED vars

Next ==
    \/ \E p \in Procs : UserStep(p)
    \/ \E p \in Procs : KernelStep(p)
    \/ \E p \in Procs : ScheduleTo(p)
    \/ Tick
    \/ KeyPress
    \/ Halted

Spec == Init /\ [][Next]_vars

\* The CPU goes on with current, the clock ticks, and no process of the run
\* queue is passed over for ever (the strides see to that).  Programs owe no
\* system call, and nobody has to press a key.
Fairness ==
    /\ WF_vars(Tick)
    /\ \A p \in Procs : WF_vars(KernelStep(p)) /\ SF_vars(ScheduleTo(p))

FairSpec == Spec /\ Fairness

-----------------------------------------------------------------------------
(* Properties.                                                             *)

\* The range of every variable.
TypeOK ==
    /\ current \in Procs
    /\ state \in [Procs -> {"FREE", "SLEEPING", "RUNNABLE", "ZOMBIE"}]
    /\ wait_state \in [Procs -> {"none", "CHILD", "TIMER", "KBD"}]
    /\ exiting \in [Procs -> BOOLEAN]
    /\ need_resched \in [Procs -> BOOLEAN]
    /\ time_slice \in [Procs -> 0..MaxTimeSlice]
    /\ parent \in [Procs -> Procs]
    /\ runq \subseteq Procs
    /\ pc \in [Procs -> PCs]
    /\ waitfor \in [Procs -> Procs \cup {AnyChild}]
    /\ timer \in [Procs -> 0..MaxSleep]
    /\ kbdq \subseteq Procs
    /\ kbdflag \in [Procs -> {"INTERRUPTED", "KBD"}]
    /\ unread \in 0..StdinSize

\* The places at which a process is asleep, or was and has been woken since.
SleepPlaces == [ wait_sched  |-> "CHILD", wait_ret  |-> "CHILD",
                 sleep_sched |-> "TIMER", sleep_ret |-> "TIMER",
                 kbd_sched   |-> "KBD",   kbd_ret   |-> "KBD" ]

\* The places of a process that is not on the CPU.
OffCPU == {"user", "wait", "wait_ret", "sleep_ret", "kbd_ret", "idle",
           "init_main", "dead", "none"}

\* The state and the wait state of a process agree with the place where it
\* stands: do_fork relies on it (it asserts that wait_state is 0), and so does
\* everybody who decides by wait_state whether to wake a process.
PositionsConsistent ==
    /\ pc[Idle] = "idle"
    /\ pc[InitProc] \in {"init_main", "wait", "wait_sched", "wait_ret", "loop_sched",
                         "init_done", "panic"}
    /\ pc[current] \notin {"dead", "none"}
    /\ \A p \in Procs :
         /\ p # current => pc[p] \in OffCPU
         /\ p # Idle => pc[p] # "idle"
         /\ state[p] = "FREE" <=> pc[p] = "none"
         /\ state[p] = "ZOMBIE" <=> pc[p] \in {"exit_sched", "dead"}
         /\ state[p] = "SLEEPING" <=> wait_state[p] # "none"
         /\ state[p] = "SLEEPING" => /\ pc[p] \in DOMAIN SleepPlaces
                                     /\ wait_state[p] = SleepPlaces[pc[p]]
         /\ p = current /\ state[p] = "SLEEPING" => pc[p] \in DOMAIN AfterSchedule

\* The run queue holds exactly the runnable processes that are not on the CPU:
\* none is enqueued twice or forgotten by the wake-ups that race with a process
\* on its way to schedule() (the test "proc != current" of wakeup_proc).
RunQueueExact ==
    runq = {p \in Procs \ {Idle} : state[p] = "RUNNABLE" /\ p # current}

\* Nobody sleeps through the event it waits for: a process asleep in do_wait
\* has a child to wait for and none of them is a zombie yet, one asleep in
\* do_sleep has a running timer, one asleep in dev_stdin_read is in the wait
\* queue and the buffer is empty.
NoLostWakeup ==
    \A p \in Procs : state[p] = "SLEEPING" =>
        \/ /\ wait_state[p] = "CHILD"
           /\ Awaited(p) # {}
           /\ \A c \in Awaited(p) : state[c] # "ZOMBIE"
        \/ wait_state[p] = "TIMER" /\ timer[p] > 0
        \/ wait_state[p] = "KBD" /\ p \in kbdq /\ unread = 0

\* The parent pointer of a process leads to a process that is alive, never to
\* a freed proc_struct: do_exit reads proc->wait_state through it.
ParentsAlive ==
    \A p \in Procs : state[p] # "FREE" => state[parent[p]] \in {"SLEEPING", "RUNNABLE"}

\* Every user process descends from initproc: no group of processes is cut off
\* from it, so each is reaped in the end by somebody (idleproc never waits).
DescendFromInit ==
    \A S \in SUBSET (Live \ {Idle, InitProc}) :
        S # {} => \E c \in S : parent[c] \in Live \ (S \cup {Idle})

\* A timer or a wait queue entry lies in the stack frame of do_sleep or of
\* dev_stdin_read: while it is linked, its process is alive and inside that
\* function, so an interrupt never follows it into a freed stack, and
\* wakeup_proc never meets a zombie.
LinkedFramesAlive ==
    \A p \in Procs :
        /\ timer[p] > 0 => /\ pc[p] \in {"sleep_sched", "sleep_ret"}
                           /\ state[p] \in {"SLEEPING", "RUNNABLE"}
        /\ p \in kbdq   => /\ pc[p] \in {"kbd_sched", "kbd_ret"}
                           /\ state[p] \in {"SLEEPING", "RUNNABLE"}

\* When init_main leaves its loop only idleproc and initproc are left, as it
\* asserts (nr_process == 2).
ShutdownClean ==
    pc[InitProc] = "init_done" => Live = {Idle, InitProc}

\* A process that has exited never gets the CPU back (the panic at the end of
\* do_exit), is never woken, and is freed by its parent only.
DeadStayDead ==
    [][\A p \in Procs :
         /\ state[p] = "ZOMBIE" => /\ state'[p] \in {"ZOMBIE", "FREE"}
                                   /\ current' = p => current = p
         /\ state[p] # "FREE" /\ state'[p] = "FREE" =>
                state[p] = "ZOMBIE" /\ current = parent[p]]_vars

\* Every zombie that belongs to initproc is freed in the end, orphans included.
OrphansReaped ==
    \A p \in Procs :
        state[p] = "ZOMBIE" /\ parent[p] = InitProc ~> state[p] = "FREE" \/ Panicked

\* A process that has called do_sleep comes back from it.
SleepersReturn ==
    \A p \in Procs : pc[p] = "sleep_sched" ~> pc[p] = "trapret" \/ Panicked

\* A process that is killed while it sleeps in do_wait or do_sleep exits.
KilledSleeperExits ==
    \A p \in Procs :
        exiting[p] /\ state[p] = "RUNNABLE" /\ pc[p] \in {"wait_ret", "sleep_ret"}
            ~> state[p] \in {"ZOMBIE", "FREE"} \/ Panicked

\* A killed process exits: "kill process --> do_kill --> ... --> do_exit".
KilledExit ==
    \A p \in Procs :
        exiting[p] /\ state[p] # "FREE" ~> state[p] \in {"ZOMBIE", "FREE"} \/ Panicked
=============================================================================
