--------------------------- MODULE ProcessProofs ---------------------------
(***************************************************************************)
(* Theorems about the processes (kern/process/proc.c), for every set of    *)
(* processes and every value of the bounds.  First the types of module     *)
(* Process, then what its places, the run queue and the frames on the      *)
(* stacks have to do with each other, then the family of the processes,    *)
(* and at last the pids of module Pids.                                    *)
(***************************************************************************)
EXTENDS Process, Pids, FiniteSetTheorems, TLAPS

-----------------------------------------------------------------------------
(* Types.                                                                  *)

States == {"FREE", "SLEEPING", "RUNNABLE", "ZOMBIE"}

\* A wake-up keeps the variables it sets in their ranges.
LEMMA WakeupType ==
    ASSUME TypeOK,
           NEW W \in SUBSET Procs,
           NEW st \in [Procs -> States],
           NEW ts \in [Procs -> 0..MaxTimeSlice],
           Wakeup(W, st, ts)
    PROVE  /\ state' \in [Procs -> States]
           /\ wait_state' \in [Procs -> {"none", "CHILD", "TIMER", "KBD"}]
           /\ runq' \subseteq Procs
           /\ time_slice' \in [Procs -> 0..MaxTimeSlice]
  BY ProcessAssumption DEF Wakeup, TypeOK, Enqueued, States

\* do_exit keeps the variables it sets in their ranges.
LEMMA DoExitType ==
    ASSUME TypeOK, NEW p \in Procs, DoExit(p)
    PROVE  /\ state' \in [Procs -> States]
           /\ wait_state' \in [Procs -> {"none", "CHILD", "TIMER", "KBD"}]
           /\ runq' \subseteq Procs
           /\ time_slice' \in [Procs -> 0..MaxTimeSlice]
           /\ parent' \in [Procs -> Procs]
           /\ pc' \in [Procs -> PCs]
<1>1. CASE p = InitProc
  BY <1>1 DEF DoExit, TypeOK, Goto, PCs, States
<1>2. CASE p # InitProc
  <2>1. /\ Wakeup(WokenByExit(p), [state EXCEPT ![p] = "ZOMBIE"], time_slice)
        /\ parent' = Reparented(p)
        /\ Goto(p, "exit_sched")
    BY <1>2 DEF DoExit
  <2>2. /\ WokenByExit(p) \in SUBSET Procs
        /\ [state EXCEPT ![p] = "ZOMBIE"] \in [Procs -> States]
        /\ time_slice \in [Procs -> 0..MaxTimeSlice]
    BY DEF WokenByExit, TypeOK, States
  <2>3. parent' \in [Procs -> Procs] /\ pc' \in [Procs -> PCs]
    BY <2>1, ProcessAssumption DEF Reparented, Goto, PCs, TypeOK
  <2>. QED BY <2>1, <2>2, <2>3, WakeupType
<1>. QED BY <1>1, <1>2

\* Every variable keeps its range: the range of the run queue, of the time
\* slices and of the timers are what the kernel's data structures can hold.
THEOREM TypeCorrect == Spec => []TypeOK
<1>1. Init => TypeOK
  BY ProcessAssumption DEF Init, TypeOK, PCs
<1>2. TypeOK /\ [Next]_vars => TypeOK'
  <2> SUFFICES ASSUME TypeOK, [Next]_vars PROVE TypeOK'
    OBVIOUS
  <2> USE ProcessAssumption
  <2>1. ASSUME NEW p \in Procs, NEW c \in Procs, NEW there \in PCs, Fork(p, c, there)
        PROVE  TypeOK'
    BY <2>1 DEF Fork, TypeOK, PCs
  <2>2. ASSUME NEW p \in Procs, UserStep(p) PROVE TypeOK'
    <3>1. ASSUME NEW c \in Procs, SysFork(p, c) PROVE TypeOK'
      BY <3>1, <2>1 DEF SysFork, PCs
    <3>2. CASE SysNothing(p)
      BY <3>2 DEF SysNothing, TypeOK, Goto, PCs
    <3>3. CASE SysExit(p)
      BY <3>3, DoExitType DEF SysExit, TypeOK, States
    <3>4. ASSUME NEW target \in Procs \cup {AnyChild}, SysWait(p, target) PROVE TypeOK'
      BY <3>4 DEF SysWait, TypeOK, Goto, PCs
    <3>5. ASSUME NEW q \in Killable, SysKill(p, q) PROVE TypeOK'
      <4>1. q \in Procs /\ WokenByKill(q) \in SUBSET Procs
        BY DEF WokenByKill
      <4>2. /\ state' \in [Procs -> States]
            /\ wait_state' \in [Procs -> {"none", "CHILD", "TIMER", "KBD"}]
            /\ runq' \subseteq Procs
            /\ time_slice' \in [Procs -> 0..MaxTimeSlice]
        BY <3>5, <4>1, WakeupType DEF SysKill, TypeOK, States
      <4>. QED BY <3>5, <4>1, <4>2 DEF SysKill, TypeOK, Goto, PCs, States
    <3>6. CASE SysYield(p)
      BY <3>6 DEF SysYield, TypeOK, Goto, PCs
    <3>7. ASSUME NEW n \in 1..MaxSleep, SysSleep(p, n) PROVE TypeOK'
      BY <3>7 DEF SysSleep, Sleep, TypeOK, Goto, PCs
    <3>8. CASE SysRead(p)
      BY <3>8 DEF SysRead, StdinTry, Sleep, TypeOK, Goto, PCs
    <3>. QED BY <2>2, <3>1, <3>2, <3>3, <3>4, <3>5, <3>6, <3>7, <3>8 DEF UserStep
  <2>3. ASSUME NEW p \in Procs, KernelStep(p) PROVE TypeOK'
    <3>1. ASSUME NEW c \in Procs, InitMain(c) PROVE TypeOK'
      BY <3>1, <2>1 DEF InitMain, PCs
    <3>2. ASSUME NEW c \in Procs, WaitReap(p, c) PROVE TypeOK'
      BY <3>2 DEF WaitReap, TypeOK, PCs
    <3>3. CASE WaitSleep(p)
      BY <3>3 DEF WaitSleep, Sleep, TypeOK, Goto, PCs
    <3>4. CASE WaitNoChild(p)
      BY <3>4 DEF WaitNoChild, TypeOK, Goto, PCs
    <3>5. CASE WaitReturn(p)
      <4>1. CASE exiting[p]
        BY <3>5, <4>1, DoExitType DEF WaitReturn, TypeOK, States
      <4>2. CASE ~exiting[p]
        BY <3>5, <4>2 DEF WaitReturn, TypeOK, Goto, PCs
      <4>. QED BY <4>1, <4>2
    <3>6. CASE SleepReturn(p)
      BY <3>6 DEF SleepReturn, TypeOK, Goto, PCs
    <3>7. CASE ReadReturn(p)
      <4>1. CASE kbdflag[p] = "KBD" /\ unread > 0
        BY <3>7, <4>1 DEF ReadReturn, StdinTry, TypeOK, Goto, PCs
      <4>2. CASE kbdflag[p] = "KBD" /\ unread = 0
        BY <3>7, <4>2 DEF ReadReturn, StdinTry, Sleep, TypeOK, Goto, PCs
      <4>3. CASE kbdflag[p] # "KBD"
        BY <3>7, <4>3 DEF ReadReturn, TypeOK, Goto, PCs
      <4>. QED BY <3>7, <4>1, <4>2, <4>3 DEF ReadReturn, StdinTry
    <3>8. CASE TrapReturn(p)
      <4>1. CASE exiting[p]
        BY <3>8, <4>1, DoExitType DEF TrapReturn, TypeOK, States
      <4>2. CASE ~exiting[p]
        BY <3>8, <4>2 DEF TrapReturn, TypeOK, Goto, PCs
      <4>. QED BY <4>1, <4>2
    <3>9. CASE InitReturn
      BY <3>9, DoExitType DEF InitReturn, TypeOK, States
    <3>. QED BY <2>3, <3>1, <3>2, <3>3, <3>4, <3>5, <3>6, <3>7, <3>8, <3>9 DEF KernelStep
  <2>4. ASSUME NEW p \in Procs, ScheduleTo(p) PROVE TypeOK'
    <3>1. AfterSchedule[pc[current]] \in PCs
      BY <2>4 DEF ScheduleTo, AfterSchedule, PCs
    <3>. QED BY <2>4, <3>1 DEF ScheduleTo, Enqueued, TypeOK, Goto
  <2>5. CASE Tick
    <3> DEFINE slice == IF current # Idle /\ time_slice[current] > 0
                        THEN time_slice[current] - 1 ELSE time_slice[current]
    <3>1. slice \in 0..MaxTimeSlice
      BY DEF TypeOK
    <3>2. [time_slice EXCEPT ![current] = slice] \in [Procs -> 0..MaxTimeSlice]
      BY <3>1 DEF TypeOK
    <3>3. Expiring \in SUBSET Procs /\ state \in [Procs -> States]
      BY DEF Expiring, TypeOK, States
    <3>4. Wakeup(Expiring, state, [time_slice EXCEPT ![current] = slice])
      BY <2>5 DEF Tick
    <3>5. /\ state' \in [Procs -> States]
          /\ wait_state' \in [Procs -> {"none", "CHILD", "TIMER", "KBD"}]
          /\ runq' \subseteq Procs
          /\ time_slice' \in [Procs -> 0..MaxTimeSlice]
      BY <3>2, <3>3, <3>4, WakeupType
    <3>6. timer' \in [Procs -> 0..MaxSleep]
      <4>1. timer' = [q \in Procs |-> IF timer[q] = 0 THEN 0 ELSE timer[q] - 1]
        BY <2>5 DEF Tick
      <4>2. ASSUME NEW q \in Procs
            PROVE  (IF timer[q] = 0 THEN 0 ELSE timer[q] - 1) \in 0..MaxSleep
        <5>1. timer[q] \in 0..MaxSleep
          BY DEF TypeOK
        <5>. QED BY <5>1
      <4>. QED BY <4>1, <4>2
    <3>7. need_resched' \in [Procs -> BOOLEAN]
      BY <2>5 DEF Tick, TypeOK
    <3>8. pc' \in [Procs -> PCs]
      BY <2>5 DEF Tick, Interrupted, Goto, TypeOK, PCs
    <3>. QED BY <2>5, <3>5, <3>6, <3>7, <3>8 DEF Tick, TypeOK, States
  <2>6. CASE KeyPress
    <3>1. /\ state' \in [Procs -> States]
          /\ wait_state' \in [Procs -> {"none", "CHILD", "TIMER", "KBD"}]
          /\ runq' \subseteq Procs
          /\ time_slice' \in [Procs -> 0..MaxTimeSlice]
      BY <2>6, WakeupType DEF KeyPress, TypeOK, States
    <3>2. pc' \in [Procs -> PCs]
      BY <2>6 DEF KeyPress, Interrupted, Goto, TypeOK, PCs
    <3>. QED BY <2>6, <3>1, <3>2 DEF KeyPress, TypeOK, States
  <2>7. CASE UNCHANGED vars
    BY <2>7 DEF vars, TypeOK
  <2>8. CASE Halted
    BY <2>8, <2>7 DEF Halted
  <2>. QED BY <2>2, <2>3, <2>4, <2>5, <2>6, <2>7, <2>8 DEF Next
<1>. QED BY <1>1, <1>2, PTL DEF Spec

-----------------------------------------------------------------------------
(* The invariants of the process core.                                     *)

\* The places, the run queue and the stack-allocated frames only make sense
\* together: a wake-up from an interrupt enqueues the right processes because
\* the frames it follows belong to processes that are alive.
Structure ==
    /\ PositionsConsistent
    /\ RunQueueExact
    /\ LinkedFramesAlive

\* The tables of places, spelled out.
LEMMA Tables ==
    /\ DOMAIN SleepPlaces = {"wait_sched", "wait_ret", "sleep_sched", "sleep_ret",
                             "kbd_sched", "kbd_ret"}
    /\ SleepPlaces["wait_sched"] = "CHILD" /\ SleepPlaces["wait_ret"] = "CHILD"
    /\ SleepPlaces["sleep_sched"] = "TIMER" /\ SleepPlaces["sleep_ret"] = "TIMER"
    /\ SleepPlaces["kbd_sched"] = "KBD" /\ SleepPlaces["kbd_ret"] = "KBD"
    /\ DOMAIN AfterSchedule = {"resched", "wait_sched", "sleep_sched", "kbd_sched",
                               "loop_sched", "idle", "exit_sched"}
    /\ AfterSchedule["resched"] = "user"
    /\ AfterSchedule["wait_sched"] = "wait_ret"
    /\ AfterSchedule["sleep_sched"] = "sleep_ret"
    /\ AfterSchedule["kbd_sched"] = "kbd_ret"
    /\ AfterSchedule["loop_sched"] = "wait"
    /\ AfterSchedule["idle"] = "idle"
    /\ AfterSchedule["exit_sched"] = "dead"
  BY DEF SleepPlaces, AfterSchedule

\* The structure at boot.
LEMMA StructureInit == Init => Structure
  BY ProcessAssumption, Tables
  DEF Init, Structure, PositionsConsistent, RunQueueExact, LinkedFramesAlive, OffCPU

\* What a wake-up does to each process.
LEMMA WakeupEffect ==
    ASSUME TypeOK,
           NEW W \in SUBSET Procs,
           NEW st \in [Procs -> States],
           NEW ts,
           Wakeup(W, st, ts)
    PROVE  /\ state' = [q \in Procs |-> IF q \in W THEN "RUNNABLE" ELSE st[q]]
           /\ wait_state' = [q \in Procs |-> IF q \in W /\ st[q] # "RUNNABLE"
                                             THEN "none" ELSE wait_state[q]]
           /\ runq' = runq \cup {q \in W : st[q] # "RUNNABLE" /\ q # current}
  BY DEF Wakeup

\* A wake-up of processes that are asleep or runnable, while current goes to
\* another place outside every sleep, keeps the structure.
LEMMA WakeupKeepsStructure ==
    ASSUME TypeOK, Structure,
           NEW W \in SUBSET Procs,
           NEW ts,
           Wakeup(W, state, ts),
           \A q \in W : state[q] \in {"SLEEPING", "RUNNABLE"},
           pc' = [pc EXCEPT ![current] = IF pc[current] = "user"
                                         THEN "trapret" ELSE pc[current]],
           current' = current,
           kbdq' \subseteq kbdq,
           \A q \in Procs : timer'[q] > 0 => timer[q] > 0
    PROVE  Structure'
<1>1. /\ state' = [q \in Procs |-> IF q \in W THEN "RUNNABLE" ELSE state[q]]
      /\ wait_state' = [q \in Procs |-> IF q \in W /\ state[q] # "RUNNABLE"
                                        THEN "none" ELSE wait_state[q]]
      /\ runq' = runq \cup {q \in W : state[q] # "RUNNABLE" /\ q # current}
  BY WakeupEffect DEF TypeOK, States
<1>2. PositionsConsistent'
  BY <1>1, ProcessAssumption, Tables DEF Structure, PositionsConsistent, OffCPU, TypeOK
<1>3. RunQueueExact'
  <2>1. state[Idle] = "RUNNABLE"
    BY ProcessAssumption, Tables DEF Structure, PositionsConsistent, TypeOK
  <2>. QED BY <1>1, <2>1 DEF Structure, RunQueueExact, TypeOK
<1>4. LinkedFramesAlive'
  BY <1>1 DEF Structure, LinkedFramesAlive, TypeOK
<1>. QED BY <1>2, <1>3, <1>4 DEF Structure

\* The exit of current, from a place where it is not asleep, keeps it.
LEMMA ExitKeepsStructure ==
    ASSUME TypeOK, Structure,
           NEW p \in Procs, p = current,
           pc[p] \in {"user", "wait_ret", "trapret", "init_done"},
           DoExit(p),
           UNCHANGED << current, timer, kbdq >>
    PROVE  Structure'
<1> USE ProcessAssumption, Tables
<1>1. /\ state[p] = "RUNNABLE" /\ wait_state[p] = "none" /\ p # Idle
      /\ timer[p] = 0 /\ p \notin kbdq /\ p \notin runq
  BY DEF Structure, PositionsConsistent, LinkedFramesAlive, RunQueueExact, TypeOK
<1>2. CASE p = InitProc
  <2>1. /\ pc' = [pc EXCEPT ![p] = "panic"]
        /\ UNCHANGED << state, wait_state, runq >>
    BY <1>2 DEF DoExit, Goto
  <2>2. PositionsConsistent'
    BY <1>1, <1>2, <2>1 DEF Structure, PositionsConsistent, OffCPU, TypeOK
  <2>3. RunQueueExact'
    BY <2>1 DEF Structure, RunQueueExact
  <2>4. LinkedFramesAlive'
    <3>1. \A q \in Procs : q # p => pc'[q] = pc[q]
      BY <2>1 DEF TypeOK
    <3>. QED BY <1>1, <2>1, <3>1 DEF Structure, LinkedFramesAlive
  <2>. QED BY <2>2, <2>3, <2>4 DEF Structure
<1>3. CASE p # InitProc
  <2> DEFINE W == WokenByExit(p)
             st == [state EXCEPT ![p] = "ZOMBIE"]
  <2>1. /\ Wakeup(W, st, time_slice)
        /\ pc' = [pc EXCEPT ![p] = "exit_sched"]
    BY <1>3 DEF DoExit, Goto
  <2>2. W \in SUBSET Procs /\ \A q \in W : q # p /\ state[q] = "SLEEPING"
    BY <1>1 DEF WokenByExit, Structure, PositionsConsistent, TypeOK
  <2>3. st \in [Procs -> States]
    BY DEF TypeOK, States
  <2>4. /\ state' = [q \in Procs |-> IF q \in W THEN "RUNNABLE" ELSE st[q]]
        /\ wait_state' = [q \in Procs |-> IF q \in W /\ st[q] # "RUNNABLE"
                                          THEN "none" ELSE wait_state[q]]
        /\ runq' = runq \cup {q \in W : st[q] # "RUNNABLE" /\ q # current}
    BY <2>1, <2>2 DEF Wakeup
  <2>5. /\ state' = [q \in Procs |-> IF q \in W THEN "RUNNABLE"
                                     ELSE IF q = p THEN "ZOMBIE" ELSE state[q]]
        /\ wait_state' = [q \in Procs |-> IF q \in W THEN "none" ELSE wait_state[q]]
        /\ runq' = runq \cup W
    BY <2>2, <2>4 DEF TypeOK
  <2> HIDE DEF W, st
  <2>6. PositionsConsistent'
    BY <1>1, <1>3, <2>1, <2>2, <2>5 DEF Structure, PositionsConsistent, OffCPU, TypeOK
  <2>7. RunQueueExact'
    <3>1. state[Idle] = "RUNNABLE"
      BY DEF Structure, PositionsConsistent, TypeOK
    <3>. QED BY <1>1, <2>2, <2>5, <3>1 DEF Structure, RunQueueExact, TypeOK
  <2>8. LinkedFramesAlive'
    BY <1>1, <2>1, <2>2, <2>5 DEF Structure, LinkedFramesAlive, TypeOK
  <2>. QED BY <2>6, <2>7, <2>8 DEF Structure
<1>. QED BY <1>2, <1>3

\* A fork by current keeps it.
LEMMA ForkKeepsStructure ==
    ASSUME TypeOK, Structure,
           NEW p \in Procs, NEW c \in Procs, NEW there, p = current,
           \/ pc[p] = "user" /\ there = "trapret"
           \/ pc[p] = "init_main" /\ p = InitProc /\ there = "wait",
           Fork(p, c, there)
    PROVE  Structure'
<1> USE ProcessAssumption, Tables
<1>1. /\ state[c] = "FREE" /\ c # p /\ c \notin {Idle, InitProc}
      /\ timer[c] = 0 /\ c \notin kbdq
      /\ state[p] = "RUNNABLE" /\ timer[p] = 0 /\ p \notin kbdq
  BY DEF Fork, Structure, PositionsConsistent, LinkedFramesAlive, TypeOK
<1>2. PositionsConsistent'
  BY <1>1 DEF Fork, Structure, PositionsConsistent, OffCPU, TypeOK
<1>3. RunQueueExact'
  BY <1>1 DEF Fork, Structure, RunQueueExact, TypeOK
<1>4. LinkedFramesAlive'
  BY <1>1 DEF Fork, Structure, LinkedFramesAlive, TypeOK
<1>. QED BY <1>2, <1>3, <1>4 DEF Structure

\* Current goes from one place to another where it is not asleep either.
LEMMA MoveKeepsStructure ==
    ASSUME TypeOK, Structure,
           NEW p \in Procs, NEW there, p = current,
           pc[p] \in {"user", "trapret", "wait", "wait_ret"},
           there \in {"user", "trapret", "wait", "resched", "init_done"},
           p = InitProc => pc[p] # "trapret" /\ there \in {"wait", "init_done"},
           there = "init_done" => p = InitProc,
           pc' = [pc EXCEPT ![p] = there],
           UNCHANGED << current, state, wait_state, runq, timer, kbdq >>
    PROVE  Structure'
<1> USE ProcessAssumption, Tables
<1>1. PositionsConsistent'
  BY DEF Structure, PositionsConsistent, OffCPU, TypeOK
<1>2. RunQueueExact' /\ LinkedFramesAlive'
  BY DEF Structure, RunQueueExact, LinkedFramesAlive, TypeOK
<1>. QED BY <1>1, <1>2 DEF Structure

\* A call of schedule keeps it.
LEMMA ScheduleKeepsStructure ==
    ASSUME TypeOK, Structure, NEW next \in Procs, ScheduleTo(next)
    PROVE  Structure'
<1> USE ProcessAssumption, Tables
<1> DEFINE p == current
           ready == IF state[p] = "RUNNABLE" /\ p # Idle THEN runq \cup {p} ELSE runq
<1>1. /\ pc[p] \in DOMAIN AfterSchedule
      /\ next \in (IF ready = {} THEN {Idle} ELSE ready)
      /\ runq' = ready \ {next}
      /\ current' = next
      /\ pc' = [pc EXCEPT ![p] = AfterSchedule[pc[p]]]
      /\ UNCHANGED << state, wait_state, timer, kbdq >>
  BY DEF ScheduleTo, Goto
<1>2. ready = {q \in Procs \ {Idle} : state[q] = "RUNNABLE"}
  BY DEF Structure, RunQueueExact, TypeOK
<1>3. state[Idle] = "RUNNABLE"
  BY DEF Structure, PositionsConsistent, TypeOK
<1>4. state[next] = "RUNNABLE"
  BY <1>1, <1>2, <1>3
<1> HIDE DEF ready
<1>5. PositionsConsistent'
  BY <1>1, <1>4 DEF Structure, PositionsConsistent, OffCPU, TypeOK
<1>6. RunQueueExact'
  BY <1>1, <1>2 DEF Structure, RunQueueExact, TypeOK
<1>7. LinkedFramesAlive'
  BY <1>1 DEF Structure, LinkedFramesAlive, TypeOK
<1>. QED BY <1>5, <1>6, <1>7 DEF Structure

\* What the places of current say when it is in the middle of a system call.
LEMMA CurrentAwake ==
    ASSUME TypeOK, Structure, NEW p \in Procs, p = current,
           pc[p] \in {"user", "trapret", "wait", "wait_ret", "sleep_ret", "kbd_ret",
                      "init_main", "init_done"}
    PROVE  /\ state[p] = "RUNNABLE" /\ wait_state[p] = "none" /\ p # Idle
           /\ pc[p] # "sleep_ret" => timer[p] = 0
           /\ pc[p] # "kbd_ret" => p \notin kbdq
           /\ pc[p] \in {"user", "trapret", "sleep_ret", "kbd_ret"} => p # InitProc
  BY ProcessAssumption, Tables
  DEF Structure, PositionsConsistent, LinkedFramesAlive, TypeOK

\* Current goes to sleep in do_wait, do_sleep or dev_stdin_read.
LEMMA SleepKeepsStructure ==
    ASSUME TypeOK, Structure, NEW p \in Procs, p = current,
           NEW why \in {"CHILD", "TIMER", "KBD"}, NEW there \in {"wait_sched", "sleep_sched", "kbd_sched"},
           SleepPlaces[there] = why,
           pc[p] \in {"user", "wait", "kbd_ret"},
           p = InitProc => there = "wait_sched",
           Sleep(p, why, there),
           UNCHANGED << current, runq >>,
           \A q \in Procs \ {p} : timer'[q] = timer[q] /\ (q \in kbdq' => q \in kbdq),
           timer'[p] > 0 => there = "sleep_sched",
           p \in kbdq' => there = "kbd_sched"
    PROVE  Structure'
<1> USE ProcessAssumption, Tables
<1>1. /\ state' = [state EXCEPT ![p] = "SLEEPING"]
      /\ wait_state' = [wait_state EXCEPT ![p] = why]
      /\ pc' = [pc EXCEPT ![p] = there]
  BY DEF Sleep, Goto
<1>2. state[p] = "RUNNABLE" /\ wait_state[p] = "none" /\ p # Idle
  BY CurrentAwake
<1>3. PositionsConsistent'
  BY <1>1, <1>2 DEF Structure, PositionsConsistent, OffCPU, TypeOK
<1>4. RunQueueExact'
  BY <1>1, <1>2 DEF Structure, RunQueueExact, TypeOK
<1>5. LinkedFramesAlive'
  <2>1. ASSUME NEW q \in Procs \ {p} PROVE state'[q] = state[q] /\ pc'[q] = pc[q]
    BY <1>1 DEF TypeOK
  <2>2. state'[p] = "SLEEPING" /\ pc'[p] = there
    BY <1>1 DEF TypeOK
  <2>. QED BY <2>1, <2>2 DEF Structure, LinkedFramesAlive
<1>. QED BY <1>3, <1>4, <1>5 DEF Structure

\* Every step of a program keeps the structure.
LEMMA UserKeepsStructure ==
    ASSUME TypeOK, TypeOK', Structure, NEW p \in Procs, UserStep(p)
    PROVE  Structure'
<1> USE ProcessAssumption, Tables
<1>0. /\ p = current /\ pc[p] = "user"
  BY DEF UserStep, SysFork, SysNothing, SysExit, SysWait, SysKill, SysYield, SysSleep,
         SysRead, Syscall
<1>1. /\ state[p] = "RUNNABLE" /\ wait_state[p] = "none" /\ p # Idle /\ p # InitProc
      /\ timer[p] = 0 /\ p \notin kbdq
  BY <1>0, CurrentAwake
<1>2. ASSUME NEW c \in Procs, SysFork(p, c) PROVE Structure'
  BY <1>0, <1>2, ForkKeepsStructure DEF SysFork
<1>3. CASE SysNothing(p)
  BY <1>0, <1>1, <1>3, MoveKeepsStructure DEF SysNothing, Goto
<1>4. CASE SysExit(p)
  BY <1>0, <1>4, ExitKeepsStructure DEF SysExit
<1>5. ASSUME NEW target \in Procs \cup {AnyChild}, SysWait(p, target) PROVE Structure'
  BY <1>0, <1>1, <1>5, MoveKeepsStructure DEF SysWait, Goto
<1>6. ASSUME NEW q \in Killable, SysKill(p, q) PROVE Structure'
  <2>1. WokenByKill(q) \in SUBSET Procs
    BY DEF WokenByKill
  <2>2. \A r \in WokenByKill(q) : state[r] \in {"SLEEPING", "RUNNABLE"}
    BY DEF WokenByKill, Structure, PositionsConsistent, TypeOK
  <2>3. /\ Wakeup(WokenByKill(q), state, time_slice)
        /\ pc' = [pc EXCEPT ![current] = IF pc[current] = "user"
                                         THEN "trapret" ELSE pc[current]]
        /\ UNCHANGED << current, timer, kbdq >>
    BY <1>0, <1>6 DEF SysKill, Goto
  <2>. QED BY <2>1, <2>2, <2>3, WakeupKeepsStructure
<1>7. CASE SysYield(p)
  BY <1>0, <1>1, <1>7, MoveKeepsStructure DEF SysYield, Goto
<1>8. ASSUME NEW n \in 1..MaxSleep, SysSleep(p, n) PROVE Structure'
  <2>1. \A q \in Procs \ {p} : timer'[q] = timer[q]
    BY <1>8 DEF SysSleep, TypeOK
  <2>2. /\ Sleep(p, "TIMER", "sleep_sched")
        /\ UNCHANGED << current, runq, kbdq >>
    BY <1>8 DEF SysSleep
  <2>. QED BY <1>0, <1>1, <2>1, <2>2, SleepKeepsStructure
<1>9. CASE SysRead(p)
  <2>1. StdinTry(p, kbdq) /\ UNCHANGED << current, runq, timer >>
    BY <1>9 DEF SysRead
  <2>2. CASE unread > 0
    <3>1. /\ pc' = [pc EXCEPT ![p] = "trapret"]
          /\ UNCHANGED << current, state, wait_state, runq, timer, kbdq >>
      BY <2>1, <2>2 DEF StdinTry, Goto
    <3>. QED BY <1>0, <1>1, <3>1, MoveKeepsStructure
  <2>3. CASE ~(unread > 0)
    <3>1. /\ Sleep(p, "KBD", "kbd_sched")
          /\ kbdq' = kbdq \cup {p}
      BY <2>1, <2>3 DEF StdinTry
    <3>. QED BY <1>0, <1>1, <2>1, <3>1, SleepKeepsStructure
  <2>. QED BY <2>2, <2>3
<1>. QED BY <1>2, <1>3, <1>4, <1>5, <1>6, <1>7, <1>8, <1>9 DEF UserStep

\* Current leaves do_wait after reaping c, which frees a dead process.
LEMMA ReapKeepsStructure ==
    ASSUME TypeOK, Structure, NEW p \in Procs, NEW c \in Procs, WaitReap(p, c)
    PROVE  Structure'
<1> USE ProcessAssumption, Tables
<1>1. /\ p = current /\ pc[p] = "wait" /\ state[c] = "ZOMBIE"
      /\ state[p] = "RUNNABLE" /\ wait_state[p] = "none" /\ p # Idle
      /\ timer[p] = 0 /\ p \notin kbdq
  BY CurrentAwake DEF WaitReap, DoWait
<1>2. /\ c # p /\ c # Idle /\ c # InitProc /\ timer[c] = 0 /\ c \notin kbdq
      /\ wait_state[c] = "none"
  BY <1>1 DEF Structure, PositionsConsistent, LinkedFramesAlive, TypeOK
<1>3. /\ state' = [state EXCEPT ![c] = "FREE"]
      /\ pc' = [pc EXCEPT ![c] = "none",
                          ![p] = IF p = InitProc THEN "loop_sched" ELSE "trapret"]
      /\ UNCHANGED << current, wait_state, runq, timer, kbdq >>
  BY DEF WaitReap
<1>4. PositionsConsistent'
  BY <1>1, <1>2, <1>3 DEF Structure, PositionsConsistent, OffCPU, TypeOK
<1>5. RunQueueExact'
  BY <1>1, <1>3 DEF Structure, RunQueueExact, TypeOK
<1>6. LinkedFramesAlive'
  BY <1>1, <1>2, <1>3 DEF Structure, LinkedFramesAlive, TypeOK
<1>. QED BY <1>4, <1>5, <1>6 DEF Structure

\* Current leaves a sleep: its frame is unlinked.
LEMMA LeaveSleepKeepsStructure ==
    ASSUME TypeOK, Structure, NEW p \in Procs, p = current,
           pc[p] \in {"sleep_ret", "kbd_ret"},
           pc' = [pc EXCEPT ![p] = "trapret"],
           UNCHANGED << current, state, wait_state, runq >>,
           timer'[p] = 0 \/ (pc[p] = "kbd_ret" /\ timer' = timer),
           p \notin kbdq' \/ (pc[p] = "sleep_ret" /\ kbdq' = kbdq),
           \A q \in Procs \ {p} : timer'[q] = timer[q] /\ (q \in kbdq' => q \in kbdq)
    PROVE  Structure'
<1> USE ProcessAssumption, Tables
<1>1. /\ state[p] = "RUNNABLE" /\ wait_state[p] = "none" /\ p # Idle /\ p # InitProc
      /\ timer'[p] = 0 /\ p \notin kbdq'
  BY CurrentAwake
<1>2. PositionsConsistent'
  BY <1>1 DEF Structure, PositionsConsistent, OffCPU, TypeOK
<1>3. RunQueueExact'
  BY DEF Structure, RunQueueExact
<1>4. LinkedFramesAlive'
  <2>1. ASSUME NEW q \in Procs \ {p} PROVE pc'[q] = pc[q]
    BY DEF TypeOK
  <2>. QED BY <1>1, <2>1 DEF Structure, LinkedFramesAlive
<1>. QED BY <1>2, <1>3, <1>4 DEF Structure

\* Every step of the kernel on behalf of current keeps the structure.
LEMMA KernelKeepsStructure ==
    ASSUME TypeOK, TypeOK', Structure, NEW p \in Procs, KernelStep(p)
    PROVE  Structure'
<1> USE ProcessAssumption, Tables
<1>1. ASSUME NEW c \in Procs, InitMain(c) PROVE Structure'
  BY <1>1, ForkKeepsStructure DEF InitMain
<1>2. ASSUME NEW c \in Procs, WaitReap(p, c) PROVE Structure'
  BY <1>2, ReapKeepsStructure
<1>3. CASE WaitSleep(p)
  <2>1. /\ p = current /\ pc[p] = "wait" /\ Sleep(p, "CHILD", "wait_sched")
        /\ UNCHANGED << current, runq, timer, kbdq >>
    BY <1>3 DEF WaitSleep, DoWait
  <2>2. timer[p] = 0 /\ p \notin kbdq
    BY <2>1, CurrentAwake
  <2>. QED BY <2>1, <2>2, SleepKeepsStructure
<1>4. CASE WaitNoChild(p)
  BY <1>4, MoveKeepsStructure DEF WaitNoChild, DoWait, Goto
<1>5. CASE WaitReturn(p)
  <2>1. CASE exiting[p]
    BY <1>5, <2>1, ExitKeepsStructure DEF WaitReturn
  <2>2. CASE ~exiting[p]
    BY <1>5, <2>2, MoveKeepsStructure DEF WaitReturn, Goto
  <2>. QED BY <2>1, <2>2
<1>6. CASE SleepReturn(p)
  <2>1. /\ p = current /\ pc[p] = "sleep_ret" /\ pc' = [pc EXCEPT ![p] = "trapret"]
        /\ UNCHANGED << current, state, wait_state, runq, kbdq >>
        /\ timer' = [timer EXCEPT ![p] = 0]
    BY <1>6 DEF SleepReturn, Goto
  <2>2. timer'[p] = 0 /\ \A q \in Procs \ {p} : timer'[q] = timer[q]
    BY <2>1 DEF TypeOK
  <2>. QED BY <2>1, <2>2, LeaveSleepKeepsStructure
<1>7. CASE ReadReturn(p)
  <2>1. p = current /\ pc[p] = "kbd_ret" /\ UNCHANGED << current, runq, timer >>
    BY <1>7 DEF ReadReturn
  <2>2. CASE Goto(p, "trapret") /\ kbdq' = kbdq \ {p} /\ UNCHANGED << state, wait_state >>
    BY <2>1, <2>2, LeaveSleepKeepsStructure DEF Goto
  <2>3. CASE Sleep(p, "KBD", "kbd_sched") /\ kbdq' = (kbdq \ {p}) \cup {p}
    BY <2>1, <2>3, CurrentAwake, SleepKeepsStructure
  <2>. QED BY <1>7, <2>2, <2>3 DEF ReadReturn, StdinTry
<1>8. CASE TrapReturn(p)
  <2>1. CASE exiting[p]
    BY <1>8, <2>1, ExitKeepsStructure DEF TrapReturn
  <2>2. CASE ~exiting[p]
    BY <1>8, <2>2, CurrentAwake, MoveKeepsStructure DEF TrapReturn, Goto
  <2>. QED BY <2>1, <2>2
<1>9. CASE InitReturn
  BY <1>9, ExitKeepsStructure DEF InitReturn
<1>. QED BY <1>1, <1>2, <1>3, <1>4, <1>5, <1>6, <1>7, <1>8, <1>9 DEF KernelStep

\* The two interrupts keep it: they only wake processes whose frames are alive.
LEMMA InterruptKeepsStructure ==
    ASSUME TypeOK, TypeOK', Structure, Tick \/ KeyPress
    PROVE  Structure'
<1>1. CASE Tick
  <2>1. Expiring \in SUBSET Procs /\ \A q \in Expiring : state[q] \in {"SLEEPING", "RUNNABLE"}
    BY DEF Expiring, Structure, LinkedFramesAlive, TypeOK
  <2>2. PICK ts : Wakeup(Expiring, state, ts)
    BY <1>1 DEF Tick
  <2>3. timer' = [q \in Procs |-> IF timer[q] = 0 THEN 0 ELSE timer[q] - 1]
    BY <1>1 DEF Tick
  <2>4. \A q \in Procs : timer[q] \in 0..MaxSleep
    BY DEF TypeOK
  <2>5. \A q \in Procs : timer'[q] > 0 => timer[q] > 0
    BY <2>3, <2>4
  <2>6. current' = current /\ kbdq' = kbdq
        /\ pc' = [pc EXCEPT ![current] = IF pc[current] = "user"
                                         THEN "trapret" ELSE pc[current]]
    BY <1>1 DEF Tick, Interrupted, Goto
  <2>. QED BY <2>1, <2>2, <2>5, <2>6, WakeupKeepsStructure
<1>2. CASE KeyPress
  <2>1. kbdq \in SUBSET Procs /\ \A q \in kbdq : state[q] \in {"SLEEPING", "RUNNABLE"}
    BY DEF Structure, LinkedFramesAlive, TypeOK
  <2>2. /\ Wakeup(kbdq, state, time_slice) /\ kbdq' = {}
        /\ UNCHANGED << current, timer >>
        /\ pc' = [pc EXCEPT ![current] = IF pc[current] = "user"
                                         THEN "trapret" ELSE pc[current]]
    BY <1>2 DEF KeyPress, Interrupted, Goto
  <2>. QED BY <2>1, <2>2, WakeupKeepsStructure
<1>. QED BY <1>1, <1>2

\* Every step keeps the structure.
LEMMA StructureStep == TypeOK /\ TypeOK' /\ Structure /\ [Next]_vars => Structure'
<1> SUFFICES ASSUME TypeOK, TypeOK', Structure, [Next]_vars PROVE Structure'
  OBVIOUS
<1>1. ASSUME NEW p \in Procs, UserStep(p) PROVE Structure'
  BY <1>1, UserKeepsStructure
<1>2. ASSUME NEW p \in Procs, KernelStep(p) PROVE Structure'
  BY <1>2, KernelKeepsStructure
<1>3. ASSUME NEW p \in Procs, ScheduleTo(p) PROVE Structure'
  BY <1>3, ScheduleKeepsStructure
<1>4. CASE Tick \/ KeyPress
  BY <1>4, InterruptKeepsStructure
<1>5. CASE UNCHANGED vars
  BY <1>5 DEF vars, Structure, PositionsConsistent, RunQueueExact, LinkedFramesAlive
<1>. QED BY <1>1, <1>2, <1>3, <1>4, <1>5 DEF Next, Halted

\* The structure always holds.
LEMMA StructureHolds == Spec => []Structure
  BY StructureInit, StructureStep, TypeCorrect, PTL DEF Spec

\* The run queue always holds exactly the runnable processes off the CPU.
THEOREM RunQueueCorrect == Spec => []RunQueueExact
<1>1. Structure => RunQueueExact
  BY DEF Structure
<1>. QED BY <1>1, StructureHolds, PTL

\* States and wait states always agree with the places of the processes.
THEOREM PositionsCorrect == Spec => []PositionsConsistent
<1>1. Structure => PositionsConsistent
  BY DEF Structure
<1>. QED BY <1>1, StructureHolds, PTL

\* Every linked timer and wait entry lies in the frame of a live process.
THEOREM FramesCorrect == Spec => []LinkedFramesAlive
<1>1. Structure => LinkedFramesAlive
  BY DEF Structure
<1>. QED BY <1>1, StructureHolds, PTL

-----------------------------------------------------------------------------
(* The family relations: parents are alive, everybody descends from        *)
(* initproc, no wake-up is lost, and at shutdown nobody is left.           *)

Family == ParentsAlive /\ DescendFromInit /\ parent[Idle] = Idle

\* The family at boot.
LEMMA FamilyInit == Init => Family
  BY ProcessAssumption DEF Init, Family, ParentsAlive, DescendFromInit, Live

\* idleproc and initproc never die.
LEMMA RootsAlive ==
    ASSUME TypeOK, Structure
    PROVE  /\ state[Idle] = "RUNNABLE"
           /\ state[InitProc] \in {"SLEEPING", "RUNNABLE"}
  BY ProcessAssumption, Tables DEF Structure, PositionsConsistent, TypeOK

\* A user process is not its own parent.
LEMMA NotOwnParent ==
    ASSUME TypeOK, Family, NEW c \in Procs \ {Idle, InitProc}, state[c] # "FREE"
    PROVE  parent[c] # c
<1>1. {c} \in SUBSET (Live \ {Idle, InitProc}) /\ {c} # {}
  BY DEF Live
<1>2. \E d \in {c} : parent[d] \in Live \ ({c} \cup {Idle})
  BY <1>1 DEF Family, DescendFromInit
<1>. QED BY <1>2

\* A step that frees, kills and moves nobody keeps the family.
LEMMA WakingKeepsFamily ==
    ASSUME TypeOK, TypeOK', Family, parent' = parent,
           \A q \in Procs : \/ state'[q] = state[q]
                            \/ state[q] \in {"SLEEPING", "RUNNABLE"} /\ state'[q] \in {"SLEEPING", "RUNNABLE"}
    PROVE  Family'
<1>1. Live' = Live
  BY DEF Live
<1>2. ParentsAlive'
  BY DEF Family, ParentsAlive, TypeOK
<1>3. DescendFromInit'
  BY <1>1 DEF Family, DescendFromInit
<1>. QED BY <1>2, <1>3 DEF Family

\* A child has a parent that is alive.
LEMMA ForkKeepsFamily ==
    ASSUME TypeOK, Structure, Family, NEW p \in Procs, NEW c \in Procs, NEW there,
           p = current, pc[p] \in {"user", "init_main"}, Fork(p, c, there)
    PROVE  Family'
<1> USE ProcessAssumption
<1>1. /\ state[c] = "FREE" /\ c # p /\ p \in Live /\ state[p] = "RUNNABLE" /\ p # Idle
      /\ c \notin Live /\ c # Idle /\ c # InitProc
  BY CurrentAwake, RootsAlive DEF Fork, Live
<1>2. /\ state' = [state EXCEPT ![c] = "RUNNABLE"]
      /\ parent' = [parent EXCEPT ![c] = p]
  BY DEF Fork
<1>3. Live' = Live \cup {c}
  BY <1>1, <1>2 DEF Live, TypeOK
<1>4. ParentsAlive' /\ parent'[Idle] = Idle
  BY <1>1, <1>2 DEF Family, ParentsAlive, TypeOK
<1>5. ASSUME NEW S \in SUBSET (Live' \ {Idle, InitProc}), S # {}
      PROVE  \E d \in S : parent'[d] \in Live' \ (S \cup {Idle})
  <2>1. CASE S = {c}
    BY <1>1, <1>2, <1>3, <2>1 DEF TypeOK
  <2>2. CASE S # {c}
    <3>1. S \ {c} \in SUBSET (Live \ {Idle, InitProc}) /\ S \ {c} # {}
      BY <1>3, <1>5, <2>2
    <3>2. PICK d \in S \ {c} : parent[d] \in Live \ ((S \ {c}) \cup {Idle})
      BY <3>1 DEF Family, DescendFromInit
    <3>3. parent'[d] = parent[d] /\ parent[d] # c
      BY <1>1, <1>2, <1>3, <3>2 DEF TypeOK, Live
    <3>. QED BY <1>3, <3>2, <3>3
  <2>. QED BY <2>1, <2>2
<1>6. DescendFromInit'
  BY <1>5 DEF DescendFromInit
<1>. QED BY <1>4, <1>6 DEF Family

\* The children of who exits go to initproc.
LEMMA ExitKeepsFamily ==
    ASSUME TypeOK, TypeOK', Structure, Family, NEW p \in Procs, p = current,
           pc[p] \in {"user", "wait_ret", "trapret", "init_done"}, DoExit(p)
    PROVE  Family'
<1> USE ProcessAssumption
<1>1. state[p] = "RUNNABLE" /\ p # Idle
  BY CurrentAwake
<1>2. CASE p = InitProc
  BY <1>2, WakingKeepsFamily DEF DoExit
<1>3. CASE p # InitProc
  <2>1. /\ Wakeup(WokenByExit(p), [state EXCEPT ![p] = "ZOMBIE"], time_slice)
        /\ parent' = [c \in Procs |-> IF c \in Children(p) THEN InitProc ELSE parent[c]]
    BY <1>3 DEF DoExit, Reparented
  <2>2. \A q \in WokenByExit(p) : q \in Procs /\ state[q] = "SLEEPING" /\ q # p
    BY <1>1 DEF WokenByExit, Structure, PositionsConsistent, TypeOK
  <2>3. \A q \in Procs : state'[q] = IF q \in WokenByExit(p) THEN "RUNNABLE"
                                     ELSE IF q = p THEN "ZOMBIE" ELSE state[q]
    BY <2>1, <2>2 DEF Wakeup, TypeOK
  <2>4. Live' = Live
    BY <1>1, <2>2, <2>3 DEF Live
  <2>5. state'[InitProc] \in {"SLEEPING", "RUNNABLE"}
    BY <1>3, <2>3, RootsAlive
  <2>6. \A c \in Procs : parent'[c] = IF c \in Children(p) THEN InitProc ELSE parent[c]
    BY <2>1
  <2>7. ParentsAlive'
    <3> SUFFICES ASSUME NEW c \in Procs, state'[c] # "FREE"
                 PROVE  state'[parent'[c]] \in {"SLEEPING", "RUNNABLE"}
      BY DEF ParentsAlive
    <3>1. CASE c \in Children(p)
      BY <2>5, <2>6, <3>1
    <3>2. CASE c \notin Children(p)
      <4>1. state[c] # "FREE"
        BY <1>1, <2>2, <2>3
      <4>2. parent[c] # p
        BY <1>1, <3>2, <4>1 DEF Children, Family
      <4>. QED BY <2>2, <2>3, <2>6, <3>2, <4>1, <4>2 DEF Family, ParentsAlive, TypeOK
    <3>. QED BY <3>1, <3>2
  <2>8. ASSUME NEW S \in SUBSET (Live' \ {Idle, InitProc}), S # {}
        PROVE  \E d \in S : parent'[d] \in Live' \ (S \cup {Idle})
    <3>1. CASE S \cap Children(p) # {}
      <4>1. PICK d \in S : d \in Children(p)
        BY <3>1
      <4>2. parent'[d] = InitProc
        BY <2>6, <4>1 DEF Children
      <4>3. InitProc \in Live' \ (S \cup {Idle})
        BY <2>5, <2>8 DEF Live
      <4>. QED BY <4>2, <4>3
    <3>2. CASE S \cap Children(p) = {}
      <4>1. PICK d \in S : parent[d] \in Live \ (S \cup {Idle})
        BY <2>4, <2>8 DEF Family, DescendFromInit
      <4>. QED BY <2>4, <2>6, <2>8, <3>2, <4>1 DEF Live
    <3>. QED BY <3>1, <3>2
  <2>9. DescendFromInit'
    BY <2>8 DEF DescendFromInit
  <2>10. parent'[Idle] = Idle
    BY <2>6 DEF Family, Children
  <2>. QED BY <2>7, <2>9, <2>10 DEF Family
<1>. QED BY <1>2, <1>3

\* A zombie that is freed leaves no child.
LEMMA ReapKeepsFamily ==
    ASSUME TypeOK, Structure, Family, NEW p \in Procs, NEW c \in Procs, WaitReap(p, c)
    PROVE  Family'
<1> USE ProcessAssumption
<1>1. /\ state[c] = "ZOMBIE" /\ c # Idle /\ c # InitProc
      /\ state' = [state EXCEPT ![c] = "FREE"]
      /\ parent' = [parent EXCEPT ![c] = Idle]
  BY RootsAlive DEF WaitReap
<1>2. \A d \in Live : parent[d] # c
  BY <1>1 DEF Family, ParentsAlive, Live
<1>3. Live' = Live \ {c}
  BY <1>1 DEF Live, TypeOK
<1>4. ParentsAlive' /\ parent'[Idle] = Idle
  BY <1>1, <1>2 DEF Family, ParentsAlive, TypeOK, Live
<1>5. ASSUME NEW S \in SUBSET (Live' \ {Idle, InitProc}), S # {}
      PROVE  \E d \in S : parent'[d] \in Live' \ (S \cup {Idle})
  <2>1. PICK d \in S : parent[d] \in Live \ (S \cup {Idle})
    BY <1>3, <1>5 DEF Family, DescendFromInit
  <2>2. parent'[d] = parent[d] /\ parent[d] # c
    BY <1>1, <1>2, <1>3, <2>1 DEF TypeOK
  <2>. QED BY <1>3, <2>1, <2>2
<1>6. DescendFromInit'
  BY <1>5 DEF DescendFromInit
<1>. QED BY <1>4, <1>6 DEF Family

\* User code keeps the family.
LEMMA UserKeepsFamily ==
    ASSUME TypeOK, TypeOK', Structure, Family, NEW p \in Procs, UserStep(p)
    PROVE  Family'
<1> USE ProcessAssumption
<1>0. /\ p = current /\ pc[p] = "user"
  BY DEF UserStep, SysFork, SysNothing, SysExit, SysWait, SysKill, SysYield, SysSleep,
         SysRead, Syscall
<1>1. state[p] = "RUNNABLE"
  BY <1>0, CurrentAwake
<1>2. ASSUME NEW c \in Procs, SysFork(p, c) PROVE Family'
  BY <1>0, <1>2, ForkKeepsFamily DEF SysFork
<1>3. CASE SysExit(p)
  BY <1>0, <1>3, ExitKeepsFamily DEF SysExit
<1>4. ASSUME NEW q \in Killable, SysKill(p, q) PROVE Family'
  <2>1. \A r \in WokenByKill(q) : state[r] \in {"SLEEPING", "RUNNABLE"}
    BY DEF WokenByKill, Structure, PositionsConsistent, TypeOK
  <2>2. Wakeup(WokenByKill(q), state, time_slice) /\ parent' = parent
    BY <1>4 DEF SysKill
  <2>. QED BY <2>1, <2>2, WakingKeepsFamily DEF Wakeup, TypeOK
<1>5. CASE SysNothing(p) \/ SysYield(p) \/ \E target \in Procs \cup {AnyChild} : SysWait(p, target)
  BY <1>5, WakingKeepsFamily DEF SysNothing, SysYield, SysWait
<1>6. ASSUME NEW n \in 1..MaxSleep, SysSleep(p, n) PROVE Family'
  BY <1>1, <1>6, WakingKeepsFamily DEF SysSleep, Sleep, TypeOK
<1>7. CASE SysRead(p)
  BY <1>1, <1>7, WakingKeepsFamily DEF SysRead, StdinTry, Sleep, TypeOK
<1>. QED BY <1>2, <1>3, <1>4, <1>5, <1>6, <1>7 DEF UserStep

\* The kernel keeps the family.
LEMMA KernelKeepsFamily ==
    ASSUME TypeOK, TypeOK', Structure, Family, NEW p \in Procs, KernelStep(p)
    PROVE  Family'
<1> USE ProcessAssumption
<1>1. ASSUME NEW c \in Procs, InitMain(c) PROVE Family'
  BY <1>1, ForkKeepsFamily DEF InitMain
<1>2. ASSUME NEW c \in Procs, WaitReap(p, c) PROVE Family'
  BY <1>2, ReapKeepsFamily
<1>3. CASE WaitSleep(p)
  <2>1. state[p] = "RUNNABLE"
    BY <1>3, CurrentAwake DEF WaitSleep, DoWait
  <2>. QED BY <1>3, <2>1, WakingKeepsFamily DEF WaitSleep, Sleep, TypeOK
<1>4. CASE WaitNoChild(p) \/ SleepReturn(p)
  BY <1>4, WakingKeepsFamily DEF WaitNoChild, SleepReturn
<1>5. CASE WaitReturn(p) \/ TrapReturn(p)
  <2>1. CASE exiting[p]
    BY <1>5, <2>1, ExitKeepsFamily DEF WaitReturn, TrapReturn
  <2>2. CASE ~exiting[p]
    BY <1>5, <2>2, WakingKeepsFamily DEF WaitReturn, TrapReturn
  <2>. QED BY <2>1, <2>2
<1>6. CASE ReadReturn(p)
  <2>1. state[p] = "RUNNABLE"
    BY <1>6, CurrentAwake DEF ReadReturn
  <2>. QED BY <1>6, <2>1, WakingKeepsFamily DEF ReadReturn, StdinTry, Sleep, TypeOK
<1>7. CASE InitReturn
  BY <1>7, ExitKeepsFamily DEF InitReturn
<1>. QED BY <1>1, <1>2, <1>3, <1>4, <1>5, <1>6, <1>7 DEF KernelStep

\* Every step keeps the family.
LEMMA FamilyStep == TypeOK /\ TypeOK' /\ Structure /\ Family /\ [Next]_vars => Family'
<1> SUFFICES ASSUME TypeOK, TypeOK', Structure, Family, [Next]_vars PROVE Family'
  OBVIOUS
<1>1. ASSUME NEW p \in Procs, UserStep(p) PROVE Family'
  BY <1>1, UserKeepsFamily
<1>2. ASSUME NEW p \in Procs, KernelStep(p) PROVE Family'
  BY <1>2, KernelKeepsFamily
<1>3. ASSUME NEW p \in Procs, ScheduleTo(p) PROVE Family'
  BY <1>3, WakingKeepsFamily DEF ScheduleTo
<1>4. CASE Tick
  <2>1. \A q \in Expiring : state[q] \in {"SLEEPING", "RUNNABLE"}
    BY DEF Expiring, Structure, LinkedFramesAlive, TypeOK
  <2>. QED BY <1>4, <2>1, WakingKeepsFamily DEF Tick, Wakeup, TypeOK
<1>5. CASE KeyPress
  <2>1. \A q \in kbdq : state[q] \in {"SLEEPING", "RUNNABLE"}
    BY DEF Structure, LinkedFramesAlive, TypeOK
  <2>. QED BY <1>5, <2>1, WakingKeepsFamily DEF KeyPress, Wakeup, TypeOK
<1>6. CASE UNCHANGED vars
  BY <1>6, WakingKeepsFamily DEF vars
<1>. QED BY <1>1, <1>2, <1>3, <1>4, <1>5, <1>6 DEF Next, Halted

\* The family always is one.
LEMMA FamilyHolds == Spec => []Family
  BY FamilyInit, FamilyStep, StructureHolds, TypeCorrect, PTL DEF Spec

\* No parent pointer ever leads to a freed or dead process.
THEOREM ParentsCorrect == Spec => []ParentsAlive
<1>1. Family => ParentsAlive
  BY DEF Family
<1>. QED BY <1>1, FamilyHolds, PTL

\* Every process always descends from initproc.
THEOREM DescentCorrect == Spec => []DescendFromInit
<1>1. Family => DescendFromInit
  BY DEF Family
<1>. QED BY <1>1, FamilyHolds, PTL

-----------------------------------------------------------------------------
(* No lost wake-up.                                                        *)

\* Why a process that is asleep is right to be.
Waiting(q) ==
    \/ /\ wait_state[q] = "CHILD"
       /\ Awaited(q) # {}
       /\ \A c \in Awaited(q) : state[c] # "ZOMBIE"
    \/ wait_state[q] = "TIMER" /\ timer[q] > 0
    \/ wait_state[q] = "KBD" /\ q \in kbdq /\ unread = 0

\* A step that leaves the sleepers it does not wake, their children, their
\* timers, their wait entries and the buffer as they are loses no wake-up.
LEMMA QuietKeepsWakeup ==
    ASSUME TypeOK, TypeOK', Structure, NoLostWakeup, NEW p \in Procs,
           p = current, state[p] = "RUNNABLE",
           \A q \in Procs : state'[q] = "SLEEPING" /\ q # p =>
               /\ state[q] = "SLEEPING" /\ wait_state'[q] = wait_state[q]
               /\ waitfor'[q] = waitfor[q]
               /\ timer'[q] = timer[q]
               /\ q \in kbdq => q \in kbdq'
               /\ Children(q)' = Children(q),
           unread = 0 => unread' = 0,
           \A q \in Procs : state'[q] = "ZOMBIE" => state[q] = "ZOMBIE",
           state'[p] = "SLEEPING" => Waiting(p)'
    PROVE  NoLostWakeup'
<1> SUFFICES ASSUME NEW q \in Procs, state'[q] = "SLEEPING" PROVE Waiting(q)'
  BY DEF NoLostWakeup, Waiting
<1>1. CASE q = p
  BY <1>1
<1>2. CASE q # p
  <2>1. Waiting(q)
    BY <1>2 DEF NoLostWakeup, Waiting
  <2>2. Awaited(q)' = Awaited(q) /\ Awaited(q) \in SUBSET Procs
    BY <1>2 DEF Awaited, Children
  <2>. QED BY <1>2, <2>1, <2>2 DEF Waiting
<1>. QED BY <1>1, <1>2

\* A wake-up of sleepers, with the other variables unchanged.
LEMMA WakingKeepsWakeup ==
    ASSUME TypeOK, TypeOK', Structure, NoLostWakeup, NEW W \in SUBSET Procs, NEW ts,
           Wakeup(W, state, ts), \A q \in W : state[q] \in {"SLEEPING", "RUNNABLE"},
           UNCHANGED << parent, waitfor >>,
           \A q \in Procs \ W : timer[q] > 0 => timer'[q] > 0,
           \A q \in Procs \ W : q \in kbdq => q \in kbdq' /\ unread' = unread
    PROVE  NoLostWakeup'
<1>1. \A q \in Procs : /\ state'[q] = IF q \in W THEN "RUNNABLE" ELSE state[q]
                       /\ q \notin W => wait_state'[q] = wait_state[q]
  BY DEF Wakeup, TypeOK
<1> SUFFICES ASSUME NEW q \in Procs, state'[q] = "SLEEPING" PROVE Waiting(q)'
  BY DEF NoLostWakeup, Waiting
<1>2. q \notin W /\ state[q] = "SLEEPING" /\ wait_state'[q] = wait_state[q] /\ Waiting(q)
  BY <1>1 DEF NoLostWakeup, Waiting
<1>3. Awaited(q)' = Awaited(q) /\ Awaited(q) \in SUBSET Procs
  BY <1>1 DEF Awaited, Children
<1>4. \A c \in Procs : state'[c] = "ZOMBIE" => state[c] = "ZOMBIE"
  BY <1>1
<1>. QED BY <1>2, <1>3, <1>4 DEF Waiting

\* A fork loses no wake-up.
LEMMA ForkKeepsWakeup ==
    ASSUME TypeOK, TypeOK', Structure, NoLostWakeup, NEW p \in Procs, NEW c \in Procs,
           NEW there, p = current, pc[p] \in {"user", "init_main"}, Fork(p, c, there)
    PROVE  NoLostWakeup'
<1>1. /\ state[p] = "RUNNABLE" /\ c # p /\ state[c] = "FREE"
  BY CurrentAwake DEF Fork
<1>2. /\ state' = [state EXCEPT ![c] = "RUNNABLE"]
      /\ wait_state' = [wait_state EXCEPT ![c] = "none"]
      /\ parent' = [parent EXCEPT ![c] = p]
      /\ UNCHANGED << waitfor, timer, kbdq, unread >>
  BY DEF Fork
<1>3. ASSUME NEW q \in Procs, state'[q] = "SLEEPING"
      PROVE  q # p /\ state[q] = "SLEEPING" /\ wait_state'[q] = wait_state[q]
             /\ Children(q)' = Children(q)
  BY <1>1, <1>2, <1>3 DEF TypeOK, Children
<1>4. \A q \in Procs : state'[q] = "ZOMBIE" => state[q] = "ZOMBIE"
  BY <1>2 DEF TypeOK
<1>. QED BY <1>1, <1>2, <1>3, <1>4, QuietKeepsWakeup

\* An exit loses no wake-up.
LEMMA ExitKeepsWakeup ==
    ASSUME TypeOK, TypeOK', Structure, Family, NoLostWakeup, NEW p \in Procs, p = current,
           pc[p] \in {"user", "wait_ret", "trapret", "init_done"}, DoExit(p),
           UNCHANGED << timer, kbdq, unread >>,
           \A q \in Procs \ {p} : waitfor'[q] = waitfor[q]
    PROVE  NoLostWakeup'
<1> USE ProcessAssumption
<1>1. state[p] = "RUNNABLE" /\ p # Idle
  BY CurrentAwake
<1>2. CASE p = InitProc
  BY <1>1, <1>2, QuietKeepsWakeup DEF DoExit, Children
<1>3. CASE p # InitProc
  <2> DEFINE W == WokenByExit(p)
  <2>1. /\ Wakeup(W, [state EXCEPT ![p] = "ZOMBIE"], time_slice)
        /\ parent' = [c \in Procs |-> IF c \in Children(p) THEN InitProc ELSE parent[c]]
    BY <1>3 DEF DoExit, Reparented
  <2>2. \A q \in W : q \in Procs /\ state[q] = "SLEEPING" /\ q # p
    BY <1>1 DEF WokenByExit, Structure, PositionsConsistent, TypeOK
  <2>3. \A q \in Procs : /\ state'[q] = IF q \in W THEN "RUNNABLE"
                                        ELSE IF q = p THEN "ZOMBIE" ELSE state[q]
                         /\ q \notin W => wait_state'[q] = wait_state[q]
    BY <2>1, <2>2 DEF Wakeup, TypeOK
  <2>4. ASSUME NEW q \in Procs, state'[q] = "SLEEPING" PROVE Waiting(q)'
    <3>1. /\ q # p /\ q \notin W /\ state[q] = "SLEEPING"
          /\ wait_state'[q] = wait_state[q] /\ Waiting(q) /\ waitfor'[q] = waitfor[q]
      BY <2>2, <2>3, <2>4 DEF NoLostWakeup, Waiting
    <3>2. CASE wait_state[q] # "CHILD"
      BY <3>1, <3>2 DEF Waiting
    <3>3. CASE wait_state[q] = "CHILD"
      <4>1. Awaited(q) # {} /\ \A c \in Awaited(q) : state[c] # "ZOMBIE"
        BY <3>1, <3>3 DEF Waiting
      <4>2. q # parent[p] /\ (q = InitProc => \A c \in Children(p) : state[c] # "ZOMBIE")
        BY <3>1, <3>3 DEF WokenByExit
      <4>3. \A c \in Procs : state'[c] # "FREE" <=> state[c] # "FREE"
        BY <1>1, <2>2, <2>3
      <4>4. Children(q) \subseteq Children(q)'
        <5>1. ASSUME NEW c \in Children(q) PROVE c \in Children(q)'
          <6>1. c \in Procs \ {Idle} /\ state[c] # "FREE" /\ parent[c] = q /\ c \notin Children(p)
            BY <3>1 DEF Children
          <6>2. parent'[c] = q
            BY <2>1, <6>1
          <6>. QED BY <4>3, <6>1, <6>2 DEF Children
        <5>. QED BY <5>1
      <4>5. ASSUME NEW c \in Children(q)'
            PROVE  c \in Children(q) \/ (q = InitProc /\ c \in Children(p))
        <5>1. c \in Procs \ {Idle} /\ state[c] # "FREE" /\ parent'[c] = q
          BY <4>3 DEF Children
        <5>2. CASE c \in Children(p)
          BY <2>1, <5>1, <5>2
        <5>3. CASE c \notin Children(p)
          BY <2>1, <5>1, <5>3 DEF Children
        <5>. QED BY <5>2, <5>3
      <4>6. Awaited(q)' # {}
        BY <3>1, <4>1, <4>4 DEF Awaited
      <4>7. ASSUME NEW c \in Awaited(q)' PROVE state'[c] # "ZOMBIE"
        <5>1. c \in Children(q)' /\ c \in Procs
          BY DEF Awaited, Children
        <5>2. c # p
          BY <4>2, <4>5, <5>1, <1>3, <1>1, NotOwnParent DEF Children
        <5>3. state[c] # "ZOMBIE"
          BY <3>1, <4>1, <4>2, <4>5, <4>7, <5>1 DEF Awaited
        <5>. QED BY <2>2, <2>3, <5>1, <5>2, <5>3
      <4>. QED BY <3>1, <3>3, <4>6, <4>7 DEF Waiting
    <3>. QED BY <3>2, <3>3
  <2>. QED BY <2>4 DEF NoLostWakeup, Waiting
<1>. QED BY <1>2, <1>3

\* do_wait loses no wake-up.
LEMMA ReapKeepsWakeup ==
    ASSUME TypeOK, TypeOK', Structure, NoLostWakeup, NEW p \in Procs, NEW c \in Procs,
           WaitReap(p, c)
    PROVE  NoLostWakeup'
<1>1. /\ p = current /\ state[p] = "RUNNABLE" /\ state[c] = "ZOMBIE" /\ parent[c] = p
  BY CurrentAwake DEF WaitReap, DoWait, Awaited, Children
<1>2. /\ state' = [state EXCEPT ![c] = "FREE"]
      /\ parent' = [parent EXCEPT ![c] = Idle]
      /\ waitfor' = [waitfor EXCEPT ![p] = AnyChild]
      /\ UNCHANGED << wait_state, timer, kbdq, unread >>
  BY DEF WaitReap
<1>3. ASSUME NEW q \in Procs, state'[q] = "SLEEPING"
      PROVE  /\ q # p /\ state[q] = "SLEEPING" /\ waitfor'[q] = waitfor[q]
             /\ Children(q)' = Children(q)
  BY <1>1, <1>2, <1>3 DEF TypeOK, Children
<1>4. \A q \in Procs : state'[q] = "ZOMBIE" => state[q] = "ZOMBIE"
  BY <1>2 DEF TypeOK
<1>. QED BY <1>1, <1>2, <1>3, <1>4, QuietKeepsWakeup

\* The turn of dev_stdin_read for current.
LEMMA StdinKeepsWakeup ==
    ASSUME TypeOK, TypeOK', Structure, NoLostWakeup, NEW p \in Procs, NEW Q,
           p = current, state[p] = "RUNNABLE", StdinTry(p, Q),
           Q = kbdq \/ Q = kbdq \ {p},
           UNCHANGED << parent, waitfor, timer >>
    PROVE  NoLostWakeup'
<1>1. CASE unread > 0
  <2>1. UNCHANGED << state, wait_state, parent, waitfor, timer >> /\ kbdq' = Q
    BY <1>1 DEF StdinTry
  <2>. QED BY <1>1, <2>1, QuietKeepsWakeup DEF Children
<1>2. CASE ~(unread > 0)
  <2>1. /\ state' = [state EXCEPT ![p] = "SLEEPING"]
        /\ wait_state' = [wait_state EXCEPT ![p] = "KBD"]
        /\ kbdq' = Q \cup {p} /\ unread = 0 /\ unread' = 0
    BY <1>2 DEF StdinTry, Sleep
  <2>2. Waiting(p)'
    BY <2>1 DEF Waiting, TypeOK
  <2>3. ASSUME NEW q \in Procs, state'[q] = "SLEEPING", q # p
        PROVE  /\ state[q] = "SLEEPING" /\ wait_state'[q] = wait_state[q]
               /\ q \in kbdq => q \in kbdq'
    BY <2>1, <2>3 DEF TypeOK
  <2>4. \A q \in Procs : /\ Children(q)' = Children(q)
                         /\ state'[q] = "ZOMBIE" => state[q] = "ZOMBIE"
    BY <2>1 DEF TypeOK, Children
  <2>. QED BY <2>1, <2>2, <2>3, <2>4, QuietKeepsWakeup
<1>. QED BY <1>1, <1>2

\* User code loses no wake-up.
LEMMA UserKeepsWakeup ==
    ASSUME TypeOK, TypeOK', Structure, Family, NoLostWakeup, NEW p \in Procs, UserStep(p)
    PROVE  NoLostWakeup'
<1> USE ProcessAssumption
<1>0. /\ p = current /\ pc[p] = "user"
  BY DEF UserStep, SysFork, SysNothing, SysExit, SysWait, SysKill, SysYield, SysSleep,
         SysRead, Syscall
<1>1. state[p] = "RUNNABLE" /\ wait_state[p] = "none"
  BY <1>0, CurrentAwake
<1>2. ASSUME NEW c \in Procs, SysFork(p, c) PROVE NoLostWakeup'
  BY <1>0, <1>2, ForkKeepsWakeup DEF SysFork
<1>3. CASE SysExit(p)
  BY <1>0, <1>3, ExitKeepsWakeup DEF SysExit
<1>4. ASSUME NEW q \in Killable, SysKill(p, q) PROVE NoLostWakeup'
  <2>1. /\ WokenByKill(q) \in SUBSET Procs
        /\ \A r \in WokenByKill(q) : state[r] \in {"SLEEPING", "RUNNABLE"}
    BY DEF WokenByKill, Structure, PositionsConsistent, TypeOK
  <2>2. /\ Wakeup(WokenByKill(q), state, time_slice)
        /\ UNCHANGED << parent, waitfor, timer, kbdq, unread >>
    BY <1>4 DEF SysKill
  <2>. QED BY <2>1, <2>2, WakingKeepsWakeup
<1>5. CASE SysNothing(p) \/ SysYield(p)
  BY <1>0, <1>1, <1>5, QuietKeepsWakeup DEF SysNothing, SysYield, Children
<1>6. ASSUME NEW target \in Procs \cup {AnyChild}, SysWait(p, target) PROVE NoLostWakeup'
  <2>1. \A q \in Procs \ {p} : waitfor'[q] = waitfor[q]
    BY <1>6 DEF SysWait, TypeOK
  <2>. QED BY <1>0, <1>1, <1>6, <2>1, QuietKeepsWakeup DEF SysWait, Children
<1>7. ASSUME NEW n \in 1..MaxSleep, SysSleep(p, n) PROVE NoLostWakeup'
  <2>1. /\ state' = [state EXCEPT ![p] = "SLEEPING"]
        /\ wait_state' = [wait_state EXCEPT ![p] = "TIMER"]
        /\ timer' = [timer EXCEPT ![p] = n]
        /\ UNCHANGED << parent, waitfor, kbdq, unread >>
    BY <1>7 DEF SysSleep, Sleep
  <2>2. Waiting(p)'
    BY <2>1 DEF Waiting, TypeOK
  <2>3. ASSUME NEW q \in Procs, state'[q] = "SLEEPING", q # p
        PROVE  /\ state[q] = "SLEEPING" /\ wait_state'[q] = wait_state[q]
               /\ timer'[q] = timer[q] /\ waitfor'[q] = waitfor[q]
               /\ q \in kbdq => q \in kbdq'
    BY <2>1, <2>3 DEF TypeOK
  <2>4. \A q \in Procs : /\ Children(q)' = Children(q)
                         /\ state'[q] = "ZOMBIE" => state[q] = "ZOMBIE"
    <3>1. state[p] # "FREE" /\ state \in [Procs -> States] /\ parent' = parent
      BY <1>1, <2>1 DEF TypeOK, States
    <3>2. \A q \in Procs : state'[q] = IF q = p THEN "SLEEPING" ELSE state[q]
      BY <2>1, <3>1
    <3>. QED BY <3>1, <3>2 DEF Children
  <2>. QED BY <1>0, <1>1, <2>1, <2>2, <2>3, <2>4, QuietKeepsWakeup
<1>8. CASE SysRead(p)
  BY <1>0, <1>1, <1>8, StdinKeepsWakeup DEF SysRead
<1>. QED BY <1>2, <1>3, <1>4, <1>5, <1>6, <1>7, <1>8 DEF UserStep

\* The kernel loses no wake-up.
LEMMA KernelKeepsWakeup ==
    ASSUME TypeOK, TypeOK', Structure, Family, NoLostWakeup, NEW p \in Procs, KernelStep(p)
    PROVE  NoLostWakeup'
<1> USE ProcessAssumption
<1>1. ASSUME NEW c \in Procs, InitMain(c) PROVE NoLostWakeup'
  BY <1>1, ForkKeepsWakeup DEF InitMain
<1>2. ASSUME NEW c \in Procs, WaitReap(p, c) PROVE NoLostWakeup'
  BY <1>2, ReapKeepsWakeup
<1>3. CASE WaitSleep(p)
  <2>1. p = current /\ state[p] = "RUNNABLE"
    BY <1>3, CurrentAwake DEF WaitSleep, DoWait
  <2>2. /\ state' = [state EXCEPT ![p] = "SLEEPING"]
        /\ wait_state' = [wait_state EXCEPT ![p] = "CHILD"]
        /\ UNCHANGED << parent, waitfor, timer, kbdq, unread >>
    BY <1>3 DEF WaitSleep, Sleep
  <2>3. \A q \in Procs : /\ Children(q)' = Children(q)
                         /\ state'[q] = "ZOMBIE" => state[q] = "ZOMBIE"
    BY <2>1, <2>2 DEF TypeOK, Children
  <2>4. Waiting(p)'
    <3>1. Awaited(p)' = Awaited(p) /\ Awaited(p) \in SUBSET Procs
      BY <2>2, <2>3 DEF Awaited, Children
    <3>2. Awaited(p) # {} /\ \A c \in Awaited(p) : state[c] # "ZOMBIE"
      BY <1>3 DEF WaitSleep
    <3>3. wait_state'[p] = "CHILD"
      BY <2>2 DEF TypeOK
    <3>. QED BY <2>3, <3>1, <3>2, <3>3 DEF Waiting
  <2>5. ASSUME NEW q \in Procs, state'[q] = "SLEEPING", q # p
        PROVE  state[q] = "SLEEPING" /\ wait_state'[q] = wait_state[q]
    BY <2>2, <2>5 DEF TypeOK
  <2>. QED BY <2>1, <2>2, <2>3, <2>4, <2>5, QuietKeepsWakeup
<1>4. CASE WaitNoChild(p)
  <2>1. p = current /\ state[p] = "RUNNABLE"
    BY <1>4, CurrentAwake DEF WaitNoChild, DoWait
  <2>2. \A q \in Procs \ {p} : waitfor'[q] = waitfor[q]
    BY <1>4 DEF WaitNoChild, TypeOK
  <2>. QED BY <1>4, <2>1, <2>2, QuietKeepsWakeup DEF WaitNoChild, Children
<1>5. CASE WaitReturn(p) \/ TrapReturn(p)
  <2>1. p = current /\ pc[p] \in {"wait_ret", "trapret"} /\ state[p] = "RUNNABLE"
    BY <1>5, CurrentAwake DEF WaitReturn, TrapReturn
  <2>2. CASE exiting[p]
    <3>1. /\ DoExit(p) /\ UNCHANGED << timer, kbdq, unread >>
          /\ \A q \in Procs \ {p} : waitfor'[q] = waitfor[q]
      BY <1>5, <2>2 DEF WaitReturn, TrapReturn, TypeOK
    <3>. QED BY <2>1, <3>1, ExitKeepsWakeup
  <2>3. CASE ~exiting[p]
    <3>1. UNCHANGED << state, wait_state, parent, waitfor, timer, kbdq, unread >>
      BY <1>5, <2>3 DEF WaitReturn, TrapReturn
    <3>. QED BY <2>1, <3>1, QuietKeepsWakeup DEF Children
  <2>. QED BY <2>2, <2>3
<1>6. CASE SleepReturn(p)
  <2>1. p = current /\ state[p] = "RUNNABLE"
    BY <1>6, CurrentAwake DEF SleepReturn
  <2>2. \A q \in Procs \ {p} : timer'[q] = timer[q]
    BY <1>6 DEF SleepReturn, TypeOK
  <2>. QED BY <1>6, <2>1, <2>2, QuietKeepsWakeup DEF SleepReturn, Children
<1>7. CASE ReadReturn(p)
  <2>1. /\ p = current /\ state[p] = "RUNNABLE"
        /\ UNCHANGED << parent, waitfor, timer >>
    BY <1>7, CurrentAwake DEF ReadReturn
  <2>2. CASE StdinTry(p, kbdq \ {p})
    BY <2>1, <2>2, StdinKeepsWakeup
  <2>3. CASE kbdq' = kbdq \ {p} /\ UNCHANGED << state, wait_state, unread >>
    BY <2>1, <2>3, QuietKeepsWakeup DEF Children
  <2>. QED BY <1>7, <2>2, <2>3 DEF ReadReturn
<1>8. CASE InitReturn
  BY <1>8, ExitKeepsWakeup DEF InitReturn
<1>. QED BY <1>1, <1>2, <1>3, <1>4, <1>5, <1>6, <1>7, <1>8 DEF KernelStep

\* No step loses a wake-up.
LEMMA WakeupStep ==
    TypeOK /\ TypeOK' /\ Structure /\ Family /\ NoLostWakeup /\ [Next]_vars => NoLostWakeup'
<1> SUFFICES ASSUME TypeOK, TypeOK', Structure, Family, NoLostWakeup, [Next]_vars
             PROVE  NoLostWakeup'
  OBVIOUS
<1>1. ASSUME NEW p \in Procs, UserStep(p) PROVE NoLostWakeup'
  BY <1>1, UserKeepsWakeup
<1>2. ASSUME NEW p \in Procs, KernelStep(p) PROVE NoLostWakeup'
  BY <1>2, KernelKeepsWakeup
<1>3. ASSUME NEW p \in Procs, ScheduleTo(p) PROVE NoLostWakeup'
  <2>1. UNCHANGED << state, wait_state, parent, waitfor, timer, kbdq, unread >>
    BY <1>3 DEF ScheduleTo
  <2>. QED BY <2>1 DEF NoLostWakeup, Awaited, Children
<1>4. CASE Tick
  <2>1. /\ Expiring \in SUBSET Procs
        /\ \A q \in Expiring : state[q] \in {"SLEEPING", "RUNNABLE"}
    BY DEF Expiring, Structure, LinkedFramesAlive, TypeOK
  <2>2. PICK ts : Wakeup(Expiring, state, ts)
    BY <1>4 DEF Tick
  <2>3. /\ timer' = [q \in Procs |-> IF timer[q] = 0 THEN 0 ELSE timer[q] - 1]
        /\ UNCHANGED << parent, waitfor, kbdq, unread >>
    BY <1>4 DEF Tick
  <2>4. ASSUME NEW q \in Procs \ Expiring, timer[q] > 0 PROVE timer'[q] > 0
    <3>1. timer[q] \in 0..MaxSleep /\ timer[q] # 1
      BY DEF Expiring, TypeOK
    <3>. QED BY <2>3, <2>4, <3>1
  <2>. QED BY <2>1, <2>2, <2>3, <2>4, WakingKeepsWakeup
<1>5. CASE KeyPress
  <2>1. \A q \in kbdq : state[q] \in {"SLEEPING", "RUNNABLE"}
    BY DEF Structure, LinkedFramesAlive, TypeOK
  <2>2. kbdq \in SUBSET Procs /\ Wakeup(kbdq, state, time_slice)
        /\ UNCHANGED << parent, waitfor, timer >>
    BY <1>5 DEF KeyPress, TypeOK
  <2>. QED BY <2>1, <2>2, WakingKeepsWakeup
<1>6. CASE UNCHANGED vars
  BY <1>6 DEF vars, NoLostWakeup, Awaited, Children
<1>. QED BY <1>1, <1>2, <1>3, <1>4, <1>5, <1>6 DEF Next, Halted

\* Nobody ever sleeps through the event it waits for.
THEOREM WakeupCorrect == Spec => []NoLostWakeup
<1>1. Init => NoLostWakeup
  BY DEF Init, NoLostWakeup
<1>. QED BY <1>1, WakeupStep, FamilyHolds, StructureHolds, TypeCorrect, PTL DEF Spec

-----------------------------------------------------------------------------
(* Shutdown, and the dead.                                                 *)

\* initproc always waits for any child, and leaves its loop only when nobody
\* but the two roots is left.
Shutdown == waitfor[InitProc] = AnyChild /\ ShutdownClean

\* An interrupt wakes some processes, all of them alive.
LEMMA InterruptsWakeSleepers ==
    ASSUME TypeOK, Structure, Tick \/ KeyPress
    PROVE  \E W \in SUBSET Procs : /\ \E ts : Wakeup(W, state, ts)
                                   /\ \A q \in W : state[q] \in {"SLEEPING", "RUNNABLE"}
<1>1. CASE Tick
  <2>1. /\ Expiring \in SUBSET Procs
        /\ \A q \in Expiring : state[q] \in {"SLEEPING", "RUNNABLE"}
    BY DEF Expiring, Structure, LinkedFramesAlive, TypeOK
  <2>2. \E ts : Wakeup(Expiring, state, ts)
    BY <1>1 DEF Tick
  <2>. QED BY <2>1, <2>2
<1>2. CASE KeyPress
  <2>1. kbdq \in SUBSET Procs /\ \A q \in kbdq : state[q] \in {"SLEEPING", "RUNNABLE"}
    BY DEF Structure, LinkedFramesAlive, TypeOK
  <2>2. \E ts : Wakeup(kbdq, state, ts)
    BY <1>2 DEF KeyPress
  <2>. QED BY <2>1, <2>2
<1>. QED BY <1>1, <1>2

\* Every step keeps what shutdown relies on.
LEMMA ShutdownStep ==
    TypeOK /\ TypeOK' /\ Structure /\ Structure' /\ Family /\ Shutdown /\ [Next]_vars => Shutdown'
<1> SUFFICES ASSUME TypeOK, TypeOK', Structure, Structure', Family, Shutdown, [Next]_vars
             PROVE  Shutdown'
  OBVIOUS
<1> USE ProcessAssumption
<1>0. current # InitProc => pc[InitProc] # "init_done"
  BY DEF Structure, PositionsConsistent, OffCPU
<1>1. ASSUME NEW p \in Procs, UserStep(p) PROVE Shutdown'
  <2>1. p = current /\ pc[p] = "user" /\ p # InitProc
    BY <1>1, CurrentAwake
    DEF UserStep, SysFork, SysNothing, SysExit, SysWait, SysKill, SysYield, SysSleep,
        SysRead, Syscall
  <2>2. waitfor'[InitProc] = waitfor[InitProc]
    BY <1>1, <2>1
    DEF UserStep, SysFork, Fork, SysNothing, SysExit, SysWait, SysKill, SysYield,
        SysSleep, SysRead, TypeOK
  <2>3. current' = current
    BY <1>1
    DEF UserStep, SysFork, Fork, SysNothing, SysExit, SysWait, SysKill, SysYield,
        SysSleep, SysRead
  <2>4. pc'[InitProc] # "init_done"
    BY <2>1, <2>3 DEF Structure, PositionsConsistent, OffCPU
  <2>. QED BY <2>2, <2>4 DEF Shutdown, ShutdownClean
<1>2. ASSUME NEW p \in Procs, KernelStep(p) PROVE Shutdown'
  <2>1. p = current \/ current = InitProc
    BY <1>2 DEF KernelStep, InitMain, WaitReap, WaitSleep, WaitNoChild, WaitReturn,
                SleepReturn, ReadReturn, TrapReturn, InitReturn, DoWait
  <2>2. current' = current
    BY <1>2 DEF KernelStep, InitMain, Fork, WaitReap, WaitSleep, WaitNoChild, WaitReturn,
                SleepReturn, ReadReturn, TrapReturn, InitReturn
  <2>3. waitfor'[InitProc] = AnyChild
    BY <1>2 DEF KernelStep, InitMain, Fork, WaitReap, WaitSleep, WaitNoChild, WaitReturn,
                SleepReturn, ReadReturn, TrapReturn, InitReturn, Shutdown, TypeOK
  <2>4. CASE current # InitProc
    BY <2>2, <2>3, <2>4 DEF Structure, PositionsConsistent, OffCPU, Shutdown, ShutdownClean
  <2>5. CASE current = InitProc /\ WaitNoChild(p)
    <3>1. p = InitProc /\ Children(InitProc) = {}
      BY <2>5 DEF WaitNoChild, DoWait, Awaited, Shutdown
    <3>2. Live \ {Idle, InitProc} = {}
      <4>1. SUFFICES ASSUME Live \ {Idle, InitProc} # {} PROVE FALSE
        OBVIOUS
      <4>2. PICK c \in Live \ {Idle, InitProc} :
                parent[c] \in Live \ ((Live \ {Idle, InitProc}) \cup {Idle})
        BY <4>1 DEF Family, DescendFromInit
      <4>. QED BY <3>1, <4>2 DEF Children, Live
    <3>3. Live = {Idle, InitProc}
      BY <3>2, RootsAlive DEF Live
    <3>. QED BY <2>3, <2>5, <3>3 DEF WaitNoChild, Shutdown, ShutdownClean, Live
  <2>6. CASE current = InitProc /\ ~WaitNoChild(p)
    <3>1. pc'[InitProc] # "init_done"
      BY <1>2, <2>6 DEF KernelStep, InitMain, Fork, WaitReap, WaitSleep, Sleep, WaitReturn,
                  SleepReturn, ReadReturn, StdinTry, TrapReturn, InitReturn, DoExit, Goto,
                  DoWait, TypeOK
    <3>. QED BY <2>3, <3>1 DEF Shutdown, ShutdownClean
  <2>. QED BY <2>4, <2>5, <2>6
<1>3. ASSUME NEW p \in Procs, ScheduleTo(p) PROVE Shutdown'
  <2>1. pc[InitProc] # "init_done"
    BY <1>0, <1>3, Tables DEF ScheduleTo
  <2>2. pc'[InitProc] # "init_done" /\ waitfor' = waitfor
    BY <1>3, <2>1, Tables DEF ScheduleTo, Goto, TypeOK
  <2>. QED BY <2>2 DEF Shutdown, ShutdownClean
<1>4. CASE Tick \/ KeyPress
  <2>1. /\ waitfor' = waitfor
        /\ pc' = [pc EXCEPT ![current] = IF pc[current] = "user"
                                         THEN "trapret" ELSE pc[current]]
    BY <1>4 DEF Tick, KeyPress, Interrupted, Goto
  <2>2. pc'[InitProc] = "init_done" => pc[InitProc] = "init_done"
    BY <2>1 DEF TypeOK
  <2>a. PICK W \in SUBSET Procs : /\ \E ts : Wakeup(W, state, ts)
                                  /\ \A q \in W : state[q] \in {"SLEEPING", "RUNNABLE"}
    BY <1>4, InterruptsWakeSleepers
  <2>3. PICK ts : Wakeup(W, state, ts)
    BY <2>a
  <2>4. Live' = Live
    BY <2>a, <2>3 DEF Wakeup, Live
  <2>. QED BY <2>1, <2>2, <2>4 DEF Shutdown, ShutdownClean
<1>5. CASE UNCHANGED vars
  BY <1>5 DEF vars, Shutdown, ShutdownClean, Live
<1>. QED BY <1>1, <1>2, <1>3, <1>4, <1>5 DEF Next, Halted

\* When init_main leaves its loop only idleproc and initproc are left.
THEOREM ShutdownCorrect == Spec => []ShutdownClean
<1>1. Init => Shutdown
  BY ProcessAssumption DEF Init, Shutdown, ShutdownClean
<1>2. Shutdown => ShutdownClean
  BY DEF Shutdown
<1>. QED
  BY <1>1, <1>2, ShutdownStep, FamilyHolds, StructureHolds, TypeCorrect, PTL DEF Spec

\* What a step may do to the process p as far as its death goes.
DeadRespected(p) ==
    /\ state[p] = "ZOMBIE" => /\ state'[p] \in {"ZOMBIE", "FREE"}
                              /\ current' = p => current = p
    /\ state[p] # "FREE" /\ state'[p] = "FREE" =>
           state[p] = "ZOMBIE" /\ current = parent[p]

\* A wake-up brings no dead process back and frees nobody.
LEMMA WakingRespectsDead ==
    ASSUME TypeOK, NEW W \in SUBSET Procs, NEW ts, Wakeup(W, state, ts),
           \A q \in W : state[q] \in {"SLEEPING", "RUNNABLE"},
           current' = current
    PROVE  \A p \in Procs : DeadRespected(p)
  BY DEF Wakeup, DeadRespected, TypeOK

\* An exit wakes no zombie.
LEMMA ExitRespectsDead ==
    ASSUME TypeOK, Structure, NEW p \in Procs, p = current,
           pc[p] \in {"user", "wait_ret", "trapret", "init_done"}, DoExit(p),
           current' = current
    PROVE  \A q \in Procs : DeadRespected(q)
<1>1. state[p] = "RUNNABLE"
  BY CurrentAwake
<1>2. CASE p = InitProc
  BY <1>2 DEF DoExit, DeadRespected
<1>3. CASE p # InitProc
  <2>1. Wakeup(WokenByExit(p), [state EXCEPT ![p] = "ZOMBIE"], time_slice)
    BY <1>3 DEF DoExit
  <2>2. \A q \in WokenByExit(p) : state[q] = "SLEEPING"
    BY DEF WokenByExit, Structure, PositionsConsistent, TypeOK
  <2>. QED BY <1>1, <2>1, <2>2 DEF Wakeup, DeadRespected, TypeOK
<1>. QED BY <1>2, <1>3

\* No step wakes a zombie.
LEMMA StepRespectsDead ==
    TypeOK /\ Structure /\ [Next]_vars => \A p \in Procs : DeadRespected(p)
<1> SUFFICES ASSUME TypeOK, Structure, [Next]_vars, NEW q \in Procs PROVE DeadRespected(q)
  OBVIOUS
<1>1. ASSUME NEW p \in Procs, UserStep(p) PROVE DeadRespected(q)
  <2>0. p = current /\ pc[p] = "user" /\ state[p] = "RUNNABLE"
    BY <1>1, CurrentAwake
    DEF UserStep, SysFork, SysNothing, SysExit, SysWait, SysKill, SysYield, SysSleep,
        SysRead, Syscall
  <2>1. ASSUME NEW c \in Procs, SysFork(p, c) PROVE DeadRespected(q)
    BY <2>1 DEF SysFork, Fork, DeadRespected, TypeOK
  <2>2. CASE SysExit(p)
    BY <2>0, <2>2, ExitRespectsDead DEF SysExit
  <2>3. ASSUME NEW k \in Killable, SysKill(p, k) PROVE DeadRespected(q)
    <3>1. /\ WokenByKill(k) \in SUBSET Procs
          /\ \A r \in WokenByKill(k) : state[r] \in {"SLEEPING", "RUNNABLE"}
      BY ProcessAssumption DEF WokenByKill, Structure, PositionsConsistent, TypeOK
    <3>2. Wakeup(WokenByKill(k), state, time_slice) /\ current' = current
      BY <2>3 DEF SysKill
    <3>. QED BY <3>1, <3>2, WakingRespectsDead
  <2>4. CASE \/ SysNothing(p) \/ SysYield(p) \/ SysRead(p)
             \/ \E target \in Procs \cup {AnyChild} : SysWait(p, target)
             \/ \E n \in 1..MaxSleep : SysSleep(p, n)
    BY <2>0, <2>4 DEF SysNothing, SysYield, SysWait, SysSleep, SysRead, StdinTry, Sleep,
                      DeadRespected, TypeOK
  <2>. QED BY <1>1, <2>1, <2>2, <2>3, <2>4 DEF UserStep
<1>2. ASSUME NEW p \in Procs, KernelStep(p) PROVE DeadRespected(q)
  <2>1. ASSUME NEW c \in Procs, InitMain(c) PROVE DeadRespected(q)
    BY <2>1 DEF InitMain, Fork, DeadRespected, TypeOK
  <2>2. ASSUME NEW c \in Procs, WaitReap(p, c) PROVE DeadRespected(q)
    BY <2>2 DEF WaitReap, DoWait, Awaited, Children, DeadRespected, TypeOK
  <2>3. CASE WaitSleep(p) \/ ReadReturn(p)
    <3>1. state[p] = "RUNNABLE"
      BY <2>3, CurrentAwake DEF WaitSleep, DoWait, ReadReturn
    <3>. QED BY <2>3, <3>1 DEF WaitSleep, ReadReturn, StdinTry, Sleep, DeadRespected, TypeOK
  <2>4. CASE WaitNoChild(p) \/ SleepReturn(p)
    BY <2>4 DEF WaitNoChild, SleepReturn, DeadRespected
  <2>5. CASE WaitReturn(p) \/ TrapReturn(p) \/ InitReturn
    <3>1. CASE InitReturn
      BY <3>1, ProcessAssumption, ExitRespectsDead DEF InitReturn
    <3>2. CASE (WaitReturn(p) \/ TrapReturn(p)) /\ exiting[p]
      BY <3>2, ExitRespectsDead DEF WaitReturn, TrapReturn
    <3>3. CASE (WaitReturn(p) \/ TrapReturn(p)) /\ ~exiting[p]
      BY <3>3 DEF WaitReturn, TrapReturn, DeadRespected
    <3>. QED BY <2>5, <3>1, <3>2, <3>3
  <2>. QED BY <1>2, <2>1, <2>2, <2>3, <2>4, <2>5 DEF KernelStep
<1>3. ASSUME NEW p \in Procs, ScheduleTo(p) PROVE DeadRespected(q)
  <2>1. state[p] = "RUNNABLE"
    BY <1>3, RootsAlive DEF ScheduleTo, Structure, RunQueueExact
  <2>. QED BY <1>3, <2>1 DEF ScheduleTo, DeadRespected
<1>4. CASE Tick \/ KeyPress
  <2>a. PICK W \in SUBSET Procs : /\ \E ts : Wakeup(W, state, ts)
                                  /\ \A r \in W : state[r] \in {"SLEEPING", "RUNNABLE"}
    BY <1>4, InterruptsWakeSleepers
  <2>1. PICK ts : Wakeup(W, state, ts)
    BY <2>a
  <2>2. current' = current
    BY <1>4 DEF Tick, KeyPress
  <2>. QED BY <2>a, <2>1, <2>2, WakingRespectsDead
<1>5. CASE UNCHANGED vars
  BY <1>5 DEF vars, DeadRespected
<1>. QED BY <1>1, <1>2, <1>3, <1>4, <1>5 DEF Next, Halted

\* The dead never run again, are never woken, and only their parents free them.
THEOREM DeadCorrect == Spec => DeadStayDead
<1>1. TypeOK /\ Structure /\ [Next]_vars =>
        [\A p \in Procs :
           /\ state[p] = "ZOMBIE" => /\ state'[p] \in {"ZOMBIE", "FREE"}
                                     /\ current' = p => current = p
           /\ state[p] # "FREE" /\ state'[p] = "FREE" =>
                  state[p] = "ZOMBIE" /\ current = parent[p]]_vars
  BY StepRespectsDead DEF DeadRespected
<1>. QED BY <1>1, StructureHolds, TypeCorrect, PTL DEF Spec, DeadStayDead

-----------------------------------------------------------------------------
(* The pids: get_pid never hands out a pid that is in use, for every       *)
(* MAX_PID and MAX_PROCESS that satisfy its static_assert.                 *)

\* Nothing that the scan has visited is the candidate or makes next_safe
\* wrong.  Between two calls everything counts as visited.
ScanExact ==
    place = "scan" =>
        /\ last_pid < MAX_PID
        /\ nr_process < MAX_PROCESS
        /\ \A q \in pids \ todo : q # last_pid /\ ~(last_pid < q /\ q < next_safe)

PidsInv == PidsTypeOK /\ PidsUnique /\ CacheSound /\ ScanExact

\* There are finitely many pids.
LEMMA PidsFinite == ASSUME PidsTypeOK PROVE IsFiniteSet(pids) /\ Cardinality(pids) \in Nat
<1>1. MAX_PID - 1 \in Int
  BY PidsAssumption
<1>2. IsFiniteSet(1..(MAX_PID - 1))
  BY <1>1, FS_Interval
<1>3. IsFiniteSet(pids)
  BY <1>2, FS_Subset DEF PidsTypeOK
<1>. QED BY <1>3, FS_CardinalityType

\* A pid that is not in use enters the list.
LEMMA EnterKeeps ==
    ASSUME PidsInv, NEW pid \in 1..MAX_PID-1, pid \notin pids, nr_process < MAX_PROCESS,
           Enter(pid), last_pid' = pid, next_safe' = next_safe,
           \A q \in pids : ~(pid < q /\ q < next_safe)
    PROVE  PidsInv'
<1> USE PidsAssumption
<1>1. Cardinality(pids \cup {pid}) = Cardinality(pids) + 1
  BY PidsFinite, FS_AddElement DEF PidsInv
<1>2. PidsTypeOK'
  BY DEF PidsInv, PidsTypeOK, Enter
<1>3. PidsUnique'
  <2>1. nr_process = Cardinality(pids) + 1
    BY DEF PidsInv, PidsUnique
  <2>. QED BY <1>1, <2>1, PidsFinite DEF PidsInv, PidsUnique, Enter
<1>4. CacheSound' /\ ScanExact'
  BY DEF CacheSound, ScanExact, Enter, PidsInv, PidsTypeOK
<1>. QED BY <1>2, <1>3, <1>4 DEF PidsInv

\* A call of get_pid keeps the invariant.
LEMMA CallKeeps == PidsInv /\ Call => PidsInv'
<1> SUFFICES ASSUME PidsInv, Call PROVE PidsInv'
  OBVIOUS
<1> USE PidsAssumption
<1> DEFINE next == last_pid + 1
<1>1. CASE next < MAX_PID /\ next < next_safe /\ last_pid' = next /\ Enter(next)
           /\ UNCHANGED next_safe
  <2>1. next \in 1..MAX_PID-1 /\ last_pid < next
    BY <1>1 DEF PidsInv, PidsTypeOK
  <2>2. next \notin pids /\ \A q \in pids : ~(next < q /\ q < next_safe)
    BY <1>1, <2>1 DEF Call, PidsInv, CacheSound, PidsTypeOK
  <2>3. nr_process < MAX_PROCESS
    BY DEF Call
  <2> HIDE DEF next
  <2>. QED BY <1>1, <2>1, <2>2, <2>3, EnterKeeps
<1>2. CASE /\ next >= MAX_PID \/ next >= next_safe
           /\ last_pid' = IF next >= MAX_PID THEN 1 ELSE next
           /\ next_safe' = MAX_PID /\ place' = "scan" /\ todo' = pids
           /\ UNCHANGED << pids, nr_process >>
  <2>1. nr_process < MAX_PROCESS
    BY DEF Call
  <2>2. last_pid' \in 1..MAX_PID-1
    BY <1>2 DEF PidsInv, PidsTypeOK
  <2>3. PidsTypeOK'
    BY <1>2, <2>2 DEF PidsInv, PidsTypeOK
  <2>. QED BY <1>2, <2>1, <2>2, <2>3 DEF PidsInv, PidsUnique, CacheSound, ScanExact
<1>. QED BY <1>1, <1>2 DEF Call

\* A turn of its loop keeps the invariant.
LEMMA VisitKeeps == ASSUME PidsInv, NEW q \in todo, Visit(q) PROVE PidsInv'
<1> USE PidsAssumption
<1>1. /\ place = "scan" /\ q \in pids /\ pids' = pids /\ nr_process' = nr_process /\ place' = place
      /\ last_pid < MAX_PID /\ nr_process < MAX_PROCESS
      /\ \A r \in pids \ todo : r # last_pid /\ ~(last_pid < r /\ r < next_safe)
      /\ pids \subseteq 1..MAX_PID-1 /\ last_pid \in 1..MAX_PID /\ next_safe \in 1..MAX_PID
  BY DEF Visit, PidsInv, ScanExact, PidsTypeOK
<1>2. PidsUnique' /\ CacheSound'
  BY <1>1 DEF PidsInv, PidsUnique, CacheSound
<1>3. CASE Taken(q)
  <2>1. CASE /\ last_pid + 1 < next_safe /\ last_pid' = last_pid + 1
             /\ todo' = todo \ {q} /\ next_safe' = next_safe
    <3>1. q = last_pid
      BY <1>3 DEF Taken
    <3>2. PidsTypeOK'
      <4>1. last_pid + 1 \in 1..MAX_PID /\ todo \ {q} \subseteq pids
        BY <1>1, <2>1 DEF PidsInv, PidsTypeOK
      <4>. QED BY <1>1, <2>1, <4>1 DEF PidsInv, PidsTypeOK
    <3>3. ASSUME NEW r \in pids \ (todo \ {q})
          PROVE  r # last_pid + 1 /\ ~(last_pid + 1 < r /\ r < next_safe)
      <4>1. r \in Int /\ last_pid \in Int /\ next_safe \in Int
        BY <1>1
      <4>2. CASE r = q
        BY <3>1, <4>1, <4>2
      <4>3. CASE r # q
        <5>1. r # last_pid /\ ~(last_pid < r /\ r < next_safe)
          BY <1>1, <3>3, <4>3
        <5>. QED BY <2>1, <4>1, <5>1
      <4>. QED BY <4>2, <4>3
    <3>4. last_pid + 1 < MAX_PID
      BY <1>1, <2>1
    <3>5. ScanExact'
      BY <1>1, <2>1, <3>3, <3>4 DEF ScanExact
    <3>. QED BY <1>2, <3>2, <3>5 DEF PidsInv
  <2>2. CASE /\ last_pid' = IF last_pid + 1 >= MAX_PID THEN 1 ELSE last_pid + 1
             /\ next_safe' = MAX_PID /\ todo' = pids
    <3>1. PidsTypeOK'
      BY <1>1, <2>2 DEF PidsInv, PidsTypeOK
    <3>2. ScanExact'
      BY <1>1, <2>2 DEF ScanExact
    <3>. QED BY <1>2, <3>1, <3>2 DEF PidsInv
  <2>. QED BY <1>3, <2>1, <2>2 DEF Taken
<1>4. CASE Passed(q)
  <2>1. /\ q # last_pid /\ last_pid' = last_pid /\ todo' = todo \ {q}
        /\ next_safe' = IF q > last_pid /\ next_safe > q THEN q ELSE next_safe
    BY <1>4 DEF Passed
  <2>2. PidsTypeOK'
    BY <1>1, <2>1 DEF PidsInv, PidsTypeOK
  <2>3. ScanExact'
    BY <1>1, <2>1 DEF ScanExact
  <2>. QED BY <1>2, <2>2, <2>3 DEF PidsInv
<1>. QED BY <1>3, <1>4 DEF Visit

\* Its end keeps the invariant.
LEMMA FinishKeeps == PidsInv /\ Finish => PidsInv'
<1> SUFFICES ASSUME PidsInv, Finish PROVE PidsInv'
  OBVIOUS
<1>1. /\ last_pid \in 1..MAX_PID-1 /\ last_pid \notin pids /\ nr_process < MAX_PROCESS
      /\ \A q \in pids : ~(last_pid < q /\ q < next_safe)
  BY PidsAssumption DEF Finish, PidsInv, ScanExact, PidsTypeOK
<1>. QED BY <1>1, EnterKeeps DEF Finish

\* A process that is freed takes its pid away.
LEMMA FreeKeeps == ASSUME PidsInv, NEW q \in pids, Free(q) PROVE PidsInv'
<1>1. Cardinality(pids \ {q}) = Cardinality(pids) - 1 /\ Cardinality(pids) \in Nat
      /\ Cardinality(pids \ {q}) \in Nat
  <2>1. IsFiniteSet(pids) /\ IsFiniteSet(pids \ {q})
    BY PidsFinite, FS_Subset DEF PidsInv
  <2>. QED BY <2>1, PidsFinite, FS_RemoveElement, FS_CardinalityType DEF PidsInv
<1>2. /\ pids' = pids \ {q} /\ nr_process' = nr_process - 1
      /\ UNCHANGED << last_pid, next_safe, place, todo >> /\ place = "out"
      /\ nr_process = Cardinality(pids) + 1
  BY DEF Free, PidsInv, PidsUnique
<1>3. todo = {}
  BY <1>2 DEF PidsInv, PidsTypeOK
<1>. QED BY <1>1, <1>2, <1>3, PidsAssumption
         DEF PidsInv, PidsTypeOK, PidsUnique, CacheSound, ScanExact

\* The invariant of the pids always holds.
LEMMA PidsInvHolds == PidsSpec => []PidsInv
<1>1. PidsInit => PidsInv
  BY PidsAssumption, FS_EmptySet
  DEF PidsInit, PidsInv, PidsTypeOK, PidsUnique, CacheSound, ScanExact
<1>2. PidsInv /\ [PidsNext]_pidsvars => PidsInv'
  <2>1. PidsInv /\ UNCHANGED pidsvars => PidsInv'
    BY DEF pidsvars, PidsInv, PidsTypeOK, PidsUnique, CacheSound, ScanExact
  <2>. QED BY <2>1, CallKeeps, VisitKeeps, FinishKeeps, FreeKeeps DEF PidsNext, Scan
<1>. QED BY <1>1, <1>2, PTL DEF PidsSpec

\* No two processes ever have the same pid.
THEOREM PidsCorrect == PidsSpec => []PidsUnique
<1>1. PidsInv => PidsUnique
  BY DEF PidsInv
<1>. QED BY <1>1, PidsInvHolds, PTL

\* The cached pair last_pid and next_safe is never stale.
THEOREM CacheCorrect == PidsSpec => []CacheSound
<1>1. PidsInv => CacheSound
  BY DEF PidsInv
<1>. QED BY <1>1, PidsInvHolds, PTL
=============================================================================
