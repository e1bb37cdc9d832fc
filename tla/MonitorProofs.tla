----------------------------- MODULE MonitorProofs -----------------------------
(***************************************************************************)
(* The monitor built from semaphores lets one thread in at a time and      *)
(* implements the monitor of the books, for any threads and conditions.    *)
(***************************************************************************)
EXTENDS Monitor, FiniteSetTheorems, TLAPS

Sems == Conds \cup {Mutex, NextSem}
Places == {"outside", "inside", "wait_up", "wait_down", "wait_ret",
           "signal_up", "signal_down", "signal_ret"}

TypeOK ==
    /\ value \in [Sems -> Nat]
    /\ waiting \in [Sems -> Seq(Threads)]
    /\ cpu \in Threads \cup {Nobody}
    /\ ready \in SUBSET Threads
    /\ asleep \in SUBSET Threads
    /\ count \in [Conds -> Int]
    /\ next_count \in Int
    /\ at \in [Threads -> Places]
    /\ on \in [Threads -> Conds]

\* t stands behind the "down" of s.
StandsBehind(t, s) ==
    \/ s = Mutex /\ at[t] = "inside"
    \/ s = NextSem /\ at[t] = "signal_ret"
    \/ s \in Conds /\ at[t] = "wait_ret" /\ on[t] = s

\* Nobody is in a queue twice.
Distinct(q) == \A i, j \in 1 .. Len(q) : q[i] = q[j] => i = j

(***************************************************************************)
(* A blocked thread stands behind the "down" that has blocked it, and is   *)
(* neither runnable nor asleep; and a thread keeps the CPU between a       *)
(* "down" and an "up".                                                     *)
(***************************************************************************)
Queues ==
    /\ \A s \in Sems : Distinct(waiting[s])
    /\ \A s \in Sems, t \in Threads : Blocked(t, s) =>
          StandsBehind(t, s) /\ t # cpu /\ t \notin ready /\ t \notin asleep
    /\ \A t \in ready : t # cpu /\ t \notin asleep
    /\ \A t \in asleep : t # cpu /\ at[t] = "outside"
    /\ \A t \in Threads : at[t] \in {"wait_up", "wait_down", "signal_up", "signal_down"} => cpu = t

(***************************************************************************)
(* The monitor has one owner, or mutex has its unit; no other semaphore    *)
(* ever holds a unit, for an "up" of theirs finds somebody waiting.        *)
(***************************************************************************)
Ownership ==
    /\ \A t, u \in Active : t = u
    /\ value[Mutex] = IF Active = {} THEN 1 ELSE 0
    /\ \A s \in Sems \ {Mutex} : value[s] = 0
    /\ Active = {} => waiting[Mutex] = << >>
    /\ \A t \in Threads : at[t] = "signal_down" => Active # {}

Signallers == {t \in Threads : at[t] \in {"signal_up", "signal_down", "signal_ret"}}
Waiters(c) == {t \in Threads : at[t] \in {"wait_up", "wait_down", "wait_ret"} /\ on[t] = c}

\* The counters count, and who is about to signal has somebody to signal to.
Counters ==
    /\ IsFiniteSet(Signallers) /\ next_count = Cardinality(Signallers)
    /\ \A c \in Conds : IsFiniteSet(Waiters(c)) /\ count[c] = Cardinality(Waiters(c))
    /\ \A t \in Threads : at[t] = "signal_up" => count[on[t]] > 0

IInv == TypeOK /\ Queues /\ Ownership /\ Counters
-----------------------------------------------------------------------------
(* Queues and the operations of the semaphores.                            *)

\* Taking the first of a queue, in which nobody is twice.
LEMMA TailQueue ==
    ASSUME NEW q \in Seq(Threads), q # << >>, Distinct(q)
    PROVE  /\ Head(q) \in ToSet(q) /\ Head(q) \in Threads
           /\ Tail(q) \in Seq(Threads)
           /\ Distinct(Tail(q))
           /\ ToSet(Tail(q)) = ToSet(q) \ {Head(q)}
<1>1. Len(q) \in Nat /\ Len(q) > 0 /\ Len(Tail(q)) = Len(q) - 1 /\ Tail(q) \in Seq(Threads)
  OBVIOUS
<1>2. \A i \in 1 .. Len(q) - 1 : Tail(q)[i] = q[i + 1]
  OBVIOUS
<1>3. Head(q) = q[1]
  OBVIOUS
<1>4. Distinct(Tail(q))
  BY <1>1, <1>2 DEF Distinct
<1>5. \A x : x \in ToSet(Tail(q)) <=> \E i \in 2 .. Len(q) : x = q[i]
  <2>1. DOMAIN Tail(q) = 1 .. Len(q) - 1
    BY <1>1
  <2>2. ASSUME NEW x, x \in ToSet(Tail(q)) PROVE \E i \in 2 .. Len(q) : x = q[i]
    <3>1. PICK j \in 1 .. Len(q) - 1 : x = Tail(q)[j]
      BY <2>1, <2>2 DEF ToSet
    <3>2. j + 1 \in 2 .. Len(q) /\ x = q[j + 1]
      BY <3>1, <1>1, <1>2
    <3>. QED BY <3>2
  <2>3. ASSUME NEW i \in 2 .. Len(q) PROVE q[i] \in ToSet(Tail(q))
    <3>1. i - 1 \in 1 .. Len(q) - 1 /\ Tail(q)[i - 1] = q[i]
      <4>1. i - 1 \in 1 .. Len(q) - 1 /\ (i - 1) + 1 = i
        BY <1>1
      <4>. QED BY <4>1, <1>2
    <3>. QED BY <3>1, <2>1 DEF ToSet
  <2>. QED BY <2>2, <2>3
<1>6. \A x : x \in ToSet(q) <=> \E i \in 1 .. Len(q) : x = q[i]
  BY <1>1 DEF ToSet
<1>. QED BY <1>1, <1>3, <1>4, <1>5, <1>6 DEF Distinct

\* Adding one who is not in the queue at its end.
LEMMA AppendQueue ==
    ASSUME NEW q \in Seq(Threads), Distinct(q), NEW t \in Threads, t \notin ToSet(q)
    PROVE  /\ Append(q, t) \in Seq(Threads)
           /\ Distinct(Append(q, t))
           /\ ToSet(Append(q, t)) = ToSet(q) \cup {t}
<1>1. /\ Len(q) \in Nat /\ Append(q, t) \in Seq(Threads) /\ Len(Append(q, t)) = Len(q) + 1
      /\ \A i \in 1 .. Len(q) : Append(q, t)[i] = q[i]
      /\ Append(q, t)[Len(q) + 1] = t
  OBVIOUS
<1>2. \A x : x \in ToSet(q) <=> \E i \in 1 .. Len(q) : x = q[i]
  BY <1>1 DEF ToSet
<1>3. \A x : x \in ToSet(Append(q, t)) <=> \E i \in 1 .. Len(q) + 1 : x = Append(q, t)[i]
  BY <1>1 DEF ToSet
<1>4. \A i \in 1 .. Len(q) + 1 : i \in 1 .. Len(q) \/ i = Len(q) + 1
  BY <1>1
<1>5. Distinct(Append(q, t))
  BY <1>1, <1>2, <1>4 DEF Distinct
<1>6. ToSet(Append(q, t)) = ToSet(q) \cup {t}
  BY <1>1, <1>2, <1>3, <1>4
<1>. QED BY <1>1, <1>5, <1>6

\* The semaphores of the monitor.
LEMMA SemsAre == Mutex \in Sems /\ NextSem \in Sems /\ Conds \subseteq Sems
  BY DEF Sems

\* An "up" of a semaphore for which somebody waits wakes the oldest of them up.
LEMMA UpWakes ==
    ASSUME TypeOK, Queues, NEW s \in Sems, Up(s), waiting[s] # << >>
    PROVE  LET h == Head(waiting[s]) IN
           /\ h \in Threads /\ Blocked(h, s) /\ StandsBehind(h, s)
           /\ \A t \in Threads, r \in Sems : Blocked(t, r)' <=> Blocked(t, r) /\ t # h
           /\ \A r \in Sems : Distinct(waiting'[r])
           /\ waiting' \in [Sems -> Seq(Threads)]
           /\ ready' = ready \cup {h} /\ value' = value /\ cpu' = cpu /\ asleep' = asleep
           /\ \A r \in Sems \ {s} : waiting'[r] = waiting[r]
           /\ waiting'[s] = Tail(waiting[s])
<1> DEFINE h == Head(waiting[s])
<1>1. /\ waiting' = [waiting EXCEPT ![s] = Tail(@)]
      /\ ready' = ready \cup {h} /\ value' = value /\ cpu' = cpu /\ asleep' = asleep
  BY DEF Up
<1>2. /\ h \in ToSet(waiting[s]) /\ h \in Threads /\ Tail(waiting[s]) \in Seq(Threads)
      /\ Distinct(Tail(waiting[s])) /\ ToSet(Tail(waiting[s])) = ToSet(waiting[s]) \ {h}
  <2>1. waiting[s] \in Seq(Threads) /\ Distinct(waiting[s])
    BY DEF TypeOK, Queues
  <2>. QED BY <2>1, TailQueue
<1>3. /\ \A r \in Sems \ {s} : waiting'[r] = waiting[r]
      /\ waiting'[s] = Tail(waiting[s])
      /\ waiting' \in [Sems -> Seq(Threads)]
  BY <1>1, <1>2 DEF TypeOK
<1>4. Blocked(h, s) /\ StandsBehind(h, s)
  BY <1>2 DEF Queues, Blocked
<1>5. \A r \in Sems \ {s} : ~ Blocked(h, r)
  BY <1>2, <1>4, MonitorAssumption DEF Queues, StandsBehind
<1>6. \A t \in Threads, r \in Sems : Blocked(t, r)' <=> Blocked(t, r) /\ t # h
  BY <1>2, <1>3, <1>5 DEF Blocked
<1>7. \A r \in Sems : Distinct(waiting'[r])
  BY <1>2, <1>3 DEF Queues
<1>. QED BY <1>1, <1>2, <1>3, <1>4, <1>6, <1>7

\* A "down" of a semaphore without a unit puts the thread on the CPU at the
\* end of its queue.
LEMMA DownBlocks ==
    ASSUME TypeOK, Queues, NEW s \in Sems, Down(s), value[s] = 0, cpu \in Threads
    PROVE  /\ \A t \in Threads, r \in Sems :
                 Blocked(t, r)' <=> Blocked(t, r) \/ (t = cpu /\ r = s)
           /\ \A r \in Sems : Distinct(waiting'[r])
           /\ waiting' \in [Sems -> Seq(Threads)]
           /\ ready' = ready /\ value' = value /\ cpu' = Nobody /\ asleep' = asleep
           /\ \A r \in Sems \ {s} : waiting'[r] = waiting[r]
           /\ waiting'[s] = Append(waiting[s], cpu)
<1>1. /\ waiting' = [waiting EXCEPT ![s] = Append(@, cpu)]
      /\ ready' = ready /\ value' = value /\ cpu' = Nobody /\ asleep' = asleep
  BY DEF Down
<1>2. /\ Append(waiting[s], cpu) \in Seq(Threads) /\ Distinct(Append(waiting[s], cpu))
      /\ ToSet(Append(waiting[s], cpu)) = ToSet(waiting[s]) \cup {cpu}
  <2>1. waiting[s] \in Seq(Threads) /\ Distinct(waiting[s]) /\ cpu \notin ToSet(waiting[s])
    BY DEF TypeOK, Queues, Blocked
  <2>. QED BY <2>1, AppendQueue
<1>3. /\ \A r \in Sems \ {s} : waiting'[r] = waiting[r]
      /\ waiting'[s] = Append(waiting[s], cpu)
      /\ waiting' \in [Sems -> Seq(Threads)]
  BY <1>1, <1>2 DEF TypeOK
<1>4. \A t \in Threads, r \in Sems : Blocked(t, r)' <=> Blocked(t, r) \/ (t = cpu /\ r = s)
  BY <1>2, <1>3 DEF Blocked
<1>5. \A r \in Sems : Distinct(waiting'[r])
  BY <1>2, <1>3 DEF Queues
<1>. QED BY <1>1, <1>3, <1>4, <1>5
-----------------------------------------------------------------------------
(* Who is active.                                                          *)

\* A thread is active unless it is outside, about to block, or blocked.
Activity(t) ==
    /\ at[t] \in {"wait_up", "signal_up"} => t \in Active
    /\ at[t] \in {"outside", "wait_down", "signal_down"} => t \notin Active
    /\ \A s \in Sems : StandsBehind(t, s) => (t \in Active <=> ~ Blocked(t, s))
    /\ at[t] \in {"inside", "wait_ret", "signal_ret"} => \E s \in Sems : StandsBehind(t, s)

\* Who is active, thread by thread.
LEMMA ActiveIs == TypeOK => \A t \in Threads : Activity(t)
  BY MonitorAssumption DEF Activity, Active, StandsBehind, TypeOK, Sems, Places

\* The same of the next state.
LEMMA ActiveIsNext == TypeOK' => \A t \in Threads : Activity(t)'
  BY MonitorAssumption DEF Activity, Active, StandsBehind, TypeOK, Sems, Places

\* The thread on the CPU is active when it is in the monitor and not about to
\* block.
LEMMA RunnerActive ==
    ASSUME TypeOK, Queues, cpu \in Threads,
           at[cpu] \in {"inside", "wait_up", "wait_ret", "signal_up", "signal_ret"}
    PROVE  cpu \in Active /\ \A s \in Sems : ~ Blocked(cpu, s)
  BY ActiveIs DEF Activity, Queues

\* The others are blocked, asleep or outside: when the owner gives the monitor
\* up, a signaller or a waiter he counts on is there to be woken.
LEMMA OthersBlocked ==
    ASSUME IInv, cpu \in Threads, NEW t \in Threads, t # cpu,
           cpu \in Active, at[t] # "outside"
    PROVE  \E s \in Sems : StandsBehind(t, s) /\ Blocked(t, s)
<1>1. t \notin Active
  BY DEF IInv, Ownership
<1>2. at[t] \in {"inside", "wait_ret", "signal_ret"}
  BY <1>1, ActiveIs DEF Activity, IInv, TypeOK, Places, Queues
<1>. QED BY <1>1, <1>2, ActiveIs DEF Activity, IInv

\* While next_count is positive and no signaller runs, one waits in next.
LEMMA SignallerBlocked ==
    ASSUME IInv, cpu \in Threads, cpu \in Active, cpu \notin Signallers, next_count > 0
    PROVE  waiting[NextSem] # << >>
<1>1. Signallers # {}
  BY FS_EmptySet DEF IInv, Counters
<1>2. PICK t \in Signallers : TRUE
  BY <1>1
<1>3. PICK s \in Sems : StandsBehind(t, s) /\ Blocked(t, s)
  BY <1>2, OthersBlocked DEF Signallers
<1>4. s = NextSem
  BY <1>2, <1>3 DEF Signallers, StandsBehind
<1>. QED BY <1>3, <1>4 DEF Blocked, ToSet

\* While the count of a condition is positive, somebody waits for it.
LEMMA WaiterBlocked ==
    ASSUME IInv, cpu \in Threads, cpu \in Active, NEW c \in Conds,
           cpu \notin Waiters(c), count[c] > 0
    PROVE  waiting[c] # << >>
<1>1. Waiters(c) # {}
  BY FS_EmptySet DEF IInv, Counters
<1>2. PICK t \in Waiters(c) : TRUE
  BY <1>1
<1>3. PICK s \in Sems : StandsBehind(t, s) /\ Blocked(t, s)
  BY <1>2, OthersBlocked DEF Waiters
<1>4. s = c
  BY <1>2, <1>3 DEF Waiters, StandsBehind
<1>. QED BY <1>3, <1>4 DEF Blocked, ToSet
-----------------------------------------------------------------------------
(* Types.                                                                  *)

\* An up keeps the types.
LEMMA UpTypes ==
    ASSUME TypeOK, Queues, NEW s \in Sems, Up(s)
    PROVE  /\ value' \in [Sems -> Nat] /\ waiting' \in [Sems -> Seq(Threads)]
           /\ cpu' \in Threads \cup {Nobody}
           /\ ready' \in SUBSET Threads /\ asleep' \in SUBSET Threads
<1>1. CASE waiting[s] = << >>
  BY <1>1 DEF Up, TypeOK
<1>2. CASE waiting[s] # << >>
  BY <1>2, UpWakes DEF TypeOK
<1>. QED BY <1>1, <1>2

\* A down keeps the types.
LEMMA DownTypes ==
    ASSUME TypeOK, NEW s \in Sems, Down(s), cpu \in Threads
    PROVE  /\ value' \in [Sems -> Nat] /\ waiting' \in [Sems -> Seq(Threads)]
           /\ cpu' \in Threads \cup {Nobody}
           /\ ready' \in SUBSET Threads /\ asleep' \in SUBSET Threads
<1>1. Append(waiting[s], cpu) \in Seq(Threads)
  BY DEF TypeOK
<1>2. waiting' \in [Sems -> Seq(Threads)]
  BY <1>1 DEF Down, TypeOK
<1>3. value' \in [Sems -> Nat]
  <2>1. value[s] \in Nat
    BY DEF TypeOK
  <2>2. CASE value[s] > 0
    BY <2>1, <2>2 DEF Down, TypeOK
  <2>3. CASE ~ (value[s] > 0)
    BY <2>3 DEF Down, TypeOK
  <2>. QED BY <2>2, <2>3
<1>. QED BY <1>2, <1>3 DEF Down, TypeOK

\* The types at the start.
LEMMA TypeInit == MonitorInit => TypeOK
<1>. SUFFICES ASSUME MonitorInit PROVE TypeOK
  OBVIOUS
<1>1. (CHOOSE c \in Conds : TRUE) \in Conds
  BY MonitorAssumption
<1>2. << >> \in Seq(Threads)
  OBVIOUS
<1>. QED BY <1>1, <1>2 DEF MonitorInit, SemInit, TypeOK, Sems, Places

\* Every step keeps the types.
LEMMA TypeStep ==
    ASSUME TypeOK, Queues, [Next]_vars
    PROVE  TypeOK'
<1>1. ASSUME NEW t \in Threads, Enter(t) PROVE TypeOK'
  BY <1>1, DownTypes, SemsAre DEF Enter, Move, TypeOK, Places
<1>2. ASSUME NEW t \in Threads, Leave(t) PROVE TypeOK'
  BY <1>2, UpTypes, SemsAre DEF Leave, PassOn, Move, TypeOK, Places
<1>3. ASSUME NEW t \in Threads, NEW c \in Conds, Wait(t, c) PROVE TypeOK'
  BY <1>3 DEF Wait, Move, TypeOK, Places, semvars
<1>4. ASSUME NEW t \in Threads, NEW c \in Conds, Signal(t, c) PROVE TypeOK'
  BY <1>4 DEF Signal, Move, TypeOK, Places, semvars
<1>5. ASSUME NEW t \in Threads, WaitUp(t) PROVE TypeOK'
  BY <1>5, UpTypes, SemsAre DEF WaitUp, PassOn, Move, TypeOK, Places
<1>6. ASSUME NEW t \in Threads, WaitDown(t) PROVE TypeOK'
  <2>1. on[t] \in Sems
    BY SemsAre DEF TypeOK
  <2>. QED BY <1>6, <2>1, DownTypes DEF WaitDown, Move, TypeOK, Places
<1>7. ASSUME NEW t \in Threads, WaitReturn(t) PROVE TypeOK'
  BY <1>7 DEF WaitReturn, Move, TypeOK, Places, semvars
<1>8. ASSUME NEW t \in Threads, SignalUp(t) PROVE TypeOK'
  <2>1. on[t] \in Sems
    BY SemsAre DEF TypeOK
  <2>. QED BY <1>8, <2>1, UpTypes DEF SignalUp, Move, TypeOK, Places
<1>9. ASSUME NEW t \in Threads, SignalDown(t) PROVE TypeOK'
  BY <1>9, DownTypes, SemsAre DEF SignalDown, Move, TypeOK, Places
<1>10. ASSUME NEW t \in Threads, SignalReturn(t) PROVE TypeOK'
  BY <1>10 DEF SignalReturn, Move, TypeOK, Places, semvars
<1>11. ASSUME NEW t \in Threads, Pause(t) PROVE TypeOK'
  BY <1>11 DEF Pause, SleepOnTimer, Quit, TypeOK, monvars
<1>12. ASSUME NEW t \in Threads, TimerFires(t) \/ Dispatch(t), UNCHANGED monvars PROVE TypeOK'
  BY <1>12 DEF TimerFires, Dispatch, TypeOK, monvars
<1>13. CASE UNCHANGED vars
  BY <1>13 DEF vars, semvars, monvars, TypeOK
<1>. QED BY <1>1, <1>2, <1>3, <1>4, <1>5, <1>6, <1>7, <1>8, <1>9, <1>10, <1>11, <1>12, <1>13
     DEF Next, Step, MonitorStep

-----------------------------------------------------------------------------
(* Queues and ownership.                                                   *)

Control == Queues /\ Ownership

\* The queues and the owner at the start.
LEMMA ControlInit == MonitorInit => Control
<1>. SUFFICES ASSUME MonitorInit PROVE Control
  OBVIOUS
<1>1. TypeOK
  BY TypeInit
<1>2. \A s \in Sems : waiting[s] = << >>
  BY DEF MonitorInit, SemInit, Sems
<1>3. \A s \in Sems, t \in Threads : ~ Blocked(t, s)
  BY <1>2 DEF Blocked, ToSet
<1>4. Active = {}
  BY <1>1, ActiveIs DEF Activity, MonitorInit, Active
<1>5. Queues
  BY <1>2, <1>3, SemaphoresAssumption DEF MonitorInit, SemInit, Queues, Distinct
<1>6. Ownership
  BY <1>2, <1>4, MonitorAssumption DEF MonitorInit, SemInit, Ownership, Sems
<1>. QED BY <1>5, <1>6 DEF Control

\* The owner gives the monitor to the oldest in a queue.
LEMMA HandOver ==
    ASSUME TypeOK, Control, TypeOK', cpu \in Active,
           NEW s \in Sems, waiting[s] # << >>, Up(s),
           NEW p \in {"outside", "wait_down", "signal_down"},
           at' = [at EXCEPT ![cpu] = p], on' = on
    PROVE  Control' /\ Active' = {Head(waiting[s])}
<1> DEFINE h == Head(waiting[s])
<1>1. /\ h \in Threads /\ Blocked(h, s) /\ StandsBehind(h, s)
      /\ \A t \in Threads, r \in Sems : Blocked(t, r)' <=> Blocked(t, r) /\ t # h
      /\ \A r \in Sems : Distinct(waiting'[r])
      /\ ready' = ready \cup {h} /\ value' = value /\ cpu' = cpu /\ asleep' = asleep
  BY UpWakes DEF Control
<1>2. cpu \in Threads /\ h # cpu /\ h \notin ready /\ h \notin asleep
  BY <1>1 DEF Control, Queues, Active
<1> HIDE DEF h
<1>3. \A t \in Threads \ {cpu}, r \in Sems : StandsBehind(t, r)' <=> StandsBehind(t, r)
  BY DEF StandsBehind, TypeOK
<1>4. h \in Active'
  BY <1>1, <1>2, <1>3, ActiveIsNext DEF Activity
<1>5. cpu \notin Active'
  BY <1>2, ActiveIsNext DEF Activity, TypeOK
<1>6. \A t \in Threads \ {cpu, h} : t \notin Active'
  <2>. SUFFICES ASSUME NEW t \in Threads \ {cpu, h}, t \in Active' PROVE FALSE
    OBVIOUS
  <2>1. t \notin Active
    BY <1>2 DEF Control, Ownership
  <2>2. at'[t] = at[t] /\ on'[t] = on[t] /\ on[t] \in Sems
    BY SemsAre DEF TypeOK
  <2>. QED BY <1>1, <2>1, <2>2, SemsAre DEF Active
<1>7. Active' = {h}
  BY <1>1, <1>4, <1>5, <1>6 DEF Active
<1>8. Queues'
  <2>1. \A r \in Sems, t \in Threads : Blocked(t, r)' =>
          StandsBehind(t, r)' /\ t # cpu' /\ t \notin ready' /\ t \notin asleep'
    BY <1>1, <1>2, <1>3 DEF Control, Queues
  <2>2. \A t \in asleep' : t # cpu' /\ at'[t] = "outside"
    BY <1>1, <1>2 DEF Control, Queues, TypeOK
  <2>3. \A t \in Threads : at'[t] \in {"wait_up", "wait_down", "signal_up", "signal_down"} => cpu' = t
    BY <1>1, <1>2 DEF Control, Queues, TypeOK
  <2>. QED BY <1>1, <1>2, <2>1, <2>2, <2>3 DEF Control, Queues
<1>9. Ownership'
  <2>1. Active # {}
    OBVIOUS
  <2>. QED BY <1>1, <1>7, <2>1 DEF Control, Ownership
<1>. QED BY <1>7, <1>8, <1>9 DEF Control, h
\* The owner gives the monitor up and nobody waits for mutex.
LEMMA GiveUp ==
    ASSUME TypeOK, Control, TypeOK', cpu \in Active,
           waiting[Mutex] = << >>, Up(Mutex),
           NEW p \in {"outside", "wait_down"},
           at' = [at EXCEPT ![cpu] = p], on' = on
    PROVE  Control' /\ Active' = {}
<1>1. waiting' = waiting /\ ready' = ready /\ cpu' = cpu /\ asleep' = asleep
  BY DEF Up
<1>2. value[Mutex] = 0 /\ value'[Mutex] = 1 /\ \A s \in Sems \ {Mutex} : value'[s] = value[s]
  BY SemsAre DEF Up, Control, Ownership, TypeOK
<1>3. cpu \in Threads /\ \A s \in Sems : ~ Blocked(cpu, s)
  BY DEF Active, Control, Queues
<1>4. \A t \in Threads \ {cpu}, r \in Sems : StandsBehind(t, r)' <=> StandsBehind(t, r)
  BY DEF StandsBehind, TypeOK
<1>5. \A t \in Threads, r \in Sems : Blocked(t, r)' <=> Blocked(t, r)
  BY <1>1 DEF Blocked
<1>6. Active' = {}
  <2>1. cpu \notin Active'
    BY <1>3, ActiveIsNext DEF Activity, TypeOK
  <2>2. ASSUME NEW t \in Threads \ {cpu}, t \in Active' PROVE FALSE
    <3>1. t \notin Active
      BY <1>3 DEF Control, Ownership
    <3>2. at'[t] = at[t] /\ on'[t] = on[t] /\ on[t] \in Sems
      BY SemsAre DEF TypeOK
    <3>. QED BY <1>5, <2>2, <3>1, <3>2, SemsAre DEF Active
  <2>3. Active' \subseteq Threads
    BY DEF Active
  <2>. QED BY <2>1, <2>2, <2>3
<1>7. Queues'
  <2>1. \A r \in Sems, t \in Threads : Blocked(t, r)' =>
          StandsBehind(t, r)' /\ t # cpu' /\ t \notin ready' /\ t \notin asleep'
    BY <1>1, <1>3, <1>4, <1>5 DEF Control, Queues
  <2>2. /\ \A t \in asleep' : t # cpu' /\ at'[t] = "outside"
        /\ \A t \in Threads : at'[t] \in {"wait_up", "wait_down", "signal_up", "signal_down"}
              => cpu' = t
    BY <1>1 DEF Control, Queues, TypeOK
  <2>. QED BY <1>1, <2>1, <2>2 DEF Control, Queues
<1>8. Ownership'
  <2>1. \A t \in Threads : at'[t] # "signal_down"
    <3>1. at[cpu] # "signal_down"
      BY <1>3, ActiveIs DEF Activity
    <3>. QED BY <3>1 DEF Control, Queues, TypeOK
  <2>. QED BY <1>1, <1>2, <1>6, <2>1 DEF Control, Ownership
<1>. QED BY <1>6, <1>7, <1>8 DEF Control

\* The owner stays the owner.
LEMMA StaysOwner ==
    ASSUME TypeOK, Control, TypeOK', cpu \in Active, UNCHANGED semvars,
           NEW p \in {"inside", "wait_up", "signal_up"},
           at' = [at EXCEPT ![cpu] = p],
           \A t \in Threads \ {cpu} : on'[t] = on[t]
    PROVE  Control' /\ Active' = {cpu}
<1>1. /\ value' = value /\ waiting' = waiting /\ ready' = ready /\ cpu' = cpu
      /\ asleep' = asleep
  BY DEF semvars
<1>3. cpu \in Threads /\ \A s \in Sems : ~ Blocked(cpu, s)
  BY DEF Active, Control, Queues
<1>4. \A t \in Threads \ {cpu}, r \in Sems : StandsBehind(t, r)' <=> StandsBehind(t, r)
  BY DEF StandsBehind, TypeOK
<1>5. \A t \in Threads, r \in Sems : Blocked(t, r)' <=> Blocked(t, r)
  BY <1>1 DEF Blocked
<1>6. Active' = {cpu}
  <2>1. cpu \in Active'
    BY <1>3, <1>5, SemsAre DEF Active, TypeOK
  <2>2. ASSUME NEW t \in Threads \ {cpu}, t \in Active' PROVE FALSE
    <3>1. t \notin Active
      BY <1>3 DEF Control, Ownership
    <3>2. at'[t] = at[t] /\ on'[t] = on[t] /\ on[t] \in Sems
      BY SemsAre DEF TypeOK
    <3>. QED BY <1>5, <2>2, <3>1, <3>2, SemsAre DEF Active
  <2>3. Active' \subseteq Threads
    BY DEF Active
  <2>. QED BY <2>1, <2>2, <2>3
<1>7. Queues'
  <2>1. \A r \in Sems, t \in Threads : Blocked(t, r)' =>
          StandsBehind(t, r)' /\ t # cpu' /\ t \notin ready' /\ t \notin asleep'
    BY <1>1, <1>3, <1>4, <1>5 DEF Control, Queues
  <2>2. /\ \A t \in asleep' : t # cpu' /\ at'[t] = "outside"
        /\ \A t \in Threads : at'[t] \in {"wait_up", "wait_down", "signal_up", "signal_down"}
              => cpu' = t
    BY <1>1 DEF Control, Queues, TypeOK
  <2>. QED BY <1>1, <2>1, <2>2 DEF Control, Queues
<1>8. Ownership'
  BY <1>1, <1>6 DEF Control, Ownership
<1>. QED BY <1>6, <1>7, <1>8 DEF Control

\* A thread that does not own the monitor blocks, behind a "down" that it has
\* found without a unit.
LEMMA BlocksBehind ==
    ASSUME TypeOK, Control, TypeOK', NEW t \in Threads, cpu = t,
           at[t] \in {"outside", "wait_down", "signal_down"},
           NEW s \in Sems, Down(s), value[s] = 0,
           NEW p \in {"inside", "wait_ret", "signal_ret"},
           at' = [at EXCEPT ![t] = p], on' = on, StandsBehind(t, s)'
    PROVE  Control' /\ Active' = Active
<1>1. /\ \A u \in Threads, r \in Sems :
            Blocked(u, r)' <=> Blocked(u, r) \/ (u = t /\ r = s)
      /\ \A r \in Sems : Distinct(waiting'[r])
      /\ \A r \in Sems \ {s} : waiting'[r] = waiting[r]
      /\ ready' = ready /\ value' = value /\ cpu' = Nobody /\ asleep' = asleep
  BY DownBlocks DEF Control
<1>2. t \notin Active
  BY ActiveIs DEF Activity
<1>3. t \notin Active'
  BY <1>1, ActiveIsNext DEF Activity
<1>4. \A u \in Threads \ {t}, r \in Sems : StandsBehind(u, r)' <=> StandsBehind(u, r)
  BY DEF StandsBehind, TypeOK
<1>6. Active' = Active
  <2>2. ASSUME NEW u \in Threads \ {t} PROVE u \in Active' <=> u \in Active
    <3>2. at'[u] = at[u] /\ on'[u] = on[u] /\ on[u] \in Sems
      BY SemsAre DEF TypeOK
    <3>. QED BY <1>1, <3>2, SemsAre DEF Active
  <2>3. Active' \subseteq Threads /\ Active \subseteq Threads
    BY DEF Active
  <2>. QED BY <1>2, <1>3, <2>2, <2>3
<1>7. Queues'
  <2>1. t \notin ready /\ t \notin asleep
    BY DEF Control, Queues
  <2>2. \A r \in Sems, u \in Threads : Blocked(u, r)' =>
          StandsBehind(u, r)' /\ u # cpu' /\ u \notin ready' /\ u \notin asleep'
    BY <1>1, <1>4, <2>1, SemaphoresAssumption DEF Control, Queues
  <2>3. /\ \A u \in asleep' : u # cpu' /\ at'[u] = "outside"
        /\ \A u \in Threads : at'[u] \notin {"wait_up", "wait_down", "signal_up", "signal_down"}
        /\ \A u \in ready' : u # cpu' /\ u \notin asleep'
    BY <1>1, <2>1, SemaphoresAssumption DEF Control, Queues, TypeOK
  <2>. QED BY <1>1, <2>2, <2>3 DEF Queues
<1>8. Ownership'
  <2>1. s = Mutex => Active # {}
    BY DEF Control, Ownership
  <2>2. \A u \in Threads : at'[u] # "signal_down"
    BY DEF Control, Queues, TypeOK
  <2>. QED BY <1>1, <1>6, <2>1, <2>2, SemsAre DEF Control, Ownership
<1>. QED BY <1>6, <1>7, <1>8 DEF Control

\* A thread enters the monitor that belongs to nobody.
LEMMA EntersFree ==
    ASSUME TypeOK, Control, TypeOK', NEW t \in Threads, Enter(t), value[Mutex] > 0
    PROVE  Control' /\ Active = {} /\ Active' = {t} /\ waiting' = waiting
<1>1. /\ cpu = t /\ at[t] = "outside" /\ at' = [at EXCEPT ![t] = "inside"] /\ on' = on
      /\ value' = [value EXCEPT ![Mutex] = @ - 1]
      /\ waiting' = waiting /\ ready' = ready /\ cpu' = cpu /\ asleep' = asleep
  BY DEF Enter, Move, Down
<1>2. Active = {} /\ value'[Mutex] = 0 /\ \A s \in Sems \ {Mutex} : value'[s] = value[s]
  BY <1>1, SemsAre DEF Control, Ownership, TypeOK
<1>3. \A s \in Sems : ~ Blocked(t, s)
  BY <1>1 DEF Control, Queues
<1>4. \A u \in Threads \ {t}, r \in Sems : StandsBehind(u, r)' <=> StandsBehind(u, r)
  BY <1>1 DEF StandsBehind, TypeOK
<1>5. \A u \in Threads, r \in Sems : Blocked(u, r)' <=> Blocked(u, r)
  BY <1>1 DEF Blocked
<1>6. Active' = {t}
  <2>1. t \in Active'
    BY <1>1, <1>3, <1>5, SemsAre DEF Active, TypeOK
  <2>2. ASSUME NEW u \in Threads \ {t}, u \in Active' PROVE FALSE
    <3>1. u \notin Active
      BY <1>2
    <3>2. at'[u] = at[u] /\ on'[u] = on[u] /\ on[u] \in Sems
      BY <1>1, SemsAre DEF TypeOK
    <3>. QED BY <1>5, <2>2, <3>1, <3>2, SemsAre DEF Active
  <2>3. Active' \subseteq Threads
    BY DEF Active
  <2>. QED BY <2>1, <2>2, <2>3
<1>7. Queues'
  <2>1. \A r \in Sems, u \in Threads : Blocked(u, r)' =>
          StandsBehind(u, r)' /\ u # cpu' /\ u \notin ready' /\ u \notin asleep'
    BY <1>1, <1>3, <1>4, <1>5 DEF Control, Queues
  <2>2. /\ \A u \in asleep' : u # cpu' /\ at'[u] = "outside"
        /\ \A u \in Threads : at'[u] \in {"wait_up", "wait_down", "signal_up", "signal_down"}
              => cpu' = u
    BY <1>1 DEF Control, Queues, TypeOK
  <2>. QED BY <1>1, <2>1, <2>2 DEF Control, Queues
<1>8. Ownership'
  BY <1>1, <1>2, <1>6 DEF Control, Ownership
<1>. QED BY <1>1, <1>2, <1>6, <1>7, <1>8 DEF Control
\* The owner passes the monitor on to a signaller, or to somebody who wants to
\* enter, or gives it up.
LEMMA PassesOn ==
    ASSUME IInv, TypeOK', cpu \in Active, at[cpu] \in {"inside", "wait_up"}, PassOn,
           NEW p \in {"outside", "wait_down"},
           at' = [at EXCEPT ![cpu] = p], on' = on
    PROVE  Control'
<1>1. cpu \in Threads /\ cpu \notin Signallers
  BY DEF Active, Signallers
<1>2. CASE next_count > 0
  <2>1. waiting[NextSem] # << >> /\ Up(NextSem)
    BY <1>1, <1>2, SignallerBlocked DEF PassOn
  <2>. QED BY <2>1, HandOver, SemsAre DEF IInv, Control
<1>3. CASE ~ (next_count > 0) /\ waiting[Mutex] # << >>
  BY <1>3, HandOver, SemsAre DEF PassOn, IInv, Control
<1>4. CASE ~ (next_count > 0) /\ waiting[Mutex] = << >>
  BY <1>4, GiveUp DEF PassOn, IInv, Control
<1>. QED BY <1>2, <1>3, <1>4

\* Every step keeps the queues and the ownership right.
LEMMA ControlStep ==
    ASSUME IInv, TypeOK', [Next]_vars
    PROVE  Control'
<1>. USE DEF IInv
<1>1. ASSUME NEW t \in Threads, Enter(t) PROVE Control'
  <2>1. CASE value[Mutex] > 0
    BY <1>1, <2>1, EntersFree DEF Control
  <2>2. CASE ~ (value[Mutex] > 0)
    <3>1. value[Mutex] = 0
      BY <2>2, SemsAre DEF TypeOK
    <3>2. /\ cpu = t /\ at[t] = "outside" /\ at' = [at EXCEPT ![t] = "inside"] /\ on' = on
          /\ Down(Mutex)
      BY <1>1 DEF Enter, Move
    <3>3. StandsBehind(t, Mutex)'
      BY <3>2 DEF StandsBehind, TypeOK
    <3>. QED BY <3>1, <3>2, <3>3, BlocksBehind, SemsAre DEF Control
  <2>. QED BY <2>1, <2>2
<1>2. ASSUME NEW t \in Threads, Leave(t) PROVE Control'
  <2>1. cpu = t /\ at[t] = "inside" /\ at' = [at EXCEPT ![t] = "outside"] /\ PassOn /\ on' = on
    BY <1>2 DEF Leave, Move
  <2>2. cpu \in Active
    BY <2>1, RunnerActive
  <2>. QED BY <2>1, <2>2, PassesOn
<1>3. ASSUME NEW t \in Threads, NEW c \in Conds, Wait(t, c) PROVE Control'
  <2>1. /\ cpu = t /\ at[t] = "inside" /\ at' = [at EXCEPT ![t] = "wait_up"]
        /\ on' = [on EXCEPT ![t] = c] /\ UNCHANGED semvars
    BY <1>3 DEF Wait, Move
  <2>2. cpu \in Active /\ \A u \in Threads \ {cpu} : on'[u] = on[u]
    BY <2>1, RunnerActive DEF TypeOK
  <2>. QED BY <2>1, <2>2, StaysOwner DEF Control
<1>4. ASSUME NEW t \in Threads, NEW c \in Conds, Signal(t, c) PROVE Control'
  <2>1. /\ cpu = t /\ at[t] = "inside" /\ at' = [at EXCEPT ![t] = "signal_up"]
        /\ on' = [on EXCEPT ![t] = c] /\ UNCHANGED semvars
    BY <1>4 DEF Signal, Move
  <2>2. cpu \in Active /\ \A u \in Threads \ {cpu} : on'[u] = on[u]
    BY <2>1, RunnerActive DEF TypeOK
  <2>. QED BY <2>1, <2>2, StaysOwner DEF Control
<1>5. ASSUME NEW t \in Threads, WaitUp(t) PROVE Control'
  <2>1. cpu = t /\ at[t] = "wait_up" /\ at' = [at EXCEPT ![t] = "wait_down"] /\ PassOn /\ on' = on
    BY <1>5 DEF WaitUp, Move
  <2>2. cpu \in Active
    BY <2>1, RunnerActive
  <2>. QED BY <2>1, <2>2, PassesOn
<1>6. ASSUME NEW t \in Threads, WaitDown(t) PROVE Control'
  <2>1. /\ cpu = t /\ at[t] = "wait_down" /\ at' = [at EXCEPT ![t] = "wait_ret"] /\ on' = on
        /\ Down(on[t])
    BY <1>6 DEF WaitDown, Move
  <2>2. on[t] \in Sems \ {Mutex} /\ on[t] \in Conds
    BY SemsAre, MonitorAssumption DEF TypeOK
  <2>3. value[on[t]] = 0
    BY <2>2 DEF Ownership
  <2>4. StandsBehind(t, on[t])'
    BY <2>1, <2>2 DEF StandsBehind, TypeOK
  <2>. QED BY <2>1, <2>2, <2>3, <2>4, BlocksBehind DEF Control
<1>7. ASSUME NEW t \in Threads, WaitReturn(t) PROVE Control'
  <2>1. /\ cpu = t /\ at[t] = "wait_ret" /\ at' = [at EXCEPT ![t] = "inside"]
        /\ on' = on /\ UNCHANGED semvars
    BY <1>7 DEF WaitReturn, Move
  <2>2. cpu \in Active
    BY <2>1, RunnerActive
  <2>. QED BY <2>1, <2>2, StaysOwner DEF Control
<1>8. ASSUME NEW t \in Threads, SignalUp(t) PROVE Control'
  <2>1. /\ cpu = t /\ at[t] = "signal_up" /\ at' = [at EXCEPT ![t] = "signal_down"] /\ on' = on
        /\ Up(on[t]) /\ on[t] \in Conds
    BY <1>8 DEF SignalUp, Move, TypeOK
  <2>2. cpu \in Active
    BY <2>1, RunnerActive
  <2>3. waiting[on[t]] # << >>
    BY <2>1, <2>2, WaiterBlocked DEF Counters, Waiters
  <2>. QED BY <2>1, <2>2, <2>3, HandOver, SemsAre DEF Control
<1>9. ASSUME NEW t \in Threads, SignalDown(t) PROVE Control'
  <2>1. /\ cpu = t /\ at[t] = "signal_down" /\ at' = [at EXCEPT ![t] = "signal_ret"] /\ on' = on
        /\ Down(NextSem)
    BY <1>9 DEF SignalDown, Move
  <2>2. value[NextSem] = 0
    BY SemsAre, MonitorAssumption DEF Ownership
  <2>3. StandsBehind(t, NextSem)'
    BY <2>1 DEF StandsBehind, TypeOK
  <2>. QED BY <2>1, <2>2, <2>3, SemsAre, BlocksBehind DEF Control
<1>10. ASSUME NEW t \in Threads, SignalReturn(t) PROVE Control'
  <2>1. /\ cpu = t /\ at[t] = "signal_ret" /\ at' = [at EXCEPT ![t] = "inside"]
        /\ on' = on /\ UNCHANGED semvars
    BY <1>10 DEF SignalReturn, Move
  <2>2. cpu \in Active
    BY <2>1, RunnerActive
  <2>. QED BY <2>1, <2>2, StaysOwner DEF Control
<1>11. CASE \/ \E t \in Threads : Pause(t) \/ ((TimerFires(t) \/ Dispatch(t)) /\ UNCHANGED monvars)
            \/ UNCHANGED vars
  <2>1. value' = value /\ waiting' = waiting /\ at' = at /\ on' = on
    BY <1>11 DEF Pause, SleepOnTimer, Quit, TimerFires, Dispatch, monvars, semvars, vars
  <2>2. Active' = Active /\ \A u \in Threads, s \in Sems : Blocked(u, s)' = Blocked(u, s)
    BY <2>1 DEF Active, Blocked
  <2>3. Ownership'
    BY <2>1, <2>2 DEF Ownership
  <2>4. \A u \in Threads, s \in Sems : StandsBehind(u, s)' <=> StandsBehind(u, s)
    BY <2>1 DEF StandsBehind
  <2>5. Queues'
    <3>1. ASSUME NEW t \in Threads, Pause(t) PROVE Queues'
      BY <3>1, <2>1, <2>2, <2>4, SemaphoresAssumption, RunnerActive
      DEF Pause, SleepOnTimer, Quit, Queues, TypeOK
    <3>2. ASSUME NEW t \in Threads, TimerFires(t) PROVE Queues'
      BY <3>2, <2>1, <2>2, <2>4 DEF TimerFires, Queues, TypeOK
    <3>3. ASSUME NEW t \in Threads, Dispatch(t) PROVE Queues'
      BY <3>3, <2>1, <2>2, <2>4, SemaphoresAssumption DEF Dispatch, Queues, TypeOK
    <3>4. CASE UNCHANGED vars
      BY <3>4, <2>1, <2>2, <2>4 DEF vars, semvars, Queues
    <3>. QED BY <1>11, <3>1, <3>2, <3>3, <3>4
  <2>. QED BY <2>3, <2>5 DEF Control
<1>. QED
  BY <1>1, <1>2, <1>3, <1>4, <1>5, <1>6, <1>7, <1>8, <1>9, <1>10, <1>11
  DEF Next, Step, MonitorStep
-----------------------------------------------------------------------------
(* The counters.                                                           *)

\* The counters at the start.
LEMMA CountersInit == MonitorInit => Counters
<1>. SUFFICES ASSUME MonitorInit PROVE Counters
  OBVIOUS
<1>1. Signallers = {} /\ \A c \in Conds : Waiters(c) = {}
  BY DEF MonitorInit, Signallers, Waiters
<1>. QED BY <1>1, FS_EmptySet DEF MonitorInit, Counters

\* Nobody begins or ends to signal or to wait, and the counters stay.
LEMMA CountersStay ==
    ASSUME TypeOK, Counters, UNCHANGED << count, next_count >>, on' = on,
           \A t \in Threads :
              /\ at'[t] \in {"signal_up", "signal_down", "signal_ret"}
                    <=> at[t] \in {"signal_up", "signal_down", "signal_ret"}
              /\ at'[t] \in {"wait_up", "wait_down", "wait_ret"}
                    <=> at[t] \in {"wait_up", "wait_down", "wait_ret"}
              /\ at'[t] = "signal_up" => at[t] = "signal_up"
    PROVE  Counters'
<1>1. Signallers' = Signallers /\ \A c \in Conds : Waiters(c)' = Waiters(c)
  BY DEF Signallers, Waiters
<1>. QED BY <1>1 DEF Counters, TypeOK

\* Every step keeps the counters.
LEMMA CountersStep ==
    ASSUME IInv, [Next]_vars
    PROVE  Counters'
<1>. USE DEF IInv
<1>1. ASSUME NEW t \in Threads, Enter(t) \/ Leave(t) PROVE Counters'
  BY <1>1, CountersStay DEF Enter, Leave, Move, TypeOK
<1>2. ASSUME NEW t \in Threads, WaitUp(t) \/ WaitDown(t) PROVE Counters'
  BY <1>2, CountersStay DEF WaitUp, WaitDown, Move, TypeOK
<1>3. ASSUME NEW t \in Threads, SignalUp(t) \/ SignalDown(t) PROVE Counters'
  BY <1>3, CountersStay DEF SignalUp, SignalDown, Move, TypeOK
<1>4. CASE \/ \E t \in Threads : Pause(t) \/ ((TimerFires(t) \/ Dispatch(t)) /\ UNCHANGED monvars)
           \/ UNCHANGED vars
  BY <1>4, CountersStay DEF Pause, monvars, vars
<1>5. ASSUME NEW t \in Threads, NEW c \in Conds, Wait(t, c) PROVE Counters'
  <2>1. /\ cpu = t /\ at[t] = "inside" /\ at' = [at EXCEPT ![t] = "wait_up"]
        /\ on' = [on EXCEPT ![t] = c] /\ count' = [count EXCEPT ![c] = @ + 1]
        /\ next_count' = next_count
    BY <1>5 DEF Wait, Move
  <2>2. Signallers' = Signallers
    BY <2>1 DEF Signallers, TypeOK
  <2>3. Waiters(c)' = Waiters(c) \cup {t} /\ t \notin Waiters(c)
    BY <2>1 DEF Waiters, TypeOK
  <2>4. \A d \in Conds \ {c} : Waiters(d)' = Waiters(d)
    BY <2>1 DEF Waiters, TypeOK
  <2>5. \A d \in Conds : IsFiniteSet(Waiters(d)') /\ count'[d] = Cardinality(Waiters(d)')
    <3>1. IsFiniteSet(Waiters(c)') /\ Cardinality(Waiters(c)') = Cardinality(Waiters(c)) + 1
      BY <2>3, FS_AddElement DEF Counters
    <3>2. count'[c] = count[c] + 1 /\ \A d \in Conds \ {c} : count'[d] = count[d]
      BY <2>1 DEF TypeOK
    <3>. QED BY <2>4, <3>1, <3>2 DEF Counters
  <2>6. \A u \in Threads : at'[u] # "signal_up"
    BY <2>1 DEF TypeOK, Queues
  <2>. QED BY <2>1, <2>2, <2>5, <2>6 DEF Counters
<1>6. ASSUME NEW t \in Threads, WaitReturn(t) PROVE Counters'
  <2>1. /\ cpu = t /\ at[t] = "wait_ret" /\ at' = [at EXCEPT ![t] = "inside"]
        /\ on' = on /\ count' = [count EXCEPT ![on[t]] = @ - 1]
        /\ next_count' = next_count /\ on[t] \in Conds
    BY <1>6 DEF WaitReturn, Move, TypeOK
  <2>2. Signallers' = Signallers
    BY <2>1 DEF Signallers, TypeOK
  <2>3. Waiters(on[t])' = Waiters(on[t]) \ {t} /\ t \in Waiters(on[t])
    BY <2>1 DEF Waiters, TypeOK
  <2>4. \A d \in Conds \ {on[t]} : Waiters(d)' = Waiters(d)
    BY <2>1 DEF Waiters, TypeOK
  <2>5. \A d \in Conds : IsFiniteSet(Waiters(d)') /\ count'[d] = Cardinality(Waiters(d)')
    <3>1. /\ IsFiniteSet(Waiters(on[t])')
          /\ Cardinality(Waiters(on[t])') = Cardinality(Waiters(on[t])) - 1
      <4>1. IsFiniteSet(Waiters(on[t]))
        BY <2>1 DEF Counters
      <4>. QED BY <2>3, <4>1, FS_RemoveElement
    <3>2. count'[on[t]] = count[on[t]] - 1 /\ \A d \in Conds \ {on[t]} : count'[d] = count[d]
      BY <2>1 DEF TypeOK
    <3>. QED BY <2>1, <2>4, <3>1, <3>2 DEF Counters
  <2>6. \A u \in Threads : at'[u] # "signal_up"
    BY <2>1 DEF TypeOK, Queues
  <2>. QED BY <2>1, <2>2, <2>5, <2>6 DEF Counters
<1>7. ASSUME NEW t \in Threads, NEW c \in Conds, Signal(t, c) PROVE Counters'
  <2>1. /\ cpu = t /\ at[t] = "inside" /\ at' = [at EXCEPT ![t] = "signal_up"]
        /\ on' = [on EXCEPT ![t] = c] /\ count' = count /\ count[c] > 0
        /\ next_count' = next_count + 1
    BY <1>7 DEF Signal, Move
  <2>2. Signallers' = Signallers \cup {t} /\ t \notin Signallers
    BY <2>1 DEF Signallers, TypeOK
  <2>3. \A d \in Conds : Waiters(d)' = Waiters(d)
    BY <2>1 DEF Waiters, TypeOK
  <2>4. IsFiniteSet(Signallers') /\ next_count' = Cardinality(Signallers')
    BY <2>1, <2>2, FS_AddElement DEF Counters
  <2>5. \A u \in Threads : at'[u] = "signal_up" => count'[on'[u]] > 0
    BY <2>1 DEF TypeOK, Queues
  <2>. QED BY <2>1, <2>3, <2>4, <2>5 DEF Counters
<1>8. ASSUME NEW t \in Threads, SignalReturn(t) PROVE Counters'
  <2>1. /\ cpu = t /\ at[t] = "signal_ret" /\ at' = [at EXCEPT ![t] = "inside"]
        /\ on' = on /\ count' = count /\ next_count' = next_count - 1
    BY <1>8 DEF SignalReturn, Move
  <2>2. Signallers' = Signallers \ {t} /\ t \in Signallers
    BY <2>1 DEF Signallers, TypeOK
  <2>3. \A d \in Conds : Waiters(d)' = Waiters(d)
    BY <2>1 DEF Waiters, TypeOK
  <2>4. IsFiniteSet(Signallers') /\ next_count' = Cardinality(Signallers')
    BY <2>1, <2>2, FS_RemoveElement DEF Counters
  <2>5. \A u \in Threads : at'[u] # "signal_up"
    BY <2>1 DEF TypeOK, Queues
  <2>. QED BY <2>1, <2>3, <2>4, <2>5 DEF Counters
<1>. QED BY <1>1, <1>2, <1>3, <1>4, <1>5, <1>6, <1>7, <1>8 DEF Next, Step, MonitorStep

-----------------------------------------------------------------------------
(* The theorems.                                                           *)

\* The invariant at the start.
LEMMA InvInit == MonitorInit => IInv
  BY TypeInit, ControlInit, CountersInit DEF IInv, Control

\* Every step keeps the invariant.
LEMMA InvStep == IInv /\ [Next]_vars => IInv'
<1>. SUFFICES ASSUME IInv, [Next]_vars PROVE IInv'
  OBVIOUS
<1>1. TypeOK'
  BY TypeStep DEF IInv
<1>. QED BY <1>1, ControlStep, CountersStep DEF IInv, Control

\* The invariant always holds.
LEMMA Inductive == Spec => []IInv
  BY InvInit, InvStep, PTL DEF Spec

\* Whatever the threads do with the monitor, one of them at most is active in
\* it: what kern/sync/monitor.h promises.
THEOREM OneActiveCorrect == Spec => []OneActive
<1>1. IInv => OneActive
  <2>. SUFFICES ASSUME IInv PROVE Cardinality(Active) <= 1
    BY DEF OneActive
  <2>1. CASE Active = {}
    BY <2>1, FS_EmptySet
  <2>2. CASE Active # {}
    <3>1. PICK t \in Active : TRUE
      BY <2>2
    <3>2. Active = {t}
      BY <3>1 DEF IInv, Ownership
    <3>3. Cardinality({t}) = 1
      BY FS_Singleton
    <3>. QED BY <3>2, <3>3
  <2>. QED BY <2>1, <2>2
<1>. QED BY <1>1, Inductive, PTL

\* next_count is the number of the signallers and cv->count that of the
\* waiters, in the middle of cond_wait and cond_signal too.
THEOREM CountersCorrect == Spec => []CountersExact
<1>1. IInv => CountersExact
  BY DEF IInv, Counters, CountersExact, Signallers, Waiters
<1>. QED BY <1>1, Inductive, PTL
-----------------------------------------------------------------------------
(* The monitor of the books.                                               *)

\* What the state of the semaphores stands for.
Abstraction ==
    /\ Active = {} => Owner = Nobody
    /\ \A t \in Active : Owner = t
    /\ (\A t \in Threads : at[t] # "signal_down") => Urgent = waiting[NextSem]
    /\ \A t \in Threads : at[t] = "signal_down" => Urgent = Append(waiting[NextSem], t)
    /\ CondQueues = [c \in Conds |-> CondQueues[c]]
    /\ \A c \in Conds :
          /\ (\A t \in Threads : at[t] = "wait_down" => on[t] # c) => CondQueues[c] = waiting[c]
          /\ \A t \in Threads :
                at[t] = "wait_down" /\ on[t] = c => CondQueues[c] = Append(waiting[c], t)

\* What the monitor of the books sees of the semaphores.
LEMMA Abstracts == TypeOK /\ Control => Abstraction
<1>. SUFFICES ASSUME TypeOK, Control PROVE Abstraction
  OBVIOUS
<1>1. \A t \in Active : Owner = t
  BY DEF Control, Ownership, Owner
<1>2. (\A t \in Threads : at[t] # "signal_down") => Urgent = waiting[NextSem]
  BY DEF Urgent, Behind
<1>3. ASSUME NEW t \in Threads, at[t] = "signal_down"
      PROVE  Urgent = Append(waiting[NextSem], t)
  <2>1. {u \in Threads : at[u] = "signal_down"} = {t}
    BY <1>3 DEF Control, Queues
  <2>. QED BY <2>1 DEF Urgent, Behind
<1>4. ASSUME NEW c \in Conds, \A t \in Threads : at[t] = "wait_down" => on[t] # c
      PROVE  CondQueues[c] = waiting[c]
  <2>1. {t \in Threads : at[t] = "wait_down" /\ on[t] = c} = {}
    BY <1>4
  <2>. QED BY <2>1 DEF CondQueues, Behind
<1>5. ASSUME NEW c \in Conds, NEW t \in Threads, at[t] = "wait_down", on[t] = c
      PROVE  CondQueues[c] = Append(waiting[c], t)
  <2>1. {u \in Threads : at[u] = "wait_down" /\ on[u] = c} = {t}
    BY <1>5 DEF Control, Queues
  <2>. QED BY <2>1 DEF CondQueues, Behind
<1>6. CondQueues = [c \in Conds |-> CondQueues[c]]
  BY DEF CondQueues
<1>7. Active = {} => Owner = Nobody
  BY DEF Owner
<1>. QED BY <1>1, <1>2, <1>3, <1>4, <1>5, <1>6, <1>7 DEF Abstraction

\* The same of the next state.
LEMMA AbstractsNext == TypeOK' /\ Control' => Abstraction'
  BY Abstracts, PTL
HoareVars == << Owner, waiting[Mutex], Urgent, CondQueues >>

\* Nobody is about to block unless the thread on the CPU is.
LEMMA NobodyDown ==
    ASSUME IInv, at[cpu] \notin {"wait_down", "signal_down"} \/ cpu \notin Threads
    PROVE  /\ \A t \in Threads : at[t] # "signal_down" /\ at[t] # "wait_down"
           /\ Urgent = waiting[NextSem]
           /\ \A c \in Conds : CondQueues[c] = waiting[c]
<1>1. \A t \in Threads : at[t] # "signal_down" /\ at[t] # "wait_down"
  BY DEF IInv, Queues
<1>. QED BY <1>1, Abstracts DEF Abstraction, IInv, Control

\* The steps by which the owner passes the monitor on release it.
LEMMA Releases ==
    ASSUME IInv, IInv', cpu \in Active, at[cpu] \in {"inside", "wait_up"}, PassOn,
           NEW p \in {"outside", "wait_down"},
           at' = [at EXCEPT ![cpu] = p], on' = on
    PROVE  /\ Hoare!Release
           /\ \A c \in Conds : waiting'[c] = waiting[c]
           /\ cpu' = cpu
<1>1. cpu \in Threads /\ cpu \notin Signallers
  BY DEF Active, Signallers
<1>2. Urgent = waiting[NextSem]
  BY NobodyDown
<1>3. Urgent' = waiting'[NextSem]
  <2>1. \A t \in Threads : at'[t] # "signal_down"
    BY <1>1, NobodyDown DEF IInv, TypeOK
  <2>. QED BY <2>1, AbstractsNext DEF Abstraction, IInv, Control
<1>4. \A h \in Threads : Active' = {h} => Owner' = h
  BY AbstractsNext DEF Abstraction, IInv, Control
<1>5. CASE next_count > 0
  <2>1. waiting[NextSem] # << >> /\ Up(NextSem)
    BY <1>1, <1>5, SignallerBlocked DEF PassOn
  <2>2. /\ Active' = {Head(waiting[NextSem])} /\ Head(waiting[NextSem]) \in Threads
        /\ waiting'[NextSem] = Tail(waiting[NextSem]) /\ cpu' = cpu
        /\ \A r \in Sems \ {NextSem} : waiting'[r] = waiting[r]
    BY <2>1, HandOver, UpWakes, SemsAre DEF IInv, Control
  <2>3. Owner' = Head(waiting[NextSem])
    BY <1>4, <2>2
  <2>. QED BY <1>2, <1>3, <2>1, <2>2, <2>3, SemsAre, MonitorAssumption DEF Hoare!Release
<1>6. CASE ~ (next_count > 0)
  <2>1. waiting[NextSem] = << >>
    <3>1. Signallers = {}
      BY <1>6, FS_EmptySet, FS_CardinalityType DEF IInv, Counters
    <3>2. \A t \in Threads : ~ Blocked(t, NextSem)
      BY <3>1, SemsAre, MonitorAssumption DEF Signallers, IInv, Queues, StandsBehind
    <3>3. waiting[NextSem] \in Seq(Threads)
      BY SemsAre DEF IInv, TypeOK
    <3>4. waiting[NextSem] # << >> => Head(waiting[NextSem]) \in Threads
                                      /\ Blocked(Head(waiting[NextSem]), NextSem)
      BY <3>3, TailQueue, SemsAre DEF IInv, Queues, Blocked
    <3>. QED BY <3>2, <3>4
  <2>2. Up(Mutex)
    BY <1>6 DEF PassOn
  <2>3. CASE waiting[Mutex] # << >>
    <3>1. /\ Active' = {Head(waiting[Mutex])} /\ Head(waiting[Mutex]) \in Threads
          /\ waiting'[Mutex] = Tail(waiting[Mutex]) /\ cpu' = cpu
          /\ \A r \in Sems \ {Mutex} : waiting'[r] = waiting[r]
      BY <2>2, <2>3, HandOver, UpWakes, SemsAre DEF IInv, Control
    <3>2. Owner' = Head(waiting[Mutex])
      BY <1>4, <3>1
    <3>. QED BY <1>2, <1>3, <2>1, <2>3, <3>1, <3>2, SemsAre, MonitorAssumption DEF Hoare!Release
  <2>4. CASE waiting[Mutex] = << >>
    <3>1. Active' = {}
      BY <2>2, <2>4, GiveUp DEF IInv, Control
    <3>2. waiting' = waiting /\ cpu' = cpu
      BY <2>2, <2>4 DEF Up
    <3>3. Owner' = Nobody
      BY <3>1, AbstractsNext DEF Abstraction, IInv, Control
    <3>. QED BY <1>2, <1>3, <2>1, <2>4, <3>2, <3>3 DEF Hoare!Release
  <2>. QED BY <2>3, <2>4
<1>. QED BY <1>5, <1>6

\* Steps between an "up" and a "down" are none in the books.
LEMMA StutterHolding ==
    ASSUME IInv, IInv', cpu \in Active, UNCHANGED semvars,
           at[cpu] \in {"inside", "wait_ret", "signal_ret"},
           NEW p \in {"inside", "wait_up", "signal_up"},
           at' = [at EXCEPT ![cpu] = p],
           \A t \in Threads \ {cpu} : on'[t] = on[t]
    PROVE  HoareVars' = HoareVars
<1>1. waiting' = waiting /\ cpu' = cpu /\ cpu \in Threads
  BY DEF semvars, Active
<1>2. Active' = {cpu}
  BY StaysOwner DEF IInv, Control
<1>3. Owner' = Owner
  <2>1. \A t \in Threads : Active' = {t} => Owner' = t
    BY AbstractsNext DEF Abstraction, IInv, Control
  <2>. QED BY <1>1, <1>2, <2>1, Abstracts DEF Abstraction, IInv, Control
<1>4. \A t \in Threads : at[t] # "signal_down" /\ at[t] # "wait_down"
  BY NobodyDown
<1>5. \A t \in Threads : at'[t] # "signal_down" /\ at'[t] # "wait_down"
  BY <1>4 DEF IInv, TypeOK
<1>6. Urgent' = Urgent
  BY <1>1, <1>4, <1>5, Abstracts, AbstractsNext DEF Abstraction, IInv, Control
<1>7. CondQueues' = CondQueues
  <2>1. \A c \in Conds : CondQueues'[c] = CondQueues[c]
    BY <1>1, <1>4, <1>5, Abstracts, AbstractsNext DEF Abstraction, IInv, Control
  <2>. QED BY <2>1, Abstracts, AbstractsNext DEF Abstraction, IInv, Control
<1>. QED BY <1>1, <1>3, <1>6, <1>7 DEF HoareVars
\* Nothing of the monitor changes when nobody moves in it.
LEMMA StutterElsewhere ==
    ASSUME UNCHANGED << waiting, at, on >>
    PROVE  HoareVars' = HoareVars
  BY DEF HoareVars, Owner, Active, Blocked, Urgent, CondQueues, Behind

\* A thread enters, or joins those that want to.
LEMMA EntersHoare ==
    ASSUME IInv, IInv', NEW t \in Threads, Enter(t)
    PROVE  Hoare!Enter(t)
<1>1. cpu = t /\ at[t] = "outside" /\ at' = [at EXCEPT ![t] = "inside"] /\ on' = on /\ Down(Mutex)
  BY DEF Enter, Move
<1>2. \A u \in Threads : at[u] # "signal_down" /\ at[u] # "wait_down"
  BY <1>1, NobodyDown
<1>3. \A u \in Threads : at'[u] # "signal_down" /\ at'[u] # "wait_down"
  BY <1>1, <1>2 DEF IInv, TypeOK
<1>4. /\ Urgent = waiting[NextSem] /\ Urgent' = waiting'[NextSem]
      /\ \A c \in Conds : CondQueues[c] = waiting[c] /\ CondQueues'[c] = waiting'[c]
      /\ CondQueues = [c \in Conds |-> CondQueues[c]]
      /\ CondQueues' = [c \in Conds |-> CondQueues'[c]]
  BY <1>2, <1>3, Abstracts, AbstractsNext DEF Abstraction, IInv, Control
<1>5. t # Nobody /\ t \notin Active
  BY <1>1, SemaphoresAssumption, ActiveIs DEF Activity, IInv
<1>6. \A s \in Sems : t \notin Hoare!Range(waiting[s])
  BY <1>1 DEF Hoare!Range, IInv, Queues, Blocked, ToSet
<1>7. Owner = Nobody \/ Owner \in Active
  BY Abstracts DEF Abstraction, IInv, Control
<1>8. t \notin Hoare!Inside
  BY <1>4, <1>5, <1>6, <1>7, SemsAre DEF Hoare!Inside
<1>9. \A u \in Threads : Active' = {u} => Owner' = u
  BY AbstractsNext DEF Abstraction, IInv, Control
<1>10. CASE value[Mutex] > 0
  <2>1. Active = {} /\ Active' = {t} /\ waiting' = waiting
    BY <1>10, EntersFree DEF IInv, Control
  <2>2. Owner = Nobody /\ Owner' = t
    BY <2>1, <1>9, Abstracts DEF Abstraction, IInv, Control
  <2>3. UNCHANGED << waiting[Mutex], Urgent, CondQueues >>
    BY <1>4, <2>1
  <2>. QED BY <1>8, <2>2, <2>3 DEF Hoare!Enter
<1>11. CASE ~ (value[Mutex] > 0)
  <2>1. value[Mutex] = 0 /\ Active # {}
    <3>1. value[Mutex] \in Nat
      BY SemsAre DEF IInv, TypeOK
    <3>. QED BY <1>11, <3>1 DEF IInv, Ownership
  <2>2. StandsBehind(t, Mutex)'
    BY <1>1 DEF StandsBehind, IInv, TypeOK
  <2>3. Active' = Active
    BY <1>1, <2>1, <2>2, BlocksBehind, SemsAre DEF IInv, Control
  <2>4. /\ waiting'[Mutex] = Append(waiting[Mutex], t)
        /\ \A r \in Sems \ {Mutex} : waiting'[r] = waiting[r]
    BY <1>1, <2>1, DownBlocks, SemsAre DEF IInv
  <2>5. Owner # Nobody /\ Owner' = Owner
    <3>1. PICK u \in Active : u \in Active'
      BY <2>1, <2>3
    <3>. QED BY <3>1, SemaphoresAssumption, Abstracts, AbstractsNext
         DEF Abstraction, IInv, Control, Active
  <2>6. Urgent' = Urgent /\ CondQueues' = CondQueues
    BY <1>4, <2>4, SemsAre, MonitorAssumption
  <2>. QED BY <1>8, <2>4, <2>5, <2>6 DEF Hoare!Enter
<1>. QED BY <1>10, <1>11

\* The owner leaves.
LEMMA LeavesHoare ==
    ASSUME IInv, IInv', NEW t \in Threads, Leave(t)
    PROVE  Hoare!Leave
<1>1. cpu = t /\ at[t] = "inside" /\ at' = [at EXCEPT ![t] = "outside"] /\ PassOn /\ on' = on
  BY DEF Leave, Move
<1>2. cpu \in Active
  BY <1>1, RunnerActive DEF IInv
<1>3. Hoare!Release /\ \A c \in Conds : waiting'[c] = waiting[c]
  BY <1>1, <1>2, Releases
<1>4. Owner # Nobody
  BY <1>1, <1>2, Abstracts, SemaphoresAssumption DEF Abstraction, IInv, Control
<1>5. \A u \in Threads : at[u] # "wait_down" /\ at'[u] # "wait_down"
  BY <1>1, NobodyDown DEF IInv, TypeOK
<1>6. CondQueues' = CondQueues
  <2>1. \A c \in Conds : CondQueues[c] = waiting[c] /\ CondQueues'[c] = waiting'[c]
    BY <1>5, Abstracts, AbstractsNext DEF Abstraction, IInv, Control
  <2>. QED BY <1>3, <2>1, Abstracts, AbstractsNext DEF Abstraction, IInv, Control
<1>. QED BY <1>3, <1>4, <1>6 DEF Hoare!Leave

\* The owner waits for the condition.
LEMMA WaitsHoare ==
    ASSUME IInv, IInv', NEW t \in Threads, WaitUp(t)
    PROVE  \E c \in Conds : Hoare!Wait(c)
<1>1. cpu = t /\ at[t] = "wait_up" /\ at' = [at EXCEPT ![t] = "wait_down"] /\ PassOn /\ on' = on
  BY DEF WaitUp, Move
<1>2. cpu \in Active
  BY <1>1, RunnerActive DEF IInv
<1>3. Hoare!Release /\ \A c \in Conds : waiting'[c] = waiting[c]
  BY <1>1, <1>2, Releases
<1>4. Owner = t /\ Owner # Nobody
  BY <1>1, <1>2, Abstracts, SemaphoresAssumption DEF Abstraction, IInv, Control
<1>5. on[t] \in Conds /\ \A u \in Threads : at[u] # "wait_down"
  BY <1>1, NobodyDown DEF IInv, TypeOK
<1>6. at'[t] = "wait_down" /\ \A u \in Threads \ {t} : at'[u] # "wait_down"
  BY <1>1, <1>5 DEF IInv, TypeOK
<1>7. /\ \A c \in Conds : CondQueues[c] = waiting[c]
      /\ CondQueues'[on[t]] = Append(waiting'[on[t]], t)
      /\ \A c \in Conds \ {on[t]} : CondQueues'[c] = waiting'[c]
      /\ CondQueues = [c \in Conds |-> CondQueues[c]]
      /\ CondQueues' = [c \in Conds |-> CondQueues'[c]]
  BY <1>1, <1>5, <1>6, Abstracts, AbstractsNext DEF Abstraction, IInv, Control
<1>8. CondQueues' = [CondQueues EXCEPT ![on[t]] = Append(@, Owner)]
  BY <1>3, <1>4, <1>5, <1>7
<1>. QED BY <1>3, <1>4, <1>5, <1>8 DEF Hoare!Wait

\* The owner hands the monitor to who has waited longest for the condition.
LEMMA SignalsHoare ==
    ASSUME IInv, IInv', NEW t \in Threads, SignalUp(t)
    PROVE  \E c \in Conds : Hoare!Signal(c)
<1>1. /\ cpu = t /\ at[t] = "signal_up" /\ at' = [at EXCEPT ![t] = "signal_down"] /\ on' = on
      /\ Up(on[t]) /\ on[t] \in Conds
  BY DEF SignalUp, Move, IInv, TypeOK
<1>2. cpu \in Active
  BY <1>1, RunnerActive DEF IInv
<1>3. waiting[on[t]] # << >>
  BY <1>1, <1>2, WaiterBlocked DEF IInv, Counters, Waiters
<1>4. /\ Active' = {Head(waiting[on[t]])} /\ Head(waiting[on[t]]) \in Threads
      /\ waiting'[on[t]] = Tail(waiting[on[t]])
      /\ \A r \in Sems \ {on[t]} : waiting'[r] = waiting[r]
  <2>1. on[t] \in Sems
    BY <1>1, SemsAre
  <2>2. Active' = {Head(waiting[on[t]])}
    BY <1>1, <1>2, <1>3, <2>1, HandOver DEF IInv, Control
  <2>3. /\ Head(waiting[on[t]]) \in Threads /\ waiting'[on[t]] = Tail(waiting[on[t]])
        /\ \A r \in Sems \ {on[t]} : waiting'[r] = waiting[r]
    BY <1>1, <1>3, <2>1, UpWakes DEF IInv
  <2>. QED BY <2>2, <2>3
<1>5. Owner = t /\ Owner # Nobody /\ Owner' = Head(waiting[on[t]])
  <2>1. \A u \in Threads : Active' = {u} => Owner' = u
    BY AbstractsNext DEF Abstraction, IInv, Control
  <2>. QED BY <1>1, <1>2, <1>4, <2>1, Abstracts, SemaphoresAssumption
       DEF Abstraction, IInv, Control
<1>6. \A u \in Threads : at[u] # "wait_down" /\ at[u] # "signal_down"
  BY <1>1, NobodyDown
<1>7. at'[t] = "signal_down" /\ \A u \in Threads : at'[u] # "wait_down"
  BY <1>1, <1>6 DEF IInv, TypeOK
<1>8. Urgent' = Append(Urgent, Owner)
  <2>1. Urgent = waiting[NextSem] /\ Urgent' = Append(waiting'[NextSem], t)
    BY <1>6, <1>7, Abstracts, AbstractsNext DEF Abstraction, IInv, Control
  <2>. QED BY <1>1, <1>4, <1>5, <2>1, SemsAre, MonitorAssumption
<1>9. CondQueues' = [CondQueues EXCEPT ![on[t]] = Tail(@)] /\ CondQueues[on[t]] = waiting[on[t]]
  <2>1. /\ \A c \in Conds : CondQueues[c] = waiting[c] /\ CondQueues'[c] = waiting'[c]
        /\ CondQueues = [c \in Conds |-> CondQueues[c]]
        /\ CondQueues' = [c \in Conds |-> CondQueues'[c]]
    BY <1>6, <1>7, Abstracts, AbstractsNext DEF Abstraction, IInv, Control
  <2>. QED BY <1>1, <1>4, <2>1, SemsAre
<1>10. waiting'[Mutex] = waiting[Mutex]
  BY <1>1, <1>4, SemsAre, MonitorAssumption
<1>. QED BY <1>1, <1>3, <1>5, <1>8, <1>9, <1>10 DEF Hoare!Signal
\* A thread that blocks takes the place at the end of the queue that it had in
\* the books before.
LEMMA StutterBlocking ==
    ASSUME IInv, IInv', NEW t \in Threads, WaitDown(t) \/ SignalDown(t)
    PROVE  HoareVars' = HoareVars
<1>1. PICK s \in Sems \ {Mutex}, p \in {"wait_ret", "signal_ret"} :
        /\ cpu = t /\ at[t] \in {"wait_down", "signal_down"} /\ at' = [at EXCEPT ![t] = p]
        /\ on' = on /\ Down(s)
        /\ at[t] = "wait_down" => s = on[t] /\ s \in Conds /\ p = "wait_ret"
        /\ at[t] = "signal_down" => s = NextSem /\ p = "signal_ret"
  <2>1. CASE WaitDown(t)
    <3>1. on[t] \in Conds /\ on[t] \in Sems \ {Mutex}
      BY MonitorAssumption, SemsAre DEF IInv, TypeOK
    <3>. QED BY <2>1, <3>1 DEF WaitDown, Move
  <2>2. CASE SignalDown(t)
    <3>1. NextSem \in Sems \ {Mutex}
      BY MonitorAssumption, SemsAre
    <3>. QED BY <2>2, <3>1 DEF SignalDown, Move
  <2>. QED BY <2>1, <2>2
<1>2. StandsBehind(t, s)'
  BY <1>1 DEF StandsBehind, IInv, TypeOK
<1>3. value[s] = 0
  BY <1>1 DEF IInv, Ownership
<1>4. Active' = Active
  BY <1>1, <1>2, <1>3, BlocksBehind DEF IInv, Control
<1>5. waiting'[s] = Append(waiting[s], t) /\ \A r \in Sems \ {s} : waiting'[r] = waiting[r]
  BY <1>1, <1>3, DownBlocks DEF IInv
<1>6. Owner' = Owner
  <2>1. CASE Active = {}
    BY <2>1, <1>4, Abstracts, AbstractsNext DEF Abstraction, IInv, Control
  <2>2. CASE Active # {}
    <3>1. PICK u \in Active : u \in Active'
      BY <2>2, <1>4
    <3>. QED BY <3>1, Abstracts, AbstractsNext DEF Abstraction, IInv, Control
  <2>. QED BY <2>1, <2>2
<1>7. /\ \A u \in Threads \ {t} : at[u] # "wait_down" /\ at[u] # "signal_down"
      /\ \A u \in Threads : at'[u] # "wait_down" /\ at'[u] # "signal_down"
  BY <1>1 DEF IInv, TypeOK, Queues
<1>8. Urgent' = Urgent
  <2>1. Urgent' = waiting'[NextSem]
    BY <1>7, AbstractsNext DEF Abstraction, IInv, Control
  <2>2. Urgent = IF at[t] = "signal_down" THEN Append(waiting[NextSem], t) ELSE waiting[NextSem]
    BY <1>7, Abstracts DEF Abstraction, IInv, Control
  <2>. QED BY <1>1, <1>5, <2>1, <2>2, SemsAre, MonitorAssumption
<1>9. CondQueues' = CondQueues
  <2>1. \A c \in Conds : CondQueues'[c] = waiting'[c]
    BY <1>7, AbstractsNext DEF Abstraction, IInv, Control
  <2>2. \A c \in Conds : CondQueues[c] =
            IF at[t] = "wait_down" /\ on[t] = c THEN Append(waiting[c], t) ELSE waiting[c]
    BY <1>7, Abstracts DEF Abstraction, IInv, Control
  <2>3. \A c \in Conds : CondQueues'[c] = CondQueues[c]
    BY <1>1, <1>5, <2>1, <2>2, SemsAre, MonitorAssumption
  <2>. QED BY <2>3, Abstracts, AbstractsNext DEF Abstraction, IInv, Control
<1>. QED BY <1>1, <1>5, <1>6, <1>8, <1>9, SemsAre DEF HoareVars

\* The monitor of the books starts empty.
LEMMA HoareInit == MonitorInit => Hoare!Init
<1>. SUFFICES ASSUME MonitorInit PROVE Hoare!Init
  OBVIOUS
<1>1. TypeOK /\ Control
  BY TypeInit, ControlInit
<1>2. \A t \in Threads : at[t] = "outside"
  BY DEF MonitorInit
<1>3. \A s \in Sems : waiting[s] = << >>
  BY DEF MonitorInit, SemInit, Sems
<1>4. Active = {}
  BY <1>1, <1>2, ActiveIs DEF Activity, Active
<1>5. Owner = Nobody /\ Urgent = << >> /\ waiting[Mutex] = << >>
  BY <1>1, <1>2, <1>3, <1>4, SemsAre, Abstracts DEF Abstraction
<1>6. CondQueues = [c \in Conds |-> << >>]
  BY <1>1, <1>2, <1>3, SemsAre, Abstracts DEF Abstraction
<1>. QED BY <1>5, <1>6 DEF Hoare!Init

\* Every step of the semaphores is one of the books, or none.
LEMMA HoareStep == IInv /\ IInv' /\ [Next]_vars => [Hoare!Next]_HoareVars
<1>. SUFFICES ASSUME IInv, IInv', [Next]_vars PROVE [Hoare!Next]_HoareVars
  OBVIOUS
<1>1. ASSUME NEW t \in Threads, Enter(t) PROVE Hoare!Next
  BY <1>1, EntersHoare DEF Hoare!Next
<1>2. ASSUME NEW t \in Threads, Leave(t) PROVE Hoare!Next
  BY <1>2, LeavesHoare DEF Hoare!Next
<1>3. ASSUME NEW t \in Threads, WaitUp(t) PROVE Hoare!Next
  BY <1>3, WaitsHoare DEF Hoare!Next
<1>4. ASSUME NEW t \in Threads, SignalUp(t) PROVE Hoare!Next
  BY <1>4, SignalsHoare DEF Hoare!Next
<1>5. ASSUME NEW t \in Threads, WaitDown(t) \/ SignalDown(t) PROVE HoareVars' = HoareVars
  BY <1>5, StutterBlocking
<1>6. ASSUME NEW t \in Threads, NEW c \in Conds, Wait(t, c) \/ Signal(t, c)
      PROVE  HoareVars' = HoareVars
  <2>1. PICK p \in {"wait_up", "signal_up"} :
          /\ cpu = t /\ at[t] = "inside" /\ at' = [at EXCEPT ![t] = p]
          /\ on' = [on EXCEPT ![t] = c] /\ UNCHANGED semvars
    BY <1>6 DEF Wait, Signal, Move
  <2>2. cpu \in Active /\ \A u \in Threads \ {cpu} : on'[u] = on[u]
    BY <2>1, RunnerActive DEF IInv, TypeOK
  <2>. QED BY <2>1, <2>2, StutterHolding
<1>7. ASSUME NEW t \in Threads, WaitReturn(t) \/ SignalReturn(t) PROVE HoareVars' = HoareVars
  <2>1. /\ cpu = t /\ at[t] \in {"wait_ret", "signal_ret"} /\ at' = [at EXCEPT ![t] = "inside"]
        /\ on' = on /\ UNCHANGED semvars
    BY <1>7 DEF WaitReturn, SignalReturn, Move
  <2>2. cpu \in Active
    BY <2>1, RunnerActive DEF IInv
  <2>. QED BY <2>1, <2>2, StutterHolding
<1>8. CASE \/ \E t \in Threads : Pause(t) \/ ((TimerFires(t) \/ Dispatch(t)) /\ UNCHANGED monvars)
           \/ UNCHANGED vars
  <2>1. UNCHANGED << waiting, at, on >>
    BY <1>8 DEF Pause, SleepOnTimer, Quit, TimerFires, Dispatch, monvars, semvars, vars
  <2>. QED BY <2>1, StutterElsewhere
<1>. QED
  BY <1>1, <1>2, <1>3, <1>4, <1>5, <1>6, <1>7, <1>8 DEF Next, Step, MonitorStep

\* The semaphores implement the monitor of the books: the monitor goes straight
\* from one thread to the next, signallers come before those that want to
\* enter, and who has waited longest for a condition is woken first.
THEOREM MonitorIsHoare == Spec => IsHoareMonitor
<1>1. MonitorInit => Hoare!Init
  BY HoareInit
<1>2. IInv /\ IInv' /\ [Next]_vars => [Hoare!Next]_<< Owner, waiting[Mutex], Urgent, CondQueues >>
  BY HoareStep DEF HoareVars
<1>. QED BY <1>1, <1>2, Inductive, PTL DEF Spec, IsHoareMonitor, Hoare!Spec
=============================================================================
