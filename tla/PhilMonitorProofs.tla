--------------------------- MODULE PhilMonitorProofs ---------------------------
(***************************************************************************)
(* The philosophers use the monitor as it is meant to be used, and change  *)
(* the states of the table by its rules, whatever their number.            *)
(***************************************************************************)
EXTENDS PhilMonitor, TLAPS

\* What is proved of the monitor for any threads and conditions.
MP == INSTANCE MonitorProofs WITH Threads <- Phils, Conds <- Phils

OutsidePlaces == {"think", "take", "eat", "put", "quit"}
InsidePlaces == {"hungry", "test", "check", "leave1", "full", "left", "right", "leave2"}

TypeOK ==
    /\ state \in [Phils -> {"THINKING", "HUNGRY", "EATING"}]
    /\ ph \in [Phils -> OutsidePlaces \cup InsidePlaces]
    /\ iter \in [Phils -> Int]

(***************************************************************************)
(* The place of a philosopher in his routine and that in the monitor's     *)
(* agree.  He waits for his own condition only, where the forks are not    *)
(* both his yet, and whom he signals has been entered as eating.           *)
(***************************************************************************)
PlacesAgree ==
    \A i \in Phils :
        /\ ph[i] \in OutsidePlaces <=> at[i] = "outside"
        /\ at[i] \in {"wait_up", "wait_down", "wait_ret"} => ph[i] = "leave1" /\ on[i] = i
        /\ at[i] \in {"signal_up", "signal_down", "signal_ret"} => ph[i] # "leave1"
        /\ at[i] = "signal_up" => state[on[i]] = "EATING"

\* What the place of a philosopher tells of his state.  Only while he waits
\* may it change behind his back.
StatesAgree ==
    \A i \in Phils :
        /\ ph[i] \in {"think", "take", "hungry", "left", "right", "leave2", "quit"}
             => state[i] = "THINKING"
        /\ ph[i] \in {"test", "check", "leave1"} => state[i] # "THINKING"
        /\ ph[i] \in {"eat", "put", "full"} => state[i] = "EATING"
        /\ ph[i] = "leave1" /\ at[i] \in {"wait_ret", "inside"} /\ ~M!Blocked(i, i)
             => state[i] = "EATING"

PInv == TypeOK /\ PlacesAgree /\ StatesAgree
-----------------------------------------------------------------------------
(* The monitor of the philosophers.                                        *)

\* The philosophers are threads for whom the monitor has been proved right.
LEMMA MonitorAssumptions == MP!SemaphoresAssumption /\ MP!MonitorAssumption
<1>1. 0 \in Phils
  BY PhilMonitorAssumption DEF Phils
<1>. QED BY <1>1, PhilMonitorAssumption DEF MP!SemaphoresAssumption, MP!MonitorAssumption

\* The two names of the monitor stand for the same.
LEMMA SameMonitor ==
    /\ M!MonitorInit => MP!MonitorInit
    /\ [M!Next]_(M!vars) => [MP!Next]_(MP!vars)
<1>1. M!MonitorInit => MP!MonitorInit
  BY DEF M!MonitorInit, M!SemInit, MP!MonitorInit, MP!SemInit
<1>2. ASSUME NEW s PROVE (M!Up(s) <=> MP!Up(s)) /\ (M!Down(s) <=> MP!Down(s))
  BY DEF M!Up, MP!Up, M!Down, MP!Down
<1>3. ASSUME NEW i \in Phils, M!Step(i) PROVE MP!Step(i)
  <2>1. M!Enter(i) => MP!Enter(i)
    BY <1>2 DEF M!Enter, M!Move, MP!Enter, MP!Move
  <2>2. M!Leave(i) => MP!Leave(i)
    BY <1>2 DEF M!Leave, M!PassOn, M!Move, MP!Leave, MP!PassOn, MP!Move
  <2>3. \A c \in Phils : (M!Wait(i, c) => MP!Wait(i, c)) /\ (M!Signal(i, c) => MP!Signal(i, c))
    BY DEF M!Wait, M!Signal, M!Move, M!semvars, MP!Wait, MP!Signal, MP!Move, MP!semvars
  <2>4. M!WaitUp(i) => MP!WaitUp(i)
    BY <1>2 DEF M!WaitUp, M!PassOn, M!Move, MP!WaitUp, MP!PassOn, MP!Move
  <2>5. M!WaitDown(i) => MP!WaitDown(i)
    BY <1>2 DEF M!WaitDown, M!Move, MP!WaitDown, MP!Move
  <2>6. M!WaitReturn(i) => MP!WaitReturn(i)
    BY DEF M!WaitReturn, M!Move, M!semvars, MP!WaitReturn, MP!Move, MP!semvars
  <2>7. M!SignalUp(i) => MP!SignalUp(i)
    BY <1>2 DEF M!SignalUp, M!Move, MP!SignalUp, MP!Move
  <2>8. M!SignalDown(i) => MP!SignalDown(i)
    BY <1>2 DEF M!SignalDown, M!Move, MP!SignalDown, MP!Move
  <2>9. M!SignalReturn(i) => MP!SignalReturn(i)
    BY DEF M!SignalReturn, M!Move, M!semvars, MP!SignalReturn, MP!Move, MP!semvars
  <2>. QED
    BY <1>3, <2>1, <2>2, <2>3, <2>4, <2>5, <2>6, <2>7, <2>8, <2>9
    DEF M!Step, M!MonitorStep, MP!Step, MP!MonitorStep
<1>4. \A i \in Phils : M!Pause(i) => MP!Pause(i)
  BY DEF M!Pause, M!SleepOnTimer, M!Quit, M!monvars, MP!Pause, MP!SleepOnTimer, MP!Quit, MP!monvars
<1>5. \A i \in Phils : (M!TimerFires(i) \/ M!Dispatch(i)) /\ UNCHANGED M!monvars
                       => (MP!TimerFires(i) \/ MP!Dispatch(i)) /\ UNCHANGED MP!monvars
  BY DEF M!TimerFires, M!Dispatch, M!monvars, MP!TimerFires, MP!Dispatch, MP!monvars
<1>6. UNCHANGED M!vars => UNCHANGED MP!vars
  BY DEF M!vars, M!semvars, M!monvars, MP!vars, MP!semvars, MP!monvars
<1>. QED BY <1>1, <1>3, <1>4, <1>5, <1>6 DEF M!Next, MP!Next

\* The neighbours of a philosopher are philosophers.
LEMMA Neighbours == \A i \in Phils : LEFT(i) \in Phils /\ RIGHT(i) \in Phils
  BY PhilMonitorAssumption DEF Phils, LEFT, RIGHT

\* The invariant at the start.
LEMMA PInit == Init => PInv
  BY DEF Init, M!MonitorInit, PInv, TypeOK, PlacesAgree, StatesAgree, OutsidePlaces, InsidePlaces

\* Every step of the philosophers is one of threads that use a monitor.
LEMMA UsesStep == PInv /\ [Next]_vars => [M!Next]_(M!vars)
<1>. SUFFICES ASSUME PInv, [Next]_vars PROVE [M!Next]_(M!vars)
  OBVIOUS
<1>1. ASSUME NEW i \in Phils, Think(i) \/ Eat(i) PROVE M!Pause(i)
  BY <1>1 DEF Think, Eat, Sleep, Move, M!Pause, PInv, PlacesAgree, OutsidePlaces, monvars, M!monvars
<1>2. ASSUME UNCHANGED syncvars PROVE UNCHANGED M!vars
  BY <1>2 DEF syncvars, monvars, M!vars, M!semvars, M!monvars
<1>3. ASSUME NEW i \in Phils, NEW k \in Phils, PhiTest(i, k) PROVE M!Signal(i, k) \/ UNCHANGED M!vars
  BY <1>3, <1>2 DEF PhiTest
<1>4. ASSUME NEW i \in Phils, TakeForks(i) \/ PutForks(i) PROVE M!Step(i) \/ UNCHANGED M!vars
  BY <1>4, <1>2, <1>3, Neighbours DEF TakeForks, PutForks, Leave, M!Step
<1>5. ASSUME NEW i \in Phils, Elsewhere(i)
      PROVE  (M!TimerFires(i) \/ M!Dispatch(i)) /\ UNCHANGED M!monvars
  BY <1>5 DEF Elsewhere, monvars, M!monvars
<1>6. CASE Over \/ UNCHANGED vars
  BY <1>6, <1>2 DEF Over, vars
<1>. QED BY <1>1, <1>4, <1>5, <1>6 DEF Next, Step, M!Next, M!Step
-----------------------------------------------------------------------------
(* The states of the table.                                                *)

\* What the proofs below need of the monitor, in the words of module Monitor.
LEMMA MonitorFacts ==
    ASSUME MP!IInv
    PROVE  /\ waiting \in [Phils \cup {Mutex, NextSem} -> Seq(Phils)]
           /\ at \in [Phils -> MP!Places] /\ on \in [Phils -> Phils]
           /\ \A i \in Phils : M!Blocked(i, i) => at[i] = "wait_ret" /\ i # cpu
           /\ \A i \in Phils : at[i] \in {"wait_up", "wait_down", "signal_up", "signal_down"}
                                 => cpu = i
<1>1. \A i \in Phils : M!Blocked(i, i) <=> MP!Blocked(i, i)
  BY DEF MP!Blocked, MP!ToSet, M!Blocked, M!ToSet
<1>2. ASSUME NEW i \in Phils, MP!Blocked(i, i) PROVE at[i] = "wait_ret" /\ i # cpu
  BY <1>2, PhilMonitorAssumption DEF MP!IInv, MP!Queues, MP!Sems, MP!StandsBehind
<1>3. \A i \in Phils : at[i] \in {"wait_up", "wait_down", "signal_up", "signal_down"} => cpu = i
  BY DEF MP!IInv, MP!Queues
<1>. QED BY <1>1, <1>2, <1>3 DEF MP!IInv, MP!TypeOK, MP!Sems

\* Operations on mutex and next do not change who waits for a condition.
LEMMA OtherQueues ==
    ASSUME MP!IInv, NEW s \in {Mutex, NextSem}, M!Up(s) \/ M!Down(s)
    PROVE  \A j \in Phils : waiting'[j] = waiting[j]
  BY MonitorFacts, PhilMonitorAssumption DEF M!Up, M!Down

\* When all waits for conditions stay, a step by i that keeps to what is said
\* about him keeps to what is said about everybody.
LEMMA KeepsPlaces ==
    ASSUME PInv, MP!IInv, TypeOK', NEW i \in Phils,
           \A j \in Phils \ {i} : at'[j] = at[j] /\ on'[j] = on[j] /\ ph'[j] = ph[j],
           \A j \in Phils : M!Blocked(j, j) /\ ~M!Blocked(j, j)' => state'[j] = "EATING",
           \A j \in Phils \ {i} :
              state'[j] = state[j] \/ (state[j] = "HUNGRY" /\ state'[j] = "EATING"),
           state[i] # "EATING" \/ state'[i] = "EATING" \/ \A j \in Phils : at'[j] # "signal_up",
           ph'[i] \in OutsidePlaces <=> at'[i] = "outside",
           at'[i] \in {"wait_up", "wait_down", "wait_ret"} => ph'[i] = "leave1" /\ on'[i] = i,
           at'[i] \in {"signal_up", "signal_down", "signal_ret"} => ph'[i] # "leave1",
           at'[i] = "signal_up" => state'[on'[i]] = "EATING",
           ph'[i] \in {"think", "take", "hungry", "left", "right", "leave2", "quit"}
              => state'[i] = "THINKING",
           ph'[i] \in {"test", "check", "leave1"} => state'[i] # "THINKING",
           ph'[i] \in {"eat", "put", "full"} => state'[i] = "EATING",
           ph'[i] = "leave1" /\ at'[i] \in {"wait_ret", "inside"} /\ ~M!Blocked(i, i)'
              => state'[i] = "EATING"
    PROVE  PlacesAgree' /\ StatesAgree'
<1>1. on \in [Phils -> Phils]
  BY MonitorFacts
<1>2. ASSUME NEW j \in Phils \ {i}, at'[j] = "signal_up" PROVE state'[on'[j]] = "EATING"
  <2>1. state[on[j]] = "EATING" /\ on[j] \in Phils /\ on'[j] = on[j] /\ at[j] = "signal_up"
    BY <1>1, <1>2 DEF PInv, PlacesAgree
  <2>. QED BY <1>2, <2>1
<1>3. PlacesAgree'
  BY <1>2 DEF PInv, PlacesAgree
<1>4. ASSUME NEW j \in Phils \ {i}
      PROVE  /\ ph'[j] \in {"think", "take", "hungry", "left", "right", "leave2", "quit"}
                   => state'[j] = "THINKING"
             /\ ph'[j] \in {"test", "check", "leave1"} => state'[j] # "THINKING"
             /\ ph'[j] \in {"eat", "put", "full"} => state'[j] = "EATING"
             /\ ph'[j] = "leave1" /\ at'[j] \in {"wait_ret", "inside"} /\ ~M!Blocked(j, j)'
                   => state'[j] = "EATING"
  BY DEF PInv, StatesAgree
<1>5. StatesAgree'
  BY <1>4 DEF StatesAgree
<1>. QED BY <1>3, <1>5

\* Every step keeps the types.
LEMMA PTypeStep == PInv /\ [Next]_vars => TypeOK'
<1>. SUFFICES ASSUME PInv, [Next]_vars PROVE TypeOK'
  OBVIOUS
<1>. USE DEF PInv, TypeOK, OutsidePlaces, InsidePlaces
<1>1. ASSUME NEW i \in Phils, Think(i) \/ Eat(i) PROVE TypeOK'
  BY <1>1 DEF Think, Eat, Sleep, Move
<1>2. ASSUME NEW i \in Phils, NEW k \in Phils, PhiTest(i, k)
      PROVE  state' \in [Phils -> {"THINKING", "HUNGRY", "EATING"}]
  BY <1>2 DEF PhiTest, SetState
<1>3. ASSUME NEW i \in Phils, TakeForks(i) PROVE TypeOK'
  BY <1>2, <1>3 DEF TakeForks, Move, SetState
<1>4. ASSUME NEW i \in Phils, PutForks(i) PROVE TypeOK'
  BY <1>2, <1>4, Neighbours DEF PutForks, Move, SetState
<1>5. CASE \/ \E i \in Phils : M!MonitorStep(i) /\ UNCHANGED << state, ph, iter >>
           \/ \E i \in Phils : Elsewhere(i)
           \/ Over \/ UNCHANGED vars
  BY <1>5 DEF Elsewhere, Over, vars
<1>. QED BY <1>1, <1>3, <1>4, <1>5 DEF Next, Step
\* Looking at a philosopher's neighbours, and telling him if he may eat.
LEMMA TestKeeps ==
    ASSUME PInv, MP!IInv, TypeOK', NEW i \in Phils, NEW k \in Phils,
           NEW from \in {"test", "left", "right"}, NEW to \in {"check", "right", "leave2"},
           from = "test" <=> to = "check",
           Move(i, from, to), PhiTest(i, k)
    PROVE  PlacesAgree' /\ StatesAgree'
<1>1. /\ cpu = i /\ ph[i] = from /\ ph' = [ph EXCEPT ![i] = to] /\ at[i] \in {"outside", "inside"}
  BY DEF Move
<1>2. /\ at \in [Phils -> MP!Places] /\ on \in [Phils -> Phils]
      /\ \A j \in Phils : at[j] # "signal_up" /\ ~ M!Blocked(i, i)
  BY <1>1, MonitorFacts
<1>3. waiting' = waiting /\ \A j \in Phils : M!Blocked(j, j)' <=> M!Blocked(j, j)
  <2>1. waiting' = waiting
    BY DEF PhiTest, M!Signal, M!semvars, syncvars
  <2>. QED BY <2>1 DEF M!Blocked
<1>4. /\ \A j \in Phils \ {k} : state'[j] = state[j]
      /\ state'[k] = state[k] \/ (state[k] = "HUNGRY" /\ state'[k] = "EATING")
  BY DEF PhiTest, MayEat, SetState, PInv, TypeOK
<1>5. \/ at' = at /\ on' = on
      \/ at' = [at EXCEPT ![i] = "signal_up"] /\ on' = [on EXCEPT ![i] = k] /\ state'[k] = "EATING"
  BY DEF PhiTest, M!Signal, M!Move, syncvars, monvars, SetState, PInv, TypeOK
<1>6. at[i] = "inside"
  BY <1>1 DEF PInv, PlacesAgree, OutsidePlaces
<1>7. at'[i] \in {"inside", "signal_up"} /\ (at'[i] = "signal_up" => on'[i] = k /\ state'[k] = "EATING")
  BY <1>2, <1>5, <1>6
<1>8. /\ to = "check" => state'[i] # "THINKING"
      /\ to # "check" => state'[i] = "THINKING"
  BY <1>1, <1>4 DEF PInv, StatesAgree
<1>9. \A j \in Phils \ {i} : at'[j] = at[j] /\ on'[j] = on[j] /\ ph'[j] = ph[j]
  BY <1>1, <1>2, <1>5 DEF PInv, TypeOK
<1>10. ph'[i] = to
  BY <1>1 DEF PInv, TypeOK
<1>11. state[i] # "EATING" \/ state'[i] = "EATING"
  BY <1>4
<1>. QED
  BY <1>3, <1>4, <1>7, <1>8, <1>9, <1>10, <1>11, KeepsPlaces DEF OutsidePlaces
\* i goes to the place "to", to the place a of the monitor and to state s, and
\* nobody begins or ends to wait for a condition.
Goes(i, to, a, s) ==
    /\ cpu = i /\ at[i] \in {"outside", "inside"}
    /\ ph' = [ph EXCEPT ![i] = to]
    /\ at' = [at EXCEPT ![i] = a]
    /\ state' = [state EXCEPT ![i] = s]
    /\ on' = on \/ on' = [on EXCEPT ![i] = i]
    /\ a = "wait_up" => on' = [on EXCEPT ![i] = i]
    /\ \A j \in Phils : waiting'[j] = waiting[j]

\* He may go so far as his state agrees with it.
LEMMA GoingKeeps ==
    ASSUME PInv, MP!IInv, TypeOK', NEW i \in Phils,
           NEW to \in OutsidePlaces \cup InsidePlaces,
           NEW a \in {"outside", "inside", "wait_up"},
           NEW s \in {"THINKING", "HUNGRY", "EATING"},
           Goes(i, to, a, s),
           a = "wait_up" => to = "leave1",
           a = "outside" <=> to \in OutsidePlaces,
           to \in {"think", "take", "hungry", "left", "right", "leave2", "quit"} => s = "THINKING",
           to \in {"test", "check", "leave1"} => s # "THINKING",
           to \in {"eat", "put", "full"} => s = "EATING",
           to = "leave1" /\ a = "inside" => s = "EATING"
    PROVE  PlacesAgree' /\ StatesAgree'
<1>2. at \in [Phils -> MP!Places] /\ on \in [Phils -> Phils]
  BY MonitorFacts
<1>3. \A j \in Phils : at'[j] # "signal_up"
  BY <1>2, MonitorFacts DEF Goes
<1>4. \A j \in Phils : M!Blocked(j, j)' <=> M!Blocked(j, j)
  BY DEF M!Blocked, Goes
<1>5. /\ \A j \in Phils \ {i} : at'[j] = at[j] /\ on'[j] = on[j] /\ ph'[j] = ph[j] /\ state'[j] = state[j]
      /\ at'[i] = a /\ ph'[i] = to /\ state'[i] = s
      /\ a = "wait_up" => on'[i] = i
  BY <1>2 DEF PInv, TypeOK, Goes
<1>. QED
  BY <1>3, <1>4, <1>5, KeepsPlaces

\* The steps of the monitor by themselves: the last of them, the signal to a
\* philosopher, wakes him when he has been entered as eating.
LEMMA MonitorStepKeeps ==
    ASSUME PInv, MP!IInv, TypeOK', NEW i \in Phils, M!MonitorStep(i),
           UNCHANGED << state, ph, iter >>
    PROVE  PlacesAgree' /\ StatesAgree'
<1>1. /\ waiting \in [Phils \cup {Mutex, NextSem} -> Seq(Phils)]
      /\ at \in [Phils -> MP!Places] /\ on \in [Phils -> Phils]
      /\ \A j \in Phils : M!Blocked(j, j) => at[j] = "wait_ret" /\ j # cpu
      /\ \A j \in Phils : at[j] \in {"wait_up", "wait_down", "signal_up", "signal_down"} => cpu = j
  BY MonitorFacts
<1>2. /\ cpu = i /\ on' = on /\ state' = state /\ ph' = ph /\ ~ M!Blocked(i, i)
      /\ \E from, to \in MP!Places : at[i] = from /\ at' = [at EXCEPT ![i] = to]
  BY <1>1
  DEF M!MonitorStep, M!WaitUp, M!WaitDown, M!WaitReturn, M!SignalUp, M!SignalDown, M!SignalReturn,
      M!Move, MP!Places
<1>3. /\ \A j \in Phils \ {i} : at'[j] = at[j] /\ on'[j] = on[j] /\ ph'[j] = ph[j] /\ state'[j] = state[j]
      /\ state'[i] = state[i] /\ ph'[i] = ph[i] /\ on'[i] = on[i]
  BY <1>1, <1>2
<1>4. SUFFICES /\ \A j \in Phils : M!Blocked(j, j) /\ ~M!Blocked(j, j)' => state'[j] = "EATING"
               /\ ph'[i] \in OutsidePlaces <=> at'[i] = "outside"
               /\ at'[i] \in {"wait_up", "wait_down", "wait_ret"} => ph'[i] = "leave1" /\ on'[i] = i
               /\ at'[i] # "signal_up"
               /\ at'[i] \in {"signal_down", "signal_ret"} => ph[i] # "leave1"
               /\ ph'[i] = "leave1" /\ at'[i] \in {"wait_ret", "inside"} /\ ~M!Blocked(i, i)'
                     => state'[i] = "EATING"
  BY <1>3, KeepsPlaces DEF PInv, StatesAgree
<1>5. CASE M!WaitUp(i)
  <2>1. at[i] = "wait_up" /\ at'[i] = "wait_down" /\ \A j \in Phils : waiting'[j] = waiting[j]
    BY <1>1, <1>5, OtherQueues DEF M!WaitUp, M!Move, M!PassOn
  <2>. QED BY <1>3, <2>1 DEF M!Blocked, PInv, PlacesAgree
<1>6. CASE M!WaitDown(i)
  <2>1. at[i] = "wait_down" /\ at'[i] = "wait_ret" /\ on[i] = i /\ ph[i] = "leave1" /\ M!Down(i)
    BY <1>1, <1>6 DEF M!WaitDown, M!Move, PInv, PlacesAgree
  <2>2. value[i] = 0 /\ i \in MP!Sems
    BY PhilMonitorAssumption DEF MP!IInv, MP!Ownership, MP!Sems
  <2>3. \A j \in Phils : MP!Blocked(j, j)' <=> MP!Blocked(j, j) \/ j = i
    <3>1. MP!Down(i)
      BY <2>1 DEF M!Down, MP!Down
    <3>2. \A j \in Phils : j \in MP!Sems
      BY DEF MP!Sems
    <3>. QED BY <1>2, <2>2, <3>1, <3>2, MP!DownBlocks, MonitorAssumptions DEF MP!IInv
  <2>4. \A j \in Phils : M!Blocked(j, j)' <=> M!Blocked(j, j) \/ j = i
    BY <2>3 DEF MP!Blocked, MP!ToSet, M!Blocked, M!ToSet
  <2>. QED BY <1>3, <2>1, <2>4 DEF OutsidePlaces
<1>7. CASE M!WaitReturn(i)
  <2>1. at[i] = "wait_ret" /\ at'[i] = "inside" /\ waiting' = waiting
    BY <1>1, <1>7 DEF M!WaitReturn, M!Move, M!semvars
  <2>2. \A j \in Phils : M!Blocked(j, j)' <=> M!Blocked(j, j)
    BY <2>1 DEF M!Blocked
  <2>. QED BY <1>2, <1>3, <2>1, <2>2 DEF PInv, PlacesAgree, StatesAgree
<1>8. CASE M!SignalUp(i)
  <2>1. at[i] = "signal_up" /\ at'[i] = "signal_down" /\ M!Up(on[i]) /\ state[on[i]] = "EATING"
    BY <1>1, <1>8 DEF M!SignalUp, M!Move, PInv, PlacesAgree
  <2>2. ASSUME NEW j \in Phils, M!Blocked(j, j), ~M!Blocked(j, j)' PROVE j = on[i]
    <3>1. j # on[i] => waiting'[j] = waiting[j]
      BY <1>1, <2>1 DEF M!Up
    <3>. QED BY <2>2, <3>1 DEF M!Blocked
  <2>. QED BY <1>1, <1>3, <2>1, <2>2 DEF PInv, PlacesAgree
<1>9. CASE M!SignalDown(i)
  <2>1. at[i] = "signal_down" /\ at'[i] = "signal_ret" /\ \A j \in Phils : waiting'[j] = waiting[j]
    BY <1>1, <1>9, OtherQueues DEF M!SignalDown, M!Move
  <2>. QED BY <1>3, <2>1 DEF M!Blocked, PInv, PlacesAgree
<1>10. CASE M!SignalReturn(i)
  <2>1. at[i] = "signal_ret" /\ at'[i] = "inside" /\ waiting' = waiting
    BY <1>1, <1>10 DEF M!SignalReturn, M!Move, M!semvars
  <2>. QED BY <1>3, <2>1 DEF M!Blocked, PInv, PlacesAgree
<1>. QED BY <1>5, <1>6, <1>7, <1>8, <1>9, <1>10 DEF M!MonitorStep
\* Every step keeps the invariant.
LEMMA PStep == PInv /\ MP!IInv /\ [Next]_vars => PInv'
<1>. SUFFICES ASSUME PInv, MP!IInv, [Next]_vars PROVE PlacesAgree' /\ StatesAgree'
  BY PTypeStep DEF PInv
<1>0. TypeOK'
  BY PTypeStep
<1>. USE <1>0
<1>1. \A i \in Phils : \A s \in {"THINKING", "HUNGRY", "EATING"} :
         /\ SetState(i, s) <=> state' = [state EXCEPT ![i] = s]
         /\ state[i] = s /\ state' = state => state' = [state EXCEPT ![i] = s]
  BY DEF SetState, PInv, TypeOK
<1>2. \A i \in Phils : \A a \in MP!Places : at[i] = a /\ at' = at => at' = [at EXCEPT ![i] = a]
  BY MonitorFacts
<1>. USE DEF OutsidePlaces, InsidePlaces
<1>3. ASSUME NEW i \in Phils, NEW to \in OutsidePlaces,
             \/ Move(i, "think", to) /\ to \in {"take", "quit"}
             \/ Move(i, "eat", to) /\ to = "put",
             UNCHANGED << monvars, state >>, waiting' = waiting
      PROVE  PlacesAgree' /\ StatesAgree'
  <2>1. /\ ph[i] \in {"think", "eat"} /\ cpu = i /\ at' = at /\ on' = on /\ at[i] = "outside"
        /\ ph' = [ph EXCEPT ![i] = to]
    BY <1>3 DEF Move, monvars, PInv, PlacesAgree
  <2>2. at' = [at EXCEPT ![i] = "outside"] /\ state' = [state EXCEPT ![i] = state[i]]
    BY <1>1, <1>2, <1>3, <2>1 DEF MP!Places, PInv, TypeOK
  <2>3. Goes(i, to, "outside", state[i])
    BY <1>3, <2>1, <2>2 DEF Goes
  <2>4. /\ to \in {"take", "quit"} => state[i] = "THINKING"
        /\ to = "put" => state[i] = "EATING"
    BY <1>3 DEF Move, PInv, StatesAgree
  <2>. QED BY <1>3, <2>3, <2>4, GoingKeeps
<1>4. ASSUME NEW i \in Phils, Think(i) \/ Eat(i) PROVE PlacesAgree' /\ StatesAgree'
  BY <1>3, <1>4 DEF Think, Eat, Sleep, M!SleepOnTimer, M!Quit
<1>5. ASSUME NEW i \in Phils, M!Enter(i), UNCHANGED state,
             Move(i, "take", "hungry") \/ Move(i, "put", "full")
      PROVE  PlacesAgree' /\ StatesAgree'
  <2>1. /\ cpu = i /\ at' = [at EXCEPT ![i] = "inside"] /\ on' = on /\ at[i] = "outside"
        /\ \A j \in Phils : waiting'[j] = waiting[j]
    BY <1>5, OtherQueues DEF M!Enter, M!Move
  <2>2. CASE Move(i, "take", "hungry")
    <3>1. state' = [state EXCEPT ![i] = "THINKING"] /\ ph' = [ph EXCEPT ![i] = "hungry"]
      BY <1>1, <1>5, <2>2 DEF Move, PInv, StatesAgree
    <3>2. Goes(i, "hungry", "inside", "THINKING")
      BY <2>1, <3>1 DEF Goes
    <3>. QED BY <3>2, GoingKeeps
  <2>3. CASE Move(i, "put", "full")
    <3>1. state' = [state EXCEPT ![i] = "EATING"] /\ ph' = [ph EXCEPT ![i] = "full"]
      BY <1>1, <1>5, <2>3 DEF Move, PInv, StatesAgree
    <3>2. Goes(i, "full", "inside", "EATING")
      BY <2>1, <3>1 DEF Goes
    <3>. QED BY <3>2, GoingKeeps
  <2>. QED BY <1>5, <2>2, <2>3
<1>6. ASSUME NEW i \in Phils, UNCHANGED syncvars,
             \/ Move(i, "hungry", "test") /\ SetState(i, "HUNGRY")
             \/ Move(i, "full", "left") /\ SetState(i, "THINKING")
      PROVE  PlacesAgree' /\ StatesAgree'
  <2>1. /\ cpu = i /\ at' = at /\ on' = on /\ waiting' = waiting /\ at[i] = "inside"
    BY <1>6 DEF syncvars, monvars, Move, PInv, PlacesAgree
  <2>2. at' = [at EXCEPT ![i] = "inside"]
    BY <1>2, <2>1 DEF MP!Places
  <2>3. Goes(i, "test", "inside", "HUNGRY") \/ Goes(i, "left", "inside", "THINKING")
    BY <1>1, <1>6, <2>1, <2>2 DEF Goes, Move
  <2>. QED BY <2>3, GoingKeeps
<1>7. ASSUME NEW i \in Phils, Move(i, "check", "leave1"), UNCHANGED state,
             IF state[i] # "EATING" THEN M!Wait(i, i) ELSE UNCHANGED syncvars
      PROVE  PlacesAgree' /\ StatesAgree'
  <2>1. /\ cpu = i /\ ph[i] = "check" /\ at[i] = "inside" /\ state[i] # "THINKING"
        /\ ph' = [ph EXCEPT ![i] = "leave1"]
    BY <1>7 DEF Move, PInv, PlacesAgree, StatesAgree
  <2>2. CASE state[i] = "EATING"
    <3>1. at' = at /\ on' = on /\ waiting' = waiting
      BY <1>7, <2>2 DEF syncvars, monvars
    <3>2. at' = [at EXCEPT ![i] = "inside"] /\ state' = [state EXCEPT ![i] = "EATING"]
      BY <1>1, <1>2, <1>7, <2>1, <2>2, <3>1 DEF MP!Places
    <3>3. Goes(i, "leave1", "inside", "EATING")
      BY <2>1, <3>1, <3>2 DEF Goes
    <3>. QED BY <3>3, GoingKeeps
  <2>3. CASE state[i] = "HUNGRY"
    <3>1. /\ at' = [at EXCEPT ![i] = "wait_up"] /\ on' = [on EXCEPT ![i] = i]
          /\ waiting' = waiting
      BY <1>7, <2>3 DEF M!Wait, M!Move, M!semvars
    <3>2. state' = [state EXCEPT ![i] = "HUNGRY"]
      BY <1>1, <1>7, <2>3
    <3>3. Goes(i, "leave1", "wait_up", "HUNGRY")
      BY <2>1, <3>1, <3>2 DEF Goes
    <3>. QED BY <3>3, GoingKeeps
  <2>. QED BY <2>1, <2>2, <2>3 DEF PInv, TypeOK
<1>8. ASSUME NEW i \in Phils, Leave(i), UNCHANGED state,
             Move(i, "leave1", "eat") \/ Move(i, "leave2", "think")
      PROVE  PlacesAgree' /\ StatesAgree'
  <2>1. /\ cpu = i /\ at' = [at EXCEPT ![i] = "outside"] /\ on' = on
        /\ at[i] = "inside" /\ ~ M!Blocked(i, i)
    BY <1>8, MonitorFacts DEF Leave, M!Leave, M!Move
  <2>2. \A j \in Phils : waiting'[j] = waiting[j]
    BY <1>8, OtherQueues DEF Leave, M!Leave, M!PassOn
  <2>3. CASE Move(i, "leave1", "eat")
    <3>1. state' = [state EXCEPT ![i] = "EATING"] /\ ph' = [ph EXCEPT ![i] = "eat"]
      BY <1>1, <1>8, <2>1, <2>3 DEF Move, PInv, StatesAgree
    <3>2. Goes(i, "eat", "outside", "EATING")
      BY <2>1, <2>2, <3>1 DEF Goes
    <3>. QED BY <3>2, GoingKeeps
  <2>4. CASE Move(i, "leave2", "think")
    <3>1. state' = [state EXCEPT ![i] = "THINKING"] /\ ph' = [ph EXCEPT ![i] = "think"]
      BY <1>1, <1>8, <2>4 DEF Move, PInv, StatesAgree
    <3>2. Goes(i, "think", "outside", "THINKING")
      BY <2>1, <2>2, <3>1 DEF Goes
    <3>. QED BY <3>2, GoingKeeps
  <2>. QED BY <1>8, <2>3, <2>4
<1>9. ASSUME NEW i \in Phils, TakeForks(i) PROVE PlacesAgree' /\ StatesAgree'
  BY <1>5, <1>6, <1>7, <1>8, <1>9, TestKeeps DEF TakeForks
<1>10. ASSUME NEW i \in Phils, PutForks(i) PROVE PlacesAgree' /\ StatesAgree'
  BY <1>5, <1>6, <1>8, <1>10, TestKeeps, Neighbours DEF PutForks
<1>11. ASSUME NEW i \in Phils, M!MonitorStep(i), UNCHANGED << state, ph, iter >>
       PROVE  PlacesAgree' /\ StatesAgree'
  BY <1>11, MonitorStepKeeps
<1>12. CASE (\E i \in Phils : Elsewhere(i)) \/ Over \/ UNCHANGED vars
  <2>1. UNCHANGED << waiting, at, on, state, ph >>
    BY <1>12 DEF Elsewhere, M!TimerFires, M!Dispatch, monvars, Over, vars, syncvars
  <2>. QED BY <2>1 DEF PInv, PlacesAgree, StatesAgree, M!Blocked
<1>. QED BY <1>4, <1>9, <1>10, <1>11, <1>12 DEF Next, Step

-----------------------------------------------------------------------------
(* The theorems.                                                           *)

\* Whatever their number, the philosophers keep to the monitor's routines, so
\* that all that is proved of the monitor holds of theirs.
THEOREM UsageCorrect == Spec => UsesMonitor
<1>1. Init => M!MonitorInit
  BY DEF Init
<1>2. Init => PInv
  BY PInit
<1>3. PInv /\ MP!IInv /\ [Next]_vars => PInv'
  BY PStep
<1>4. PInv /\ [Next]_vars => [MP!Next]_(MP!vars)
  BY UsesStep, SameMonitor
<1>5. MP!IInv /\ [MP!Next]_(MP!vars) => MP!IInv'
  BY MonitorAssumptions, MP!InvStep
<1>6. Init => MP!IInv
  BY <1>1, SameMonitor, MonitorAssumptions, MP!InvInit
<1>7. PInv /\ [Next]_vars => [M!Next]_(M!vars)
  BY UsesStep
<1>. QED BY <1>1, <1>2, <1>3, <1>4, <1>5, <1>6, <1>7, PTL DEF Spec, UsesMonitor, M!Spec

\* The invariant always holds, and that of the monitor.
LEMMA PInductive == Spec => [](PInv /\ MP!IInv)
<1>1. Init => PInv /\ MP!IInv
  BY PInit, SameMonitor, MonitorAssumptions, MP!InvInit DEF Init
<1>2. PInv /\ MP!IInv /\ [Next]_vars => PInv' /\ MP!IInv'
  BY PStep, UsesStep, SameMonitor, MonitorAssumptions, MP!InvStep
<1>. QED BY <1>1, <1>2, PTL DEF Spec

\* Who comes back from cond_wait may eat: the "if" of phi_take_forks_condvar
\* needs no loop around it.
THEOREM WokenCorrect == Spec => []WokenMayEat
<1>1. PInv /\ MP!IInv => WokenMayEat
  <2>. SUFFICES ASSUME PInv, MP!IInv, NEW i \in Phils, ph[i] = "leave1",
                       at[i] \in {"wait_ret", "inside"}, i \in M!Active
                PROVE  state[i] = "EATING"
    BY DEF WokenMayEat
  <2>1. ~ M!Blocked(i, i)
    BY MonitorFacts DEF M!Active, PInv, PlacesAgree
  <2>. QED BY <2>1 DEF PInv, StatesAgree
<1>. QED BY <1>1, PInductive, PTL

\* No step breaks the rules of the table.
LEMMA RulesKept == PInv /\ [Next]_vars => [Table!Next]_state
<1>. SUFFICES ASSUME PInv, [Next]_vars PROVE [Table!Next]_state
  OBVIOUS
<1>. USE DEF Phils, Table!Phils
<1>1. ASSUME NEW i \in Phils, NEW k \in Phils, PhiTest(i, k) PROVE [Table!Next]_state
  BY <1>1 DEF PhiTest, MayEat, SetState, LEFT, RIGHT, Table!Next, Table!Eat, Table!Left, Table!Right
<1>2. ASSUME NEW i \in Phils, Move(i, "hungry", "test"), SetState(i, "HUNGRY")
      PROVE  [Table!Next]_state
  BY <1>2 DEF Move, SetState, PInv, StatesAgree, Table!Next, Table!GetHungry
<1>3. ASSUME NEW i \in Phils, Move(i, "full", "left"), SetState(i, "THINKING")
      PROVE  [Table!Next]_state
  BY <1>3 DEF Move, SetState, PInv, StatesAgree, Table!Next, Table!Stop
<1>4. ASSUME NEW i \in Phils, TakeForks(i) \/ PutForks(i) PROVE [Table!Next]_state
  BY <1>1, <1>2, <1>3, <1>4, Neighbours DEF TakeForks, PutForks
<1>5. ASSUME NEW i \in Phils, Think(i) \/ Eat(i) PROVE UNCHANGED state
  BY <1>5 DEF Think, Eat, Sleep
<1>6. CASE Over \/ UNCHANGED vars
  BY <1>6 DEF Over, vars
<1>. QED BY <1>4, <1>5, <1>6 DEF Next, Step, Elsewhere

\* The states change by the rules of the table only: nobody begins to eat next
\* to one who eats, and nobody stops who has not begun.
THEOREM DiningCorrect == Spec => IsDining
<1>1. Init => Table!Init
  BY DEF Init, Table!Init, Table!Phils, Phils
<1>. QED BY <1>1, RulesKept, PInductive, PTL DEF Spec, IsDining, Table!Spec

-----------------------------------------------------------------------------
(* What the rules of the table give.                                       *)

\* Two neighbours do not eat at once.
NeighboursApart == \A i \in Phils : state[i] = "EATING" => state[RIGHT(i)] # "EATING"

\* The neighbours by their numbers, and each is the neighbour of the other.
LEMMA RightIs == \A i \in Phils : RIGHT(i) = IF i = N - 1 THEN 0 ELSE i + 1
<1>. SUFFICES ASSUME NEW i \in Phils PROVE RIGHT(i) = IF i = N - 1 THEN 0 ELSE i + 1
  OBVIOUS
<1>1. CASE i = N - 1
  BY <1>1, PhilMonitorAssumption DEF Phils, RIGHT
<1>2. CASE i # N - 1
  BY <1>2, PhilMonitorAssumption DEF Phils, RIGHT
<1>. QED BY <1>1, <1>2

\* The left neighbour, without a remainder.
LEMMA LeftIs == \A i \in Phils : LEFT(i) = IF i = 0 THEN N - 1 ELSE i - 1
<1>. SUFFICES ASSUME NEW i \in Phils PROVE LEFT(i) = IF i = 0 THEN N - 1 ELSE i - 1
  OBVIOUS
<1>1. CASE i = 0
  BY <1>1, PhilMonitorAssumption DEF Phils, LEFT
<1>2. CASE i # 0
  BY <1>2, PhilMonitorAssumption DEF Phils, LEFT
<1>. QED BY <1>1, <1>2

\* Everybody is the left neighbour of his right one.
LEMMA EachOther == \A i \in Phils : LEFT(RIGHT(i)) = i
  BY RightIs, LeftIs, PhilMonitorAssumption DEF Phils

\* No fork is used twice: what check_sync.c is an example of, for any number of
\* philosophers but one, who is his own neighbour.
THEOREM ForksCorrect == N > 1 /\ Spec => []NeighboursApart
<1>. SUFFICES ASSUME N > 1 PROVE Spec => []NeighboursApart
  OBVIOUS
<1>1. Init => NeighboursApart
  BY Neighbours DEF Init, NeighboursApart
<1>2. NeighboursApart /\ PInv /\ [Table!Next]_state => NeighboursApart'
  <2>. SUFFICES ASSUME NeighboursApart, PInv, [Table!Next]_state, NEW i \in Phils,
                       state'[i] = "EATING", state'[RIGHT(i)] = "EATING"
                PROVE  FALSE
    BY DEF NeighboursApart
  <2>1. RIGHT(i) # i /\ RIGHT(i) \in Phils /\ LEFT(RIGHT(i)) = i
    BY EachOther, RightIs, Neighbours, PhilMonitorAssumption DEF Phils
  <2>2. PICK k \in Phils : Table!GetHungry(k) \/ Table!Eat(k) \/ Table!Stop(k)
    BY DEF Table!Next, Table!Phils, Phils, NeighboursApart
  <2>3. Table!Eat(k)
    BY <2>1, <2>2 DEF Table!GetHungry, Table!Stop, NeighboursApart, PInv, TypeOK
  <2>4. /\ state[LEFT(k)] # "EATING" /\ state[RIGHT(k)] # "EATING"
        /\ \A j \in Phils \ {k} : state'[j] = state[j]
    BY <2>3 DEF Table!Eat, Table!Left, Table!Right, LEFT, RIGHT, PInv, TypeOK
  <2>. QED BY <2>1, <2>4 DEF NeighboursApart
<1>3. PInv /\ [Next]_vars => [Table!Next]_state
  BY RulesKept
<1>. QED BY <1>1, <1>2, <1>3, PInductive, PTL DEF Spec
=============================================================================
