------------------------------- MODULE Dining -------------------------------
(***************************************************************************)
(* The table of the dining philosophers, as the states of check_sync.c     *)
(* show it: a hungry philosopher starts to eat when neither neighbour      *)
(* eats, and all decisions are about three neighbouring states only.       *)
(***************************************************************************)
EXTENDS Integers

CONSTANT N \* the number of philosophers, 0..N-1 around the table

VARIABLE state

Phils == 0..N-1
Left(i) == (i - 1 + N) % N
Right(i) == (i + 1) % N

Init == state = [i \in Phils |-> "THINKING"]

GetHungry(i) ==
    /\ state[i] = "THINKING"
    /\ state' = [state EXCEPT ![i] = "HUNGRY"]

Eat(i) ==
    /\ state[i] = "HUNGRY"
    /\ state[Left(i)] # "EATING" /\ state[Right(i)] # "EATING"
    /\ state' = [state EXCEPT ![i] = "EATING"]

Stop(i) ==
    /\ state[i] = "EATING"
    /\ state' = [state EXCEPT ![i] = "THINKING"]

Next == \E i \in Phils : GetHungry(i) \/ Eat(i) \/ Stop(i)

Spec == Init /\ [][Next]_state
=============================================================================
