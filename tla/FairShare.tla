----------------------------- MODULE FairShare -----------------------------
(***************************************************************************)
(* Stride scheduling as it is meant: who has got least, weighed by his     *)
(* pass, is picked next, and nobody who joins is further from another than *)
(* a pass can be.  ahead[p] is the stride of p, without wrap-around, above *)
(* the least one.                                                          *)
(***************************************************************************)
EXTENDS Integers

CONSTANTS
    Procs, \* the processes
    First, \* those which are there from the start
    Big    \* the greatest pass

VARIABLES members, ahead

vars == << members, ahead >>

Init ==
    /\ Big \in Nat
    /\ First \subseteq Procs
    /\ members = First
    /\ ahead = [p \in Procs |-> 0]

\* m is the least of the values that f gives to the processes of S.
IsLeast(m, f, S) == (\E p \in S : f[p] = m) /\ \A p \in S : m <= f[p]

\* The members become S, with the values f above some number m, which is the
\* least value if there is one.
Settle(S, f) ==
    /\ members' = S
    /\ \E m \in -Big..2 * Big :
         /\ S # {} => IsLeast(m, f, S)
         /\ ahead' = [q \in Procs |-> IF q \in S THEN f[q] - m ELSE 0]

\* p joins d above the least.
Join(p) ==
    /\ p \notin members
    /\ \E d \in -Big..Big :
         /\ \A q \in members : ahead[q] - d <= Big
         /\ Settle(members \cup {p}, [ahead EXCEPT ![p] = d])

\* p sleeps or exits.
Leave(p) == p \in members /\ Settle(members \ {p}, ahead)

\* p, which has got least, is picked with some pass.
Pick(p) ==
    /\ p \in members /\ ahead[p] = 0
    /\ \E pass \in 0..Big : Settle(members, [ahead EXCEPT ![p] = @ + pass])

Next == \E p \in Procs : Join(p) \/ Leave(p) \/ Pick(p)

Spec == Init /\ [][Next]_vars

-----------------------------------------------------------------------------

\* No two processes are further apart than the greatest pass: over any time, a
\* process has got its share but for one turn.
ShareKept == \A p, q \in members : ahead[p] - ahead[q] <= Big
=============================================================================
