----------------------------- MODULE StrideShare ----------------------------
(***************************************************************************)
(* The stride scheduler while nobody joins the queue, new or out of sleep, *)
(* whose stride is further than BIG_STRIDE from that of another.  Then the *)
(* wrapped strides are as good as unbounded ones; the run of RootIsLeast   *)
(* in Stride shows what happens otherwise.                                 *)
(***************************************************************************)
EXTENDS Stride

VARIABLE
    ahead \* what a process has been advanced, without wrap-around, above the
          \* least of the runnable ones

sharevars == << ahead, vars >>

Runnable == {p \in Procs : status[p] = "RUNNABLE"}

ShareInit == Init /\ ahead = [p \in Procs |-> 0]

\* What stands for every number below -BIG_STRIDE.
TooFar == -BIG_STRIDE - 1

\* The numbers f above the least of those of S.
Above(f, S) ==
    LET m == IF S = {} THEN 0 ELSE CHOOSE k \in {f[p] : p \in S} : \A p \in S : k <= f[p]
    IN  [p \in Procs |-> IF f[p] = TooFar \/ f[p] - m < TooFar THEN TooFar ELSE f[p] - m]

\* schedule(), and what becomes of the numbers.
ShareSchedule ==
    \E heap \in {Candidates} :
        IF heap.root = NULL
        THEN ScheduleIdle /\ UNCHANGED ahead
        ELSE /\ ScheduleTo(heap, heap.root)
             /\ ahead' = Above([ahead EXCEPT ![heap.root] = @ + Pass(heap.root)], Runnable)

\* p is not too far from anybody to join.
Timely(p) ==
    /\ ahead[p] # TooFar
    /\ \A q \in Runnable : ahead[q] - ahead[p] \in -BIG_STRIDE..BIG_STRIDE

ShareFork(p) == Fork(p) /\ Timely(p) /\ ahead' = Above(ahead, Runnable \cup {p})
ShareWakeup(p) == Wakeup(p) /\ Timely(p) /\ ahead' = Above(ahead, Runnable \cup {p})
ShareSleep == Sleep /\ ahead' = Above(ahead, Runnable \ {current})

\* The slot is not used again: the next stride of 0 may come too late.
ShareExit == Exit /\ ahead' = Above([ahead EXCEPT ![current] = TooFar], Runnable \ {current})

ShareNext ==
    \/ ShareSchedule
    \/ \E k \in Priorities : SetPriority(k) /\ UNCHANGED ahead
    \/ \E p \in Procs : ShareFork(p)
    \/ \E p \in Procs : ShareWakeup(p)
    \/ ShareSleep
    \/ ShareExit

\* Time slices run out, so schedule() is called again and again.
ShareSpec == ShareInit /\ [][ShareNext]_sharevars /\ WF_sharevars(ShareSchedule)

-----------------------------------------------------------------------------

\* The comparison of the wrapped strides tells who is behind.
ComparisonRight ==
    \A p, q \in Runnable : Difference(stride, p, q) = ahead[p] - ahead[q]

\* The process picked is one that has got least: see FairShare.
Fair == INSTANCE FairShare WITH
    First <- {InitProc}, Big <- BIG_STRIDE, members <- Runnable,
    ahead <- [p \in Procs |-> IF p \in Runnable THEN ahead[p] ELSE 0]

KeepsShares == Fair!Spec

\* Every process runs again and again.
NobodyStarves == \A p \in Procs : (status[p] = "RUNNABLE") ~> (current = p)
=============================================================================
