------------------------------- MODULE Stride -------------------------------
(***************************************************************************)
(* The stride scheduler (kern/schedule/default_sched.c): the run queue is  *)
(* a skew heap ordered by strides that wrap around and are compared by the *)
(* sign of their difference.  A process that is picked goes ahead by       *)
(* BIG_STRIDE / priority.  Time slices are in Process.                     *)
(***************************************************************************)
EXTENDS Integers, SkewHeap

CONSTANTS
    Procs,     \* process slots, without that of idleproc
    Idle,      \* idleproc, which is never enqueued and makes no calls
    InitProc,  \* initproc, which proc_init has created, and which never exits
    SignBit,   \* the sign bit of lab6_stride as a number, 2^31 in the code
    Priorities \* the arguments of lab6_set_priority (a bound of the model)

ASSUME StrideAssumption ==
    /\ IsFiniteSet(Procs) /\ InitProc \in Procs /\ Idle \notin Procs /\ NULL \notin Procs
    /\ SignBit \in Nat \ {0}
    /\ Priorities \subseteq Nat

VARIABLES
    stride,   \* lab6_stride
    priority, \* lab6_priority
    status,   \* NONE, RUNNABLE or SLEEPING
    mem,      \* lab6_run_pool of every process: its node of the heap
    pool,     \* rq->lab6_run_pool: the root of the heap
    current   \* the process on the CPU

vars == << stride, priority, status, mem, pool, current >>

\* Variant for the mutation runs: the largest unsigned stride.
BigStrideUnsigned == 2 * SignBit - 1

BIG_STRIDE == SignBit - 1

Init ==
    /\ stride = [p \in Procs |-> 0]
    /\ priority = [p \in Procs |-> 0]
    /\ status = [p \in Procs |-> IF p = InitProc THEN "RUNNABLE" ELSE "NONE"]
    /\ mem = [p \in Procs |-> [left |-> NULL, right |-> NULL, parent |-> NULL]]
    /\ pool = InitProc
    /\ current = Idle

\* The difference of two strides as an int32_t.
Difference(s, p, q) ==
    LET d == (s[p] - s[q]) % (2 * SignBit)
    IN  IF d >= SignBit THEN d - 2 * SignBit ELSE d

\* Variant for the mutation runs: the strides are compared without wrap-around.
LessUnsigned == [p \in Procs |-> [q \in Procs |-> stride[p] < stride[q]]]

\* proc_stride_comp_f returns -1.
Less == [p \in Procs |-> [q \in Procs |-> Difference(stride, p, q) < 0]]

\* Variant for the mutation runs: a process that has set no priority stays.
PassNoDefault(p) == IF priority[p] = 0 THEN 0 ELSE BIG_STRIDE \div priority[p]

\* What stride_pick_next adds to the stride, and the stride that gives.
Pass(p) == IF priority[p] = 0 THEN BIG_STRIDE ELSE BIG_STRIDE \div priority[p]

Advanced(p) == (stride[p] + Pass(p)) % (2 * SignBit)

\* stride_enqueue.
Enqueued(p) == HeapInsert(mem, pool, p, Less)

Enqueue(p) == \E heap \in {Enqueued(p)} : mem' = heap.mem /\ pool' = heap.root

\* The heap from which schedule() picks its root.
Candidates ==
    IF current # Idle /\ status[current] = "RUNNABLE"
    THEN Enqueued(current)
    ELSE [mem |-> mem, root |-> pool]

\* schedule() picks "next".  Its pointers, dead until stride_enqueue sets them
\* again, are cleared.
ScheduleTo(heap, next) ==
    LET rest == HeapRemove(heap.mem, next, next, Less)
    IN  /\ stride' = [stride EXCEPT ![next] = Advanced(next)]
        /\ mem' = Fresh(rest.mem, next)
        /\ pool' = rest.root
        /\ current' = next
        /\ UNCHANGED << priority, status >>

\* Nobody is runnable.
ScheduleIdle == current' = Idle /\ UNCHANGED << stride, priority, status, mem, pool >>

Schedule ==
    \E heap \in {Candidates} :
        IF heap.root = NULL THEN ScheduleIdle ELSE ScheduleTo(heap, heap.root)

\* current makes system calls: it has not stopped.
Running == current # Idle /\ status[current] = "RUNNABLE"

\* lab6_set_priority by current.
SetPriority(k) ==
    /\ Running
    /\ priority' = [priority EXCEPT ![current] = IF k = 0 THEN 1 ELSE k]
    /\ UNCHANGED << stride, status, mem, pool, current >>

\* do_fork: alloc_proc clears the stride, wakeup_proc enqueues the process.
Fork(p) ==
    /\ status[p] = "NONE"
    /\ Running
    /\ status' = [status EXCEPT ![p] = "RUNNABLE"]
    /\ stride' = [stride EXCEPT ![p] = 0]
    /\ priority' = [priority EXCEPT ![p] = 0]
    /\ Enqueue(p)
    /\ UNCHANGED current

\* current goes to sleep; schedule() comes next.
Sleep ==
    /\ Running
    /\ status' = [status EXCEPT ![current] = "SLEEPING"]
    /\ UNCHANGED << stride, priority, mem, pool, current >>

\* current exits; schedule() comes next.  What its slot holds is dead, and is
\* cleared.
Exit ==
    /\ Running
    /\ current # InitProc
    /\ status' = [status EXCEPT ![current] = "NONE"]
    /\ stride' = [stride EXCEPT ![current] = 0]
    /\ priority' = [priority EXCEPT ![current] = 0]
    /\ UNCHANGED << mem, pool, current >>

\* wakeup_proc; current is not enqueued, schedule() does that.
Wakeup(p) ==
    /\ status[p] = "SLEEPING"
    /\ status' = [status EXCEPT ![p] = "RUNNABLE"]
    /\ IF p = current THEN UNCHANGED << mem, pool >> ELSE Enqueue(p)
    /\ UNCHANGED << stride, priority, current >>

Next ==
    \/ Schedule
    \/ \E k \in Priorities : SetPriority(k)
    \/ \E p \in Procs : Fork(p)
    \/ Sleep
    \/ Exit
    \/ \E p \in Procs : Wakeup(p)

Spec == Init /\ [][Next]_vars

-----------------------------------------------------------------------------

\* The heap is a tree, and holds every runnable process but the one on the CPU.
HeapHoldsQueue ==
    /\ IsTree(mem, pool)
    /\ HeapNodes(mem, pool) = {p \in Procs : status[p] = "RUNNABLE"} \ {current}

\* The comment of stride_pick_next: it picks "the element from the run-queue,
\* with the minimum value of stride": nobody is behind the root of the heap.
RootIsLeast == \A p \in HeapNodes(mem, pool) : ~Less[p][pool]
=============================================================================
