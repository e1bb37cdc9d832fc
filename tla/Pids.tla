-------------------------------- MODULE Pids --------------------------------
(***************************************************************************)
(* get_pid of kern/process/proc.c.  It hands out last_pid + 1 without a    *)
(* look at the process list as long as that is below next_safe, the        *)
(* smallest pid in use above last_pid when the list was last scanned.  A   *)
(* scan starts again from the list's head each time it has to give up the  *)
(* candidate.  get_pid and set_links run with interrupts off: while a scan *)
(* is on nobody forks or exits.                                            *)
(***************************************************************************)
EXTENDS Integers, FiniteSets

CONSTANTS
    MAX_PID,     \* pids are in 1..MAX_PID-1, 0 is idleproc
    MAX_PROCESS  \* largest number of processes

\* What the static_assert of get_pid says.
ASSUME PidsAssumption ==
    /\ MAX_PID \in Nat
    /\ MAX_PROCESS \in Nat \ {0}
    /\ MAX_PID > MAX_PROCESS

VARIABLES
    pids,       \* the pids of the processes in proc_list
    nr_process, \* the number of processes, with idleproc, which is not in the list
    last_pid,   \* the last pid handed out, the candidate during a scan
    next_safe,  \* no pid in use lies between last_pid and next_safe
    place,         \* "out", or "scan" inside the loop of get_pid
    todo        \* the pids that the scan has not visited yet

pidsvars == << pids, nr_process, last_pid, next_safe, place, todo >>

PidsInit ==
    /\ pids = {}
    /\ nr_process = 1
    /\ last_pid = MAX_PID
    /\ next_safe = MAX_PID
    /\ place = "out"
    /\ todo = {}

\* hash_proc and set_links, for the pid that get_pid returns.
Enter(pid) ==
    /\ pids' = pids \cup {pid}
    /\ nr_process' = nr_process + 1
    /\ place' = "out"
    /\ todo' = {}

\* do_fork calls get_pid: the next pid is safe, or a scan begins.
Call ==
    /\ place = "out"
    /\ nr_process < MAX_PROCESS
    /\ LET next == last_pid + 1
       IN  \/ /\ next < MAX_PID /\ next < next_safe
              /\ last_pid' = next
              /\ Enter(next)
              /\ UNCHANGED next_safe
           \/ /\ next >= MAX_PID \/ next >= next_safe
              /\ last_pid' = IF next >= MAX_PID THEN 1 ELSE next
              /\ next_safe' = MAX_PID
              /\ place' = "scan"
              /\ todo' = pids
              /\ UNCHANGED << pids, nr_process >>

\* Variant for the mutation runs: the scan goes on with the next candidate
\* although it is not below next_safe.
TakenNoRepeat(q) ==
    /\ q = last_pid
    /\ last_pid' = IF last_pid + 1 >= MAX_PID THEN 1 ELSE last_pid + 1
    /\ todo' = todo \ {q}
    /\ UNCHANGED next_safe

\* Variant for the mutation runs: every new scan begins with pid 1.
TakenFromOne(q) ==
    /\ q = last_pid
    /\ LET next == last_pid + 1
       IN  \/ /\ next < next_safe
              /\ last_pid' = next
              /\ todo' = todo \ {q}
              /\ UNCHANGED next_safe
           \/ /\ next >= next_safe
              /\ last_pid' = 1
              /\ next_safe' = MAX_PID
              /\ todo' = pids

\* The candidate is in use: the next one is tried, from the head of the list if
\* the scan so far says nothing about it.
Taken(q) ==
    /\ q = last_pid
    /\ LET next == last_pid + 1
       IN  \/ /\ next < next_safe
              /\ last_pid' = next
              /\ todo' = todo \ {q}
              /\ UNCHANGED next_safe
           \/ /\ next >= next_safe
              /\ last_pid' = IF next >= MAX_PID THEN 1 ELSE next
              /\ next_safe' = MAX_PID
              /\ todo' = pids

\* Variant for the mutation runs: any larger pid becomes next_safe.
PassedLast(q) ==
    /\ q # last_pid
    /\ next_safe' = IF q > last_pid THEN q ELSE next_safe
    /\ todo' = todo \ {q}
    /\ UNCHANGED last_pid

\* Another pid: next_safe comes down to it if it lies between.
Passed(q) ==
    /\ q # last_pid
    /\ next_safe' = IF q > last_pid /\ next_safe > q THEN q ELSE next_safe
    /\ todo' = todo \ {q}
    /\ UNCHANGED last_pid

\* One turn of the loop.  The order of the list is left open.
Visit(q) ==
    /\ place = "scan"
    /\ q \in todo
    /\ Taken(q) \/ Passed(q)
    /\ UNCHANGED << pids, nr_process, place >>

\* The list is at its end.
Finish ==
    /\ place = "scan"
    /\ todo = {}
    /\ Enter(last_pid)
    /\ UNCHANGED << last_pid, next_safe >>

\* do_wait frees a process: unhash_proc and remove_links.
Free(q) ==
    /\ place = "out"
    /\ pids' = pids \ {q}
    /\ nr_process' = nr_process - 1
    /\ UNCHANGED << last_pid, next_safe, place, todo >>

Scan == (\E q \in todo : Visit(q)) \/ Finish

PidsNext ==
    \/ Call
    \/ Scan
    \/ \E q \in pids : Free(q)

PidsSpec == PidsInit /\ [][PidsNext]_pidsvars

\* get_pid goes on until it returns: nothing else runs meanwhile.
PidsFairSpec == PidsSpec /\ WF_pidsvars(Scan)

-----------------------------------------------------------------------------

\* Every variable keeps its range; a scan's candidate is a pid.
PidsTypeOK ==
    /\ pids \subseteq 1..MAX_PID-1
    /\ nr_process \in 1..MAX_PROCESS
    /\ last_pid \in 1..MAX_PID
    /\ next_safe \in 1..MAX_PID
    /\ place \in {"out", "scan"}
    /\ todo \subseteq IF place = "scan" THEN pids ELSE {}

\* No two processes have the same pid: there are as many pids as processes.
PidsUnique == nr_process = Cardinality(pids) + 1

\* The cache is never stale: outside get_pid no pid in use lies between
\* last_pid and next_safe, whoever has been created or freed since the scan.
CacheSound ==
    place = "out" => \A q \in pids : ~(last_pid < q /\ q < next_safe)

\* get_pid returns: the scans that begin again come to an end.
GetPidReturns == place = "scan" ~> place = "out"
=============================================================================
