--------------------------------- MODULE Files ---------------------------------
(***************************************************************************)
(* Descriptor tables, working directories and the reference counts of the  *)
(* inodes behind them: fs.c, file.c, vfsfile.c, vfspath.c, vfslookup.c,    *)
(* inode.c and the inode cache of sfs_inode.c.  The kernel is not preempted *)
(* and the disk is polled, so one call runs at a time; only a reader of the *)
(* keyboard sleeps inside its call.  Calls that go through a table or look *)
(* a name up and then decide take a step for each inode they touch.        *)
(*                                                                         *)
(* Every pointer to an inode is a slot of the function "at": the entries   *)
(* of the tables, pwd, and the result of the lookup of an open.  Paths are *)
(* one name below the root directory: sfs_lookup knows no others.          *)
(***************************************************************************)
EXTENDS Integers, FiniteSets

CONSTANTS Procs, First,   \* processes; user_main
          NFd,            \* entries of a descriptor table
          Programs,       \* regular files on the disk
          Stdin, Root,    \* the device inode; the root directory
          None,           \* a null pointer
          MaxLost         \* bound on the references lost, for TLC

ASSUME FilesAssumption ==
    /\ First \in Procs /\ IsFiniteSet(Procs)
    /\ NFd \in Nat /\ NFd > 2
    /\ IsFiniteSet(Programs)
    /\ Stdin # Root /\ Stdin \notin Programs /\ Root \notin Programs
    /\ None \notin Programs \cup {Stdin, Root}
    /\ MaxLost \in Nat

VARIABLES at,       \* what each slot points to
          count,    \* file->open_count of the entries
          ref,      \* ref_count of the inodes
          opens,    \* open_count of the inodes
          cached,   \* the inodes in memory
          dirty,    \* the files whose inode on disk is out of date
          lost,     \* references nobody gives back
          state,    \* of each process
          op        \* the call the kernel is in

counts == <<ref, opens, cached, dirty>>
vars == <<at, count, counts, lost, state, op>>

Fds   == 0 .. NFd - 1
Nodes == Programs \cup {Stdin, Root}
Fd(p, fd) == <<"fd", p, fd>>
Pwd(p)    == <<"pwd", p, 0>>
Held      == <<"held", First, 0>>
FdSlots   == {Fd(p, fd) : p \in Procs, fd \in Fds}
Slots     == FdSlots \cup {Pwd(p) : p \in Procs} \cup {Held}

OpenFds(p) == {fd \in Fds : at[Fd(p, fd)] # None}
Least(fd, S) == fd \in S /\ \A g \in S : fd <= g
\* fd_array_alloc with NO_FD
FreeFd(p, fd) == Least(fd, Fds \ OpenFds(p))

Flags == [write : BOOLEAN, how : {"plain", "trunc", "create", "exclusive"}]
ReadOnly == [write |-> FALSE, how |-> "plain"]
Idle == [kind |-> "idle", proc |-> First, child |-> First, todo |-> {}, fd |-> 0, flags |-> ReadOnly]
Busy(kind, p, todo) == [Idle EXCEPT !.kind = kind, !.proc = p, !.todo = todo]

\* The references behind these processes: vdev->devnode of the device, and
\* bootfs_node and the pwd of initproc, both from vfs_set_bootfs.
Base(n) == IF n = Root THEN 2 ELSE IF n = Stdin THEN 1 ELSE 0

Init ==
    /\ at = [s \in Slots |-> IF s = Pwd(First) THEN Root ELSE None]
    /\ count = [s \in FdSlots |-> 0]
    /\ ref = [n \in Nodes |-> IF n = Root THEN Base(n) + 1 ELSE Base(n)]
    /\ opens = [n \in Nodes |-> 0]
    /\ cached = {Root, Stdin}
    /\ dirty = {}
    /\ lost = [n \in Nodes |-> 0]
    /\ state = [p \in Procs |-> IF p = First THEN "running" ELSE "unused"]
    /\ op = Idle

-----------------------------------------------------------------------------
(* Reference counts. *)

\* vop_ref_inc; for a file that is not in memory, sfs_load_inode.
RefInc(n) == /\ ref' = [ref EXCEPT ![n] = @ + 1]
             /\ cached' = cached \cup {n}
\* vop_ref_dec; the last one has sfs_reclaim write the inode and free it.
RefDec(n) == /\ ref' = [ref EXCEPT ![n] = @ - 1]
             /\ cached' = IF ref[n] = 1 THEN cached \ {n} ELSE cached

\* Variant for the mutation runs: no vop_open_inc in fd_array_dup.
FillUnopened(s, n) == /\ at' = [at EXCEPT ![s] = n]
                      /\ count' = [count EXCEPT ![s] = 1]
                      /\ UNCHANGED opens

\* fd_array_dup and the end of file_open: the entry s now is file n.
Fill(s, n) == /\ at' = [at EXCEPT ![s] = n]
              /\ count' = [count EXCEPT ![s] = 1]
              /\ opens' = [opens EXCEPT ![n] = @ + 1]

\* fd_array_close: the entry is free once no read is under way; the last
\* close of an inode writes it to the disk, then the reference goes.
Close(s) ==
    LET n == at[s] IN
    /\ count[s] = 1
    /\ at' = [at EXCEPT ![s] = None]
    /\ count' = [count EXCEPT ![s] = 0]
    /\ opens' = [opens EXCEPT ![n] = @ - 1]
    /\ dirty' = IF opens[n] = 1 THEN dirty \ {n} ELSE dirty
    /\ RefDec(n)

-----------------------------------------------------------------------------
\* do_fork: copy_fs gives the child the directory of its parent, then the
\* entries of its table, one after the other.
Fork(p, c) ==
    /\ op = Idle
    /\ state[p] = "running" /\ state[c] = "unused"
    /\ at' = [at EXCEPT ![Pwd(c)] = at[Pwd(p)]]
    /\ RefInc(at[Pwd(p)])
    /\ op' = [Busy("fork", p, OpenFds(p)) EXCEPT !.child = c]
    /\ UNCHANGED <<count, opens, dirty, lost, state>>
DupNext(fd) ==
    /\ op.kind = "fork" /\ Least(fd, op.todo)
    /\ LET from == Fd(op.proc, fd)
           to   == Fd(op.child, fd) IN
          /\ Fill(to, at[from])
          /\ RefInc(at[from])
    /\ op' = [op EXCEPT !.todo = @ \ {fd}]
    /\ UNCHANGED <<dirty, lost, state>>
ForkDone ==
    /\ op.kind = "fork" /\ op.todo = {}
    /\ state' = [state EXCEPT ![op.child] = "running"]
    /\ op' = Idle
    /\ UNCHANGED <<at, count, counts, lost>>

\* do_exit: put_fs, whose files_destroy gives back the directory first.
PutFs(p) ==
    /\ at' = [at EXCEPT ![Pwd(p)] = None]
    /\ RefDec(at[Pwd(p)])
    /\ op' = Busy("exit", p, OpenFds(p))
    /\ UNCHANGED <<count, opens, dirty, lost, state>>
Exit(p) == op = Idle /\ state[p] = "running" /\ PutFs(p)
CloseNext(fd) ==
    /\ op.kind \in {"exit", "exec"} /\ Least(fd, op.todo)
    /\ Close(Fd(op.proc, fd))
    /\ op' = [op EXCEPT !.todo = @ \ {fd}]
    /\ UNCHANGED <<lost, state>>
ExitDone ==
    /\ op.kind = "exit" /\ op.todo = {}
    /\ state' = [state EXCEPT ![op.proc] = "zombie"]
    /\ op' = Idle
    /\ UNCHANGED <<at, count, counts, lost>>
Reap(p) ==
    /\ op = Idle /\ state[p] = "zombie"
    /\ state' = [state EXCEPT ![p] = "unused"]
    /\ UNCHANGED <<at, count, counts, lost, op>>

\* do_execve: files_closeall spares the first two entries; the program, or
\* whatever else has that name, is opened in the first free one, and load_icode
\* closes it when it succeeds.
Execve(p) ==
    /\ op = Idle /\ state[p] = "running"
    /\ op' = Busy("exec", p, OpenFds(p) \ {0, 1})
    /\ UNCHANGED <<at, count, counts, lost, state>>
OpenProgram(n) ==
    /\ op.kind = "exec" /\ op.todo = {}
    /\ \E fd \in Fds :
          /\ FreeFd(op.proc, fd)
          /\ Fill(Fd(op.proc, fd), n)
          /\ op' = [Busy("load", op.proc, {}) EXCEPT !.fd = fd]
    /\ RefInc(n)
    /\ UNCHANGED <<dirty, lost, state>>
NoProgram == op.kind = "exec" /\ op.todo = {} /\ PutFs(op.proc)
\* A segment that lies behind the end of the file makes load_icode_read seek
\* there, which enlarges the file.
Loaded == at[Fd(op.proc, op.fd)]
LoadSeeks ==
    /\ op.kind = "load" /\ Loaded \in Programs
    /\ dirty' = dirty \cup {Loaded}
    /\ UNCHANGED <<at, count, ref, opens, cached, lost, state, op>>
LoadDone ==
    /\ op.kind = "load" /\ Loaded \in Programs
    /\ Close(Fd(op.proc, op.fd))
    /\ op' = Idle
    /\ UNCHANGED <<lost, state>>
\* Not a program, or a device, in which nobody can seek.  To seek in a directory
\* the kernel has no function: it panics, and takes no further step.
LoadFails == op.kind = "load" /\ Loaded # Root /\ PutFs(op.proc)

-----------------------------------------------------------------------------
\* file_open: an entry is set aside, then vfs_open looks the name up ...
Lookup(p, n, flags) ==
    /\ op = Idle /\ state[p] = "running"
    /\ flags.how = "trunc" => flags.write
    /\ \E fd \in Fds :
          /\ FreeFd(p, fd)
          /\ op' = [Busy("open", p, {}) EXCEPT !.fd = fd, !.flags = flags]
    /\ at' = [at EXCEPT ![Held] = n]
    /\ RefInc(n)
    /\ UNCHANGED <<count, opens, dirty, lost, state>>

\* ... and fails if it was to be a new file: the reference is not given back;
Exists ==
    /\ op.kind = "open" /\ op.flags.how = "exclusive"
    /\ \A n \in Nodes : lost[n] < MaxLost
    /\ lost' = [lost EXCEPT ![at[Held]] = @ + 1]
    /\ at' = [at EXCEPT ![Held] = None]
    /\ op' = Idle
    /\ UNCHANGED <<count, counts, state>>

\* or vop_open refuses: stdin is only read and never created, a directory
\* only read;
Refused == \/ at[Held] = Stdin /\ op.flags # ReadOnly
           \/ at[Held] = Root /\ op.flags.write
OpenRefused ==
    /\ op.kind = "open" /\ op.flags.how # "exclusive" /\ Refused
    /\ at' = [at EXCEPT ![Held] = None]
    /\ RefDec(at[Held])
    /\ op' = Idle
    /\ UNCHANGED <<count, opens, dirty, lost, state>>

\* or the inode goes to the entry, a file emptied if it was to be created or
\* truncated.  To truncate a directory the kernel has no function: it panics,
\* and takes no further step.
OpenDone ==
    /\ op.kind = "open" /\ op.flags.how # "exclusive" /\ ~Refused
    /\ at[Held] = Root => op.flags.how = "plain"
    /\ LET s == Fd(op.proc, op.fd) IN
          /\ at' = [at EXCEPT ![Held] = None, ![s] = at[Held]]
          /\ count' = [count EXCEPT ![s] = 1]
    /\ opens' = [opens EXCEPT ![at[Held]] = @ + 1]
    /\ dirty' = IF op.flags.how = "plain" THEN dirty ELSE dirty \cup {at[Held]}
    /\ op' = Idle
    /\ UNCHANGED <<ref, cached, lost, state>>

FileClose(p, fd) ==
    /\ op = Idle /\ state[p] = "running" /\ fd \in OpenFds(p)
    /\ Close(Fd(p, fd))
    /\ UNCHANGED <<lost, state, op>>

\* file_dup, to a given entry or to the first free one: both must be free.
FileDup(p, fd1, fd2) ==
    /\ op = Idle /\ state[p] = "running"
    /\ fd1 \in OpenFds(p) /\ fd2 \notin OpenFds(p)
    /\ Fill(Fd(p, fd2), at[Fd(p, fd1)])
    /\ RefInc(at[Fd(p, fd1)])
    /\ UNCHANGED <<dirty, lost, state, op>>

\* file_read of the keyboard with no key there: the process sleeps between
\* fd_array_acquire and fd_array_release.
ReadSleeps(p, fd) ==
    /\ op = Idle /\ state[p] = "running" /\ at[Fd(p, fd)] = Stdin
    /\ count' = [count EXCEPT ![Fd(p, fd)] = @ + 1]
    /\ state' = [state EXCEPT ![p] = "reading"]
    /\ UNCHANGED <<at, counts, lost, op>>
ReadEnds(p, fd) ==
    /\ op = Idle /\ state[p] = "reading" /\ count[Fd(p, fd)] = 2
    /\ count' = [count EXCEPT ![Fd(p, fd)] = @ - 1]
    /\ state' = [state EXCEPT ![p] = "running"]
    /\ UNCHANGED <<at, counts, lost, op>>

\* file_write, and file_seek behind the end of a file; the latter asks not
\* whether the entry is writable, so the model need not know.
Change(p, fd) ==
    /\ op = Idle /\ state[p] = "running" /\ at[Fd(p, fd)] \in Programs
    /\ dirty' = dirty \cup {at[Fd(p, fd)]}
    /\ UNCHANGED <<at, count, ref, opens, cached, lost, state, op>>
FileFsync(p, fd) ==
    /\ op = Idle /\ state[p] = "running" /\ at[Fd(p, fd)] \in Programs
    /\ dirty' = dirty \ {at[Fd(p, fd)]}
    /\ UNCHANGED <<at, count, ref, opens, cached, lost, state, op>>

Next ==
    \/ ForkDone \/ ExitDone \/ NoProgram \/ LoadSeeks \/ LoadDone \/ LoadFails
    \/ Exists \/ OpenRefused \/ OpenDone
    \/ \E fd \in Fds : DupNext(fd) \/ CloseNext(fd)
    \/ \E n \in Nodes : OpenProgram(n)
    \/ \E p \in Procs :
          \/ Exit(p) \/ Reap(p) \/ Execve(p)
          \/ \E c \in Procs : Fork(p, c)
          \/ \E n \in Nodes, flags \in Flags : Lookup(p, n, flags)
          \/ \E fd \in Fds : \/ FileClose(p, fd) \/ ReadSleeps(p, fd) \/ ReadEnds(p, fd)
                             \/ Change(p, fd) \/ FileFsync(p, fd)
                             \/ \E fd2 \in Fds : FileDup(p, fd, fd2)

Spec == Init /\ [][Next]_vars
-----------------------------------------------------------------------------
(* Properties. *)

OpKinds == {"idle", "fork", "exit", "exec", "load", "open"}
TypeOK ==
    /\ at \in [Slots -> Nodes \cup {None}]
    /\ count \in [FdSlots -> Nat]
    /\ ref \in [Nodes -> Int] /\ opens \in [Nodes -> Int]
    /\ cached \subseteq Nodes
    /\ dirty \subseteq Programs
    /\ lost \in [Nodes -> Nat]
    /\ state \in [Procs -> {"unused", "running", "reading", "zombie"}]
    /\ op \in [kind : OpKinds, proc : Procs, child : Procs, todo : SUBSET Fds,
               fd : Fds, flags : Flags]

Users(n) == {s \in Slots : at[s] = n}

(***************************************************************************)
(* The counts of an inode are the pointers there are to it (and those an   *)
(* exclusive open has lost), through fork, exec, exit and every failure of *)
(* an open: it leaves memory with the last of them and no sooner, and what *)
(* nobody has open any more is on the disk.                                *)
(***************************************************************************)
InodesExact ==
    \A n \in Nodes :
        /\ ref[n] = Cardinality(Users(n)) + Base(n) + lost[n]
        /\ opens[n] = Cardinality(Users(n) \cap FdSlots)
        /\ n \in cached <=> ref[n] > 0
        /\ opens[n] = 0 => n \notin dirty
=============================================================================
