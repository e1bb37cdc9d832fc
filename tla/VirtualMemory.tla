---------------------------- MODULE VirtualMemory ----------------------------
(***************************************************************************)
(* Page frames, page tables and the operations of pmm.c, vmm.c, swap.c and *)
(* proc.c that take and give back frames: fork copies an address space,    *)
(* execve replaces it, exit gives it back, a page fault fills it.  The     *)
(* kernel is not preempted, so one operation runs at a time; it takes one  *)
(* step for each frame, because each can find memory exhausted.            *)
(*                                                                         *)
(* Every pointer to a frame is a slot of the function "at": the two frames *)
(* of a kernel stack, a page directory, the entries of a directory, the    *)
(* entries of the page tables, and the page load_icode is about to map.    *)
(* Here alloc_pages may choose any free frames; Memory adds the free list. *)
(***************************************************************************)
EXTENDS Integers, FiniteSets, Sequences

CONSTANTS NPage,      \* number of page frames the allocator manages
          Procs,      \* process slots
          First,      \* the kernel thread user_main (idleproc during the boot check)
          VPages,     \* virtual pages of an address space, in address order
          AreaOf,     \* the vma a virtual page lies in, numbered in address order
          TableOf,    \* the page directory entry a virtual page lies under
          StackArea,  \* the vma of the user stack
          Eager,      \* the pages load_icode maps: TEXT, DATA, BSS, top of the stack
          CheckArea,  \* the vma of check_mm_struct
          CheckFrames,\* the frames check_swap leaves in the free list
          Values,     \* contents of a page
          FileValue   \* what load_icode fills a page with: the file's data, 0 in BSS

ASSUME VMAssumption ==
    /\ NPage \in Nat
    /\ First \in Procs
    /\ VPages \subseteq Nat
    /\ AreaOf \in [VPages -> Nat]
    /\ TableOf \in [VPages -> Nat]
    /\ Eager \subseteq VPages
    /\ CheckArea \in {AreaOf[v] : v \in VPages}
    /\ CheckFrames \in 1 .. NPage - 1
    /\ Values \subseteq Nat /\ FileValue \in Values

VARIABLES free,     \* frames that belong to no one
          at,       \* what each slot points to
          ref,      \* page->ref
          content,  \* what a process has left in a frame, given back or not
          vmas,     \* the areas in mm->mmap_list
          state,    \* of each process
          op,       \* the operation the kernel is in
          disk,     \* the swap area: one entry for each virtual page
          fifo,     \* pra_list_head, oldest page first, with its pra_vaddr
          check,    \* check_mm_struct # NULL: the boot checks run, swapping works
          stopped   \* the kernel has panicked

vars == <<free, at, ref, content, vmas, state, op, disk, fifo, check, stopped>>
swapVars == <<disk, fifo>>

Frames  == 0 .. NPage - 1
None    == -1   \* a null pointer, an entry that is 0
Swapped == -2   \* an entry that names a place in the swap area
\* The frames in play: check_swap has put the free list aside.
Managed == IF check THEN 0 .. CheckFrames ELSE Frames
Tables  == {TableOf[v] : v \in VPages}
Areas   == {AreaOf[v] : v \in VPages}

Kstack(p, i) == <<"kstack", p, i>>
Dir(p)       == <<"dir", p, 0>>
Pde(p, t)    == <<"table", p, t>>
Pte(p, v)    == <<"page", p, v>>
Held         == <<"held", First, 0>>
KstackSlots  == {Kstack(p, i) : p \in Procs, i \in {0, 1}}
PdeSlots     == {Pde(p, t) : p \in Procs, t \in Tables}
PteSlots     == {Pte(p, v) : p \in Procs, v \in VPages}
Slots        == KstackSlots \cup {Dir(p) : p \in Procs} \cup PdeSlots \cup PteSlots \cup {Held}

Present(p, v) == at[Pte(p, v)] \in Frames
Idle == [kind |-> "idle", proc |-> First, child |-> First, todo |-> {}]
Busy(kind, p, c, todo) == [kind |-> kind, proc |-> p, child |-> c, todo |-> todo]

\* The address space the operation builds.
Builds == IF op.kind = "fork" THEN op.child ELSE op.proc

(***************************************************************************)
(* The order in which dup_mmap (areas from the last to the first) and      *)
(* load_icode (TEXT, DATA and BSS upwards, then the stack downwards) go    *)
(* through the pages.                                                      *)
(***************************************************************************)
DupBefore(v, w) == \/ AreaOf[v] > AreaOf[w]
                   \/ AreaOf[v] = AreaOf[w] /\ v <= w
LoadBefore(v, w) == \/ AreaOf[v] < AreaOf[w]
                    \/ /\ AreaOf[v] = AreaOf[w]
                       /\ IF AreaOf[v] = StackArea THEN v >= w ELSE v <= w
Following(v) == /\ v \in op.todo
                /\ \A w \in op.todo : IF op.kind = "load" THEN LoadBefore(v, w)
                                                          ELSE DupBefore(v, w)

-----------------------------------------------------------------------------
\* The kernel runs user_main, which has a kernel stack and no mm.
InitUser ==
    /\ check = FALSE
    /\ at = [s \in Slots |-> IF s = Kstack(First, 0) THEN 0
                            ELSE IF s = Kstack(First, 1) THEN 1 ELSE None]
    /\ free = Frames \ {0, 1}
    /\ ref = [f \in Frames |-> 0]
    /\ vmas = [p \in Procs |-> {}]
    /\ state = [p \in Procs |-> IF p = First THEN "kernel" ELSE "unused"]

\* check_swap: the address space of idleproc, with boot_pgdir, one area and
\* its page table; a free list of a few frames stands in for the real one.
InitCheck ==
    /\ check = TRUE
    /\ \E t \in Tables :
          /\ \A v \in VPages : AreaOf[v] = CheckArea => TableOf[v] = t
          /\ at = [s \in Slots |-> IF s = Pde(First, t) THEN 0 ELSE None]
    /\ free = 1 .. CheckFrames
    /\ ref = [f \in Frames |-> IF f = 0 THEN 1 ELSE 0]
    /\ vmas = [p \in Procs |-> IF p = First THEN {CheckArea} ELSE {}]
    /\ state = [p \in Procs |-> IF p = First THEN "user" ELSE "unused"]

Init ==
    /\ InitUser \/ InitCheck
    /\ content = [f \in Frames |-> FileValue]
    /\ op = Idle
    /\ disk = [v \in VPages |-> FileValue]
    /\ fifo = <<>>
    /\ stopped = FALSE

-----------------------------------------------------------------------------
(* Taking and giving back frames. *)

Point(s, f)  == at' = [at EXCEPT ![s] = f]
Take(s, f)   == f \in free /\ free' = free \ {f} /\ Point(s, f)
\* Variant for the mutation runs: the page is never given back.
DropLate(f) == /\ ref' = [ref EXCEPT ![f] = @ - 1]
               /\ free' = IF ref[f] = 0 THEN free \cup {f} ELSE free

\* page_remove_pte on a present entry: the last reference frees the page.
Drop(f) == /\ ref' = [ref EXCEPT ![f] = @ - 1]
           /\ free' = IF ref[f] = 1 THEN free \cup {f} ELSE free

(***************************************************************************)
(* do_fork: setup_kstack wants two frames in a row and fails without them, *)
(* which ends the call; a kernel thread has nothing to copy.               *)
(***************************************************************************)
Fork(p, c) ==
    /\ op = Idle /\ ~check /\ ~stopped
    /\ state[p] \in {"user", "kernel"} /\ state[c] = "unused"
    /\ \E f \in free :
          /\ f + 1 \in free
          /\ free' = free \ {f, f + 1}
          /\ at' = [at EXCEPT ![Kstack(c, 0)] = f, ![Kstack(c, 1)] = f + 1]
    /\ IF state[p] = "kernel"
         THEN state' = [state EXCEPT ![c] = "kernel"] /\ UNCHANGED <<op, vmas>>
         ELSE /\ op' = Busy("fork", p, c, {v \in VPages : Present(p, v)})
              /\ vmas' = [vmas EXCEPT ![c] = vmas[p]]
              /\ UNCHANGED state
    /\ UNCHANGED <<ref, content, swapVars, check, stopped>>

\* setup_pgdir, called by copy_mm and by load_icode.
SetupPgdir ==
    /\ op.kind \in {"fork", "load"} /\ ~stopped
    /\ at[Dir(Builds)] = None
    /\ \E f \in free : Take(Dir(Builds), f)
    /\ UNCHANGED <<ref, content, vmas, state, op, swapVars, check, stopped>>

\* get_pte(..., create): a page table for the next page.  copy_range and
\* do_pgfault ask for it before the page, pgdir_alloc_page after it.
NeedsTable(v) ==
    /\ Following(v)
    /\ at[Pde(Builds, TableOf[v])] = None
    /\ \/ op.kind = "fork" /\ at[Dir(Builds)] # None
       \/ op.kind = "load" /\ at[Held] # None
       \/ op.kind = "fault"
GetPte(v) ==
    /\ ~stopped /\ NeedsTable(v)
    /\ \E f \in free :
          /\ Take(Pde(Builds, TableOf[v]), f)
          /\ ref' = [ref EXCEPT ![f] = 1]
    /\ UNCHANGED <<content, vmas, state, op, swapVars, check, stopped>>

\* The step of copy_range, load_icode or do_pgfault that asks for the page.
NeedsPage(v) ==
    /\ Following(v)
    /\ \/ op.kind \in {"fork", "fault"} /\ at[Pde(Builds, TableOf[v])] # None
       \/ op.kind = "load" /\ at[Dir(Builds)] # None /\ at[Held] = None

Copied(from, to) == [content EXCEPT ![to] = content[from]]
\* copy_range: the child gets a frame of its own with the same content.
CopyPage(v) ==
    /\ op.kind = "fork" /\ ~stopped /\ NeedsPage(v)
    /\ \E f \in free :
          /\ Take(Pte(op.child, v), f)
          /\ ref' = [ref EXCEPT ![f] = 1]
          /\ content' = Copied(at[Pte(op.proc, v)], f)
    /\ op' = [op EXCEPT !.todo = @ \ {v}]
    /\ UNCHANGED <<vmas, state, swapVars, check, stopped>>

ForkDone ==
    /\ op.kind = "fork" /\ op.todo = {} /\ at[Dir(op.child)] # None /\ ~stopped
    /\ state' = [state EXCEPT ![op.child] = "user"]
    /\ op' = Idle
    /\ UNCHANGED <<free, at, ref, content, vmas, swapVars, check, stopped>>

-----------------------------------------------------------------------------
(***************************************************************************)
(* do_execve, once it has opened the file; do_exit, which is also where an *)
(* execve ends that cannot open it.                                        *)
(***************************************************************************)
Execve(p) ==
    /\ op = Idle /\ ~check /\ ~stopped
    /\ \/ state[p] = "user" /\ op' = Busy("unmap_exec", p, p, {})
       \/ state[p] = "kernel" /\ op' = Busy("load", p, p, Eager)
    /\ UNCHANGED <<free, at, ref, content, vmas, state, swapVars, check, stopped>>

Exit(p) ==
    /\ op = Idle /\ ~check /\ ~stopped
    /\ \/ state[p] = "user" /\ op' = Busy("unmap_exit", p, p, {}) /\ UNCHANGED state
       \/ state[p] = "kernel" /\ state' = [state EXCEPT ![p] = "zombie"] /\ UNCHANGED op
    /\ UNCHANGED <<free, at, ref, content, vmas, swapVars, check, stopped>>

\* exit_mmap first unmaps the pages of the areas, in order ...
Unmapping == op.kind \in {"unmap_exec", "unmap_exit"} /\ ~stopped
Mapped == {v \in VPages : AreaOf[v] \in vmas[op.proc] /\ Present(op.proc, v)}
UnmapPage(v) ==
    /\ Unmapping
    /\ v \in Mapped /\ \A w \in Mapped : v <= w
    /\ Drop(at[Pte(op.proc, v)])
    /\ Point(Pte(op.proc, v), None)
    /\ UNCHANGED <<content, vmas, state, op, swapVars, check, stopped>>

\* Variant for the mutation runs: no exit_range.
NoTables == {}

\* ... then frees the page tables under them (exit_range) ...
TablesLeft == {t \in {TableOf[v] : v \in {w \in VPages : AreaOf[w] \in vmas[op.proc]}} :
                  at[Pde(op.proc, t)] # None}
ExitRange(t) ==
    /\ Unmapping
    /\ Mapped = {}
    /\ t \in TablesLeft /\ \A u \in TablesLeft : t <= u
    /\ free' = free \cup {at[Pde(op.proc, t)]}
    /\ ref' = [ref EXCEPT ![at[Pde(op.proc, t)]] = 0]
    /\ Point(Pde(op.proc, t), None)
    /\ UNCHANGED <<content, vmas, state, op, swapVars, check, stopped>>

\* ... and put_pgdir and mm_destroy follow; execve goes on with load_icode,
\* do_exit leaves a zombie.
PutPgdir ==
    /\ Unmapping
    /\ Mapped = {} /\ TablesLeft = {}
    /\ free' = free \cup {at[Dir(op.proc)]}
    /\ Point(Dir(op.proc), None)
    /\ vmas' = [vmas EXCEPT ![op.proc] = {}]
    /\ IF op.kind = "unmap_exec"
         THEN op' = Busy("load", op.proc, op.proc, Eager) /\ UNCHANGED state
         ELSE op' = Idle /\ state' = [state EXCEPT ![op.proc] = "zombie"]
    /\ UNCHANGED <<ref, content, swapVars, check, stopped>>

\* do_wait gives back the kernel stack of a zombie.
Reap(z) ==
    /\ op = Idle /\ ~stopped
    /\ state[z] = "zombie"
    /\ free' = free \cup {at[Kstack(z, 0)], at[Kstack(z, 1)]}
    /\ at' = [at EXCEPT ![Kstack(z, 0)] = None, ![Kstack(z, 1)] = None]
    /\ state' = [state EXCEPT ![z] = "unused"]
    /\ UNCHANGED <<ref, content, vmas, op, swapVars, check, stopped>>

-----------------------------------------------------------------------------
\* load_icode: mm_map has entered the area, pgdir_alloc_page takes a page ...
LoadPage(v) ==
    /\ op.kind = "load" /\ ~stopped /\ NeedsPage(v)
    /\ \E f \in free : Take(Held, f)
    /\ vmas' = [vmas EXCEPT ![op.proc] = @ \cup {AreaOf[v]}]
    /\ UNCHANGED <<ref, content, state, op, swapVars, check, stopped>>

\* Variant for the mutation runs: neither load_icode_read nor memset.
NeverFilled(v) == Values

(***************************************************************************)
(* TEXT and DATA are read from the file and BSS is cleared; nothing clears *)
(* the pages of the stack.  What a frame brings along is the data of the   *)
(* process that had it last, or what the kernel kept there as a table or a *)
(* stack, which is not followed: so it is any value.                       *)
(***************************************************************************)
FromFile == {v \in Eager : AreaOf[v] # StackArea}
Filled(v) == IF v \in FromFile THEN {FileValue} ELSE Values

\* ... and page_insert maps it; then it is filled, unless it is a stack page.
LoadInsert(v) ==
    /\ op.kind = "load" /\ ~stopped /\ Following(v)
    /\ at[Held] # None /\ at[Pde(op.proc, TableOf[v])] # None
    /\ at' = [at EXCEPT ![Held] = None, ![Pte(op.proc, v)] = at[Held]]
    /\ ref' = [ref EXCEPT ![at[Held]] = 1]
    /\ \E x \in Filled(v) : content' = [content EXCEPT ![at[Held]] = x]
    /\ op' = [op EXCEPT !.todo = @ \ {v}]
    /\ UNCHANGED <<free, vmas, state, swapVars, check, stopped>>

LoadDone ==
    /\ op.kind = "load" /\ op.todo = {} /\ at[Held] = None /\ ~stopped
    /\ at[Dir(op.proc)] # None
    /\ state' = [state EXCEPT ![op.proc] = "user"]
    /\ op' = Idle
    /\ UNCHANGED <<free, at, ref, content, vmas, swapVars, check, stopped>>

\* The file is no program, cannot be read, or its next area (the stack is the
\* last) begins inside another: load_icode gives everything back and do_execve
\* exits.
LoadFails ==
    /\ op.kind = "load" /\ at[Held] = None /\ ~stopped
    /\ at[Dir(op.proc)] # None
    /\ \E v \in op.todo : Following(v) /\ (AreaOf[v] = StackArea => StackArea \notin vmas[op.proc])
    /\ op' = Busy("unmap_exit", op.proc, op.proc, {})
    /\ UNCHANGED <<free, at, ref, content, vmas, state, swapVars, check, stopped>>

\* The next area begins outside the others and reaches into one of them:
\* mm_map lets it pass and the assertions of check_vma_overlap stop the kernel.
LoadStops ==
    /\ op.kind = "load" /\ at[Dir(op.proc)] # None /\ ~stopped
    /\ vmas[op.proc] # {}
    /\ \E v \in op.todo : Following(v) /\ AreaOf[v] \notin vmas[op.proc]
    /\ stopped' = TRUE
    /\ UNCHANGED <<free, at, ref, content, vmas, state, op, swapVars, check>>

-----------------------------------------------------------------------------
(* The process touches its memory. *)

Write(p, v, x) ==
    /\ op = Idle /\ ~stopped
    /\ state[p] = "user" /\ Present(p, v)
    /\ content' = [content EXCEPT ![at[Pte(p, v)]] = x]
    /\ UNCHANGED <<free, at, ref, vmas, state, op, swapVars, check, stopped>>

\* An access to a page of an area that is not mapped traps to do_pgfault.
Touch(p, v) ==
    /\ op = Idle /\ ~stopped
    /\ state[p] = "user" /\ AreaOf[v] \in vmas[p] /\ ~Present(p, v)
    /\ op' = Busy("fault", p, p, {v})
    /\ UNCHANGED <<free, at, ref, content, vmas, state, swapVars, check, stopped>>

\* do_pgfault on an empty entry: nothing clears the page.  It can be swapped
\* out only during the boot checks.
FaultFresh(v) ==
    /\ op.kind = "fault" /\ ~stopped /\ NeedsPage(v)
    /\ at[Pte(op.proc, v)] = None
    /\ \E f \in free, x \in Values :
          /\ Take(Pte(op.proc, v), f)
          /\ ref' = [ref EXCEPT ![f] = 1]
          /\ content' = [content EXCEPT ![f] = x]
          /\ fifo' = IF check THEN Append(fifo, [page |-> f, vaddr |-> v]) ELSE fifo
    /\ op' = Idle
    /\ UNCHANGED <<vmas, state, disk, check, stopped>>

\* do_pgfault on a swap entry: swap_in, page_insert, swap_map_swappable.
SwapIn(v) ==
    /\ op.kind = "fault" /\ ~stopped /\ NeedsPage(v)
    /\ at[Pte(op.proc, v)] = Swapped
    /\ \E f \in free :
          /\ Take(Pte(op.proc, v), f)
          /\ ref' = [ref EXCEPT ![f] = 1]
          /\ content' = [content EXCEPT ![f] = disk[v]]
          /\ fifo' = Append(fifo, [page |-> f, vaddr |-> v])
    /\ op' = Idle
    /\ UNCHANGED <<vmas, state, disk, check, stopped>>

-----------------------------------------------------------------------------
\* alloc_pages(1) with no free page.
NeedsFrame == \/ op.kind \in {"fork", "load"} /\ at[Dir(Builds)] = None
              \/ \E v \in VPages : NeedsTable(v) \/ NeedsPage(v)

\* Variant for the mutation runs: the newest page is unlinked.
NewestUnlinked == SubSeq(fifo, 1, Len(fifo) - 1)

\* _fifo_swap_out_victim unlinks the oldest page.
OldestUnlinked == Tail(fifo)

\* swap_out(check_mm_struct): the oldest page goes to the place of its
\* virtual address in the swap area, its entry names that place.
SwapOut ==
    /\ NeedsFrame /\ free = {} /\ check /\ ~stopped /\ fifo # <<>>
    /\ LET victim == Head(fifo) IN
          /\ disk' = [disk EXCEPT ![victim.vaddr] = content[victim.page]]
          /\ Point(Pte(First, victim.vaddr), Swapped)
          /\ free' = {victim.page}
          /\ ref' = [ref EXCEPT ![victim.page] = 0]
    /\ fifo' = OldestUnlinked
    /\ UNCHANGED <<content, vmas, state, op, check, stopped>>

\* Outside the boot checks swap_out is given the null check_mm_struct and
\* follows it; during them it finds no page to put out.
OutOfMemory ==
    /\ NeedsFrame /\ free = {} /\ ~stopped
    /\ ~check \/ fifo = <<>>
    /\ stopped' = TRUE
    /\ UNCHANGED <<free, at, ref, content, vmas, state, op, swapVars, check>>

KernelStep ==
    \/ SetupPgdir \/ ForkDone \/ PutPgdir \/ LoadDone \/ LoadFails \/ LoadStops
    \/ SwapOut \/ OutOfMemory
    \/ \E v \in VPages : \/ GetPte(v) \/ CopyPage(v) \/ UnmapPage(v)
                         \/ LoadPage(v) \/ LoadInsert(v)
                         \/ FaultFresh(v) \/ SwapIn(v)
    \/ \E t \in Tables : ExitRange(t)

Next ==
    \/ KernelStep
    \/ \E p \in Procs :
          \/ Execve(p) \/ Exit(p) \/ Reap(p)
          \/ \E c \in Procs : Fork(p, c)
          \/ \E v \in VPages : Touch(p, v) \/ \E x \in Values : Write(p, v, x)

Spec == Init /\ [][Next]_vars
-----------------------------------------------------------------------------
(* Properties. *)

OpKinds == {"idle", "fork", "unmap_exec", "unmap_exit", "load", "fault"}
TypeOK ==
    /\ free \subseteq Frames
    /\ at \in [Slots -> Frames \cup {None, Swapped}]
    /\ ref \in [Frames -> Nat]
    /\ content \in [Frames -> Values]
    /\ vmas \in [Procs -> SUBSET Areas]
    /\ state \in [Procs -> {"unused", "kernel", "user", "zombie"}]
    /\ op \in [kind : OpKinds, proc : Procs, child : Procs, todo : SUBSET VPages]
    /\ disk \in [VPages -> Values]
    /\ fifo \in Seq([page : Frames, vaddr : VPages])
    /\ check \in BOOLEAN /\ stopped \in BOOLEAN

Users(f) == {s \in Slots : at[s] = f}

(***************************************************************************)
(* A frame is free exactly if nothing points to it, and never two things   *)
(* do; the reference count of a mapped page and of a page table is 1, and  *)
(* only theirs.  So fork, execve and exit, where they fail too, lose no    *)
(* frame, and give none back that is in use.                               *)
(***************************************************************************)
PagesAccounted ==
    \A f \in Managed :
        /\ f \in free <=> Users(f) = {}
        /\ \A s, u \in Users(f) : s = u
        /\ ref[f] = 1 <=> \E s \in PdeSlots \cup PteSlots : at[s] = f

(***************************************************************************)
(* What a process no longer has is gone: an unused process slot points to  *)
(* nothing, a zombie and a thread of the kernel keep their stack only, and *)
(* an idle kernel holds nothing back.                                      *)
(***************************************************************************)
NothingLeftBehind ==
    op = Idle =>
        /\ at[Held] = None
        /\ \A p \in Procs :
              /\ state[p] # "user" =>
                    /\ vmas[p] = {} /\ at[Dir(p)] = None
                    /\ \A t \in Tables : at[Pde(p, t)] = None
                    /\ \A v \in VPages : at[Pte(p, v)] = None
              /\ state[p] = "unused" => \A i \in {0, 1} : at[Kstack(p, i)] = None

(***************************************************************************)
(* The queue of swappable pages holds every mapped page of check_mm_struct *)
(* once, under the address it is mapped at, and it is empty in the running *)
(* system: swap_out never meets an entry that is not present.              *)
(***************************************************************************)
SwappableMapped ==
    /\ \A i \in 1..Len(fifo) : at[Pte(First, fifo[i].vaddr)] = fifo[i].page
    /\ \A i, j \in 1..Len(fifo) : fifo[i].vaddr = fifo[j].vaddr => i = j
    /\ check => \A v \in VPages : Present(First, v) => \E i \in 1..Len(fifo) : fifo[i].vaddr = v
    /\ ~check => fifo = <<>>

(***************************************************************************)
(* Whatever happens to frames, each process has memory of its own.         *)
(***************************************************************************)
Alive(p) == state[p] = "user"
            /\ ~(op.kind \in {"unmap_exec", "unmap_exit", "load"} /\ op.proc = p)
Unset == None
Contents(p) == [v \in VPages |-> IF ~Alive(p) \/ at[Pte(p, v)] = None THEN Unset
                                 ELSE IF at[Pte(p, v)] = Swapped THEN disk[v]
                                 ELSE content[at[Pte(p, v)]]]
AS == INSTANCE AddressSpaces WITH threads <- {p \in Procs : state[p] # "unused"},
                                  alive   <- {p \in Procs : Alive(p)},
                                  mem     <- [p \in Procs |-> Contents(p)]
ImplementsAddressSpaces == AS!Spec
=============================================================================
