------------------------- MODULE MemoryProofs -------------------------
(***************************************************************************)
(* No frame is lost or given twice, whatever the processes do and wherever *)
(* memory runs out, for any number of frames, processes, pages and areas;  *)
(* and each process has memory of its own: VirtualMemory implements        *)
(* AddressSpaces.                                                          *)
(***************************************************************************)
EXTENDS Memory, FiniteSetTheorems, SequenceTheorems, TLAPS

-----------------------------------------------------------------------------
(* The inductive invariant. *)

\* Only entries of page tables, and only while swapping works, name places
\* in the swap area; frames that are not managed are not pointed to.
Points ==
    /\ free \subseteq Managed
    /\ \A s \in Slots : \/ at[s] \in Managed \cup {None}
                        \/ at[s] = Swapped /\ s \in PteSlots /\ check

\* PagesAccounted with each slot for itself.
Accounted ==
    /\ \A f \in Managed : f \in free <=> \A s \in Slots : at[s] # f
    /\ \A s, u \in Slots : at[s] = at[u] /\ at[s] \in Frames => s = u
    /\ \A f \in Managed : ref[f] = 1 <=> \E s \in PdeSlots \cup PteSlots : at[s] = f

\* The process has an address space, or one is being built or taken apart.
Dismantles == {"unmap_exec", "unmap_exit"}
HasSpace(p) ==
    \/ state[p] = "user"
    \/ op.kind \in Dismantles \cup {"load"} /\ op.proc = p
    \/ op.kind = "fork" /\ op.child = p

(***************************************************************************)
(* What lies where: page tables and pages lie in the areas of a process,   *)
(* so that exit_mmap, which goes by the areas, finds them all.             *)
(***************************************************************************)
Spaces ==
    /\ \A p \in Procs : ~HasSpace(p) => vmas[p] = {} /\ at[Dir(p)] = None
    /\ \A p \in Procs : state[p] = "user" /\ ~check /\ ~(op.kind = "load" /\ op.proc = p)
                           => at[Dir(p)] # None
    /\ \A p \in Procs, v \in VPages : at[Pte(p, v)] # None => AreaOf[v] \in vmas[p]
    /\ \A p \in Procs, t \in Tables :
          at[Pde(p, t)] # None => \E v \in VPages : TableOf[v] = t /\ AreaOf[v] \in vmas[p]
    /\ \A p \in Procs, i \in {0, 1} :
          at[Kstack(p, i)] # None <=>
              ~check /\ (state[p] # "unused" \/ (op.kind = "fork" /\ op.child = p))

(***************************************************************************)
(* What the call in progress has established, so that each of its steps    *)
(* fills an empty slot or empties a full one.                              *)
(***************************************************************************)
Calls ==
    /\ check => /\ op.kind \in {"idle", "fault"} /\ op.proc = First
                /\ \A p \in Procs : state[p] = IF p = First THEN "user" ELSE "unused"
    /\ op.kind = "fork" =>
          /\ state[op.proc] = "user" /\ state[op.child] = "unused"
          /\ vmas[op.child] = vmas[op.proc]
          /\ \A v \in op.todo : Present(op.proc, v) /\ at[Pte(op.child, v)] = None
    /\ op.kind \in Dismantles => state[op.proc] \in {"user", "kernel"} /\ at[Dir(op.proc)] # None
    /\ op.kind = "load" => /\ state[op.proc] \in {"user", "kernel"}
                           /\ \A v \in op.todo : at[Pte(op.proc, v)] = None
    /\ op.kind = "fault" => /\ state[op.proc] = "user"
                            /\ \A v \in op.todo : AreaOf[v] \in vmas[op.proc]
    /\ at[Held] # None => /\ op.kind = "load"
                          /\ \A v \in VPages : Following(v) => AreaOf[v] \in vmas[op.proc]

IInv == TypeOK /\ Points /\ Accounted /\ Spaces /\ Calls /\ SwappableMapped

(***************************************************************************)
(* What the refinement needs of the contents: a fork has copied, and       *)
(* load_icode has mapped and filled, what is not left to do.               *)
(***************************************************************************)
Copying ==
    op.kind = "fork" => \A v \in VPages \ op.todo :
        IF Present(op.proc, v)
          THEN /\ Present(op.child, v)
               /\ content[at[Pte(op.child, v)]] = content[at[Pte(op.proc, v)]]
          ELSE at[Pte(op.child, v)] = None
Loading ==
    op.kind = "load" =>
        /\ op.todo \subseteq Eager
        /\ \A v \in Eager \ op.todo : Present(op.proc, v)
        /\ \A v \in FromFile \ op.todo : content[at[Pte(op.proc, v)]] = FileValue
        /\ \A v \in VPages \ Eager : at[Pte(op.proc, v)] = None
CInv == Copying /\ Loading

-----------------------------------------------------------------------------
(* Slots, frames and the order of pages. *)

Tabled == PdeSlots \cup PteSlots

\* Every place of a pointer is a slot; page tables and pages are in Tabled.
LEMMA SlotFacts ==
    /\ \A p \in Procs, i \in {0, 1} : Kstack(p, i) \in Slots \ Tabled
    /\ \A p \in Procs : Dir(p) \in Slots \ Tabled
    /\ \A p \in Procs, t \in Tables : Pde(p, t) \in Slots /\ Pde(p, t) \in Tabled \ PteSlots
    /\ \A p \in Procs, v \in VPages : Pte(p, v) \in Slots /\ Pte(p, v) \in Tabled /\ Pte(p, v) \in PteSlots
    /\ Held \in Slots \ Tabled
    /\ Tabled \subseteq Slots /\ PteSlots \subseteq Tabled
    /\ \A v \in VPages : TableOf[v] \in Tables /\ AreaOf[v] \in Areas
    /\ First \in Procs
  BY VMAssumption DEF Slots, Tabled, KstackSlots, PdeSlots, PteSlots, Kstack, Dir, Pde, Pte, Held,
                      Tables, Areas

\* Two places are the same slot only when they are the same place.
LEMMA SlotsDiffer ==
    /\ \A p, q \in Procs, i, j \in {0, 1} : Kstack(p, i) = Kstack(q, j) <=> p = q /\ i = j
    /\ \A p, q \in Procs : Dir(p) = Dir(q) <=> p = q
    /\ \A p, q \in Procs, t, u \in Tables : Pde(p, t) = Pde(q, u) <=> p = q /\ t = u
    /\ \A p, q \in Procs, v, w \in VPages : Pte(p, v) = Pte(q, w) <=> p = q /\ v = w
    /\ \A p, q \in Procs, i \in {0, 1} : Kstack(p, i) # Dir(q) /\ Kstack(p, i) # Held
    /\ \A p \in Procs : Dir(p) # Held
    /\ \A p, q \in Procs, t \in Tables, i \in {0, 1} :
          Pde(p, t) # Kstack(q, i) /\ Pde(p, t) # Dir(q) /\ Pde(p, t) # Held
    /\ \A p, q \in Procs, v \in VPages, i \in {0, 1} :
          Pte(p, v) # Kstack(q, i) /\ Pte(p, v) # Dir(q) /\ Pte(p, v) # Held
    /\ \A p, q \in Procs, v \in VPages, t \in Tables : Pte(p, v) # Pde(q, t)
  BY DEF Kstack, Dir, Pde, Pte, Held

\* None and Swapped are no frames.
LEMMA FrameFacts ==
    /\ None \notin Frames /\ Swapped \notin Frames /\ None # Swapped
    /\ Managed \subseteq Frames /\ (~check => Managed = Frames)
    /\ 0 \in Frames /\ 1 \in Frames
  BY VMAssumption DEF None, Swapped, Frames, Managed

\* There is one page to be done next.
LEMMA FollowingUnique ==
    ASSUME NEW v \in VPages, NEW w \in VPages, Following(v), Following(w)
    PROVE  v = w
<1>. v \in Nat /\ w \in Nat /\ AreaOf[v] \in Nat /\ AreaOf[w] \in Nat
  BY VMAssumption
<1>. QED BY DEF Following, LoadBefore, DupBefore

\* What the calls other than a page fault rely on.
LEMMA NotBooting ==
    ASSUME Calls, op.kind \notin {"idle", "fault"}
    PROVE  ~check
  BY DEF Calls

-----------------------------------------------------------------------------
(* Frames change hands. *)

\* A free frame goes to an empty slot; page tables and pages are counted.
LEMMA TakeAccounted ==
    ASSUME TypeOK, Points, Accounted, NEW s \in Slots, NEW f \in free, at[s] \notin Frames,
           at' = [at EXCEPT ![s] = f], free' = free \ {f}, check' = check,
           \/ s \in Tabled /\ ref' = [ref EXCEPT ![f] = 1]
           \/ s \notin Tabled /\ ref' = ref
    PROVE  Points' /\ Accounted'
<1>. /\ f \in Managed /\ Managed' = Managed /\ f \in Frames
  BY FrameFacts DEF Points, Managed
<1>1. \A u \in Slots : at[u] # f
  BY DEF Accounted
<1>2. \A u \in Slots : at'[u] = IF u = s THEN f ELSE at[u]
  BY DEF TypeOK
<1>3. Points'
  BY <1>2 DEF Points
<1>4. \A g \in Managed : g \in free' <=> \A u \in Slots : at'[u] # g
  BY <1>1, <1>2, FrameFacts DEF Accounted
<1>5. \A u, w \in Slots : at'[u] = at'[w] /\ at'[u] \in Frames => u = w
  BY <1>1, <1>2 DEF Accounted
<1>6. ASSUME NEW g \in Managed
      PROVE  ref'[g] = 1 <=> \E u \in Tabled : at'[u] = g
  <2>1. Tabled \subseteq Slots
    BY SlotFacts
  <2>2. g \in Frames
    BY FrameFacts
  <2>3. ref[g] = 1 <=> \E u \in Tabled : at[u] = g
    BY DEF Accounted, Tabled
  <2>4. CASE g = f
    BY <1>1, <1>2, <2>1, <2>2, <2>3, <2>4 DEF TypeOK
  <2>5. CASE g # f
    <3>1. ref'[g] = ref[g]
      BY <2>2, <2>5 DEF TypeOK
    <3>2. \A u \in Tabled : at'[u] = g <=> at[u] = g
      BY <1>2, <2>1, <2>2, <2>5
    <3>. QED BY <3>1, <3>2, <2>3
  <2>. QED BY <2>4, <2>5
<1>. QED BY <1>3, <1>4, <1>5, <1>6 DEF Accounted, Tabled

\* The frame of a slot becomes free.
LEMMA GiveAccounted ==
    ASSUME TypeOK, Points, Accounted, NEW s \in Slots, at[s] \in Frames,
           NEW x, x = None \/ (x = Swapped /\ s \in PteSlots /\ check),
           at' = [at EXCEPT ![s] = x], free' = free \cup {at[s]}, check' = check,
           \/ s \in Tabled /\ ref' = [ref EXCEPT ![at[s]] = 0]
           \/ s \notin Tabled /\ ref' = ref
    PROVE  Points' /\ Accounted'
<1>. DEFINE f == at[s]
<1>. /\ f \in Managed /\ Managed' = Managed /\ f \in Frames
  BY FrameFacts DEF Points, Managed
<1>1. \A u \in Slots : at[u] = f => u = s
  BY DEF Accounted
<1>2. \A u \in Slots : at'[u] = IF u = s THEN x ELSE at[u]
  BY DEF TypeOK
<1>x. x \notin Frames
  BY FrameFacts
<1>3. Points'
  BY <1>2, FrameFacts DEF Points
<1>4. \A g \in Managed : g \in free' <=> \A u \in Slots : at'[u] # g
  BY <1>1, <1>2, <1>x, FrameFacts DEF Accounted
<1>5. \A u, w \in Slots : at'[u] = at'[w] /\ at'[u] \in Frames => u = w
  BY <1>1, <1>2, <1>x DEF Accounted
<1>6. ASSUME NEW g \in Managed
      PROVE  ref'[g] = 1 <=> \E u \in Tabled : at'[u] = g
  <2>1. Tabled \subseteq Slots
    BY SlotFacts
  <2>2. g \in Frames
    BY FrameFacts
  <2>3. ref[g] = 1 <=> \E u \in Tabled : at[u] = g
    BY DEF Accounted, Tabled
  <2>4. CASE g = f
    <3>1. \A u \in Tabled : at'[u] # g
      BY <1>1, <1>2, <1>x, <2>1, <2>2, <2>4
    <3>2. ref'[g] # 1
      BY <1>1, <2>1, <2>2, <2>3, <2>4 DEF TypeOK
    <3>. QED BY <3>1, <3>2
  <2>5. CASE g # f
    <3>1. ref'[g] = ref[g]
      BY <2>2, <2>5 DEF TypeOK
    <3>2. \A u \in Tabled : at'[u] = g <=> at[u] = g
      BY <1>2, <1>x, <2>1, <2>2, <2>5
    <3>. QED BY <3>1, <3>2, <2>3
  <2>. QED BY <2>4, <2>5
<1>. QED BY <1>3, <1>4, <1>5, <1>6 DEF Accounted, Tabled

\* No frame changes hands.
LEMMA KeepAccounted ==
    ASSUME IInv, UNCHANGED <<free, at, ref, fifo, check>>
    PROVE  Points' /\ Accounted' /\ SwappableMapped'
<1>1. Managed' = Managed
  BY DEF Managed
<1>2. Points'
  BY <1>1 DEF IInv, Points
<1>3. Accounted'
  BY <1>1 DEF IInv, Accounted
<1>4. SwappableMapped'
  BY DEF IInv, SwappableMapped, Present
<1>. QED BY <1>2, <1>3, <1>4

\* Outside the boot checks the queue stays empty.
LEMMA KeepQueue ==
    ASSUME IInv, ~check, UNCHANGED <<fifo, check>>
    PROVE  SwappableMapped'
<1>1. fifo = <<>>
  BY DEF IInv, SwappableMapped
<1>. QED BY <1>1 DEF SwappableMapped

\* An entry of the queue is a frame with a virtual page.
LEMMA QueueEntries ==
    ASSUME TypeOK, NEW i \in 1 .. Len(fifo)
    PROVE  fifo[i] \in [page : Frames, vaddr : VPages]
<1>. fifo \in Seq([page : Frames, vaddr : VPages])
  BY DEF TypeOK
<1>. QED BY ElementOfSeq

\* The queue and the pages of First stay as they are.
LEMMA SameQueue ==
    ASSUME IInv, UNCHANGED <<fifo, check>>, \A v \in VPages : at'[Pte(First, v)] = at[Pte(First, v)]
    PROVE  SwappableMapped'
<1>1. \A i \in 1 .. Len(fifo) : fifo[i].vaddr \in VPages
  BY QueueEntries DEF IInv
<1>. QED BY <1>1 DEF IInv, SwappableMapped, Present

-----------------------------------------------------------------------------
(* The calls that only begin or end something. *)

\* The process of a call under way is a process, and so is the child of a fork.
LEMMA OpFacts ==
    ASSUME TypeOK
    PROVE  /\ op.kind \in OpKinds /\ op.proc \in Procs /\ op.child \in Procs /\ op.todo \subseteq VPages
           /\ op = Idle => op.kind = "idle"
           /\ Builds \in Procs
           /\ Builds = IF op.kind = "fork" THEN op.child ELSE op.proc
  BY DEF TypeOK, Idle, Builds

\* Execve keeps the invariant.
LEMMA ExecveKeeps == ASSUME IInv, NEW p \in Procs, Execve(p) PROVE IInv'
<1>. /\ op.kind = "idle" /\ ~check
     /\ op'.proc = p /\ op'.child = p /\ op'.kind \in {"unmap_exec", "load"}
     /\ op' \in [kind : OpKinds, proc : Procs, child : Procs, todo : SUBSET VPages]
     /\ state[p] = "user" <=> op'.kind = "unmap_exec"
     /\ state[p] \in {"user", "kernel"}
     /\ UNCHANGED <<free, at, ref, content, vmas, state, swapVars, check, stopped>>
  BY VMAssumption, OpFacts DEF IInv, Execve, Busy, OpKinds
<1>1. TypeOK'
  BY DEF IInv, TypeOK, swapVars
<1>2. Points' /\ Accounted' /\ SwappableMapped'
  BY KeepAccounted DEF swapVars
<1>3. Spaces'
  BY DEF IInv, Spaces, HasSpace, Dismantles
<1>4. Calls'
  <2>1. CASE state[p] = "user"
    BY <2>1 DEF IInv, Calls, Spaces, Dismantles
  <2>2. CASE state[p] = "kernel"
    <3>1. vmas[p] = {}
      BY <2>2 DEF IInv, Spaces, HasSpace, Dismantles
    <3>2. \A v \in VPages : at[Pte(p, v)] = None
      BY <3>1 DEF IInv, Spaces
    <3>3. op'.todo \subseteq VPages
      OBVIOUS
    <3>4. op'.kind = "load"
      BY <2>2
    <3>. QED BY <2>2, <3>2, <3>3, <3>4 DEF IInv, Calls, Dismantles
  <2>. QED BY <2>1, <2>2
<1>. QED BY <1>1, <1>2, <1>3, <1>4 DEF IInv

\* Exit keeps the invariant.
LEMMA ExitKeeps == ASSUME IInv, NEW p \in Procs, Exit(p) PROVE IInv'
<1>. /\ op.kind = "idle" /\ ~check
     /\ UNCHANGED <<free, at, ref, content, vmas, swapVars, check, stopped>>
  BY OpFacts DEF IInv, Exit
<1>2. Points' /\ Accounted' /\ SwappableMapped'
  BY KeepAccounted DEF swapVars
<1>3. CASE state[p] = "user"
  <2>. /\ op'.kind = "unmap_exit" /\ op'.proc = p /\ state' = state
       /\ op' \in [kind : OpKinds, proc : Procs, child : Procs, todo : SUBSET VPages]
    BY <1>3 DEF Exit, Busy, OpKinds
  <2>1. TypeOK'
    BY DEF IInv, TypeOK, swapVars
  <2>2. Spaces'
    BY <1>3 DEF IInv, Spaces, HasSpace, Dismantles
  <2>3. Calls'
    BY <1>3 DEF IInv, Calls, Spaces, Dismantles
  <2>. QED BY <1>2, <2>1, <2>2, <2>3 DEF IInv
<1>4. CASE state[p] = "kernel"
  <2>. op' = op /\ state' = [state EXCEPT ![p] = "zombie"]
    BY <1>4 DEF Exit
  <2>1. TypeOK'
    BY DEF IInv, TypeOK, swapVars
  <2>2. Spaces'
    BY <1>4 DEF IInv, TypeOK, Spaces, HasSpace, Dismantles
  <2>3. Calls'
    BY DEF IInv, Calls, Dismantles
  <2>. QED BY <1>2, <2>1, <2>2, <2>3 DEF IInv
<1>. QED BY <1>3, <1>4 DEF Exit

\* ForkDone keeps the invariant.
LEMMA ForkDoneKeeps == ASSUME IInv, ForkDone PROVE IInv'
<1>. /\ op.kind = "fork" /\ at[Dir(op.child)] # None
     /\ state' = [state EXCEPT ![op.child] = "user"]
     /\ op'.kind = "idle" /\ op' \in [kind : OpKinds, proc : Procs, child : Procs, todo : SUBSET VPages]
     /\ UNCHANGED <<free, at, ref, content, vmas, swapVars, check, stopped>>
     /\ op.proc \in Procs /\ op.child \in Procs
  BY VMAssumption, OpFacts DEF ForkDone, Idle, OpKinds, IInv
<1>. ~check
  BY NotBooting DEF IInv
<1>1. TypeOK'
  BY DEF IInv, TypeOK, swapVars
<1>2. Points' /\ Accounted' /\ SwappableMapped'
  BY KeepAccounted DEF swapVars
<1>3. Spaces'
  BY DEF IInv, TypeOK, Spaces, HasSpace, Dismantles
<1>4. Calls'
  BY DEF IInv, Calls, Dismantles
<1>. QED BY <1>1, <1>2, <1>3, <1>4 DEF IInv

\* LoadDone keeps the invariant.
LEMMA LoadDoneKeeps == ASSUME IInv, LoadDone PROVE IInv'
<1>. /\ op.kind = "load" /\ at[Held] = None /\ at[Dir(op.proc)] # None
     /\ state' = [state EXCEPT ![op.proc] = "user"]
     /\ op'.kind = "idle" /\ op' \in [kind : OpKinds, proc : Procs, child : Procs, todo : SUBSET VPages]
     /\ UNCHANGED <<free, at, ref, content, vmas, swapVars, check, stopped>>
     /\ op.proc \in Procs
  BY VMAssumption, OpFacts DEF LoadDone, Idle, OpKinds, IInv
<1>. ~check
  BY NotBooting DEF IInv
<1>1. TypeOK'
  BY DEF IInv, TypeOK, swapVars
<1>2. Points' /\ Accounted' /\ SwappableMapped'
  BY KeepAccounted DEF swapVars
<1>3. Spaces'
  <2>. state[op.proc] # "unused"
    BY DEF IInv, Calls
  <2>. QED BY DEF IInv, TypeOK, Spaces, HasSpace, Dismantles
<1>4. Calls'
  BY DEF IInv, Calls, Dismantles
<1>. QED BY <1>1, <1>2, <1>3, <1>4 DEF IInv

\* LoadFails keeps the invariant.
LEMMA LoadFailsKeeps == ASSUME IInv, LoadFails PROVE IInv'
<1>. /\ op.kind = "load" /\ at[Held] = None /\ at[Dir(op.proc)] # None
     /\ op'.kind = "unmap_exit" /\ op'.proc = op.proc
     /\ op' \in [kind : OpKinds, proc : Procs, child : Procs, todo : SUBSET VPages]
     /\ UNCHANGED <<free, at, ref, content, vmas, state, swapVars, check, stopped>>
     /\ op.proc \in Procs
  BY VMAssumption, OpFacts DEF LoadFails, Busy, OpKinds, IInv
<1>. ~check
  BY NotBooting DEF IInv
<1>1. TypeOK'
  BY DEF IInv, TypeOK, swapVars
<1>2. Points' /\ Accounted' /\ SwappableMapped'
  BY KeepAccounted DEF swapVars
<1>3. Spaces'
  BY DEF IInv, Spaces, HasSpace, Dismantles
<1>4. Calls'
  BY DEF IInv, Calls, Dismantles
<1>. QED BY <1>1, <1>2, <1>3, <1>4 DEF IInv

\* Write keeps the invariant.
LEMMA WriteKeeps ==
    ASSUME IInv, NEW p \in Procs, NEW v \in VPages, NEW x \in Values, Write(p, v, x)
    PROVE  IInv'
<1>. /\ content' = [content EXCEPT ![at[Pte(p, v)]] = x]
     /\ UNCHANGED <<free, at, ref, vmas, state, op, swapVars, check, stopped>>
  BY DEF Write
<1>1. TypeOK'
  BY DEF IInv, TypeOK, swapVars
<1>2. Points' /\ Accounted' /\ SwappableMapped'
  BY KeepAccounted DEF swapVars
<1>3. Spaces'
  BY DEF IInv, Spaces, HasSpace
<1>4. Calls'
  BY DEF IInv, Calls, Present, Following
<1>. QED BY <1>1, <1>2, <1>3, <1>4 DEF IInv

\* Touch keeps the invariant.
LEMMA TouchKeeps == ASSUME IInv, NEW p \in Procs, NEW v \in VPages, Touch(p, v) PROVE IInv'
<1>. /\ op.kind = "idle" /\ state[p] = "user" /\ AreaOf[v] \in vmas[p]
     /\ op'.kind = "fault" /\ op'.proc = p /\ op'.todo = {v}
     /\ op' \in [kind : OpKinds, proc : Procs, child : Procs, todo : SUBSET VPages]
     /\ UNCHANGED <<free, at, ref, content, vmas, state, swapVars, check, stopped>>
  BY OpFacts DEF Touch, Busy, OpKinds, IInv
<1>1. TypeOK'
  BY DEF IInv, TypeOK, swapVars
<1>2. Points' /\ Accounted' /\ SwappableMapped'
  BY KeepAccounted DEF swapVars
<1>3. Spaces'
  BY DEF IInv, Spaces, HasSpace, Dismantles
<1>4. Calls'
  BY DEF IInv, Calls, Dismantles
<1>. QED BY <1>1, <1>2, <1>3, <1>4 DEF IInv

\* A stop keeps the invariant.
LEMMA StopKeeps == ASSUME IInv, OutOfMemory \/ LoadStops PROVE IInv'
<1>. /\ stopped' = TRUE
     /\ UNCHANGED <<free, at, ref, content, vmas, state, op, swapVars, check>>
  BY DEF OutOfMemory, LoadStops
<1>1. TypeOK'
  BY DEF IInv, TypeOK, swapVars
<1>2. Points' /\ Accounted' /\ SwappableMapped'
  BY KeepAccounted DEF swapVars
<1>3. Spaces'
  BY DEF IInv, Spaces, HasSpace
<1>4. Calls'
  BY DEF IInv, Calls, Present, Following
<1>. QED BY <1>1, <1>2, <1>3, <1>4 DEF IInv

-----------------------------------------------------------------------------
(* The calls that take frames. *)

\* SetupPgdir keeps the invariant.
LEMMA SetupPgdirKeeps == ASSUME IInv, SetupPgdir PROVE IInv'
<1>. PICK f \in free : free' = free \ {f} /\ at' = [at EXCEPT ![Dir(Builds)] = f]
  BY DEF SetupPgdir, Take, Point
<1>. /\ op.kind \in {"fork", "load"} /\ at[Dir(Builds)] = None
     /\ UNCHANGED <<ref, content, vmas, state, op, swapVars, check, stopped>>
  BY DEF SetupPgdir
<1>. DEFINE b == Builds
<1>. ~check /\ b \in Procs /\ f \in Frames
  BY NotBooting, OpFacts, FrameFacts DEF IInv, Points
<1>1. \A s \in Slots : at'[s] = IF s = Dir(b) THEN f ELSE at[s]
  BY DEF IInv, TypeOK
<1>2. TypeOK'
  BY SlotFacts DEF IInv, TypeOK, swapVars
<1>3. Points' /\ Accounted'
  BY TakeAccounted, SlotFacts, FrameFacts DEF IInv
<1>4. SwappableMapped'
  BY KeepQueue DEF swapVars
<1>5. Spaces'
  <2>1. HasSpace(b)
    BY OpFacts DEF IInv, HasSpace
  <2>. QED BY <1>1, <2>1, SlotFacts, SlotsDiffer, FrameFacts DEF IInv, Spaces, HasSpace
<1>6. Calls'
  <2>1. op.proc \in Procs /\ op.child \in Procs /\ op.todo \subseteq VPages
    BY OpFacts DEF IInv
  <2>2. \A q \in Procs, v \in VPages : at'[Pte(q, v)] = at[Pte(q, v)]
    BY <1>1, SlotFacts, SlotsDiffer
  <2>3. at'[Held] = at[Held]
    BY <1>1, SlotFacts, SlotsDiffer
  <2>4. op.kind \notin Dismantles
    BY DEF Dismantles
  <2>. QED BY <2>1, <2>2, <2>3, <2>4 DEF IInv, Calls, Present, Following
<1>. QED BY <1>2, <1>3, <1>4, <1>5, <1>6 DEF IInv

\* GetPte keeps the invariant.
LEMMA GetPteKeeps == ASSUME IInv, NEW v \in VPages, GetPte(v) PROVE IInv'
<1>. DEFINE b == Builds
            s == Pde(b, TableOf[v])
<1>. PICK f \in free : free' = free \ {f} /\ at' = [at EXCEPT ![s] = f] /\ ref' = [ref EXCEPT ![f] = 1]
  BY DEF GetPte, Take, Point
<1>. /\ at[s] = None /\ Following(v)
     /\ \/ op.kind = "fork"
        \/ op.kind = "load" /\ at[Held] # None
        \/ op.kind = "fault"
     /\ UNCHANGED <<content, vmas, state, op, swapVars, check, stopped>>
  BY DEF GetPte, NeedsTable
<1>. b \in Procs /\ f \in Frames /\ s \in Slots /\ s \in Tabled \ PteSlots /\ TableOf[v] \in Tables
  BY OpFacts, FrameFacts, SlotFacts DEF IInv, Points
<1>. op.proc \in Procs /\ op.child \in Procs /\ op.todo \subseteq VPages /\ v \in op.todo
  BY OpFacts DEF IInv, Following
<1>1. \A u \in Slots : at'[u] = IF u = s THEN f ELSE at[u]
  BY DEF IInv, TypeOK
<1>2. TypeOK'
  BY DEF IInv, TypeOK, swapVars
<1>3. Points' /\ Accounted'
  BY TakeAccounted, FrameFacts DEF IInv
<1>4. \A q \in Procs, w \in VPages : at'[Pte(q, w)] = at[Pte(q, w)]
  BY <1>1, SlotFacts, SlotsDiffer
<1>5. SwappableMapped'
  BY <1>4, SlotFacts, SameQueue DEF swapVars
<1>6. AreaOf[v] \in vmas[b]
  BY OpFacts DEF IInv, Calls, Spaces, Present, None, Frames
<1>7. Spaces'
  BY <1>1, <1>4, <1>6, SlotFacts, SlotsDiffer DEF IInv, Spaces, HasSpace
<1>8. Calls'
  <2>1. at'[Held] = at[Held] /\ \A q \in Procs : at'[Dir(q)] = at[Dir(q)]
    BY <1>1, SlotFacts, SlotsDiffer
  <2>. QED BY <1>4, <2>1 DEF IInv, Calls, Present, Following
<1>. QED BY <1>2, <1>3, <1>5, <1>7, <1>8 DEF IInv

\* CopyPage keeps the invariant.
LEMMA CopyPageKeeps == ASSUME IInv, NEW v \in VPages, CopyPage(v) PROVE IInv'
<1>. DEFINE c == op.child
            s == Pte(c, v)
<1>. PICK f \in free : /\ free' = free \ {f} /\ at' = [at EXCEPT ![s] = f] /\ ref' = [ref EXCEPT ![f] = 1]
                       /\ content' = [content EXCEPT ![f] = content[at[Pte(op.proc, v)]]]
  BY DEF CopyPage, Take, Point, Copied
<1>. /\ op.kind = "fork" /\ op' = [op EXCEPT !.todo = @ \ {v}] /\ v \in op.todo
     /\ UNCHANGED <<vmas, state, swapVars, check, stopped>>
  BY DEF CopyPage, NeedsPage, Following
<1>. /\ op.proc \in Procs /\ c \in Procs /\ op.todo \subseteq VPages
     /\ op'.kind = "fork" /\ op'.proc = op.proc /\ op'.child = c /\ op'.todo = op.todo \ {v}
     /\ op' \in [kind : OpKinds, proc : Procs, child : Procs, todo : SUBSET VPages]
  BY OpFacts DEF IInv, TypeOK
<1>. ~check /\ f \in Frames /\ s \in Slots /\ s \in Tabled /\ s \in PteSlots
  BY NotBooting, FrameFacts, SlotFacts DEF IInv, Points
<1>. /\ at[Pte(op.proc, v)] \in Frames /\ at[s] = None /\ c # op.proc
     /\ vmas[c] = vmas[op.proc] /\ AreaOf[v] \in vmas[c]
  BY FrameFacts DEF IInv, Calls, Spaces, Present
<1>1. \A u \in Slots : at'[u] = IF u = s THEN f ELSE at[u]
  BY DEF IInv, TypeOK
<1>2. TypeOK'
  BY DEF IInv, TypeOK, swapVars
<1>3. Points' /\ Accounted'
  BY TakeAccounted, FrameFacts DEF IInv
<1>4. SwappableMapped'
  BY KeepQueue DEF swapVars
<1>5. Spaces'
  BY <1>1, SlotFacts, SlotsDiffer DEF IInv, Spaces, HasSpace, Dismantles
<1>6. Calls'
  <2>1. at'[Held] = at[Held]
    BY <1>1, SlotFacts, SlotsDiffer
  <2>2. \A w \in op'.todo : at'[Pte(op.proc, w)] = at[Pte(op.proc, w)] /\ at'[Pte(c, w)] = at[Pte(c, w)]
    BY <1>1, SlotFacts, SlotsDiffer
  <2>. QED BY <2>1, <2>2 DEF IInv, Calls, Present, Dismantles
<1>. QED BY <1>2, <1>3, <1>4, <1>5, <1>6 DEF IInv

\* LoadPage keeps the invariant.
LEMMA LoadPageKeeps == ASSUME IInv, NEW v \in VPages, LoadPage(v) PROVE IInv'
<1>. DEFINE p == op.proc
<1>. PICK f \in free : free' = free \ {f} /\ at' = [at EXCEPT ![Held] = f]
  BY DEF LoadPage, Take, Point
<1>. /\ op.kind = "load" /\ at[Dir(p)] # None /\ at[Held] = None /\ Following(v)
     /\ vmas' = [vmas EXCEPT ![p] = @ \cup {AreaOf[v]}]
     /\ UNCHANGED <<ref, content, state, op, swapVars, check, stopped>>
  BY DEF LoadPage, NeedsPage, Builds
<1>. p \in Procs /\ op.todo \subseteq VPages /\ AreaOf[v] \in Areas
  BY OpFacts, SlotFacts DEF IInv
<1>. ~check /\ f \in Frames /\ Held \in Slots \ Tabled
  BY NotBooting, FrameFacts, SlotFacts DEF IInv, Points
<1>1. \A u \in Slots : at'[u] = IF u = Held THEN f ELSE at[u]
  BY DEF IInv, TypeOK
<1>2. TypeOK'
  BY DEF IInv, TypeOK, swapVars
<1>3. Points' /\ Accounted'
  BY TakeAccounted, FrameFacts DEF IInv
<1>4. SwappableMapped'
  BY KeepQueue DEF swapVars
<1>v. \A q \in Procs : vmas[q] \subseteq vmas'[q] /\ (q # p => vmas'[q] = vmas[q])
  BY DEF IInv, TypeOK
<1>5. Spaces'
  BY <1>1, <1>v, SlotFacts, SlotsDiffer DEF IInv, Spaces, HasSpace
<1>6. Calls'
  <2>1. \A w \in op.todo : at'[Pte(p, w)] = at[Pte(p, w)]
    BY <1>1, SlotFacts, SlotsDiffer
  <2>2. \A w \in VPages : Following(w)' => AreaOf[w] \in vmas'[p]
    <3>1. \A w \in VPages : Following(w)' => Following(w)
      BY DEF Following
    <3>. QED BY <3>1, FollowingUnique DEF IInv, TypeOK
  <2>. QED BY <2>1, <2>2 DEF IInv, Calls, Dismantles
<1>. QED BY <1>2, <1>3, <1>4, <1>5, <1>6 DEF IInv

\* LoadInsert keeps the invariant.
LEMMA LoadInsertKeeps == ASSUME IInv, NEW v \in VPages, LoadInsert(v) PROVE IInv'
<1>. DEFINE p == op.proc
            f == at[Held]
            s == Pte(p, v)
<1>. /\ op.kind = "load" /\ f # None /\ Following(v) /\ v \in op.todo
     /\ ref' = [ref EXCEPT ![f] = 1]
     /\ op' = [op EXCEPT !.todo = @ \ {v}]
     /\ UNCHANGED <<free, vmas, state, swapVars, check, stopped>>
  BY DEF LoadInsert, Following
<1>. /\ p \in Procs /\ op.todo \subseteq VPages
     /\ op'.kind = "load" /\ op'.proc = p /\ op'.child = op.child /\ op'.todo = op.todo \ {v}
     /\ op' \in [kind : OpKinds, proc : Procs, child : Procs, todo : SUBSET VPages]
  BY OpFacts DEF IInv, TypeOK
<1>. ~check /\ s \in Slots /\ s \in Tabled /\ s \in PteSlots /\ Held \in Slots \ Tabled /\ s # Held
  BY NotBooting, FrameFacts, SlotFacts, SlotsDiffer DEF IInv
<1>. f \in Frames /\ f \in Managed /\ at[s] = None /\ AreaOf[v] \in vmas[p] /\ Managed' = Managed
  BY FrameFacts DEF IInv, Calls, Points, Managed
<1>e. at' = [at EXCEPT ![Held] = None, ![s] = f]
  BY DEF LoadInsert
<1>1. \A u \in Slots : at'[u] = IF u = s THEN f ELSE IF u = Held THEN None ELSE at[u]
  BY <1>e DEF IInv, TypeOK
<1>2. TypeOK'
  <2>1. PICK x \in Filled(v) : content' = [content EXCEPT ![f] = x]
    BY DEF LoadInsert
  <2>2. x \in Values
    BY VMAssumption DEF Filled
  <2>. QED BY <1>e, <2>1, <2>2 DEF IInv, TypeOK, swapVars
<1>3. Points'
  BY <1>1 DEF IInv, Points
<1>4. Accounted'
  <2>0. \A u \in Slots : at[u] = f => u = Held
    BY DEF IInv, Accounted
  <2>1. ASSUME NEW g \in Managed PROVE g \in free' <=> \A u \in Slots : at'[u] # g
    <3>1. g \in free <=> \A u \in Slots : at[u] # g
      BY DEF IInv, Accounted
    <3>2. CASE g = f
      BY <1>1, <3>1, <3>2
    <3>3. CASE g # f
      <4>1. \A u \in Slots : at'[u] = g <=> at[u] = g
        BY <1>1, <3>3, FrameFacts
      <4>. QED BY <3>1, <4>1
    <3>. QED BY <3>2, <3>3
  <2>2. \A u, w \in Slots : at'[u] = at'[w] /\ at'[u] \in Frames => u = w
    BY <1>1, <2>0, FrameFacts DEF IInv, Accounted
  <2>3. ASSUME NEW g \in Managed PROVE ref'[g] = 1 <=> \E u \in Tabled : at'[u] = g
    <3>1. Tabled \subseteq Slots /\ g \in Frames
      BY SlotFacts, FrameFacts
    <3>2. ref[g] = 1 <=> \E u \in Tabled : at[u] = g
      BY DEF IInv, Accounted, Tabled
    <3>3. CASE g = f
      BY <1>1, <3>1, <3>3 DEF IInv, TypeOK
    <3>4. CASE g # f
      <4>1. ref'[g] = ref[g]
        BY <3>1, <3>4 DEF IInv, TypeOK
      <4>2. \A u \in Tabled : at'[u] = g <=> at[u] = g
        BY <1>1, <3>1, <3>4, FrameFacts
      <4>. QED BY <4>1, <4>2, <3>2
    <3>. QED BY <3>3, <3>4
  <2>. QED BY <2>1, <2>2, <2>3 DEF Accounted, Tabled
<1>5. SwappableMapped'
  BY KeepQueue DEF swapVars
<1>d. /\ \A q \in Procs : at'[Dir(q)] = at[Dir(q)]
      /\ \A q \in Procs, u \in Tables : at'[Pde(q, u)] = at[Pde(q, u)]
      /\ \A q \in Procs, i \in {0, 1} : at'[Kstack(q, i)] = at[Kstack(q, i)]
      /\ \A q \in Procs, w \in VPages : q # p \/ w # v => at'[Pte(q, w)] = at[Pte(q, w)]
  <2>1. \A q \in Procs : Dir(q) \in Slots /\ Dir(q) # s /\ Dir(q) # Held
    BY SlotFacts, SlotsDiffer
  <2>2. \A q \in Procs, u \in Tables : Pde(q, u) \in Slots /\ Pde(q, u) # s /\ Pde(q, u) # Held
    BY SlotFacts, SlotsDiffer
  <2>3. \A q \in Procs, i \in {0, 1} : Kstack(q, i) \in Slots /\ Kstack(q, i) # s /\ Kstack(q, i) # Held
    BY SlotFacts, SlotsDiffer
  <2>4. \A q \in Procs, w \in VPages :
           Pte(q, w) \in Slots /\ Pte(q, w) # Held /\ (q # p \/ w # v => Pte(q, w) # s)
    BY SlotFacts, SlotsDiffer
  <2>. QED BY <1>1, <2>1, <2>2, <2>3, <2>4
<1>6. Spaces'
  BY <1>d DEF IInv, Spaces, HasSpace
<1>7. Calls'
  <2>1. \A w \in op'.todo : at'[Pte(p, w)] = at[Pte(p, w)]
    BY <1>d
  <2>2. at'[Held] = None
    BY <1>1
  <2>. QED BY <2>1, <2>2 DEF IInv, Calls, Dismantles
<1>. QED BY <1>2, <1>3, <1>4, <1>5, <1>6, <1>7 DEF IInv

\* Fork keeps the invariant.
LEMMA ForkKeeps == ASSUME IInv, NEW p \in Procs, NEW c \in Procs, Fork(p, c) PROVE IInv'
<1>p. PICK f \in free :
        /\ f + 1 \in free
        /\ free' = free \ {f, f + 1}
        /\ at' = [at EXCEPT ![Kstack(c, 0)] = f, ![Kstack(c, 1)] = f + 1]
  BY DEF Fork
<1>. f + 1 \in free /\ free' = free \ {f, f + 1}
  BY <1>p
<1>. /\ op.kind = "idle" /\ ~check /\ state[p] \in {"user", "kernel"} /\ state[c] = "unused" /\ p # c
     /\ UNCHANGED <<ref, content, swapVars, check, stopped>>
  BY OpFacts DEF Fork, IInv
<1>. /\ f \in Frames /\ f + 1 \in Frames /\ f # f + 1 /\ Managed = Frames /\ Managed' = Managed
  BY FrameFacts DEF IInv, Points, Frames, Managed
<1>. DEFINE s == Kstack(c, 0)
            t == Kstack(c, 1)
<1>. s \in Slots \ Tabled /\ t \in Slots \ Tabled /\ s # t /\ Tabled \subseteq Slots
  BY SlotFacts, SlotsDiffer
<1>. at[s] = None /\ at[t] = None
  BY DEF IInv, Spaces
<1>1. \A u \in Slots : at'[u] = IF u = s THEN f ELSE IF u = t THEN f + 1 ELSE at[u]
  BY <1>p DEF IInv, TypeOK
<1>2. \A u \in Slots : at[u] # f /\ at[u] # f + 1
  BY DEF IInv, Accounted
<1>3. Points'
  BY <1>1 DEF IInv, Points
<1>4. Accounted'
  <2>1. ASSUME NEW g \in Managed PROVE g \in free' <=> \A u \in Slots : at'[u] # g
    <3>1. g \in free <=> \A u \in Slots : at[u] # g
      BY DEF IInv, Accounted
    <3>2. CASE g \in {f, f + 1}
      BY <1>1, <3>2
    <3>3. CASE g \notin {f, f + 1}
      <4>1. \A u \in Slots : at'[u] = g <=> at[u] = g
        BY <1>1, <3>3, FrameFacts
      <4>. QED BY <3>1, <3>3, <4>1
    <3>. QED BY <3>2, <3>3
  <2>2. \A u, w \in Slots : at'[u] = at'[w] /\ at'[u] \in Frames => u = w
    BY <1>1, <1>2 DEF IInv, Accounted
  <2>3. ASSUME NEW g \in Managed PROVE ref'[g] = 1 <=> \E u \in Tabled : at'[u] = g
    <3>1. \A u \in Tabled : at'[u] = at[u]
      BY <1>1
    <3>2. ref[g] = 1 <=> \E u \in Tabled : at[u] = g
      BY DEF IInv, Accounted, Tabled
    <3>. QED BY <3>1, <3>2
  <2>. QED BY <2>1, <2>2, <2>3 DEF Accounted, Tabled
<1>5. SwappableMapped'
  BY KeepQueue DEF swapVars
<1>d. /\ at'[Held] = at[Held]
      /\ \A q \in Procs : at'[Dir(q)] = at[Dir(q)]
      /\ \A q \in Procs, u \in Tables : at'[Pde(q, u)] = at[Pde(q, u)]
      /\ \A q \in Procs, w \in VPages : at'[Pte(q, w)] = at[Pte(q, w)]
      /\ \A q \in Procs, i \in {0, 1} : at'[Kstack(q, i)] # None <=> at[Kstack(q, i)] # None \/ q = c
  <2>0. Held \in Slots /\ Held # s /\ Held # t
    BY SlotFacts, SlotsDiffer
  <2>1. \A q \in Procs : Dir(q) \in Slots /\ Dir(q) # s /\ Dir(q) # t
    BY SlotFacts, SlotsDiffer
  <2>2. \A q \in Procs, u \in Tables : Pde(q, u) \in Slots /\ Pde(q, u) # s /\ Pde(q, u) # t
    BY SlotFacts, SlotsDiffer
  <2>3. \A q \in Procs, w \in VPages : Pte(q, w) \in Slots /\ Pte(q, w) # s /\ Pte(q, w) # t
    BY SlotFacts, SlotsDiffer
  <2>4. \A q \in Procs, i \in {0, 1} : /\ Kstack(q, i) \in Slots
                                       /\ Kstack(q, i) = s \/ Kstack(q, i) = t <=> q = c
    BY SlotFacts, SlotsDiffer
  <2>. QED BY <1>1, <2>0, <2>1, <2>2, <2>3, <2>4, FrameFacts
<1>6. CASE state[p] = "kernel"
  <2>. state' = [state EXCEPT ![c] = "kernel"] /\ UNCHANGED <<op, vmas>>
    BY <1>6 DEF Fork
  <2>1. TypeOK'
    BY <1>p DEF IInv, TypeOK, swapVars
  <2>2. Spaces'
    <3>1. \A q \in Procs : state'[q] = IF q = c THEN "kernel" ELSE state[q]
      BY DEF IInv, TypeOK
    <3>2. \A q \in Procs : HasSpace(q)' <=> HasSpace(q)
      BY <3>1 DEF HasSpace, Dismantles
    <3>. QED BY <1>d, <3>1, <3>2 DEF IInv, Spaces
  <2>3. Calls'
    BY <1>d DEF IInv, Calls, Dismantles
  <2>. QED BY <1>3, <1>4, <1>5, <2>1, <2>2, <2>3 DEF IInv
<1>7. CASE state[p] = "user"
  <2>. /\ op' = Busy("fork", p, c, {v \in VPages : Present(p, v)})
       /\ vmas' = [vmas EXCEPT ![c] = vmas[p]] /\ state' = state
    BY <1>7 DEF Fork
  <2>. /\ op'.kind = "fork" /\ op'.proc = p /\ op'.child = c
       /\ op'.todo = {v \in VPages : Present(p, v)}
       /\ op' \in [kind : OpKinds, proc : Procs, child : Procs, todo : SUBSET VPages]
    BY DEF Busy, OpKinds
  <2>1. TypeOK'
    BY <1>p DEF IInv, TypeOK, swapVars
  <2>c. vmas[c] = {} /\ at[Dir(c)] = None
    BY DEF IInv, Spaces, HasSpace, Dismantles
  <2>2. Spaces'
    <3>1. \A q \in Procs : vmas'[q] = IF q = c THEN vmas[p] ELSE vmas[q]
      BY DEF IInv, TypeOK
    <3>2. \A q \in Procs : HasSpace(q)' <=> HasSpace(q) \/ q = c
      BY DEF HasSpace, Dismantles
    <3>3. \A v \in VPages : at[Pte(c, v)] = None
      BY <2>c DEF IInv, Spaces
    <3>4. \A u \in Tables : at[Pde(c, u)] = None
      BY <2>c DEF IInv, Spaces
    <3>5. \A q \in Procs : ~HasSpace(q)' => vmas'[q] = {} /\ at'[Dir(q)] = None
      BY <1>d, <3>1, <3>2 DEF IInv, Spaces
    <3>6. \A q \in Procs : state'[q] = "user" /\ ~check' => at'[Dir(q)] # None
      BY <1>d DEF IInv, Spaces
    <3>7. \A q \in Procs, v \in VPages : at'[Pte(q, v)] # None => AreaOf[v] \in vmas'[q]
      BY <1>d, <3>1, <3>3 DEF IInv, Spaces
    <3>8. \A q \in Procs, u \in Tables :
             at'[Pde(q, u)] # None => \E v \in VPages : TableOf[v] = u /\ AreaOf[v] \in vmas'[q]
      BY <1>d, <3>1, <3>4 DEF IInv, Spaces
    <3>9. \A q \in Procs, i \in {0, 1} :
             at'[Kstack(q, i)] # None <=> state'[q] # "unused" \/ (op'.kind = "fork" /\ op'.child = q)
      BY <1>d DEF IInv, Spaces
    <3>. QED BY <3>5, <3>6, <3>7, <3>8, <3>9 DEF Spaces
  <2>3. Calls'
    <3>3. \A v \in VPages : at[Pte(c, v)] = None
      BY <2>c DEF IInv, Spaces
    <3>4. vmas'[c] = vmas'[p]
      BY DEF IInv, TypeOK
    <3>5. \A v \in op'.todo : v \in VPages /\ at'[Pte(p, v)] \in Frames /\ at'[Pte(c, v)] = None
      BY <1>d, <3>3 DEF Present
    <3>6. at'[Held] = None
      BY <1>d DEF IInv, Calls
    <3>. QED BY <1>7, <3>4, <3>5, <3>6 DEF Calls, Dismantles, Present
  <2>. QED BY <1>3, <1>4, <1>5, <2>1, <2>2, <2>3 DEF IInv
<1>. QED BY <1>6, <1>7

-----------------------------------------------------------------------------
(* The calls that give frames back. *)

\* UnmapPage keeps the invariant.
LEMMA UnmapPageKeeps == ASSUME IInv, NEW v \in VPages, UnmapPage(v) PROVE IInv'
<1>. DEFINE p == op.proc
            s == Pte(p, v)
            f == at[s]
<1>. /\ op.kind \in Dismantles
     /\ f \in Frames
     /\ UNCHANGED <<content, vmas, state, op, swapVars, check, stopped>>
  BY DEF UnmapPage, Unmapping, Mapped, Present, Dismantles
<1>e. /\ at' = [at EXCEPT ![s] = None] /\ ref' = [ref EXCEPT ![f] = @ - 1]
      /\ free' = IF ref[f] = 1 THEN free \cup {f} ELSE free
  BY DEF UnmapPage, Drop, Point
<1>. p \in Procs /\ op.child \in Procs
  BY OpFacts DEF IInv
<1>. ~check /\ s \in Slots /\ s \in Tabled /\ s \in PteSlots
  BY NotBooting, SlotFacts DEF IInv, Dismantles
<1>1. ref[f] = 1
  BY FrameFacts DEF IInv, Accounted, Tabled
<1>2. ref' = [ref EXCEPT ![f] = 0] /\ free' = free \cup {f}
  BY <1>1, <1>e
<1>3. \A u \in Slots : at'[u] = IF u = s THEN None ELSE at[u]
  BY <1>e DEF IInv, TypeOK
<1>4. TypeOK'
  BY <1>e, <1>2, VMAssumption DEF IInv, TypeOK, swapVars
<1>5. Points' /\ Accounted'
  BY <1>e, <1>2, GiveAccounted DEF IInv
<1>6. SwappableMapped'
  BY KeepQueue DEF swapVars
<1>7. Spaces'
  BY <1>3, SlotFacts, SlotsDiffer DEF IInv, Spaces, HasSpace
<1>8. Calls'
  <2>1. at'[Dir(p)] = at[Dir(p)] /\ at'[Held] = at[Held]
    BY <1>3, SlotFacts, SlotsDiffer
  <2>. QED BY <2>1 DEF IInv, Calls, Dismantles
<1>. QED BY <1>4, <1>5, <1>6, <1>7, <1>8 DEF IInv

\* ExitRange keeps the invariant.
LEMMA ExitRangeKeeps == ASSUME IInv, NEW t \in Tables, ExitRange(t) PROVE IInv'
<1>. DEFINE p == op.proc
            s == Pde(p, t)
<1>. /\ op.kind \in Dismantles
     /\ at[s] # None
     /\ free' = free \cup {at[s]}
     /\ UNCHANGED <<content, vmas, state, op, swapVars, check, stopped>>
  BY DEF ExitRange, Unmapping, TablesLeft, Dismantles
<1>e. at' = [at EXCEPT ![s] = None] /\ ref' = [ref EXCEPT ![at[s]] = 0]
  BY DEF ExitRange, Point
<1>. p \in Procs /\ op.child \in Procs
  BY OpFacts DEF IInv
<1>. ~check /\ s \in Slots /\ s \in Tabled /\ s \notin PteSlots
  BY NotBooting, SlotFacts DEF IInv, Dismantles
<1>. at[s] \in Frames
  BY FrameFacts DEF IInv, Points
<1>3. \A u \in Slots : at'[u] = IF u = s THEN None ELSE at[u]
  BY <1>e DEF IInv, TypeOK
<1>4. TypeOK'
  BY <1>e DEF IInv, TypeOK, swapVars
<1>5. Points' /\ Accounted'
  BY <1>e, GiveAccounted DEF IInv
<1>6. SwappableMapped'
  BY KeepQueue DEF swapVars
<1>7. Spaces'
  BY <1>3, SlotFacts, SlotsDiffer DEF IInv, Spaces, HasSpace
<1>8. Calls'
  <2>1. at'[Dir(p)] = at[Dir(p)] /\ at'[Held] = at[Held]
    BY <1>3, SlotFacts, SlotsDiffer
  <2>. QED BY <2>1 DEF IInv, Calls, Dismantles
<1>. QED BY <1>4, <1>5, <1>6, <1>7, <1>8 DEF IInv

\* When unmap_range and exit_range have found nothing any more, no page and
\* no page table is left.
LEMMA NothingMapped ==
    ASSUME IInv, ~check, op.kind \in Dismantles, Mapped = {}, TablesLeft = {}
    PROVE  /\ \A v \in VPages : at[Pte(op.proc, v)] = None
           /\ \A t \in Tables : at[Pde(op.proc, t)] = None
<1>. op.proc \in Procs
  BY OpFacts DEF IInv
<1>1. ASSUME NEW v \in VPages, at[Pte(op.proc, v)] # None PROVE FALSE
  <2>1. AreaOf[v] \in vmas[op.proc]
    BY <1>1 DEF IInv, Spaces
  <2>2. at[Pte(op.proc, v)] \in Frames
    BY <1>1, SlotFacts, FrameFacts DEF IInv, Points
  <2>. QED BY <2>1, <2>2 DEF Mapped, Present
<1>2. ASSUME NEW t \in Tables, at[Pde(op.proc, t)] # None PROVE FALSE
  <2>1. PICK v \in VPages : TableOf[v] = t /\ AreaOf[v] \in vmas[op.proc]
    BY <1>2 DEF IInv, Spaces
  <2>. QED BY <1>2, <2>1 DEF TablesLeft
<1>. QED BY <1>1, <1>2

\* PutPgdir keeps the invariant.
LEMMA PutPgdirKeeps == ASSUME IInv, PutPgdir PROVE IInv'
<1>. DEFINE p == op.proc
            s == Dir(p)
<1>. /\ op.kind \in Dismantles
     /\ Mapped = {} /\ TablesLeft = {}
     /\ free' = free \cup {at[s]}
     /\ UNCHANGED <<ref, content, swapVars, check, stopped>>
  BY DEF PutPgdir, Unmapping, Dismantles
<1>e. at' = [at EXCEPT ![s] = None] /\ vmas' = [vmas EXCEPT ![p] = {}]
  BY DEF PutPgdir, Point
<1>. p \in Procs /\ op.child \in Procs
  BY OpFacts DEF IInv
<1>. ~check /\ s \in Slots /\ s \notin Tabled /\ s \notin PteSlots
  BY NotBooting, SlotFacts DEF IInv, Dismantles
<1>. at[s] \in Frames /\ state[p] \in {"user", "kernel"}
  BY FrameFacts DEF IInv, Points, Calls
<1>k. \/ /\ op'.kind = "load" /\ op'.proc = p /\ op'.todo = Eager /\ state' = state
      \/ /\ op'.kind = "idle" /\ state' = [state EXCEPT ![p] = "zombie"]
  BY DEF PutPgdir, Busy, Idle
<1>o. op' \in [kind : OpKinds, proc : Procs, child : Procs, todo : SUBSET VPages]
  BY VMAssumption DEF PutPgdir, Busy, Idle, OpKinds
<1>1. \A u \in Slots : at'[u] = IF u = s THEN None ELSE at[u]
  BY <1>e DEF IInv, TypeOK
<1>2. \A q \in Procs : vmas'[q] = IF q = p THEN {} ELSE vmas[q]
  BY <1>e DEF IInv, TypeOK
<1>3. \A q \in Procs : state'[q] # state[q] => q = p /\ state'[q] = "zombie" /\ op'.kind = "idle"
  BY <1>k DEF IInv, TypeOK
<1>d. /\ at'[Held] = at[Held]
      /\ \A q \in Procs : at'[Dir(q)] = IF q = p THEN None ELSE at[Dir(q)]
      /\ \A q \in Procs, u \in Tables : at'[Pde(q, u)] = at[Pde(q, u)]
      /\ \A q \in Procs, w \in VPages : at'[Pte(q, w)] = at[Pte(q, w)]
      /\ \A q \in Procs, i \in {0, 1} : at'[Kstack(q, i)] = at[Kstack(q, i)]
  BY <1>1, SlotFacts, SlotsDiffer
<1>m. /\ \A v \in VPages : at[Pte(p, v)] = None
      /\ \A t \in Tables : at[Pde(p, t)] = None
  BY NothingMapped
<1>4. TypeOK'
  BY <1>e, <1>k, <1>o DEF IInv, TypeOK, swapVars
<1>5. Points' /\ Accounted'
  BY <1>e, GiveAccounted DEF IInv
<1>6. SwappableMapped'
  BY KeepQueue DEF swapVars
<1>7. Spaces'
  <2>1. \A q \in Procs : ~HasSpace(q)' => vmas'[q] = {} /\ at'[Dir(q)] = None
    BY <1>2, <1>3, <1>d DEF IInv, Spaces, HasSpace, Dismantles
  <2>2. \A q \in Procs : state'[q] = "user" /\ ~check' /\ ~(op'.kind = "load" /\ op'.proc = q)
                            => at'[Dir(q)] # None
    <3>1. op'.kind = "idle" => state'[p] = "zombie"
      BY <1>k DEF IInv, TypeOK
    <3>. QED BY <1>3, <1>d, <1>k, <3>1 DEF IInv, Spaces, Dismantles
  <2>3. \A q \in Procs, w \in VPages : at'[Pte(q, w)] # None => AreaOf[w] \in vmas'[q]
    BY <1>2, <1>d, <1>m DEF IInv, Spaces
  <2>4. \A q \in Procs, t \in Tables :
           at'[Pde(q, t)] # None => \E v \in VPages : TableOf[v] = t /\ AreaOf[v] \in vmas'[q]
    BY <1>2, <1>d, <1>m DEF IInv, Spaces
  <2>5. \A q \in Procs, i \in {0, 1} :
           at'[Kstack(q, i)] # None <=>
              ~check' /\ (state'[q] # "unused" \/ (op'.kind = "fork" /\ op'.child = q))
    BY <1>3, <1>d, <1>k DEF IInv, Spaces, Dismantles
  <2>. QED BY <2>1, <2>2, <2>3, <2>4, <2>5 DEF Spaces
<1>8. Calls'
  <2>1. at'[Held] = None
    BY <1>d DEF IInv, Calls, Dismantles
  <2>2. \A v \in Eager : at'[Pte(p, v)] = None
    BY <1>d, <1>m, VMAssumption
  <2>. QED BY <1>k, <2>1, <2>2 DEF IInv, Calls, Dismantles
<1>. QED BY <1>4, <1>5, <1>6, <1>7, <1>8 DEF IInv

\* Reap keeps the invariant.
LEMMA ReapKeeps == ASSUME IInv, NEW z \in Procs, Reap(z) PROVE IInv'
<1>. DEFINE s == Kstack(z, 0)
            t == Kstack(z, 1)
            f == at[s]
            g == at[t]
<1>. /\ op.kind = "idle" /\ state[z] = "zombie"
     /\ free' = free \cup {f, g}
     /\ UNCHANGED <<ref, content, vmas, op, swapVars, check, stopped>>
  BY OpFacts DEF IInv, Reap
<1>e. /\ at' = [at EXCEPT ![s] = None, ![t] = None]
      /\ state' = [state EXCEPT ![z] = "unused"]
  BY DEF Reap
<1>. ~check /\ Managed = Frames /\ Managed' = Managed
  BY FrameFacts DEF IInv, Calls, Managed
<1>. s \in Slots \ Tabled /\ t \in Slots \ Tabled /\ s # t /\ Tabled \subseteq Slots /\ PteSlots \subseteq Tabled
  BY SlotFacts, SlotsDiffer
<1>. f \in Frames /\ g \in Frames
  <2>1. f # None /\ g # None
    BY DEF IInv, Spaces
  <2>. QED BY <2>1 DEF IInv, Points
<1>1. \A u \in Slots : at'[u] = IF u = s \/ u = t THEN None ELSE at[u]
  BY <1>e DEF IInv, TypeOK
<1>2. \A q \in Procs : state'[q] = IF q = z THEN "unused" ELSE state[q]
  BY <1>e DEF IInv, TypeOK
<1>3. TypeOK'
  BY <1>e DEF IInv, TypeOK, swapVars
<1>4. Points'
  BY <1>1 DEF IInv, Points
<1>5. Accounted'
  <2>0. \A u \in Slots : (at[u] = f => u = s) /\ (at[u] = g => u = t)
    BY DEF IInv, Accounted
  <2>1. ASSUME NEW h \in Managed PROVE h \in free' <=> \A u \in Slots : at'[u] # h
    <3>1. h \in free <=> \A u \in Slots : at[u] # h
      BY DEF IInv, Accounted
    <3>2. CASE h \in {f, g}
      BY <1>1, <2>0, <3>2, FrameFacts
    <3>3. CASE h \notin {f, g}
      <4>1. \A u \in Slots : at'[u] = h <=> at[u] = h
        BY <1>1, <3>3, FrameFacts
      <4>. QED BY <3>1, <3>3, <4>1
    <3>. QED BY <3>2, <3>3
  <2>2. \A u, w \in Slots : at'[u] = at'[w] /\ at'[u] \in Frames => u = w
    BY <1>1, FrameFacts DEF IInv, Accounted
  <2>3. ASSUME NEW h \in Managed PROVE ref'[h] = 1 <=> \E u \in Tabled : at'[u] = h
    <3>1. \A u \in Tabled : at'[u] = at[u]
      BY <1>1
    <3>2. ref[h] = 1 <=> \E u \in Tabled : at[u] = h
      BY DEF IInv, Accounted, Tabled
    <3>. QED BY <3>1, <3>2
  <2>. QED BY <2>1, <2>2, <2>3 DEF Accounted, Tabled
<1>6. SwappableMapped'
  BY KeepQueue DEF swapVars
<1>d. /\ at'[Held] = at[Held]
      /\ \A q \in Procs : at'[Dir(q)] = at[Dir(q)]
      /\ \A q \in Procs, u \in Tables : at'[Pde(q, u)] = at[Pde(q, u)]
      /\ \A q \in Procs, w \in VPages : at'[Pte(q, w)] = at[Pte(q, w)]
      /\ \A q \in Procs, i \in {0, 1} : at'[Kstack(q, i)] = IF q = z THEN None ELSE at[Kstack(q, i)]
  <2>0. Held \in Slots /\ Held # s /\ Held # t
    BY SlotFacts, SlotsDiffer
  <2>1. \A q \in Procs : Dir(q) \in Slots /\ Dir(q) # s /\ Dir(q) # t
    BY SlotFacts, SlotsDiffer
  <2>2. \A q \in Procs, u \in Tables : Pde(q, u) \in Slots /\ Pde(q, u) # s /\ Pde(q, u) # t
    BY SlotFacts, SlotsDiffer
  <2>3. \A q \in Procs, w \in VPages : Pte(q, w) \in Slots /\ Pte(q, w) # s /\ Pte(q, w) # t
    BY SlotFacts, SlotsDiffer
  <2>4. \A q \in Procs, i \in {0, 1} : /\ Kstack(q, i) \in Slots
                                       /\ Kstack(q, i) = s \/ Kstack(q, i) = t <=> q = z
    BY SlotFacts, SlotsDiffer
  <2>. QED BY <1>1, <2>0, <2>1, <2>2, <2>3, <2>4
<1>7. Spaces'
  <2>1. \A q \in Procs : HasSpace(q)' <=> HasSpace(q)
    BY <1>2 DEF HasSpace, Dismantles
  <2>. QED BY <1>2, <1>d, <2>1 DEF IInv, Spaces
<1>8. Calls'
  BY <1>d DEF IInv, Calls, Dismantles
<1>. QED BY <1>3, <1>4, <1>5, <1>6, <1>7, <1>8 DEF IInv

-----------------------------------------------------------------------------
(* Page faults and swapping. *)

\* A page that was not mapped comes into the queue.
LEMMA AppendQueue ==
    ASSUME IInv, check, check', NEW v \in VPages, NEW f \in Frames,
           at[Pte(First, v)] \notin Frames, at'[Pte(First, v)] = f,
           \A w \in VPages \ {v} : at'[Pte(First, w)] = at[Pte(First, w)],
           fifo' = Append(fifo, [page |-> f, vaddr |-> v])
    PROVE  SwappableMapped'
<1>. DEFINE n == Len(fifo)
<1>1. fifo \in Seq([page : Frames, vaddr : VPages]) /\ n \in Nat
  BY DEF IInv, TypeOK
<1>2. \A i \in 1 .. n : fifo[i].vaddr \in VPages /\ fifo[i].page \in Frames
  BY QueueEntries DEF IInv
<1>3. \A i \in 1 .. n : fifo[i].vaddr # v
  BY <1>2 DEF IInv, SwappableMapped
<1>4. /\ Len(fifo') = n + 1
      /\ \A i \in 1 .. n : fifo'[i] = fifo[i]
      /\ fifo'[n + 1] = [page |-> f, vaddr |-> v]
  BY <1>1
<1>5. \A i \in 1 .. n + 1 : i = n + 1 \/ i \in 1 .. n
  BY <1>1
<1>6. \A i \in 1 .. Len(fifo') : at'[Pte(First, fifo'[i].vaddr)] = fifo'[i].page
  BY <1>2, <1>3, <1>4, <1>5 DEF IInv, SwappableMapped
<1>7. \A i, j \in 1 .. Len(fifo') : fifo'[i].vaddr = fifo'[j].vaddr => i = j
  BY <1>2, <1>3, <1>4, <1>5 DEF IInv, SwappableMapped
<1>8. ASSUME NEW w \in VPages, Present(First, w)'
      PROVE  \E i \in 1 .. Len(fifo') : fifo'[i].vaddr = w
  <2>1. CASE w = v
    BY <1>1, <1>4, <2>1
  <2>2. CASE w # v
    <3>1. PICK i \in 1 .. n : fifo[i].vaddr = w
      BY <1>8, <2>2 DEF IInv, SwappableMapped, Present
    <3>. QED BY <1>1, <1>4, <3>1
  <2>. QED BY <2>1, <2>2
<1>. QED BY <1>6, <1>7, <1>8 DEF SwappableMapped

\* The two ways in which do_pgfault maps a page.
LEMMA FaultKeeps ==
    ASSUME IInv, op.kind = "fault", NEW v \in VPages, NEW f \in free, Following(v),
           at[Pte(op.proc, v)] \notin Frames,
           free' = free \ {f}, at' = [at EXCEPT ![Pte(op.proc, v)] = f],
           ref' = [ref EXCEPT ![f] = 1],
           NEW x \in Values, content' = [content EXCEPT ![f] = x],
           fifo' = IF check THEN Append(fifo, [page |-> f, vaddr |-> v]) ELSE fifo,
           op' = Idle,
           UNCHANGED <<vmas, state, disk, check, stopped>>
    PROVE  IInv'
<1>. DEFINE p == op.proc
            s == Pte(p, v)
<1>. p \in Procs /\ f \in Frames /\ s \in Slots /\ s \in Tabled /\ s \in PteSlots
  BY OpFacts, FrameFacts, SlotFacts DEF IInv, Points
<1>. op'.kind = "idle" /\ op' \in [kind : OpKinds, proc : Procs, child : Procs, todo : SUBSET VPages]
  BY VMAssumption DEF Idle, OpKinds
<1>. state[p] = "user" /\ AreaOf[v] \in vmas[p]
  BY DEF IInv, Calls, Following
<1>1. \A u \in Slots : at'[u] = IF u = s THEN f ELSE at[u]
  BY DEF IInv, TypeOK
<1>2. TypeOK'
  <2>1. fifo \in Seq([page : Frames, vaddr : VPages])
    BY DEF IInv, TypeOK
  <2>2. [page |-> f, vaddr |-> v] \in [page : Frames, vaddr : VPages]
    OBVIOUS
  <2>3. Append(fifo, [page |-> f, vaddr |-> v]) \in Seq([page : Frames, vaddr : VPages])
    BY <2>1, <2>2
  <2>4. fifo' \in Seq([page : Frames, vaddr : VPages])
    BY <2>1, <2>3
  <2>. QED BY <2>4 DEF IInv, TypeOK
<1>3. Points' /\ Accounted'
  BY TakeAccounted DEF IInv
<1>4. SwappableMapped'
  <2>1. CASE ~check
    BY <2>1, KeepQueue
  <2>2. CASE check
    <3>1. p = First
      BY <2>2 DEF IInv, Calls
    <3>2. \A w \in VPages \ {v} : at'[Pte(First, w)] = at[Pte(First, w)]
      BY <1>1, <3>1, SlotFacts, SlotsDiffer
    <3>. QED BY <1>1, <2>2, <3>1, <3>2, AppendQueue
  <2>. QED BY <2>1, <2>2
<1>5. Spaces'
  <2>1. \A q \in Procs : HasSpace(q)' <=> HasSpace(q)
    BY DEF HasSpace, Dismantles
  <2>. QED BY <1>1, <2>1, SlotFacts, SlotsDiffer DEF IInv, Spaces
<1>6. Calls'
  <2>1. at'[Held] = None
    BY <1>1, SlotFacts, SlotsDiffer DEF IInv, Calls
  <2>2. check' => op'.proc = First
    BY DEF Idle
  <2>. QED BY <2>1, <2>2 DEF IInv, Calls, Dismantles
<1>. QED BY <1>2, <1>3, <1>4, <1>5, <1>6 DEF IInv

\* FaultFresh keeps the invariant.
LEMMA FaultFreshKeeps == ASSUME IInv, NEW v \in VPages, FaultFresh(v) PROVE IInv'
<1>1. PICK f \in free, x \in Values :
         /\ Take(Pte(op.proc, v), f)
         /\ ref' = [ref EXCEPT ![f] = 1]
         /\ content' = [content EXCEPT ![f] = x]
         /\ fifo' = IF check THEN Append(fifo, [page |-> f, vaddr |-> v]) ELSE fifo
  BY DEF FaultFresh
<1>. QED BY <1>1, FaultKeeps, FrameFacts DEF FaultFresh, NeedsPage, Take, Point

\* SwapIn keeps the invariant.
LEMMA SwapInKeeps == ASSUME IInv, NEW v \in VPages, SwapIn(v) PROVE IInv'
<1>1. PICK f \in free :
         /\ Take(Pte(op.proc, v), f)
         /\ ref' = [ref EXCEPT ![f] = 1]
         /\ content' = [content EXCEPT ![f] = disk[v]]
         /\ fifo' = Append(fifo, [page |-> f, vaddr |-> v])
  BY DEF SwapIn
<1>2. check
  BY OpFacts, SlotFacts, FrameFacts DEF IInv, Points, SwapIn
<1>3. disk[v] \in Values
  BY DEF IInv, TypeOK
<1>. QED BY <1>1, <1>2, <1>3, FaultKeeps, FrameFacts DEF SwapIn, NeedsPage, Take, Point

\* The oldest page leaves the queue and its entry.
LEMMA SwapOutKeeps == ASSUME IInv, SwapOut PROVE IInv'
<1>. DEFINE victim == Head(fifo)
            v == victim.vaddr
            f == victim.page
            s == Pte(First, v)
            n == Len(fifo)
<1>1. /\ free = {} /\ check /\ fifo # <<>>
      /\ disk' = [disk EXCEPT ![v] = content[f]]
      /\ at' = [at EXCEPT ![s] = Swapped]
      /\ free' = {f}
      /\ ref' = [ref EXCEPT ![f] = 0]
      /\ fifo' = Tail(fifo)
      /\ UNCHANGED <<content, vmas, state, op, check, stopped>>
  BY DEF SwapOut, OldestUnlinked, Point
<1>2. fifo \in Seq([page : Frames, vaddr : VPages]) /\ n \in Nat /\ 1 \in 1 .. n /\ victim = fifo[1]
  BY <1>1 DEF IInv, TypeOK
<1>3. victim \in [page : Frames, vaddr : VPages]
  BY <1>2, QueueEntries DEF IInv
<1>. v \in VPages /\ f \in Frames
  BY <1>3
<1>. s \in Slots /\ s \in Tabled /\ s \in PteSlots
  BY SlotFacts
<1>4. at[s] = f
  BY <1>2 DEF IInv, SwappableMapped
<1>5. \A u \in Slots : at'[u] = IF u = s THEN Swapped ELSE at[u]
  BY <1>1 DEF IInv, TypeOK
<1>6. TypeOK'
  <2>1. fifo' \in Seq([page : Frames, vaddr : VPages])
    BY <1>1, <1>2
  <2>2. content' \in [Frames -> Values] /\ disk' \in [VPages -> Values]
    BY <1>1, VMAssumption DEF IInv, TypeOK
  <2>. QED BY <1>1, <2>1, <2>2 DEF IInv, TypeOK
<1>7. Points' /\ Accounted'
  BY <1>1, <1>4, GiveAccounted DEF IInv
<1>8. SwappableMapped'
  <2>1. /\ Len(fifo') = n - 1
        /\ \A i \in 1 .. n - 1 : fifo'[i] = fifo[i + 1]
    BY <1>1, <1>2
  <2>2. \A i \in 1 .. n : fifo[i].vaddr \in VPages
    BY QueueEntries DEF IInv
  <2>3. \A i \in 1 .. n - 1 : i + 1 \in 1 .. n /\ i + 1 # 1
    BY <1>2
  <2>4. \A w \in VPages : at'[Pte(First, w)] = IF w = v THEN Swapped ELSE at[Pte(First, w)]
    BY <1>5, SlotFacts, SlotsDiffer
  <2>5. \A i \in 1 .. n : fifo[i].vaddr = v => i = 1
    BY <1>2 DEF IInv, SwappableMapped
  <2>6. \A i \in 1 .. n - 1 : at'[Pte(First, fifo'[i].vaddr)] = fifo'[i].page
    BY <2>1, <2>2, <2>3, <2>4, <2>5 DEF IInv, SwappableMapped
  <2>7. \A i, j \in 1 .. n - 1 : fifo'[i].vaddr = fifo'[j].vaddr => i = j
    <3>1. SUFFICES ASSUME NEW i \in 1 .. n - 1, NEW j \in 1 .. n - 1, fifo'[i].vaddr = fifo'[j].vaddr
                   PROVE  i = j
      OBVIOUS
    <3>2. i + 1 = j + 1
      BY <2>1, <2>3, <3>1 DEF IInv, SwappableMapped
    <3>. QED BY <3>2
  <2>8. ASSUME NEW w \in VPages, Present(First, w)'
        PROVE  \E i \in 1 .. n - 1 : fifo'[i].vaddr = w
    <3>1. w # v /\ at[Pte(First, w)] \in Frames
      BY <2>4, <2>8, FrameFacts DEF Present
    <3>2. PICK i \in 1 .. n : fifo[i].vaddr = w
      BY <1>1, <3>1 DEF IInv, SwappableMapped, Present
    <3>3. i # 1
      BY <1>2, <3>1, <3>2
    <3>4. i - 1 \in 1 .. n - 1 /\ (i - 1) + 1 = i
      BY <1>2, <3>3
    <3>. QED BY <2>1, <3>2, <3>4
  <2>. QED BY <1>1, <2>1, <2>6, <2>7, <2>8 DEF SwappableMapped
<1>9. Spaces'
  <2>1. AreaOf[v] \in vmas[First]
    BY <1>4, SlotFacts, FrameFacts DEF IInv, Spaces
  <2>2. \A q \in Procs : HasSpace(q)' <=> HasSpace(q)
    BY <1>1 DEF HasSpace
  <2>. QED BY <1>1, <1>5, <2>1, <2>2, SlotFacts, SlotsDiffer DEF IInv, Spaces
<1>10. Calls'
  <2>1. at'[Held] = at[Held]
    BY <1>5, SlotFacts, SlotsDiffer
  <2>2. op.kind \in {"idle", "fault"}
    BY <1>1 DEF IInv, Calls
  <2>3. at[Held] = None
    BY <2>2 DEF IInv, Calls
  <2>. QED BY <1>1, <2>1, <2>2, <2>3 DEF IInv, Calls, Dismantles
<1>. QED BY <1>6, <1>7, <1>8, <1>9, <1>10 DEF IInv

-----------------------------------------------------------------------------
(* The invariant. *)

\* Initially no call is under way and no user page is mapped.
LEMMA InitIdle ==
    ASSUME Init
    PROVE  /\ op.kind = "idle" /\ op.proc = First
           /\ op \in [kind : OpKinds, proc : Procs, child : Procs, todo : SUBSET VPages]
           /\ fifo = <<>> /\ fifo \in Seq([page : Frames, vaddr : VPages])
           /\ content = [f \in Frames |-> FileValue] /\ content \in [Frames -> Values]
           /\ disk \in [VPages -> Values] /\ stopped = FALSE
  BY VMAssumption DEF Init, Idle, OpKinds

\* The state after boot, with the first user process, satisfies the invariant.
LEMMA InitUserIInv == ASSUME Init, InitUser PROVE IInv
<1>. /\ check = FALSE
     /\ free = Frames \ {0, 1}
     /\ ref = [f \in Frames |-> 0]
     /\ vmas = [p \in Procs |-> {}]
     /\ state = [p \in Procs |-> IF p = First THEN "kernel" ELSE "unused"]
  BY DEF InitUser
<1>1. \A s \in Slots : at[s] = IF s = Kstack(First, 0) THEN 0
                               ELSE IF s = Kstack(First, 1) THEN 1 ELSE None
  BY DEF InitUser
<1>2. /\ \A p \in Procs, i \in {0, 1} :
            at[Kstack(p, i)] = IF p # First THEN None ELSE IF i = 0 THEN 0 ELSE 1
      /\ \A p \in Procs : at[Dir(p)] = None
      /\ \A p \in Procs, t \in Tables : at[Pde(p, t)] = None
      /\ \A p \in Procs, v \in VPages : at[Pte(p, v)] = None
      /\ at[Held] = None
  BY <1>1, SlotFacts, SlotsDiffer
<1>3. TypeOK
  <2>1. at \in [Slots -> Frames \cup {None, Swapped}]
    BY FrameFacts DEF InitUser
  <2>. QED BY <2>1, InitIdle DEF TypeOK
<1>4. Points
  BY <1>1, FrameFacts DEF Points
<1>5. Accounted
  <2>1. Kstack(First, 0) \in Slots /\ Kstack(First, 1) \in Slots /\ Kstack(First, 0) # Kstack(First, 1)
    BY SlotFacts, SlotsDiffer
  <2>2. \A f \in Managed : f \in free <=> \A s \in Slots : at[s] # f
    BY <1>1, <2>1, FrameFacts
  <2>3. \A s, u \in Slots : at[s] = at[u] /\ at[s] \in Frames => s = u
    BY <1>1, FrameFacts
  <2>4. \A s \in PdeSlots \cup PteSlots : at[s] = None
    BY <1>1, SlotFacts DEF Tabled
  <2>. QED BY <2>2, <2>3, <2>4, FrameFacts DEF Accounted
<1>6. Spaces
  BY <1>2, InitIdle, FrameFacts DEF Spaces, HasSpace, Dismantles
<1>7. Calls
  BY <1>2, InitIdle DEF Calls, Dismantles
<1>8. SwappableMapped
  BY InitIdle DEF SwappableMapped
<1>. QED BY <1>3, <1>4, <1>5, <1>6, <1>7, <1>8 DEF IInv

\* The state in which check_swap begins satisfies the invariant.
LEMMA InitCheckIInv == ASSUME Init, InitCheck PROVE IInv
<1>. /\ check = TRUE
     /\ free = 1 .. CheckFrames
     /\ ref = [f \in Frames |-> IF f = 0 THEN 1 ELSE 0]
     /\ vmas = [p \in Procs |-> IF p = First THEN {CheckArea} ELSE {}]
     /\ state = [p \in Procs |-> IF p = First THEN "user" ELSE "unused"]
  BY DEF InitCheck
<1>p. PICK t \in Tables :
         /\ \A v \in VPages : AreaOf[v] = CheckArea => TableOf[v] = t
         /\ at = [s \in Slots |-> IF s = Pde(First, t) THEN 0 ELSE None]
  BY DEF InitCheck
<1>. DEFINE b == Pde(First, t)
<1>. b \in Slots /\ b \in Tabled \ PteSlots
  BY SlotFacts
<1>. /\ 0 \in Managed /\ Managed = free \cup {0} /\ 0 \notin free /\ Managed \subseteq Frames
     /\ CheckArea \in Areas
  BY VMAssumption, FrameFacts DEF Managed, Areas
<1>1. \A s \in Slots : at[s] = IF s = b THEN 0 ELSE None
  BY <1>p
<1>2. /\ \A p \in Procs, i \in {0, 1} : at[Kstack(p, i)] = None
      /\ \A p \in Procs : at[Dir(p)] = None
      /\ \A p \in Procs, u \in Tables : at[Pde(p, u)] # None => p = First /\ u = t
      /\ \A p \in Procs, v \in VPages : at[Pte(p, v)] = None
      /\ at[Held] = None
  BY <1>1, SlotFacts, SlotsDiffer
<1>3. TypeOK
  <2>1. at \in [Slots -> Frames \cup {None, Swapped}]
    BY <1>p, FrameFacts
  <2>. QED BY <2>1, InitIdle DEF TypeOK
<1>4. Points
  BY <1>1 DEF Points
<1>5. Accounted
  <2>1. \A f \in Managed : f \in free <=> \A s \in Slots : at[s] # f
    BY <1>1, FrameFacts
  <2>2. \A s, u \in Slots : at[s] = at[u] /\ at[s] \in Frames => s = u
    BY <1>1, FrameFacts
  <2>3. \A f \in Managed : ref[f] = 1 <=> f = 0
    BY FrameFacts
  <2>4. \A f \in Managed : f = 0 <=> \E s \in Tabled : at[s] = f
    BY <1>1, SlotFacts, FrameFacts
  <2>. QED BY <2>1, <2>2, <2>3, <2>4 DEF Accounted, Tabled
<1>6. Spaces
  <2>1. PICK v \in VPages : AreaOf[v] = CheckArea
    BY VMAssumption
  <2>2. TableOf[v] = t /\ AreaOf[v] \in vmas[First]
    BY <1>p, <2>1, SlotFacts
  <2>. QED BY <1>2, <2>2, InitIdle DEF Spaces, HasSpace, Dismantles
<1>7. Calls
  BY <1>2, InitIdle DEF Calls, Dismantles
<1>8. SwappableMapped
  BY <1>2, InitIdle, SlotFacts, FrameFacts DEF SwappableMapped, Present
<1>. QED BY <1>3, <1>4, <1>5, <1>6, <1>7, <1>8 DEF IInv

\* Every initial state satisfies the invariant.
LEMMA InitIInv == Init => IInv
  BY InitUserIInv, InitCheckIInv DEF Init

\* A step that changes nothing keeps the invariant.
LEMMA StutterKeeps == ASSUME IInv, UNCHANGED vars PROVE IInv'
<1>. UNCHANGED <<free, at, ref, content, vmas, state, op, disk, fifo, check, stopped>>
  BY DEF vars
<1>1. TypeOK'
  BY DEF IInv, TypeOK
<1>2. Points' /\ Accounted' /\ SwappableMapped'
  BY KeepAccounted
<1>3. Spaces'
  BY DEF IInv, Spaces, HasSpace
<1>4. Calls'
  BY DEF IInv, Calls, Present, Following
<1>. QED BY <1>1, <1>2, <1>3, <1>4 DEF IInv

\* Every step keeps the invariant.
LEMMA NextIInv == IInv /\ [Next]_vars => IInv'
<1>. SUFFICES ASSUME IInv, [Next]_vars PROVE IInv'
  OBVIOUS
<1>1. CASE KernelStep
  BY <1>1, SetupPgdirKeeps, ForkDoneKeeps, PutPgdirKeeps, LoadDoneKeeps, LoadFailsKeeps, SwapOutKeeps,
     StopKeeps, GetPteKeeps, CopyPageKeeps, UnmapPageKeeps, LoadPageKeeps, LoadInsertKeeps,
     FaultFreshKeeps, SwapInKeeps, ExitRangeKeeps DEF KernelStep
<1>2. CASE \E p \in Procs :
              \/ Execve(p) \/ Exit(p) \/ Reap(p)
              \/ \E c \in Procs : Fork(p, c)
              \/ \E v \in VPages : Touch(p, v) \/ \E x \in Values : Write(p, v, x)
  BY <1>2, ExecveKeeps, ExitKeeps, ReapKeeps, ForkKeeps, TouchKeeps, WriteKeeps
<1>3. CASE UNCHANGED vars
  BY <1>3, StutterKeeps
<1>. QED BY <1>1, <1>2, <1>3 DEF Next

\* The invariant holds in every reachable state.
LEMMA IInvAlways == Spec => []IInv
  BY InitIInv, NextIInv, PTL DEF Spec

(***************************************************************************)
(* Every frame belongs to one slot or is free, and its reference count is  *)
(* right, wherever fork, execve or a page fault runs out of memory.        *)
(***************************************************************************)
THEOREM PagesCorrect == Spec => []PagesAccounted
<1>1. ASSUME IInv PROVE PagesAccounted
  <2>. SUFFICES ASSUME NEW f \in Managed
                PROVE  /\ f \in free <=> Users(f) = {}
                       /\ \A s, u \in Users(f) : s = u
                       /\ ref[f] = 1 <=> \E s \in PdeSlots \cup PteSlots : at[s] = f
    BY DEF PagesAccounted
  <2>1. f \in free <=> Users(f) = {}
    BY <1>1 DEF IInv, Accounted, Users
  <2>2. \A s, u \in Users(f) : s = u
    BY <1>1, FrameFacts DEF IInv, Accounted, Users
  <2>3. ref[f] = 1 <=> \E s \in PdeSlots \cup PteSlots : at[s] = f
    BY <1>1 DEF IInv, Accounted
  <2>. QED BY <2>1, <2>2, <2>3
<1>. QED BY <1>1, IInvAlways, PTL

\* A call that is over, whether it succeeded or failed, has left nothing behind.
THEOREM CleanupCorrect == Spec => []NothingLeftBehind
<1>1. ASSUME IInv PROVE NothingLeftBehind
  <2>. SUFFICES ASSUME op.kind = "idle" PROVE NothingLeftBehind
    BY <1>1, OpFacts DEF IInv, NothingLeftBehind
  <2>1. at[Held] = None
    BY <1>1 DEF IInv, Calls
  <2>2. ASSUME NEW p \in Procs, state[p] # "user"
        PROVE  /\ vmas[p] = {} /\ at[Dir(p)] = None
               /\ \A t \in Tables : at[Pde(p, t)] = None
               /\ \A v \in VPages : at[Pte(p, v)] = None
    <3>1. vmas[p] = {} /\ at[Dir(p)] = None
      BY <1>1, <2>2 DEF IInv, Spaces, HasSpace, Dismantles
    <3>. QED BY <1>1, <3>1 DEF IInv, Spaces
  <2>3. ASSUME NEW p \in Procs, state[p] = "unused" PROVE \A i \in {0, 1} : at[Kstack(p, i)] = None
    BY <1>1, <2>3 DEF IInv, Spaces
  <2>. QED BY <2>1, <2>2, <2>3 DEF NothingLeftBehind
<1>. QED BY <1>1, IInvAlways, PTL

\* The queue of swappable pages and the page tables agree.
THEOREM SwapCorrect == Spec => []SwappableMapped
  BY IInvAlways, PTL DEF IInv

-----------------------------------------------------------------------------
(* Each process has memory of its own: how the steps look to programs. *)

\* What a program that runs finds at an address.
Value(p, v) == IF at[Pte(p, v)] = None THEN Unset
               ELSE IF at[Pte(p, v)] = Swapped THEN disk[v]
               ELSE content[at[Pte(p, v)]]

\* What a process sees at a page, from the frames and the swap.
LEMMA ContentsValue ==
    ASSUME NEW p \in Procs
    PROVE  Contents(p) = [v \in VPages |-> IF Alive(p) THEN Value(p, v) ELSE Unset]
  BY DEF Contents, Value

\* The same after a step.
LEMMA ContentsValueNext ==
    ASSUME NEW p \in Procs
    PROVE  Contents(p)' = [v \in VPages |-> IF Alive(p)' THEN Value(p, v)' ELSE Unset]
  BY DEF Contents, Value

\* Nothing that a program can see has changed.
LEMMA Unseen ==
    ASSUME \A p \in Procs : state'[p] = "unused" <=> state[p] = "unused",
           \A p \in Procs : Alive(p)' <=> Alive(p),
           \A p \in Procs, v \in VPages : Alive(p) => Value(p, v)' = Value(p, v)
    PROVE  UNCHANGED AS!vars
<1>1. {p \in Procs : state[p] # "unused"}' = {p \in Procs : state[p] # "unused"}
  OBVIOUS
<1>2. {p \in Procs : Alive(p)}' = {p \in Procs : Alive(p)}
  OBVIOUS
<1>3. ASSUME NEW p \in Procs PROVE Contents(p)' = Contents(p)
  BY ContentsValue, ContentsValueNext
<1>4. [p \in Procs |-> Contents(p)]' = [p \in Procs |-> Contents(p)]
  BY <1>3
<1>. QED BY <1>1, <1>2, <1>4 DEF AS!vars

\* The pages stay where they are, with what they hold.
SamePages == /\ content' = content /\ disk' = disk
             /\ \A p \in Procs, v \in VPages : at'[Pte(p, v)] = at[Pte(p, v)]

\* Without a change of pages, visible values stay as they are.
LEMMA SamePagesKeep ==
    ASSUME SamePages
    PROVE  \A p \in Procs, v \in VPages : Value(p, v)' = Value(p, v)
  BY DEF SamePages, Value

\* A call goes on without touching a page.
LEMMA SameCall ==
    ASSUME IInv, CInv, SamePages, op' = op, state' = state
    PROVE  CInv' /\ UNCHANGED AS!vars
<1>. op.proc \in Procs /\ op.child \in Procs /\ op.todo \subseteq VPages /\ Eager \subseteq VPages
  BY OpFacts, VMAssumption DEF IInv
<1>1. \A p \in Procs, v \in VPages : Value(p, v)' = Value(p, v)
  BY SamePagesKeep
<1>2. Copying'
  BY DEF CInv, Copying, SamePages, Present
<1>3. Loading'
  BY DEF CInv, Loading, SamePages, Present, FromFile
<1>4. UNCHANGED AS!vars
  BY <1>1, Unseen DEF Alive
<1>. QED BY <1>2, <1>3, <1>4 DEF CInv

\* A new page directory is not seen by any process.
LEMMA SetupPgdirSeen == ASSUME IInv, CInv, SetupPgdir PROVE CInv' /\ UNCHANGED AS!vars
<1>1. Builds \in Procs
  BY OpFacts DEF IInv
<1>2. PICK f \in free : at' = [at EXCEPT ![Dir(Builds)] = f]
  BY DEF SetupPgdir, Take, Point
<1>3. \A p \in Procs, v \in VPages : at'[Pte(p, v)] = at[Pte(p, v)]
  BY <1>1, <1>2, SlotFacts, SlotsDiffer DEF IInv, TypeOK
<1>. QED BY <1>3, SameCall DEF SetupPgdir, SamePages, swapVars

\* A new page table is not seen by any process.
LEMMA GetPteSeen == ASSUME IInv, CInv, NEW w \in VPages, GetPte(w) PROVE CInv' /\ UNCHANGED AS!vars
<1>1. Builds \in Procs /\ TableOf[w] \in Tables
  BY OpFacts, SlotFacts DEF IInv
<1>2. PICK f \in free : at' = [at EXCEPT ![Pde(Builds, TableOf[w])] = f]
  BY DEF GetPte, Take, Point
<1>3. \A p \in Procs, v \in VPages : at'[Pte(p, v)] = at[Pte(p, v)]
  BY <1>1, <1>2, SlotFacts, SlotsDiffer DEF IInv, TypeOK
<1>. QED BY <1>3, SameCall DEF GetPte, SamePages, swapVars

\* A frame taken for the program is not seen before it is mapped.
LEMMA LoadPageSeen ==
    ASSUME IInv, CInv, NEW w \in VPages, LoadPage(w)
    PROVE  CInv' /\ UNCHANGED AS!vars
<1>2. PICK f \in free : at' = [at EXCEPT ![Held] = f]
  BY DEF LoadPage, Take, Point
<1>3. \A p \in Procs, v \in VPages : at'[Pte(p, v)] = at[Pte(p, v)]
  BY <1>2, SlotFacts, SlotsDiffer DEF IInv, TypeOK
<1>. QED BY <1>3, SameCall DEF LoadPage, SamePages, swapVars

\* Freeing a page table of a dead or replaced space is not seen.
LEMMA ExitRangeSeen ==
    ASSUME IInv, CInv, NEW t \in Tables, ExitRange(t)
    PROVE  CInv' /\ UNCHANGED AS!vars
<1>1. op.proc \in Procs
  BY OpFacts DEF IInv
<1>2. at' = [at EXCEPT ![Pde(op.proc, t)] = None]
  BY DEF ExitRange, Point
<1>3. \A p \in Procs, v \in VPages : at'[Pte(p, v)] = at[Pte(p, v)]
  BY <1>1, <1>2, SlotFacts, SlotsDiffer DEF IInv, TypeOK
<1>. QED BY <1>3, SameCall DEF ExitRange, SamePages, swapVars

\* A kernel that stops leaves the memory of its processes alone.
LEMMA StopSeen == ASSUME IInv, CInv, OutOfMemory \/ LoadStops PROVE CInv' /\ UNCHANGED AS!vars
  BY SameCall DEF OutOfMemory, LoadStops, SamePages, swapVars

\* A call begins or ends that neither copies nor loads; or a load begins.
LEMMA NewCall ==
    ASSUME IInv, CInv, SamePages, op'.kind \notin {"fork", "load"}
    PROVE  CInv' /\ \A p \in Procs, v \in VPages : Value(p, v)' = Value(p, v)
  BY SamePagesKeep DEF CInv, Copying, Loading

\* execve starts with nothing loaded.
LEMMA NewLoad ==
    ASSUME IInv, CInv, SamePages, NEW p \in Procs,
           op'.kind = "load", op'.proc = p, op'.todo = Eager,
           \A v \in VPages : at[Pte(p, v)] = None
    PROVE  CInv' /\ \A q \in Procs, v \in VPages : Value(q, v)' = Value(q, v)
<1>1. Loading'
  BY DEF Loading, SamePages, FromFile
<1>. QED BY <1>1, SamePagesKeep DEF CInv, Copying

\* execve blanks the memory of its process and no other.
LEMMA ExecveSeen ==
    ASSUME IInv, CInv, NEW p \in Procs, Execve(p)
    PROVE  CInv' /\ [AS!Next]_(AS!vars)
<1>. op.kind = "idle" /\ SamePages /\ state' = state
  BY OpFacts DEF IInv, Execve, SamePages, swapVars
<1>1. CASE state[p] = "user"
  <2>. op'.kind = "unmap_exec" /\ op'.proc = p
    BY <1>1 DEF Execve, Busy
  <2>1. CInv' /\ \A q \in Procs, v \in VPages : Value(q, v)' = Value(q, v)
    BY NewCall
  <2>2. Alive(p) /\ ~Alive(p)' /\ \A q \in Procs \ {p} : Alive(q)' <=> Alive(q)
    BY <1>1 DEF Alive
  <2>3. \A q \in Procs : Contents(q)' = IF q = p THEN AS!Blank ELSE Contents(q)
    BY <2>1, <2>2, ContentsValue, ContentsValueNext DEF AS!Blank
  <2>4. AS!Discard(p)
    BY <2>2, <2>3 DEF AS!Discard
  <2>. QED BY <2>1, <2>4 DEF AS!Next
<1>2. CASE state[p] = "kernel"
  <2>. op'.kind = "load" /\ op'.proc = p /\ op'.todo = Eager
    BY <1>2 DEF Execve, Busy
  <2>1. \A v \in VPages : at[Pte(p, v)] = None
    BY <1>2 DEF IInv, Spaces, HasSpace, Dismantles
  <2>2. CInv' /\ \A q \in Procs, v \in VPages : Value(q, v)' = Value(q, v)
    BY <2>1, NewLoad
  <2>3. \A q \in Procs : Alive(q)' <=> Alive(q)
    BY <1>2 DEF Alive
  <2>. QED BY <2>2, <2>3, Unseen
<1>. QED BY <1>1, <1>2 DEF Execve

\* exit makes its process lose its memory, and no other.
LEMMA ExitSeen ==
    ASSUME IInv, CInv, NEW p \in Procs, Exit(p)
    PROVE  CInv' /\ [AS!Next]_(AS!vars)
<1>. op.kind = "idle" /\ SamePages
  BY OpFacts DEF IInv, Exit, SamePages, swapVars
<1>1. CASE state[p] = "user"
  <2>. op'.kind = "unmap_exit" /\ op'.proc = p /\ state' = state
    BY <1>1 DEF Exit, Busy
  <2>1. CInv' /\ \A q \in Procs, v \in VPages : Value(q, v)' = Value(q, v)
    BY NewCall
  <2>2. Alive(p) /\ ~Alive(p)' /\ \A q \in Procs \ {p} : Alive(q)' <=> Alive(q)
    BY <1>1 DEF Alive
  <2>3. \A q \in Procs : Contents(q)' = IF q = p THEN AS!Blank ELSE Contents(q)
    BY <2>1, <2>2, ContentsValue, ContentsValueNext DEF AS!Blank
  <2>4. AS!Discard(p)
    BY <2>2, <2>3 DEF AS!Discard
  <2>. QED BY <2>1, <2>4 DEF AS!Next
<1>2. CASE state[p] = "kernel"
  <2>. op' = op /\ \A q \in Procs : state'[q] = IF q = p THEN "zombie" ELSE state[q]
    BY <1>2 DEF Exit, IInv, TypeOK
  <2>1. CInv' /\ \A q \in Procs, v \in VPages : Value(q, v)' = Value(q, v)
    BY NewCall
  <2>2. \A q \in Procs : Alive(q)' <=> Alive(q)
    BY <1>2 DEF Alive
  <2>. QED BY <1>2, <2>1, <2>2, Unseen
<1>. QED BY <1>1, <1>2 DEF Exit

\* fork begins with a child that sees nothing.
LEMMA ForkSeen ==
    ASSUME IInv, CInv, NEW p \in Procs, NEW c \in Procs, Fork(p, c)
    PROVE  CInv' /\ [AS!Next]_(AS!vars)
<1>. op.kind = "idle" /\ state[c] = "unused" /\ p # c /\ content' = content /\ disk' = disk
  BY OpFacts DEF IInv, Fork, swapVars
<1>1. PICK f \in free : at' = [at EXCEPT ![Kstack(c, 0)] = f, ![Kstack(c, 1)] = f + 1]
  BY DEF Fork
<1>2. \A q \in Procs, v \in VPages : at'[Pte(q, v)] = at[Pte(q, v)]
  <2>1. \A q \in Procs, v \in VPages :
           Pte(q, v) \in Slots /\ Pte(q, v) # Kstack(c, 0) /\ Pte(q, v) # Kstack(c, 1)
    BY SlotFacts, SlotsDiffer
  <2>. QED BY <1>1, <2>1 DEF IInv, TypeOK
<1>. SamePages
  BY <1>2 DEF SamePages
<1>3. \A q \in Procs, v \in VPages : Value(q, v)' = Value(q, v)
  BY SamePagesKeep
<1>4. CASE state[p] = "kernel"
  <2>. op' = op /\ \A q \in Procs : state'[q] = IF q = c THEN "kernel" ELSE state[q]
    BY <1>4 DEF Fork, IInv, TypeOK
  <2>1. CInv'
    BY NewCall
  <2>2. \A q \in Procs : Alive(q)' <=> Alive(q)
    BY DEF Alive
  <2>3. ~Alive(p) /\ ~Alive(c)
    BY <1>4 DEF Alive
  <2>4. \A q \in Procs : Contents(q)' = IF q = c THEN Contents(p) ELSE Contents(q)
    BY <1>3, <2>2, <2>3, ContentsValue, ContentsValueNext
  <2>5. AS!Fork(p, c)
    BY <1>4, <2>2, <2>3, <2>4 DEF AS!Fork
  <2>. QED BY <2>1, <2>5 DEF AS!Next
<1>5. CASE state[p] = "user"
  <2>. /\ op'.kind = "fork" /\ op'.proc = p /\ op'.child = c /\ state' = state
       /\ op'.todo = {v \in VPages : Present(p, v)}
    BY <1>5 DEF Fork, Busy
  <2>1. \A v \in VPages : at[Pte(c, v)] = None
    BY DEF IInv, Spaces, HasSpace, Dismantles
  <2>2. CInv'
    <3>1. Copying'
      BY <1>2, <2>1 DEF Copying, Present
    <3>. QED BY <3>1, SamePagesKeep DEF CInv, Loading
  <2>3. \A q \in Procs : Alive(q)' <=> Alive(q)
    BY DEF Alive
  <2>. QED BY <1>3, <2>2, <2>3, Unseen
<1>. QED BY <1>4, <1>5 DEF Fork

\* When fork returns, the child sees exactly what its parent sees.
LEMMA ForkDoneSeen == ASSUME IInv, CInv, ForkDone PROVE CInv' /\ [AS!Next]_(AS!vars)
<1>. PICK p \in Procs, c \in Procs : p = op.proc /\ c = op.child
  BY OpFacts DEF IInv
<1>. /\ op.kind = "fork" /\ op.todo = {} /\ op'.kind = "idle" /\ SamePages
  BY OpFacts DEF IInv, ForkDone, SamePages, swapVars, Idle
<1>. /\ state[p] = "user" /\ state[c] = "unused" /\ p # c
     /\ \A q \in Procs : state'[q] = IF q = c THEN "user" ELSE state[q]
  BY DEF IInv, TypeOK, Calls, ForkDone
<1>1. CInv' /\ \A q \in Procs, v \in VPages : Value(q, v)' = Value(q, v)
  BY NewCall
<1>2. Alive(p) /\ ~Alive(c) /\ \A q \in Procs : Alive(q)' <=> Alive(q) \/ q = c
  BY DEF Alive
<1>3. \A v \in VPages : Value(c, v) = Value(p, v)
  <2>1. \A v \in VPages : at[Pte(p, v)] # Swapped
    BY NotBooting, SlotFacts, FrameFacts DEF IInv, Points
  <2>2. \A v \in VPages : at[Pte(p, v)] = None \/ Present(p, v)
    BY <2>1, SlotFacts DEF IInv, TypeOK, Present
  <2>. QED BY <2>2, FrameFacts DEF CInv, Copying, Value, Present
<1>4. \A q \in Procs : Contents(q)' = IF q = c THEN Contents(p) ELSE Contents(q)
  BY <1>1, <1>2, <1>3, ContentsValue, ContentsValueNext
<1>5. AS!Fork(p, c)
  BY <1>2, <1>4 DEF AS!Fork
<1>. QED BY <1>1, <1>5 DEF AS!Next

\* When execve returns, the process sees exactly the new program.
LEMMA LoadDoneSeen == ASSUME IInv, CInv, LoadDone PROVE CInv' /\ [AS!Next]_(AS!vars)
<1>. DEFINE p == op.proc
<1>. /\ op.kind = "load" /\ op.todo = {} /\ op'.kind = "idle" /\ SamePages /\ p \in Procs
  BY OpFacts DEF IInv, LoadDone, SamePages, swapVars, Idle
<1>. /\ state[p] \in {"user", "kernel"}
     /\ \A q \in Procs : state'[q] = IF q = p THEN "user" ELSE state[q]
  BY DEF IInv, TypeOK, Calls, LoadDone
<1>1. CInv' /\ \A q \in Procs, v \in VPages : Value(q, v)' = Value(q, v)
  BY NewCall
<1>2. ~Alive(p) /\ \A q \in Procs : Alive(q)' <=> Alive(q) \/ q = p
  BY DEF Alive
<1>3. ASSUME NEW v \in VPages
      PROVE  /\ Value(p, v) \in Values \cup {Unset}
             /\ Value(p, v) = Unset <=> v \notin Eager
             /\ v \in FromFile => Value(p, v) = FileValue
  <2>1. CASE v \in Eager
    <3>1. Present(p, v) /\ (v \in FromFile => content[at[Pte(p, v)]] = FileValue)
      BY <2>1 DEF CInv, Loading
    <3>2. content[at[Pte(p, v)]] \in Values
      BY <3>1 DEF IInv, TypeOK, Present
    <3>3. Unset \notin Values
      BY VMAssumption DEF Unset, None
    <3>. QED BY <2>1, <3>1, <3>2, <3>3, FrameFacts DEF Value, Present
  <2>2. CASE v \notin Eager
    BY <2>2 DEF CInv, Loading, Value, FromFile
  <2>. QED BY <2>1, <2>2
<1>. DEFINE image == [v \in VPages |-> Value(p, v)]
<1>4. image \in AS!Images
  BY <1>3, VMAssumption DEF AS!Images, FromFile
<1>5. \A q \in Procs : Contents(q)' = IF q = p THEN image ELSE Contents(q)
  BY <1>1, <1>2, ContentsValue, ContentsValueNext
<1>6. AS!Load(p)
  BY <1>2, <1>4, <1>5 DEF AS!Load
<1>. QED BY <1>1, <1>6 DEF AS!Next

\* A failed execve kills its process, which sees nothing any more.
LEMMA LoadFailsSeen == ASSUME IInv, CInv, LoadFails PROVE CInv' /\ UNCHANGED AS!vars
<1>. op.kind = "load" /\ op'.kind = "unmap_exit" /\ op'.proc = op.proc /\ SamePages /\ state' = state
  BY DEF LoadFails, Busy, SamePages, swapVars
<1>1. CInv' /\ \A q \in Procs, v \in VPages : Value(q, v)' = Value(q, v)
  BY NewCall
<1>2. \A q \in Procs : Alive(q)' <=> Alive(q)
  BY DEF Alive
<1>. QED BY <1>1, <1>2, Unseen

\* Touching a page is not seen.
LEMMA TouchSeen ==
    ASSUME IInv, CInv, NEW p \in Procs, NEW w \in VPages, Touch(p, w)
    PROVE  CInv' /\ UNCHANGED AS!vars
<1>. op.kind = "idle" /\ op'.kind = "fault" /\ SamePages /\ state' = state
  BY OpFacts DEF IInv, Touch, Busy, SamePages, swapVars
<1>1. CInv' /\ \A q \in Procs, v \in VPages : Value(q, v)' = Value(q, v)
  BY NewCall
<1>2. \A q \in Procs : Alive(q)' <=> Alive(q)
  BY DEF Alive
<1>. QED BY <1>1, <1>2, Unseen

\* The end of an address space is not seen by any other process.
LEMMA PutPgdirSeen == ASSUME IInv, CInv, PutPgdir PROVE CInv' /\ UNCHANGED AS!vars
<1>. DEFINE p == op.proc
<1>. op.kind \in Dismantles /\ Mapped = {} /\ TablesLeft = {} /\ p \in Procs
  BY OpFacts DEF IInv, PutPgdir, Unmapping, Dismantles
<1>1. SamePages
  <2>1. at' = [at EXCEPT ![Dir(p)] = None]
    BY DEF PutPgdir, Point
  <2>2. \A q \in Procs, v \in VPages : at'[Pte(q, v)] = at[Pte(q, v)]
    BY <2>1, SlotFacts, SlotsDiffer DEF IInv, TypeOK
  <2>. QED BY <2>2 DEF SamePages, PutPgdir, swapVars
<1>2. state[p] \in {"user", "kernel"} /\ ~Alive(p)
  BY DEF IInv, Calls, Alive, Dismantles
<1>3. CASE op.kind = "unmap_exec"
  <2>. op'.kind = "load" /\ op'.proc = p /\ op'.todo = Eager /\ state' = state
    BY <1>3 DEF PutPgdir, Busy
  <2>1. \A v \in VPages : at[Pte(p, v)] = None
    BY NotBooting, NothingMapped DEF IInv, Dismantles
  <2>2. CInv' /\ \A q \in Procs, v \in VPages : Value(q, v)' = Value(q, v)
    BY <1>1, <2>1, NewLoad
  <2>3. \A q \in Procs : Alive(q)' <=> Alive(q)
    BY <1>3 DEF Alive
  <2>. QED BY <2>2, <2>3, Unseen
<1>4. CASE op.kind = "unmap_exit"
  <2>. op'.kind = "idle" /\ \A q \in Procs : state'[q] = IF q = p THEN "zombie" ELSE state[q]
    BY <1>4 DEF PutPgdir, Idle, IInv, TypeOK
  <2>1. CInv' /\ \A q \in Procs, v \in VPages : Value(q, v)' = Value(q, v)
    BY <1>1, NewCall
  <2>2. \A q \in Procs : Alive(q)' <=> Alive(q)
    BY <1>4 DEF Alive
  <2>. QED BY <1>2, <2>1, <2>2, Unseen
<1>. QED BY <1>3, <1>4 DEF Dismantles

\* Reaping makes the process unused and touches nobody else.
LEMMA ReapSeen ==
    ASSUME IInv, CInv, NEW z \in Procs, Reap(z)
    PROVE  CInv' /\ [AS!Next]_(AS!vars)
<1>. op.kind = "idle" /\ op' = op /\ state[z] = "zombie"
  BY OpFacts DEF IInv, Reap
<1>. \A q \in Procs : state'[q] = IF q = z THEN "unused" ELSE state[q]
  BY DEF Reap, IInv, TypeOK
<1>1. SamePages
  <2>1. at' = [at EXCEPT ![Kstack(z, 0)] = None, ![Kstack(z, 1)] = None]
    BY DEF Reap
  <2>2. \A q \in Procs, v \in VPages :
           Pte(q, v) \in Slots /\ Pte(q, v) # Kstack(z, 0) /\ Pte(q, v) # Kstack(z, 1)
    BY SlotFacts, SlotsDiffer
  <2>3. \A q \in Procs, v \in VPages : at'[Pte(q, v)] = at[Pte(q, v)]
    BY <2>1, <2>2 DEF IInv, TypeOK
  <2>. QED BY <2>3 DEF SamePages, Reap, swapVars
<1>2. CInv' /\ \A q \in Procs, v \in VPages : Value(q, v)' = Value(q, v)
  BY <1>1, NewCall
<1>3. ~Alive(z) /\ \A q \in Procs : Alive(q)' <=> Alive(q)
  BY DEF Alive
<1>4. \A q \in Procs : Contents(q)' = Contents(q)
  BY <1>2, <1>3, ContentsValue, ContentsValueNext
<1>5. AS!Reap(z)
  BY <1>3, <1>4 DEF AS!Reap
<1>. QED BY <1>2, <1>5 DEF AS!Next

-----------------------------------------------------------------------------
(* The steps that move pages or change what they hold. *)

\* The page of one address space is in no other, and in no free frame.
LEMMA PagesApart ==
    ASSUME IInv
    PROVE  /\ \A p, q \in Procs, v, w \in VPages :
                 at[Pte(p, v)] = at[Pte(q, w)] /\ at[Pte(p, v)] \in Frames => p = q /\ v = w
           /\ \A p \in Procs, v \in VPages : at[Pte(p, v)] \notin free
           /\ \A p \in Procs, v \in VPages : at[Pte(p, v)] # at[Held] \/ at[Held] = None
<1>1. \A p \in Procs, v \in VPages : at[Pte(p, v)] \notin free
  BY SlotFacts DEF IInv, Points, Accounted
<1>2. \A p \in Procs, v \in VPages : at[Pte(p, v)] # at[Held] \/ at[Held] = None
  <2>1. at[Held] \in Frames \cup {None}
    BY SlotFacts, FrameFacts DEF IInv, Points
  <2>. QED BY <2>1, SlotFacts, SlotsDiffer DEF IInv, Accounted
<1>3. \A p, q \in Procs, v, w \in VPages :
         at[Pte(p, v)] = at[Pte(q, w)] /\ at[Pte(p, v)] \in Frames => p = q /\ v = w
  BY SlotFacts, SlotsDiffer DEF IInv, Accounted
<1>. QED BY <1>1, <1>2, <1>3

\* A page is mapped, swapped out or absent.
LEMMA PteType ==
    ASSUME IInv, NEW p \in Procs, NEW v \in VPages
    PROVE  at[Pte(p, v)] \in Frames \cup {None, Swapped}
  BY SlotFacts DEF IInv, TypeOK

\* Copying a page to the child is not seen before fork returns.
LEMMA CopyPageSeen ==
    ASSUME IInv, CInv, NEW w \in VPages, CopyPage(w)
    PROVE  CInv' /\ UNCHANGED AS!vars
<1>. DEFINE p == op.proc
            c == op.child
<1>1. PICK f \in free : /\ at' = [at EXCEPT ![Pte(c, w)] = f]
                        /\ content' = [content EXCEPT ![f] = content[at[Pte(p, w)]]]
  BY DEF CopyPage, Take, Point, Copied
<1>. /\ op.kind = "fork" /\ w \in op.todo /\ state' = state /\ disk' = disk
     /\ p \in Procs /\ c \in Procs /\ op.todo \subseteq VPages
  BY OpFacts DEF IInv, CopyPage, NeedsPage, Following, swapVars
<1>. op'.kind = "fork" /\ op'.proc = p /\ op'.child = c /\ op'.todo = op.todo \ {w}
  BY DEF IInv, TypeOK, CopyPage
<1>. f \in Frames /\ state[c] = "unused" /\ state[p] = "user" /\ p # c /\ at[Pte(p, w)] \in Frames
  BY DEF IInv, TypeOK, Calls, Present
<1>2. \A q \in Procs, v \in VPages :
         at'[Pte(q, v)] = IF q = c /\ v = w THEN f ELSE at[Pte(q, v)]
  BY <1>1, SlotFacts, SlotsDiffer DEF IInv, TypeOK
<1>3. \A g \in Frames : content'[g] = IF g = f THEN content[at[Pte(p, w)]] ELSE content[g]
  BY <1>1 DEF IInv, TypeOK
<1>4. \A q \in Procs, v \in VPages : at[Pte(q, v)] # f
  BY PagesApart
<1>5. \A q \in Procs, v \in VPages : at[Pte(q, v)] \in Frames =>
         content'[at[Pte(q, v)]] = content[at[Pte(q, v)]]
  BY <1>3, <1>4
<1>6. Copying'
  <2>. SUFFICES ASSUME NEW v \in VPages \ op'.todo
                PROVE  IF Present(p, v)'
                         THEN Present(c, v)' /\ content'[at'[Pte(c, v)]] = content'[at'[Pte(p, v)]]
                         ELSE at'[Pte(c, v)] = None
    BY DEF Copying
  <2>1. CASE v = w
    BY <1>2, <1>3, <1>4, <2>1 DEF Present
  <2>2. CASE v # w
    BY <1>2, <1>5, <2>2 DEF CInv, Copying, Present
  <2>. QED BY <2>1, <2>2
<1>7. UNCHANGED AS!vars
  <2>1. \A q \in Procs : Alive(q)' <=> Alive(q)
    BY DEF Alive
  <2>2. ~Alive(c)
    BY DEF Alive
  <2>3. \A q \in Procs, v \in VPages : Alive(q) => Value(q, v)' = Value(q, v)
    BY <1>2, <1>5, <2>2, PteType DEF Value
  <2>. QED BY <2>1, <2>3, Unseen
<1>. QED BY <1>6, <1>7 DEF CInv, Loading

\* Unmapping a page of a space that is dismantled is not seen.
LEMMA UnmapPageSeen ==
    ASSUME IInv, CInv, NEW w \in VPages, UnmapPage(w)
    PROVE  CInv' /\ UNCHANGED AS!vars
<1>. DEFINE p == op.proc
<1>1. at' = [at EXCEPT ![Pte(p, w)] = None] /\ content' = content
  BY DEF UnmapPage, Point
<1>. op.kind \in Dismantles /\ op' = op /\ state' = state /\ disk' = disk /\ p \in Procs
  BY OpFacts DEF IInv, UnmapPage, Unmapping, Dismantles, swapVars
<1>2. \A q \in Procs, v \in VPages : q # p => at'[Pte(q, v)] = at[Pte(q, v)]
  BY <1>1, SlotFacts, SlotsDiffer DEF IInv, TypeOK
<1>3. ~Alive(p)
  BY DEF Alive, Dismantles
<1>4. \A q \in Procs, v \in VPages : Alive(q) => Value(q, v)' = Value(q, v)
  BY <1>1, <1>2, <1>3 DEF Value
<1>5. UNCHANGED AS!vars
  BY <1>4, Unseen DEF Alive
<1>. QED BY <1>5 DEF CInv, Copying, Loading, Dismantles

\* Mapping a page of the program is not seen before execve returns.
LEMMA LoadInsertSeen ==
    ASSUME IInv, CInv, NEW w \in VPages, LoadInsert(w)
    PROVE  CInv' /\ UNCHANGED AS!vars
<1>. DEFINE p == op.proc
            f == at[Held]
<1>1. at' = [at EXCEPT ![Held] = None, ![Pte(p, w)] = f]
  BY DEF LoadInsert
<1>. /\ op.kind = "load" /\ w \in op.todo /\ state' = state /\ disk' = disk
     /\ p \in Procs /\ f # None /\ op.todo \subseteq VPages
  BY OpFacts DEF IInv, LoadInsert, Following, swapVars
<1>. op'.kind = "load" /\ op'.proc = p /\ op'.todo = op.todo \ {w}
  BY DEF IInv, TypeOK, LoadInsert
<1>. f \in Frames /\ at[Pte(p, w)] = None
  BY SlotFacts, FrameFacts DEF IInv, Points, Calls
<1>2. \A q \in Procs, v \in VPages :
         at'[Pte(q, v)] = IF q = p /\ v = w THEN f ELSE at[Pte(q, v)]
  <2>1. \A q \in Procs, v \in VPages :
           Pte(q, v) \in Slots /\ Pte(q, v) # Held /\ (Pte(q, v) = Pte(p, w) <=> q = p /\ v = w)
    BY SlotFacts, SlotsDiffer
  <2>. QED BY <1>1, <2>1 DEF IInv, TypeOK
<1>3. PICK x \in Filled(w) : content' = [content EXCEPT ![f] = x]
  BY DEF LoadInsert
<1>4. /\ content'[f] = x
      /\ \A q \in Procs, v \in VPages : at[Pte(q, v)] \in Frames =>
            content'[at[Pte(q, v)]] = content[at[Pte(q, v)]]
  BY <1>3, PagesApart DEF IInv, TypeOK
<1>5. Loading'
  <2>1. op'.todo \subseteq Eager /\ Eager \subseteq VPages /\ w \in Eager
    BY VMAssumption DEF CInv, Loading
  <2>2. ASSUME NEW v \in Eager \ op'.todo
        PROVE  Present(p, v)' /\ (v \in FromFile => content'[at'[Pte(p, v)]] = FileValue)
    <3>1. CASE v = w
      BY <1>2, <1>3, <1>4, <2>1, <3>1 DEF Present, Filled
    <3>2. CASE v # w
      BY <1>2, <1>4, <2>1, <3>2 DEF CInv, Loading, Present
    <3>. QED BY <3>1, <3>2
  <2>3. \A v \in VPages \ Eager : at'[Pte(p, v)] = None
    BY <1>2, <2>1 DEF CInv, Loading
  <2>. QED BY <2>1, <2>2, <2>3 DEF Loading, FromFile
<1>6. ~Alive(p) /\ \A q \in Procs : Alive(q)' <=> Alive(q)
  BY DEF Alive
<1>7. \A q \in Procs, v \in VPages : Alive(q) => Value(q, v)' = Value(q, v)
  BY <1>2, <1>4, <1>6, PteType DEF Value
<1>8. UNCHANGED AS!vars
  BY <1>6, <1>7, Unseen
<1>. QED BY <1>5, <1>8 DEF CInv, Copying

\* A write changes one page of one process.
LEMMA WriteSeen ==
    ASSUME IInv, CInv, NEW p \in Procs, NEW w \in VPages, NEW x \in Values, Write(p, w, x)
    PROVE  CInv' /\ [AS!Next]_(AS!vars)
<1>. DEFINE f == at[Pte(p, w)]
<1>. /\ op.kind = "idle" /\ op' = op /\ state' = state /\ disk' = disk /\ at' = at
     /\ f \in Frames /\ state[p] = "user"
  BY OpFacts DEF IInv, Write, Present, swapVars
<1>1. \A g \in Frames : content'[g] = IF g = f THEN x ELSE content[g]
  BY DEF IInv, TypeOK, Write
<1>3. Alive(p) /\ \A q \in Procs : Alive(q)' <=> Alive(q)
  BY DEF Alive
<1>4. \A q \in Procs, v \in VPages : Value(q, v)' = IF q = p /\ v = w THEN x ELSE Value(q, v)
  <2>. SUFFICES ASSUME NEW q \in Procs, NEW v \in VPages
                PROVE  Value(q, v)' = IF q = p /\ v = w THEN x ELSE Value(q, v)
    OBVIOUS
  <2>1. CASE q = p /\ v = w
    BY <1>1, <2>1, FrameFacts DEF Value
  <2>2. CASE ~(q = p /\ v = w)
    <3>1. at[Pte(q, v)] \in Frames => content'[at[Pte(q, v)]] = content[at[Pte(q, v)]]
      BY <1>1, <2>2, PagesApart
    <3>. QED BY <2>2, <3>1, PteType DEF Value
  <2>. QED BY <2>1, <2>2
<1>5. Contents(p)[w] # Unset
  <2>1. content[f] # Unset
    BY VMAssumption DEF IInv, TypeOK, Unset, None
  <2>. QED BY <1>3, <2>1, ContentsValue, FrameFacts DEF Value
<1>6. Contents(p)' = [Contents(p) EXCEPT ![w] = x] /\ \A q \in Procs \ {p} : Contents(q)' = Contents(q)
  BY <1>3, <1>4, ContentsValue, ContentsValueNext
<1>7. AS!Write(p, w, x)
  BY <1>3, <1>5, <1>6 DEF AS!Write
<1>8. CInv'
  BY DEF CInv, Copying, Loading
<1>. QED BY <1>7, <1>8 DEF AS!Next

\* What do_pgfault does when it maps the frame f, holding x, at page w of p.
Maps(p, w, f, x) ==
    /\ op.kind = "fault" /\ p = op.proc
    /\ at[Pte(p, w)] \notin Frames
    /\ at' = [at EXCEPT ![Pte(p, w)] = f]
    /\ content' = [content EXCEPT ![f] = x]
    /\ op' = Idle /\ state' = state /\ disk' = disk

\* After do_pgfault has mapped a frame at w, only that page may look different.
LEMMA FaultSeen ==
    ASSUME IInv, CInv, NEW p \in Procs, NEW w \in VPages, NEW f \in free, NEW x \in Values,
           Maps(p, w, f, x)
    PROVE  /\ CInv'
           /\ Alive(p) /\ \A q \in Procs : Alive(q)' <=> Alive(q)
           /\ \A q \in Procs, v \in VPages :
                 Value(q, v)' = IF q = p /\ v = w THEN x ELSE Value(q, v)
<1>. /\ op.kind = "fault" /\ p = op.proc /\ at[Pte(p, w)] \notin Frames
     /\ at' = [at EXCEPT ![Pte(p, w)] = f] /\ content' = [content EXCEPT ![f] = x]
     /\ op' = Idle /\ state' = state /\ disk' = disk
  BY DEF Maps
<1>. f \in Frames /\ op'.kind = "idle" /\ state[p] = "user"
  BY OpFacts DEF IInv, TypeOK, Calls, Idle
<1>1. \A q \in Procs, v \in VPages :
         at'[Pte(q, v)] = IF q = p /\ v = w THEN f ELSE at[Pte(q, v)]
  BY SlotFacts, SlotsDiffer DEF IInv, TypeOK
<1>2. \A g \in Frames : content'[g] = IF g = f THEN x ELSE content[g]
  BY DEF IInv, TypeOK
<1>4. Alive(p) /\ \A q \in Procs : Alive(q)' <=> Alive(q)
  BY DEF Alive
<1>5. \A q \in Procs, v \in VPages : Value(q, v)' = IF q = p /\ v = w THEN x ELSE Value(q, v)
  <2>. SUFFICES ASSUME NEW q \in Procs, NEW v \in VPages
                PROVE  Value(q, v)' = IF q = p /\ v = w THEN x ELSE Value(q, v)
    OBVIOUS
  <2>1. CASE q = p /\ v = w
    BY <1>1, <1>2, <2>1, FrameFacts DEF Value
  <2>2. CASE ~(q = p /\ v = w)
    <3>1. at'[Pte(q, v)] = at[Pte(q, v)]
      BY <1>1, <2>2
    <3>2. at[Pte(q, v)] \in Frames => content'[at[Pte(q, v)]] = content[at[Pte(q, v)]]
      BY <1>2, PagesApart
    <3>. QED BY <2>2, <3>1, <3>2, PteType DEF Value
  <2>. QED BY <2>1, <2>2
<1>6. CInv'
  BY DEF CInv, Copying, Loading
<1>. QED BY <1>4, <1>5, <1>6

\* The first access to a page gives it a value that nobody else shares.
LEMMA FaultFreshSeen ==
    ASSUME IInv, CInv, NEW w \in VPages, FaultFresh(w)
    PROVE  CInv' /\ [AS!Next]_(AS!vars)
<1>. PICK p \in Procs : p = op.proc
  BY OpFacts DEF IInv
<1>1. PICK f \in free, x \in Values :
         at' = [at EXCEPT ![Pte(p, w)] = f] /\ content' = [content EXCEPT ![f] = x]
  BY DEF FaultFresh, Take, Point
<1>2. op.kind = "fault" /\ at[Pte(p, w)] = None /\ op' = Idle /\ UNCHANGED <<state, disk>> /\ p \in Procs
  BY OpFacts DEF IInv, FaultFresh
<1>3. /\ CInv'
      /\ Alive(p) /\ \A q \in Procs : Alive(q)' <=> Alive(q)
      /\ \A q \in Procs, v \in VPages : Value(q, v)' = IF q = p /\ v = w THEN x ELSE Value(q, v)
  <2>1. at[Pte(p, w)] \notin Frames
    BY <1>2, FrameFacts
  <2>2. Maps(p, w, f, x)
    BY <1>1, <1>2, <2>1 DEF Maps
  <2>. QED BY <1>2, <2>2, FaultSeen
<1>4. Contents(p)[w] = Unset
  BY <1>2, ContentsValue DEF Value
<1>5. Contents(p)' = [Contents(p) EXCEPT ![w] = x] /\ \A q \in Procs \ {p} : Contents(q)' = Contents(q)
  BY <1>2, <1>3, ContentsValue, ContentsValueNext
<1>6. AS!FirstAccess(p, w)
  BY <1>2, <1>3, <1>4, <1>5 DEF AS!FirstAccess
<1>. QED BY <1>3, <1>6 DEF AS!Next

\* Reading a page back from the swap is not seen.
LEMMA SwapInSeen == ASSUME IInv, CInv, NEW w \in VPages, SwapIn(w) PROVE CInv' /\ UNCHANGED AS!vars
<1>. PICK p \in Procs : p = op.proc
  BY OpFacts DEF IInv
<1>1. PICK f \in free :
         at' = [at EXCEPT ![Pte(p, w)] = f] /\ content' = [content EXCEPT ![f] = disk[w]]
  BY DEF SwapIn, Take, Point
<1>2. op.kind = "fault" /\ at[Pte(p, w)] = Swapped /\ op' = Idle /\ UNCHANGED <<state, disk>> /\ p \in Procs
  BY OpFacts DEF IInv, SwapIn
<1>3. disk[w] \in Values
  BY DEF IInv, TypeOK
<1>4. /\ CInv' /\ \A q \in Procs : Alive(q)' <=> Alive(q)
      /\ \A q \in Procs, v \in VPages : Value(q, v)' = IF q = p /\ v = w THEN disk[w] ELSE Value(q, v)
  <2>1. at[Pte(p, w)] \notin Frames
    BY <1>2, FrameFacts
  <2>2. Maps(p, w, f, disk[w])
    BY <1>1, <1>2, <2>1 DEF Maps
  <2>. QED BY <1>2, <1>3, <2>2, FaultSeen
<1>5. Value(p, w) = disk[w]
  BY <1>2, FrameFacts DEF Value
<1>6. \A q \in Procs, v \in VPages : Value(q, v)' = Value(q, v)
  BY <1>4, <1>5
<1>. QED BY <1>2, <1>4, <1>6, Unseen

\* Writing a page to the swap is not seen.
LEMMA SwapOutSeen == ASSUME IInv, CInv, SwapOut PROVE CInv' /\ UNCHANGED AS!vars
<1>. DEFINE w == Head(fifo).vaddr
            f == Head(fifo).page
<1>1. /\ check /\ fifo # <<>>
      /\ disk' = [disk EXCEPT ![w] = content[f]]
      /\ at' = [at EXCEPT ![Pte(First, w)] = Swapped]
      /\ content' = content /\ op' = op /\ state' = state
  BY DEF SwapOut, Point
<1>2. 1 \in 1 .. Len(fifo) /\ Head(fifo) = fifo[1]
  BY <1>1 DEF IInv, TypeOK
<1>3. Head(fifo) \in [page : Frames, vaddr : VPages]
  BY <1>2, QueueEntries DEF IInv
<1>. w \in VPages /\ f \in Frames /\ First \in Procs
  BY <1>3, SlotFacts
<1>4. at[Pte(First, w)] = f
  BY <1>2 DEF IInv, SwappableMapped
<1>5. \A q \in Procs, v \in VPages :
         at'[Pte(q, v)] = IF q = First /\ v = w THEN Swapped ELSE at[Pte(q, v)]
  BY <1>1, SlotFacts, SlotsDiffer DEF IInv, TypeOK
<1>6. \A v \in VPages : disk'[v] = IF v = w THEN content[f] ELSE disk[v]
  BY <1>1 DEF IInv, TypeOK
<1>8. op.kind \in {"idle", "fault"}
  BY <1>1 DEF IInv, Calls
<1>9. \A q \in Procs : Alive(q) => q = First
  BY <1>1 DEF IInv, Calls, Alive
<1>10. \A q \in Procs, v \in VPages : Alive(q) => Value(q, v)' = Value(q, v)
  <2>. SUFFICES ASSUME NEW v \in VPages PROVE Value(First, v)' = Value(First, v)
    BY <1>9
  <2>1. CASE v = w
    BY <1>1, <1>4, <1>5, <1>6, <2>1, FrameFacts DEF Value
  <2>2. CASE v # w
    <3>1. at'[Pte(First, v)] = at[Pte(First, v)] /\ disk'[v] = disk[v]
      BY <1>5, <1>6, <2>2
    <3>. QED BY <1>1, <3>1 DEF Value
  <2>. QED BY <2>1, <2>2
<1>11. UNCHANGED AS!vars
  BY <1>1, <1>10, Unseen DEF Alive
<1>. QED BY <1>1, <1>8, <1>11 DEF CInv, Copying, Loading

-----------------------------------------------------------------------------
\* Initially every process sees blank memory.
LEMMA InitSeen == Init => CInv /\ AS!Init
<1>. SUFFICES ASSUME Init PROVE CInv /\ AS!Init
  OBVIOUS
<1>1. CInv
  BY InitIdle DEF CInv, Copying, Loading
<1>2. \A p \in Procs, v \in VPages : at[Pte(p, v)] = None
  <2>1. CASE InitUser
    BY <2>1, SlotFacts, SlotsDiffer DEF InitUser
  <2>2. CASE InitCheck
    BY <2>2, SlotFacts, SlotsDiffer DEF InitCheck
  <2>. QED BY <2>1, <2>2 DEF Init
<1>3. \A p \in Procs : Contents(p) = AS!Blank
  BY <1>2 DEF Contents, AS!Blank
<1>4. \A p \in Procs : Alive(p) => state[p] # "unused"
  BY DEF Alive
<1>5. AS!Init
  BY <1>3, <1>4 DEF AS!Init
<1>. QED BY <1>1, <1>5

\* Every step is a step of the abstract memories, or is not seen.
LEMMA NextSeen == IInv /\ CInv /\ [Next]_vars => CInv' /\ [AS!Next]_(AS!vars)
<1>. SUFFICES ASSUME IInv, CInv, [Next]_vars PROVE CInv' /\ [AS!Next]_(AS!vars)
  OBVIOUS
<1>1. CASE KernelStep
  BY <1>1, SetupPgdirSeen, ForkDoneSeen, PutPgdirSeen, LoadDoneSeen, LoadFailsSeen, SwapOutSeen,
     StopSeen, GetPteSeen, CopyPageSeen, UnmapPageSeen, LoadPageSeen, LoadInsertSeen,
     FaultFreshSeen, SwapInSeen, ExitRangeSeen DEF KernelStep
<1>2. CASE \E p \in Procs :
              \/ Execve(p) \/ Exit(p) \/ Reap(p)
              \/ \E c \in Procs : Fork(p, c)
              \/ \E v \in VPages : Touch(p, v) \/ \E x \in Values : Write(p, v, x)
  BY <1>2, ExecveSeen, ExitSeen, ReapSeen, ForkSeen, TouchSeen, WriteSeen
<1>3. CASE UNCHANGED vars
  BY <1>3, SameCall DEF vars, SamePages
<1>. QED BY <1>1, <1>2, <1>3 DEF Next

(***************************************************************************)
(* Whatever happens to frames and swap places, each process has memory of  *)
(* its own, which fork copies, execve replaces and nobody else changes.    *)
(***************************************************************************)
THEOREM MemoryIsPrivate == Spec => ImplementsAddressSpaces
<1>1. Spec => [](IInv /\ CInv)
  <2>1. Init => IInv /\ CInv
    BY InitIInv, InitSeen
  <2>2. IInv /\ CInv /\ [Next]_vars => (IInv /\ CInv)'
    BY NextIInv, NextSeen
  <2>. QED BY <2>1, <2>2, PTL DEF Spec
<1>. QED BY <1>1, InitSeen, NextSeen, PTL DEF Spec, ImplementsAddressSpaces, AS!Spec

-----------------------------------------------------------------------------
(* The free list: induction, and lists with an element more or less.      *)

\* A set of natural numbers that is not empty has a least element.
LEMMA NatLeast ==
    ASSUME NEW T, T \subseteq Nat, T # {}
    PROVE  \E x \in T : \A y \in T : x <= y
<1> DEFINE R == OpToRel(<, Nat)
<1>1. IsWellFoundedOn(R, Nat)
  BY NatLessThanWellFounded
<1>2. \A x, y \in Nat : << y, x >> \in R <=> y < x
  BY DEF OpToRel
<1> HIDE DEF R
<1>3. PICK x \in T : \A y \in T : ~ (<< y, x >> \in R)
  BY <1>1, WFMin
<1>4. ASSUME NEW y \in T PROVE x <= y
  <2>1. x \in Nat /\ y \in Nat /\ ~ (y < x)
    BY <1>2, <1>3
  <2>. QED BY <2>1
<1>. QED BY <1>4

\* A set that holds 0, and with a number the next, holds all natural numbers.
LEMMA SetInduction ==
    ASSUME NEW S, 0 \in S, \A n \in Nat : n \in S => n + 1 \in S
    PROVE  Nat \subseteq S
<1> DEFINE T == Nat \ S
<1>1. CASE T = {}
  BY <1>1
<1>2. CASE T # {}
  <2>1. PICK x \in T : \A y \in T : x <= y
    BY <1>2, NatLeast
  <2>2. x # 0 /\ x - 1 \in Nat /\ x - 1 \notin T
    BY <2>1
  <2>. QED BY <2>2, <2>1
<1>. QED BY <1>1, <1>2

\* A list with an element more, at position i.
LEMMA InsertIs ==
    ASSUME NEW S, NEW list \in Seq(S), NEW i \in 1..Len(list) + 1, NEW e \in S
    PROVE  /\ InsertAt(list, i, e) \in Seq(S)
           /\ Len(InsertAt(list, i, e)) = Len(list) + 1
           /\ \A j \in 1..Len(list) + 1 : InsertAt(list, i, e)[j] =
                 IF j < i THEN list[j] ELSE IF j = i THEN e ELSE list[j - 1]
<1> DEFINE a == SubSeq(list, 1, i - 1)
           b == SubSeq(list, i, Len(list))
           c == a \o << e >>
<1>0. Len(list) \in Nat /\ \A j \in 1..Len(list) : list[j] \in S
  OBVIOUS
<1>1. /\ a \in Seq(S) /\ Len(a) = i - 1
      /\ \A j \in 1..i - 1 : a[j] = list[j]
  <2>1. \A j \in 1..i - 1 : list[j] \in S
    BY <1>0
  <2>2. /\ a \in Seq(S) /\ Len(a) = IF 1 <= i - 1 THEN (i - 1) - 1 + 1 ELSE 0
        /\ \A j \in 1..(i - 1) - 1 + 1 : a[j] = list[1 + j - 1]
    BY <2>1, SubSeqProperties
  <2>. HIDE DEF a
  <2>3. Len(a) = i - 1
    BY <2>2
  <2>4. \A j \in 1..i - 1 : j \in 1..(i - 1) - 1 + 1 /\ 1 + j - 1 = j
    OBVIOUS
  <2>5. \A j \in 1..i - 1 : a[j] = list[j]
    BY <2>2, <2>4
  <2>. QED BY <2>2, <2>3, <2>5
<1>2. /\ b \in Seq(S) /\ Len(b) = Len(list) - i + 1
      /\ \A j \in 1..Len(list) - i + 1 : b[j] = list[i + j - 1]
  <2>1. \A j \in i..Len(list) : list[j] \in S
    BY <1>0
  <2>2. /\ b \in Seq(S) /\ Len(b) = IF i <= Len(list) THEN Len(list) - i + 1 ELSE 0
        /\ \A j \in 1..Len(list) - i + 1 : b[j] = list[i + j - 1]
    BY <1>0, <2>1, SubSeqProperties
  <2>. HIDE DEF b
  <2>. QED BY <2>2
<1>3. << e >> \in Seq(S) /\ Len(<< e >>) = 1 /\ << e >>[1] = e
  OBVIOUS
<1>. HIDE DEF a, b
<1>4. /\ c \in Seq(S) /\ Len(c) = i
      /\ \A j \in 1..i : c[j] = IF j < i THEN list[j] ELSE e
  <2>1. /\ c \in Seq(S) /\ Len(c) = Len(a) + 1
        /\ \A j \in 1..Len(a) + 1 : c[j] = IF j <= Len(a) THEN a[j] ELSE << e >>[j - Len(a)]
    BY <1>1, <1>3, ConcatProperties
  <2>. HIDE DEF c
  <2>2. ASSUME NEW j \in 1..i PROVE c[j] = IF j < i THEN list[j] ELSE e
    BY <1>1, <1>3, <2>1
  <2>. QED BY <1>1, <2>1, <2>2
<1>. HIDE DEF c
<1>5. /\ c \o b \in Seq(S) /\ Len(c \o b) = Len(c) + Len(b)
      /\ \A j \in 1..Len(c) + Len(b) : (c \o b)[j] = IF j <= Len(c) THEN c[j] ELSE b[j - Len(c)]
  BY <1>2, <1>4, ConcatProperties
<1>6. InsertAt(list, i, e) = c \o b
  BY DEF InsertAt, a, b, c
<1>7. ASSUME NEW j \in 1..Len(list) + 1
      PROVE  (c \o b)[j] = IF j < i THEN list[j] ELSE IF j = i THEN e ELSE list[j - 1]
  <2>1. CASE j <= i
    BY <1>2, <1>4, <1>5, <2>1
  <2>2. CASE j > i
    <3>1. (c \o b)[j] = b[j - i]
      BY <1>2, <1>4, <1>5, <2>2
    <3>2. b[j - i] = list[i + (j - i) - 1]
      BY <1>0, <1>2, <2>2
    <3>. QED BY <2>2, <3>1, <3>2
  <2>3. j <= i \/ j > i
    BY <1>0
  <2>. QED BY <2>1, <2>2, <2>3
<1>. QED BY <1>0, <1>2, <1>4, <1>5, <1>6, <1>7

\* A list without the element at position i.
LEMMA RemoveIs ==
    ASSUME NEW S, NEW list \in Seq(S), NEW i \in 1..Len(list)
    PROVE  /\ RemoveAt(list, i) \in Seq(S)
           /\ Len(RemoveAt(list, i)) = Len(list) - 1
           /\ \A j \in 1..Len(list) - 1 :
                 RemoveAt(list, i)[j] = IF j < i THEN list[j] ELSE list[j + 1]
<1> DEFINE a == SubSeq(list, 1, i - 1)
           b == SubSeq(list, i + 1, Len(list))
<1>0. Len(list) \in Nat /\ \A j \in 1..Len(list) : list[j] \in S
  OBVIOUS
<1>1. /\ a \in Seq(S) /\ Len(a) = i - 1
      /\ \A j \in 1..i - 1 : a[j] = list[j]
  <2>1. \A j \in 1..i - 1 : list[j] \in S
    BY <1>0
  <2>2. /\ a \in Seq(S) /\ Len(a) = IF 1 <= i - 1 THEN (i - 1) - 1 + 1 ELSE 0
        /\ \A j \in 1..(i - 1) - 1 + 1 : a[j] = list[1 + j - 1]
    BY <2>1, SubSeqProperties
  <2>. HIDE DEF a
  <2>3. Len(a) = i - 1
    BY <2>2
  <2>4. \A j \in 1..i - 1 : j \in 1..(i - 1) - 1 + 1 /\ 1 + j - 1 = j
    OBVIOUS
  <2>5. \A j \in 1..i - 1 : a[j] = list[j]
    BY <2>2, <2>4
  <2>. QED BY <2>2, <2>3, <2>5
<1>2. /\ b \in Seq(S) /\ Len(b) = Len(list) - i
      /\ \A j \in 1..Len(list) - i : b[j] = list[i + j]
  <2>1. \A j \in i + 1..Len(list) : list[j] \in S
    BY <1>0
  <2>2. /\ b \in Seq(S)
        /\ Len(b) = IF i + 1 <= Len(list) THEN Len(list) - (i + 1) + 1 ELSE 0
        /\ \A j \in 1..Len(list) - (i + 1) + 1 : b[j] = list[(i + 1) + j - 1]
    BY <1>0, <2>1, SubSeqProperties
  <2>. HIDE DEF b
  <2>. QED BY <1>0, <2>2
<1>. HIDE DEF a, b
<1>3. /\ a \o b \in Seq(S) /\ Len(a \o b) = Len(a) + Len(b)
      /\ \A j \in 1..Len(a) + Len(b) : (a \o b)[j] = IF j <= Len(a) THEN a[j] ELSE b[j - Len(a)]
  BY <1>1, <1>2, ConcatProperties
<1>4. RemoveAt(list, i) = a \o b
  BY DEF RemoveAt, a, b
<1>5. ASSUME NEW j \in 1..Len(list) - 1
      PROVE  (a \o b)[j] = IF j < i THEN list[j] ELSE list[j + 1]
  <2>1. CASE j < i
    BY <1>1, <1>2, <1>3, <2>1
  <2>2. CASE j >= i
    <3>1. (a \o b)[j] = b[j - (i - 1)]
      BY <1>1, <1>2, <1>3, <2>2
    <3>2. j - (i - 1) \in 1..Len(list) - i
      BY <1>0, <2>2
    <3>3. b[j - (i - 1)] = list[i + (j - (i - 1))]
      BY <1>2, <3>2
    <3>. QED BY <2>2, <3>1, <3>3
  <2>3. j < i \/ j >= i
    BY <1>0
  <2>. QED BY <2>1, <2>2, <2>3
<1>6. \A j \in 1..Len(list) - 1 :
        (a \o b)[j] = IF j < i THEN list[j] ELSE list[j + 1]
  BY <1>5
<1>. QED BY <1>0, <1>1, <1>2, <1>3, <1>4, <1>6

Blocks == [base : Int, property : Nat \ {0}]

\* The blocks of a list lie in address order with frames in use between them.
Sorted(list) == \A i, j \in 1..Len(list) : i < j => End(list[i]) < list[j].base

\* The frame x lies in the block b.
Within(x, b) == b.base <= x /\ x < End(b)

\* The list holds the frames of F.
Lists(list, F) ==
    /\ list \in Seq(Blocks) /\ Sorted(list)
    /\ F \subseteq Int
    /\ \A x \in Int : x \in F <=> \E i \in 1..Len(list) : Within(x, list[i])

\* Blocks b and c have a frame in use between them.
Apart(b, c) == End(b) < c.base \/ End(c) < b.base

\* What the pass over the list has made of the freed block after i blocks.
Passed(list, freed, acc, i) ==
    LET block == acc.block
        kept  == acc.kept
    IN  /\ block \in Blocks /\ kept \in Seq(Blocks)
        /\ Sorted(kept)
        /\ \A k \in 1..Len(kept) : \E j \in 1..i : kept[k] = list[j]
        /\ \A k \in 1..Len(kept) : Apart(kept[k], block)
        /\ \A j \in i + 1..Len(list) : End(block) <= list[j].base \/ End(list[j]) <= block.base
        /\ \A x \in Int : (Within(x, block) \/ \E k \in 1..Len(kept) : Within(x, kept[k])) <=>
                          (Within(x, freed) \/ \E j \in 1..i : Within(x, list[j]))

\* A block ends behind its start.
LEMMA BlockFacts ==
    ASSUME NEW b \in Blocks
    PROVE  b.base \in Int /\ b.property \in Nat /\ b.property > 0 /\ End(b) = b.base + b.property
           /\ End(b) \in Int /\ b.base < End(b)
  BY DEF Blocks, End

\* The block of n frames from x on.
LEMMA BlockIs ==
    ASSUME NEW x \in Int, NEW n \in Nat \ {0}
    PROVE  Block(x, n) \in Blocks /\ Block(x, n).base = x /\ End(Block(x, n)) = x + n
  BY DEF Blocks, End, Block

\* The blocks of a list are blocks.
LEMMA BlocksOf ==
    ASSUME NEW list \in Seq(Blocks)
    PROVE  /\ Len(list) \in Nat
           /\ \A i \in 1..Len(list) : list[i] \in Blocks
           /\ \A i \in 1..Len(list) : list[i].base \in Int /\ End(list[i]) \in Int
                                      /\ list[i].base < End(list[i])
<1>1. Len(list) \in Nat /\ \A i \in 1..Len(list) : list[i] \in Blocks
  OBVIOUS
<1>. QED BY <1>1, BlockFacts

\* A list with an element more at its end.
LEMMA AppendIs ==
    ASSUME NEW S, NEW list \in Seq(S), NEW e \in S
    PROVE  /\ Append(list, e) \in Seq(S)
           /\ Len(Append(list, e)) = Len(list) + 1
           /\ \A j \in 1..Len(list) : Append(list, e)[j] = list[j]
           /\ Append(list, e)[Len(list) + 1] = e
  BY AppendProperties

\* A block that touches the freed one goes into it.
LEMMA MergeTouching ==
    ASSUME NEW list \in Seq(Blocks), Sorted(list), NEW freed, NEW acc, NEW i \in 1..Len(list),
           Passed(list, freed, acc, i - 1), NEW new \in Blocks, NEW next,
           next.block = new, next.kept = acc.kept,
           \/ End(acc.block) = list[i].base /\ new.base = acc.block.base /\ End(new) = End(list[i])
           \/ End(list[i]) = acc.block.base /\ new.base = list[i].base /\ End(new) = End(acc.block)
    PROVE  Passed(list, freed, next, i)
<1> DEFINE block == acc.block
           kept  == acc.kept
<1>1. /\ block \in Blocks /\ kept \in Seq(Blocks)
      /\ Sorted(kept)
      /\ \A k \in 1..Len(kept) : \E j \in 1..i - 1 : kept[k] = list[j]
      /\ \A k \in 1..Len(kept) : Apart(kept[k], block)
      /\ \A j \in (i - 1) + 1..Len(list) : End(block) <= list[j].base \/ End(list[j]) <= block.base
      /\ \A x \in Int : (Within(x, block) \/ \E k \in 1..Len(kept) : Within(x, kept[k])) <=>
                        (Within(x, freed) \/ \E j \in 1..i - 1 : Within(x, list[j]))
  BY DEF Passed
<1>2. /\ block.base \in Int /\ End(block) \in Int /\ block.base < End(block)
      /\ new.base \in Int /\ End(new) \in Int
  BY <1>1, BlockFacts
<1>3. /\ Len(list) \in Nat /\ i \in Int
      /\ list[i].base \in Int /\ End(list[i]) \in Int /\ list[i].base < End(list[i])
  BY BlocksOf
<1>4. \/ End(block) = list[i].base /\ new.base = block.base /\ End(new) = End(list[i])
      \/ End(list[i]) = block.base /\ new.base = list[i].base /\ End(new) = End(block)
  OBVIOUS
<1>9. next.block = new /\ next.kept = kept
  OBVIOUS
<1>. HIDE DEF block, kept
<1>5. \A k \in 1..Len(kept) : \E j \in 1..i : kept[k] = list[j]
  <2>1. \A j \in 1..i - 1 : j \in 1..i
    OBVIOUS
  <2>. QED BY <1>1, <2>1
<1>6. ASSUME NEW k \in 1..Len(kept) PROVE Apart(kept[k], new)
  <2>1. PICK j \in 1..i - 1 : kept[k] = list[j]
    BY <1>1
  <2>2. j \in 1..Len(list) /\ j < i
    BY <1>3
  <2>3. End(kept[k]) < list[i].base
    BY <2>1, <2>2 DEF Sorted
  <2>4. kept[k].base \in Int /\ End(kept[k]) \in Int /\ kept[k].base < End(kept[k])
    BY <2>1, <2>2, BlocksOf
  <2>5. End(kept[k]) < block.base \/ End(block) < kept[k].base
    BY <1>1 DEF Apart
  <2>. QED BY <1>2, <1>3, <1>4, <2>3, <2>4, <2>5 DEF Apart
<1>7. ASSUME NEW j \in i + 1..Len(list) PROVE End(new) <= list[j].base \/ End(list[j]) <= new.base
  <2>1. j \in 1..Len(list) /\ j \in (i - 1) + 1..Len(list) /\ i < j
    BY <1>3
  <2>2. End(list[i]) < list[j].base
    BY <2>1 DEF Sorted
  <2>3. End(block) <= list[j].base \/ End(list[j]) <= block.base
    BY <1>1, <2>1
  <2>4. list[j].base \in Int /\ End(list[j]) \in Int /\ list[j].base < End(list[j])
    BY <2>1, BlocksOf
  <2>. QED BY <1>2, <1>3, <1>4, <2>2, <2>3, <2>4
<1>8. ASSUME NEW x \in Int
      PROVE  (Within(x, new) \/ \E k \in 1..Len(kept) : Within(x, kept[k])) <=>
             (Within(x, freed) \/ \E j \in 1..i : Within(x, list[j]))
  <2>1. Within(x, new) <=> Within(x, block) \/ Within(x, list[i])
    BY <1>2, <1>3, <1>4 DEF Within
  <2>2. (\E j \in 1..i : Within(x, list[j])) <=> (Within(x, list[i]) \/ \E j \in 1..i - 1 : Within(x, list[j]))
    <3>1. \A j : j \in 1..i <=> j = i \/ j \in 1..i - 1
      BY <1>3
    <3>. QED BY <3>1
  <2>. QED BY <1>1, <2>1, <2>2
<1>. QED BY <1>1, <1>5, <1>6, <1>7, <1>8, <1>9 DEF Passed

\* A block that does not touch the freed one is kept.
LEMMA MergeKept ==
    ASSUME NEW list \in Seq(Blocks), Sorted(list), NEW freed, NEW acc, NEW i \in 1..Len(list),
           Passed(list, freed, acc, i - 1), NEW next,
           End(acc.block) # list[i].base, End(list[i]) # acc.block.base,
           next.block = acc.block, next.kept = Append(acc.kept, list[i])
    PROVE  Passed(list, freed, next, i)
<1> DEFINE block == acc.block
           kept  == acc.kept
           new   == next.kept
           n     == Len(kept)
<1>1. /\ block \in Blocks /\ kept \in Seq(Blocks)
      /\ Sorted(kept)
      /\ \A k \in 1..Len(kept) : \E j \in 1..i - 1 : kept[k] = list[j]
      /\ \A k \in 1..Len(kept) : Apart(kept[k], block)
      /\ \A j \in (i - 1) + 1..Len(list) : End(block) <= list[j].base \/ End(list[j]) <= block.base
      /\ \A x \in Int : (Within(x, block) \/ \E k \in 1..Len(kept) : Within(x, kept[k])) <=>
                        (Within(x, freed) \/ \E j \in 1..i - 1 : Within(x, list[j]))
  BY DEF Passed
<1>2. block.base \in Int /\ End(block) \in Int /\ block.base < End(block)
  BY <1>1, BlockFacts
<1>3. /\ Len(list) \in Nat /\ i \in Int /\ list[i] \in Blocks /\ n \in Nat
      /\ list[i].base \in Int /\ End(list[i]) \in Int /\ list[i].base < End(list[i])
  BY <1>1, BlocksOf
<1>4. /\ new \in Seq(Blocks) /\ Len(new) = n + 1 /\ new[n + 1] = list[i]
      /\ \A k \in 1..n : new[k] = kept[k]
  BY <1>1, <1>3, AppendIs
<1>5. End(block) # list[i].base /\ End(list[i]) # block.base /\ next.block = block
  OBVIOUS
<1>. HIDE DEF block, kept, new, n
<1>6. ASSUME NEW k \in 1..n
      PROVE  /\ \E j \in 1..i - 1 : kept[k] = list[j]
             /\ End(kept[k]) < list[i].base
  <2>1. PICK j \in 1..i - 1 : kept[k] = list[j]
    BY <1>1 DEF n
  <2>2. j \in 1..Len(list) /\ j < i
    BY <1>3
  <2>. QED BY <2>1, <2>2 DEF Sorted
<1>7. Sorted(new)
  <2>1. ASSUME NEW k \in 1..n + 1, NEW l \in 1..n + 1, k < l PROVE End(new[k]) < new[l].base
    <3>1. CASE l = n + 1
      BY <1>3, <1>4, <1>6, <2>1, <3>1
    <3>2. CASE l # n + 1
      <4>1. k \in 1..n /\ l \in 1..n
        BY <1>3, <2>1, <3>2
      <4>2. End(kept[k]) < kept[l].base
        BY <1>1, <2>1, <4>1 DEF Sorted, n
      <4>. QED BY <1>4, <4>1, <4>2
    <3>. QED BY <3>1, <3>2
  <2>. QED BY <1>4, <2>1 DEF Sorted
<1>8. ASSUME NEW k \in 1..n + 1 PROVE \E j \in 1..i : new[k] = list[j]
  <2>1. CASE k = n + 1
    BY <1>3, <1>4, <2>1
  <2>2. CASE k # n + 1
    <3>1. k \in 1..n
      BY <1>3, <2>2
    <3>2. PICK j \in 1..i - 1 : kept[k] = list[j]
      BY <1>6, <3>1
    <3>. QED BY <1>4, <3>1, <3>2
  <2>. QED BY <2>1, <2>2
<1>9. ASSUME NEW k \in 1..n + 1 PROVE Apart(new[k], block)
  <2>1. CASE k = n + 1
    <3>1. i \in (i - 1) + 1..Len(list)
      BY <1>3
    <3>2. End(block) <= list[i].base \/ End(list[i]) <= block.base
      BY <1>1, <3>1
    <3>. QED BY <1>2, <1>3, <1>4, <1>5, <2>1, <3>2 DEF Apart
  <2>2. CASE k # n + 1
    <3>1. k \in 1..n
      BY <1>3, <2>2
    <3>. QED BY <1>1, <1>4, <3>1 DEF n
  <2>. QED BY <2>1, <2>2
<1>10. \A j \in i + 1..Len(list) : End(block) <= list[j].base \/ End(list[j]) <= block.base
  <2>1. \A j \in i + 1..Len(list) : j \in (i - 1) + 1..Len(list)
    BY <1>3
  <2>. QED BY <1>1, <2>1
<1>11. ASSUME NEW x \in Int
       PROVE  (Within(x, block) \/ \E k \in 1..n + 1 : Within(x, new[k])) <=>
              (Within(x, freed) \/ \E j \in 1..i : Within(x, list[j]))
  <2>1. (\E k \in 1..n + 1 : Within(x, new[k])) <=> (Within(x, list[i]) \/ \E k \in 1..n : Within(x, kept[k]))
    <3>1. \A k : k \in 1..n + 1 <=> k = n + 1 \/ k \in 1..n
      BY <1>3
    <3>. QED BY <1>4, <3>1
  <2>2. (\E j \in 1..i : Within(x, list[j])) <=> (Within(x, list[i]) \/ \E j \in 1..i - 1 : Within(x, list[j]))
    <3>1. \A j : j \in 1..i <=> j = i \/ j \in 1..i - 1
      BY <1>3
    <3>. QED BY <3>1
  <2>. QED BY <1>1, <2>1, <2>2 DEF n
<1>. QED BY <1>1, <1>4, <1>5, <1>7, <1>8, <1>9, <1>10, <1>11 DEF Passed, new

\* What the pass over the list carries along.
IsAcc(acc) == \E block, kept : acc = [block |-> block, kept |-> kept]

\* The pass goes on with the next block.
LEMMA PassStep ==
    ASSUME NEW list \in Seq(Blocks), Sorted(list), NEW freed, NEW i \in 1..Len(list), NEW acc,
           IsAcc(acc), Passed(list, freed, acc, i - 1)
    PROVE  Passed(list, freed, Merge(acc, list[i]), i) /\ IsAcc(Merge(acc, list[i]))
<1>0. PICK block, kept : acc = [block |-> block, kept |-> kept]
  BY DEF IsAcc
<1> DEFINE b   == list[i]
           up  == Block(block.base, block.property + b.property)
           down == Block(b.base, b.property + block.property)
<1>1. block \in Blocks /\ b \in Blocks
  BY <1>0, BlocksOf DEF Passed
<1>2. /\ block.base \in Int /\ b.base \in Int
      /\ block.property \in Nat \ {0} /\ b.property \in Nat \ {0}
      /\ End(block) = block.base + block.property /\ End(b) = b.base + b.property
  BY <1>1 DEF Blocks, End
<1>3. /\ up \in Blocks /\ up.base = block.base /\ End(up) = End(block) + b.property
      /\ down \in Blocks /\ down.base = b.base /\ End(down) = End(b) + block.property
  <2>1. block.property + b.property \in Nat \ {0} /\ b.property + block.property \in Nat \ {0}
    BY <1>2
  <2>2. up \in Blocks /\ up.base = block.base /\ End(up) = block.base + (block.property + b.property)
    BY <1>2, <2>1, BlockIs
  <2>3. down \in Blocks /\ down.base = b.base /\ End(down) = b.base + (b.property + block.property)
    BY <1>2, <2>1, BlockIs
  <2>. HIDE DEF up, down, b
  <2>. QED BY <1>2, <2>2, <2>3
<1>4. acc.block = block /\ acc.kept = kept
  BY <1>0
<1>5. CASE End(block) = b.base
  <2>1. Merge(acc, b) = [block |-> up, kept |-> kept]
    BY <1>0, <1>4, <1>5 DEF Merge
  <2>2. End(up) = End(b)
    BY <1>2, <1>3, <1>5
  <2>. HIDE DEF up, down
  <2>3. Passed(list, freed, [block |-> up, kept |-> kept], i)
    BY <1>3, <1>4, <1>5, <2>2, MergeTouching
  <2>. QED BY <2>1, <2>3 DEF IsAcc
<1>6. CASE End(block) # b.base /\ End(b) = block.base
  <2>1. Merge(acc, b) = [block |-> down, kept |-> kept]
    BY <1>0, <1>4, <1>6 DEF Merge
  <2>2. End(down) = End(block)
    BY <1>2, <1>3, <1>6
  <2>. HIDE DEF up, down
  <2>3. Passed(list, freed, [block |-> down, kept |-> kept], i)
    BY <1>3, <1>4, <1>6, <2>2, MergeTouching
  <2>. QED BY <2>1, <2>3 DEF IsAcc
<1>7. CASE End(block) # b.base /\ End(b) # block.base
  <2>1. Merge(acc, b) = [block |-> block, kept |-> Append(kept, b)]
    BY <1>0, <1>4, <1>7 DEF Merge
  <2>. HIDE DEF up, down
  <2>2. Passed(list, freed, [block |-> block, kept |-> Append(kept, b)], i)
    BY <1>4, <1>7, MergeKept
  <2>. QED BY <2>1, <2>2 DEF IsAcc
<1>. QED BY <1>5, <1>6, <1>7

\* f gives what the pass over the first n blocks of the list makes of the freed one.
IsPass(f, list, freed, n) ==
    /\ f = [i \in 0..n |-> f[i]]
    /\ f[0] = [block |-> freed, kept |-> << >>]
    /\ \A i \in 1..n : f[i] = Merge(f[i - 1], list[i])

\* There is such a pass.
LEMMA PassExists ==
    ASSUME NEW list, NEW freed, NEW n \in Nat
    PROVE  \E f : IsPass(f, list, freed, n)
<1> DEFINE S == {m \in Nat : \E f : IsPass(f, list, freed, m)}
<1>1. 0 \in S
  <2> DEFINE g == [i \in 0..0 |-> [block |-> freed, kept |-> << >>]]
  <2>1. 0 \in 0..0 /\ \A i : i \notin 1..0
    OBVIOUS
  <2>2. g[0] = [block |-> freed, kept |-> << >>] /\ g = [i \in 0..0 |-> g[i]]
    BY <2>1
  <2>. HIDE DEF g
  <2>3. IsPass(g, list, freed, 0)
    BY <2>1, <2>2 DEF IsPass
  <2>. QED BY <2>3
<1>2. ASSUME NEW m \in Nat, m \in S PROVE m + 1 \in S
  <2>1. PICK f : IsPass(f, list, freed, m)
    BY <1>2
  <2> DEFINE next == Merge(f[m], list[m + 1])
             g == [i \in 0..m + 1 |-> IF i <= m THEN f[i] ELSE next]
  <2>2. /\ f[0] = [block |-> freed, kept |-> << >>]
        /\ \A i \in 1..m : f[i] = Merge(f[i - 1], list[i])
    BY <2>1 DEF IsPass
  <2>3. g = [i \in 0..m + 1 |-> g[i]] /\ g[m + 1] = next /\ \A i \in 0..m : g[i] = f[i]
    <3>. HIDE DEF next
    <3>. QED OBVIOUS
  <2>. HIDE DEF g
  <2>4. ASSUME NEW i \in 1..m + 1 PROVE g[i] = Merge(g[i - 1], list[i])
    <3>1. CASE i = m + 1
      <4>1. i - 1 = m /\ m \in 0..m
        BY <3>1
      <4>2. g[i - 1] = f[m]
        BY <2>3, <4>1
      <4>. QED BY <2>3, <3>1, <4>2
    <3>2. CASE i # m + 1
      <4>1. i \in 1..m /\ i - 1 \in 0..m /\ i \in 0..m
        BY <3>2
      <4>2. g[i] = f[i] /\ g[i - 1] = f[i - 1]
        BY <2>3, <4>1
      <4>. QED BY <2>2, <4>1, <4>2
    <3>. QED BY <3>1, <3>2
  <2>5. g[0] = [block |-> freed, kept |-> << >>]
    <3>1. 0 \in 0..m
      OBVIOUS
    <3>. QED BY <2>2, <2>3, <3>1
  <2>6. IsPass(g, list, freed, m + 1)
    BY <2>3, <2>4, <2>5 DEF IsPass
  <2>. QED BY <2>6
<1>3. Nat \subseteq S
  <2>. HIDE DEF S
  <2>. QED BY <1>1, <1>2, SetInduction
<1>. QED BY <1>3

\* After every block of the list the freed one and the kept ones are as Passed says.
LEMMA PassIs ==
    ASSUME NEW list \in Seq(Blocks), Sorted(list), NEW freed \in Blocks, NEW f,
           IsPass(f, list, freed, Len(list)),
           \A j \in 1..Len(list) : End(freed) <= list[j].base \/ End(list[j]) <= freed.base
    PROVE  Passed(list, freed, f[Len(list)], Len(list))
<1> DEFINE Good(m) == Passed(list, freed, f[m], m) /\ IsAcc(f[m])
           S == {m \in Nat : m <= Len(list) => Good(m)}
<1>0. Len(list) \in Nat
  OBVIOUS
<1>1. 0 \in S
  <2> DEFINE acc == [block |-> freed, kept |-> << >>]
  <2>1. acc.block = freed /\ acc.kept = << >>
    OBVIOUS
  <2>4. << >> \in Seq(Blocks) /\ Len(<< >>) = 0
    BY EmptySeq
  <2>2. f[0] = acc
    BY DEF IsPass
  <2>. HIDE DEF acc
  <2>3. Passed(list, freed, acc, 0)
    <3>1. \A j : j \in 0 + 1..Len(list) => j \in 1..Len(list)
      OBVIOUS
    <3>2. 1..0 = {}
      OBVIOUS
    <3>3. Sorted(acc.kept)
      BY <2>1, <2>4, <3>2 DEF Sorted
    <3>. QED BY <2>1, <2>4, <3>1, <3>2, <3>3 DEF Passed
  <2>5. IsAcc(acc)
    BY DEF acc, IsAcc
  <2>. QED BY <2>2, <2>3, <2>5
<1>2. ASSUME NEW m \in Nat, m \in S PROVE m + 1 \in S
  <2>. SUFFICES ASSUME m + 1 <= Len(list) PROVE Good(m + 1)
    OBVIOUS
  <2>1. m + 1 \in 1..Len(list) /\ (m + 1) - 1 = m /\ m <= Len(list)
    BY <1>0
  <2>2. Good(m)
    BY <1>2, <2>1
  <2>3. f[m + 1] = Merge(f[m], list[m + 1])
    BY <2>1 DEF IsPass
  <2>4. Passed(list, freed, f[m], (m + 1) - 1)
    BY <2>1, <2>2
  <2>. HIDE DEF S
  <2>5. Passed(list, freed, Merge(f[m], list[m + 1]), m + 1) /\ IsAcc(Merge(f[m], list[m + 1]))
    BY <2>1, <2>2, <2>4, PassStep
  <2>. QED BY <2>3, <2>5
<1>3. Nat \subseteq S
  <2>. HIDE DEF S
  <2>. QED BY <1>1, <1>2, SetInduction
<1>. QED BY <1>0, <1>3

\* The place for a block: in front of the first one that lies behind it.
IsPlace(list, block, i) ==
    /\ i \in 1..Len(list) + 1
    /\ \A j \in 1..Len(list) : j < i => ~(End(block) <= list[j].base)
    /\ i <= Len(list) => End(block) <= list[i].base

PlaceFor(list, block) ==
    LET behind == {j \in DOMAIN list : End(block) <= list[j].base}
    IN  IF behind = {} THEN Len(list) + 1
        ELSE CHOOSE j \in behind : \A k \in behind : j <= k

\* The place that default_free_pages finds.
LEMMA PlaceExists ==
    ASSUME NEW list \in Seq(Blocks), NEW block \in Blocks
    PROVE  IsPlace(list, block, PlaceFor(list, block))
<1> DEFINE behind == {j \in DOMAIN list : End(block) <= list[j].base}
           place == PlaceFor(list, block)
<1>0. place = IF behind = {} THEN Len(list) + 1
              ELSE CHOOSE j \in behind : \A k \in behind : j <= k
  BY DEF PlaceFor
<1>. HIDE DEF place
<1>1. Len(list) \in Nat /\ DOMAIN list = 1..Len(list)
  OBVIOUS
<1>2. \A j : j \in behind <=> j \in 1..Len(list) /\ End(block) <= list[j].base
  BY <1>1
<1>. HIDE DEF behind
<1>3. IsPlace(list, block, place)
  <2>a. CASE behind = {}
    BY <1>0, <1>1, <1>2, <2>a DEF IsPlace
  <2>b. CASE behind # {}
    <3>1. behind \subseteq Nat
      BY <1>2
    <3>2. \E j \in behind : \A k \in behind : j <= k
      BY <2>b, <3>1, NatLeast
    <3>3. place \in behind /\ \A k \in behind : place <= k
      BY <1>0, <2>b, <3>2
    <3>4. place \in 1..Len(list) /\ End(block) <= list[place].base
      BY <1>2, <3>3
    <3>5. ASSUME NEW j \in 1..Len(list), j < place PROVE ~(End(block) <= list[j].base)
      <4>1. j \notin behind
        BY <3>3, <3>4, <3>5
      <4>. QED BY <1>2, <4>1
    <3>. QED BY <1>1, <3>4, <3>5 DEF IsPlace
  <2>. QED BY <2>a, <2>b
<1>. QED BY <1>3 DEF place

\* The block put at its place leaves the list in order.
LEMMA PlacedSorted ==
    ASSUME NEW list \in Seq(Blocks), Sorted(list), NEW block \in Blocks, NEW i, IsPlace(list, block, i),
           \A k \in 1..Len(list) : Apart(list[k], block)
    PROVE  InsertAt(list, i, block) \in Seq(Blocks) /\ Sorted(InsertAt(list, i, block))
<1> DEFINE new == InsertAt(list, i, block)
           n == Len(list)
<1>1. n \in Nat /\ i \in 1..n + 1
  BY DEF IsPlace
<1>2. /\ new \in Seq(Blocks) /\ Len(new) = n + 1
      /\ \A j \in 1..n + 1 : new[j] = IF j < i THEN list[j] ELSE IF j = i THEN block ELSE list[j - 1]
  BY <1>1, InsertIs
<1>3. block.base \in Int /\ End(block) \in Int /\ block.base < End(block)
  BY BlockFacts
<1>4. \A j \in 1..n : list[j].base \in Int /\ End(list[j]) \in Int /\ list[j].base < End(list[j])
  BY BlocksOf
<1>5. \A j \in 1..n : j < i => End(list[j]) < block.base
  <2>1. ASSUME NEW j \in 1..n, j < i PROVE End(list[j]) < block.base
    <3>1. ~(End(block) <= list[j].base)
      BY <2>1 DEF IsPlace
    <3>. QED BY <1>3, <1>4, <3>1 DEF Apart
  <2>. QED BY <2>1
<1>6. \A j \in 1..n : i <= j => End(block) < list[j].base
  <2>1. ASSUME NEW j \in 1..n, i <= j PROVE End(block) < list[j].base
    <3>1. i \in 1..n /\ End(block) <= list[i].base
      BY <1>1, <2>1 DEF IsPlace
    <3>2. End(block) < list[i].base
      BY <1>3, <1>4, <3>1 DEF Apart
    <3>3. j = i \/ End(list[i]) < list[j].base
      BY <1>1, <2>1, <3>1 DEF Sorted
    <3>. QED BY <1>3, <1>4, <3>1, <3>2, <3>3
  <2>. QED BY <2>1
<1>. HIDE DEF new, n
<1>7. ASSUME NEW j \in 1..n + 1, NEW k \in 1..n + 1, j < k PROVE End(new[j]) < new[k].base
  <2>1. CASE k < i
    <3>1. j \in 1..n /\ k \in 1..n /\ j < i
      BY <1>1, <1>7, <2>1
    <3>2. End(list[j]) < list[k].base
      BY <1>7, <3>1 DEF Sorted, n
    <3>. QED BY <1>2, <2>1, <3>1, <3>2
  <2>2. CASE k = i
    <3>1. j \in 1..n /\ j < i
      BY <1>1, <1>7, <2>2
    <3>. QED BY <1>2, <1>5, <2>2, <3>1
  <2>3. CASE k > i /\ j < i
    <3>1. j \in 1..n /\ k - 1 \in 1..n /\ j < k - 1 /\ ~(k < i) /\ k # i
      BY <1>1, <1>7, <2>3
    <3>2. End(list[j]) < list[k - 1].base
      BY <3>1 DEF Sorted, n
    <3>. QED BY <1>2, <2>3, <3>1, <3>2
  <2>4. CASE k > i /\ j = i
    <3>1. k - 1 \in 1..n /\ i <= k - 1 /\ ~(k < i) /\ k # i
      BY <1>1, <1>7, <2>4
    <3>. QED BY <1>2, <1>6, <2>4, <3>1
  <2>5. CASE k > i /\ j > i
    <3>1. j - 1 \in 1..n /\ k - 1 \in 1..n /\ j - 1 < k - 1 /\ ~(k < i) /\ k # i /\ ~(j < i) /\ j # i
      BY <1>1, <1>7, <2>5
    <3>2. End(list[j - 1]) < list[k - 1].base
      BY <3>1 DEF Sorted, n
    <3>. QED BY <1>2, <2>5, <3>1, <3>2
  <2>6. k < i \/ k = i \/ (k > i /\ j < i) \/ (k > i /\ j = i) \/ (k > i /\ j > i)
    BY <1>1
  <2>. QED BY <2>1, <2>2, <2>3, <2>4, <2>5, <2>6
<1>. QED BY <1>2, <1>7 DEF Sorted, new

\* A list of blocks with a block more.
LEMMA InsertBlock ==
    ASSUME NEW list \in Seq(Blocks), NEW block \in Blocks, NEW i \in 1..Len(list) + 1
    PROVE  /\ InsertAt(list, i, block) \in Seq(Blocks)
           /\ Len(InsertAt(list, i, block)) = Len(list) + 1
           /\ \A j \in 1..Len(list) + 1 : InsertAt(list, i, block)[j] =
                 IF j < i THEN list[j] ELSE IF j = i THEN block ELSE list[j - 1]
BY InsertIs

\* The frames of a list with a block more.
LEMMA PlacedHolds ==
    ASSUME NEW list \in Seq(Blocks), NEW block \in Blocks, NEW i \in 1..Len(list) + 1, NEW x \in Int
    PROVE  (\E k \in 1..Len(InsertAt(list, i, block)) : Within(x, InsertAt(list, i, block)[k])) <=>
           (Within(x, block) \/ \E k \in 1..Len(list) : Within(x, list[k]))
<1> DEFINE new == InsertAt(list, i, block)
           n == Len(list)
<1>1. n \in Nat /\ i \in 1..n + 1
  OBVIOUS
<1>2. /\ new \in Seq(Blocks) /\ Len(new) = n + 1
      /\ \A j \in 1..n + 1 : new[j] = IF j < i THEN list[j] ELSE IF j = i THEN block ELSE list[j - 1]
  BY ZenonT(30), InsertBlock
<1>. HIDE DEF new, n
<1>3. ASSUME NEW k \in 1..n + 1, Within(x, new[k])
      PROVE  Within(x, block) \/ \E j \in 1..n : Within(x, list[j])
  <2>1. CASE k < i
    <3>1. k \in 1..n /\ new[k] = list[k]
      BY <1>1, <1>2, <2>1
    <3>. QED BY <1>3, <3>1
  <2>2. CASE k = i
    BY <1>2, <1>3, <2>2
  <2>3. CASE k > i
    <3>1. k - 1 \in 1..n /\ ~(k < i) /\ k # i
      BY <1>1, <2>3
    <3>2. new[k] = list[k - 1]
      BY <1>2, <3>1
    <3>. QED BY <1>3, <3>1, <3>2
  <2>4. k < i \/ k = i \/ k > i
    BY <1>1
  <2>. QED BY <2>1, <2>2, <2>3, <2>4
<1>4. ASSUME Within(x, block) PROVE \E k \in 1..n + 1 : Within(x, new[k])
  BY <1>1, <1>2, <1>4
<1>5. ASSUME NEW j \in 1..n, Within(x, list[j]) PROVE \E k \in 1..n + 1 : Within(x, new[k])
  <2>1. CASE j < i
    <3>1. j \in 1..n + 1 /\ new[j] = list[j]
      BY <1>1, <1>2, <2>1
    <3>. QED BY <1>5, <3>1
  <2>2. CASE j >= i
    <3>1. j + 1 \in 1..n + 1 /\ ~(j + 1 < i) /\ j + 1 # i /\ (j + 1) - 1 = j
      BY <1>1, <2>2
    <3>2. new[j + 1] = list[j]
      BY <1>2, <3>1
    <3>. QED BY <1>5, <3>1, <3>2
  <2>3. j < i \/ j >= i
    BY <1>1
  <2>. QED BY <2>1, <2>2, <2>3
<1>. QED BY <1>2, <1>3, <1>4, <1>5 DEF new, n

\* The pass as FreePages writes it.
Pass(list, freed) ==
    CHOOSE f : f = [i \in 0..Len(list) |-> IF i = 0 THEN [block |-> freed, kept |-> << >>]
                                           ELSE Merge(f[i - 1], list[i])]

\* There is one pass, and FreePages describes it.
LEMMA PassChosen ==
    ASSUME NEW list, Len(list) \in Nat, NEW freed
    PROVE  IsPass(Pass(list, freed), list, freed, Len(list))
<1> DEFINE n == Len(list)
           F(f) == [i \in 0..n |-> IF i = 0 THEN [block |-> freed, kept |-> << >>]
                                   ELSE Merge(f[i - 1], list[i])]
           pass == CHOOSE f : f = F(f)
<1>1. PICK f : IsPass(f, list, freed, n)
  BY PassExists
<1>2. f = F(f)
  <2>1. f = [i \in 0..n |-> f[i]]
    BY <1>1 DEF IsPass
  <2>2. \A i \in 0..n : f[i] = IF i = 0 THEN [block |-> freed, kept |-> << >>]
                               ELSE Merge(f[i - 1], list[i])
    <3>1. \A i \in 0..n : i # 0 => i \in 1..n
      OBVIOUS
    <3>. QED BY <1>1, <3>1 DEF IsPass
  <2>. QED BY <2>1, <2>2
<1>3. pass = F(pass)
  <2>. HIDE DEF F
  <2>. QED BY <1>2
<1>4. Pass(list, freed) = pass
  BY DEF Pass
<1>. HIDE DEF pass
<1>5. \A i \in 0..n : pass[i] = IF i = 0 THEN [block |-> freed, kept |-> << >>]
                                ELSE Merge(pass[i - 1], list[i])
  BY <1>3
<1>6. pass = [i \in 0..n |-> pass[i]]
  BY <1>3, <1>5
<1>7. 0 \in 0..n /\ \A i \in 1..n : i \in 0..n /\ i # 0
  OBVIOUS
<1>8. pass[0] = [block |-> freed, kept |-> << >>]
  BY <1>5, <1>7
<1>9. \A i \in 1..n : pass[i] = Merge(pass[i - 1], list[i])
  BY <1>5, <1>7
<1>. QED BY <1>4, <1>6, <1>8, <1>9 DEF IsPass

\* What default_free_pages makes of the list.
LEMMA FreedLists ==
    ASSUME NEW list, NEW F, Lists(list, F), NEW base \in Int, NEW n \in Nat \ {0},
           \A x \in Int : Within(x, Block(base, n)) => x \notin F,
           NEW acc, acc = Pass(list, Block(base, n))[Len(list)]
    PROVE  Lists(InsertAt(acc.kept, PlaceFor(acc.kept, acc.block), acc.block),
                 F \cup (base .. base + n - 1))
<1> DEFINE freed == Block(base, n)
           kept  == acc.kept
           block == acc.block
           place == PlaceFor(kept, block)
           new   == InsertAt(kept, place, block)
<1>1. list \in Seq(Blocks) /\ Sorted(list) /\ Len(list) \in Nat
  BY DEF Lists
<1>2. freed \in Blocks /\ freed.base = base /\ End(freed) = base + n
  BY BlockIs
<1>3. ASSUME NEW j \in 1..Len(list) PROVE End(freed) <= list[j].base \/ End(list[j]) <= freed.base
  <2>1. list[j].base \in Int /\ End(list[j]) \in Int /\ list[j].base < End(list[j])
    BY <1>1, BlocksOf
  <2>2. \A x \in Int : Within(x, list[j]) => ~ Within(x, freed)
    BY DEF Lists
  <2>3. ~ (list[j].base < End(freed) /\ freed.base < End(list[j]))
    <3>1. CASE list[j].base <= base
      <4>1. ~ Within(base, list[j]) \/ ~ Within(base, freed)
        BY <2>2
      <4>. QED BY <1>2, <2>1, <3>1, <4>1 DEF Within
    <3>2. CASE base < list[j].base
      <4>1. ~ Within(list[j].base, list[j]) \/ ~ Within(list[j].base, freed)
        BY <2>1, <2>2
      <4>. QED BY <1>2, <2>1, <3>2, <4>1 DEF Within
    <3>. QED BY <2>1, <3>1, <3>2
  <2>. QED BY <1>2, <2>1, <2>3
<1>4. Passed(list, freed, acc, Len(list))
  <2>1. IsPass(Pass(list, freed), list, freed, Len(list))
    BY <1>1, PassChosen
  <2>. HIDE DEF freed
  <2>2. Passed(list, freed, Pass(list, freed)[Len(list)], Len(list))
    BY <1>1, <1>2, <1>3, <2>1, PassIs
  <2>. QED BY <2>2 DEF freed
<1>5. /\ block \in Blocks /\ kept \in Seq(Blocks)
      /\ Sorted(kept)
      /\ \A k \in 1..Len(kept) : Apart(kept[k], block)
      /\ \A x \in Int : (Within(x, block) \/ \E k \in 1..Len(kept) : Within(x, kept[k])) <=>
                        (Within(x, freed) \/ \E j \in 1..Len(list) : Within(x, list[j]))
  BY <1>4 DEF Passed
<1>6. IsPlace(kept, block, place)
  BY <1>5, PlaceExists
<1>7. place \in 1..Len(kept) + 1
  BY <1>6 DEF IsPlace
<1>8. new \in Seq(Blocks) /\ Sorted(new)
  BY <1>5, <1>6, PlacedSorted
<1>9. ASSUME NEW x \in Int
      PROVE  x \in F \cup (base .. base + n - 1) <=> \E k \in 1..Len(new) : Within(x, new[k])
  <2>1. (\E k \in 1..Len(new) : Within(x, new[k])) <=>
        (Within(x, block) \/ \E k \in 1..Len(kept) : Within(x, kept[k]))
    <3>. HIDE DEF kept, block, place
    <3>. QED BY <1>5, <1>7, PlacedHolds
  <2>2. x \in F <=> \E j \in 1..Len(list) : Within(x, list[j])
    BY DEF Lists
  <2>3. Within(x, freed) <=> x \in base .. base + n - 1
    BY <1>2 DEF Within
  <2>. HIDE DEF new, kept, block, freed
  <2>. QED BY <1>5, <2>1, <2>2, <2>3
<1>10. F \cup (base .. base + n - 1) \subseteq Int
  BY DEF Lists
<1>. HIDE DEF new
<1>11. Lists(new, F \cup (base .. base + n - 1))
  BY <1>8, <1>9, <1>10 DEF Lists
<1>. QED BY <1>11 DEF new

\* free_pages.
LEMMA FreePagesKeeps ==
    ASSUME Lists(free_list, free), NEW base \in Int, NEW n \in Nat \ {0}, FreePages(base, n),
           \A x \in Int : Within(x, Block(base, n)) => x \notin free,
           free' = free \cup (base .. base + n - 1)
    PROVE  Lists(free_list, free)' /\ nr_free' = nr_free + n
<1> DEFINE acc == Pass(free_list, Block(base, n))[Len(free_list)]
<1>1. free_list' = InsertAt(acc.kept, PlaceFor(acc.kept, acc.block), acc.block)
  BY DEF FreePages, Pass, PlaceFor
<1>2. Lists(free_list', free \cup (base .. base + n - 1))
  <2>. HIDE DEF acc
  <2>1. acc = Pass(free_list, Block(base, n))[Len(free_list)]
    BY DEF acc
  <2>2. Lists(InsertAt(acc.kept, PlaceFor(acc.kept, acc.block), acc.block),
              free \cup (base .. base + n - 1))
    BY <2>1, FreedLists
  <2>. QED BY <1>1, <2>2
<1>3. nr_free' = nr_free + n
  BY DEF FreePages
<1>. QED BY <1>2, <1>3

\* A block that is not taken whole.
LEMMA TrimmedLists ==
    ASSUME NEW list, NEW F, Lists(list, F), NEW i \in 1..Len(list), NEW n \in Nat \ {0},
           list[i].property > n
    PROVE  Lists([list EXCEPT ![i] = Block(list[i].base + n, list[i].property - n)],
                 F \ (list[i].base .. list[i].base + n - 1))
<1> DEFINE b == list[i]
           c == Block(b.base + n, b.property - n)
           new == [list EXCEPT ![i] = c]
<1>1. list \in Seq(Blocks) /\ Sorted(list) /\ Len(list) \in Nat
  BY DEF Lists
<1>2. /\ b.base \in Int /\ b.property \in Nat /\ End(b) = b.base + b.property
      /\ b.property > n
  BY <1>1, BlocksOf, BlockFacts
<1>3. c \in Blocks /\ c.base = b.base + n /\ End(c) = End(b)
  <2>1. b.base + n \in Int /\ b.property - n \in Nat \ {0}
    BY <1>2
  <2>2. c \in Blocks /\ c.base = b.base + n /\ End(c) = (b.base + n) + (b.property - n)
    BY <2>1, BlockIs
  <2>. HIDE DEF b, c
  <2>. QED BY <1>2, <2>2
<1>. HIDE DEF b, c
<1>4. /\ new \in Seq(Blocks) /\ Len(new) = Len(list)
      /\ \A j \in 1..Len(list) : new[j] = IF j = i THEN c ELSE list[j]
  BY <1>1, <1>3, ExceptSeq
<1>5. \A j \in 1..Len(list) : list[j].base \in Int /\ End(list[j]) \in Int /\ list[j].base < End(list[j])
  BY <1>1, BlocksOf
<1>b. b = list[i]
  BY DEF b
<1>. HIDE DEF new
<1>6. \A j \in 1..Len(list) : new[j].base = (IF j = i THEN b.base + n ELSE list[j].base)
                              /\ End(new[j]) = End(list[j])
  BY <1>3, <1>4, <1>b
<1>7. ASSUME NEW j \in 1..Len(list), NEW k \in 1..Len(list), j < k PROVE End(new[j]) < new[k].base
  <2>1. End(list[j]) < list[k].base
    BY <1>1, <1>7 DEF Sorted
  <2>. QED BY <1>2, <1>5, <1>6, <1>b, <2>1
<1>8. Sorted(new)
  BY <1>4, <1>7 DEF Sorted
<1>9. ASSUME NEW x \in Int
      PROVE  x \in F \ (b.base .. b.base + n - 1) <=> \E k \in 1..Len(new) : Within(x, new[k])
  <2>1. x \in F <=> \E k \in 1..Len(list) : Within(x, list[k])
    BY DEF Lists
  <2>2. ASSUME NEW k \in 1..Len(list), k # i, Within(x, list[k]) PROVE x \notin b.base .. b.base + n - 1
    <3>1. CASE k < i
      <4>1. End(list[k]) < b.base
        BY <1>1, <1>b, <3>1 DEF Sorted
      <4>. QED BY <1>2, <1>5, <2>2, <4>1 DEF Within
    <3>2. CASE k > i
      <4>1. End(b) < list[k].base
        BY <1>1, <1>b, <3>2 DEF Sorted
      <4>. QED BY <1>2, <1>5, <2>2, <4>1 DEF Within
    <3>3. k < i \/ k > i
      BY <1>1, <2>2
    <3>. QED BY <3>1, <3>2, <3>3
  <2>3. Within(x, new[i]) <=> Within(x, b) /\ x \notin b.base .. b.base + n - 1
    BY <1>2, <1>5, <1>6, <1>b DEF Within
  <2>4. \A k \in 1..Len(list) : k # i => (Within(x, new[k]) <=> Within(x, list[k]))
    BY <1>6 DEF Within
  <2>5. ASSUME NEW k \in 1..Len(list), Within(x, new[k]) PROVE x \in F \ (b.base .. b.base + n - 1)
    <3>1. CASE k = i
      BY <1>b, <2>1, <2>3, <2>5, <3>1
    <3>2. CASE k # i
      BY <2>1, <2>2, <2>4, <2>5, <3>2
    <3>. QED BY <3>1, <3>2
  <2>6. ASSUME x \in F, x \notin b.base .. b.base + n - 1 PROVE \E k \in 1..Len(list) : Within(x, new[k])
    <3>1. PICK k \in 1..Len(list) : Within(x, list[k])
      BY <2>1, <2>6
    <3>2. CASE k = i
      BY <1>b, <2>3, <2>6, <3>1, <3>2
    <3>3. CASE k # i
      BY <2>4, <3>1, <3>3
    <3>. QED BY <3>2, <3>3
  <2>. QED BY <1>4, <2>5, <2>6
<1>10. F \ (b.base .. b.base + n - 1) \subseteq Int
  BY DEF Lists
<1>11. Lists(new, F \ (b.base .. b.base + n - 1))
  BY <1>4, <1>8, <1>9, <1>10 DEF Lists
<1>. QED BY <1>11 DEF new, b, c

\* A block that is taken whole.
LEMMA RemovedLists ==
    ASSUME NEW list, NEW F, Lists(list, F), NEW i \in 1..Len(list)
    PROVE  Lists(RemoveAt(list, i), F \ (list[i].base .. End(list[i]) - 1))
<1> DEFINE b == list[i]
           new == RemoveAt(list, i)
<1>1. list \in Seq(Blocks) /\ Sorted(list) /\ Len(list) \in Nat
  BY DEF Lists
<1>2. /\ new \in Seq(Blocks) /\ Len(new) = Len(list) - 1
      /\ \A j \in 1..Len(list) - 1 : new[j] = IF j < i THEN list[j] ELSE list[j + 1]
  BY <1>1, RemoveIs
<1>3. \A j \in 1..Len(list) : list[j].base \in Int /\ End(list[j]) \in Int /\ list[j].base < End(list[j])
  BY <1>1, BlocksOf
<1>b. b = list[i]
  OBVIOUS
<1>. HIDE DEF new, b
<1>4. ASSUME NEW j \in 1..Len(list) - 1
      PROVE  \E k \in 1..Len(list) : k # i /\ new[j] = list[k]
  <2>1. CASE j < i
    <3>1. j \in 1..Len(list) /\ j # i
      BY <1>1, <2>1
    <3>. QED BY <1>2, <2>1, <3>1
  <2>2. CASE ~(j < i)
    <3>1. j + 1 \in 1..Len(list) /\ j + 1 # i
      BY <1>1, <2>2
    <3>. QED BY <1>2, <2>2, <3>1
  <2>. QED BY <2>1, <2>2
<1>5. ASSUME NEW k \in 1..Len(list), k # i
      PROVE  \E j \in 1..Len(list) - 1 : new[j] = list[k]
  <2>1. CASE k < i
    <3>1. k \in 1..Len(list) - 1
      BY <1>1, <2>1
    <3>. QED BY <1>2, <2>1, <3>1
  <2>2. CASE ~(k < i)
    <3>1. k - 1 \in 1..Len(list) - 1 /\ ~(k - 1 < i) /\ (k - 1) + 1 = k
      BY <1>1, <1>5, <2>2
    <3>2. new[k - 1] = list[k]
      BY <1>2, <3>1
    <3>. QED BY <3>1, <3>2
  <2>. QED BY <2>1, <2>2
<1>6. ASSUME NEW j \in 1..Len(list) - 1, NEW k \in 1..Len(list) - 1, j < k PROVE End(new[j]) < new[k].base
  <2>1. CASE k < i
    <3>1. j \in 1..Len(list) /\ k \in 1..Len(list) /\ j < i
      BY <1>1, <1>6, <2>1
    <3>2. End(list[j]) < list[k].base
      BY <1>1, <1>6, <3>1 DEF Sorted
    <3>. QED BY <1>2, <2>1, <3>1, <3>2
  <2>2. CASE ~(k < i) /\ j < i
    <3>1. j \in 1..Len(list) /\ k + 1 \in 1..Len(list) /\ j < k + 1
      BY <1>1, <1>6
    <3>2. End(list[j]) < list[k + 1].base
      BY <1>1, <3>1 DEF Sorted
    <3>. QED BY <1>2, <2>2, <3>2
  <2>3. CASE ~(k < i) /\ ~(j < i)
    <3>1. j + 1 \in 1..Len(list) /\ k + 1 \in 1..Len(list) /\ j + 1 < k + 1
      BY <1>1, <1>6
    <3>2. End(list[j + 1]) < list[k + 1].base
      BY <1>1, <3>1 DEF Sorted
    <3>. QED BY <1>2, <2>3, <3>2
  <2>4. k < i \/ (~(k < i) /\ j < i) \/ (~(k < i) /\ ~(j < i))
    OBVIOUS
  <2>. QED BY <2>1, <2>2, <2>3, <2>4
<1>7. Sorted(new)
  BY <1>2, <1>6 DEF Sorted
<1>8. ASSUME NEW x \in Int
      PROVE  x \in F \ (b.base .. End(b) - 1) <=> \E k \in 1..Len(new) : Within(x, new[k])
  <2>1. x \in F <=> \E k \in 1..Len(list) : Within(x, list[k])
    BY DEF Lists
  <2>2. Within(x, b) <=> x \in b.base .. End(b) - 1
    BY <1>3, <1>b DEF Within
  <2>3. ASSUME NEW k \in 1..Len(list), k # i, Within(x, list[k]) PROVE ~ Within(x, b)
    <3>1. CASE k < i
      <4>1. End(list[k]) < b.base
        BY <1>1, <1>b, <3>1 DEF Sorted
      <4>. QED BY <1>3, <1>b, <2>3, <4>1 DEF Within
    <3>2. CASE k > i
      <4>1. End(b) < list[k].base
        BY <1>1, <1>b, <3>2 DEF Sorted
      <4>. QED BY <1>3, <1>b, <2>3, <4>1 DEF Within
    <3>3. k < i \/ k > i
      BY <1>1, <2>3
    <3>. QED BY <3>1, <3>2, <3>3
  <2>4. (\E k \in 1..Len(new) : Within(x, new[k])) <=>
        (\E k \in 1..Len(list) : k # i /\ Within(x, list[k]))
    BY <1>2, <1>4, <1>5
  <2>. QED BY <1>b, <2>1, <2>2, <2>3, <2>4
<1>9. F \ (b.base .. End(b) - 1) \subseteq Int
  BY DEF Lists
<1>10. Lists(new, F \ (b.base .. End(b) - 1))
  BY <1>2, <1>7, <1>8, <1>9 DEF Lists
<1>. QED BY <1>10 DEF new, b

\* alloc_pages.
LEMMA AllocPagesKeeps ==
    ASSUME Lists(free_list, free), NEW page, NEW n \in Nat \ {0}, AllocPages(n, page),
           free' = free \ (page .. page + n - 1)
    PROVE  Lists(free_list, free)' /\ nr_free' = nr_free - n
<1>1. PICK i \in DOMAIN free_list :
        /\ free_list[i].property >= n
        /\ page = free_list[i].base
        /\ free_list' = IF free_list[i].property > n
                          THEN [free_list EXCEPT ![i] = Block(free_list[i].base + n, free_list[i].property - n)]
                          ELSE RemoveAt(free_list, i)
  BY DEF AllocPages
<1>2. i \in 1..Len(free_list) /\ free_list[i] \in Blocks
  BY BlocksOf DEF Lists
<1>3. free_list[i].base \in Int /\ free_list[i].property \in Nat
      /\ End(free_list[i]) = free_list[i].base + free_list[i].property
  BY <1>2, BlockFacts
<1>4. CASE free_list[i].property > n
  <2>1. Lists([free_list EXCEPT ![i] = Block(free_list[i].base + n, free_list[i].property - n)],
              free \ (free_list[i].base .. free_list[i].base + n - 1))
    BY <1>2, <1>4, TrimmedLists
  <2>. QED BY <1>1, <1>4, <2>1 DEF AllocPages
<1>5. CASE ~(free_list[i].property > n)
  <2>1. End(free_list[i]) - 1 = page + n - 1
    BY <1>1, <1>3, <1>5
  <2>2. Lists(RemoveAt(free_list, i), free \ (free_list[i].base .. End(free_list[i]) - 1))
    BY <1>2, RemovedLists
  <2>. QED BY <1>1, <1>5, <2>1, <2>2 DEF AllocPages
<1>. QED BY <1>4, <1>5

-----------------------------------------------------------------------------
(* Each step takes or gives back frames in a row, with one call.           *)

Row(a, n) == a .. a + n - 1

\* The frames of a kernel stack lie in a row.
Paired == \A p \in Procs : at[Kstack(p, 0)] # None => at[Kstack(p, 1)] = at[Kstack(p, 0)] + 1

\* The frames that change hands are a row, and go in one direction.
Moves ==
    \/ free' = free
    \/ \E a \in Int, n \in {1, 2} : Row(a, n) \subseteq free /\ free' = free \ Row(a, n)
    \/ \E a \in Int, n \in {1, 2} : Row(a, n) \cap free = {} /\ free' = free \cup Row(a, n)

\* A row of one or two frames, and what Listed reads off it.
LEMMA RowFacts ==
    ASSUME NEW a \in Int, NEW n \in {1, 2}
    PROVE  /\ Row(a, n) # {} /\ Row(a, n) = IF n = 1 THEN {a} ELSE {a, a + 1}
           /\ Least(Row(a, n)) = a
           /\ IsFiniteSet(Row(a, n)) /\ Cardinality(Row(a, n)) = n
<1>1. Row(a, n) = IF n = 1 THEN {a} ELSE {a, a + 1}
  <2>1. \A x : x \in Row(a, n) <=> x = a \/ (n = 2 /\ x = a + 1)
    BY DEF Row
  <2>2. n = 1 \/ n = 2
    OBVIOUS
  <2>. QED BY <2>1, <2>2
<1>2. IsFiniteSet(Row(a, n)) /\ Cardinality(Row(a, n)) = n
  <2> DEFINE b == a + n - 1
  <2>1. b \in Int /\ ~(a > b) /\ b - a + 1 = n
    OBVIOUS
  <2>2. Row(a, n) = a .. b
    BY DEF Row
  <2>. HIDE DEF b
  <2>3. IsFiniteSet(a .. b) /\ Cardinality(a .. b) = b - a + 1
    BY <2>1, FS_Interval
  <2>. QED BY <2>1, <2>2, <2>3
<1>3. \A x : (x \in Row(a, n) /\ \A y \in Row(a, n) : x <= y) <=> x = a
  BY <1>1
<1>. QED BY <1>1, <1>2, <1>3 DEF Least

\* A step that takes one frame.
LEMMA OneTaken ==
    ASSUME NEW f \in free, f \in Int, free' = free \ {f}
    PROVE  Moves
<1>1. Row(f, 1) = {f}
  BY RowFacts
<1>. QED BY <1>1 DEF Moves

\* A step that gives back one frame.
LEMMA OneGiven ==
    ASSUME NEW f \in Int, free' = free \cup {f}
    PROVE  Moves
<1>1. Row(f, 1) = {f}
  BY RowFacts
<1>2. CASE f \in free
  BY <1>2 DEF Moves
<1>3. CASE f \notin free
  BY <1>1, <1>3 DEF Moves
<1>. QED BY <1>2, <1>3

\* Frames, and what slots hold, are numbers.
LEMMA FramesInt ==
    ASSUME IInv
    PROVE  /\ free \subseteq Int /\ Frames \subseteq Int
           /\ \A s \in Slots : at[s] \in Int
           /\ IsFiniteSet(free)
<1>1. Frames \subseteq Int /\ None \in Int /\ Swapped \in Int
  BY DEF Frames, None, Swapped
<1>2. free \subseteq Frames /\ at \in [Slots -> Frames \cup {None, Swapped}]
  BY DEF IInv, TypeOK
<1>3. IsFiniteSet(Frames)
  <2>1. 0 \in Int /\ NPage - 1 \in Int
    BY VMAssumption
  <2>2. IsFiniteSet(0 .. NPage - 1)
    BY <2>1, FS_Interval
  <2>. QED BY <2>2 DEF Frames
<1>4. IsFiniteSet(free)
  BY <1>2, <1>3, FS_Subset
<1>5. ASSUME NEW s \in Slots PROVE at[s] \in Int
  <2>1. at[s] \in Frames \cup {None, Swapped}
    BY <1>2
  <2>. QED BY <1>1, <2>1
<1>6. free \subseteq Int
  BY <1>1, <1>2
<1>. QED BY <1>1, <1>4, <1>5, <1>6

\* The call in progress is about processes.
LEMMA CallProcs == ASSUME IInv PROVE op.proc \in Procs /\ op.child \in Procs /\ Builds \in Procs
  BY DEF IInv, TypeOK, Builds

\* Every step takes or gives back frames in a row, and keeps stacks in a row.
LEMMA StepMoves == ASSUME IInv, Paired, [Next]_vars PROVE Moves /\ Paired'
<1> USE FramesInt
<1>t. at \in [Slots -> Frames \cup {None, Swapped}] /\ (free' = free => Moves)
  BY DEF IInv, TypeOK, Moves
\* A step that changes a slot of another kind leaves the stacks alone.
<1>p. ASSUME NEW s \in Slots, NEW f, at' = [at EXCEPT ![s] = f],
             \A p \in Procs, i \in {0, 1} : s # Kstack(p, i)
      PROVE  Paired'
  BY <1>p, <1>t, SlotFacts DEF Paired
<1>u. at' = at => Paired'
  BY DEF Paired
<1>1. CASE SetupPgdir
  <2>1. PICK f \in free : free' = free \ {f} /\ at' = [at EXCEPT ![Dir(Builds)] = f]
    BY <1>1 DEF SetupPgdir, Take, Point
  <2>2. Dir(Builds) \in Slots /\ \A q \in Procs, i \in {0, 1} : Dir(Builds) # Kstack(q, i)
    BY <1>1, SlotFacts, SlotsDiffer, CallProcs
  <2>. QED BY <1>p, <2>1, <2>2, OneTaken
<1>2. CASE ForkDone
  BY <1>2, <1>t, <1>u DEF ForkDone
<1>3. CASE PutPgdir
  <2>1. at' = [at EXCEPT ![Dir(op.proc)] = None] /\ free' = free \cup {at[Dir(op.proc)]}
    BY <1>3 DEF PutPgdir, Point
  <2>2. Dir(op.proc) \in Slots /\ \A q \in Procs, i \in {0, 1} : Dir(op.proc) # Kstack(q, i)
    BY SlotFacts, SlotsDiffer, CallProcs
  <2>3. at[Dir(op.proc)] \in Int
    BY <2>2
  <2>. QED BY <1>p, <2>1, <2>2, <2>3, OneGiven
<1>4. CASE LoadDone
  BY <1>4, <1>t, <1>u DEF LoadDone
<1>5. CASE LoadFails
  BY <1>5, <1>t, <1>u DEF LoadFails
<1>6. CASE SwapOut
  <2> DEFINE x == Head(fifo)
  <2>1. at' = [at EXCEPT ![Pte(First, x.vaddr)] = Swapped] /\ free' = {x.page} /\ free = {} /\ fifo # << >>
    BY <1>6 DEF SwapOut, Point
  <2>2. x \in [page : Frames, vaddr : VPages]
    <3>1. fifo \in Seq([page : Frames, vaddr : VPages])
      BY DEF IInv, TypeOK
    <3>. QED BY <2>1, <3>1, HeadTailProperties
  <2>3. x.page \in Int /\ x.vaddr \in VPages
    BY <2>2
  <2>. HIDE DEF x
  <2>4. Pte(First, x.vaddr) \in Slots /\ \A q \in Procs, i \in {0, 1} : Pte(First, x.vaddr) # Kstack(q, i)
    BY <2>3, SlotFacts, SlotsDiffer
  <2>. QED BY <1>p, <2>1, <2>3, <2>4, OneGiven
<1>7. CASE OutOfMemory \/ LoadStops
  BY <1>7, <1>t, <1>u DEF OutOfMemory, LoadStops
<1>8. ASSUME NEW v \in VPages, GetPte(v) PROVE Moves /\ Paired'
  <2>1. PICK f \in free : free' = free \ {f} /\ at' = [at EXCEPT ![Pde(Builds, TableOf[v])] = f]
    BY <1>8 DEF GetPte, Take, Point
  <2>2. Pde(Builds, TableOf[v]) \in Slots /\ \A q \in Procs, i \in {0, 1} : Pde(Builds, TableOf[v]) # Kstack(q, i)
    BY <1>8, SlotFacts, SlotsDiffer, CallProcs
  <2>. QED BY <1>p, <2>1, <2>2, OneTaken
<1>9. ASSUME NEW v \in VPages, CopyPage(v) PROVE Moves /\ Paired'
  <2>1. PICK f \in free : free' = free \ {f} /\ at' = [at EXCEPT ![Pte(op.child, v)] = f]
    BY <1>9 DEF CopyPage, Take, Point
  <2>2. Pte(op.child, v) \in Slots /\ \A q \in Procs, i \in {0, 1} : Pte(op.child, v) # Kstack(q, i)
    BY <1>9, SlotFacts, SlotsDiffer, CallProcs
  <2>. QED BY <1>p, <2>1, <2>2, OneTaken
<1>10. ASSUME NEW v \in VPages, UnmapPage(v) PROVE Moves /\ Paired'
  <2>1. /\ at' = [at EXCEPT ![Pte(op.proc, v)] = None]
        /\ free' = free \/ free' = free \cup {at[Pte(op.proc, v)]}
    BY <1>10 DEF UnmapPage, Drop, Point
  <2>2. Pte(op.proc, v) \in Slots /\ \A q \in Procs, i \in {0, 1} : Pte(op.proc, v) # Kstack(q, i)
    BY SlotFacts, SlotsDiffer, CallProcs
  <2>3. at[Pte(op.proc, v)] \in Int
    BY <2>2
  <2>. QED BY <1>p, <1>t, <2>1, <2>2, <2>3, OneGiven
<1>11. ASSUME NEW v \in VPages, LoadPage(v) PROVE Moves /\ Paired'
  <2>1. PICK f \in free : free' = free \ {f} /\ at' = [at EXCEPT ![Held] = f]
    BY <1>11 DEF LoadPage, Take, Point
  <2>2. Held \in Slots /\ \A q \in Procs, i \in {0, 1} : Held # Kstack(q, i)
    BY <1>11, SlotFacts, SlotsDiffer, CallProcs
  <2>. QED BY <1>p, <2>1, <2>2, OneTaken
<1>12. ASSUME NEW v \in VPages, LoadInsert(v) PROVE Moves /\ Paired'
  <2>1. at' = [at EXCEPT ![Held] = None, ![Pte(op.proc, v)] = at[Held]] /\ free' = free
    BY <1>12 DEF LoadInsert
  <2>2. \A q \in Procs, i \in {0, 1} : Kstack(q, i) \in Slots /\ Pte(op.proc, v) # Kstack(q, i) /\ Held # Kstack(q, i)
    BY SlotFacts, SlotsDiffer, CallProcs
  <2>3. \A q \in Procs, i \in {0, 1} : at'[Kstack(q, i)] = at[Kstack(q, i)]
    BY <1>t, <2>1, <2>2
  <2>4. Paired'
    <3>1. ASSUME NEW q \in Procs, at'[Kstack(q, 0)] # None PROVE at'[Kstack(q, 1)] = at'[Kstack(q, 0)] + 1
      BY <2>3, <3>1 DEF Paired
    <3>. QED BY <3>1 DEF Paired
  <2>. QED BY <1>t, <2>1, <2>4
<1>13. ASSUME NEW v \in VPages, FaultFresh(v) PROVE Moves /\ Paired'
  <2>1. PICK f \in free : free' = free \ {f} /\ at' = [at EXCEPT ![Pte(op.proc, v)] = f]
    BY <1>13 DEF FaultFresh, Take, Point
  <2>2. Pte(op.proc, v) \in Slots /\ \A q \in Procs, i \in {0, 1} : Pte(op.proc, v) # Kstack(q, i)
    BY <1>13, SlotFacts, SlotsDiffer, CallProcs
  <2>. QED BY <1>p, <2>1, <2>2, OneTaken
<1>14. ASSUME NEW v \in VPages, SwapIn(v) PROVE Moves /\ Paired'
  <2>1. PICK f \in free : free' = free \ {f} /\ at' = [at EXCEPT ![Pte(op.proc, v)] = f]
    BY <1>14 DEF SwapIn, Take, Point
  <2>2. Pte(op.proc, v) \in Slots /\ \A q \in Procs, i \in {0, 1} : Pte(op.proc, v) # Kstack(q, i)
    BY <1>14, SlotFacts, SlotsDiffer, CallProcs
  <2>. QED BY <1>p, <2>1, <2>2, OneTaken
<1>15. ASSUME NEW t \in Tables, ExitRange(t) PROVE Moves /\ Paired'
  <2>1. at' = [at EXCEPT ![Pde(op.proc, t)] = None] /\ free' = free \cup {at[Pde(op.proc, t)]}
    BY <1>15 DEF ExitRange, Point
  <2>2. Pde(op.proc, t) \in Slots /\ \A q \in Procs, i \in {0, 1} : Pde(op.proc, t) # Kstack(q, i)
    BY SlotFacts, SlotsDiffer, CallProcs
  <2>3. at[Pde(op.proc, t)] \in Int
    BY <2>2
  <2>. QED BY <1>p, <2>1, <2>2, <2>3, OneGiven
<1>16. ASSUME NEW p \in Procs, Execve(p) PROVE Moves /\ Paired'
  BY <1>16, <1>t, <1>u DEF Execve
<1>17. ASSUME NEW p \in Procs, Exit(p) PROVE Moves /\ Paired'
  BY <1>17, <1>t, <1>u DEF Exit
<1>18. ASSUME NEW p \in Procs, Reap(p) PROVE Moves /\ Paired'
  <2> DEFINE s == Kstack(p, 0)
             t == Kstack(p, 1)
  <2>1. free' = free \cup {at[s], at[t]} /\ at' = [at EXCEPT ![s] = None, ![t] = None] /\ state[p] = "zombie"
    BY <1>18 DEF Reap
  <2>2. s \in Slots /\ t \in Slots /\ s # t
    BY SlotFacts, SlotsDiffer
  <2>3. ~check
    BY <2>1 DEF IInv, Calls
  <2>4. at[s] # None /\ at[t] # None /\ at[t] = at[s] + 1
    BY <2>1, <2>3 DEF IInv, Spaces, Paired
  <2>5. at[s] \notin free /\ at[t] \notin free
    BY <2>2 DEF IInv, Points, Accounted
  <2>6. Row(at[s], 2) = {at[s], at[t]} /\ at[s] \in Int
    BY <2>2, <2>4, RowFacts
  <2>7. Moves
    BY <2>1, <2>5, <2>6 DEF Moves
  <2>8. \A q \in Procs, i \in {0, 1} : Kstack(q, i) \in Slots /\ (Kstack(q, i) \in {s, t} <=> q = p)
    BY SlotFacts, SlotsDiffer
  <2>9. \A q \in Procs, i \in {0, 1} : at'[Kstack(q, i)] = IF q = p THEN None ELSE at[Kstack(q, i)]
    BY <1>t, <2>1, <2>2, <2>8
  <2>. QED BY <2>7, <2>9 DEF Paired
<1>19. ASSUME NEW p \in Procs, NEW c \in Procs, Fork(p, c) PROVE Moves /\ Paired'
  <2> DEFINE s == Kstack(c, 0)
             t == Kstack(c, 1)
  <2>1. PICK f \in free : f + 1 \in free /\ free' = free \ {f, f + 1}
                         /\ at' = [at EXCEPT ![s] = f, ![t] = f + 1]
    BY <1>19 DEF Fork
  <2>2. s \in Slots /\ t \in Slots /\ s # t
    BY SlotFacts, SlotsDiffer
  <2>3. Row(f, 2) = {f, f + 1} /\ f \in Int
    BY RowFacts
  <2>4. Moves
    BY <2>1, <2>3 DEF Moves
  <2>5. \A q \in Procs : Kstack(q, 0) \in Slots /\ Kstack(q, 1) \in Slots
                        /\ (q # c => Kstack(q, 0) \notin {s, t} /\ Kstack(q, 1) \notin {s, t})
    BY SlotFacts, SlotsDiffer
  <2>6. at'[s] = f /\ at'[t] = f + 1
        /\ \A q \in Procs : q # c => at'[Kstack(q, 0)] = at[Kstack(q, 0)] /\ at'[Kstack(q, 1)] = at[Kstack(q, 1)]
    BY <1>t, <2>1, <2>2, <2>5
  <2>. QED BY <2>4, <2>6 DEF Paired
<1>20. ASSUME NEW p \in Procs, NEW v \in VPages, Touch(p, v) PROVE Moves /\ Paired'
  BY <1>20, <1>t, <1>u DEF Touch
<1>21. ASSUME NEW p \in Procs, NEW v \in VPages, NEW x \in Values, Write(p, v, x) PROVE Moves /\ Paired'
  BY <1>21, <1>t, <1>u DEF Write
<1>22. CASE UNCHANGED vars
  BY <1>22, <1>t, <1>u DEF vars
<1>23. KernelStep => Moves /\ Paired'
  BY <1>1, <1>2, <1>3, <1>4, <1>5, <1>6, <1>7, <1>8, <1>9, <1>10, <1>11, <1>12, <1>13, <1>14, <1>15
     DEF KernelStep
<1>. QED BY <1>16, <1>17, <1>18, <1>19, <1>20, <1>21, <1>22, <1>23 DEF Next

\* The free list goes along with the free frames.
LEMMA ListedKeeps ==
    ASSUME IInv, Moves, Lists(free_list, free), nr_free = Cardinality(free), Listed
    PROVE  Lists(free_list, free)' /\ nr_free' = Cardinality(free)'
<1>f. free \subseteq Int /\ IsFiniteSet(free)
  BY FramesInt
<1>1. CASE free' = free
  <2>1. free \ free' = {} /\ free' \ free = {}
    BY <1>1
  <2>2. UNCHANGED <<free_list, nr_free>>
    BY <2>1 DEF Listed
  <2>. QED BY <1>1, <2>2
<1>2. ASSUME NEW a \in Int, NEW n \in {1, 2}, Row(a, n) \subseteq free, free' = free \ Row(a, n)
      PROVE  Lists(free_list, free)' /\ nr_free' = Cardinality(free)'
  <2>1. free \ free' = Row(a, n) /\ free' \ free = {}
    BY <1>2
  <2>2. AllocPages(n, a)
    BY <2>1, RowFacts DEF Listed
  <2>3. n \in Nat \ {0}
    OBVIOUS
  <2>4. Lists(free_list, free)' /\ nr_free' = nr_free - n
    BY <1>2, <2>2, <2>3, AllocPagesKeeps DEF Row
  <2>5. Cardinality(free \ Row(a, n)) = Cardinality(free) - Cardinality(free \cap Row(a, n))
    BY <1>f, FS_Difference
  <2>6. free \cap Row(a, n) = Row(a, n)
    BY <1>2
  <2>7. Cardinality(free') = Cardinality(free) - n
    BY <1>2, <2>5, <2>6, RowFacts
  <2>. QED BY <2>4, <2>7
<1>3. ASSUME NEW a \in Int, NEW n \in {1, 2}, Row(a, n) \cap free = {}, free' = free \cup Row(a, n)
      PROVE  Lists(free_list, free)' /\ nr_free' = Cardinality(free)'
  <2>1. free' \ free = Row(a, n) /\ free \ free' = {}
    BY <1>3
  <2>2. FreePages(a, n)
    BY <2>1, RowFacts DEF Listed
  <2>3. n \in Nat \ {0}
    OBVIOUS
  <2>4. \A x \in Int : Within(x, Block(a, n)) => x \notin free
    <3>1. Block(a, n).base = a /\ End(Block(a, n)) = a + n
      BY <2>3, BlockIs
    <3>2. \A x \in Int : Within(x, Block(a, n)) => x \in Row(a, n)
      BY <3>1 DEF Within, Row
    <3>. QED BY <1>3, <3>2
  <2>5. Lists(free_list, free)' /\ nr_free' = nr_free + n
    BY <1>3, <2>2, <2>3, <2>4, FreePagesKeeps DEF Row
  <2>6. Cardinality(free \cup Row(a, n)) = Cardinality(free) + Cardinality(Row(a, n)) - Cardinality(free \cap Row(a, n))
    BY <1>f, RowFacts, FS_Union
  <2>7. Cardinality(free \cap Row(a, n)) = 0
    BY <1>3, FS_EmptySet
  <2>8. Cardinality(free') = Cardinality(free) + n
    BY <1>3, <1>f, <2>6, <2>7, RowFacts, FS_CardinalityType
  <2>. QED BY <2>5, <2>8
<1>. QED BY <1>1, <1>2, <1>3 DEF Moves

-----------------------------------------------------------------------------
(* The free list.                                                          *)

MInv == IInv /\ Paired /\ Lists(free_list, free) /\ nr_free = Cardinality(free)

\* A list of one block.
LEMMA OneBlock ==
    ASSUME NEW a \in Int, NEW n \in Nat \ {0}
    PROVE  Lists(<<Block(a, n)>>, a .. a + n - 1)
<1> DEFINE list == <<Block(a, n)>>
<1>1. Block(a, n) \in Blocks /\ Block(a, n).base = a /\ End(Block(a, n)) = a + n
  BY BlockIs
<1>2. list \in Seq(Blocks) /\ Len(list) = 1 /\ list[1] = Block(a, n)
  BY <1>1
<1>. HIDE DEF list
<1>3. Sorted(list)
  BY <1>2 DEF Sorted
<1>4. \A x \in Int : x \in a .. a + n - 1 <=> Within(x, list[1])
  BY <1>1, <1>2 DEF Within
<1>5. \A i : i \in 1..Len(list) <=> i = 1
  BY <1>2
<1>6. Lists(list, a .. a + n - 1)
  BY <1>2, <1>3, <1>4, <1>5 DEF Lists
<1>. QED BY <1>6 DEF list

\* The free list at boot.
LEMMA InitMInv == MInit => MInv
<1>. SUFFICES ASSUME MInit PROVE MInv
  OBVIOUS
<1>1. IInv
  BY InitIInv DEF MInit
<1>2. PICK a \in Int, n \in Nat \ {0} : free = a .. a + n - 1
  <2>1. CASE InitUser
    <3>1. free = 2 .. NPage - 1
      BY <2>1, VMAssumption DEF InitUser, Frames
    <3> DEFINE m == NPage - 2
    <3>2. m \in Nat \ {0} /\ NPage - 1 = 2 + m - 1
      BY VMAssumption, MemoryAssumption
    <3>. HIDE DEF m
    <3>3. free = 2 .. 2 + m - 1
      BY <3>1, <3>2
    <3>. m \in Nat \ {0}
      BY <3>2
    <3>. WITNESS 2 \in Int, m \in Nat \ {0}
    <3>. QED BY <3>3
  <2>2. CASE InitCheck
    <3>1. free = 1 .. CheckFrames
      BY <2>2 DEF InitCheck
    <3>2. CheckFrames \in Nat \ {0} /\ CheckFrames = 1 + CheckFrames - 1
      BY VMAssumption
    <3>3. free = 1 .. 1 + CheckFrames - 1
      BY <3>1, <3>2
    <3>. QED BY <3>2, <3>3
  <2>. QED BY <2>1, <2>2 DEF MInit, Init
<1>3. Cardinality(free) = n
  <2>1. a + n - 1 \in Int /\ ~(a > a + n - 1)
    BY <1>2
  <2>2. Cardinality(a .. a + n - 1) = (a + n - 1) - a + 1
    BY <2>1, FS_Interval
  <2>. QED BY <1>2, <2>2
<1>4. Least(free) = a
  <2>1. \A x : (x \in free /\ \A y \in free : x <= y) <=> x = a
    BY <1>2
  <2>. QED BY <2>1 DEF Least
<1>5. free_list = <<Block(a, n)>> /\ nr_free = n
  BY <1>3, <1>4 DEF MInit, InitMemmap
<1>6. Lists(free_list, free)
  BY <1>2, <1>5, OneBlock
<1>7. Paired
  <2>1. CASE InitUser
    BY <2>1, SlotFacts, SlotsDiffer DEF InitUser, Paired, None
  <2>2. CASE InitCheck
    BY <2>2, SlotFacts, SlotsDiffer DEF InitCheck, Paired, None
  <2>. QED BY <2>1, <2>2 DEF MInit, Init
<1>. QED BY <1>1, <1>3, <1>5, <1>6, <1>7 DEF MInv

\* Every step keeps the free list exact.
LEMMA NextMInv == MInv /\ [MNext]_mvars => MInv'
<1>. SUFFICES ASSUME MInv, [MNext]_mvars PROVE MInv'
  OBVIOUS
<1>1. CASE MNext
  <2>1. IInv' /\ Moves /\ Paired'
    BY <1>1, NextIInv, StepMoves DEF MInv, MNext
  <2>2. Lists(free_list, free)' /\ nr_free' = Cardinality(free)'
    BY <1>1, <2>1, ListedKeeps DEF MInv, MNext
  <2>. QED BY <2>1, <2>2 DEF MInv
<1>2. CASE UNCHANGED mvars
  <2>1. IInv' /\ Paired'
    BY <1>2, StutterKeeps DEF MInv, mvars, vars, Paired
  <2>. QED BY <1>2, <2>1 DEF MInv, mvars, vars
<1>. QED BY <1>1, <1>2

(***************************************************************************)
(* The list holds the free frames and nothing else, in address order, and  *)
(* no two of its blocks touch, whatever is allocated and freed             *)
(* (default_pmm.c).                                                        *)
(***************************************************************************)
THEOREM FreeListCorrect == MSpec => []FreeListExact
<1>1. ASSUME MInv PROVE FreeListExact
  <2>1. /\ free_list \in Seq(Blocks) /\ Sorted(free_list) /\ free \subseteq Int
        /\ \A x \in Int : x \in free <=> \E i \in 1..Len(free_list) : Within(x, free_list[i])
    BY <1>1 DEF MInv, Lists
  <2>2. /\ Len(free_list) \in Nat /\ DOMAIN free_list = 1..Len(free_list)
        /\ \A i \in 1..Len(free_list) : /\ free_list[i] \in Blocks
                                        /\ free_list[i].base \in Int /\ End(free_list[i]) \in Int
    BY <2>1, BlocksOf
  <2>3. \A i \in DOMAIN free_list : free_list[i].property > 0
    BY <2>2, BlockFacts
  <2>4. \A i \in 1 .. Len(free_list) - 1 : End(free_list[i]) < free_list[i + 1].base
    BY <2>1, <2>2 DEF Sorted
  <2>5. \A i \in 1..Len(free_list) : \A x :
           x \in free_list[i].base .. End(free_list[i]) - 1 <=> x \in Int /\ Within(x, free_list[i])
    BY <2>2 DEF Within
  <2>6. \A x : (\E b \in Range(free_list) : x \in b.base .. End(b) - 1) <=>
               \E i \in 1..Len(free_list) : x \in free_list[i].base .. End(free_list[i]) - 1
    BY <2>2 DEF Range
  <2>8. nr_free = Cardinality(free)
    BY <1>1 DEF MInv
  <2>7. free = UNION {b.base .. End(b) - 1 : b \in Range(free_list)}
    BY <2>1, <2>5, <2>6
  <2>. QED BY <2>3, <2>4, <2>7, <2>8 DEF FreeListExact
<1>. QED BY <1>1, InitMInv, NextMInv, PTL DEF MSpec

\* With the free list as well, each step is one of VirtualMemory.
LEMMA MemoryIsVirtual == MSpec => Spec
<1>1. MInit => Init
  BY DEF MInit
<1>2. [MNext]_mvars => [Next]_vars
  BY DEF MNext, mvars, vars
<1>. QED BY <1>1, <1>2, PTL DEF MSpec, Spec
=============================================================================
