------------------------------ MODULE FilesProofs ------------------------------
(***************************************************************************)
(* The counts of inodes are right, for any processes, descriptor tables    *)
(* and programs: InodesExact is an invariant of Files.                     *)
(***************************************************************************)
EXTENDS Files, FiniteSetTheorems, TLAPS

\* A process has files unless it has none yet or is giving them back.
HasFiles(p) == \/ state[p] \in {"running", "reading"} /\ ~(op.kind = "exit" /\ op.proc = p)
               \/ op.kind = "fork" /\ op.child = p

(***************************************************************************)
(* What the call in progress has established about its slots, so that each *)
(* of its steps fills an empty one or empties a full one.                  *)
(***************************************************************************)
Places ==
    /\ \A p \in Procs : at[Pwd(p)] # None <=> HasFiles(p)
    /\ \A p \in Procs, fd \in Fds : at[Fd(p, fd)] # None =>
          HasFiles(p) \/ (op.kind = "exit" /\ op.proc = p /\ fd \in op.todo)
    /\ at[Held] # None <=> op.kind = "open"
    /\ op.kind # "idle" => state[op.proc] = "running"
    /\ op.kind \in {"fork", "exit", "exec"} => \A fd \in op.todo : at[Fd(op.proc, fd)] # None
    /\ op.kind = "fork" => /\ state[op.child] = "unused"
                           /\ \A fd \in op.todo : at[Fd(op.child, fd)] = None
    /\ op.kind = "load" => at[Fd(op.proc, op.fd)] \in Nodes
    /\ op.kind = "open" => at[Fd(op.proc, op.fd)] = None

Exact == (\A n \in Nodes : IsFiniteSet(Users(n))) /\ InodesExact
IInv == TypeOK /\ Places /\ Exact

\* Slots of different kinds, or of different processes, are different.
LEMMA SlotsDiffer ==
    /\ \A p \in Procs, fd \in Fds : Fd(p, fd) \in FdSlots
    /\ \A p \in Procs : Pwd(p) \in Slots \ FdSlots
    /\ Held \in Slots \ FdSlots
    /\ FdSlots \subseteq Slots
    /\ \A p, q \in Procs, f, g \in Fds : Fd(p, f) = Fd(q, g) <=> p = q /\ f = g
    /\ \A p, q \in Procs : Pwd(p) = Pwd(q) <=> p = q
    /\ \A p, q \in Procs, fd \in Fds : Pwd(p) # Fd(q, fd) /\ Held # Fd(q, fd)
    /\ \A p \in Procs : Held # Pwd(p)
  BY DEF Fd, Pwd, Held, FdSlots, Slots

\* None is no inode.
LEMMA NoneIsNone == None \notin Nodes
  BY FilesAssumption DEF Nodes

-----------------------------------------------------------------------------
(* Counting. *)

\* An empty slot that gets inode n: n has one pointer more.
LEMMA FillCounts ==
    ASSUME TypeOK, \A n \in Nodes : IsFiniteSet(Users(n)),
           NEW s \in Slots, NEW n \in Nodes,
           at[s] = None, at' = [at EXCEPT ![s] = n]
    PROVE  \A k \in Nodes :
              /\ IsFiniteSet(Users(k)')
              /\ Cardinality(Users(k)') = Cardinality(Users(k)) + (IF k = n THEN 1 ELSE 0)
              /\ Cardinality(Users(k)' \cap FdSlots)
                    = Cardinality(Users(k) \cap FdSlots) + (IF k = n /\ s \in FdSlots THEN 1 ELSE 0)
              /\ Cardinality(Users(k)) \in Nat
              /\ Cardinality(Users(k) \cap FdSlots) \in Nat
<1> SUFFICES ASSUME NEW k \in Nodes
             PROVE  /\ IsFiniteSet(Users(k)')
                    /\ Cardinality(Users(k)') = Cardinality(Users(k)) + (IF k = n THEN 1 ELSE 0)
                    /\ Cardinality(Users(k)' \cap FdSlots)
                          = Cardinality(Users(k) \cap FdSlots) + (IF k = n /\ s \in FdSlots THEN 1 ELSE 0)
                    /\ Cardinality(Users(k)) \in Nat
                    /\ Cardinality(Users(k) \cap FdSlots) \in Nat
  OBVIOUS
<1>1. IsFiniteSet(Users(k)) /\ IsFiniteSet(Users(k) \cap FdSlots)
  BY FS_Subset, Users(k) \cap FdSlots \in SUBSET Users(k)
<1>2. Cardinality(Users(k)) \in Nat /\ Cardinality(Users(k) \cap FdSlots) \in Nat
  BY <1>1, FS_CardinalityType
<1>3. s \notin Users(k)
  BY NoneIsNone DEF Users
<1>4. CASE k = n
  <2>1. Users(k)' = Users(k) \cup {s}
    BY <1>4 DEF Users, TypeOK
  <2>2. IsFiniteSet(Users(k)') /\ Cardinality(Users(k)') = Cardinality(Users(k)) + 1
    BY <1>1, <1>3, <2>1, FS_AddElement
  <2>3. CASE s \in FdSlots
    <3>1. Users(k)' \cap FdSlots = (Users(k) \cap FdSlots) \cup {s}
      BY <2>1, <2>3
    <3>. QED BY <1>1, <1>2, <1>3, <1>4, <2>2, <2>3, <3>1, FS_AddElement
  <2>4. CASE s \notin FdSlots
    <3>1. Users(k)' \cap FdSlots = Users(k) \cap FdSlots
      BY <2>1, <2>4
    <3>2. Cardinality(Users(k)' \cap FdSlots) = Cardinality(Users(k) \cap FdSlots)
      BY <3>1, Zenon
    <3>. QED BY <1>2, <1>4, <2>2, <2>4, <3>2
  <2>. QED BY <2>3, <2>4
<1>5. CASE k # n
  <2>1. Users(k)' = Users(k)
    BY <1>3, <1>5 DEF Users, TypeOK
  <2>. QED BY <1>1, <1>2, <1>5, <2>1
<1>. QED BY <1>4, <1>5

\* A slot that is emptied: its inode has one pointer less.
LEMMA EmptyCounts ==
    ASSUME TypeOK, \A n \in Nodes : IsFiniteSet(Users(n)),
           NEW s \in Slots, at[s] # None, at' = [at EXCEPT ![s] = None]
    PROVE  \A k \in Nodes :
              /\ IsFiniteSet(Users(k)')
              /\ Cardinality(Users(k)') = Cardinality(Users(k)) - (IF k = at[s] THEN 1 ELSE 0)
              /\ Cardinality(Users(k)' \cap FdSlots)
                    = Cardinality(Users(k) \cap FdSlots) - (IF k = at[s] /\ s \in FdSlots THEN 1 ELSE 0)
              /\ Cardinality(Users(k)') \in Nat
              /\ Cardinality(Users(k)' \cap FdSlots) \in Nat
<1> SUFFICES ASSUME NEW k \in Nodes
             PROVE  /\ IsFiniteSet(Users(k)')
                    /\ Cardinality(Users(k)') = Cardinality(Users(k)) - (IF k = at[s] THEN 1 ELSE 0)
                    /\ Cardinality(Users(k)' \cap FdSlots)
                          = Cardinality(Users(k) \cap FdSlots) - (IF k = at[s] /\ s \in FdSlots THEN 1 ELSE 0)
                    /\ Cardinality(Users(k)') \in Nat
                    /\ Cardinality(Users(k)' \cap FdSlots) \in Nat
  OBVIOUS
<1>1. IsFiniteSet(Users(k)) /\ IsFiniteSet(Users(k) \cap FdSlots)
  BY FS_Subset, Users(k) \cap FdSlots \in SUBSET Users(k)
<1>2. Cardinality(Users(k)) \in Nat /\ Cardinality(Users(k) \cap FdSlots) \in Nat
  BY <1>1, FS_CardinalityType
<1>3. CASE k = at[s]
  <2>1. s \in Users(k) /\ Users(k)' = Users(k) \ {s}
    BY <1>3, NoneIsNone DEF Users, TypeOK
  <2>2. IsFiniteSet(Users(k)') /\ Cardinality(Users(k)') = Cardinality(Users(k)) - 1
    BY <1>1, <2>1, FS_RemoveElement
  <2>3. Cardinality(Users(k)') \in Nat
    BY <2>2, FS_CardinalityType
  <2>4. CASE s \in FdSlots
    <3>1. /\ Users(k)' \cap FdSlots = (Users(k) \cap FdSlots) \ {s}
          /\ s \in Users(k) \cap FdSlots
      BY <2>1, <2>4
    <3>2. IsFiniteSet(Users(k)' \cap FdSlots)
      BY <1>1, <3>1, FS_RemoveElement
    <3>3. Cardinality(Users(k)' \cap FdSlots) \in Nat
      BY <3>2, FS_CardinalityType
    <3>4. Cardinality(Users(k)' \cap FdSlots) = Cardinality(Users(k) \cap FdSlots) - 1
      BY <1>1, <3>1, FS_RemoveElement
    <3>. QED BY <1>2, <1>3, <2>2, <2>3, <2>4, <3>3, <3>4
  <2>5. CASE s \notin FdSlots
    <3>1. Users(k)' \cap FdSlots = Users(k) \cap FdSlots
      BY <2>1, <2>5
    <3>2. Cardinality(Users(k)' \cap FdSlots) = Cardinality(Users(k) \cap FdSlots)
      BY <3>1, Zenon
    <3>. QED BY <1>2, <1>3, <2>2, <2>3, <2>5, <3>2
  <2>. QED BY <2>4, <2>5
<1>4. CASE k # at[s]
  <2>1. Users(k)' = Users(k)
    BY <1>4, NoneIsNone DEF Users, TypeOK
  <2>. QED BY <1>1, <1>2, <1>4, <2>1
<1>. QED BY <1>3, <1>4

\* A pointer and its count are added together.
LEMMA FillExact ==
    ASSUME TypeOK, Exact, NEW s \in Slots, NEW n \in Nodes,
           at[s] = None, at' = [at EXCEPT ![s] = n], RefInc(n),
           opens' = IF s \in FdSlots THEN [opens EXCEPT ![n] = @ + 1] ELSE opens,
           dirty' = dirty, lost' = lost
    PROVE  Exact'
<1>1. \A k \in Nodes :
         /\ IsFiniteSet(Users(k)')
         /\ Cardinality(Users(k)') = Cardinality(Users(k)) + (IF k = n THEN 1 ELSE 0)
         /\ Cardinality(Users(k)' \cap FdSlots)
               = Cardinality(Users(k) \cap FdSlots) + (IF k = n /\ s \in FdSlots THEN 1 ELSE 0)
         /\ Cardinality(Users(k)) \in Nat
         /\ Cardinality(Users(k) \cap FdSlots) \in Nat
  BY FillCounts DEF Exact
<1>2. ASSUME NEW k \in Nodes
      PROVE  /\ ref'[k] = Cardinality(Users(k)') + Base(k) + lost'[k]
             /\ opens'[k] = Cardinality(Users(k)' \cap FdSlots)
             /\ k \in cached' <=> ref'[k] > 0
             /\ opens'[k] = 0 => k \notin dirty'
  <2>1. Base(k) \in Nat /\ lost[k] \in Nat /\ lost'[k] = lost[k] /\ ref[k] \in Int /\ opens[k] \in Int
          /\ (k \in dirty' <=> k \in dirty)
    BY DEF Base, TypeOK
  <2>2. /\ ref[k] = Cardinality(Users(k)) + Base(k) + lost[k]
        /\ opens[k] = Cardinality(Users(k) \cap FdSlots)
        /\ k \in cached <=> ref[k] > 0
        /\ opens[k] = 0 => k \notin dirty
    BY DEF Exact, InodesExact
  <2>3. ref'[k] = ref[k] + (IF k = n THEN 1 ELSE 0)
    BY DEF RefInc, TypeOK
  <2>4. opens'[k] = opens[k] + (IF k = n /\ s \in FdSlots THEN 1 ELSE 0)
    BY DEF TypeOK
  <2>5. ref'[k] = Cardinality(Users(k)') + Base(k) + lost'[k]
    <3>1. Cardinality(Users(k)') = Cardinality(Users(k)) + (IF k = n THEN 1 ELSE 0)
      BY <1>1
    <3>2. ref[k] = Cardinality(Users(k)) + Base(k) + lost[k] /\ Cardinality(Users(k)) \in Nat
      BY <1>1, <2>2
    <3>3. CASE k = n
      BY <2>1, <2>3, <3>1, <3>2, <3>3
    <3>4. CASE k # n
      BY <2>1, <2>3, <3>1, <3>2, <3>4
    <3>. QED BY <3>3, <3>4
  <2>6. opens'[k] = Cardinality(Users(k)' \cap FdSlots)
    BY <1>1, <2>2, <2>4
  <2>7. k \in cached' <=> ref'[k] > 0
    <3>1. ref[k] >= 0
      <4>1. Cardinality(Users(k)) \in Nat
        BY <1>1
      <4>. QED BY <2>1, <2>2, <4>1
    <3>2. k \in cached' <=> k \in cached \/ k = n
      BY DEF RefInc
    <3>3. CASE k = n
      BY <2>1, <2>3, <3>1, <3>2, <3>3
    <3>4. CASE k # n
      BY <2>1, <2>2, <2>3, <3>2, <3>4
    <3>. QED BY <3>3, <3>4
  <2>8. opens'[k] = 0 => k \notin dirty'
    <3>1. opens[k] >= 0
      <4>1. Cardinality(Users(k) \cap FdSlots) \in Nat
        BY <1>1
      <4>. QED BY <2>2, <4>1
    <3>2. CASE k = n /\ s \in FdSlots
      BY <2>1, <2>4, <3>1, <3>2
    <3>3. CASE ~(k = n /\ s \in FdSlots)
      BY <2>1, <2>2, <2>4, <3>3
    <3>. QED BY <3>2, <3>3
  <2>. QED BY <2>5, <2>6, <2>7, <2>8
<1>. QED BY <1>1, <1>2 DEF Exact, InodesExact, Base

\* They go together too, and with the last descriptor the file is written.
LEMMA EmptyExact ==
    ASSUME TypeOK, Exact, NEW s \in Slots,
           at[s] # None, at' = [at EXCEPT ![s] = None], RefDec(at[s]),
           opens' = IF s \in FdSlots THEN [opens EXCEPT ![at[s]] = @ - 1] ELSE opens,
           dirty' = IF s \in FdSlots /\ opens[at[s]] = 1 THEN dirty \ {at[s]} ELSE dirty,
           lost' = lost
    PROVE  Exact'
<1>1. \A k \in Nodes :
         /\ IsFiniteSet(Users(k)')
         /\ Cardinality(Users(k)') = Cardinality(Users(k)) - (IF k = at[s] THEN 1 ELSE 0)
         /\ Cardinality(Users(k)' \cap FdSlots)
               = Cardinality(Users(k) \cap FdSlots) - (IF k = at[s] /\ s \in FdSlots THEN 1 ELSE 0)
         /\ Cardinality(Users(k)') \in Nat
         /\ Cardinality(Users(k)' \cap FdSlots) \in Nat
  BY EmptyCounts DEF Exact
<1>2. at[s] \in Nodes
  BY DEF TypeOK
<1>3. ASSUME NEW k \in Nodes
      PROVE  /\ ref'[k] = Cardinality(Users(k)') + Base(k) + lost'[k]
             /\ opens'[k] = Cardinality(Users(k)' \cap FdSlots)
             /\ k \in cached' <=> ref'[k] > 0
             /\ opens'[k] = 0 => k \notin dirty'
  <2>1. Base(k) \in Nat /\ lost[k] \in Nat /\ lost'[k] = lost[k] /\ ref[k] \in Int /\ opens[k] \in Int
    BY DEF Base, TypeOK
  <2>2. /\ ref[k] = Cardinality(Users(k)) + Base(k) + lost[k]
        /\ opens[k] = Cardinality(Users(k) \cap FdSlots)
        /\ k \in cached <=> ref[k] > 0
        /\ opens[k] = 0 => k \notin dirty
    BY DEF Exact, InodesExact
  <2>3. ref'[k] = ref[k] - (IF k = at[s] THEN 1 ELSE 0)
    BY <1>2 DEF RefDec, TypeOK
  <2>4. opens'[k] = opens[k] - (IF k = at[s] /\ s \in FdSlots THEN 1 ELSE 0)
    BY <1>2 DEF TypeOK
  <2>5. Cardinality(Users(k)) \in Nat /\ Cardinality(Users(k) \cap FdSlots) \in Nat
    BY FS_CardinalityType, FS_Subset, Users(k) \cap FdSlots \in SUBSET Users(k) DEF Exact
  <2>6. ref'[k] = Cardinality(Users(k)') + Base(k) + lost'[k]
    <3>1. /\ Cardinality(Users(k)') = Cardinality(Users(k)) - (IF k = at[s] THEN 1 ELSE 0)
          /\ Cardinality(Users(k)') \in Nat
      BY <1>1
    <3>2. ref[k] = Cardinality(Users(k)) + Base(k) + lost[k]
      BY <2>2
    <3>3. CASE k = at[s]
      BY <2>1, <2>3, <2>5, <3>1, <3>2, <3>3
    <3>4. CASE k # at[s]
      BY <2>1, <2>3, <2>5, <3>1, <3>2, <3>4
    <3>. QED BY <3>3, <3>4
  <2>7. opens'[k] = Cardinality(Users(k)' \cap FdSlots)
    BY <1>1, <2>1, <2>2, <2>4, <2>5
  <2>8. k \in cached' <=> ref'[k] > 0
    BY <1>1, <2>1, <2>2, <2>3, <2>6 DEF RefDec
  <2>9. opens'[k] = 0 => k \notin dirty'
    BY <1>1, <2>1, <2>2, <2>4
  <2>. QED BY <2>6, <2>7, <2>8, <2>9
<1>. QED BY <1>1, <1>3 DEF Exact, InodesExact, Base

\* Nothing but what is dirty changes, and only of an inode that is open.
LEMMA DirtyExact ==
    ASSUME TypeOK, Exact, NEW D, dirty' = D,
           \A n \in Nodes : n \in D => n \in dirty \/ \E s \in FdSlots : at[s] = n,
           UNCHANGED <<at, ref, opens, cached, lost>>
    PROVE  Exact'
<1>1. \A n \in Nodes : Users(n)' = Users(n)
  BY DEF Users
<1>2. ASSUME NEW n \in Nodes, opens[n] = 0
      PROVE  ~ \E s \in FdSlots : at[s] = n
  <2>1. IsFiniteSet(Users(n) \cap FdSlots)
    BY FS_Subset, Users(n) \cap FdSlots \in SUBSET Users(n) DEF Exact
  <2>2. Cardinality(Users(n) \cap FdSlots) = 0
    BY <1>2 DEF Exact, InodesExact
  <2>3. Users(n) \cap FdSlots = {}
    BY <2>1, <2>2, FS_EmptySet
  <2>. QED BY <2>3, SlotsDiffer DEF Users
<1>. QED BY <1>1, <1>2 DEF Exact, InodesExact, Base

\* Who only passes counts by leaves them exact.
LEMMA SameExact ==
    ASSUME Exact, UNCHANGED <<at, counts, lost>>
    PROVE  Exact'
  BY DEF Exact, InodesExact, Users, Base, counts

-----------------------------------------------------------------------------
(* The invariant. *)

\* The records that stand for the calls.
Calls == [kind : OpKinds, proc : Procs, child : Procs, todo : SUBSET Fds,
          fd : Fds, flags : Flags]
\* A call that is under way, and what it says.
LEMMA BusyIs ==
    ASSUME NEW kind \in OpKinds, NEW p \in Procs, NEW todo \in SUBSET Fds
    PROVE  LET o == Busy(kind, p, todo) IN
              /\ o \in Calls
              /\ o.kind = kind /\ o.proc = p /\ o.child = First /\ o.todo = todo
              /\ o.fd = 0 /\ o.flags = ReadOnly
<1>1. ReadOnly \in Flags
  BY DEF ReadOnly, Flags
<1>2. 0 \in Fds
  BY FilesAssumption DEF Fds
<1>. QED BY <1>1, <1>2, FilesAssumption DEF Busy, Idle, Calls, OpKinds

\* The call that is none.
LEMMA IdleIs == Idle \in Calls /\ Idle.kind = "idle"
<1>1. ReadOnly \in Flags
  BY DEF ReadOnly, Flags
<1>2. 0 \in Fds
  BY FilesAssumption DEF Fds
<1>. QED BY <1>1, <1>2, FilesAssumption DEF Idle, Calls, OpKinds

\* The invariant at boot.
LEMMA Initially == Init => IInv
<1> SUFFICES ASSUME Init PROVE IInv
  OBVIOUS
<1>1. TypeOK
  BY FilesAssumption DEF Init, TypeOK, Base, Idle, ReadOnly, Flags, OpKinds, Slots, Nodes, Fds
<1>2. Places
  <2>1. op.kind = "idle"
    BY IdleIs DEF Init
  <2>2. Root # None
    BY FilesAssumption
  <2>3. \A p \in Procs, fd \in Fds : at[Fd(p, fd)] = None
    BY SlotsDiffer, FilesAssumption DEF Init
  <2>4. \A p \in Procs : at[Pwd(p)] # None <=> p = First
    BY <2>2, SlotsDiffer, FilesAssumption DEF Init
  <2>5. at[Held] = None
    BY SlotsDiffer, FilesAssumption DEF Init
  <2>6. \A p \in Procs : HasFiles(p) <=> p = First
    BY <2>1, FilesAssumption DEF Init, HasFiles
  <2>. QED BY <2>1, <2>3, <2>4, <2>5, <2>6 DEF Places
<1>3. Exact
  <2>1. Users(Root) = {Pwd(First)}
    BY SlotsDiffer, NoneIsNone, FilesAssumption DEF Init, Users, Nodes
  <2>2. \A n \in Nodes : n # Root => Users(n) = {}
    BY NoneIsNone DEF Init, Users
  <2>3. /\ IsFiniteSet(Users(Root)) /\ Cardinality(Users(Root)) = 1
    BY <2>1, FS_Singleton
  <2>4. IsFiniteSet({}) /\ Cardinality({}) = 0
    BY FS_EmptySet
  <2>5. \A n \in Nodes : Users(n) \cap FdSlots = {}
    BY <2>1, <2>2, SlotsDiffer, FilesAssumption
  <2>6. \A n \in Nodes : Cardinality(Users(n)) = IF n = Root THEN 1 ELSE 0
    BY <2>2, <2>3, <2>4
  <2>7. \A n \in Nodes : Cardinality(Users(n) \cap FdSlots) = 0
    BY <2>4, <2>5
  <2>8. InodesExact
    BY <2>6, <2>7, FilesAssumption DEF Init, InodesExact, Base, Nodes
  <2>. QED BY <2>2, <2>3, <2>4, <2>8 DEF Exact
<1>. QED BY <1>1, <1>2, <1>3 DEF IInv

\* fork and the duplication of a descriptor
LEMMA ForkStep ==
    ASSUME IInv, NEW p \in Procs, NEW c \in Procs, Fork(p, c)
    PROVE  IInv'
<1>. USE DEF IInv
<1>1. at[Pwd(p)] \in Nodes /\ at[Pwd(c)] = None /\ p # c
  BY SlotsDiffer DEF Fork, Places, HasFiles, Idle, TypeOK
<1>2. TypeOK'
  <2>1. Busy("fork", p, OpenFds(p)) \in Calls
    BY BusyIs DEF OpKinds, OpenFds
  <2>2. op' \in Calls
    BY <2>1 DEF Fork, Calls
  <2>3. at' \in [Slots -> Nodes \cup {None}]
    BY <1>1, SlotsDiffer DEF Fork, TypeOK
  <2>4. ref' \in [Nodes -> Int] /\ cached' \subseteq Nodes
    BY <1>1 DEF Fork, RefInc, TypeOK
  <2>. QED BY <2>2, <2>3, <2>4 DEF Fork, TypeOK, Calls
<1>3. Places'
  BY <1>1, SlotsDiffer DEF Fork, TypeOK, Places, HasFiles, Busy, Idle, OpenFds
<1>4. Exact'
  BY <1>1, SlotsDiffer, FillExact DEF Fork
<1>. QED BY <1>2, <1>3, <1>4

\* dup_fs goes on with the next entry.
LEMMA DupNextStep ==
    ASSUME IInv, NEW fd \in Fds, DupNext(fd)
    PROVE  IInv'
<1>. USE DEF IInv
<1>0. op.proc \in Procs /\ op.child \in Procs /\ fd \in op.todo
  BY DEF TypeOK, DupNext, Least
<1>1. /\ at[Fd(op.proc, fd)] \in Nodes
      /\ at[Fd(op.child, fd)] = None
      /\ op.child # op.proc
  BY <1>0, SlotsDiffer DEF DupNext, Places, TypeOK
<1>2. TypeOK'
  BY <1>0, <1>1, SlotsDiffer DEF DupNext, Fill, RefInc, TypeOK
<1>3. Places'
  BY <1>0, <1>1, SlotsDiffer DEF DupNext, Fill, TypeOK, Places, HasFiles
<1>4. Exact'
  <2> DEFINE n == at[Fd(op.proc, fd)]
             s == Fd(op.child, fd)
  <2>1. s \in FdSlots /\ s \in Slots
    BY <1>0, SlotsDiffer
  <2>2. /\ at' = [at EXCEPT ![s] = n] /\ RefInc(n)
        /\ opens' = [opens EXCEPT ![n] = @ + 1] /\ dirty' = dirty /\ lost' = lost
    BY DEF DupNext, Fill
  <2>3. n \in Nodes /\ at[s] = None
    BY <1>1
  <2>. HIDE DEF n, s
  <2>. QED BY <2>1, <2>2, <2>3, FillExact
<1>. QED BY <1>2, <1>3, <1>4

\* One entry of the table is duplicated.
LEMMA FileDupStep ==
    ASSUME IInv, NEW p \in Procs, NEW fd1 \in Fds, NEW fd2 \in Fds, FileDup(p, fd1, fd2)
    PROVE  IInv'
<1>. USE DEF IInv
<1>1. at[Fd(p, fd1)] \in Nodes /\ at[Fd(p, fd2)] = None
  BY SlotsDiffer DEF FileDup, OpenFds, TypeOK
<1>2. TypeOK'
  BY <1>1, SlotsDiffer DEF FileDup, Fill, RefInc, TypeOK
<1>3. Places'
  BY <1>1, SlotsDiffer DEF FileDup, Fill, TypeOK, Places, HasFiles, Idle
<1>4. Exact'
  BY <1>1, SlotsDiffer, FillExact DEF FileDup, Fill
<1>. QED BY <1>2, <1>3, <1>4

\* the lookup of a program, or of a file to open
LEMMA OpenProgramStep ==
    ASSUME IInv, NEW n \in Nodes, OpenProgram(n)
    PROVE  IInv'
<1>. USE DEF IInv
<1>1. PICK fd \in Fds : /\ FreeFd(op.proc, fd)
                        /\ Fill(Fd(op.proc, fd), n)
                        /\ op' = [Busy("load", op.proc, {}) EXCEPT !.fd = fd]
  BY DEF OpenProgram
<1>2. op.proc \in Procs /\ at[Fd(op.proc, fd)] = None /\ n \in Nodes
  BY <1>1 DEF TypeOK, FreeFd, Least, OpenFds, Nodes
<1>0. /\ op' \in Calls
      /\ op'.kind = "load" /\ op'.proc = op.proc /\ op'.fd = fd
  <2>. DEFINE o == Busy("load", op.proc, {})
  <2>1. o \in Calls /\ o.kind = "load" /\ o.proc = op.proc
    BY <1>2, BusyIs DEF OpKinds
  <2>2. op' = [o EXCEPT !.fd = fd]
    BY <1>1
  <2>. HIDE DEF o
  <2>. QED BY <2>1, <2>2 DEF Calls
<1>3. TypeOK'
  BY <1>0, <1>1, <1>2, SlotsDiffer DEF OpenProgram, Fill, RefInc, TypeOK, Calls
<1>4. Places'
  BY <1>0, <1>1, <1>2, SlotsDiffer, NoneIsNone
     DEF OpenProgram, Fill, TypeOK, Places, HasFiles
<1>5. Exact'
  BY <1>1, <1>2, SlotsDiffer, FillExact DEF OpenProgram, Fill
<1>. QED BY <1>3, <1>4, <1>5

\* A file is looked up, and its inode referenced.
LEMMA LookupStep ==
    ASSUME IInv, NEW p \in Procs, NEW n \in Nodes, NEW flags \in Flags, Lookup(p, n, flags)
    PROVE  IInv'
<1>. USE DEF IInv
<1>1. PICK fd \in Fds : /\ FreeFd(p, fd)
                        /\ op' = [Busy("open", p, {}) EXCEPT !.fd = fd, !.flags = flags]
  BY DEF Lookup
<1>2. at[Fd(p, fd)] = None /\ at[Held] = None
  BY <1>1 DEF FreeFd, Least, OpenFds, Lookup, Places, Idle
<1>0. /\ op' \in Calls
      /\ op'.kind = "open" /\ op'.proc = p /\ op'.fd = fd
  <2>. DEFINE o == Busy("open", p, {})
  <2>1. o \in Calls /\ o.kind = "open" /\ o.proc = p
    BY BusyIs DEF OpKinds
  <2>2. op' = [o EXCEPT !.fd = fd, !.flags = flags]
    BY <1>1
  <2>. HIDE DEF o
  <2>. QED BY <2>1, <2>2 DEF Calls
<1>3. TypeOK'
  BY <1>0, <1>2, SlotsDiffer DEF Lookup, RefInc, TypeOK, Calls
<1>4. Places'
  BY <1>0, <1>2, SlotsDiffer, NoneIsNone, IdleIs DEF Lookup, TypeOK, Places, HasFiles
<1>5. Exact'
  BY <1>2, SlotsDiffer, FillExact DEF Lookup
<1>. QED BY <1>3, <1>4, <1>5

\* the end of a pointer: put_fs, close, and an open that is refused
LEMMA PutFsStep ==
    ASSUME IInv, NEW p \in Procs, state[p] = "running", PutFs(p),
           op.kind \in {"idle", "load"} \/ (op.kind = "exec" /\ op.todo = {}),
           op.kind # "idle" => op.proc = p
    PROVE  IInv'
<1>. USE DEF IInv
<1>0. /\ op' \in Calls
      /\ op'.kind = "exit" /\ op'.proc = p /\ op'.todo = OpenFds(p)
  BY BusyIs DEF PutFs, OpKinds, OpenFds
<1>1. at[Pwd(p)] \in Nodes
  BY SlotsDiffer DEF Places, HasFiles, TypeOK
<1>2. TypeOK'
  BY <1>0, <1>1, SlotsDiffer DEF PutFs, RefDec, TypeOK, Calls
<1>3. Places'
  <2>1. \A q \in Procs : HasFiles(q)' <=> HasFiles(q) /\ q # p
    BY <1>0 DEF PutFs, HasFiles
  <2>2. /\ \A q \in Procs, fd \in Fds : at'[Fd(q, fd)] = at[Fd(q, fd)]
        /\ \A q \in Procs : at'[Pwd(q)] = IF q = p THEN None ELSE at[Pwd(q)]
        /\ at'[Held] = at[Held]
    BY SlotsDiffer DEF PutFs, TypeOK
  <2>3. \A q \in Procs : at'[Pwd(q)] # None <=> HasFiles(q)'
    BY <2>1, <2>2 DEF Places
  <2>4. \A q \in Procs, fd \in Fds : at'[Fd(q, fd)] # None => HasFiles(q)' \/ (q = p /\ fd \in OpenFds(p))
    BY <2>1, <2>2 DEF Places, OpenFds
  <2>5. at'[Held] = None
    BY <2>2 DEF Places
  <2>6. \A fd \in OpenFds(p) : at'[Fd(p, fd)] # None
    BY <2>2 DEF OpenFds
  <2>. QED BY <1>0, <2>3, <2>4, <2>5, <2>6 DEF PutFs, Places
<1>4. Exact'
  <2>1. Pwd(p) \in Slots /\ Pwd(p) \notin FdSlots /\ at[Pwd(p)] # None
    BY <1>1, SlotsDiffer, NoneIsNone
  <2>. QED BY <2>1, EmptyExact DEF PutFs
<1>. QED BY <1>2, <1>3, <1>4

\* fd_array_close keeps the counts, whoever calls it.
LEMMA CloseExact ==
    ASSUME TypeOK, Exact, NEW s \in FdSlots, at[s] # None, Close(s), lost' = lost
    PROVE  /\ Exact'
           /\ at' = [at EXCEPT ![s] = None]
           /\ count' \in [FdSlots -> Nat]
           /\ ref' \in [Nodes -> Int] /\ opens' \in [Nodes -> Int]
           /\ cached' \subseteq Nodes /\ dirty' \subseteq Programs
<1>1. s \in Slots /\ at[s] \in Nodes
  BY SlotsDiffer DEF TypeOK
<1>2. Exact'
  BY <1>1, EmptyExact DEF Close
<1>. QED BY <1>1, <1>2 DEF Close, RefDec, TypeOK

\* fs_destroy goes on with the next entry.
LEMMA CloseNextStep ==
    ASSUME IInv, NEW fd \in Fds, CloseNext(fd)
    PROVE  IInv'
<1>. USE DEF IInv
<1>0. op.proc \in Procs /\ fd \in op.todo
  BY DEF TypeOK, CloseNext, Least
<1>1. Fd(op.proc, fd) \in FdSlots /\ at[Fd(op.proc, fd)] # None
  BY <1>0, SlotsDiffer DEF CloseNext, Places
<1>2. /\ Exact'
      /\ at' = [at EXCEPT ![Fd(op.proc, fd)] = None]
      /\ count' \in [FdSlots -> Nat]
      /\ ref' \in [Nodes -> Int] /\ opens' \in [Nodes -> Int]
      /\ cached' \subseteq Nodes /\ dirty' \subseteq Programs
  BY <1>1, CloseExact DEF CloseNext
<1>3. TypeOK'
  BY <1>1, <1>2, SlotsDiffer DEF CloseNext, TypeOK
<1>4. Places'
  BY <1>0, <1>2, SlotsDiffer DEF CloseNext, TypeOK, Places, HasFiles
<1>. QED BY <1>2, <1>3, <1>4

\* load_icode has read the program.
LEMMA LoadDoneStep ==
    ASSUME IInv, LoadDone
    PROVE  IInv'
<1>. USE DEF IInv
<1>0. op.proc \in Procs /\ op.fd \in Fds /\ op' \in Calls /\ op'.kind = "idle"
  BY IdleIs DEF TypeOK, LoadDone
<1>1. Fd(op.proc, op.fd) \in FdSlots /\ at[Fd(op.proc, op.fd)] # None
  BY <1>0, SlotsDiffer, NoneIsNone DEF LoadDone, Places
<1>2. /\ Exact'
      /\ at' = [at EXCEPT ![Fd(op.proc, op.fd)] = None]
      /\ count' \in [FdSlots -> Nat]
      /\ ref' \in [Nodes -> Int] /\ opens' \in [Nodes -> Int]
      /\ cached' \subseteq Nodes /\ dirty' \subseteq Programs
  BY <1>1, CloseExact DEF LoadDone
<1>3. TypeOK'
  BY <1>0, <1>1, <1>2, SlotsDiffer DEF LoadDone, TypeOK, Calls
<1>4. Places'
  BY <1>0, <1>2, SlotsDiffer DEF LoadDone, TypeOK, Places, HasFiles
<1>. QED BY <1>2, <1>3, <1>4

\* One entry is closed.
LEMMA FileCloseStep ==
    ASSUME IInv, NEW p \in Procs, NEW fd \in Fds, FileClose(p, fd)
    PROVE  IInv'
<1>. USE DEF IInv
<1>1. Fd(p, fd) \in FdSlots /\ at[Fd(p, fd)] # None
  BY SlotsDiffer DEF FileClose, OpenFds
<1>2. /\ Exact'
      /\ at' = [at EXCEPT ![Fd(p, fd)] = None]
      /\ count' \in [FdSlots -> Nat]
      /\ ref' \in [Nodes -> Int] /\ opens' \in [Nodes -> Int]
      /\ cached' \subseteq Nodes /\ dirty' \subseteq Programs
  BY <1>1, CloseExact DEF FileClose
<1>3. TypeOK'
  BY <1>1, <1>2, SlotsDiffer DEF FileClose, TypeOK
<1>4. Places'
  BY <1>2, SlotsDiffer, IdleIs DEF FileClose, TypeOK, Places, HasFiles
<1>. QED BY <1>2, <1>3, <1>4

\* An open that fails gives back the entry and the inode.
LEMMA OpenRefusedStep ==
    ASSUME IInv, OpenRefused
    PROVE  IInv'
<1>. USE DEF IInv
<1>0. op' \in Calls /\ op'.kind = "idle"
  BY IdleIs DEF OpenRefused
<1>1. at[Held] \in Nodes
  BY SlotsDiffer DEF OpenRefused, Places, TypeOK
<1>2. TypeOK'
  BY <1>0, <1>1, SlotsDiffer DEF OpenRefused, RefDec, TypeOK, Calls
<1>3. Places'
  BY <1>0, SlotsDiffer DEF OpenRefused, TypeOK, Places, HasFiles
<1>4. Exact'
  <2>1. Held \in Slots /\ Held \notin FdSlots /\ at[Held] # None
    BY <1>1, SlotsDiffer, NoneIsNone
  <2>. QED BY <2>1, EmptyExact DEF OpenRefused
<1>. QED BY <1>2, <1>3, <1>4

\* the result of a lookup: lost, or handed to the entry
LEMMA ExistsStep ==
    ASSUME IInv, Exists
    PROVE  IInv'
<1>. USE DEF IInv
<1>0. op' \in Calls /\ op'.kind = "idle"
  BY IdleIs DEF Exists
<1>1. at[Held] \in Nodes /\ Held \in Slots /\ Held \notin FdSlots /\ at[Held] # None
  BY SlotsDiffer, NoneIsNone DEF Exists, Places, TypeOK
<1>2. TypeOK'
  BY <1>0, <1>1 DEF Exists, counts, TypeOK, Calls
<1>3. Places'
  BY <1>0, SlotsDiffer DEF Exists, TypeOK, Places, HasFiles
<1>4. Exact'
  <2>1. \A k \in Nodes :
           /\ IsFiniteSet(Users(k)')
           /\ Cardinality(Users(k)') = Cardinality(Users(k)) - (IF k = at[Held] THEN 1 ELSE 0)
           /\ Cardinality(Users(k)' \cap FdSlots)
                 = Cardinality(Users(k) \cap FdSlots) - (IF k = at[Held] /\ Held \in FdSlots THEN 1 ELSE 0)
           /\ Cardinality(Users(k)') \in Nat
           /\ Cardinality(Users(k)' \cap FdSlots) \in Nat
    BY <1>1, EmptyCounts DEF Exists, Exact
  <2>2. ASSUME NEW k \in Nodes
        PROVE  /\ ref'[k] = Cardinality(Users(k)') + Base(k) + lost'[k]
               /\ opens'[k] = Cardinality(Users(k)' \cap FdSlots)
    <3>1. Cardinality(Users(k)') = Cardinality(Users(k)) - (IF k = at[Held] THEN 1 ELSE 0)
      BY <2>1
    <3>2. Cardinality(Users(k)' \cap FdSlots) = Cardinality(Users(k) \cap FdSlots) - 0
      BY <1>1, <2>1
    <3>3. Cardinality(Users(k)) \in Nat /\ Cardinality(Users(k) \cap FdSlots) \in Nat
      BY FS_CardinalityType, FS_Subset, Users(k) \cap FdSlots \in SUBSET Users(k) DEF Exact
    <3>4. /\ ref[k] = Cardinality(Users(k)) + Base(k) + lost[k]
          /\ opens[k] = Cardinality(Users(k) \cap FdSlots)
      BY DEF Exact, InodesExact
    <3>5. /\ ref'[k] = ref[k] /\ opens'[k] = opens[k]
          /\ lost'[k] = lost[k] + (IF k = at[Held] THEN 1 ELSE 0)
          /\ lost[k] \in Nat /\ Base(k) \in Nat
      BY <1>1 DEF Exists, counts, TypeOK, Base
    <3>6. ref'[k] = Cardinality(Users(k)') + Base(k) + lost'[k]
      <4>1. CASE k = at[Held]
        BY <3>1, <3>3, <3>4, <3>5, <4>1
      <4>2. CASE k # at[Held]
        BY <3>1, <3>3, <3>4, <3>5, <4>2
      <4>. QED BY <4>1, <4>2
    <3>7. opens'[k] = Cardinality(Users(k)' \cap FdSlots)
      BY <3>2, <3>3, <3>4, <3>5
    <3>. QED BY <3>6, <3>7
  <2>3. UNCHANGED counts
    BY DEF Exists
  <2>. QED BY <2>1, <2>2, <2>3 DEF Exact, InodesExact, Base, counts
<1>. QED BY <1>2, <1>3, <1>4

\* An open that succeeds.
LEMMA OpenDoneStep ==
    ASSUME IInv, OpenDone
    PROVE  IInv'
<1>. USE DEF IInv
<1> DEFINE n == at[Held]
           s == Fd(op.proc, op.fd)
<1>0. op' \in Calls /\ op'.kind = "idle" /\ op.proc \in Procs /\ op.fd \in Fds
  BY IdleIs DEF OpenDone, TypeOK
<1>1. /\ n \in Nodes /\ Held \in Slots /\ Held \notin FdSlots
      /\ s \in FdSlots /\ s \in Slots /\ s # Held
      /\ at[s] = None
  BY <1>0, SlotsDiffer DEF OpenDone, Places, TypeOK
<1>2. /\ at' = [at EXCEPT ![Held] = None, ![s] = n]
      /\ count' = [count EXCEPT ![s] = 1]
      /\ opens' = [opens EXCEPT ![n] = @ + 1]
      /\ UNCHANGED <<ref, cached, lost, state>>
  BY DEF OpenDone
<1>3. dirty' \in {dirty, dirty \cup {n}} /\ dirty' \subseteq Programs
  <2>1. CASE op.flags.how = "plain"
    BY <2>1 DEF OpenDone, TypeOK
  <2>2. CASE op.flags.how # "plain"
    <3>1. n # Root
      BY <2>2 DEF OpenDone
    <3>2. n # Stdin
      BY <2>2 DEF OpenDone, Refused, ReadOnly
    <3>3. n \in Programs
      BY <1>1, <3>1, <3>2 DEF Nodes
    <3>. QED BY <2>2, <3>3 DEF OpenDone, TypeOK
  <2>. QED BY <2>1, <2>2
<1>4. TypeOK'
  BY <1>0, <1>1, <1>2, <1>3 DEF TypeOK, Calls
<1>5. Places'
  BY <1>0, <1>1, <1>2, SlotsDiffer DEF OpenDone, TypeOK, Places, HasFiles
<1>6. \A k \in Nodes : IF k = n THEN /\ Held \in Users(k) /\ s \notin Users(k)
                                     /\ Users(k)' = (Users(k) \ {Held}) \cup {s}
                       ELSE Users(k)' = Users(k)
  BY <1>1, <1>2, NoneIsNone DEF Users, TypeOK
<1>7. ASSUME NEW k \in Nodes
      PROVE  /\ IsFiniteSet(Users(k)')
             /\ ref'[k] = Cardinality(Users(k)') + Base(k) + lost'[k]
             /\ opens'[k] = Cardinality(Users(k)' \cap FdSlots)
             /\ k \in cached' <=> ref'[k] > 0
             /\ opens'[k] = 0 => k \notin dirty'
  <2>1. IsFiniteSet(Users(k)) /\ IsFiniteSet(Users(k) \cap FdSlots)
    BY FS_Subset, Users(k) \cap FdSlots \in SUBSET Users(k) DEF Exact
  <2>2. Cardinality(Users(k)) \in Nat /\ Cardinality(Users(k) \cap FdSlots) \in Nat
    BY <2>1, FS_CardinalityType
  <2>3. /\ ref[k] = Cardinality(Users(k)) + Base(k) + lost[k]
        /\ opens[k] = Cardinality(Users(k) \cap FdSlots)
        /\ k \in cached <=> ref[k] > 0
        /\ opens[k] = 0 => k \notin dirty
    BY DEF Exact, InodesExact
  <2>4. CASE k # n
    <3>1. Users(k)' = Users(k)
      BY <1>6, <2>4
    <3>2. opens'[k] = opens[k] /\ (k \in dirty' <=> k \in dirty)
      BY <1>1, <1>2, <1>3, <2>4 DEF TypeOK
    <3>. QED BY <1>2, <2>1, <2>3, <3>1, <3>2
  <2>5. CASE k = n
    <3>1. /\ Held \in Users(k) /\ s \notin Users(k) \ {Held}
          /\ Users(k)' = (Users(k) \ {Held}) \cup {s}
      BY <1>6, <2>5
    <3>2. /\ IsFiniteSet(Users(k) \ {Held})
          /\ Cardinality(Users(k) \ {Held}) = Cardinality(Users(k)) - 1
      BY <2>1, <3>1, FS_RemoveElement
    <3>3. /\ IsFiniteSet(Users(k)')
          /\ Cardinality(Users(k)') = Cardinality(Users(k) \ {Held}) + 1
      BY <3>1, <3>2, FS_AddElement
    <3>4. /\ s \notin Users(k) \cap FdSlots
          /\ Users(k)' \cap FdSlots = (Users(k) \cap FdSlots) \cup {s}
      BY <1>1, <3>1
    <3>5. Cardinality(Users(k)' \cap FdSlots) = Cardinality(Users(k) \cap FdSlots) + 1
      BY <2>1, <3>4, FS_AddElement
    <3>6. Cardinality(Users(k)') = Cardinality(Users(k))
      BY <2>2, <3>2, <3>3
    <3>7. opens'[k] = opens[k] + 1 /\ ref'[k] = ref[k]
      BY <1>1, <1>2, <2>5 DEF TypeOK
    <3>8. opens'[k] # 0
      BY <2>2, <2>3, <3>7
    <3>. QED BY <1>2, <2>3, <3>3, <3>5, <3>6, <3>7, <3>8
  <2>. QED BY <2>4, <2>5
<1>. QED BY <1>4, <1>5, <1>7 DEF Exact, InodesExact, Base

\* what a file holds changes, or is written
LEMMA DirtyStep ==
    ASSUME IInv, LoadSeeks \/ \E p \in Procs, fd \in Fds : Change(p, fd) \/ FileFsync(p, fd)
    PROVE  IInv'
<1>. USE DEF IInv
<1>1. /\ UNCHANGED <<at, count, ref, opens, cached, lost, state, op>>
      /\ dirty' \subseteq Programs
      /\ \A n \in Nodes : n \in dirty' => n \in dirty \/ \E s \in FdSlots : at[s] = n
  <2>1. CASE LoadSeeks
    <3>1. op.proc \in Procs /\ op.fd \in Fds
      BY DEF TypeOK
    <3>. QED BY <2>1, <3>1, SlotsDiffer DEF LoadSeeks, Loaded, Places, TypeOK
  <2>2. ASSUME NEW p \in Procs, NEW fd \in Fds, Change(p, fd) \/ FileFsync(p, fd)
        PROVE  /\ UNCHANGED <<at, count, ref, opens, cached, lost, state, op>>
               /\ dirty' \subseteq Programs
               /\ \A n \in Nodes : n \in dirty' => n \in dirty \/ \E s \in FdSlots : at[s] = n
    BY <2>2, SlotsDiffer DEF Change, FileFsync, TypeOK
  <2>. QED BY <2>1, <2>2
<1>2. TypeOK'
  BY <1>1 DEF TypeOK
<1>3. Places'
  BY <1>1 DEF Places, HasFiles
<1>4. Exact'
  BY <1>1, DirtyExact
<1>. QED BY <1>2, <1>3, <1>4

\* the steps that move no pointer
LEMMA QuietStep ==
    ASSUME IInv,
           \/ ForkDone \/ ExitDone
           \/ \E p \in Procs : Reap(p) \/ Execve(p)
           \/ \E p \in Procs, fd \in Fds : ReadSleeps(p, fd) \/ ReadEnds(p, fd)
    PROVE  IInv'
<1>. USE DEF IInv
<1>1. CASE ForkDone
  <2>1. TypeOK'
    BY <1>1, IdleIs DEF ForkDone, TypeOK, Calls, counts
  <2>2. Places'
    BY <1>1, IdleIs DEF ForkDone, TypeOK, Places, HasFiles
  <2>. QED BY <1>1, <2>1, <2>2, SameExact DEF ForkDone
<1>2. CASE ExitDone
  <2>1. TypeOK'
    BY <1>2, IdleIs DEF ExitDone, TypeOK, Calls, counts
  <2>2. Places'
    BY <1>2, IdleIs DEF ExitDone, TypeOK, Places, HasFiles
  <2>. QED BY <1>2, <2>1, <2>2, SameExact DEF ExitDone
<1>3. ASSUME NEW p \in Procs, Reap(p)
      PROVE  IInv'
  <2>1. TypeOK'
    BY <1>3 DEF Reap, TypeOK, counts
  <2>2. Places'
    BY <1>3, IdleIs DEF Reap, TypeOK, Places, HasFiles
  <2>. QED BY <1>3, <2>1, <2>2, SameExact DEF Reap
<1>4. ASSUME NEW p \in Procs, Execve(p)
      PROVE  IInv'
  <2>0. /\ op' \in Calls /\ op'.kind = "exec" /\ op'.proc = p
        /\ op'.todo = OpenFds(p) \ {0, 1}
    BY <1>4, BusyIs DEF Execve, OpKinds, OpenFds
  <2>1. TypeOK'
    BY <1>4, <2>0 DEF Execve, TypeOK, Calls, counts
  <2>2. Places'
    <3>1. op.kind = "idle" /\ state[p] = "running" /\ UNCHANGED <<at, state>>
      BY <1>4, IdleIs DEF Execve
    <3>2. \A q \in Procs : HasFiles(q)' <=> HasFiles(q)
      BY <2>0, <3>1 DEF HasFiles
    <3>3. \A fd \in op'.todo : at[Fd(p, fd)] # None
      BY <2>0 DEF OpenFds
    <3>. QED BY <2>0, <3>1, <3>2, <3>3 DEF Places
  <2>. QED BY <1>4, <2>1, <2>2, SameExact DEF Execve
<1>5. ASSUME NEW p \in Procs, NEW fd \in Fds, ReadSleeps(p, fd) \/ ReadEnds(p, fd)
      PROVE  IInv'
  <2>1. TypeOK'
    <3>1. CASE ReadSleeps(p, fd)
      BY <3>1, SlotsDiffer DEF ReadSleeps, TypeOK, counts
    <3>2. CASE ReadEnds(p, fd)
      BY <3>2, SlotsDiffer DEF ReadEnds, TypeOK, counts
    <3>. QED BY <1>5, <3>1, <3>2
  <2>2. Places'
    BY <1>5, IdleIs DEF ReadSleeps, ReadEnds, TypeOK, Places, HasFiles
  <2>. QED BY <1>5, <2>1, <2>2, SameExact DEF ReadSleeps, ReadEnds
<1>. QED BY <1>1, <1>2, <1>3, <1>4, <1>5

\* Every step keeps the invariant.
LEMMA Invariance == IInv /\ [Next]_vars => IInv'
<1> SUFFICES ASSUME IInv, [Next]_vars PROVE IInv'
  OBVIOUS
<1>1. CASE UNCHANGED vars
  BY <1>1, SameExact DEF vars, IInv, TypeOK, Places, HasFiles, counts
<1>2. CASE NoProgram \/ LoadFails
  <2>1. op.proc \in Procs /\ state[op.proc] = "running"
    BY <1>2 DEF IInv, TypeOK, Places, NoProgram, LoadFails
  <2>. QED BY <1>2, <2>1, PutFsStep DEF NoProgram, LoadFails
<1>3. ASSUME NEW p \in Procs, Exit(p)
      PROVE  IInv'
  BY <1>3, PutFsStep, IdleIs DEF Exit
<1>4. CASE /\ Next /\ ~(NoProgram \/ LoadFails)
           /\ \A p \in Procs : ~Exit(p)
  BY <1>4, ForkStep, DupNextStep, FileDupStep, OpenProgramStep, LookupStep, CloseNextStep,
     LoadDoneStep, FileCloseStep, OpenRefusedStep, ExistsStep, OpenDoneStep, DirtyStep,
     QuietStep DEF Next
<1>. QED BY <1>1, <1>2, <1>3, <1>4

\* The variables of the descriptor tables keep their types (file.c, inode.c).
THEOREM TypeCorrect == Spec => []TypeOK
<1>1. Init => IInv
  BY Initially
<1>2. IInv /\ [Next]_vars => IInv'
  BY Invariance
<1>3. IInv => TypeOK
  BY DEF IInv
<1>. QED BY <1>1, <1>2, <1>3, PTL DEF Spec

\* In every state, the counts of each inode are the number of pointers to it:
\* it is in memory exactly as long as somebody has it, and clean on the disk
\* when nobody has it open (vop_ref_dec, vop_open_dec).
THEOREM CountsCorrect == Spec => []InodesExact
<1>1. Init => IInv
  BY Initially
<1>2. IInv /\ [Next]_vars => IInv'
  BY Invariance
<1>3. IInv => InodesExact
  BY DEF IInv, Exact
<1>. QED BY <1>1, <1>2, <1>3, PTL DEF Spec
=============================================================================
