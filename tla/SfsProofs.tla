------------------------------- MODULE SfsProofs -------------------------------
(***************************************************************************)
(* What holds of the blocks and inodes of the simple file system for any   *)
(* files, descriptors, disk and block size.  The invariant has two layers: *)
(* Core speaks of the block maps and what the disk holds of them, Fits of  *)
(* sizes and positions, which needs arithmetic with blocks of BlkSize.     *)
(***************************************************************************)
EXTENDS Sfs, FiniteSetTheorems, TLAPS

-----------------------------------------------------------------------------
(* Arithmetic. *)

\* How much fits into n blocks.
Room(n) == n * BlkSize

\* The room there is in n blocks.
LEMMA RoomFacts ==
    /\ \A n \in Nat : Room(n) \in Nat
    /\ \A n \in Nat : Room(n + 1) = Room(n) + BlkSize
    /\ \A m, n \in Nat : m <= n => Room(m) <= Room(n)
    /\ Room(0) = 0
<1>1. \A n \in Nat : Room(n) \in Nat
  BY SfsAssumption DEF Room
<1>2. \A n \in Nat : Room(n + 1) = Room(n) + BlkSize
  BY SfsAssumption DEF Room
<1>3. \A m, n \in Nat : m <= n => Room(m) <= Room(n)
  BY SfsAssumption DEF Room
<1>4. Room(0) = 0
  BY SfsAssumption DEF Room
<1>. QED BY <1>1, <1>2, <1>3, <1>4

\* A position of a file lies in the block of its index.
LEMMA IndexFacts ==
    ASSUME NEW x \in Nat
    PROVE  /\ x \div BlkSize \in Nat
           /\ Room(x \div BlkSize) <= x
           /\ x < Room((x \div BlkSize) + 1)
  BY SfsAssumption DEF Room

\* How many blocks a size needs.
LEMMA BlocksForFacts ==
    ASSUME NEW x \in Nat
    PROVE  /\ BlocksFor(x) \in Nat
           /\ x <= Room(BlocksFor(x))
           /\ x = 0 => BlocksFor(x) = 0
  BY SfsAssumption DEF Room, BlocksFor

-----------------------------------------------------------------------------
(* Block maps. *)

NIndex == NDirect + NEntry
Images == [size : Nat, blocks : Nat,
           at : UNION {[InodeSlots(f) -> Blocks \cup {NoBlock}] : f \in Files}]
MapTypes ==
    /\ free \subseteq Blocks /\ unused \in Int
    /\ at \in [Slots -> Blocks \cup {NoBlock}]
    /\ size \in [Files -> Nat] /\ blocks \in [Files -> 0 .. NIndex]
    /\ dirty \in [Files -> BOOLEAN]
    /\ disk \in [Files -> Images]
    /\ super \in [free : SUBSET Blocks, unused : Int, dirty : BOOLEAN]

Owned == \A b \in Blocks : /\ b \in free <=> \A s \in Slots : at[s] # b
                           /\ \A s, t \in Slots : at[s] = b /\ at[t] = b => s = t
Backed == \A f \in Files : \A i \in 0 .. blocks[f] - 1 : HasBlock(f, i)
Counted == unused = Cardinality(free)

\* An inode that is not dirty is on the disk, except perhaps for some blocks
\* at its end; so are the freemap and the superblock.
Clean == \A f \in Files : ~dirty[f] =>
            /\ disk[f].size = size[f]
            /\ \A s \in InodeSlots(f) : disk[f].at[s] = at[s]
            /\ disk[f].blocks <= blocks[f]
CleanSuper == ~super.dirty => super.free = free /\ super.unused = unused

Core == MapTypes /\ Owned /\ Backed /\ Counted /\ Clean /\ CleanSuper

\* The numbers are numbers.
LEMMA Numbers ==
    /\ NBlock \in Nat /\ NDirect \in Nat /\ NEntry \in Nat /\ NIndex \in Nat
    /\ BlkSize \in Nat \ {0} /\ MaxSize \in Nat
    /\ NoBlock \notin Blocks
  BY SfsAssumption DEF NIndex, NoBlock, Blocks

\* Slots of different files, and of different blocks of a file, are different.
LEMMA SlotFacts ==
    ASSUME NEW f \in Files
    PROVE  /\ InodeSlots(f) \subseteq Slots
           /\ Indirect(f) \in InodeSlots(f)
           /\ \A i \in 0 .. NIndex - 1 :
                 /\ SlotOf(f, i) \in Slots
                 /\ i >= NDirect => \A g \in Files : SlotOf(f, i) \notin InodeSlots(g)
                 /\ i < NDirect => SlotOf(f, i) \in InodeSlots(f)
                 /\ SlotOf(f, i) # Indirect(f)
           /\ \A g \in Files : g # f => InodeSlots(f) \cap InodeSlots(g) = {}
           /\ \A g \in Files, i, j \in 0 .. NIndex - 1 :
                 SlotOf(f, i) = SlotOf(g, j) => f = g /\ i = j
<1>1. InodeSlots(f) \subseteq Slots /\ Indirect(f) \in InodeSlots(f)
  BY DEF InodeSlots, Slots
<1>2. ASSUME NEW i \in 0 .. NIndex - 1
      PROVE  /\ SlotOf(f, i) \in Slots
             /\ i >= NDirect => \A g \in Files : SlotOf(f, i) \notin InodeSlots(g)
             /\ i < NDirect => SlotOf(f, i) \in InodeSlots(f)
             /\ SlotOf(f, i) # Indirect(f)
  <2>1. CASE i < NDirect
    <3>1. SlotOf(f, i) = Direct(f, i) /\ i \in 0 .. NDirect - 1
      BY <2>1, Numbers DEF SlotOf
    <3>2. SlotOf(f, i) \in InodeSlots(f)
      BY <3>1 DEF InodeSlots
    <3>. QED BY <1>1, <2>1, <3>1, <3>2, Numbers DEF Direct, Indirect
  <2>2. CASE i >= NDirect
    <3>1. SlotOf(f, i) = Entry(f, i - NDirect) /\ i - NDirect \in 0 .. NEntry - 1
      BY <2>2, Numbers DEF SlotOf, NIndex
    <3>2. SlotOf(f, i) \in EntrySlots(f)
      BY <3>1 DEF EntrySlots
    <3>3. SlotOf(f, i) \in Slots
      BY <3>2 DEF Slots
    <3>4. \A g \in Files : SlotOf(f, i) \notin InodeSlots(g)
      BY <3>1 DEF InodeSlots, Entry, Direct, Indirect
    <3>. QED BY <2>2, <3>1, <3>3, <3>4, Numbers DEF Entry, Indirect
  <2>. QED BY <2>1, <2>2, Numbers
<1>3. \A g \in Files : g # f => InodeSlots(f) \cap InodeSlots(g) = {}
  BY DEF InodeSlots, Direct, Indirect
<1>4. \A g \in Files, i, j \in 0 .. NIndex - 1 : SlotOf(f, i) = SlotOf(g, j) => f = g /\ i = j
  BY Numbers DEF SlotOf, Direct, Entry, NIndex
<1>. QED BY <1>1, <1>2, <1>3, <1>4

\* The freemap is finite.
LEMMA FreeIsFinite ==
    ASSUME free \subseteq Blocks
    PROVE  IsFiniteSet(free) /\ Cardinality(free) \in Nat
<1>1. IsFiniteSet(Blocks)
  BY FS_Interval, Numbers DEF Blocks
<1>2. IsFiniteSet(free)
  BY <1>1, FS_Subset
<1>. QED BY <1>2, FS_CardinalityType

\* sfs_block_alloc for an empty slot
LEMMA AllocOwned ==
    ASSUME MapTypes, Owned, Counted, NEW s \in Slots, at[s] = NoBlock, BlockAlloc(s)
    PROVE  /\ Owned' /\ Counted' /\ CleanSuper'
           /\ free' \subseteq Blocks /\ unused' \in Int
           /\ at' \in [Slots -> Blocks \cup {NoBlock}]
           /\ super' \in [free : SUBSET Blocks, unused : Int, dirty : BOOLEAN]
           /\ at'[s] # NoBlock
           /\ \A t \in Slots : t # s => at'[t] = at[t]
<1>1. PICK b \in free : free' = free \ {b} /\ at' = [at EXCEPT ![s] = b]
  BY DEF BlockAlloc
<1>2. b \in Blocks /\ b # NoBlock
  BY Numbers DEF MapTypes
<1>3. \A t \in Slots : at[t] # b
  BY <1>2 DEF Owned
<1>4. \A t \in Slots : at'[t] = IF t = s THEN b ELSE at[t]
  BY <1>1 DEF MapTypes
<1>5. Owned'
  <2> SUFFICES ASSUME NEW c \in Blocks
               PROVE  /\ c \in free' <=> \A t \in Slots : at'[t] # c
                      /\ \A t, u \in Slots : at'[t] = c /\ at'[u] = c => t = u
    BY DEF Owned, Blocks, Slots, InodeSlots, EntrySlots
  <2>1. CASE c = b
    BY <1>1, <1>3, <1>4, <2>1
  <2>2. CASE c # b
    <3>1. \A t \in Slots : at'[t] = c <=> at[t] = c
      BY <1>4, <2>2, Numbers
    <3>. QED BY <1>1, <2>2, <3>1 DEF Owned
  <2>. QED BY <2>1, <2>2
<1>6. Counted'
  <2>1. Cardinality(free \ {b}) = Cardinality(free) - 1
    BY FreeIsFinite, FS_RemoveElement DEF MapTypes
  <2>. QED BY <1>1, <2>1 DEF Counted, BlockAlloc
<1>7. super' = SuperDirty
  BY DEF BlockAlloc
<1>8. super' \in [free : SUBSET Blocks, unused : Int, dirty : BOOLEAN] /\ super'.dirty
  BY <1>7 DEF SuperDirty
<1>. QED BY <1>1, <1>2, <1>4, <1>5, <1>6, <1>8 DEF MapTypes, BlockAlloc, CleanSuper

\* sfs_block_free
LEMMA FreeOwned ==
    ASSUME MapTypes, Owned, Counted, NEW s \in Slots, at[s] # NoBlock, BlockFree(s)
    PROVE  /\ Owned' /\ Counted' /\ CleanSuper'
           /\ free' \subseteq Blocks /\ unused' \in Int
           /\ at' \in [Slots -> Blocks \cup {NoBlock}]
           /\ super' \in [free : SUBSET Blocks, unused : Int, dirty : BOOLEAN]
           /\ \A t \in Slots : t # s => at'[t] = at[t]
<1> DEFINE b == at[s]
<1>1. b \in Blocks /\ free' = free \cup {b} /\ at' = [at EXCEPT ![s] = NoBlock]
  BY DEF BlockFree, MapTypes
<1>2. b \notin free
  BY <1>1 DEF Owned
<1>3. \A t \in Slots : at'[t] = IF t = s THEN NoBlock ELSE at[t]
  BY <1>1 DEF MapTypes
<1>4. \A t \in Slots : t # s => at[t] # b
  BY <1>1 DEF Owned
<1>. HIDE DEF b
<1>5. Owned'
  <2> SUFFICES ASSUME NEW c \in Blocks
               PROVE  /\ c \in free' <=> \A t \in Slots : at'[t] # c
                      /\ \A t, u \in Slots : at'[t] = c /\ at'[u] = c => t = u
    BY DEF Owned, Blocks, Slots, InodeSlots, EntrySlots
  <2>1. CASE c = b
    BY <1>1, <1>3, <1>4, <2>1, Numbers
  <2>2. CASE c # b
    <3>1. \A t \in Slots : at'[t] = c <=> at[t] = c
      BY <1>3, <2>2, Numbers DEF b
    <3>. QED BY <1>1, <2>2, <3>1 DEF Owned
  <2>. QED BY <2>1, <2>2
<1>6. Counted'
  <2>1. Cardinality(free \cup {b}) = Cardinality(free) + 1
    BY <1>2, FreeIsFinite, FS_AddElement DEF MapTypes
  <2>. QED BY <1>1, <2>1 DEF Counted, BlockFree
<1>7. super' = SuperDirty
  BY DEF BlockFree
<1>8. super' \in [free : SUBSET Blocks, unused : Int, dirty : BOOLEAN] /\ super'.dirty
  BY <1>7 DEF SuperDirty
<1>. QED BY <1>1, <1>3, <1>5, <1>6, <1>8 DEF MapTypes, BlockFree, CleanSuper

-----------------------------------------------------------------------------
(* Core through the operations on block maps. *)

\* sfs_bmap_load_nolock: a block of the file, or a new one behind its end
LEMMA LoadCore ==
    ASSUME Core, NEW f \in Files, NEW index \in Nat, Load(f, index),
           UNCHANGED <<size, disk>>
    PROVE  Core'
<1>. USE DEF Core
<1>1. /\ index \in 0 .. NIndex - 1 /\ index <= blocks[f] /\ blocks[f] \in 0 .. NIndex
      /\ blocks' = IF index = blocks[f] THEN [blocks EXCEPT ![f] = @ + 1] ELSE blocks
  BY Numbers DEF Load, InRange, NIndex, MapTypes
<1>2. blocks' \in [Files -> 0 .. NIndex]
  BY <1>1, Numbers DEF MapTypes
<1>3. \A g \in Files : blocks'[g] = IF g = f /\ index = blocks[f] THEN blocks[f] + 1 ELSE blocks[g]
  BY <1>1 DEF MapTypes
<1>4. CASE HasBlock(f, index)
  <2>1. UNCHANGED <<free, unused, at, super, dirty>>
    BY <1>4 DEF Load
  <2>2. MapTypes'
    BY <1>2, <2>1 DEF MapTypes, Slots, InodeSlots, EntrySlots, Blocks, Images
  <2>3. Owned' /\ Counted' /\ CleanSuper'
    BY <2>1 DEF Owned, Counted, CleanSuper, Blocks, Slots
  <2>4. Backed'
    BY <1>1, <1>3, <1>4, <2>1, Numbers DEF Backed, HasBlock, MapTypes
  <2>5. Clean'
    <3>1. \A g \in Files : blocks[g] <= blocks'[g]
      BY <1>3, Numbers DEF MapTypes
    <3>2. \A g \in Files : disk[g].blocks \in Nat
      BY DEF MapTypes, Images
    <3>. QED BY <1>2, <2>1, <3>1, <3>2, Numbers DEF Clean, MapTypes
  <2>. QED BY <2>2, <2>3, <2>4, <2>5
<1>5. CASE ~HasBlock(f, index)
  <2> DEFINE s == SlotOf(f, index)
  <2>1. /\ index = blocks[f] /\ BlockAlloc(s)
        /\ dirty' = [dirty EXCEPT ![f] = @ \/ Dirties(index)]
    BY <1>5 DEF Load
  <2>2. s \in Slots /\ at[s] = NoBlock
    BY <1>1, <1>5, SlotFacts DEF HasBlock
  <2>3. /\ Owned' /\ Counted' /\ CleanSuper'
        /\ free' \subseteq Blocks /\ unused' \in Int
        /\ at' \in [Slots -> Blocks \cup {NoBlock}]
        /\ super' \in [free : SUBSET Blocks, unused : Int, dirty : BOOLEAN]
        /\ at'[s] # NoBlock
        /\ \A t \in Slots : t # s => at'[t] = at[t]
    BY <2>1, <2>2, AllocOwned
  <2>4. MapTypes'
    <3>1. dirty' \in [Files -> BOOLEAN]
      BY <2>1 DEF MapTypes, Dirties
    <3>. QED BY <1>2, <2>3, <3>1 DEF MapTypes
  <2>5. \A g \in Files, i \in 0 .. NIndex - 1 : HasBlock(g, i) => HasBlock(g, i)'
    BY <2>3, SlotFacts DEF HasBlock
  <2>6. Backed'
    <3> SUFFICES ASSUME NEW g \in Files, NEW i \in 0 .. blocks'[g] - 1
                 PROVE  HasBlock(g, i)'
      BY DEF Backed
    <3>1. i \in 0 .. NIndex - 1
      BY <1>2, Numbers
    <3>2. CASE g = f /\ i = index
      BY <2>3, <3>2 DEF HasBlock
    <3>3. CASE ~(g = f /\ i = index)
      <4>1. i \in 0 .. blocks[g] - 1
        BY <1>1, <1>3, <2>1, <3>3, Numbers DEF MapTypes
      <4>. QED BY <2>5, <3>1, <4>1 DEF Backed
    <3>. QED BY <3>2, <3>3
  <2>7. Clean'
    <3> SUFFICES ASSUME NEW g \in Files, ~dirty'[g]
                 PROVE  /\ disk'[g].size = size'[g]
                        /\ \A t \in InodeSlots(g) : disk'[g].at[t] = at'[t]
                        /\ disk'[g].blocks <= blocks'[g]
      BY DEF Clean, InodeSlots
    <3>1. ~dirty[g] /\ (g = f => index >= NDirect)
      <4>1. CASE g = f
        <5>1. dirty'[f] <=> dirty[f] \/ Dirties(index)
          BY <2>1 DEF MapTypes
        <5>2. ~dirty[f] /\ ~Dirties(index)
          BY <4>1, <5>1
        <5>. QED BY <1>1, <4>1, <5>2, Numbers DEF Dirties
      <4>2. CASE g # f
        BY <2>1, <4>2 DEF MapTypes
      <4>. QED BY <4>1, <4>2
    <3>2. s \notin InodeSlots(g)
      <4>1. CASE g = f
        BY <1>1, <3>1, <4>1, SlotFacts
      <4>2. CASE g # f
        BY <1>1, <4>2, SlotFacts, Numbers
      <4>. QED BY <4>1, <4>2
    <3>3. \A t \in InodeSlots(g) : at'[t] = at[t]
      BY <2>3, <3>2, SlotFacts
    <3>4. blocks[g] <= blocks'[g] /\ blocks[g] \in Nat /\ blocks'[g] \in Nat /\ disk[g].blocks \in Nat
      <4>1. blocks[g] \in Nat /\ blocks'[g] \in Nat /\ blocks[f] \in Nat
        BY <1>1, <1>2, Numbers DEF MapTypes
      <4>2. disk[g].blocks \in Nat
        BY DEF MapTypes, Images
      <4>3. blocks[g] <= blocks'[g]
        BY <1>3, <4>1
      <4>. QED BY <4>1, <4>2, <4>3
    <3>5. disk[g].blocks <= blocks'[g]
      BY <3>1, <3>4 DEF Clean
    <3>. QED BY <3>1, <3>3, <3>5 DEF Clean
  <2>. QED BY <2>3, <2>4, <2>6, <2>7
<1>. QED BY <1>4, <1>5

\* sfs_bmap_get_sub_nolock: a new indirect block
LEMMA LoadIndirectCore ==
    ASSUME Core, NEW f \in Files, NEW index \in Nat, LoadIndirect(f, index),
           UNCHANGED <<size, blocks, disk>>
    PROVE  Core'
<1>. USE DEF Core
<1> DEFINE s == Indirect(f)
<1>1. s \in Slots /\ at[s] = NoBlock /\ BlockAlloc(s)
  BY SlotFacts DEF LoadIndirect, NeedsIndirect
<1>2. /\ Owned' /\ Counted' /\ CleanSuper'
      /\ free' \subseteq Blocks /\ unused' \in Int
      /\ at' \in [Slots -> Blocks \cup {NoBlock}]
      /\ super' \in [free : SUBSET Blocks, unused : Int, dirty : BOOLEAN]
      /\ \A t \in Slots : t # s => at'[t] = at[t]
  BY <1>1, AllocOwned
<1>3. dirty' = [dirty EXCEPT ![f] = TRUE]
  BY DEF LoadIndirect
<1>4. MapTypes'
  BY <1>2, <1>3 DEF MapTypes
<1>5. Backed'
  <2> SUFFICES ASSUME NEW g \in Files, NEW i \in 0 .. blocks[g] - 1
               PROVE  HasBlock(g, i)'
    BY DEF Backed
  <2>1. i \in 0 .. NIndex - 1 /\ HasBlock(g, i)
    BY Numbers DEF Backed, MapTypes
  <2>2. SlotOf(g, i) \in Slots /\ SlotOf(g, i) # s
    BY <2>1, SlotFacts, Numbers DEF SlotOf, Indirect, Direct, Entry
  <2>. QED BY <1>2, <2>1, <2>2 DEF HasBlock
<1>6. Clean'
  <2> SUFFICES ASSUME NEW g \in Files, ~dirty'[g]
               PROVE  /\ disk'[g].size = size'[g]
                      /\ \A t \in InodeSlots(g) : disk'[g].at[t] = at'[t]
                      /\ disk'[g].blocks <= blocks'[g]
    BY DEF Clean, InodeSlots
  <2>1. g # f /\ ~dirty[g]
    BY <1>3 DEF MapTypes
  <2>2. \A t \in InodeSlots(g) : at'[t] = at[t]
    BY <1>2, <2>1, SlotFacts
  <2>. QED BY <2>1, <2>2 DEF Clean
<1>. QED BY <1>2, <1>4, <1>5, <1>6

\* sfs_bmap_truncate_nolock: the last block goes
LEMMA ShrinkCore ==
    ASSUME Core, NEW f \in Files, blocks[f] > 0,
           BlockFree(SlotOf(f, blocks[f] - 1)),
           blocks' = [blocks EXCEPT ![f] = @ - 1],
           dirty' = [dirty EXCEPT ![f] = TRUE],
           UNCHANGED <<size, disk>>
    PROVE  Core'
<1>. USE DEF Core
<1> DEFINE last == blocks[f] - 1
           s == SlotOf(f, last)
<1>1. last \in 0 .. NIndex - 1 /\ blocks[f] \in 0 .. NIndex /\ last \in 0 .. blocks[f] - 1
  BY Numbers DEF MapTypes
<1>2. s \in Slots /\ at[s] # NoBlock
  BY <1>1, SlotFacts DEF Backed, HasBlock
<1>3. /\ Owned' /\ Counted' /\ CleanSuper'
      /\ free' \subseteq Blocks /\ unused' \in Int
      /\ at' \in [Slots -> Blocks \cup {NoBlock}]
      /\ super' \in [free : SUBSET Blocks, unused : Int, dirty : BOOLEAN]
      /\ \A t \in Slots : t # s => at'[t] = at[t]
  BY <1>2, FreeOwned
<1>4. blocks' \in [Files -> 0 .. NIndex]
  BY <1>1, Numbers DEF MapTypes
<1>5. MapTypes'
  BY <1>3, <1>4 DEF MapTypes
<1>6. Backed'
  <2> SUFFICES ASSUME NEW g \in Files, NEW i \in 0 .. blocks'[g] - 1
               PROVE  HasBlock(g, i)'
    BY DEF Backed
  <2>1. /\ i \in 0 .. blocks[g] - 1 /\ i \in 0 .. NIndex - 1
        /\ ~(g = f /\ i = last)
    BY <1>1, <1>4, Numbers DEF MapTypes
  <2>2. SlotOf(g, i) \in Slots /\ SlotOf(g, i) # s
    BY <1>1, <2>1, SlotFacts
  <2>. QED BY <1>3, <2>1, <2>2 DEF Backed, HasBlock
<1>7. Clean'
  <2> SUFFICES ASSUME NEW g \in Files, ~dirty'[g]
               PROVE  /\ disk'[g].size = size'[g]
                      /\ \A t \in InodeSlots(g) : disk'[g].at[t] = at'[t]
                      /\ disk'[g].blocks <= blocks'[g]
    BY DEF Clean, InodeSlots
  <2>1. g # f /\ ~dirty[g]
    BY DEF MapTypes
  <2>2. s \notin InodeSlots(g)
    BY <1>1, <2>1, SlotFacts, Numbers
  <2>3. \A t \in InodeSlots(g) : at'[t] = at[t]
    BY <1>3, <2>2, SlotFacts
  <2>4. blocks'[g] = blocks[g]
    BY <2>1 DEF MapTypes
  <2>. QED BY <2>1, <2>3, <2>4 DEF Clean
<1>. QED BY <1>3, <1>5, <1>6, <1>7

\* The size of an inode changes, which makes it dirty; and the superblock may
\* become dirty for a block that was taken and given back.
LEMMA SizeCore ==
    ASSUME Core, NEW f \in Files, NEW n \in Nat, NEW d \in BOOLEAN,
           size' = [size EXCEPT ![f] = n], dirty' = [dirty EXCEPT ![f] = @ \/ d],
           n # size[f] => d,
           super' \in {super, SuperDirty},
           UNCHANGED <<free, unused, at, blocks, disk>>
    PROVE  Core'
<1>. USE DEF Core
<1>1. SuperDirty \in [free : SUBSET Blocks, unused : Int, dirty : BOOLEAN] /\ SuperDirty.dirty
  BY DEF SuperDirty
<1>2. MapTypes'
  BY <1>1 DEF MapTypes, Slots, Blocks, Images
<1>3. Owned' /\ Counted' /\ Backed'
  BY DEF Owned, Counted, Backed, HasBlock, Blocks, Slots
<1>4. CleanSuper'
  BY <1>1 DEF CleanSuper
<1>5. Clean'
  BY DEF Clean, MapTypes
<1>. QED BY <1>2, <1>3, <1>4, <1>5

\* The core depends on these variables alone.
LEMMA SameCore ==
    ASSUME Core, UNCHANGED <<free, unused, at, size, blocks, dirty, disk, super>>
    PROVE  Core'
<1>1. MapTypes'
  BY DEF Core, MapTypes
<1>2. Owned' /\ Counted' /\ Backed'
  BY DEF Core, Owned, Counted, Backed, HasBlock
<1>3. Clean' /\ CleanSuper'
  BY DEF Core, Clean, CleanSuper
<1>. QED BY <1>1, <1>2, <1>3 DEF Core

\* sfs_fsync
LEMMA FsyncCore ==
    ASSUME Core, NEW f \in Files, Fsync(f),
           UNCHANGED <<free, unused, at, size, blocks, super>>
    PROVE  Core'
<1>. USE DEF Core
<1>1. CASE ~dirty[f]
  <2>1. UNCHANGED <<disk, dirty>>
    BY <1>1 DEF Fsync
  <2>. QED BY <2>1, SameCore
<1>2. CASE dirty[f]
  <2>1. /\ disk' = [disk EXCEPT ![f] = OnDisk(f)]
        /\ dirty' = [dirty EXCEPT ![f] = FALSE]
    BY <1>2 DEF Fsync
  <2>2. OnDisk(f) \in Images
    <3>1. [s \in InodeSlots(f) |-> at[s]] \in [InodeSlots(f) -> Blocks \cup {NoBlock}]
      BY SlotFacts DEF MapTypes
    <3>2. size[f] \in Nat /\ blocks[f] \in Nat
      BY Numbers DEF MapTypes
    <3>. QED BY <3>1, <3>2 DEF OnDisk, Images
  <2>3. MapTypes'
    BY <2>1, <2>2 DEF MapTypes
  <2>4. Owned' /\ Counted' /\ Backed' /\ CleanSuper'
    BY DEF Owned, Counted, Backed, HasBlock, CleanSuper, Blocks, Slots
  <2>5. Clean'
    <3> SUFFICES ASSUME NEW g \in Files, ~dirty'[g]
                 PROVE  /\ disk'[g].size = size'[g]
                        /\ \A t \in InodeSlots(g) : disk'[g].at[t] = at'[t]
                        /\ disk'[g].blocks <= blocks'[g]
      BY DEF Clean, InodeSlots
    <3>1. CASE g = f
      <4>1. disk'[g] = OnDisk(f)
        BY <2>1, <3>1 DEF MapTypes
      <4>2. blocks[f] \in Nat
        BY Numbers DEF MapTypes
      <4>. QED BY <3>1, <4>1, <4>2 DEF OnDisk
    <3>2. CASE g # f
      BY <2>1, <3>2 DEF MapTypes, Clean
    <3>. QED BY <3>1, <3>2
  <2>. QED BY <2>3, <2>4, <2>5
<1>. QED BY <1>1, <1>2

-----------------------------------------------------------------------------
(* Core and the calls. *)

Ops == [kind : {"idle", "io", "truncate"}, handle : Handles \cup {Nil}, to : Nat, next : Nat]
Calls ==
    /\ handle \in [Handles -> [file : Files \cup {Nil}, pos : Nat]]
    /\ op \in Ops
    /\ op.kind # "idle" => op.handle \in Handles /\ Of \in Files
    /\ \A f \in Files : ~Open(f) => ~dirty[f]
CInv == Core /\ Calls

\* The operation that is none.
LEMMA IdleIs == Idle \in Ops /\ Idle.kind = "idle"
  BY DEF Idle, Ops

\* The blocks at boot.
LEMMA InitCInv == Init => CInv
<1> SUFFICES ASSUME Init PROVE CInv
  OBVIOUS
<1>1. /\ free = Blocks /\ unused = NBlock /\ NBlock \in Nat
      /\ \A s \in Slots : at[s] = NoBlock
      /\ \A f \in Files : size[f] = 0 /\ blocks[f] = 0 /\ ~dirty[f]
  BY Numbers DEF Init
<1>2. \A f \in Files : /\ disk[f] = OnDisk(f) /\ disk[f] \in Images
                       /\ disk[f].size = size[f] /\ disk[f].blocks = blocks[f]
                       /\ \A s \in InodeSlots(f) : disk[f].at[s] = at[s]
  <2> SUFFICES ASSUME NEW f \in Files
               PROVE  /\ disk[f] = OnDisk(f) /\ disk[f] \in Images
                      /\ disk[f].size = size[f] /\ disk[f].blocks = blocks[f]
                      /\ \A s \in InodeSlots(f) : disk[f].at[s] = at[s]
    OBVIOUS
  <2>1. disk[f] = OnDisk(f)
    BY DEF Init
  <2>2. [s \in InodeSlots(f) |-> at[s]] \in [InodeSlots(f) -> Blocks \cup {NoBlock}]
    BY <1>1, SlotFacts
  <2>3. size[f] \in Nat /\ blocks[f] \in Nat
    BY <1>1
  <2>. QED BY <2>1, <2>2, <2>3 DEF OnDisk, Images
<1>3. MapTypes
  <2>1. super \in [free : SUBSET Blocks, unused : Int, dirty : BOOLEAN]
    BY <1>1 DEF Init
  <2>2. disk \in [Files -> Images]
    BY <1>2 DEF Init
  <2>3. at \in [Slots -> Blocks \cup {NoBlock}]
    BY DEF Init
  <2>4. size \in [Files -> Nat] /\ blocks \in [Files -> 0 .. NIndex] /\ dirty \in [Files -> BOOLEAN]
    BY Numbers DEF Init
  <2>. QED BY <1>1, <2>1, <2>2, <2>3, <2>4 DEF MapTypes
<1>4. Owned /\ Backed /\ CleanSuper
  <2>1. Owned
    BY <1>1, Numbers DEF Owned
  <2>2. Backed
    BY <1>1 DEF Backed
  <2>3. CleanSuper
    BY DEF Init, CleanSuper
  <2>. QED BY <2>1, <2>2, <2>3
<1>5. Counted
  <2>1. 1 \in Int /\ NBlock \in Int
    BY <1>1
  <2>2. Cardinality(1 .. NBlock) = IF 1 > NBlock THEN 0 ELSE NBlock - 1 + 1
    BY <2>1, FS_Interval, Zenon
  <2>3. Cardinality(1 .. NBlock) = NBlock
    BY <1>1, <2>2
  <2>. QED BY <1>1, <2>3 DEF Counted, Blocks
<1>6. Clean
  BY <1>1, <1>2 DEF Clean
<1>7. Calls
  BY <1>1, IdleIs DEF Init, Calls, Closed, Idle
<1>. QED BY <1>3, <1>4, <1>5, <1>6, <1>7 DEF CInv, Core

\* The loops over the blocks of a file, for reads, writes and truncation.
LEMMA LoopCInv ==
    ASSUME CInv, IoIndirect \/ IoBlock \/ GrowIndirect \/ Grow \/ Shrink
    PROVE  CInv'
<1>. USE DEF CInv
<1>1. /\ op.kind # "idle" /\ op.handle \in Handles /\ Of \in Files
      /\ op.to \in Nat /\ op.next \in Nat /\ blocks[Of] \in Nat
  <2>1. op.kind # "idle"
    BY DEF IoIndirect, IoBlock, Io, GrowIndirect, Grow, Shrink, Growing, Truncating
  <2>. QED BY <2>1, Numbers DEF Calls, Ops, Core, MapTypes
<1>2. IoIndex \in Nat
  BY <1>1, IndexFacts DEF IoIndex
<1>3. Core'
  <2>1. CASE IoIndirect
    BY <1>1, <1>2, <2>1, LoadIndirectCore DEF IoIndirect
  <2>2. CASE IoBlock
    BY <1>1, <1>2, <2>2, LoadCore DEF IoBlock
  <2>3. CASE GrowIndirect
    BY <1>1, <2>3, LoadIndirectCore DEF GrowIndirect
  <2>4. CASE Grow
    BY <1>1, <2>4, LoadCore DEF Grow
  <2>5. CASE Shrink
    <3>1. BlocksFor(op.to) \in Nat
      BY <1>1, BlocksForFacts
    <3>2. blocks[Of] > 0
      BY <1>1, <2>5, <3>1 DEF Shrink
    <3>. QED BY <1>1, <2>5, <3>2, ShrinkCore DEF Shrink
  <2>. QED BY <2>1, <2>2, <2>3, <2>4, <2>5
<1>4. handle' = handle
  BY DEF IoIndirect, IoBlock, GrowIndirect, Grow, Shrink
<1>5. /\ op' \in Ops /\ op'.kind = op.kind /\ op'.handle = op.handle
  <2>1. CASE IoBlock
    <3>1. Smaller((IoIndex + 1) * BlkSize, op.to) \in Nat
      BY <1>1, <1>2, Numbers DEF Smaller
    <3>2. op \in Ops
      BY DEF Calls
    <3>3. op' = [op EXCEPT !.next = Smaller((IoIndex + 1) * BlkSize, op.to)]
      BY <2>1 DEF IoBlock
    <3>. QED BY <3>1, <3>2, <3>3 DEF Ops
  <2>2. CASE ~IoBlock
    BY <2>2 DEF IoIndirect, GrowIndirect, Grow, Shrink, Calls
  <2>. QED BY <2>1, <2>2
<1>6. \A f \in Files : f # Of => dirty'[f] = dirty[f]
  BY <1>1 DEF IoIndirect, IoBlock, GrowIndirect, Grow, Shrink, Load, LoadIndirect, Core, MapTypes
<1>7. \A f \in Files : ~Open(f)' => ~dirty'[f]
  BY <1>1, <1>4, <1>6 DEF Calls, Open, Of
<1>8. Of' = Of
  BY <1>4, <1>5 DEF Of
<1>. QED BY <1>1, <1>3, <1>4, <1>5, <1>7, <1>8 DEF Calls

\* The end of a read or write, of a truncation, and of a failed extension
LEMMA EndCInv ==
    ASSUME CInv, IoDone \/ IoFails \/ TruncDone \/ GrowFails
    PROVE  CInv'
<1>. USE DEF CInv
<1>1. /\ op.kind # "idle" /\ op.handle \in Handles /\ Of \in Files
      /\ op.to \in Nat /\ op.next \in Nat /\ size[Of] \in Nat
  <2>1. op.kind # "idle"
    BY DEF IoDone, IoFails, Io, TruncDone, GrowFails, Growing, Truncating
  <2>. QED BY <2>1 DEF Calls, Ops, Core, MapTypes
<1>2. PICK n \in Nat, d \in BOOLEAN :
         /\ size' = [size EXCEPT ![Of] = n] /\ dirty' = [dirty EXCEPT ![Of] = @ \/ d]
         /\ n # size[Of] => d
  <2>1. CASE IoDone \/ IoFails
    <3>1. CASE op.next > size[Of]
      <4>1. /\ size' = [size EXCEPT ![Of] = op.next]
            /\ dirty' = [dirty EXCEPT ![Of] = @ \/ TRUE]
        BY <2>1, <3>1 DEF IoDone, IoFails, Finish
      <4>. QED BY <1>1, <4>1
    <3>2. CASE ~(op.next > size[Of])
      <4>1. /\ size' = [size EXCEPT ![Of] = size[Of]]
            /\ dirty' = [dirty EXCEPT ![Of] = @ \/ FALSE]
        BY <2>1, <3>2 DEF IoDone, IoFails, Finish, Core, MapTypes
      <4>. QED BY <1>1, <4>1
    <3>. QED BY <3>1, <3>2
  <2>2. CASE TruncDone
    <3>1. (size[Of] # op.to) \in BOOLEAN
      OBVIOUS
    <3>. QED BY <1>1, <2>2, <3>1 DEF TruncDone
  <2>3. CASE GrowFails
    <3>1. /\ size' = [size EXCEPT ![Of] = size[Of]]
          /\ dirty' = [dirty EXCEPT ![Of] = @ \/ FALSE]
      BY <2>3 DEF GrowFails, inode, Core, MapTypes
    <3>. QED BY <1>1, <3>1
  <2>. QED BY <2>1, <2>2, <2>3
<1>3. super' \in {super, SuperDirty} /\ UNCHANGED <<free, unused, at, blocks, disk>>
  BY DEF IoDone, IoFails, Finish, TruncDone, GrowFails, LoadFails, inode
<1>4. Core'
  BY <1>1, <1>2, <1>3, SizeCore
<1>5. op' = Idle
  BY DEF IoDone, IoFails, Finish, TruncDone, GrowFails
<1>6. /\ handle' \in [Handles -> [file : Files \cup {Nil}, pos : Nat]]
      /\ \A h \in Handles : handle'[h].file = handle[h].file
  <2>1. CASE GrowFails
    BY <2>1 DEF GrowFails, Calls
  <2>2. CASE IoDone \/ IoFails
    <3>1. handle' = [handle EXCEPT ![op.handle].pos = op.next]
      BY <2>2 DEF IoDone, IoFails, Finish
    <3>. QED BY <1>1, <3>1 DEF Calls
  <2>3. CASE TruncDone
    <3>1. handle' = [handle EXCEPT ![op.handle].pos = op.to]
      BY <2>3 DEF TruncDone
    <3>. QED BY <1>1, <3>1 DEF Calls
  <2>. QED BY <2>1, <2>2, <2>3
<1>7. \A f \in Files : ~Open(f)' => ~dirty'[f]
  <2> SUFFICES ASSUME NEW f \in Files, ~Open(f)'
               PROVE  ~dirty'[f]
    OBVIOUS
  <2>1. \A h \in Handles : handle[h].file # f
    BY <1>6 DEF Open
  <2>2. ~Open(f) /\ f # Of
    BY <1>1, <2>1 DEF Open, Of
  <2>3. dirty'[f] = dirty[f]
    BY <1>1, <1>2, <2>2 DEF Core, MapTypes
  <2>. QED BY <2>2, <2>3 DEF Calls
<1>. QED BY <1>4, <1>5, <1>6, <1>7, IdleIs DEF Calls

\* A read, write, seek or truncation begins.
LEMMA BeginCInv ==
    ASSUME CInv, NEW h \in Handles,
           \/ \E len \in Lengths, write \in BOOLEAN : ReadOrWrite(h, len, write)
           \/ \E pos \in Positions : Seek(h, pos)
    PROVE  CInv'
<1>. USE DEF CInv
<1>1. UNCHANGED <<free, unused, at, inode, disk, super>>
  BY DEF ReadOrWrite, Seek
<1>2. Core'
  BY <1>1, SameCore DEF inode
<1>3. handle[h].file \in Files /\ handle[h].pos \in Nat /\ size[handle[h].file] \in Nat
  BY DEF ReadOrWrite, Seek, Calls, Core, MapTypes
<1>4. /\ handle' \in [Handles -> [file : Files \cup {Nil}, pos : Nat]]
      /\ \A g \in Handles : handle'[g].file = handle[g].file
      /\ op' \in Ops
      /\ op'.kind # "idle" => op'.handle = h
  <2>1. ASSUME NEW len \in Lengths, NEW write \in BOOLEAN, ReadOrWrite(h, len, write)
        PROVE  /\ UNCHANGED handle /\ op' \in Ops /\ op'.handle = h
    <3> DEFINE end == Smaller(handle[h].pos + len, MaxSize)
               to == IF write THEN end ELSE Smaller(end, size[handle[h].file])
    <3>1. to \in Nat
      BY <1>3, Numbers, SfsAssumption DEF Smaller
    <3>2. /\ op' = [kind |-> "io", handle |-> h, to |-> to, next |-> handle[h].pos]
          /\ UNCHANGED handle
      BY <2>1 DEF ReadOrWrite
    <3>. HIDE DEF to
    <3>. QED BY <1>3, <3>1, <3>2 DEF Ops
  <2>2. ASSUME NEW pos \in Positions, Seek(h, pos), pos > size[handle[h].file]
        PROVE  /\ UNCHANGED handle /\ op' \in Ops /\ op'.handle = h
    BY <2>2, SfsAssumption DEF Seek, Truncate, Ops
  <2>3. ASSUME NEW pos \in Positions, Seek(h, pos), ~(pos > size[handle[h].file])
        PROVE  /\ handle' \in [Handles -> [file : Files \cup {Nil}, pos : Nat]]
               /\ \A g \in Handles : handle'[g].file = handle[g].file
               /\ op' \in Ops /\ op'.kind = "idle"
    <3>1. /\ handle' = [handle EXCEPT ![h].pos = pos]
          /\ op' = Idle /\ pos \in Nat
      BY <2>3, SfsAssumption DEF Seek
    <3>. QED BY <3>1, IdleIs DEF Calls
  <2>. QED BY <2>1, <2>2, <2>3 DEF Calls
<1>5. op'.kind # "idle" => op'.handle \in Handles /\ Of' \in Files
  BY <1>3, <1>4 DEF Of
<1>6. \A f \in Files : ~Open(f)' => ~dirty'[f]
  BY <1>1, <1>4 DEF Open, Calls, inode
<1>. QED BY <1>2, <1>4, <1>5, <1>6 DEF Calls

\* sfs_load_inode finds the inode as it was left, perhaps with fewer blocks.
LEMMA OpenCInv ==
    ASSUME CInv, NEW h \in Handles, NEW f \in Files, NEW trunc \in BOOLEAN, FileOpen(h, f, trunc)
    PROVE  CInv'
<1>. USE DEF CInv
<1>1. /\ at' = at /\ size' = size /\ dirty' = dirty
      /\ UNCHANGED <<free, unused, disk, super>>
      /\ blocks' \in [Files -> 0 .. NIndex]
      /\ \A g \in Files : /\ blocks'[g] <= blocks[g]
                          /\ disk[g].blocks <= blocks[g] => disk[g].blocks <= blocks'[g]
  <2>1. CASE Open(f)
    BY <2>1, Numbers DEF FileOpen, inode, Core, MapTypes
  <2>2. CASE ~Open(f)
    <3>1. /\ ~dirty[f]
          /\ disk[f].size = size[f]
          /\ \A s \in InodeSlots(f) : disk[f].at[s] = at[s]
          /\ disk[f].blocks <= blocks[f]
      BY <2>2 DEF Calls, Core, Clean
    <3>2. at' = at
      <4>1. at' = [s \in Slots |-> IF s \in InodeSlots(f) THEN disk[f].at[s] ELSE at[s]]
        BY <2>2 DEF FileOpen
      <4>2. \A s \in Slots : at'[s] = at[s]
        BY <3>1, <4>1
      <4>. QED BY <4>1, <4>2 DEF Core, MapTypes
    <3>3. size' = size /\ dirty' = dirty
      <4>1. /\ size' = [size EXCEPT ![f] = disk[f].size]
            /\ dirty' = [dirty EXCEPT ![f] = FALSE]
        BY <2>2 DEF FileOpen
      <4>2. size' = size
        BY <3>1, <4>1 DEF Core, MapTypes
      <4>3. dirty[f] = FALSE
        BY <3>1 DEF Core, MapTypes
      <4>4. dirty' = dirty
        BY <4>1, <4>3 DEF Core, MapTypes
      <4>. QED BY <4>2, <4>4
    <3>4. blocks' = [blocks EXCEPT ![f] = disk[f].blocks] /\ disk[f].blocks \in Nat /\ blocks[f] \in 0 .. NIndex
      BY <2>2 DEF FileOpen, Core, MapTypes, Images
    <3>5. blocks' \in [Files -> 0 .. NIndex]
      BY <3>1, <3>4, Numbers DEF Core, MapTypes
    <3>6. \A g \in Files : /\ blocks'[g] <= blocks[g]
                           /\ disk[g].blocks <= blocks[g] => disk[g].blocks <= blocks'[g]
      <4>1. blocks'[f] = disk[f].blocks /\ \A g \in Files : g # f => blocks'[g] = blocks[g]
        BY <3>4 DEF Core, MapTypes
      <4>2. \A g \in Files : blocks[g] \in Nat
        BY Numbers DEF Core, MapTypes
      <4>. QED BY <3>1, <3>4, <4>1, <4>2
    <3>. QED BY <3>2, <3>3, <3>5, <3>6 DEF FileOpen
  <2>. QED BY <2>1, <2>2
<1>2. Core'
  <2>1. MapTypes'
    BY <1>1 DEF Core, MapTypes
  <2>2. Owned' /\ Counted' /\ CleanSuper'
    BY <1>1 DEF Core, Owned, Counted, CleanSuper
  <2>3. Backed'
    <3> SUFFICES ASSUME NEW g \in Files, NEW i \in 0 .. blocks'[g] - 1
                 PROVE  HasBlock(g, i)'
      BY DEF Backed
    <3>1. blocks'[g] \in Nat /\ blocks[g] \in Nat /\ blocks'[g] <= blocks[g]
      BY <1>1, Numbers DEF Core, MapTypes
    <3>2. i \in 0 .. blocks[g] - 1
      BY <3>1
    <3>. QED BY <1>1, <3>2 DEF Core, Backed, HasBlock
  <2>4. Clean'
    BY <1>1 DEF Core, Clean
  <2>. QED BY <2>1, <2>2, <2>3, <2>4 DEF Core
<1>3. /\ handle' \in [Handles -> [file : Files \cup {Nil}, pos : Nat]]
      /\ handle'[h].file = f
      /\ \A g \in Handles : g # h => handle'[g] = handle[g]
      /\ handle[h].file = Nil
  BY DEF FileOpen, Calls, Closed
<1>4. op' \in Ops /\ (op'.kind # "idle" => op'.handle = h)
  <2>1. CASE trunc
    BY <2>1 DEF FileOpen, Truncate, Ops
  <2>2. CASE ~trunc
    BY <2>2, IdleIs DEF FileOpen
  <2>. QED BY <2>1, <2>2
<1>5. op'.kind # "idle" => op'.handle \in Handles /\ Of' \in Files
  BY <1>3, <1>4 DEF Of
<1>6. \A g \in Files : ~Open(g)' => ~dirty'[g]
  <2> SUFFICES ASSUME NEW g \in Files, ~Open(g)'
               PROVE  ~dirty[g]
    BY <1>1
  <2>1. \A k \in Handles : handle'[k].file # g
    BY DEF Open
  <2>2. \A k \in Handles : handle[k].file # g
    BY <1>3, <2>1, SfsAssumption
  <2>. QED BY <2>2 DEF Open, Calls
<1>. QED BY <1>2, <1>3, <1>4, <1>5, <1>6 DEF Calls

\* sfs_fsync, sfs_close and the mount
LEMMA FsyncCInv ==
    ASSUME CInv, NEW h \in Handles, FileFsync(h) \/ FileClose(h)
    PROVE  CInv'
<1>. USE DEF CInv
<1> DEFINE f == handle[h].file
<1>1. f \in Files /\ op = Idle /\ op' = op
  BY DEF FileFsync, FileClose, Calls
<1>2. /\ UNCHANGED <<free, unused, at, size, blocks, super>>
      /\ Fsync(f) \/ UNCHANGED <<disk, dirty>>
  BY DEF FileFsync, FileClose
<1>3. Core'
  <2>1. CASE Fsync(f)
    BY <1>1, <1>2, <2>1, FsyncCore
  <2>2. CASE UNCHANGED <<disk, dirty>>
    BY <1>2, <2>2, SameCore
  <2>. QED BY <1>2, <2>1, <2>2
<1>4. /\ handle' \in [Handles -> [file : Files \cup {Nil}, pos : Nat]]
      /\ \A g \in Handles : g # h => handle'[g] = handle[g]
  BY DEF FileFsync, FileClose, Calls, Closed
<1>5. \A g \in Files : ~Open(g)' => ~dirty'[g]
  <2> SUFFICES ASSUME NEW g \in Files, ~Open(g)'
               PROVE  ~dirty'[g]
    OBVIOUS
  <2>1. \A k \in Handles : handle'[k].file # g
    BY DEF Open
  <2>2. \A k \in Handles \ {h} : handle[k].file # g
    BY <1>4, <2>1
  <2>3. CASE g = f
    <3>1. Fsync(f)
      BY <2>1, <2>2, <2>3 DEF FileFsync, FileClose
    <3>2. CASE dirty[f]
      BY <1>1, <2>3, <3>1, <3>2 DEF Fsync, Core, MapTypes
    <3>3. CASE ~dirty[f]
      BY <2>3, <3>1, <3>3 DEF Fsync
    <3>. QED BY <3>2, <3>3
  <2>4. CASE g # f
    <3>1. ~dirty[g]
      BY <2>2, <2>4 DEF Open, Calls
    <3>2. dirty'[g] = dirty[g]
      BY <1>1, <1>2, <2>4 DEF Fsync, Core, MapTypes
    <3>. QED BY <3>1, <3>2
  <2>. QED BY <2>3, <2>4
<1>. QED BY <1>1, <1>3, <1>4, <1>5, IdleIs DEF Calls

\* A shutdown and the mount after it keep the blocks.
LEMMA MountCInv ==
    ASSUME CInv, CleanupAndMount
    PROVE  CInv'
<1>. USE DEF CInv
<1>1. /\ super' \in [free : SUBSET Blocks, unused : Int, dirty : BOOLEAN]
      /\ super'.free = free /\ super'.unused = unused
  <2>1. CASE super.dirty
    BY <2>1 DEF CleanupAndMount, Core, MapTypes
  <2>2. CASE ~super.dirty
    BY <2>2 DEF CleanupAndMount, Core, MapTypes, CleanSuper
  <2>. QED BY <2>1, <2>2
<1>2. UNCHANGED <<free, unused, at, size, blocks, dirty, disk, handle, op>>
  BY <1>1 DEF CleanupAndMount, inode
<1>3. Core'
  BY <1>1, <1>2 DEF Core, MapTypes, Owned, Counted, Backed, HasBlock, Clean, CleanSuper
<1>4. Calls'
  BY <1>2 DEF Calls, Open, Of
<1>. QED BY <1>3, <1>4

\* A panic keeps the blocks.
LEMMA StopCInv ==
    ASSUME CInv, IoStops \/ TruncStops \/ UNCHANGED vars
    PROVE  CInv'
<1>1. UNCHANGED <<free, unused, at, size, blocks, dirty, disk, super, handle, op>>
  BY DEF IoStops, TruncStops, Stop, vars, inode
<1>2. Core'
  BY <1>1, SameCore DEF CInv
<1>3. Calls'
  BY <1>1 DEF CInv, Calls, Open, Of
<1>. QED BY <1>2, <1>3 DEF CInv

\* Every step keeps the blocks.
LEMMA StepCInv == CInv /\ [Next]_vars => CInv'
  BY LoopCInv, EndCInv, BeginCInv, OpenCInv, FsyncCInv, MountCInv, StopCInv DEF Next

\* A block is free exactly if nothing points to it, no two pointers lead to the
\* same block, and the superblock counts the free ones, as sfs_do_mount asserts.
THEOREM BlocksCorrect == Spec => []BlocksAccounted
<1>1. CInv => BlocksAccounted
  BY DEF CInv, Core, Owned, Backed, Counted, BlocksAccounted
<1>. QED BY InitCInv, StepCInv, <1>1, PTL DEF Spec

-----------------------------------------------------------------------------
(* Sizes, positions and what the disk remembers of the blocks. *)

\* A truncation that has blocks to free, or has freed them.
Shrinking(f) == op.kind = "truncate" /\ f = Of /\ blocks[f] >= BlocksFor(op.to)

\* Until a file is cut under somebody, sizes and positions lie within the blocks.
Fits == ~cut =>
    /\ \A f \in Files : /\ disk[f].size <= Room(disk[f].blocks)
                        /\ ~Shrinking(f) => size[f] <= Room(blocks[f])
    /\ \A h \in Handles : handle[h].file # Nil /\ ~Shrinking(handle[h].file) =>
          handle[h].pos <= Room(blocks[handle[h].file])
    /\ op.kind = "io" => op.next <= Room(blocks[Of])

\* A clean inode has the blocks that the disk knows, or is about to be dirty.
Remembered == ~full /\ ~cut =>
    \A f \in Files : ~dirty[f] =>
        \/ disk[f].blocks = blocks[f]
        \/ op.kind = "io" /\ f = Of /\ op.next > size[f]
        \/ op.kind = "truncate" /\ f = Of /\ size[f] # op.to

\* An empty file has no blocks, or is being extended.
Empty ==
    /\ ~full => \A f \in Files : size[f] = 0 =>
          \/ blocks[f] = 0
          \/ op.kind = "io" /\ f = Of /\ op.next > 0
          \/ op.kind = "truncate" /\ f = Of /\ op.to # 0
    /\ op.kind = "truncate" /\ op.to = size[Of] => op.to = 0

Sizes == Fits /\ Remembered /\ Empty /\ AssertsHold
IInv == CInv /\ Sizes

\* The types that the steps need.
LEMMA Typed ==
    ASSUME CInv
    PROVE  /\ \A f \in Files : /\ size[f] \in Nat /\ blocks[f] \in Nat
                               /\ disk[f].size \in Nat /\ disk[f].blocks \in Nat
           /\ \A h \in Handles : handle[h].pos \in Nat
           /\ op.to \in Nat /\ op.next \in Nat
           /\ op.kind # "idle" => op.handle \in Handles /\ Of \in Files
           /\ \A f \in Files : ~dirty[f] => disk[f].size = size[f] /\ disk[f].blocks <= blocks[f]
  BY Numbers DEF CInv, Core, Calls, MapTypes, Images, Ops, Clean

\* The sizes at boot.
LEMMA InitSizes == Init => Sizes
<1> SUFFICES ASSUME Init PROVE Sizes
  OBVIOUS
<1>1. /\ op.kind = "idle" /\ stopped = "no" /\ ~full /\ ~cut
      /\ \A f \in Files : /\ size[f] = 0 /\ blocks[f] = 0
                          /\ disk[f].size = 0 /\ disk[f].blocks = 0
      /\ \A h \in Handles : handle[h].file = Nil
  BY IdleIs DEF Init, OnDisk, Closed
<1>. QED BY <1>1, RoomFacts DEF Sizes, Fits, Remembered, Empty, AssertsHold

\* Neither blocks nor calls change.
LEMMA SameSizes ==
    ASSUME Sizes, UNCHANGED <<size, blocks, disk, handle, op, stopped, full, cut>>,
           \A f \in Files : ~dirty'[f] => ~dirty[f]
    PROVE  Sizes'
  BY DEF Sizes, Fits, Remembered, Empty, AssertsHold, Shrinking, Of, Room, BlocksFor

\* A new indirect block keeps the sizes.
LEMMA IndirectSizes ==
    ASSUME IInv, IoIndirect \/ GrowIndirect
    PROVE  Sizes'
<1>1. op.kind # "idle"
  BY DEF IoIndirect, Io, GrowIndirect, Growing, Truncating
<1>2. dirty' = [dirty EXCEPT ![Of] = TRUE] /\ Of \in Files
  BY <1>1, Typed DEF IoIndirect, GrowIndirect, LoadIndirect, IInv
<1>3. \A f \in Files : ~dirty'[f] => ~dirty[f]
  BY <1>2 DEF IInv, CInv, Core, MapTypes
<1>4. UNCHANGED <<size, blocks, disk, handle, op, stopped, full, cut>>
  BY DEF IoIndirect, GrowIndirect
<1>. QED BY <1>3, <1>4, SameSizes DEF IInv

\* The block that a read or write, or an extension, has come to is loaded.
LEMMA LoadSizes ==
    ASSUME CInv, NEW f \in Files, NEW index \in Nat, Load(f, index)
    PROVE  /\ index < blocks'[f] /\ index <= blocks[f]
           /\ blocks'[f] = IF index = blocks[f] THEN blocks[f] + 1 ELSE blocks[f]
           /\ \A g \in Files : g # f => blocks'[g] = blocks[g]
           /\ \A g \in Files : ~dirty'[g] => ~dirty[g]
<1>1. blocks' = IF index = blocks[f] THEN [blocks EXCEPT ![f] = @ + 1] ELSE blocks
  BY DEF Load
<1>2. index <= blocks[f] /\ blocks[f] \in Nat
  BY Typed DEF Load
<1>3. \A g \in Files : ~dirty'[g] => ~dirty[g]
  <2>1. CASE HasBlock(f, index)
    BY <2>1 DEF Load
  <2>2. CASE ~HasBlock(f, index)
    <3>1. dirty' = [dirty EXCEPT ![f] = @ \/ Dirties(index)]
      BY <2>2 DEF Load
    <3>. QED BY <3>1 DEF CInv, Core, MapTypes
  <2>. QED BY <2>1, <2>2
<1>4. /\ blocks'[f] = IF index = blocks[f] THEN blocks[f] + 1 ELSE blocks[f]
      /\ \A g \in Files : g # f => blocks'[g] = blocks[g]
  BY <1>1 DEF CInv, Core, MapTypes
<1>. QED BY <1>2, <1>3, <1>4

\* A block read or written keeps the sizes.
LEMMA IoBlockSizes ==
    ASSUME IInv, IoBlock
    PROVE  Sizes'
<1>1. op.kind = "io" /\ op.next < op.to /\ stopped = "no"
  BY DEF IoBlock, Io
<1> DEFINE f == Of
           i == IoIndex
<1>2. f \in Files /\ i \in Nat /\ Room(i) <= op.next /\ op.next < Room(i + 1)
      /\ op.to \in Nat /\ op.next \in Nat /\ blocks[f] \in Nat /\ size[f] \in Nat
      /\ Room(i) \in Nat /\ Room(i + 1) \in Nat
  <2>1. op.to \in Nat /\ op.next \in Nat /\ f \in Files
    BY <1>1, Typed DEF IInv
  <2>2. i \in Nat /\ Room(i) <= op.next /\ op.next < Room(i + 1)
    BY <2>1, IndexFacts DEF IoIndex
  <2>3. blocks[f] \in Nat /\ size[f] \in Nat
    BY <2>1, Typed DEF IInv
  <2>4. Room(i) \in Nat /\ Room(i + 1) \in Nat
    <3>1. i + 1 \in Nat
      BY <2>2
    <3>. QED BY <2>2, <3>1, RoomFacts
  <2>. QED BY <2>1, <2>2, <2>3, <2>4
<1>3. /\ i < blocks'[f] /\ i <= blocks[f]
      /\ blocks'[f] = IF i = blocks[f] THEN blocks[f] + 1 ELSE blocks[f]
      /\ \A g \in Files : g # f => blocks'[g] = blocks[g]
      /\ \A g \in Files : ~dirty'[g] => ~dirty[g]
  BY <1>2, LoadSizes DEF IoBlock, IInv
<1>4. op' = [op EXCEPT !.next = Smaller(Room(i + 1), op.to)]
  BY DEF IoBlock, Room
<1>5. /\ op'.kind = "io" /\ op'.handle = op.handle
      /\ op'.next = Smaller(Room(i + 1), op.to)
  BY <1>1, <1>4 DEF IInv, CInv, Calls, Ops
<1>6. op'.next > op.next /\ op'.next <= Room(i + 1) /\ op'.next \in Nat
  BY <1>1, <1>2, <1>5 DEF Smaller
<1>7. UNCHANGED <<size, disk, handle, stopped, full, cut>> /\ Of' = f
  BY <1>5 DEF IoBlock, Of
<1>8. \A g \in Files : /\ Room(blocks[g]) <= Room(blocks'[g])
                       /\ Room(blocks[g]) \in Nat /\ Room(blocks'[g]) \in Nat
                       /\ blocks[g] \in Nat
  <2> SUFFICES ASSUME NEW g \in Files
               PROVE  blocks[g] \in Nat /\ blocks'[g] \in Nat /\ blocks[g] <= blocks'[g]
    BY RoomFacts
  <2>. QED BY <1>2, <1>3, Typed DEF IInv
<1>9. Room(i + 1) <= Room(blocks'[f])
  <2>1. i + 1 \in Nat /\ blocks'[f] \in Nat /\ i + 1 <= blocks'[f]
    BY <1>2, <1>3
  <2>. QED BY <2>1, RoomFacts
<1>. HIDE DEF f, i
<1>10. Fits'
  <2> SUFFICES ASSUME ~cut PROVE Fits'
    BY <1>7 DEF Fits
  <2>1. \A g \in Files : disk[g].size <= Room(disk[g].blocks) /\ size[g] <= Room(blocks[g])
    BY <1>1 DEF IInv, Sizes, Fits, Shrinking
  <2>2. \A h \in Handles : handle[h].file # Nil => handle[h].pos <= Room(blocks[handle[h].file])
    BY <1>1 DEF IInv, Sizes, Fits, Shrinking
  <2>3. \A g \in Files : size[g] <= Room(blocks'[g])
    BY <1>8, <2>1, Typed DEF IInv
  <2>4. \A h \in Handles : handle[h].file # Nil => handle[h].file \in Files /\ handle[h].pos \in Nat
    BY DEF IInv, CInv, Calls
  <2>5. \A h \in Handles : handle[h].file # Nil => handle[h].pos <= Room(blocks'[handle[h].file])
    BY <1>8, <2>2, <2>4
  <2>6. op'.next <= Room(blocks'[f])
    BY <1>2, <1>6, <1>8, <1>9
  <2>. QED BY <1>7, <2>1, <2>3, <2>5, <2>6 DEF Fits, Room
<1>11. Remembered'
  <2> SUFFICES ASSUME ~full, ~cut, NEW g \in Files, ~dirty'[g]
               PROVE  disk[g].blocks = blocks'[g] \/ (g = f /\ op'.next > size[g])
    BY <1>5, <1>7 DEF Remembered
  <2>1. disk[g].blocks = blocks[g] \/ (g = f /\ op.next > size[g])
    BY <1>1, <1>3 DEF IInv, Sizes, Remembered, f
  <2>2. size[g] \in Nat
    BY Typed DEF IInv
  <2>3. CASE op.next > size[g] /\ g = f
    BY <1>2, <1>6, <2>2, <2>3
  <2>4. CASE disk[g].blocks = blocks[g]
    <3>1. CASE g = f /\ i = blocks[f]
      <4>1. size[f] <= Room(blocks[f])
        BY <1>1, <1>2 DEF IInv, Sizes, Fits, Shrinking
      <4>2. size[f] <= op.next
        BY <1>2, <3>1, <4>1
      <4>. QED BY <1>2, <1>6, <3>1, <4>2
    <3>2. CASE ~(g = f /\ i = blocks[f])
      BY <1>3, <2>4, <3>2
    <3>. QED BY <3>1, <3>2
  <2>. QED BY <2>1, <2>3, <2>4
<1>12. Empty'
  <2>1. op'.next > 0
    BY <1>2, <1>6
  <2>2. ~full => \A g \in Files : size[g] = 0 => blocks'[g] = 0 \/ g = f
    BY <1>1, <1>3 DEF IInv, Sizes, Empty, f
  <2>. QED BY <1>5, <1>7, <2>1, <2>2 DEF Empty
<1>13. AssertsHold'
  BY <1>7 DEF IInv, Sizes, AssertsHold
<1>. QED BY <1>10, <1>11, <1>12, <1>13 DEF Sizes

\* What a read or write ends with lies within the blocks.
LEMMA FinishSizes ==
    ASSUME IInv, IoDone \/ IoFails
    PROVE  Sizes'
<1> DEFINE f == Of
<1>1. op.kind = "io"
  BY DEF IoDone, IoFails, Io
<1>2. /\ f \in Files /\ op.handle \in Handles /\ op.next \in Nat
      /\ \A g \in Files : size[g] \in Nat
  BY <1>1, Typed DEF IInv
<1>3. /\ size' = IF op.next > size[f] THEN [size EXCEPT ![f] = op.next] ELSE size
      /\ dirty' = [dirty EXCEPT ![f] = @ \/ op.next > size[f]]
      /\ handle' = [handle EXCEPT ![op.handle].pos = op.next]
      /\ op' = Idle
      /\ UNCHANGED <<blocks, disk, stopped, full, cut>>
  BY DEF IoDone, IoFails, Finish
<1>. HIDE DEF f
<1>4. op'.kind = "idle"
  BY <1>3, IdleIs
<1>5. /\ size'[f] = IF op.next > size[f] THEN op.next ELSE size[f]
      /\ \A g \in Files : g # f => size'[g] = size[g]
  BY <1>2, <1>3 DEF IInv, CInv, Core, MapTypes
<1>6. \A h \in Handles : /\ handle'[h].file = handle[h].file
                         /\ handle'[h].pos = IF h = op.handle THEN op.next ELSE handle[h].pos
  BY <1>2, <1>3 DEF IInv, CInv, Calls
<1>7. Fits'
  <2> SUFFICES ASSUME ~cut PROVE Fits'
    BY <1>3 DEF Fits
  <2>1. /\ \A g \in Files : disk[g].size <= Room(disk[g].blocks) /\ size[g] <= Room(blocks[g])
        /\ \A h \in Handles : handle[h].file # Nil => handle[h].pos <= Room(blocks[handle[h].file])
        /\ op.next <= Room(blocks[f])
    BY <1>1 DEF IInv, Sizes, Fits, Shrinking, f
  <2>2. \A g \in Files : size'[g] <= Room(blocks[g])
    BY <1>5, <2>1
  <2>3. handle[op.handle].file = f
    BY DEF f, Of
  <2>4. \A h \in Handles : handle[h].file # Nil => handle'[h].pos <= Room(blocks[handle[h].file])
    BY <1>6, <2>1, <2>3
  <2>. QED BY <1>3, <1>4, <1>6, <2>1, <2>2, <2>4 DEF Fits, Room
<1>8. Remembered'
  <2> SUFFICES ASSUME ~full, ~cut, NEW g \in Files, ~dirty'[g]
               PROVE  disk[g].blocks = blocks[g]
    BY <1>3 DEF Remembered
  <2>1. ~dirty[g] /\ ~(g = f /\ op.next > size[f])
    <3>1. CASE g = f
      <4>1. dirty'[f] <=> dirty[f] \/ op.next > size[f]
        BY <1>2, <1>3 DEF IInv, CInv, Core, MapTypes
      <4>. QED BY <3>1, <4>1
    <3>2. CASE g # f
      BY <1>3, <3>2 DEF IInv, CInv, Core, MapTypes
    <3>. QED BY <3>1, <3>2
  <2>. QED BY <1>1, <2>1 DEF IInv, Sizes, Remembered, f
<1>9. Empty'
  <2> SUFFICES ASSUME ~full, NEW g \in Files, size'[g] = 0
               PROVE  blocks[g] = 0
    BY <1>3, <1>4 DEF Empty
  <2>1. size[g] = 0 /\ ~(g = f /\ op.next > 0)
    BY <1>2, <1>5
  <2>. QED BY <1>1, <2>1 DEF IInv, Sizes, Empty, f
<1>10. AssertsHold'
  BY <1>3 DEF IInv, Sizes, AssertsHold
<1>. QED BY <1>7, <1>8, <1>9, <1>10 DEF Sizes

\* sfs_truncfile, block by block
LEMMA TruncSizes ==
    ASSUME IInv, Grow \/ Shrink
    PROVE  Sizes'
<1> DEFINE f == Of
<1>1. op.kind = "truncate" /\ size[f] # op.to
  BY DEF Grow, Shrink, Growing, Truncating
<1>2. f \in Files /\ op.to \in Nat /\ blocks[f] \in Nat /\ size[f] \in Nat /\ BlocksFor(op.to) \in Nat
  <2>1. f \in Files /\ op.to \in Nat
    BY <1>1, Typed DEF IInv
  <2>. QED BY <2>1, Typed, BlocksForFacts DEF IInv
<1>3. UNCHANGED <<size, disk, handle, op, stopped, full, cut>> /\ Of' = f
  BY DEF Grow, Shrink, Of
<1>4. /\ \A g \in Files : g # f => blocks'[g] = blocks[g]
      /\ \A g \in Files : ~dirty'[g] => ~dirty[g]
      /\ \/ blocks'[f] \in Nat /\ blocks'[f] >= BlocksFor(op.to)
         \/ blocks'[f] \in Nat /\ blocks'[f] >= blocks[f] /\ blocks[f] < BlocksFor(op.to)
  <2>1. CASE Grow
    <3>1. /\ blocks'[f] = IF blocks[f] = blocks[f] THEN blocks[f] + 1 ELSE blocks[f]
          /\ \A g \in Files : g # f => blocks'[g] = blocks[g]
          /\ \A g \in Files : ~dirty'[g] => ~dirty[g]
      BY <1>2, <2>1, LoadSizes DEF Grow, IInv
    <3>2. blocks[f] < BlocksFor(op.to)
      BY <2>1 DEF Grow, Growing
    <3>. QED BY <1>2, <3>1, <3>2
  <2>2. CASE Shrink
    <3>1. /\ blocks' = [blocks EXCEPT ![f] = @ - 1]
          /\ dirty' = [dirty EXCEPT ![f] = TRUE]
          /\ blocks[f] > BlocksFor(op.to)
      BY <2>2 DEF Shrink
    <3>2. blocks'[f] = blocks[f] - 1 /\ \A g \in Files : g # f => blocks'[g] = blocks[g]
      BY <1>2, <3>1 DEF IInv, CInv, Core, MapTypes
    <3>3. \A g \in Files : ~dirty'[g] => ~dirty[g]
      BY <1>2, <3>1 DEF IInv, CInv, Core, MapTypes
    <3>. QED BY <1>2, <3>1, <3>2, <3>3
  <2>. QED BY <2>1, <2>2
<1>. HIDE DEF f
<1>5. \A g \in Files : ~(g = f /\ blocks'[f] >= BlocksFor(op.to)) =>
         /\ ~(g = f /\ blocks[f] >= BlocksFor(op.to))
         /\ Room(blocks[g]) <= Room(blocks'[g]) /\ Room(blocks[g]) \in Nat /\ Room(blocks'[g]) \in Nat
  <2> SUFFICES ASSUME NEW g \in Files, ~(g = f /\ blocks'[f] >= BlocksFor(op.to))
               PROVE  /\ ~(g = f /\ blocks[f] >= BlocksFor(op.to))
                      /\ blocks[g] \in Nat /\ blocks'[g] \in Nat /\ blocks[g] <= blocks'[g]
    BY RoomFacts
  <2>1. CASE g = f
    BY <1>2, <1>4, <2>1
  <2>2. CASE g # f
    BY <1>4, <2>2, Typed DEF IInv
  <2>. QED BY <2>1, <2>2
<1>6. Fits'
  <2> SUFFICES ASSUME ~cut PROVE Fits'
    BY <1>3 DEF Fits
  <2>1. \A g \in Files : ~(g = f /\ blocks'[f] >= BlocksFor(op.to)) => size[g] <= Room(blocks'[g])
    <3> SUFFICES ASSUME NEW g \in Files, ~(g = f /\ blocks'[f] >= BlocksFor(op.to))
                 PROVE  size[g] <= Room(blocks'[g])
      OBVIOUS
    <3>1. size[g] <= Room(blocks[g])
      BY <1>5 DEF IInv, Sizes, Fits, Shrinking, f
    <3>. QED BY <1>5, <3>1, Typed DEF IInv
  <2>2. \A h \in Handles : handle[h].file # Nil
           /\ ~(handle[h].file = f /\ blocks'[f] >= BlocksFor(op.to))
           => handle[h].pos <= Room(blocks'[handle[h].file])
    <3> SUFFICES ASSUME NEW h \in Handles, handle[h].file # Nil,
                        ~(handle[h].file = f /\ blocks'[f] >= BlocksFor(op.to))
                 PROVE  handle[h].pos <= Room(blocks'[handle[h].file])
      OBVIOUS
    <3>1. handle[h].file \in Files /\ handle[h].pos \in Nat
      BY DEF IInv, CInv, Calls
    <3>2. ~(handle[h].file = f /\ blocks[f] >= BlocksFor(op.to))
      BY <1>5, <3>1
    <3>3. handle[h].pos <= Room(blocks[handle[h].file])
      BY <3>2 DEF IInv, Sizes, Fits, Shrinking, f
    <3>. QED BY <1>5, <3>1, <3>3
  <2>3. \A g \in Files : Shrinking(g)' <=> g = f /\ blocks'[f] >= BlocksFor(op.to)
    BY <1>1, <1>3 DEF Shrinking, BlocksFor
  <2>4. \A g \in Files : disk[g].size <= Room(disk[g].blocks)
    BY DEF IInv, Sizes, Fits
  <2>5. \A h \in Handles : handle[h].file # Nil => handle[h].file \in Files
    BY DEF IInv, CInv, Calls
  <2>. QED BY <1>1, <1>3, <2>1, <2>2, <2>3, <2>4, <2>5 DEF Fits, Room
<1>7. Remembered'
  BY <1>1, <1>3, <1>4 DEF IInv, Sizes, Remembered, f
<1>8. Empty'
  <2>1. op.to = 0 => size[f] # 0
    BY <1>1
  <2>. QED BY <1>1, <1>3, <1>4, <2>1 DEF IInv, Sizes, Empty, f
<1>9. AssertsHold'
  BY <1>3 DEF IInv, Sizes, AssertsHold
<1>. QED BY <1>6, <1>7, <1>8, <1>9 DEF Sizes

\* The end of a truncation keeps the sizes.
LEMMA TruncDoneSizes ==
    ASSUME IInv, TruncDone
    PROVE  Sizes'
<1> DEFINE f == Of
<1>1. op.kind = "truncate" /\ stopped = "no"
  BY DEF TruncDone, Truncating
<1>2. f \in Files /\ op.handle \in Handles /\ op.to \in Nat /\ blocks[f] \in Nat /\ size[f] \in Nat
      /\ op.to <= Room(blocks[f]) /\ (op.to = 0 => blocks[f] = 0)
  <2>1. f \in Files /\ op.handle \in Handles /\ op.to \in Nat
    BY <1>1, Typed DEF IInv
  <2>2. BlocksFor(op.to) = blocks[f]
    BY DEF TruncDone
  <2>. QED BY <2>1, <2>2, Typed, BlocksForFacts DEF IInv
<1>3. /\ size' = [size EXCEPT ![f] = op.to]
      /\ dirty' = [dirty EXCEPT ![f] = @ \/ size[f] # op.to]
      /\ handle' = [handle EXCEPT ![op.handle].pos = op.to]
      /\ op' = Idle
      /\ UNCHANGED <<blocks, disk, stopped, full>>
      /\ cut' = (cut \/ \E h \in Handles \ {op.handle} : handle[h].file = f /\ handle[h].pos > op.to)
  BY DEF TruncDone
<1>. HIDE DEF f
<1>4. op'.kind = "idle"
  BY <1>3, IdleIs
<1>5. size'[f] = op.to /\ \A g \in Files : g # f => size'[g] = size[g]
  BY <1>2, <1>3 DEF IInv, CInv, Core, MapTypes
<1>6. \A h \in Handles : /\ handle'[h].file = handle[h].file
                         /\ handle'[h].pos = IF h = op.handle THEN op.to ELSE handle[h].pos
  BY <1>2, <1>3 DEF IInv, CInv, Calls
<1>7. Fits'
  <2> SUFFICES ASSUME ~cut' PROVE Fits'
    BY DEF Fits
  <2>1. ~cut /\ \A h \in Handles \ {op.handle} : handle[h].file = f => ~(handle[h].pos > op.to)
    BY <1>3
  <2>2. \A g \in Files : disk[g].size <= Room(disk[g].blocks)
    BY <2>1 DEF IInv, Sizes, Fits
  <2>3. \A g \in Files : g # f => size[g] <= Room(blocks[g])
    BY <2>1 DEF IInv, Sizes, Fits, Shrinking, f
  <2>4. \A g \in Files : size'[g] <= Room(blocks[g])
    BY <1>2, <1>5, <2>3
  <2>5. Room(blocks[f]) \in Nat
    BY <1>2, RoomFacts
  <2>6. ASSUME NEW h \in Handles, handle[h].file # Nil
        PROVE  handle'[h].pos <= Room(blocks[handle[h].file])
    <3>1. CASE h = op.handle
      <4>1. handle[h].file = f
        BY <3>1 DEF f, Of
      <4>. QED BY <1>2, <1>6, <3>1, <4>1
    <3>2. CASE h # op.handle /\ handle[h].file = f
      <4>1. handle[h].pos \in Nat /\ ~(handle[h].pos > op.to)
        BY <2>1, <3>2, Typed DEF IInv
      <4>. QED BY <1>2, <1>6, <2>5, <3>2, <4>1
    <3>3. CASE h # op.handle /\ handle[h].file # f
      <4>1. handle[h].pos <= Room(blocks[handle[h].file])
        BY <2>1, <2>6, <3>3 DEF IInv, Sizes, Fits, Shrinking, f
      <4>. QED BY <1>6, <3>3, <4>1
    <3>. QED BY <3>1, <3>2, <3>3
  <2>. QED BY <1>3, <1>4, <1>6, <2>2, <2>4, <2>6 DEF Fits, Room
<1>8. Remembered'
  <2> SUFFICES ASSUME ~full, ~cut, NEW g \in Files, ~dirty'[g]
               PROVE  disk[g].blocks = blocks[g]
    BY <1>3 DEF Remembered
  <2>1. ~dirty[g] /\ (g = f => size[f] = op.to)
    <3>1. CASE g = f
      <4>1. dirty'[f] <=> dirty[f] \/ size[f] # op.to
        BY <1>2, <1>3 DEF IInv, CInv, Core, MapTypes
      <4>. QED BY <3>1, <4>1
    <3>2. CASE g # f
      BY <1>3, <3>2 DEF IInv, CInv, Core, MapTypes
    <3>. QED BY <3>1, <3>2
  <2>. QED BY <1>1, <2>1 DEF IInv, Sizes, Remembered, f
<1>9. Empty'
  <2> SUFFICES ASSUME ~full, NEW g \in Files, size'[g] = 0
               PROVE  blocks[g] = 0
    BY <1>3, <1>4 DEF Empty
  <2>1. CASE g = f
    BY <1>2, <1>5, <2>1
  <2>2. CASE g # f
    BY <1>1, <1>5, <2>2 DEF IInv, Sizes, Empty, f
  <2>. QED BY <2>1, <2>2
<1>10. AssertsHold'
  BY <1>1, <1>3 DEF AssertsHold
<1>. QED BY <1>7, <1>8, <1>9, <1>10 DEF Sizes

\* An extension that fails leaves a file that is not shrinking.
LEMMA GrowFailsSizes ==
    ASSUME IInv, GrowFails
    PROVE  Sizes'
<1>1. op.kind = "truncate" /\ stopped = "no" /\ blocks[Of] < BlocksFor(op.to)
  BY DEF GrowFails, Growing, Truncating
<1>2. UNCHANGED <<size, blocks, dirty, disk, handle, stopped, cut>> /\ full' /\ op'.kind = "idle"
  BY IdleIs DEF GrowFails, inode
<1>3. \A g \in Files : ~Shrinking(g)
  <2>1. blocks[Of] \in Nat /\ BlocksFor(op.to) \in Nat
    BY <1>1, Typed, BlocksForFacts DEF IInv
  <2>. QED BY <1>1, <2>1 DEF Shrinking
<1>4. Fits'
  <2>1. \A h \in Handles : handle[h].file # Nil => ~Shrinking(handle[h].file)
    BY <1>3 DEF IInv, CInv, Calls
  <2>. QED BY <1>2, <1>3, <2>1 DEF IInv, Sizes, Fits, Room
<1>. QED BY <1>1, <1>2, <1>4 DEF Sizes, Remembered, Empty, AssertsHold

\* A panic keeps the sizes.
LEMMA StopSizes ==
    ASSUME IInv, IoStops \/ TruncStops
    PROVE  Sizes'
<1>1. /\ UNCHANGED <<size, blocks, dirty, disk, handle, op, full, cut>>
      /\ op.kind # "idle" /\ Of \in Files
      /\ op.to \in Nat /\ op.next \in Nat /\ blocks[Of] \in Nat
  <2>1. op.kind # "idle"
    BY DEF IoStops, Io, TruncStops, Truncating
  <2>. QED BY <2>1, Typed DEF IoStops, TruncStops, Stop, inode, IInv
<1>2. Fits' /\ Remembered' /\ Empty'
  BY <1>1 DEF IInv, Sizes, Fits, Remembered, Empty, Shrinking, Of, Room, BlocksFor
<1>3. ASSUME stopped' = "position"
      PROVE  cut
  <2>1. op.kind = "io" /\ IoIndex > blocks[Of]
    BY <1>3 DEF IoStops, TruncStops, Stop, Io, IndexFails
  <2>2. IoIndex \in Nat /\ Room(IoIndex) <= op.next
    BY <1>1, IndexFacts DEF IoIndex
  <2>3. Room(blocks[Of]) + BlkSize <= Room(IoIndex)
    <3>1. blocks[Of] + 1 \in Nat /\ blocks[Of] + 1 <= IoIndex
      BY <1>1, <2>1, <2>2
    <3>2. Room(blocks[Of] + 1) = Room(blocks[Of]) + BlkSize
      BY <1>1, RoomFacts
    <3>3. Room(blocks[Of] + 1) <= Room(IoIndex)
      BY <2>2, <3>1, RoomFacts
    <3>. QED BY <3>2, <3>3
  <2>4. Room(blocks[Of]) \in Nat /\ Room(IoIndex) \in Nat /\ BlkSize \in Nat \ {0}
    BY <1>1, <2>2, RoomFacts, Numbers
  <2>5. ~(op.next <= Room(blocks[Of]))
    BY <1>1, <2>2, <2>3, <2>4
  <2>. QED BY <2>1, <2>5 DEF IInv, Sizes, Fits
<1>4. ASSUME stopped' = "blocks"
      PROVE  full
  <2>1. op.kind = "truncate" /\ size[Of] = op.to /\ BlocksFor(op.to) # blocks[Of]
    BY <1>4 DEF IoStops, TruncStops, Stop, Truncating
  <2>2. op.to = 0 /\ size[Of] = 0
    BY <2>1 DEF IInv, Sizes, Empty
  <2>3. BlocksFor(op.to) = 0
    BY <1>1, <2>2, BlocksForFacts
  <2>4. blocks[Of] # 0
    BY <2>1, <2>3
  <2>. QED BY <1>1, <2>1, <2>2, <2>4 DEF IInv, Sizes, Empty
<1>5. AssertsHold'
  BY <1>1, <1>3, <1>4 DEF AssertsHold
<1>. QED BY <1>2, <1>5 DEF Sizes

\* A call begins, or a position is sought that lies in the file.
LEMMA BeginSizes ==
    ASSUME IInv, NEW h \in Handles,
           \/ \E len \in Lengths, write \in BOOLEAN : ReadOrWrite(h, len, write)
           \/ \E pos \in Positions : Seek(h, pos)
    PROVE  Sizes'
<1> DEFINE f == handle[h].file
<1>1. /\ UNCHANGED <<size, blocks, dirty, disk, stopped, full, cut>>
      /\ op.kind = "idle" /\ f \in Files
  BY IdleIs DEF ReadOrWrite, Seek, inode, IInv, CInv, Calls
<1>2. /\ ~cut => /\ \A g \in Files : /\ disk[g].size <= Room(disk[g].blocks)
                                     /\ size[g] <= Room(blocks[g])
                 /\ \A k \in Handles : handle[k].file # Nil =>
                       handle[k].pos <= Room(blocks[handle[k].file])
      /\ ~full /\ ~cut => \A g \in Files : ~dirty[g] => disk[g].blocks = blocks[g]
      /\ ~full => \A g \in Files : size[g] = 0 => blocks[g] = 0
  BY <1>1 DEF IInv, Sizes, Fits, Remembered, Empty, Shrinking
<1>3. AssertsHold'
  BY <1>1 DEF IInv, Sizes, AssertsHold
<1>4. CASE \E len \in Lengths, write \in BOOLEAN : ReadOrWrite(h, len, write)
  <2>1. op'.kind = "io" /\ op'.handle = h /\ op'.next = handle[h].pos /\ UNCHANGED handle
    BY <1>4 DEF ReadOrWrite
  <2>2. Of' = f
    BY <2>1 DEF Of
  <2>3. Fits'
    <3> SUFFICES ASSUME ~cut PROVE Fits'
      BY <1>1 DEF Fits
    <3>1. op'.next <= Room(blocks[f])
      BY <1>1, <1>2, <2>1, SfsAssumption
    <3>2. UNCHANGED <<size, blocks, disk, handle>>
      BY <1>1, <2>1
    <3>. QED BY <1>2, <2>2, <3>1, <3>2 DEF Fits, Room
  <2>. QED BY <1>1, <1>2, <1>3, <2>1, <2>3 DEF Sizes, Remembered, Empty
<1>5. ASSUME NEW pos \in Positions, Seek(h, pos), pos > size[f]
      PROVE  Sizes'
  <2>1. op'.kind = "truncate" /\ op'.handle = h /\ op'.to = pos /\ UNCHANGED handle
    BY <1>5 DEF Seek, Truncate
  <2>2. Of' = f /\ pos # size[f]
    BY <1>1, <1>5, <2>1, Typed DEF Of, IInv
  <2>3. Fits'
    <3> SUFFICES ASSUME ~cut PROVE Fits'
      BY <1>1 DEF Fits
    <3>1. UNCHANGED <<size, blocks, disk, handle>> /\ op'.kind # "io"
      BY <1>1, <2>1
    <3>. QED BY <1>2, <3>1 DEF Fits, Room
  <2>. QED BY <1>1, <1>2, <1>3, <2>1, <2>2, <2>3 DEF Sizes, Remembered, Empty
<1>6. ASSUME NEW pos \in Positions, Seek(h, pos), ~(pos > size[f])
      PROVE  Sizes'
  <2>1. handle' = [handle EXCEPT ![h].pos = pos] /\ op'.kind = "idle" /\ pos \in Nat
    BY <1>1, <1>6, SfsAssumption DEF Seek
  <2>2. \A k \in Handles : /\ handle'[k].file = handle[k].file
                           /\ handle'[k].pos = IF k = h THEN pos ELSE handle[k].pos
    BY <2>1 DEF IInv, CInv, Calls
  <2>3. Fits'
    <3> SUFFICES ASSUME ~cut PROVE Fits'
      BY <1>1 DEF Fits
    <3>1. pos <= Room(blocks[f])
      <4>1. blocks[f] \in Nat /\ size[f] \in Nat /\ Room(blocks[f]) \in Nat
        BY <1>1, Typed, RoomFacts DEF IInv
      <4>2. size[f] <= Room(blocks[f])
        BY <1>1, <1>2
      <4>. QED BY <1>6, <2>1, <4>1, <4>2
    <3>2. \A k \in Handles : handle[k].file # Nil => handle'[k].pos <= Room(blocks[handle[k].file])
      BY <1>2, <2>2, <3>1
    <3>. QED BY <1>1, <1>2, <2>1, <2>2, <3>2 DEF Fits, Room
  <2>. QED BY <1>1, <1>2, <1>3, <2>1, <2>3 DEF Sizes, Remembered, Empty
<1>. QED BY <1>4, <1>5, <1>6

\* An inode that is read again has what the disk remembers.
LEMMA OpenSizes ==
    ASSUME IInv, NEW h \in Handles, NEW f \in Files, NEW trunc \in BOOLEAN, FileOpen(h, f, trunc)
    PROVE  Sizes'
<1>1. /\ UNCHANGED <<disk, stopped, full, cut>>
      /\ op.kind = "idle" /\ handle[h] = Closed
      /\ handle' = [handle EXCEPT ![h].file = f]
  BY IdleIs DEF FileOpen
<1>2. /\ ~cut => /\ \A g \in Files : /\ disk[g].size <= Room(disk[g].blocks)
                                     /\ size[g] <= Room(blocks[g])
                 /\ \A k \in Handles : handle[k].file # Nil =>
                       handle[k].pos <= Room(blocks[handle[k].file])
      /\ ~full /\ ~cut => \A g \in Files : ~dirty[g] => disk[g].blocks = blocks[g]
      /\ ~full => \A g \in Files : size[g] = 0 => blocks[g] = 0
  BY <1>1 DEF IInv, Sizes, Fits, Remembered, Empty, Shrinking
<1>3. /\ \A g \in Files : size'[g] = size[g] /\ dirty'[g] = dirty[g]
      /\ \/ Open(f) /\ \A g \in Files : blocks'[g] = blocks[g]
         \/ /\ ~Open(f) /\ blocks'[f] = disk[f].blocks
            /\ disk[f].size = size[f] /\ disk[f].blocks <= blocks[f]
            /\ \A g \in Files : g # f => blocks'[g] = blocks[g]
  <2>1. CASE Open(f)
    BY <2>1 DEF FileOpen, inode
  <2>2. CASE ~Open(f)
    <3>1. ~dirty[f] /\ dirty[f] \in BOOLEAN
      BY <2>2 DEF IInv, CInv, Calls, Core, MapTypes
    <3>2. disk[f].size = size[f] /\ disk[f].blocks <= blocks[f]
      BY <3>1, Typed DEF IInv
    <3>3. /\ size' = [size EXCEPT ![f] = disk[f].size]
          /\ blocks' = [blocks EXCEPT ![f] = disk[f].blocks]
          /\ dirty' = [dirty EXCEPT ![f] = FALSE]
      BY <2>2 DEF FileOpen
    <3>4. /\ size \in [Files -> Nat] /\ DOMAIN blocks = Files /\ dirty \in [Files -> BOOLEAN]
      BY DEF IInv, CInv, Core, MapTypes
    <3>5. \A g \in Files : size'[g] = size[g]
      BY <3>2, <3>3, <3>4
    <3>6. \A g \in Files : dirty'[g] = dirty[g]
      BY <3>1, <3>3, <3>4
    <3>7. blocks'[f] = disk[f].blocks /\ \A g \in Files : g # f => blocks'[g] = blocks[g]
      BY <3>3, <3>4
    <3>. QED BY <2>2, <3>2, <3>5, <3>6, <3>7
  <2>. QED BY <2>1, <2>2
<1>4. \A k \in Handles : handle'[k] = IF k = h THEN [file |-> f, pos |-> 0] ELSE handle[k]
  BY <1>1 DEF IInv, CInv, Calls, Closed
<1>5. AssertsHold'
  BY <1>1 DEF IInv, Sizes, AssertsHold
<1>6. ~cut => /\ \A g \in Files : size'[g] <= Room(blocks'[g])
              /\ \A k \in Handles : handle'[k].file # Nil =>
                    handle'[k].pos <= Room(blocks'[handle'[k].file])
  <2> SUFFICES ASSUME ~cut
               PROVE  /\ \A g \in Files : size'[g] <= Room(blocks'[g])
                      /\ \A k \in Handles : handle'[k].file # Nil =>
                            handle'[k].pos <= Room(blocks'[handle'[k].file])
    OBVIOUS
  <2>1. \A g \in Files : size'[g] <= Room(blocks'[g])
    BY <1>2, <1>3
  <2>2. \A g \in Files : Room(blocks'[g]) >= 0
    <3>1. \A g \in Files : blocks'[g] \in Nat
      BY <1>3, Typed DEF IInv
    <3>. QED BY <3>1, RoomFacts
  <2>3. ASSUME NEW k \in Handles, handle'[k].file # Nil
        PROVE  handle'[k].pos <= Room(blocks'[handle'[k].file])
    <3>1. CASE k = h
      BY <1>4, <2>2, <3>1
    <3>2. CASE k # h
      <4>1. handle'[k] = handle[k] /\ handle[k].file \in Files
        BY <1>4, <2>3, <3>2 DEF IInv, CInv, Calls
      <4>2. blocks'[handle[k].file] = blocks[handle[k].file]
        BY <1>3, <4>1 DEF Open
      <4>. QED BY <1>2, <2>3, <4>1, <4>2
    <3>. QED BY <3>1, <3>2
  <2>. QED BY <2>1, <2>3
<1>7. ~full /\ ~cut => \A g \in Files : ~dirty'[g] => disk[g].blocks = blocks'[g]
  BY <1>2, <1>3
<1>8. ~full => \A g \in Files : size'[g] = 0 => blocks'[g] = 0
  <2> SUFFICES ASSUME ~full, NEW g \in Files, size'[g] = 0
               PROVE  blocks'[g] = 0
    OBVIOUS
  <2>1. blocks[g] = 0 /\ disk[g].blocks \in Nat
    BY <1>2, <1>3, Typed DEF IInv
  <2>. QED BY <1>3, <2>1
<1>9. op'.kind = "idle" \/ (op'.kind = "truncate" /\ op'.to = 0)
  <2>1. CASE trunc
    BY <2>1 DEF FileOpen, Truncate
  <2>2. CASE ~trunc
    BY <1>1, <2>2 DEF FileOpen
  <2>. QED BY <2>1, <2>2
<1>10. Fits'
  BY <1>1, <1>2, <1>6, <1>9 DEF Fits, Room
<1>. QED BY <1>1, <1>5, <1>7, <1>8, <1>9, <1>10 DEF Sizes, Remembered, Empty

\* fsync keeps the sizes.
LEMMA FsyncSizes ==
    ASSUME IInv, NEW h \in Handles, FileFsync(h) \/ FileClose(h)
    PROVE  Sizes'
<1> DEFINE f == handle[h].file
<1>1. /\ UNCHANGED <<size, blocks, op, stopped, full, cut>>
      /\ op.kind = "idle" /\ f \in Files
      /\ Fsync(f) \/ UNCHANGED <<disk, dirty>>
  BY IdleIs DEF FileFsync, FileClose, IInv, CInv, Calls
<1>2. /\ ~cut => /\ \A g \in Files : /\ disk[g].size <= Room(disk[g].blocks)
                                     /\ size[g] <= Room(blocks[g])
                 /\ \A k \in Handles : handle[k].file # Nil =>
                       handle[k].pos <= Room(blocks[handle[k].file])
      /\ ~full /\ ~cut => \A g \in Files : ~dirty[g] => disk[g].blocks = blocks[g]
      /\ ~full => \A g \in Files : size[g] = 0 => blocks[g] = 0
  BY <1>1 DEF IInv, Sizes, Fits, Remembered, Empty, Shrinking
<1>3. \A g \in Files : /\ disk'[g] = disk[g] \/ (disk'[g].size = size[g] /\ disk'[g].blocks = blocks[g])
                       /\ ~dirty'[g] => ~dirty[g] \/ disk'[g].blocks = blocks[g]
  <2>1. CASE UNCHANGED <<disk, dirty>>
    BY <2>1
  <2>2. CASE Fsync(f) /\ dirty[f]
    <3>1. /\ disk' = [disk EXCEPT ![f] = OnDisk(f)]
          /\ dirty' = [dirty EXCEPT ![f] = FALSE]
      BY <2>2 DEF Fsync
    <3>2. /\ disk'[f] = OnDisk(f)
          /\ \A g \in Files : g # f => disk'[g] = disk[g] /\ dirty'[g] = dirty[g]
      BY <1>1, <3>1 DEF IInv, CInv, Core, MapTypes
    <3>3. disk'[f].size = size[f] /\ disk'[f].blocks = blocks[f]
      BY <3>2 DEF OnDisk
    <3>. QED BY <3>2, <3>3
  <2>3. CASE Fsync(f) /\ ~dirty[f]
    BY <2>3 DEF Fsync
  <2>. QED BY <1>1, <2>1, <2>2, <2>3
<1>4. \A k \in Handles : handle'[k] = handle[k] \/ handle'[k].file = Nil
  BY DEF FileFsync, FileClose, Closed, IInv, CInv, Calls
<1>5. Fits'
  <2> SUFFICES ASSUME ~cut PROVE Fits'
    BY <1>1 DEF Fits
  <2>1. \A g \in Files : disk'[g].size <= Room(disk'[g].blocks)
    BY <1>2, <1>3
  <2>2. \A k \in Handles : handle'[k].file # Nil => handle'[k].pos <= Room(blocks[handle'[k].file])
    BY <1>2, <1>4
  <2>. QED BY <1>1, <1>2, <2>1, <2>2 DEF Fits, Room
<1>6. ~full /\ ~cut => \A g \in Files : ~dirty'[g] => disk'[g].blocks = blocks[g]
  BY <1>2, <1>3
<1>7. AssertsHold'
  BY <1>1 DEF IInv, Sizes, AssertsHold
<1>. QED BY <1>1, <1>2, <1>5, <1>6, <1>7 DEF Sizes, Remembered, Empty

\* Every step keeps the invariant.
LEMMA StepIInv == IInv /\ [Next]_vars => IInv'
<1> SUFFICES ASSUME IInv, [Next]_vars PROVE IInv'
  OBVIOUS
<1>1. CInv'
  BY StepCInv DEF IInv
<1>2. CASE CleanupAndMount \/ UNCHANGED vars
  <2>1. UNCHANGED <<size, blocks, dirty, disk, handle, op, stopped, full, cut>>
    BY <1>2 DEF CleanupAndMount, inode, vars
  <2>. QED BY <1>1, <2>1, SameSizes DEF IInv
<1>3. CASE Next /\ ~CleanupAndMount
  BY <1>1, <1>3, IndirectSizes, IoBlockSizes, FinishSizes, TruncSizes, TruncDoneSizes,
     GrowFailsSizes, StopSizes, BeginSizes, OpenSizes, FsyncSizes DEF Next, IInv
<1>. QED BY <1>2, <1>3

\* A file that nobody has open is on the disk as it was left (sfs_close): its
\* size and its blocks, but for blocks behind its end after two rare events.
THEOREM DiskCorrect == Spec => []ClosedOnDisk
<1>1. Init => IInv
  BY InitCInv, InitSizes DEF IInv
<1>2. IInv => ClosedOnDisk
  <2> SUFFICES ASSUME IInv, NEW f \in Files, ~Open(f)
               PROVE  /\ disk[f].size = size[f]
                      /\ \A s \in InodeSlots(f) : disk[f].at[s] = at[s]
                      /\ disk[f].blocks = blocks[f] \/ full \/ cut
    BY DEF ClosedOnDisk
  <2>1. ~dirty[f]
    BY DEF IInv, CInv, Calls
  <2>2. op.kind # "idle" => Of # f
    <3>1. op.kind # "idle" => Open(Of)
      BY DEF IInv, CInv, Calls, Open, Of
    <3>. QED BY <3>1
  <2>3. disk[f].blocks = blocks[f] \/ full \/ cut
    BY <2>1, <2>2 DEF IInv, Sizes, Remembered
  <2>. QED BY <2>1, <2>3 DEF IInv, CInv, Core, Clean
<1>. QED BY <1>1, StepIInv, <1>2, PTL DEF Spec

\* The assertions of sfs_bmap_load_nolock and sfs_truncfile fail only after a
\* file was cut under somebody's position, or an extension found the disk full.
THEOREM AssertsCorrect == Spec => []AssertsHold
<1>1. Init => IInv
  BY InitCInv, InitSizes DEF IInv
<1>2. IInv => AssertsHold
  BY DEF IInv, Sizes
<1>. QED BY <1>1, StepIInv, <1>2, PTL DEF Spec
=============================================================================
