---------------------------------- MODULE Sfs ----------------------------------
(***************************************************************************)
(* The blocks of the simple file system: sfs_inode.c from the block maps up *)
(* to sfs_io, sfs_truncfile, sfs_fsync and the inode cache, sfs_sync and   *)
(* the mount of sfs_fs.c, bitmap.c.  One call runs at a time (the kernel is *)
(* not preempted, the disk is polled and its errors panic); the loops over *)
(* blocks take one step for each block, because each can find the disk     *)
(* full.                                                                   *)
(*                                                                         *)
(* Every pointer to a block is a slot of the function "at": the direct     *)
(* blocks of an inode, its indirect block, and the entries in that one,    *)
(* which are never freed apart and are always written through.             *)
(***************************************************************************)
EXTENDS Integers, FiniteSets

CONSTANTS Files,     \* inodes of regular files
          Handles,   \* open files: entries of descriptor tables
          NBlock,    \* data blocks of the disk
          NDirect,   \* SFS_NDIRECT
          NEntry,    \* SFS_BLK_NENTRY
          BlkSize,   \* SFS_BLKSIZE
          MaxSize,   \* SFS_MAX_FILE_SIZE
          Lengths,   \* of the reads and writes that are tried
          Positions, \* that are sought
          Nil        \* no file, no open file

ASSUME SfsAssumption ==
    /\ NBlock \in Nat /\ NDirect \in Nat /\ NEntry \in Nat
    /\ BlkSize \in Nat \ {0} /\ MaxSize \in Nat
    /\ Lengths \subseteq Nat \ {0} /\ Positions \subseteq Nat
    /\ Nil \notin Files \cup Handles

VARIABLES free,    \* the blocks whose bit in the freemap is set
          unused,  \* super.unused_blocks
          at,      \* the block each slot holds
          size, blocks, \* of the inode in memory, or last in memory
          dirty,   \* sin->dirty
          disk,    \* the inode on the disk
          super,   \* the freemap and the superblock on the disk, while they count
          handle,  \* file and position of the open files
          op,      \* the call the kernel is in
          stopped, \* the assertion that has failed
          full,    \* an extension has found the disk full
          cut      \* a file was made shorter under somebody's position

inode == <<size, blocks, dirty>>
vars == <<free, unused, at, inode, disk, super, handle, op, stopped, full, cut>>

Blocks == 1 .. NBlock
NoBlock == 0
Direct(f, i) == <<"direct", f, i>>
Indirect(f)  == <<"indirect", f, 0>>
Entry(f, i)  == <<"entry", f, i>>
InodeSlots(f) == {Direct(f, i) : i \in 0 .. NDirect - 1} \cup {Indirect(f)}
EntrySlots(f) == {Entry(f, i) : i \in 0 .. NEntry - 1}
Slots == UNION {InodeSlots(f) \cup EntrySlots(f) : f \in Files}
Least(b, S) == b \in S /\ \A c \in S : b <= c

\* Variant for the mutation runs: one block more for whole ones.
BlocksForRoundedUp(len) == len \div BlkSize + 1

\* ROUNDUP_DIV
BlocksFor(len) == (len + BlkSize - 1) \div BlkSize
Smaller(a, b) == IF a < b THEN a ELSE b

Closed == [file |-> Nil, pos |-> 0]
Open(f) == \E h \in Handles : handle[h].file = f
Idle == [kind |-> "idle", handle |-> Nil, to |-> 0, next |-> 0]
Of == handle[op.handle].file
OnDisk(f) == [size |-> size[f], blocks |-> blocks[f], at |-> [s \in InodeSlots(f) |-> at[s]]]

Init ==
    /\ free = Blocks /\ unused = NBlock
    /\ at = [s \in Slots |-> NoBlock]
    /\ size = [f \in Files |-> 0] /\ blocks = [f \in Files |-> 0]
    /\ dirty = [f \in Files |-> FALSE]
    /\ disk = [f \in Files |-> OnDisk(f)]
    /\ super = [free |-> Blocks, unused |-> NBlock, dirty |-> FALSE]
    /\ handle = [h \in Handles |-> Closed]
    /\ op = Idle
    /\ stopped = "no" /\ full = FALSE /\ cut = FALSE

-----------------------------------------------------------------------------
(* The freemap and the block maps. *)

\* Once super_dirty is set, what the disk holds will be written anew.
SuperDirty == [free |-> {}, unused |-> 0, dirty |-> TRUE]
\* sfs_block_alloc takes the first free block (bitmap_alloc) and clears it.
BlockAlloc(s) ==
    /\ \E b \in free : /\ Least(b, free)
                       /\ free' = free \ {b}
                       /\ at' = [at EXCEPT ![s] = b]
    /\ unused' = unused - 1
    /\ super' = SuperDirty
\* Variant for the mutation runs: super_dirty is not set.
BlockFreeUnmarked(s) ==
    /\ free' = free \cup {at[s]}
    /\ at' = [at EXCEPT ![s] = NoBlock]
    /\ unused' = unused + 1
    /\ UNCHANGED super

BlockFree(s) ==
    /\ free' = free \cup {at[s]}
    /\ at' = [at EXCEPT ![s] = NoBlock]
    /\ unused' = unused + 1
    /\ super' = SuperDirty

\* The slot of the block with a given index in a file.
SlotOf(f, index) == IF index < NDirect THEN Direct(f, index) ELSE Entry(f, index - NDirect)
InRange(index) == index < NDirect + NEntry
HasBlock(f, index) == at[SlotOf(f, index)] # NoBlock
NeedsIndirect(f, index) == index >= NDirect /\ at[Indirect(f)] = NoBlock

\* Variant for the mutation runs: a new block leaves the inode clean.
NeverDirties(index) == FALSE

\* A new direct block makes the inode dirty, a new entry does not.
Dirties(index) == index < NDirect

\* sfs_bmap_load_nolock(index): the assertion, the block that is there or is
\* made at the end of the file, the disk that is full.
IndexFails(f, index) == index > blocks[f]
Load(f, index) ==
    /\ index <= blocks[f] /\ InRange(index)
    /\ IF HasBlock(f, index)
         THEN UNCHANGED <<free, unused, at, super, dirty>>
         ELSE /\ index = blocks[f] /\ ~NeedsIndirect(f, index)
              /\ BlockAlloc(SlotOf(f, index))
              /\ dirty' = [dirty EXCEPT ![f] = @ \/ Dirties(index)]
    /\ blocks' = IF index = blocks[f] THEN [blocks EXCEPT ![f] = @ + 1] ELSE blocks
\* sfs_bmap_get_sub_nolock first makes the indirect block, and gives it back
\* if there is no block for the entry.
LoadIndirect(f, index) ==
    /\ index = blocks[f] /\ InRange(index)
    /\ NeedsIndirect(f, index) /\ Cardinality(free) > 1
    /\ BlockAlloc(Indirect(f))
    /\ dirty' = [dirty EXCEPT ![f] = TRUE]
LoadFails(f, index) ==
    /\ index = blocks[f] /\ InRange(index)
    /\ ~HasBlock(f, index)
    /\ Cardinality(free) < (IF NeedsIndirect(f, index) THEN 2 ELSE 1)
    /\ super' = IF free = {} THEN super ELSE SuperDirty

Stop(why) == stopped' = why
             /\ UNCHANGED <<free, unused, at, inode, disk, super, handle, op, full, cut>>

-----------------------------------------------------------------------------
(* sfs_io: reads and writes. *)

ReadOrWrite(h, len, write) ==
    /\ op = Idle /\ stopped = "no" /\ handle[h].file # Nil
    /\ LET f == handle[h].file
           pos == handle[h].pos
           end == Smaller(pos + len, MaxSize)
           to  == IF write THEN end ELSE Smaller(end, size[f]) IN
          /\ pos < to
          /\ op' = [kind |-> "io", handle |-> h, to |-> to, next |-> pos]
    /\ UNCHANGED <<free, unused, at, inode, disk, super, handle, stopped, full, cut>>

IoIndex == op.next \div BlkSize
Io == op.kind = "io" /\ stopped = "no" /\ op.next < op.to
IoIndirect == /\ Io /\ LoadIndirect(Of, IoIndex)
              /\ UNCHANGED <<size, blocks, disk, handle, op, stopped, full, cut>>
IoBlock ==
    /\ Io /\ Load(Of, IoIndex)
    /\ op' = [op EXCEPT !.next = Smaller((IoIndex + 1) * BlkSize, op.to)]
    /\ UNCHANGED <<size, disk, handle, stopped, full, cut>>
IoStops == Io /\ \/ IndexFails(Of, IoIndex) /\ Stop("position")
                 \/ ~IndexFails(Of, IoIndex) /\ ~InRange(IoIndex) /\ Stop("range")

\* What was done counts, and may have made the file longer.
Finish ==
    /\ size' = IF op.next > size[Of] THEN [size EXCEPT ![Of] = op.next] ELSE size
    /\ handle' = [handle EXCEPT ![op.handle].pos = op.next]
    /\ op' = Idle
    /\ UNCHANGED <<free, unused, at, blocks, disk, stopped, full, cut>>
IoDone == /\ op.kind = "io" /\ stopped = "no" /\ op.next = op.to
          /\ Finish
          /\ dirty' = [dirty EXCEPT ![Of] = @ \/ op.next > size[Of]]
          /\ UNCHANGED super
IoFails == /\ Io /\ LoadFails(Of, IoIndex)
           /\ Finish
           /\ dirty' = [dirty EXCEPT ![Of] = @ \/ op.next > size[Of]]

-----------------------------------------------------------------------------
(* sfs_truncfile: open with O_TRUNC, and seek behind the end. *)

Truncate(h, len) == op' = [kind |-> "truncate", handle |-> h, to |-> len, next |-> 0]
Truncating == op.kind = "truncate" /\ stopped = "no"
TruncDone ==
    /\ Truncating
    /\ BlocksFor(op.to) = blocks[Of]
    /\ size' = [size EXCEPT ![Of] = op.to]
    /\ dirty' = [dirty EXCEPT ![Of] = @ \/ size[Of] # op.to]
    /\ handle' = [handle EXCEPT ![op.handle].pos = op.to]
    /\ op' = Idle
    /\ cut' = (cut \/ \E h \in Handles \ {op.handle} : handle[h].file = Of /\ handle[h].pos > op.to)
    /\ UNCHANGED <<free, unused, at, blocks, disk, super, stopped, full>>
TruncStops ==
    /\ Truncating
    /\ \/ size[Of] = op.to /\ BlocksFor(op.to) # blocks[Of] /\ Stop("blocks")
       \/ size[Of] # op.to /\ blocks[Of] < BlocksFor(op.to) /\ ~InRange(blocks[Of]) /\ Stop("range")
Growing == Truncating /\ size[Of] # op.to /\ blocks[Of] < BlocksFor(op.to)
GrowIndirect == /\ Growing /\ LoadIndirect(Of, blocks[Of])
                /\ UNCHANGED <<size, blocks, disk, handle, op, stopped, full, cut>>
Grow == /\ Growing /\ Load(Of, blocks[Of])
        /\ UNCHANGED <<size, disk, handle, op, stopped, full, cut>>
\* The blocks that were added stay, the size does not change.
GrowFails == /\ Growing /\ LoadFails(Of, blocks[Of])
             /\ op' = Idle /\ full' = TRUE
             /\ UNCHANGED <<free, unused, at, inode, disk, handle, stopped, cut>>
\* sfs_bmap_truncate_nolock
Shrink ==
    /\ Truncating /\ size[Of] # op.to /\ blocks[Of] > BlocksFor(op.to)
    /\ BlockFree(SlotOf(Of, blocks[Of] - 1))
    /\ blocks' = [blocks EXCEPT ![Of] = @ - 1]
    /\ dirty' = [dirty EXCEPT ![Of] = TRUE]
    /\ UNCHANGED <<size, disk, handle, op, stopped, full, cut>>

-----------------------------------------------------------------------------
\* A file that nobody has open is read from the disk.  (One that the reference
\* lost in vfs_open keeps in memory is read again all the same.)
FileOpen(h, f, trunc) ==
    /\ op = Idle /\ stopped = "no" /\ handle[h] = Closed
    /\ handle' = [handle EXCEPT ![h].file = f]
    /\ IF Open(f)
         THEN UNCHANGED <<at, inode>>
         ELSE /\ size' = [size EXCEPT ![f] = disk[f].size]
              /\ blocks' = [blocks EXCEPT ![f] = disk[f].blocks]
              /\ dirty' = [dirty EXCEPT ![f] = FALSE]
              /\ at' = [s \in Slots |-> IF s \in InodeSlots(f) THEN disk[f].at[s] ELSE at[s]]
    /\ IF trunc THEN Truncate(h, 0) ELSE UNCHANGED op
    /\ UNCHANGED <<free, unused, disk, super, stopped, full, cut>>

\* sfs_tryseek
Seek(h, pos) ==
    /\ op = Idle /\ stopped = "no" /\ handle[h].file # Nil
    /\ pos < MaxSize
    /\ IF pos > size[handle[h].file]
         THEN Truncate(h, pos) /\ UNCHANGED handle
         ELSE handle' = [handle EXCEPT ![h].pos = pos] /\ UNCHANGED op
    /\ UNCHANGED <<free, unused, at, inode, disk, super, stopped, full, cut>>

\* sfs_fsync, also the vop_close of the last close.
Fsync(f) == IF dirty[f] THEN /\ disk' = [disk EXCEPT ![f] = OnDisk(f)]
                             /\ dirty' = [dirty EXCEPT ![f] = FALSE]
                        ELSE UNCHANGED <<disk, dirty>>
FileFsync(h) ==
    /\ op = Idle /\ stopped = "no" /\ handle[h].file # Nil
    /\ Fsync(handle[h].file)
    /\ UNCHANGED <<free, unused, at, size, blocks, super, handle, op, stopped, full, cut>>
FileClose(h) ==
    /\ op = Idle /\ stopped = "no" /\ handle[h].file # Nil
    /\ handle' = [handle EXCEPT ![h] = Closed]
    /\ IF \E g \in Handles \ {h} : handle[g].file = handle[h].file
         THEN UNCHANGED <<disk, dirty>>
         ELSE Fsync(handle[h].file)
    /\ UNCHANGED <<free, unused, at, size, blocks, super, op, stopped, full, cut>>

\* Every process has ended: fs_cleanup has sfs_sync write what has changed,
\* and the next boot reads the freemap and the superblock again.
CleanupAndMount ==
    /\ op = Idle /\ stopped = "no" /\ \A h \in Handles : handle[h] = Closed
    /\ super' = IF super.dirty THEN [free |-> free, unused |-> unused, dirty |-> FALSE] ELSE super
    /\ free' = super'.free /\ unused' = super'.unused
    /\ UNCHANGED <<at, inode, disk, handle, op, stopped, full, cut>>

Next ==
    \/ IoIndirect \/ IoBlock \/ IoStops \/ IoDone \/ IoFails
    \/ TruncDone \/ TruncStops \/ GrowIndirect \/ Grow \/ GrowFails \/ Shrink
    \/ CleanupAndMount
    \/ \E h \in Handles :
          \/ FileFsync(h) \/ FileClose(h)
          \/ \E len \in Lengths, write \in BOOLEAN : ReadOrWrite(h, len, write)
          \/ \E pos \in Positions : Seek(h, pos)
          \/ \E f \in Files, trunc \in BOOLEAN : FileOpen(h, f, trunc)

Spec == Init /\ [][Next]_vars
-----------------------------------------------------------------------------
(* Properties. *)

(***************************************************************************)
(* A block is free exactly if nothing points to it, and never two things   *)
(* do; the blocks of a file are all there; the superblock counts the free  *)
(* blocks, as the next mount asserts.                                      *)
(***************************************************************************)
BlocksAccounted ==
    /\ \A b \in Blocks :
          /\ b \in free <=> \A s \in Slots : at[s] # b
          /\ \A s, t \in Slots : at[s] = b /\ at[t] = b => s = t
    /\ \A f \in Files : \A i \in 0 .. blocks[f] - 1 : HasBlock(f, i)
    /\ unused = Cardinality(free)

(***************************************************************************)
(* A file that nobody has open is on the disk as it was left.  Only blocks *)
(* added in the indirect block after one of the two events below may be    *)
(* forgotten.  They lie behind the end of the file, or inside it, where a  *)
(* write behind a cut has found the disk full: it makes the file longer    *)
(* without the block, and the next read adds that and leaves the inode     *)
(* clean.                                                                  *)
(***************************************************************************)
ClosedOnDisk ==
    \A f \in Files : ~Open(f) =>
        /\ disk[f].size = size[f]
        /\ \A s \in InodeSlots(f) : disk[f].at[s] = at[s]
        /\ disk[f].blocks = blocks[f] \/ full \/ cut

(***************************************************************************)
(* A kernel assertion about a file fails only after one of two events: the *)
(* index lies behind the blocks (sfs_bmap_load_nolock) only if some file   *)
(* was made shorter under the position of another descriptor, the blocks   *)
(* do not fit the size (sfs_truncfile) only if an extension has found the  *)
(* disk full.                                                              *)
(***************************************************************************)
AssertsHold == /\ stopped = "position" => cut
               /\ stopped = "blocks" => full
=============================================================================
