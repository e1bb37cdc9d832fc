-------------------------------- MODULE Pages --------------------------------
(***************************************************************************)
(* default_pmm.c: the free page frames as a list of blocks, with first-fit *)
(* allocation and blocks that are merged when they are freed.              *)
(***************************************************************************)
EXTENDS Integers, Sequences, SequencesExt

VARIABLES free_list,  \* the free blocks: first frame and, in it, the length
          nr_free     \* how many frames they have

Block(base, property) == [base |-> base, property |-> property]
End(b) == b.base + b.property

\* default_init, and init_memmap on the one region of memory.
InitMemmap(base, n) == free_list = <<Block(base, n)>> /\ nr_free = n

\* The first block of at least n frames; what is left of it stays in its place.
AllocPages(n, page) ==
    /\ n <= nr_free
    /\ \E i \in DOMAIN free_list :
          LET b == free_list[i] IN
          /\ b.property >= n
          /\ \A j \in 1 .. i - 1 : free_list[j].property < n
          /\ page = b.base
          /\ free_list' = IF b.property > n
                            THEN [free_list EXCEPT ![i] = Block(b.base + n, b.property - n)]
                            ELSE RemoveAt(free_list, i)
    /\ nr_free' = nr_free - n

\* Variant for the mutation runs: only the block behind is looked for.
MergeForward(acc, b) ==
    IF End(acc.block) = b.base
      THEN [acc EXCEPT !.block = Block(acc.block.base, acc.block.property + b.property)]
      ELSE [acc EXCEPT !.kept = Append(@, b)]

\* One pass over the list takes out the blocks that touch the freed one ...
Merge(acc, b) ==
    IF End(acc.block) = b.base
      THEN [acc EXCEPT !.block = Block(acc.block.base, acc.block.property + b.property)]
    ELSE IF End(b) = acc.block.base
      THEN [acc EXCEPT !.block = Block(b.base, b.property + acc.block.property)]
    ELSE [acc EXCEPT !.kept = Append(@, b)]

\* ... and the result goes in front of the first block that lies behind it.
FreePages(base, n) ==
    LET pass[i \in 0 .. Len(free_list)] ==
            IF i = 0 THEN [block |-> Block(base, n), kept |-> <<>>]
            ELSE Merge(pass[i - 1], free_list[i])
        merged == pass[Len(free_list)]
        kept   == merged.kept
        behind == {j \in DOMAIN kept : End(merged.block) <= kept[j].base}
        place  == IF behind = {} THEN Len(kept) + 1
                  ELSE CHOOSE j \in behind : \A k \in behind : j <= k
    IN  /\ free_list' = InsertAt(kept, place, merged.block)
        /\ nr_free' = nr_free + n
=============================================================================
