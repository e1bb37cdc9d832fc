-------------------------------- MODULE Memory --------------------------------
(***************************************************************************)
(* VirtualMemory with the frames handed out by the free list of Pages:     *)
(* each step that takes or gives back frames is one call of alloc_pages or *)
(* free_pages.                                                             *)
(***************************************************************************)
EXTENDS VirtualMemory, Pages

ASSUME MemoryAssumption == NPage > 2 \* init_memmap asserts that there is a page

mvars == <<vars, free_list, nr_free>>

Least(S) == CHOOSE x \in S : \A y \in S : x <= y

MInit == Init /\ InitMemmap(Least(free), Cardinality(free))

Listed ==
    LET taken == free \ free'
        given == free' \ free
    IN  \/ taken = {} /\ given = {} /\ UNCHANGED <<free_list, nr_free>>
        \/ taken # {} /\ AllocPages(Cardinality(taken), Least(taken))
        \/ given # {} /\ FreePages(Least(given), Cardinality(given))

MNext == Next /\ Listed
MSpec == MInit /\ [][MNext]_mvars

(***************************************************************************)
(* The list holds exactly the free frames, in address order, and no two of *)
(* its blocks touch: memory is never more divided than what is in use      *)
(* makes it, and alloc_pages(n) fails only if there is no run of n frames. *)
(***************************************************************************)
FreeListExact ==
    /\ nr_free = Cardinality(free)
    /\ free = UNION {b.base .. End(b) - 1 : b \in Range(free_list)}
    /\ \A i \in DOMAIN free_list : free_list[i].property > 0
    /\ \A i \in 1 .. Len(free_list) - 1 : End(free_list[i]) < free_list[i + 1].base
=============================================================================
