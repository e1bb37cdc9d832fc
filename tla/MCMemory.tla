------------------------------- MODULE MCMemory -------------------------------
(***************************************************************************)
(* Two processes, whose programs have a page of text and a page of data    *)
(* under one page table and three stack pages under another; load_icode    *)
(* maps the last of them.                                                  *)
(***************************************************************************)
EXTENDS Memory

CONSTANTS p1, p2

MCVPages == 1 .. 5
MCAreaOf == <<1, 2, 3, 3, 3>>
MCTableOf == <<1, 1, 2, 2, 2>>
MCEager == {1, 2, 5}
MCValues == {0, 1}

(***************************************************************************)
(* States that differ only in what is in frames nobody maps count as one:  *)
(* no step reads such a frame, and no property speaks of it.               *)
(***************************************************************************)
MappedContent == [f \in {at[s] : s \in PteSlots} \cap Frames |-> content[f]]
Followed == <<free, at, ref, MappedContent, vmas, state, op, disk, fifo, check, stopped,
              free_list, nr_free>>
=============================================================================
