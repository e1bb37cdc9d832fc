------------------------------ MODULE SkewHeap ------------------------------
(***************************************************************************)
(* The skew heap of libs/skew_heap.h, pointers and all.  A memory mem maps *)
(* every node to its left, right and parent pointer; less[a][b] stands for *)
(* comp(a, b) == -1.  NULL is the empty heap.                              *)
(***************************************************************************)
EXTENDS FiniteSets

CONSTANT NULL

\* skew_heap_init.
Fresh(mem, a) == [mem EXCEPT ![a] = [left |-> NULL, right |-> NULL, parent |-> NULL]]

\* Variant for the mutation runs: the parent of the merged heap is not set.
HangKeepsParent(mem, a, l) == [mem EXCEPT ![a].left = l, ![a].right = mem[a].left]

\* The merged heap l becomes the left child of a, the old left child the right.
Hang(mem, a, l) ==
    LET turned == [mem EXCEPT ![a].left = l, ![a].right = mem[a].left]
    IN  IF l = NULL THEN turned ELSE [turned EXCEPT ![l].parent = a]

\* One call of skew_heap_merge, where merge is what it does for smaller heaps:
\* the memory behind it and the root.
MergeCall(mem, less, merge, a, b) ==
    IF a = NULL THEN [mem |-> mem, root |-> b]
    ELSE IF b = NULL THEN [mem |-> mem, root |-> a]
    ELSE IF less[a][b]
         THEN LET m == merge[mem[a].right][b]
              IN  [mem |-> Hang(m.mem, a, m.root), root |-> a]
         ELSE LET m == merge[a][mem[b].right]
              IN  [mem |-> Hang(m.mem, b, m.root), root |-> b]

\* skew_heap_merge.
HeapMerge(mem, a, b, less) ==
    LET Ends == DOMAIN mem \cup {NULL}
        merge[x \in Ends] == [y \in Ends |-> MergeCall(mem, less, merge, x, y)]
    IN  merge[a][b]

\* skew_heap_insert.
HeapInsert(mem, a, b, less) == HeapMerge(Fresh(mem, b), a, b, less)

\* skew_heap_remove of node b from the heap with root a.
HeapRemove(mem, a, b, less) ==
    LET p == mem[b].parent
        m == HeapMerge(mem, mem[b].left, mem[b].right, less)
        linked == IF m.root = NULL THEN m.mem ELSE [m.mem EXCEPT ![m.root].parent = p]
    IN  IF p = NULL THEN [mem |-> linked, root |-> m.root]
        ELSE IF linked[p].left = b THEN [mem |-> [linked EXCEPT ![p].left = m.root], root |-> a]
        ELSE [mem |-> [linked EXCEPT ![p].right = m.root], root |-> a]

Kids(mem, n) == {mem[n].left, mem[n].right} \ {NULL}

\* The nodes below a, a included: those in every set that has a and, with a
\* node, its children.
HeapNodes(mem, a) ==
    {n \in DOMAIN mem : \A S \in SUBSET DOMAIN mem :
        {a} \ {NULL} \subseteq S /\ (\A k \in S : Kids(mem, k) \subseteq S) => n \in S}

\* The heap with root a is a tree in which children and parents agree.
IsTree(mem, a) ==
    /\ a # NULL => mem[a].parent = NULL
    /\ \A n \in HeapNodes(mem, a) :
          /\ mem[n].left = mem[n].right => mem[n].left = NULL
          /\ \A k \in Kids(mem, n) : mem[k].parent = n
=============================================================================
