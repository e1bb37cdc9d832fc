---------------------------- MODULE StrideProofs ----------------------------
(***************************************************************************)
(* The skew heap holds the run queue, and as long as nobody joins from too *)
(* far the stride scheduler keeps the shares, whatever the processes, the  *)
(* priorities and the width of the strides.                                *)
(***************************************************************************)
EXTENDS StrideShare, FiniteSetTheorems, NaturalsInduction, TLAPS

-----------------------------------------------------------------------------
(* Induction.                                                              *)

\* A set of natural numbers that is not empty has a least element.
LEMMA NatLeast ==
    ASSUME NEW T, T \subseteq Nat, T # {}
    PROVE  \E x \in T : \A y \in T : x <= y
<1> DEFINE R == OpToRel(<, Nat)
<1>1. IsWellFoundedOn(R, Nat)
  BY NatLessThanWellFounded
<1>2. \A x, y \in Nat : << y, x >> \in R <=> y < x
  BY DEF OpToRel
<1> HIDE DEF R
<1>3. PICK x \in T : \A y \in T : ~ (<< y, x >> \in R)
  BY <1>1, WFMin
<1>4. ASSUME NEW y \in T PROVE x <= y
  <2>1. x \in Nat /\ y \in Nat /\ ~ (y < x)
    BY <1>2, <1>3
  <2>. QED BY <2>1
<1>. QED BY <1>4

\* A set that holds 0, and with a number the next, holds all natural numbers.
LEMMA SetInduction ==
    ASSUME NEW S, 0 \in S, \A n \in Nat : n \in S => n + 1 \in S
    PROVE  Nat \subseteq S
<1> DEFINE T == Nat \ S
<1>1. CASE T = {}
  BY <1>1
<1>2. CASE T # {}
  <2>1. PICK x \in T : \A y \in T : x <= y
    BY <1>2, NatLeast
  <2>2. x # 0 /\ x - 1 \in Nat /\ x - 1 \notin T
    BY <2>1
  <2>. QED BY <2>2, <2>1
<1>. QED BY <1>1, <1>2

-----------------------------------------------------------------------------
(* The recursion of skew_heap_merge.                                       *)

Ends == Procs \cup {NULL}
Node == [left : Ends, right : Ends, parent : Ends]
Heaps == [Procs -> Node]

\* What the recursive calls of skew_heap_merge return.
IsMerge(h, less, f) ==
    f = [x \in Ends |-> [y \in Ends |-> MergeCall(h, less, f, x, y)]]

\* A call only depends on what its recursive calls return, whose first or
\* second argument has a lower rank.
LEMMA CallLocal ==
    ASSUME NEW h \in Heaps, NEW less, NEW f, NEW g, NEW x \in Ends, NEW y \in Ends,
           x # NULL => f[h[x].right][y] = g[h[x].right][y],
           y # NULL => f[x][h[y].right] = g[x][h[y].right]
    PROVE  MergeCall(h, less, f, x, y) = MergeCall(h, less, g, x, y)
BY DEF MergeCall

\* Where the right pointers go down in some rank, the recursion ends.
LEMMA MergeExists ==
    ASSUME NEW h \in Heaps, NEW less, NEW rank \in [Ends -> Nat], NEW N \in Nat,
           \A x \in Ends : rank[x] <= N,
           \A x \in Procs : rank[h[x].right] < rank[x]
    PROVE  \E f : IsMerge(h, less, f)
<1> DEFINE Next2(f) == [x \in Ends |-> [y \in Ends |-> MergeCall(h, less, f, x, y)]]
           Upto(f, n) == \A x, y \in Ends : rank[x] + rank[y] < n => f[x][y] = Next2(f)[x][y]
           S == {n \in Nat : \E f : Upto(f, n)}
<1>1. 0 \in S
  <2>1. \A x, y \in Ends : ~ (rank[x] + rank[y] < 0)
    OBVIOUS
  <2>. QED BY <2>1
<1>2. ASSUME NEW n \in Nat, n \in S PROVE n + 1 \in S
  <2>1. PICK f : Upto(f, n)
    BY <1>2
  <2> DEFINE g == Next2(f)
  <2>2. ASSUME NEW x \in Ends, NEW y \in Ends, rank[x] + rank[y] < n + 1
        PROVE  g[x][y] = Next2(g)[x][y]
    <3>1. g[x][y] = MergeCall(h, less, f, x, y) /\ Next2(g)[x][y] = MergeCall(h, less, g, x, y)
      OBVIOUS
    <3>2. ASSUME x # NULL PROVE f[h[x].right][y] = g[h[x].right][y]
      <4>1. x \in Procs /\ h[x].right \in Ends
        BY <3>2 DEF Ends, Heaps, Node
      <4>2. rank[h[x].right] + rank[y] < n
        BY <2>2, <4>1
      <4>. QED BY <2>1, <4>1, <4>2
    <3>3. ASSUME y # NULL PROVE f[x][h[y].right] = g[x][h[y].right]
      <4>1. y \in Procs /\ h[y].right \in Ends
        BY <3>3 DEF Ends, Heaps, Node
      <4>2. rank[x] + rank[h[y].right] < n
        BY <2>2, <4>1
      <4>. QED BY <2>1, <4>1, <4>2
    <3>. HIDE DEF g, Next2
    <3>4. MergeCall(h, less, f, x, y) = MergeCall(h, less, g, x, y)
      BY <3>2, <3>3, CallLocal
    <3>. QED BY <3>1, <3>4
  <2>3. Upto(g, n + 1)
    BY <2>2
  <2>. HIDE DEF g, Upto
  <2>. QED BY <2>3
<1>3. Nat \subseteq S
  <2>. HIDE DEF S
  <2>. QED BY <1>1, <1>2, SetInduction
<1>4. PICK f : Upto(f, N + N + 1)
  BY <1>3
<1>5. \A x, y \in Ends : Next2(f)[x][y] = f[x][y]
  <2>1. \A x, y \in Ends : rank[x] + rank[y] < N + N + 1
    OBVIOUS
  <2>. QED BY <1>4, <2>1
<1> DEFINE g == Next2(f)
<1>6. ASSUME NEW x \in Ends, NEW y \in Ends
      PROVE  MergeCall(h, less, f, x, y) = MergeCall(h, less, g, x, y)
  <2>1. x # NULL => h[x].right \in Ends
    BY DEF Ends, Heaps, Node
  <2>2. y # NULL => h[y].right \in Ends
    BY DEF Ends, Heaps, Node
  <2>. QED BY <1>5, <2>1, <2>2, CallLocal
<1>7. g = Next2(g)
  BY <1>6
<1>. QED BY <1>7 DEF IsMerge

\* Then skew_heap_merge does what its code says.
LEMMA MergeIs ==
    ASSUME NEW h \in Heaps, NEW less, NEW rank \in [Ends -> Nat], NEW N \in Nat,
           \A x \in Ends : rank[x] <= N,
           \A x \in Procs : rank[h[x].right] < rank[x]
    PROVE  \E f : /\ \A a, b \in Ends : f[a][b] = MergeCall(h, less, f, a, b)
                  /\ \A a, b : HeapMerge(h, a, b, less) = f[a][b]
<1>1. \E f : IsMerge(h, less, f)
  BY MergeExists
<1> DEFINE f == CHOOSE f : IsMerge(h, less, f)
<1>2. IsMerge(h, less, f)
  BY <1>1
<1>3. DOMAIN h \cup {NULL} = Ends
  BY DEF Heaps, Ends
<1>4. \A a, b : HeapMerge(h, a, b, less) = f[a][b]
  BY <1>3 DEF HeapMerge, IsMerge
<1>. HIDE DEF f
<1>5. \A a, b \in Ends : f[a][b] = MergeCall(h, less, f, a, b)
  BY <1>2 DEF IsMerge
<1>. QED BY <1>4, <1>5

-----------------------------------------------------------------------------
(* Trees.                                                                  *)

\* below gives the nodes below each node of S, and key goes up downwards.
Below(h, S, key, below) ==
    /\ below \in [S \cup {NULL} -> SUBSET S] /\ below[NULL] = {}
    /\ \A n \in S : /\ h[n].left \in S \cup {NULL} /\ h[n].right \in S \cup {NULL}
                    /\ below[n] = {n} \cup below[h[n].left] \cup below[h[n].right]
                    /\ n \notin below[h[n].left] /\ n \notin below[h[n].right]
                    /\ below[h[n].left] \cap below[h[n].right] = {}
                    /\ h[n].left # NULL => h[h[n].left].parent = n
                    /\ h[n].right # NULL => h[h[n].right].parent = n
    /\ \A n \in S : \A k \in below[n] : below[k] \subseteq below[n] /\ key[n] <= key[k]

\* a is the root of a tree with the nodes S, or NULL.
Tree(h, a, S, key) ==
    /\ S \subseteq Procs
    /\ a \in S \cup {NULL}
    /\ \E below : Below(h, S, key, below) /\ below[a] = S

\* The tree of no nodes.
LEMMA TreeEmpty ==
    ASSUME NEW h, NEW S, NEW key
    PROVE  Tree(h, NULL, S, key) <=> S = {}
<1>1. ASSUME Tree(h, NULL, S, key) PROVE S = {}
  BY <1>1 DEF Tree, Below
<1>2. ASSUME S = {} PROVE Tree(h, NULL, S, key)
  <2> DEFINE below == [x \in {NULL} |-> {}]
  <2>1. Below(h, {}, key, below) /\ below[NULL] = {}
    BY DEF Below
  <2>. HIDE DEF below
  <2>. QED BY <1>2, <2>1 DEF Tree
<1>. QED BY <1>1, <1>2

\* The root of a tree belongs to it, unless the tree is empty.
LEMMA TreeRoot ==
    ASSUME NEW h, NEW a, NEW S, NEW key, Tree(h, a, S, key)
    PROVE  a \in Ends /\ (a = NULL => S = {}) /\ (a # NULL => a \in S)
BY TreeEmpty DEF Tree, Ends

\* The nodes L and R are the left and the right subtree of a.
Parts(h, a, L, R, key) ==
    /\ Tree(h, h[a].left, L, key) /\ Tree(h, h[a].right, R, key)
    /\ a \notin L /\ a \notin R /\ L \cap R = {}
    /\ h[a].left # NULL => h[h[a].left].parent = a
    /\ h[a].right # NULL => h[h[a].right].parent = a
    /\ \A k \in L \cup R : key[a] <= key[k]

\* What is below a node of a tree is a tree.
LEMMA Subtree ==
    ASSUME NEW h, NEW S, NEW key, NEW below, S \subseteq Procs, Below(h, S, key, below),
           NEW a \in S \cup {NULL}
    PROVE  Tree(h, a, below[a], key)
<1> DEFINE T == below[a]
           b == [x \in T \cup {NULL} |-> below[x]]
<1>0. NULL \notin Procs
  BY StrideAssumption
<1>1. T \subseteq S /\ \A x \in T : x # NULL /\ x \in S
  BY <1>0 DEF Below
<1>2. \A x \in T : below[x] \subseteq T
  BY DEF Below
<1>3. ASSUME NEW x \in S \cup {NULL}, x # NULL PROVE x \in below[x]
  BY <1>3 DEF Below
<1>4. a \in T \cup {NULL}
  BY <1>3
<1>5. \A x \in T : /\ h[x].left \in T \cup {NULL} /\ h[x].right \in T \cup {NULL}
                   /\ b[x] = below[x]
                   /\ b[h[x].left] = below[h[x].left] /\ b[h[x].right] = below[h[x].right]
  <2>. SUFFICES ASSUME NEW x \in T
       PROVE  h[x].left \in T \cup {NULL} /\ h[x].right \in T \cup {NULL}
    OBVIOUS
  <2>1. /\ h[x].left \in S \cup {NULL} /\ h[x].right \in S \cup {NULL}
        /\ below[h[x].left] \subseteq below[x] /\ below[h[x].right] \subseteq below[x]
    BY <1>1 DEF Below
  <2>. QED BY <1>2, <1>3, <2>1
<1>6. b \in [T \cup {NULL} -> SUBSET T] /\ b[NULL] = {} /\ b[a] = T
  BY <1>2, <1>4 DEF Below
<1>7. \A n \in T : \A k \in b[n] : b[k] \subseteq b[n] /\ key[n] <= key[k]
  <2>1. \A n \in T : b[n] = below[n] /\ below[n] \subseteq T /\ n \in S
    BY <1>1, <1>2
  <2>2. \A n \in S : \A k \in below[n] : below[k] \subseteq below[n] /\ key[n] <= key[k]
    BY DEF Below
  <2>. HIDE DEF b, T
  <2>. QED BY <2>1, <2>2
<1>8. Below(h, T, key, b)
  <2>. HIDE DEF T, b
  <2>. QED BY <1>1, <1>5, <1>6, <1>7 DEF Below
<1>. HIDE DEF b, T
<1>9. Tree(h, a, T, key)
  BY <1>1, <1>4, <1>6, <1>8 DEF Tree
<1>. QED BY <1>9 DEF T

\* A tree is its root and two trees below it.
LEMMA TreeParts ==
    ASSUME NEW h, NEW a, NEW S, NEW key, Tree(h, a, S, key), a # NULL
    PROVE  a \in S /\ \E L, R : S = {a} \cup L \cup R /\ Parts(h, a, L, R, key)
<1>1. PICK below : Below(h, S, key, below) /\ below[a] = S
  BY DEF Tree
<1>2. S \subseteq Procs /\ a \in S
  BY DEF Tree
<1> DEFINE L == below[h[a].left]
           R == below[h[a].right]
<1>3. Tree(h, h[a].left, L, key) /\ Tree(h, h[a].right, R, key)
  <2>1. h[a].left \in S \cup {NULL} /\ h[a].right \in S \cup {NULL}
    BY <1>1, <1>2 DEF Below
  <2>2. \A x \in S \cup {NULL} : Tree(h, x, below[x], key)
    BY <1>1, <1>2, Subtree
  <2>. QED BY <2>1, <2>2
<1>4. /\ S = {a} \cup L \cup R
      /\ a \notin L /\ a \notin R /\ L \cap R = {}
      /\ h[a].left # NULL => h[h[a].left].parent = a
      /\ h[a].right # NULL => h[h[a].right].parent = a
      /\ \A k \in L \cup R : key[a] <= key[k]
  BY <1>1, <1>2 DEF Below
<1>. HIDE DEF L, R
<1>5. Parts(h, a, L, R, key)
  BY <1>3, <1>4 DEF Parts
<1>. QED BY <1>2, <1>4, <1>5

\* A root and two trees below it make a tree.
LEMMA PartsTree ==
    ASSUME NEW h, NEW a \in Procs, NEW L, NEW R, NEW key, Parts(h, a, L, R, key), key[a] <= key[a]
    PROVE  Tree(h, a, {a} \cup L \cup R, key)
<1> DEFINE S == {a} \cup L \cup R
<1>0. NULL \notin Procs /\ L \subseteq Procs /\ R \subseteq Procs
  BY StrideAssumption DEF Parts, Tree
<1>1. PICK bl : Below(h, L, key, bl) /\ bl[h[a].left] = L
  BY DEF Parts, Tree
<1>2. PICK br : Below(h, R, key, br) /\ br[h[a].right] = R
  BY DEF Parts, Tree
<1> DEFINE below == [x \in S \cup {NULL} |->
                       IF x = a THEN S ELSE IF x \in L THEN bl[x] ELSE br[x]]
<1>3. /\ a \notin L /\ a \notin R /\ L \cap R = {} /\ a # NULL
      /\ h[a].left \in L \cup {NULL} /\ h[a].right \in R \cup {NULL}
      /\ bl[NULL] = {} /\ br[NULL] = {}
      /\ \A x \in L \cup {NULL} : bl[x] \subseteq L
      /\ \A x \in R \cup {NULL} : br[x] \subseteq R
  BY <1>0, <1>1, <1>2 DEF Parts, Tree, Below
<1>4. /\ below[a] = S /\ below[NULL] = {}
      /\ \A x \in L \cup {NULL} : below[x] = bl[x]
      /\ \A x \in R \cup {NULL} : below[x] = br[x]
  BY <1>0, <1>3
<1>5. below \in [S \cup {NULL} -> SUBSET S]
  <2>1. ASSUME NEW x \in S \cup {NULL}
        PROVE  (IF x = a THEN S ELSE IF x \in L THEN bl[x] ELSE br[x]) \subseteq S
    BY <1>3
  <2>. QED BY <2>1
<1>. HIDE DEF below
<1>6. ASSUME NEW n \in S
      PROVE  /\ h[n].left \in S \cup {NULL} /\ h[n].right \in S \cup {NULL}
             /\ below[n] = {n} \cup below[h[n].left] \cup below[h[n].right]
             /\ n \notin below[h[n].left] /\ n \notin below[h[n].right]
             /\ below[h[n].left] \cap below[h[n].right] = {}
             /\ h[n].left # NULL => h[h[n].left].parent = n
             /\ h[n].right # NULL => h[h[n].right].parent = n
  <2>1. CASE n = a
    <3>1. below[h[a].left] = L /\ below[h[a].right] = R
      BY <1>1, <1>2, <1>3, <1>4
    <3>. QED BY <1>3, <1>4, <2>1, <3>1 DEF Parts
  <2>2. CASE n \in L
    <3>1. h[n].left \in L \cup {NULL} /\ h[n].right \in L \cup {NULL}
      BY <1>1, <2>2 DEF Below
    <3>. QED BY <1>1, <1>4, <2>2, <3>1 DEF Below
  <2>3. CASE n \in R
    <3>1. h[n].left \in R \cup {NULL} /\ h[n].right \in R \cup {NULL}
      BY <1>2, <2>3 DEF Below
    <3>. QED BY <1>2, <1>4, <2>3, <3>1 DEF Below
  <2>. QED BY <2>1, <2>2, <2>3
<1>7. ASSUME NEW n \in S, NEW k \in below[n]
      PROVE  below[k] \subseteq below[n] /\ key[n] <= key[k]
  <2>1. CASE n = a
    <3>1. k \in S /\ below[k] \subseteq S
      BY <1>4, <1>5, <1>7, <2>1
    <3>2. key[a] <= key[k]
      BY <3>1 DEF Parts
    <3>. QED BY <1>4, <2>1, <3>1, <3>2
  <2>2. CASE n \in L
    <3>1. k \in bl[n] /\ k \in L
      BY <1>3, <1>4, <1>7, <2>2
    <3>. QED BY <1>1, <1>4, <2>2, <3>1 DEF Below
  <2>3. CASE n \in R
    <3>1. k \in br[n] /\ k \in R
      BY <1>3, <1>4, <1>7, <2>3
    <3>. QED BY <1>2, <1>4, <2>3, <3>1 DEF Below
  <2>. QED BY <2>1, <2>2, <2>3
<1>8. S \subseteq Procs /\ a \in S \cup {NULL}
  BY <1>0
<1>9. Below(h, S, key, below)
  <2>. HIDE DEF S
  <2>. QED BY <1>4, <1>5, <1>6, <1>7 DEF Below
<1>. HIDE DEF S
<1>10. Tree(h, a, S, key)
  BY <1>4, <1>8, <1>9 DEF Tree
<1>. QED BY <1>10 DEF S

\* A tree stays one when other nodes change, the parent of its root does, or
\* the keys in the same order.
LEMMA TreeFrame ==
    ASSUME NEW h, NEW g, NEW a, NEW S, NEW key, NEW key2, Tree(h, a, S, key),
           \A n \in S : g[n].left = h[n].left /\ g[n].right = h[n].right,
           \A n \in S \ {a} : g[n].parent = h[n].parent,
           \A n, k \in S : key[n] <= key[k] => key2[n] <= key2[k]
    PROVE  Tree(g, a, S, key2)
<1>0. S \subseteq Procs /\ NULL \notin Procs /\ a \in S \cup {NULL}
  BY StrideAssumption DEF Tree
<1>1. PICK below : Below(h, S, key, below) /\ below[a] = S
  BY DEF Tree
<1>2. ASSUME NEW n \in S, NEW k, k = h[n].left \/ k = h[n].right, k # NULL
      PROVE  k \in S /\ k # a /\ h[k].parent = n
  <2>1. k \in S /\ n \notin below[k] /\ h[k].parent = n
    BY <1>1, <1>2 DEF Below
  <2>. QED BY <1>1, <2>1
<1>3. Below(g, S, key2, below)
  <2>1. below \in [S \cup {NULL} -> SUBSET S] /\ below[NULL] = {}
    BY <1>1 DEF Below
  <2>2. ASSUME NEW n \in S
        PROVE  /\ g[n].left \in S \cup {NULL} /\ g[n].right \in S \cup {NULL}
               /\ below[n] = {n} \cup below[g[n].left] \cup below[g[n].right]
               /\ n \notin below[g[n].left] /\ n \notin below[g[n].right]
               /\ below[g[n].left] \cap below[g[n].right] = {}
               /\ g[n].left # NULL => g[g[n].left].parent = n
               /\ g[n].right # NULL => g[g[n].right].parent = n
    <3>1. g[n].left = h[n].left /\ g[n].right = h[n].right
      OBVIOUS
    <3>2. g[n].left # NULL => g[g[n].left].parent = n
      BY <1>2, <3>1
    <3>3. g[n].right # NULL => g[g[n].right].parent = n
      BY <1>2, <3>1
    <3>. QED BY <1>1, <3>1, <3>2, <3>3 DEF Below
  <2>3. \A n \in S : \A k \in below[n] : below[k] \subseteq below[n] /\ key2[n] <= key2[k]
    BY <1>1 DEF Below
  <2>. QED BY <2>1, <2>2, <2>3 DEF Below
<1>. QED BY <1>0, <1>1, <1>3 DEF Tree

\* The same for the same keys.
LEMMA TreeSame ==
    ASSUME NEW h, NEW g, NEW a, NEW S, NEW key, Tree(h, a, S, key),
           \A n \in S : /\ g[n].left = h[n].left /\ g[n].right = h[n].right
                        /\ n # a => g[n].parent = h[n].parent
    PROVE  Tree(g, a, S, key)
<1>1. \A n \in S : g[n].left = h[n].left /\ g[n].right = h[n].right
  OBVIOUS
<1>2. \A n \in S \ {a} : g[n].parent = h[n].parent
  OBVIOUS
<1>3. \A n, k \in S : key[n] <= key[k] => key[n] <= key[k]
  OBVIOUS
<1>. QED BY <1>1, <1>2, <1>3, TreeFrame

\* Of two sets of processes the one that is part of the other has less members.
LEMMA FewerNodes ==
    ASSUME NEW S, NEW T, S \subseteq Procs, T \subseteq S
    PROVE  /\ Cardinality(S) \in Nat /\ Cardinality(T) \in Nat
           /\ Cardinality(T) <= Cardinality(S)
           /\ T # S => Cardinality(T) < Cardinality(S)
<1>1. IsFiniteSet(Procs)
  BY StrideAssumption
<1>2. IsFiniteSet(S)
  BY <1>1, FS_Subset
<1>3. IsFiniteSet(T) /\ Cardinality(T) <= Cardinality(S) /\ (Cardinality(S) = Cardinality(T) => S = T)
  BY <1>2, FS_Subset
<1>4. Cardinality(S) \in Nat /\ Cardinality(T) \in Nat
  BY <1>2, <1>3, FS_CardinalityType
<1>. QED BY <1>3, <1>4

\* The right pointers of a tree go down in rank.
LEMMA TreeRank ==
    ASSUME NEW h \in Heaps, NEW a, NEW S, NEW key, Tree(h, a, S, key),
           \A p \in Procs \ S : h[p].right = NULL
    PROVE  \E rank \in [Ends -> Nat], N \in Nat :
              /\ \A x \in Ends : rank[x] <= N
              /\ \A x \in Procs : rank[h[x].right] < rank[x]
<1>1. PICK below : Below(h, S, key, below)
  BY DEF Tree
<1>2. S \subseteq Procs /\ NULL \notin Procs
  BY StrideAssumption DEF Tree
<1> DEFINE N == Cardinality(Procs) + 1
           rank == [x \in Ends |-> IF x \in S THEN Cardinality(below[x]) + 1
                                   ELSE IF x = NULL THEN 0 ELSE 1]
<1>3. Cardinality(Procs) \in Nat
  BY FewerNodes
<1>4. \A x \in S : below[x] \subseteq Procs /\ Cardinality(below[x]) \in Nat
                  /\ Cardinality(below[x]) <= Cardinality(Procs)
  <2>1. \A x \in S : below[x] \subseteq Procs
    BY <1>1, <1>2 DEF Below
  <2>. QED BY <2>1, FewerNodes
<1>5. rank \in [Ends -> Nat] /\ N \in Nat /\ \A x \in Ends : rank[x] <= N
  BY <1>3, <1>4
<1>6. ASSUME NEW x \in Procs PROVE rank[h[x].right] < rank[x]
  <2>1. h[x].right \in Ends /\ x \in Ends
    BY DEF Ends, Heaps, Node
  <2>2. CASE h[x].right = NULL
    BY <1>2, <1>4, <2>1, <2>2
  <2>3. CASE h[x].right # NULL
    <3>1. x \in S /\ h[x].right \in S
      BY <1>1, <2>3 DEF Below
    <3>2. below[h[x].right] \subseteq below[x] /\ x \in below[x] /\ x \notin below[h[x].right]
      BY <1>1, <3>1 DEF Below
    <3>3. below[x] \subseteq Procs
      BY <1>4, <3>1
    <3>4. Cardinality(below[h[x].right]) < Cardinality(below[x])
      BY <3>2, <3>3, FewerNodes
    <3>. QED BY <1>4, <2>1, <3>1, <3>4
  <2>. QED BY <2>2, <2>3
<1>. HIDE DEF rank, N
<1>. QED BY <1>5, <1>6

\* A set that has the root and, with a node, its children has all of a tree.
LEMMA TreeClosed ==
    ASSUME NEW h, NEW key, NEW U, \A n \in U : Kids(h, n) \subseteq U,
           NEW a, NEW S, Tree(h, a, S, key), {a} \ {NULL} \subseteq U
    PROVE  S \subseteq U
<1> DEFINE P(m) == \A b, T : Tree(h, b, T, key) /\ {b} \ {NULL} \subseteq U /\ Cardinality(T) <= m
                            => T \subseteq U
           M == {m \in Nat : P(m)}
<1>1. \A b, T : Tree(h, b, T, key) => T \subseteq Procs /\ Cardinality(T) \in Nat
  <2>1. \A b, T : Tree(h, b, T, key) => T \subseteq Procs
    BY DEF Tree
  <2>. QED BY <2>1, FewerNodes
<1>2. ASSUME NEW m \in Nat, \A k \in Nat : k < m => P(k) PROVE P(m)
  <2>. SUFFICES ASSUME NEW b, NEW T, Tree(h, b, T, key), {b} \ {NULL} \subseteq U,
                       Cardinality(T) <= m
       PROVE  T \subseteq U
    OBVIOUS
  <2>1. CASE b = NULL
    BY <2>1, TreeEmpty
  <2>2. CASE b # NULL
    <3>1. PICK L, R : T = {b} \cup L \cup R /\ Parts(h, b, L, R, key)
      BY <2>2, TreeParts
    <3>2. /\ Tree(h, h[b].left, L, key) /\ Tree(h, h[b].right, R, key)
          /\ b \notin L /\ b \notin R
      BY <3>1 DEF Parts
    <3>3. T \subseteq Procs /\ L \subseteq T /\ R \subseteq T /\ L # T /\ R # T
      BY <1>1, <3>1, <3>2
    <3>4. /\ Cardinality(L) \in Nat /\ Cardinality(R) \in Nat
          /\ Cardinality(L) < m /\ Cardinality(R) < m
      <4>1. /\ Cardinality(T) \in Nat /\ Cardinality(L) \in Nat /\ Cardinality(R) \in Nat
            /\ Cardinality(L) < Cardinality(T) /\ Cardinality(R) < Cardinality(T)
        BY <3>3, FewerNodes
      <4>. QED BY <4>1
    <3>5. b \in U
      BY <2>2
    <3>6. {h[b].left} \ {NULL} \subseteq U /\ {h[b].right} \ {NULL} \subseteq U
      BY <3>5 DEF Kids
    <3>7. P(Cardinality(L)) /\ P(Cardinality(R))
      BY <1>2, <3>4
    <3>8. Cardinality(L) <= Cardinality(L) /\ Cardinality(R) <= Cardinality(R)
      BY <3>4
    <3>9. L \subseteq U /\ R \subseteq U
      BY <3>2, <3>6, <3>7, <3>8
    <3>. QED BY <3>1, <3>5, <3>9
  <2>. QED BY <2>1, <2>2
<1>3. \A m \in Nat : P(m)
  <2>. HIDE DEF P
  <2> DEFINE V == {m \in Nat : \A k \in Nat : k < m => P(k)}
  <2>1. 0 \in V
    OBVIOUS
  <2>2. ASSUME NEW m \in Nat, m \in V PROVE m + 1 \in V
    <3>1. P(m)
      BY <1>2, <2>2
    <3>2. \A k \in Nat : k < m + 1 => k < m \/ k = m
      OBVIOUS
    <3>. QED BY <2>2, <3>1, <3>2
  <2>3. Nat \subseteq V
    <3>. HIDE DEF V
    <3>. QED BY <2>1, <2>2, SetInduction
  <2>. QED BY <1>2, <2>3
<1>4. Cardinality(S) \in Nat /\ Cardinality(S) <= Cardinality(S)
  BY <1>1
<1>. QED BY <1>3, <1>4

\* The nodes that HeapNodes names are those of the tree, whose pointers agree.
LEMMA TreeNodes ==
    ASSUME NEW h \in Heaps, NEW a, NEW S, NEW key, Tree(h, a, S, key),
           a # NULL => h[a].parent = NULL
    PROVE  HeapNodes(h, a) = S /\ IsTree(h, a)
<1>0. S \subseteq Procs /\ NULL \notin Procs /\ DOMAIN h = Procs /\ {a} \ {NULL} \subseteq S
  BY StrideAssumption DEF Tree, Heaps
<1>1. PICK below : Below(h, S, key, below)
  BY DEF Tree
<1>2. \A n \in S : Kids(h, n) \subseteq S
  BY <1>1 DEF Below, Kids
<1>3. ASSUME NEW n \in HeapNodes(h, a) PROVE n \in S
  BY <1>0, <1>2 DEF HeapNodes
<1>4. ASSUME NEW n \in S PROVE n \in HeapNodes(h, a)
  BY <1>0, TreeClosed DEF HeapNodes
<1>5. HeapNodes(h, a) = S
  BY <1>3, <1>4
<1>6. ASSUME NEW n \in S
      PROVE  /\ h[n].left = h[n].right => h[n].left = NULL
             /\ \A k \in Kids(h, n) : h[k].parent = n
  <2>1. \A k \in S : k \in below[k]
    BY <1>1 DEF Below
  <2>2. h[n].left \in S \cup {NULL} /\ below[h[n].left] \cap below[h[n].right] = {}
    BY <1>1 DEF Below
  <2>3. \A k \in Kids(h, n) : h[k].parent = n
    BY <1>1 DEF Below, Kids
  <2>. QED BY <2>1, <2>2, <2>3
<1>. QED BY <1>5, <1>6 DEF IsTree

-----------------------------------------------------------------------------
(* Merging, inserting and removing.                                        *)

\* What hanging l under a changes.
LEMMA HangIs ==
    ASSUME NEW k \in Heaps, NEW a \in Procs, NEW l \in Ends, l # a,
           NEW g, g = Hang(k, a, l)
    PROVE  /\ g \in Heaps
           /\ g[a].left = l /\ g[a].right = k[a].left /\ g[a].parent = k[a].parent
           /\ \A p \in Procs \ {a} : g[p].left = k[p].left /\ g[p].right = k[p].right
           /\ \A p \in Procs \ {a, l} : g[p] = k[p]
           /\ l # NULL => g[l].parent = a
<1> DEFINE turned == [k EXCEPT ![a].left = l, ![a].right = k[a].left]
<1>1. NULL \notin Procs /\ a \in Ends
  BY StrideAssumption DEF Ends
<1>2. /\ turned \in Heaps
      /\ turned[a].left = l /\ turned[a].right = k[a].left /\ turned[a].parent = k[a].parent
      /\ \A p \in Procs \ {a} : turned[p] = k[p]
  BY <1>1 DEF Heaps, Node
<1>3. g = IF l = NULL THEN turned ELSE [turned EXCEPT ![l].parent = a]
  BY DEF Hang
<1>. HIDE DEF turned
<1>4. CASE l = NULL
  BY <1>2, <1>3, <1>4
<1>5. CASE l # NULL
  <2>1. l \in Procs
    BY <1>5 DEF Ends
  <2>2. /\ g \in Heaps
        /\ g[l].parent = a /\ g[l].left = turned[l].left /\ g[l].right = turned[l].right
        /\ \A p \in Procs \ {l} : g[p] = turned[p]
    BY <1>1, <1>2, <1>3, <1>5, <2>1 DEF Heaps, Node
  <2>. QED BY <1>2, <1>5, <2>1, <2>2
<1>. QED BY <1>4, <1>5

\* m is what merging the heaps a and b gives: a tree of the nodes U, and no
\* other node is touched.
Merged(h, m, a, b, U, key) ==
    /\ m.mem \in Heaps /\ m.root \in {a, b} /\ Tree(m.mem, m.root, U, key)
    /\ \A p \in Procs \ U : m.mem[p] = h[p]
    /\ m.root # NULL => m.mem[m.root].parent = h[m.root].parent

\* What skew_heap_merge returns when the root a takes the merged heap m.
Hung(m, a) == [mem |-> Hang(m.mem, a, m.root), root |-> a]

\* The root a, with L below it on the left and R on the right, may take T.
Takes(h, a, L, R, T, key) ==
    /\ Parts(h, a, L, R, key)
    /\ T \subseteq Procs /\ a \notin T /\ L \cap T = {}
    /\ \A k \in T : key[a] <= key[k]

\* A root whose right subtree has been merged with b takes it on its left.
LEMMA HangMerged ==
    ASSUME NEW h \in Heaps, NEW key \in [Procs -> Int], NEW a \in Procs,
           NEW L, NEW R, NEW T, Takes(h, a, L, R, T, key),
           NEW b \in T \cup {NULL}, NEW m, Merged(h, m, h[a].right, b, R \cup T, key)
    PROVE  /\ Merged(h, Hung(m, a), a, b, {a} \cup L \cup R \cup T, key)
           /\ Merged(h, Hung(m, a), b, a, {a} \cup L \cup R \cup T, key)
<1>. USE DEF Takes
<1> DEFINE g == Hang(m.mem, a, m.root)
           l == m.root
           U == {a} \cup (R \cup T) \cup L
<1>0. /\ NULL \notin Procs /\ a \notin L /\ a \notin R /\ L \cap R = {}
      /\ L \subseteq Procs /\ R \subseteq Procs
      /\ h[a].left \in L \cup {NULL} /\ h[a].right \in R \cup {NULL}
  BY StrideAssumption DEF Parts, Tree
<1>1. /\ m.mem \in Heaps /\ l \in R \cup T \cup {NULL} /\ Tree(m.mem, l, R \cup T, key)
      /\ \A p \in Procs \ (R \cup T) : m.mem[p] = h[p]
  BY <1>0 DEF Merged
<1>2. l \in Ends /\ l # a
  BY <1>0, <1>1 DEF Ends
<1>3. /\ g \in Heaps
      /\ g[a].left = l /\ g[a].right = m.mem[a].left /\ g[a].parent = m.mem[a].parent
      /\ \A p \in Procs \ {a} : g[p].left = m.mem[p].left /\ g[p].right = m.mem[p].right
      /\ \A p \in Procs \ {a, l} : g[p] = m.mem[p]
      /\ l # NULL => g[l].parent = a
  BY <1>1, <1>2, HangIs
<1>. HIDE DEF g, l
<1>4. m.mem[a] = h[a]
  BY <1>0, <1>1
<1>5. \A p \in L : g[p] = h[p]
  BY <1>0, <1>1, <1>3
<1>6. Tree(g, l, R \cup T, key)
  BY <1>0, <1>1, <1>3, TreeFrame
<1>7. Tree(g, h[a].left, L, key)
  <2>1. Tree(h, h[a].left, L, key)
    BY DEF Parts
  <2>. QED BY <1>5, <2>1, TreeFrame
<1>8. Parts(g, a, R \cup T, L, key)
  <2>1. h[a].left # NULL => g[h[a].left].parent = a
    BY <1>0, <1>5 DEF Parts
  <2>2. \A k \in (R \cup T) \cup L : key[a] <= key[k]
    BY DEF Parts
  <2>. QED BY <1>0, <1>3, <1>4, <1>6, <1>7, <2>1, <2>2 DEF Parts
<1>9. Tree(g, a, U, key)
  <2>1. key[a] <= key[a]
    OBVIOUS
  <2>. QED BY <1>8, <2>1, PartsTree
<1>10. \A p \in Procs \ U : g[p] = h[p]
  BY <1>0, <1>1, <1>3
<1>11. {a} \cup L \cup R \cup T = U
  OBVIOUS
<1> DEFINE out == [mem |-> g, root |-> a]
<1>12. out.mem = g /\ out.root = a
  OBVIOUS
<1>13. out = Hung(m, a)
  BY DEF g, l, Hung
<1>. HIDE DEF out, U
<1>14. Merged(h, out, a, b, U, key) /\ Merged(h, out, b, a, U, key)
  BY <1>3, <1>4, <1>9, <1>10, <1>12 DEF Merged
<1>. QED BY <1>11, <1>13, <1>14

\* less goes by the keys of the nodes W.
Agrees(less, key, W) ==
    \A p, q \in W : IF less[p][q] THEN key[p] <= key[q] ELSE key[q] <= key[p]

\* Merging with an empty heap.
LEMMA MergedSame ==
    ASSUME NEW h \in Heaps, NEW key, NEW a, NEW S, Tree(h, a, S, key), NEW c, NEW d, a \in {c, d}
    PROVE  Merged(h, [mem |-> h, root |-> a], c, d, S, key)
<1> DEFINE out == [mem |-> h, root |-> a]
<1>1. out.mem = h /\ out.root = a
  OBVIOUS
<1>. HIDE DEF out
<1>2. Merged(h, out, c, d, S, key)
  BY <1>1 DEF Merged
<1>. QED BY <1>2 DEF out

\* Two trees ordered by their keys are merged into one.
LEMMA MergeTrees ==
    ASSUME NEW h \in Heaps, NEW key \in [Procs -> Int], NEW less, NEW f,
           \A a, b \in Ends : f[a][b] = MergeCall(h, less, f, a, b),
           NEW W, W \subseteq Procs, Agrees(less, key, W),
           NEW a, NEW b, NEW S, NEW T,
           Tree(h, a, S, key), Tree(h, b, T, key), S \cap T = {}, S \cup T \subseteq W
    PROVE  Merged(h, f[a][b], a, b, S \cup T, key)
<1> DEFINE Trees(x, y, X, Y) == /\ Tree(h, x, X, key) /\ Tree(h, y, Y, key)
                                /\ X \cap Y = {} /\ X \cup Y \subseteq W
           P(m) == \A x, y, X, Y : Trees(x, y, X, Y) /\ Cardinality(X \cup Y) < m
                                     => Merged(h, f[x][y], x, y, X \cup Y, key)
           M == {m \in Nat : P(m)}
<1>0. NULL \notin Procs
  BY StrideAssumption
<1>1. P(0)
  <2>. SUFFICES ASSUME NEW x, NEW y, NEW X, NEW Y, Trees(x, y, X, Y) PROVE ~ (Cardinality(X \cup Y) < 0)
    OBVIOUS
  <2>1. X \cup Y \subseteq Procs
    OBVIOUS
  <2>2. Cardinality(X \cup Y) \in Nat
    BY <2>1, FewerNodes
  <2>. QED BY <2>2
<1>2. ASSUME NEW m \in Nat, P(m) PROVE P(m + 1)
  <2>. SUFFICES ASSUME NEW x, NEW y, NEW X, NEW Y, Trees(x, y, X, Y), Cardinality(X \cup Y) < m + 1
       PROVE  Merged(h, f[x][y], x, y, X \cup Y, key)
    OBVIOUS
  <2>0. /\ Tree(h, x, X, key) /\ Tree(h, y, Y, key) /\ X \cap Y = {}
        /\ X \subseteq W /\ Y \subseteq W /\ X \subseteq Procs /\ Y \subseteq Procs
    OBVIOUS
  <2>1. x \in Ends /\ y \in Ends
    BY <2>0, TreeRoot
  <2>2. f[x][y] = MergeCall(h, less, f, x, y)
    BY <2>1
  <2>3. CASE x = NULL
    <3>1. X = {} /\ X \cup Y = Y
      BY <2>0, <2>3, TreeEmpty
    <3>2. f[x][y] = [mem |-> h, root |-> y]
      BY <2>2, <2>3 DEF MergeCall
    <3>. QED BY <2>0, <3>1, <3>2, MergedSame
  <2>4. CASE x # NULL /\ y = NULL
    <3>1. Y = {} /\ X \cup Y = X
      BY <2>0, <2>4, TreeEmpty
    <3>2. f[x][y] = [mem |-> h, root |-> x]
      BY <2>2, <2>4 DEF MergeCall
    <3>. QED BY <2>0, <3>1, <3>2, MergedSame
  <2>5. CASE x # NULL /\ y # NULL /\ less[x][y]
    <3>1. PICK L, R : X = {x} \cup L \cup R /\ Parts(h, x, L, R, key)
      BY <2>0, <2>5, TreeParts
    <3>2. /\ x \in X /\ y \in Y /\ x \in Procs /\ x \notin R /\ x \notin Y
          /\ Tree(h, h[x].right, R, key) /\ L \cap Y = {} /\ R \cap Y = {}
      BY <2>0, <2>5, <3>1, TreeRoot DEF Parts
    <3>3. \A k \in Y : key[x] <= key[k]
      <4>1. key[x] <= key[y]
        BY <2>0, <2>5, <3>2 DEF Agrees
      <4>2. PICK Ly, Ry : Y = {y} \cup Ly \cup Ry /\ Parts(h, y, Ly, Ry, key)
        BY <2>0, <2>5, TreeParts
      <4>3. \A k \in Y : key[x] \in Int /\ key[y] \in Int /\ key[k] \in Int
        BY <2>0, <3>2
      <4>4. \A k \in Y : key[y] <= key[k]
        BY <4>2, <4>3 DEF Parts
      <4>. QED BY <4>1, <4>3, <4>4
    <3>4. Cardinality(R \cup Y) < m
      <4>1. /\ X \cup Y \subseteq Procs /\ R \cup Y \subseteq X \cup Y /\ R \cup Y # X \cup Y
        BY <2>0, <3>1, <3>2
      <4>2. /\ Cardinality(X \cup Y) \in Nat /\ Cardinality(R \cup Y) \in Nat
            /\ Cardinality(R \cup Y) < Cardinality(X \cup Y)
        BY <4>1, FewerNodes
      <4>. QED BY <4>2
    <3>5. Trees(h[x].right, y, R, Y)
      BY <2>0, <3>1, <3>2
    <3>6. Merged(h, f[h[x].right][y], h[x].right, y, R \cup Y, key)
      <4>. HIDE DEF Trees
      <4>. QED BY <1>2, <3>4, <3>5
    <3>7. f[x][y] = [mem |-> Hang(f[h[x].right][y].mem, x, f[h[x].right][y].root), root |-> x]
      BY <2>2, <2>5 DEF MergeCall
    <3>8. X \cup Y = {x} \cup L \cup R \cup Y
      BY <3>1
    <3>9. Merged(h, f[x][y], x, y, {x} \cup L \cup R \cup Y, key)
      <4> DEFINE k == f[h[x].right][y]
      <4>1. Merged(h, k, h[x].right, y, R \cup Y, key) /\ y \in Y \cup {NULL}
        BY <3>2, <3>6
      <4>2. f[x][y] = Hung(k, x)
        BY <3>7 DEF Hung
      <4>3. Takes(h, x, L, R, Y, key) /\ x \in Procs
        BY <2>0, <3>1, <3>2, <3>3 DEF Takes
      <4>. HIDE DEF k, P, M, Trees
      <4>4. Merged(h, Hung(k, x), x, y, {x} \cup L \cup R \cup Y, key)
        BY <4>1, <4>3, HangMerged
      <4>. QED BY <4>2, <4>4
    <3>. QED BY <3>8, <3>9
  <2>6. CASE x # NULL /\ y # NULL /\ ~ less[x][y]
    <3>1. PICK L, R : Y = {y} \cup L \cup R /\ Parts(h, y, L, R, key)
      BY <2>0, <2>6, TreeParts
    <3>2. /\ x \in X /\ y \in Y /\ y \in Procs /\ y \notin R /\ y \notin X
          /\ Tree(h, h[y].right, R, key) /\ L \cap X = {} /\ R \cap X = {}
      BY <2>0, <2>6, <3>1, TreeRoot DEF Parts
    <3>3. \A k \in X : key[y] <= key[k]
      <4>1. key[y] <= key[x]
        BY <2>0, <2>6, <3>2 DEF Agrees
      <4>2. PICK Lx, Rx : X = {x} \cup Lx \cup Rx /\ Parts(h, x, Lx, Rx, key)
        BY <2>0, <2>6, TreeParts
      <4>3. \A k \in X : key[x] \in Int /\ key[y] \in Int /\ key[k] \in Int
        BY <2>0, <3>2
      <4>4. \A k \in X : key[x] <= key[k]
        BY <4>2, <4>3 DEF Parts
      <4>. QED BY <4>1, <4>3, <4>4
    <3>4. Cardinality(X \cup R) < m
      <4>1. /\ X \cup Y \subseteq Procs /\ X \cup R \subseteq X \cup Y /\ X \cup R # X \cup Y
        BY <2>0, <3>1, <3>2
      <4>2. /\ Cardinality(X \cup Y) \in Nat /\ Cardinality(X \cup R) \in Nat
            /\ Cardinality(X \cup R) < Cardinality(X \cup Y)
        BY <4>1, FewerNodes
      <4>. QED BY <4>2
    <3>5. Trees(x, h[y].right, X, R)
      BY <2>0, <3>1, <3>2
    <3>6. Merged(h, f[x][h[y].right], h[y].right, x, R \cup X, key)
      <4>1. Merged(h, f[x][h[y].right], x, h[y].right, X \cup R, key)
        <5>. HIDE DEF Trees
        <5>. QED BY <1>2, <3>4, <3>5
      <4>2. X \cup R = R \cup X /\ {x, h[y].right} = {h[y].right, x}
        OBVIOUS
      <4>. QED BY <4>1, <4>2 DEF Merged
    <3>7. f[x][y] = [mem |-> Hang(f[x][h[y].right].mem, y, f[x][h[y].right].root), root |-> y]
      BY <2>2, <2>6 DEF MergeCall
    <3>8. X \cup Y = {y} \cup L \cup R \cup X
      BY <3>1
    <3>9. Merged(h, f[x][y], x, y, {y} \cup L \cup R \cup X, key)
      <4> DEFINE k == f[x][h[y].right]
      <4>1. Merged(h, k, h[y].right, x, R \cup X, key) /\ x \in X \cup {NULL}
        BY <3>2, <3>6
      <4>2. f[x][y] = Hung(k, y)
        BY <3>7 DEF Hung
      <4>3. Takes(h, y, L, R, X, key) /\ y \in Procs
        BY <2>0, <3>1, <3>2, <3>3 DEF Takes
      <4>. HIDE DEF k, P, M, Trees
      <4>4. Merged(h, Hung(k, y), x, y, {y} \cup L \cup R \cup X, key)
        BY <4>1, <4>3, HangMerged
      <4>. QED BY <4>2, <4>4
    <3>. QED BY <3>8, <3>9
  <2>. QED BY <2>3, <2>4, <2>5, <2>6
<1>3. Nat \subseteq M
  <2>. HIDE DEF P
  <2>1. 0 \in M /\ \A m \in Nat : m \in M => m + 1 \in M
    BY <1>1, <1>2
  <2>. HIDE DEF M
  <2>. QED BY <2>1, SetInduction
<1>4. S \cup T \subseteq Procs /\ Trees(a, b, S, T)
  OBVIOUS
<1>5. Cardinality(S \cup T) \in Nat
  BY <1>4, FewerNodes
<1>6. P(Cardinality(S \cup T) + 1) /\ Cardinality(S \cup T) < Cardinality(S \cup T) + 1
  <2>. HIDE DEF P
  <2>. QED BY <1>3, <1>5
<1>. HIDE DEF Trees
<1>. QED BY <1>4, <1>6

\* skew_heap_merge of two parts of a memory whose other nodes lie in one tree.
LEMMA MergeKeeps ==
    ASSUME NEW h \in Heaps, NEW key \in [Procs -> Int], NEW less,
           NEW c, NEW Q, Tree(h, c, Q, key), \A p \in Procs \ Q : h[p].right = NULL,
           NEW a, NEW b, NEW S, NEW T,
           Tree(h, a, S, key), Tree(h, b, T, key), S \cap T = {}, Agrees(less, key, S \cup T)
    PROVE  Merged(h, HeapMerge(h, a, b, less), a, b, S \cup T, key)
<1>1. PICK rank \in [Ends -> Nat], N \in Nat :
         /\ \A x \in Ends : rank[x] <= N
         /\ \A x \in Procs : rank[h[x].right] < rank[x]
  BY TreeRank
<1>2. PICK f : /\ \A x, y \in Ends : f[x][y] = MergeCall(h, less, f, x, y)
               /\ \A x, y : HeapMerge(h, x, y, less) = f[x][y]
  BY <1>1, MergeIs
<1>3. S \cup T \subseteq Procs
  BY DEF Tree
<1>4. Merged(h, f[a][b], a, b, S \cup T, key)
  BY <1>2, <1>3, MergeTrees
<1>. QED BY <1>2, <1>4

Cleared == [left |-> NULL, right |-> NULL, parent |-> NULL]

\* a is the root of a heap with the nodes Q, ordered by key; the pointers of
\* all others are cleared.
Heap(h, a, Q, key) ==
    /\ h \in Heaps
    /\ Tree(h, a, Q, key)
    /\ a # NULL => h[a].parent = NULL
    /\ \A p \in Procs \ Q : h[p] = Cleared

\* A heap of one.
LEMMA TreeOne ==
    ASSUME NEW h, NEW a \in Procs, h[a] = Cleared, NEW key \in [Procs -> Int]
    PROVE  Tree(h, a, {a}, key)
<1>1. h[a].left = NULL /\ h[a].right = NULL
  BY DEF Cleared
<1>2. Tree(h, NULL, {}, key)
  BY TreeEmpty
<1>3. Parts(h, a, {}, {}, key)
  BY <1>1, <1>2 DEF Parts
<1>4. key[a] <= key[a]
  OBVIOUS
<1>5. Tree(h, a, {a} \cup {} \cup {}, key)
  BY <1>3, <1>4, PartsTree
<1>6. {a} \cup {} \cup {} = {a}
  OBVIOUS
<1>. QED BY <1>5, <1>6

\* Clearing the pointers of a node.
LEMMA FreshIs ==
    ASSUME NEW h \in Heaps, NEW a \in Procs
    PROVE  /\ Fresh(h, a) \in Heaps /\ Fresh(h, a)[a] = Cleared
           /\ \A p \in Procs \ {a} : Fresh(h, a)[p] = h[p]
BY DEF Fresh, Heaps, Node, Ends, Cleared

\* skew_heap_insert.
LEMMA InsertKeeps ==
    ASSUME NEW h, NEW a, NEW Q, NEW key \in [Procs -> Int], Heap(h, a, Q, key),
           NEW p \in Procs \ Q, NEW less, Agrees(less, key, Q \cup {p})
    PROVE  Heap(HeapInsert(h, a, p, less).mem, HeapInsert(h, a, p, less).root, Q \cup {p}, key)
<1> DEFINE g == Fresh(h, p)
           m == HeapMerge(g, a, p, less)
<1>1. g \in Heaps /\ g[p] = Cleared /\ \A q \in Procs \ {p} : g[q] = h[q]
  BY FreshIs DEF Heap
<1>2. Q \subseteq Procs /\ p \notin Q /\ (a # NULL => a \in Q) /\ a \in Ends /\ p # NULL
  BY StrideAssumption, TreeRoot DEF Heap, Tree
<1>3. HeapInsert(h, a, p, less) = m
  BY DEF HeapInsert
<1>. HIDE DEF g, m
<1>4. Tree(g, a, Q, key)
  <2>1. Tree(h, a, Q, key)
    BY DEF Heap
  <2>2. \A n \in Q : g[n] = h[n]
    BY <1>1, <1>2
  <2>. QED BY <2>1, <2>2, TreeFrame
<1>5. Tree(g, p, {p}, key)
  BY <1>1, TreeOne
<1>6. \A q \in Procs \ Q : g[q].right = NULL
  BY <1>1 DEF Heap, Cleared
<1>7. Merged(g, m, a, p, Q \cup {p}, key)
  <2>1. Q \cap {p} = {}
    BY <1>2
  <2>. QED BY <1>1, <1>4, <1>5, <1>6, <2>1, MergeKeeps DEF m
<1>8. m.mem \in Heaps /\ Tree(m.mem, m.root, Q \cup {p}, key)
  BY <1>7 DEF Merged
<1>9. m.root # NULL => m.mem[m.root].parent = NULL
  <2>1. m.root # NULL => m.root \in {a, p} /\ m.mem[m.root].parent = g[m.root].parent
    BY <1>7 DEF Merged
  <2>2. g[p].parent = NULL
    BY <1>1 DEF Cleared
  <2>3. a # NULL => g[a].parent = NULL
    BY <1>1, <1>2 DEF Heap
  <2>. QED BY <2>1, <2>2, <2>3
<1>10. \A q \in Procs \ (Q \cup {p}) : m.mem[q] = Cleared
  BY <1>1, <1>7 DEF Merged, Heap
<1>11. Heap(m.mem, m.root, Q \cup {p}, key)
  BY <1>8, <1>9, <1>10 DEF Heap
<1>. QED BY <1>3, <1>11

\* The root of a heap has the least key.
LEMMA RootLeast ==
    ASSUME NEW h, NEW a, NEW Q, NEW key \in [Procs -> Int], Heap(h, a, Q, key), a # NULL
    PROVE  a \in Q /\ \A q \in Q : key[a] <= key[q]
<1>1. Tree(h, a, Q, key) /\ Q \subseteq Procs
  BY DEF Heap, Tree
<1>2. PICK L, R : Q = {a} \cup L \cup R /\ Parts(h, a, L, R, key)
  BY <1>1, TreeParts
<1>3. a \in Q /\ key[a] \in Int
  BY <1>1, <1>2
<1>. QED BY <1>2, <1>3 DEF Parts

\* skew_heap_remove of the root, and what becomes of its pointers.
LEMMA PopKeeps ==
    ASSUME NEW h, NEW a, NEW Q, NEW key \in [Procs -> Int], Heap(h, a, Q, key), a # NULL,
           NEW less, Agrees(less, key, Q)
    PROVE  Heap(Fresh(HeapRemove(h, a, a, less).mem, a), HeapRemove(h, a, a, less).root,
                Q \ {a}, key)
<1> DEFINE m == HeapMerge(h, h[a].left, h[a].right, less)
           k == IF m.root = NULL THEN m.mem ELSE [m.mem EXCEPT ![m.root].parent = NULL]
           g == Fresh(k, a)
<1>1. h \in Heaps /\ Tree(h, a, Q, key) /\ Q \subseteq Procs /\ NULL \notin Procs /\ h[a].parent = NULL
  BY StrideAssumption DEF Heap, Tree
<1>2. PICK L, R : Q = {a} \cup L \cup R /\ Parts(h, a, L, R, key)
  BY <1>1, TreeParts
<1>3. /\ Tree(h, h[a].left, L, key) /\ Tree(h, h[a].right, R, key) /\ L \cap R = {}
      /\ a \notin L \cup R /\ Q \ {a} = L \cup R /\ a \in Procs
  BY <1>1, <1>2 DEF Parts
<1>4. \A q \in Procs \ Q : h[q].right = NULL
  BY DEF Heap, Cleared
<1>5. Agrees(less, key, L \cup R)
  BY <1>2 DEF Agrees
<1>6. Merged(h, m, h[a].left, h[a].right, L \cup R, key)
  BY <1>1, <1>3, <1>4, <1>5, MergeKeeps
<1>7. HeapRemove(h, a, a, less) = [mem |-> k, root |-> m.root]
  BY <1>1 DEF HeapRemove
<1>. HIDE DEF m
<1>8. /\ m.mem \in Heaps /\ Tree(m.mem, m.root, L \cup R, key)
      /\ \A p \in Procs \ (L \cup R) : m.mem[p] = h[p]
      /\ m.root \in (L \cup R) \cup {NULL}
  BY <1>6 DEF Merged, Tree
<1>9. /\ k \in Heaps
      /\ \A p \in Procs : k[p].left = m.mem[p].left /\ k[p].right = m.mem[p].right
      /\ \A p \in Procs \ {m.root} : k[p] = m.mem[p]
      /\ m.root # NULL => k[m.root].parent = NULL
  <2>1. CASE m.root = NULL
    BY <1>8, <2>1
  <2>2. CASE m.root # NULL
    <3>1. m.root \in Procs
      BY <1>1, <1>3, <1>8, <2>2
    <3>. QED BY <1>8, <2>2, <3>1 DEF Heaps, Node, Ends
  <2>. QED BY <2>1, <2>2
<1>. HIDE DEF k
<1>10. g \in Heaps /\ g[a] = Cleared /\ \A p \in Procs \ {a} : g[p] = k[p]
  BY <1>3, <1>9, FreshIs
<1>. HIDE DEF g
<1>11. Tree(g, m.root, L \cup R, key)
  <2>1. \A n \in L \cup R : /\ g[n].left = m.mem[n].left /\ g[n].right = m.mem[n].right
                            /\ n # m.root => g[n].parent = m.mem[n].parent
    BY <1>1, <1>2, <1>3, <1>9, <1>10
  <2> DEFINE o == m.mem
             c == m.root
             U == L \cup R
  <2>2. Tree(o, c, U, key)
    BY <1>8
  <2>3. \A n \in U : /\ g[n].left = o[n].left /\ g[n].right = o[n].right
                     /\ n # c => g[n].parent = o[n].parent
    BY <2>1
  <2>. HIDE DEF o, c, U
  <2>4. Tree(g, c, U, key)
    BY <2>2, <2>3, TreeSame
  <2>. QED BY <2>4 DEF c, U
<1>12. m.root # NULL => g[m.root].parent = NULL
  BY <1>1, <1>2, <1>3, <1>8, <1>9, <1>10
<1>13. \A p \in Procs \ (L \cup R) : g[p] = Cleared
  <2>. SUFFICES ASSUME NEW p \in Procs \ (L \cup R), p # a PROVE g[p] = Cleared
    BY <1>10
  <2>1. g[p] = h[p] /\ p \notin Q
    BY <1>1, <1>2, <1>8, <1>9, <1>10
  <2>. QED BY <2>1 DEF Heap
<1>14. Heap(g, m.root, L \cup R, key)
  BY <1>10, <1>11, <1>12, <1>13 DEF Heap
<1>15. HeapRemove(h, a, a, less).mem = k /\ HeapRemove(h, a, a, less).root = m.root
  BY <1>7
<1>. QED BY <1>3, <1>14, <1>15 DEF g

\* A heap stays one under keys in the same order.
LEMMA HeapRekey ==
    ASSUME NEW h, NEW a, NEW Q, NEW key, NEW key2, Heap(h, a, Q, key),
           \A n, k \in Q : key[n] <= key[k] => key2[n] <= key2[k]
    PROVE  Heap(h, a, Q, key2)
<1>1. Tree(h, a, Q, key2)
  BY TreeFrame DEF Heap
<1>. QED BY <1>1 DEF Heap

-----------------------------------------------------------------------------
(* The run queue.                                                          *)

Queue == Runnable \ {current}

\* What the variables hold.
TypeOK ==
    /\ stride \in [Procs -> 0..2 * SignBit - 1]
    /\ priority \in [Procs -> Nat]
    /\ status \in [Procs -> {"NONE", "RUNNABLE", "SLEEPING"}]
    /\ current \in Procs \cup {Idle}

\* The types at the start.
LEMMA TypeInit == Init => TypeOK
<1>. SUFFICES ASSUME Init PROVE TypeOK
  OBVIOUS
<1>1. SignBit \in Nat \ {0} /\ 0 \in 0..2 * SignBit - 1
  BY StrideAssumption
<1>. QED BY <1>1, StrideAssumption DEF Init, TypeOK

\* stride_pick_next adds a number up to BIG_STRIDE.
LEMMA PassIs ==
    ASSUME TypeOK, NEW p \in Procs
    PROVE  /\ Pass(p) \in 0..BIG_STRIDE /\ BIG_STRIDE \in Nat
           /\ Advanced(p) \in 0..2 * SignBit - 1
<1>1. SignBit \in Nat \ {0} /\ BIG_STRIDE \in Nat
  BY StrideAssumption DEF BIG_STRIDE
<1>2. \A n \in Nat, k \in Nat \ {0} : n \div k \in 0..n
  OBVIOUS
<1>3. priority[p] \in Nat /\ stride[p] \in Nat
  BY <1>1 DEF TypeOK
<1>4. Pass(p) \in 0..BIG_STRIDE
  BY <1>1, <1>2, <1>3 DEF Pass
<1>5. \A n \in Nat, m \in Nat \ {0} : n % m \in 0..m - 1
  OBVIOUS
<1>6. stride[p] + Pass(p) \in Nat /\ 2 * SignBit \in Nat \ {0}
  BY <1>1, <1>3, <1>4
<1>. QED BY <1>1, <1>4, <1>5, <1>6 DEF Advanced

\* The processes from which schedule() picks are the runnable ones.
LEMMA CandidatesHeap ==
    ASSUME TypeOK, NEW key \in [Procs -> Int], Heap(mem, pool, Queue, key),
           Agrees(Less, key, Runnable)
    PROVE  Heap(Candidates.mem, Candidates.root, Runnable, key)
<1>1. CASE current # Idle /\ status[current] = "RUNNABLE"
  <2>1. current \in Procs \ Queue /\ Queue \cup {current} = Runnable
    BY <1>1 DEF TypeOK, Queue, Runnable
  <2>2. Candidates = HeapInsert(mem, pool, current, Less)
    BY <1>1 DEF Candidates, Enqueued
  <2>3. Agrees(Less, key, Queue \cup {current})
    BY <2>1
  <2>4. Heap(HeapInsert(mem, pool, current, Less).mem, HeapInsert(mem, pool, current, Less).root,
             Queue \cup {current}, key)
    BY <2>1, <2>3, InsertKeeps
  <2>. QED BY <2>1, <2>2, <2>4
<1>2. CASE ~ (current # Idle /\ status[current] = "RUNNABLE")
  <2>1. Queue = Runnable
    BY <1>2, StrideAssumption DEF TypeOK, Queue, Runnable
  <2>2. Candidates.mem = mem /\ Candidates.root = pool
    BY <1>2 DEF Candidates
  <2>. QED BY <2>1, <2>2
<1>. QED BY <1>1, <1>2

\* wakeup_proc enqueues a process.
LEMMA EnqueueHeap ==
    ASSUME NEW key \in [Procs -> Int], Heap(mem, pool, Queue, key),
           NEW p \in Procs \ Queue, Agrees(Less, key, Queue \cup {p}), Enqueue(p)
    PROVE  Heap(mem', pool', Queue \cup {p}, key)
<1>1. mem' = HeapInsert(mem, pool, p, Less).mem /\ pool' = HeapInsert(mem, pool, p, Less).root
  BY DEF Enqueue, Enqueued
<1>. QED BY <1>1, InsertKeeps

\* schedule() picks r, which has the least key.
Picks(r, key) ==
    /\ r \in Runnable /\ \A q \in Runnable : key[r] <= key[q]
    /\ r = Candidates.root
    /\ ScheduleTo(Candidates, r)
    /\ Heap(mem', pool', Runnable \ {r}, key)

\* schedule() picks a process, or there is none.
LEMMA ScheduleHeap ==
    ASSUME TypeOK, NEW key \in [Procs -> Int], Heap(mem, pool, Queue, key),
           Agrees(Less, key, Runnable)
    PROVE  /\ Candidates.root = NULL => Runnable = {}
           /\ Candidates.root # NULL /\ ScheduleTo(Candidates, Candidates.root)
                => Picks(Candidates.root, key)
<1> DEFINE h == Candidates.mem
           r == Candidates.root
<1>1. Heap(h, r, Runnable, key)
  BY CandidatesHeap
<1>2. ASSUME r = NULL PROVE Runnable = {}
  BY <1>1, <1>2, TreeEmpty DEF Heap
<1>3. ASSUME r # NULL, ScheduleTo(Candidates, r) PROVE Picks(r, key)
  <2>1. r \in Runnable /\ \A q \in Runnable : key[r] <= key[q]
    BY <1>1, <1>3, RootLeast
  <2>2. mem' = Fresh(HeapRemove(h, r, r, Less).mem, r) /\ pool' = HeapRemove(h, r, r, Less).root
    BY <1>3 DEF ScheduleTo
  <2>3. Heap(Fresh(HeapRemove(h, r, r, Less).mem, r), HeapRemove(h, r, r, Less).root,
             Runnable \ {r}, key)
    <3>. HIDE DEF h, r
    <3>. QED BY <1>1, <1>3, PopKeeps
  <2>4. Heap(mem', pool', Runnable \ {r}, key)
    <3>. HIDE DEF h, r
    <3>. QED BY <2>2, <2>3
  <2>. QED BY <1>3, <2>1, <2>4 DEF Picks
<1>. QED BY <1>2, <1>3

\* Each step keeps the types and the heap, if the comparison goes by the keys.
LEMMA HeapStep ==
    ASSUME TypeOK, NEW key \in [Procs -> Int], Heap(mem, pool, Queue, key),
           Agrees(Less, key, Runnable),
           \A p \in Procs : Fork(p) \/ Wakeup(p) => Agrees(Less, key, Runnable \cup {p}),
           [Next]_vars
    PROVE  TypeOK' /\ Heap(mem', pool', Queue', key)
<1>0. /\ SignBit \in Nat \ {0} /\ 0 \in 0..2 * SignBit - 1 /\ Priorities \subseteq Nat
      /\ Idle \notin Procs
  BY StrideAssumption
<1>1. CASE Schedule
  <2>1. CASE Candidates.root = NULL
    <3>1. Runnable = {} /\ ScheduleIdle
      BY <1>1, <2>1, ScheduleHeap DEF Schedule
    <3>2. Queue = {} /\ Queue' = {} /\ mem' = mem /\ pool' = pool
      BY <3>1 DEF Queue, Runnable, ScheduleIdle
    <3>3. TypeOK'
      BY <3>1 DEF ScheduleIdle, TypeOK
    <3>. QED BY <3>2, <3>3
  <2>2. CASE Candidates.root # NULL
    <3> DEFINE r == Candidates.root
    <3>1. Picks(r, key)
      BY <1>1, <2>2, ScheduleHeap DEF Schedule
    <3>2. r \in Procs /\ Advanced(r) \in 0..2 * SignBit - 1
      BY <3>1, PassIs DEF Picks, Runnable
    <3>3. ScheduleTo(Candidates, r) /\ Heap(mem', pool', Runnable \ {r}, key)
      BY <3>1 DEF Picks
    <3>. HIDE DEF r
    <3>4. current' = r /\ status' = status /\ TypeOK'
      BY <3>2, <3>3 DEF ScheduleTo, TypeOK
    <3>5. Queue' = Runnable \ {r}
      BY <3>4 DEF Queue, Runnable
    <3>. QED BY <3>3, <3>4, <3>5
  <2>. QED BY <2>1, <2>2
<1>2. ASSUME NEW k \in Priorities, SetPriority(k) PROVE TypeOK' /\ Heap(mem', pool', Queue', key)
  <2>1. TypeOK' /\ mem' = mem /\ pool' = pool /\ Queue' = Queue
    BY <1>0, <1>2 DEF SetPriority, Running, TypeOK, Queue, Runnable
  <2>. QED BY <2>1
<1>3. ASSUME NEW p \in Procs, Fork(p) PROVE TypeOK' /\ Heap(mem', pool', Queue', key)
  <2>1. p \in Procs \ Queue /\ Queue' = Queue \cup {p}
    BY <1>3 DEF Fork, Running, TypeOK, Queue, Runnable
  <2>2. TypeOK'
    BY <1>0, <1>3 DEF Fork, TypeOK
  <2>3. Agrees(Less, key, Queue \cup {p}) /\ Enqueue(p)
    BY <1>3 DEF Fork, Agrees, Queue
  <2>4. Heap(mem', pool', Queue \cup {p}, key)
    BY <2>1, <2>3, EnqueueHeap
  <2>. QED BY <2>1, <2>2, <2>4
<1>4. CASE Sleep
  <2>1. TypeOK' /\ mem' = mem /\ pool' = pool /\ Queue' = Queue
    BY <1>0, <1>4 DEF Sleep, Running, TypeOK, Queue, Runnable
  <2>. QED BY <2>1
<1>5. CASE Exit
  <2>1. TypeOK' /\ mem' = mem /\ pool' = pool /\ Queue' = Queue
    BY <1>0, <1>5 DEF Exit, Running, TypeOK, Queue, Runnable
  <2>. QED BY <2>1
<1>6. ASSUME NEW p \in Procs, Wakeup(p) PROVE TypeOK' /\ Heap(mem', pool', Queue', key)
  <2>1. TypeOK'
    BY <1>6 DEF Wakeup, TypeOK
  <2>2. CASE p = current
    <3>1. mem' = mem /\ pool' = pool /\ Queue' = Queue
      BY <1>6, <2>2 DEF Wakeup, TypeOK, Queue, Runnable
    <3>. QED BY <2>1, <3>1
  <2>3. CASE p # current
    <3>1. p \in Procs \ Queue /\ Queue' = Queue \cup {p}
      BY <1>6, <2>3 DEF Wakeup, TypeOK, Queue, Runnable
    <3>2. Agrees(Less, key, Queue \cup {p}) /\ Enqueue(p)
      BY <1>6, <2>3 DEF Wakeup, Agrees, Queue
    <3>3. Heap(mem', pool', Queue \cup {p}, key)
      BY <3>1, <3>2, EnqueueHeap
    <3>. QED BY <2>1, <3>1, <3>3
  <2>. QED BY <2>2, <2>3
<1>7. CASE UNCHANGED vars
  <2>1. TypeOK' /\ mem' = mem /\ pool' = pool /\ Queue' = Queue
    BY <1>7 DEF vars, TypeOK, Queue, Runnable
  <2>. QED BY <2>1
<1>. QED BY <1>1, <1>2, <1>3, <1>4, <1>5, <1>6, <1>7 DEF Next

\* The heap of initproc at the start.
LEMMA HeapInit ==
    ASSUME Init, NEW key \in [Procs -> Int]
    PROVE  Heap(mem, pool, Queue, key)
<1>1. Queue = {InitProc} /\ pool = InitProc /\ InitProc \in Procs
  BY StrideAssumption DEF Init, Queue, Runnable
<1>2. mem \in Heaps /\ \A p \in Procs : mem[p] = Cleared /\ mem[p].parent = NULL
  BY DEF Init, Heaps, Node, Ends, Cleared
<1>3. Tree(mem, InitProc, {InitProc}, key)
  BY <1>1, <1>2, TreeOne
<1>. QED BY <1>1, <1>2, <1>3 DEF Heap

\* No order: all keys are the same.
NoKey == [p \in Procs |-> 0]

\* The heap holds the queue, in whatever order.
HInv == TypeOK /\ Heap(mem, pool, Queue, NoKey)

\* In such a heap any comparison will do.
LEMMA NoKeyAgrees ==
    NoKey \in [Procs -> Int] /\ \A less, W : W \subseteq Procs => Agrees(less, NoKey, W)
BY DEF NoKey, Agrees

\* Whoever joins, from however far, and whatever the comparison says, the heap
\* holds the queue.
LEMMA HInvStep == HInv /\ [Next]_vars => HInv'
<1>. SUFFICES ASSUME HInv, [Next]_vars PROVE HInv'
  OBVIOUS
<1>1. TypeOK /\ Heap(mem, pool, Queue, NoKey)
  BY DEF HInv
<1>2. Runnable \subseteq Procs
  BY DEF Runnable
<1>3. TypeOK' /\ Heap(mem', pool', Queue', NoKey)
  BY <1>1, <1>2, NoKeyAgrees, HeapStep
<1>4. NoKey' = NoKey
  BY DEF NoKey
<1>. QED BY <1>3, <1>4 DEF HInv

\* What HeapHoldsQueue says.
LEMMA HInvHolds == HInv => HeapHoldsQueue
<1>. SUFFICES ASSUME HInv PROVE HeapHoldsQueue
  OBVIOUS
<1>1. mem \in Heaps /\ Tree(mem, pool, Queue, NoKey) /\ (pool # NULL => mem[pool].parent = NULL)
  BY DEF HInv, Heap
<1>2. HeapNodes(mem, pool) = Queue /\ IsTree(mem, pool)
  BY <1>1, TreeNodes
<1>. QED BY <1>2 DEF HeapHoldsQueue, Queue, Runnable

(***************************************************************************)
(* The run queue is a tree with all its pointers right, and holds every    *)
(* runnable process but the one on the CPU, even where the comparison of   *)
(* the strides is no order any more (skew_heap.h).                         *)
(***************************************************************************)
THEOREM HeapCorrect == Spec => []HeapHoldsQueue
<1>1. Init => HInv
  BY TypeInit, HeapInit, NoKeyAgrees DEF HInv
<1>2. Spec => []HInv
  BY <1>1, HInvStep, PTL DEF Spec
<1>. QED BY <1>2, HInvHolds, PTL

-----------------------------------------------------------------------------
(* Strides without wrap-around.                                            *)

\* The numbers f of the processes S are known, and at most BIG_STRIDE apart.
Close(f, S) == \A p, q \in S : f[p] # TooFar /\ f[p] - f[q] <= BIG_STRIDE

\* The strides s are the known ones of the numbers f, above some number and
\* wrapped around.
Tracked(f, s) ==
    \E c \in Int : \A p \in Procs :
        f[p] # TooFar => \E k \in Int : s[p] = f[p] + c + k * (2 * SignBit)

\* Numbers that are close have a least one.
LEMMA LeastExists ==
    ASSUME NEW f \in [Procs -> Int], NEW S \in SUBSET Procs, Close(f, S), S # {}
    PROVE  \E m \in Int : Fair!IsLeast(m, f, S)
<1>1. PICK r \in S : TRUE
  OBVIOUS
<1> DEFINE up(p) == f[p] - f[r] + BIG_STRIDE
           T == {up(p) : p \in S}
<1>2. \A p \in S : f[p] \in Int /\ f[r] \in Int /\ BIG_STRIDE \in Int
  BY <1>1, StrideAssumption DEF BIG_STRIDE
<1>3. T \subseteq Nat /\ T # {}
  <2>1. ASSUME NEW p \in S PROVE up(p) \in Nat
    <3>1. f[r] - f[p] <= BIG_STRIDE
      BY <1>1 DEF Close
    <3>. QED BY <1>2, <3>1
  <2>. QED BY <1>1, <2>1
<1>4. PICK x \in T : \A y \in T : x <= y
  BY <1>3, NatLeast
<1>5. PICK p \in S : x = up(p)
  BY <1>4
<1>6. ASSUME NEW q \in S PROVE f[p] <= f[q]
  <2>1. up(p) <= up(q)
    BY <1>4, <1>5
  <2>. QED BY <1>2, <2>1
<1>7. Fair!IsLeast(f[p], f, S)
  BY <1>5, <1>6 DEF Fair!IsLeast
<1>. QED BY <1>2, <1>7

\* What Above does to numbers that are close.
LEMMA AboveIs ==
    ASSUME NEW f \in [Procs -> Int], NEW S \in SUBSET Procs, Close(f, S)
    PROVE  \E m \in Int :
              /\ S # {} => Fair!IsLeast(m, f, S)
              /\ S = {} => m = 0
              /\ Above(f, S) \in [Procs -> Int]
              /\ \A p \in S : Above(f, S)[p] = f[p] - m /\ f[p] - m \in 0..BIG_STRIDE
              /\ \A p \in Procs : Above(f, S)[p] # TooFar
                                    => f[p] # TooFar /\ Above(f, S)[p] = f[p] - m
<1> DEFINE least == CHOOSE k \in {f[p] : p \in S} : \A p \in S : k <= f[p]
           m == IF S = {} THEN 0 ELSE least
<1>1. BIG_STRIDE \in Nat /\ TooFar \in Int /\ TooFar < 0
  BY StrideAssumption DEF BIG_STRIDE, TooFar
<1>2. m \in Int /\ (S # {} => Fair!IsLeast(m, f, S)) /\ (S = {} => m = 0)
  <2>1. CASE S = {}
    BY <2>1
  <2>2. CASE S # {}
    <3>1. PICK k \in Int : Fair!IsLeast(k, f, S)
      BY <2>2, LeastExists
    <3>2. k \in {f[p] : p \in S} /\ \A p \in S : k <= f[p]
      BY <3>1 DEF Fair!IsLeast
    <3>3. least \in {f[p] : p \in S} /\ \A p \in S : least <= f[p]
      BY <3>2
    <3>. HIDE DEF least
    <3>. QED BY <2>2, <3>3 DEF Fair!IsLeast
  <2>. QED BY <2>1, <2>2
<1>3. Above(f, S) = [p \in Procs |-> IF f[p] = TooFar \/ f[p] - m < TooFar
                                     THEN TooFar ELSE f[p] - m]
  BY DEF Above
<1>. HIDE DEF m
<1>4. ASSUME NEW p \in S PROVE f[p] # TooFar /\ f[p] - m \in 0..BIG_STRIDE
  <2>1. PICK r \in S : f[r] = m
    BY <1>2 DEF Fair!IsLeast
  <2>2. m <= f[p] /\ f[p] - f[r] <= BIG_STRIDE /\ f[p] # TooFar
    BY <1>2, <2>1 DEF Fair!IsLeast, Close
  <2>. QED BY <1>1, <1>2, <2>1, <2>2
<1>5. \A p \in S : Above(f, S)[p] = f[p] - m
  BY <1>1, <1>2, <1>3, <1>4
<1>6. Above(f, S) \in [Procs -> Int]
  BY <1>1, <1>2, <1>3
<1>7. \A p \in Procs : Above(f, S)[p] # TooFar => f[p] # TooFar /\ Above(f, S)[p] = f[p] - m
  BY <1>3
<1>. QED BY <1>2, <1>4, <1>5, <1>6, <1>7

\* The sign of the wrapped difference is right for strides that are close.
LEMMA DifferenceIs ==
    ASSUME NEW s, NEW p, NEW q, NEW x \in Int, NEW y \in Int, NEW c \in Int,
           NEW k \in Int, NEW l \in Int,
           s[p] = x + c + k * (2 * SignBit), s[q] = y + c + l * (2 * SignBit),
           x - y \in -BIG_STRIDE..BIG_STRIDE
    PROVE  Difference(s, p, q) = x - y
<1>1. SignBit \in Nat \ {0} /\ BIG_STRIDE = SignBit - 1
  BY StrideAssumption DEF BIG_STRIDE
<1> DEFINE d == x - y
           M == 2 * SignBit
<1>2. d \in Int /\ -SignBit < d /\ d < SignBit /\ M \in Nat \ {0}
  BY <1>1
<1>3. s[p] - s[q] = d + (k - l) * M
  <2>1. \A n \in Int : k * n - l * n = (k - l) * n
    OBVIOUS
  <2>. QED BY <1>1, <2>1
<1>. HIDE DEF d, M
<1>4. (s[p] - s[q]) % M = IF d >= 0 THEN d ELSE d + M
  <2>1. \A j \in Int, n \in Nat \ {0} : \A e \in 0..n - 1 : (e + j * n) % n = e
    OBVIOUS
  <2>2. CASE d >= 0
    <3>1. d \in 0..M - 1 /\ k - l \in Int
      BY <1>1, <1>2, <2>2 DEF M
    <3>. QED BY <1>2, <1>3, <2>1, <2>2, <3>1
  <2>3. CASE d < 0
    <3>1. d + M \in 0..M - 1 /\ k - l - 1 \in Int
      BY <1>1, <1>2, <2>3 DEF M
    <3>2. (k - l) * M = M + (k - l - 1) * M
      BY <1>2
    <3>3. d + (k - l) * M = (d + M) + (k - l - 1) * M
      <4>. DEFINE a == (k - l) * M
                  b == (k - l - 1) * M
      <4>1. a = M + b /\ a \in Int /\ b \in Int
        BY <1>2, <3>2
      <4>. HIDE DEF a, b
      <4>2. d + a = (d + M) + b
        BY <1>2, <4>1
      <4>. QED BY <4>2 DEF a, b
    <3>4. ((d + M) + (k - l - 1) * M) % M = d + M
      BY <1>2, <2>1, <3>1
    <3>. QED BY <1>3, <2>3, <3>3, <3>4, <1>2
  <2>. QED BY <1>2, <2>2, <2>3
<1>. QED BY <1>1, <1>2, <1>4 DEF Difference, d, M

\* The numbers of the runnable processes are those above the least, at most
\* BIG_STRIDE, the strides are these numbers wrapped around, and the heap goes
\* by them.  A slot without a process has the stride that alloc_proc gives.
SInv ==
    /\ TypeOK
    /\ ahead \in [Procs -> Int]
    /\ Heap(mem, pool, Queue, ahead)
    /\ \A p \in Runnable : ahead[p] \in 0..BIG_STRIDE
    /\ Runnable # {} => \E p \in Runnable : ahead[p] = 0
    /\ Tracked(ahead, stride)
    /\ \A p \in Procs : status[p] = "NONE" => stride[p] = 0

\* The values at the start.
LEMMA SInvInit == ShareInit => SInv
<1>. SUFFICES ASSUME ShareInit PROVE SInv
  OBVIOUS
<1>1. Init /\ ahead = [p \in Procs |-> 0] /\ ahead \in [Procs -> Int]
  BY DEF ShareInit
<1>2. TypeOK /\ Heap(mem, pool, Queue, ahead)
  BY <1>1, TypeInit, HeapInit
<1>3. BIG_STRIDE \in Nat /\ InitProc \in Procs /\ SignBit \in Nat
  BY StrideAssumption DEF BIG_STRIDE
<1>4. Runnable = {InitProc} /\ \A p \in Procs : ahead[p] = 0 /\ stride[p] = 0
  BY <1>1, <1>3 DEF Init, Runnable
<1>5. Tracked(ahead, stride)
  <2>1. 0 = 0 + 0 + 0 * (2 * SignBit)
    BY <1>3
  <2>2. \A p \in Procs : \E k \in Int : stride[p] = ahead[p] + 0 + k * (2 * SignBit)
    BY <1>4, <2>1
  <2>. QED BY <2>2 DEF Tracked
<1>. QED BY <1>1, <1>2, <1>3, <1>4, <1>5 DEF SInv

\* The strides of processes that are close are compared by their numbers.
LEMMA TrackedDifference ==
    ASSUME NEW f \in [Procs -> Int], NEW S \in SUBSET Procs, Close(f, S), NEW s, Tracked(f, s),
           NEW p \in S, NEW q \in S
    PROVE  Difference(s, p, q) = f[p] - f[q]
<1>1. PICK c \in Int : \A r \in Procs :
                          f[r] # TooFar => \E k \in Int : s[r] = f[r] + c + k * (2 * SignBit)
  BY DEF Tracked
<1>2. /\ p \in Procs /\ q \in Procs /\ f[p] # TooFar /\ f[q] # TooFar
      /\ f[p] - f[q] <= BIG_STRIDE /\ f[q] - f[p] <= BIG_STRIDE
      /\ f[p] \in Int /\ f[q] \in Int
  BY DEF Close
<1>3. PICK k \in Int : s[p] = f[p] + c + k * (2 * SignBit)
  BY <1>1, <1>2
<1>4. PICK l \in Int : s[q] = f[q] + c + l * (2 * SignBit)
  BY <1>1, <1>2
<1>5. f[p] - f[q] \in -BIG_STRIDE..BIG_STRIDE
  BY <1>2, StrideAssumption DEF BIG_STRIDE
<1> DEFINE x == f[p]
           y == f[q]
<1>6. /\ x \in Int /\ y \in Int /\ x - y \in -BIG_STRIDE..BIG_STRIDE
      /\ s[p] = x + c + k * (2 * SignBit) /\ s[q] = y + c + l * (2 * SignBit)
  BY <1>2, <1>3, <1>4, <1>5
<1>. HIDE DEF x, y
<1>7. Difference(s, p, q) = x - y
  BY <1>6, DifferenceIs
<1>. QED BY <1>7 DEF x, y

\* So proc_stride_comp_f goes by the numbers.
LEMMA TrackedAgrees ==
    ASSUME NEW f \in [Procs -> Int], NEW S \in SUBSET Procs, Close(f, S), Tracked(f, stride)
    PROVE  Agrees(Less, f, S)
<1>. SUFFICES ASSUME NEW p \in S, NEW q \in S
     PROVE  IF Less[p][q] THEN f[p] <= f[q] ELSE f[q] <= f[p]
  BY DEF Agrees
<1>1. Difference(stride, p, q) = f[p] - f[q] /\ f[p] \in Int /\ f[q] \in Int
  BY TrackedDifference
<1>2. Less[p][q] <=> Difference(stride, p, q) < 0
  BY DEF Less
<1>. QED BY <1>1, <1>2

\* The runnable processes are close.
LEMMA RunnableClose ==
    ASSUME SInv
    PROVE  /\ Runnable \in SUBSET Procs /\ Close(ahead, Runnable)
           /\ ahead \in [Procs -> Int] /\ Tracked(ahead, stride)
           /\ BIG_STRIDE \in Nat /\ TooFar \in Int /\ TooFar < 0
<1>1. BIG_STRIDE \in Nat /\ TooFar \in Int /\ TooFar < 0
  BY StrideAssumption DEF BIG_STRIDE, TooFar
<1>2. ASSUME NEW p \in Runnable, NEW q \in Runnable
      PROVE  ahead[p] # TooFar /\ ahead[p] - ahead[q] <= BIG_STRIDE
  <2>1. ahead[p] \in 0..BIG_STRIDE /\ ahead[q] \in 0..BIG_STRIDE
    BY DEF SInv
  <2>. QED BY <1>1, <2>1
<1>. QED BY <1>1, <1>2 DEF SInv, Close, Runnable

\* And they are so with one that is not too far from any.
LEMMA TimelyClose ==
    ASSUME SInv, NEW p \in Procs, Timely(p)
    PROVE  Close(ahead, Runnable \cup {p})
<1>1. ahead[p] # TooFar /\ \A q \in Runnable : ahead[q] - ahead[p] \in -BIG_STRIDE..BIG_STRIDE
  BY DEF Timely
<1>2. /\ Runnable \in SUBSET Procs /\ Close(ahead, Runnable)
      /\ ahead \in [Procs -> Int] /\ BIG_STRIDE \in Nat
  BY RunnableClose
<1>3. ASSUME NEW q \in Runnable
      PROVE  ahead[q] - ahead[p] <= BIG_STRIDE /\ ahead[p] - ahead[q] <= BIG_STRIDE
  <2>1. ahead[q] \in Int /\ ahead[p] \in Int
    BY <1>2
  <2>. QED BY <1>1, <1>2, <2>1
<1>4. ahead[p] - ahead[p] <= BIG_STRIDE
  BY <1>2
<1>. QED BY <1>1, <1>2, <1>3, <1>4 DEF Close

\* Numbers above the least, of a set that is runnable then, keep the invariant.
LEMMA SettledInv ==
    ASSUME NEW f \in [Procs -> Int], NEW S \in SUBSET Procs, Close(f, S), S = Runnable',
           ahead \in [Procs -> Int], ahead' = Above(f, S),
           TypeOK', Heap(mem', pool', Queue', ahead), \A q \in Queue' : f[q] = ahead[q],
           Tracked(f, stride'), \A p \in Procs : status'[p] = "NONE" => stride'[p] = 0
    PROVE  SInv'
<1>1. PICK m \in Int :
         /\ S # {} => Fair!IsLeast(m, f, S)
         /\ Above(f, S) \in [Procs -> Int]
         /\ \A p \in S : Above(f, S)[p] = f[p] - m /\ f[p] - m \in 0..BIG_STRIDE
         /\ \A p \in Procs : Above(f, S)[p] # TooFar
                               => f[p] # TooFar /\ Above(f, S)[p] = f[p] - m
  BY AboveIs
<1> DEFINE g == Above(f, S)
<1>2. g \in [Procs -> Int] /\ \A p \in S : g[p] = f[p] - m /\ g[p] \in 0..BIG_STRIDE
  BY <1>1
<1>3. S # {} => \E p \in S : g[p] = 0
  <2>. SUFFICES ASSUME S # {} PROVE \E p \in S : g[p] = 0
    OBVIOUS
  <2>1. PICK p \in S : f[p] = m
    BY <1>1 DEF Fair!IsLeast
  <2>. QED BY <1>2, <2>1
<1>4. Tracked(g, stride')
  <2>1. PICK c \in Int : \A p \in Procs :
           f[p] # TooFar => \E k \in Int : stride'[p] = f[p] + c + k * (2 * SignBit)
    BY DEF Tracked
  <2>2. ASSUME NEW p \in Procs, g[p] # TooFar
        PROVE  \E k \in Int : stride'[p] = g[p] + (c + m) + k * (2 * SignBit)
    <3>1. f[p] # TooFar /\ g[p] = f[p] - m /\ f[p] \in Int
      BY <1>1, <2>2
    <3>2. PICK k \in Int : stride'[p] = f[p] + c + k * (2 * SignBit)
      BY <2>1, <3>1
    <3>3. f[p] + c = g[p] + (c + m)
      BY <3>1
    <3>. QED BY <3>2, <3>3
  <2>3. c + m \in Int
    OBVIOUS
  <2>. HIDE DEF g
  <2>. QED BY <2>2, <2>3 DEF Tracked
<1>5. Heap(mem', pool', Queue', g)
  <2>1. ASSUME NEW n \in Queue', NEW k \in Queue', ahead[n] <= ahead[k] PROVE g[n] <= g[k]
    <3>1. n \in S /\ k \in S
      BY DEF Queue
    <3>2. g[n] = ahead[n] - m /\ g[k] = ahead[k] - m /\ ahead[n] \in Int /\ ahead[k] \in Int
      BY <1>2, <3>1
    <3>. QED BY <2>1, <3>2
  <2>. HIDE DEF g
  <2>. QED BY <2>1, HeapRekey
<1>. HIDE DEF g
<1>6. ahead' = g
  BY DEF g
<1>. QED BY <1>2, <1>3, <1>4, <1>5, <1>6 DEF SInv

\* do_fork and wakeup_proc make a process runnable, with the stride it has.
LEMMA JoinIs ==
    ASSUME SInv, NEW p \in Procs, Fork(p) \/ Wakeup(p)
    PROVE  /\ p \notin Runnable /\ Runnable' = Runnable \cup {p} /\ stride' = stride
           /\ \A q \in Procs : status'[q] = "NONE" => status[q] = "NONE"
           /\ Next
<1>1. status \in [Procs -> {"NONE", "RUNNABLE", "SLEEPING"}] /\ stride \in [Procs -> Int]
  BY StrideAssumption DEF SInv, TypeOK
<1>2. status[p] # "RUNNABLE" /\ status' = [status EXCEPT ![p] = "RUNNABLE"]
  BY DEF Fork, Wakeup
<1>3. stride' = stride
  <2>1. CASE Fork(p)
    <3>1. stride[p] = 0 /\ stride' = [stride EXCEPT ![p] = 0]
      BY <2>1 DEF Fork, SInv
    <3>. QED BY <1>1, <3>1
  <2>2. CASE Wakeup(p)
    BY <2>2 DEF Wakeup
  <2>. QED BY <2>1, <2>2
<1>. QED BY <1>1, <1>2, <1>3 DEF Runnable, Next

\* Who joins is timely, so that the heap stays ordered by the numbers.
LEMMA ShareHeap ==
    ASSUME SInv, [ShareNext]_sharevars
    PROVE  TypeOK' /\ Heap(mem', pool', Queue', ahead)
<1>1. TypeOK /\ ahead \in [Procs -> Int] /\ Heap(mem, pool, Queue, ahead)
  BY DEF SInv
<1>2. Agrees(Less, ahead, Runnable)
  BY RunnableClose, TrackedAgrees
<1>3. [Next]_vars
  <2>1. ASSUME ShareSchedule PROVE Schedule
    BY <2>1 DEF ShareSchedule, Schedule
  <2>. QED BY <2>1 DEF ShareNext, Next, sharevars, ShareFork, ShareWakeup, ShareSleep, ShareExit
<1>4. ASSUME NEW p \in Procs, Fork(p) \/ Wakeup(p) PROVE Agrees(Less, ahead, Runnable \cup {p})
  <2>1. p \notin Runnable /\ p \in Runnable'
    BY <1>4, JoinIs
  <2>2. status[p] # "RUNNABLE" /\ status'[p] = "RUNNABLE"
    BY <2>1 DEF Runnable
  <2>3. Timely(p)
    <3>1. CASE \E q \in Procs : ShareFork(q) \/ ShareWakeup(q)
      <4>1. PICK q \in Procs : ShareFork(q) \/ ShareWakeup(q)
        BY <3>1
      <4>2. Timely(q) /\ (Fork(q) \/ Wakeup(q))
        BY <4>1 DEF ShareFork, ShareWakeup
      <4>3. Runnable' = Runnable \cup {q}
        BY <4>2, JoinIs
      <4>. QED BY <2>1, <4>2, <4>3
    <3>2. CASE ShareSleep \/ ShareExit
      <4>1. status' = [status EXCEPT ![current] = "SLEEPING"]
             \/ status' = [status EXCEPT ![current] = "NONE"]
        BY <3>2 DEF ShareSleep, ShareExit, Sleep, Exit
      <4>2. status \in [Procs -> {"NONE", "RUNNABLE", "SLEEPING"}]
        BY DEF SInv, TypeOK
      <4>3. status'[p] = status[p] \/ status'[p] = "SLEEPING" \/ status'[p] = "NONE"
        BY <4>1, <4>2
      <4>. QED BY <2>2, <4>3
    <3>3. CASE ShareSchedule \/ (\E k \in Priorities : SetPriority(k)) \/ UNCHANGED sharevars
      <4>1. status' = status
        BY <3>3 DEF ShareSchedule, ScheduleIdle, ScheduleTo, SetPriority, sharevars, vars
      <4>. QED BY <2>2, <4>1
    <3>. QED BY <3>1, <3>2, <3>3 DEF ShareNext
  <2>4. Close(ahead, Runnable \cup {p})
    BY <2>3, TimelyClose
  <2>5. Runnable \cup {p} \in SUBSET Procs
    BY DEF Runnable
  <2>. QED BY <2>4, <2>5, RunnableClose, TrackedAgrees
<1>. QED BY <1>1, <1>2, <1>3, <1>4, HeapStep

\* r, which has got least, is picked, and goes ahead.
Dispatched(r, f) ==
    /\ r \in Runnable /\ ahead[r] = 0
    /\ f = [ahead EXCEPT ![r] = @ + Pass(r)]
    /\ ahead' = Above(f, Runnable)
    /\ ScheduleTo(Candidates, r)

\* schedule() picks one that has got least, if there is any.
LEMMA SchedulePicks ==
    ASSUME SInv, ShareSchedule
    PROVE  \/ UNCHANGED << stride, status, ahead >>
           \/ \E r, f : Dispatched(r, f)
<1> DEFINE r == Candidates.root
           f == [ahead EXCEPT ![r] = @ + Pass(r)]
<1>1. CASE r = NULL
  BY <1>1 DEF ShareSchedule, ScheduleIdle
<1>2. CASE r # NULL
  <2>1. ScheduleTo(Candidates, r) /\ ahead' = Above(f, Runnable)
    BY <1>2 DEF ShareSchedule
  <2>2. Agrees(Less, ahead, Runnable)
    BY RunnableClose, TrackedAgrees
  <2>3. Picks(r, ahead)
    BY <1>2, <2>1, <2>2, ScheduleHeap DEF SInv
  <2>4. r \in Runnable /\ \A q \in Runnable : ahead[r] <= ahead[q]
    BY <2>3 DEF Picks
  <2>5. ahead[r] = 0
    <3>1. ahead[r] \in 0..BIG_STRIDE /\ \E q \in Runnable : ahead[q] = 0
      BY <2>4 DEF SInv
    <3>. QED BY <2>4, <3>1
  <2>. HIDE DEF r
  <2>6. Dispatched(r, f)
    BY <2>1, <2>4, <2>5 DEF Dispatched
  <2>. QED BY <2>6
<1>. QED BY <1>1, <1>2

\* Whoever is picked stays close to the others.
LEMMA DispatchIs ==
    ASSUME SInv, NEW r, NEW f, Dispatched(r, f)
    PROVE  /\ r \in Procs /\ f \in [Procs -> Int] /\ Pass(r) \in 0..BIG_STRIDE
           /\ f[r] = Pass(r) /\ \A q \in Procs \ {r} : f[q] = ahead[q]
           /\ \A q \in Runnable : f[q] \in 0..BIG_STRIDE
           /\ Close(f, Runnable) /\ Tracked(f, stride')
           /\ status' = status /\ current' = r
<1>1. /\ Runnable \in SUBSET Procs /\ ahead \in [Procs -> Int] /\ Tracked(ahead, stride)
      /\ BIG_STRIDE \in Nat /\ TooFar \in Int /\ TooFar < 0
  BY RunnableClose
<1>2. r \in Procs /\ ahead[r] = 0 /\ f = [ahead EXCEPT ![r] = @ + Pass(r)]
  BY <1>1 DEF Dispatched
<1>3. Pass(r) \in 0..BIG_STRIDE
  BY <1>2, PassIs DEF SInv
<1>4. f \in [Procs -> Int] /\ f[r] = Pass(r) /\ \A q \in Procs \ {r} : f[q] = ahead[q]
  BY <1>1, <1>2, <1>3
<1>5. ASSUME NEW q \in Runnable PROVE f[q] \in 0..BIG_STRIDE
  BY <1>1, <1>3, <1>4 DEF SInv
<1>6. Close(f, Runnable)
  <2>1. ASSUME NEW p \in Runnable, NEW q \in Runnable
        PROVE  f[p] # TooFar /\ f[p] - f[q] <= BIG_STRIDE
    <3>1. f[p] \in 0..BIG_STRIDE /\ f[q] \in 0..BIG_STRIDE
      BY <1>5
    <3>. QED BY <1>1, <3>1
  <2>. QED BY <2>1 DEF Close
<1>7. /\ stride' = [stride EXCEPT ![r] = (stride[r] + Pass(r)) % (2 * SignBit)]
      /\ status' = status /\ current' = r
  BY DEF Dispatched, ScheduleTo, Advanced
<1>8. Tracked(f, stride')
  <2>1. PICK c \in Int : \A p \in Procs :
           ahead[p] # TooFar => \E k \in Int : stride[p] = ahead[p] + c + k * (2 * SignBit)
    BY <1>1 DEF Tracked
  <2>2. ASSUME NEW p \in Procs, f[p] # TooFar
        PROVE  \E k \in Int : stride'[p] = f[p] + c + k * (2 * SignBit)
    <3>1. CASE p # r
      <4>1. stride'[p] = stride[p] /\ f[p] = ahead[p]
        BY <1>4, <1>7, <3>1 DEF SInv, TypeOK
      <4>. QED BY <2>1, <2>2, <4>1
    <3>2. CASE p = r
      <4>1. stride'[r] = (stride[r] + Pass(r)) % (2 * SignBit)
        BY <1>2, <1>7 DEF SInv, TypeOK
      <4>2. PICK k \in Int : stride[r] = 0 + c + k * (2 * SignBit)
        BY <1>1, <1>2, <2>1
      <4>3. stride[r] \in Int /\ SignBit \in Nat \ {0} /\ Pass(r) \in Int
        BY <1>2, <1>3, StrideAssumption DEF SInv, TypeOK
      <4> DEFINE x == stride[r] + Pass(r)
                 n == 2 * SignBit
                 j == x \div n
      <4>4. x \in Int /\ n \in Nat \ {0}
        BY <4>3
      <4>. HIDE DEF x, n
      <4>5. j \in Int /\ x % n = x - j * n /\ j * n \in Int
        BY <4>4
      <4>. HIDE DEF j
      <4>6. k * n - j * n = (k - j) * n /\ k - j \in Int /\ (k - j) * n \in Int /\ k * n \in Int
        BY <4>4, <4>5
      <4>7. x = Pass(r) + c + k * n
        BY <4>2, <4>3, <4>6 DEF x, n
      <4>8. x % n = Pass(r) + c + (k - j) * n
        BY <4>3, <4>4, <4>5, <4>6, <4>7
      <4>9. stride'[r] = x % n /\ n = 2 * SignBit
        BY <4>1 DEF x, n
      <4>. QED BY <1>4, <3>2, <4>6, <4>8, <4>9
    <3>. QED BY <3>1, <3>2
  <2>. QED BY <2>2 DEF Tracked
<1>. QED BY <1>2, <1>3, <1>4, <1>5, <1>6, <1>7, <1>8

\* Each step keeps the invariant.
LEMMA SInvStep == SInv /\ [ShareNext]_sharevars => SInv'
<1>. SUFFICES ASSUME SInv, [ShareNext]_sharevars PROVE SInv'
  OBVIOUS
<1>1. TypeOK' /\ Heap(mem', pool', Queue', ahead)
  BY ShareHeap
<1>2. /\ Runnable \in SUBSET Procs /\ Close(ahead, Runnable)
      /\ ahead \in [Procs -> Int] /\ Tracked(ahead, stride)
      /\ BIG_STRIDE \in Nat /\ TooFar \in Int /\ TooFar < 0
  BY RunnableClose
<1>3. /\ status \in [Procs -> {"NONE", "RUNNABLE", "SLEEPING"}] /\ stride \in [Procs -> Int]
      /\ \A p \in Procs : status[p] = "NONE" => stride[p] = 0
  BY StrideAssumption DEF SInv, TypeOK
<1>4. ASSUME UNCHANGED << stride, status, ahead >> PROVE SInv'
  <2>1. Runnable' = Runnable
    BY <1>4 DEF Runnable
  <2>2. Heap(mem', pool', Queue', ahead')
    BY <1>1, <1>4
  <2>. QED BY <1>1, <1>4, <2>1, <2>2 DEF SInv, Tracked
<1>5. CASE ShareSchedule
  <2>1. ASSUME NEW r, NEW f, Dispatched(r, f) PROVE SInv'
    <3>1. /\ f \in [Procs -> Int] /\ Close(f, Runnable) /\ Tracked(f, stride')
          /\ \A q \in Procs \ {r} : f[q] = ahead[q]
          /\ status' = status /\ current' = r /\ r \in Procs
      BY <2>1, DispatchIs
    <3>2. Runnable = Runnable' /\ \A q \in Queue' : f[q] = ahead[q]
      BY <3>1 DEF Runnable, Queue
    <3>3. \A p \in Procs : status'[p] = "NONE" => stride'[p] = 0
      <4>1. status[r] = "RUNNABLE" /\ stride' = [stride EXCEPT ![r] = Advanced(r)]
        BY <2>1 DEF Dispatched, ScheduleTo, Runnable
      <4>. QED BY <1>3, <3>1, <4>1
    <3>4. ahead' = Above(f, Runnable)
      BY <2>1 DEF Dispatched
    <3>. QED BY <1>1, <1>2, <3>1, <3>2, <3>3, <3>4, SettledInv
  <2>. QED BY <1>4, <1>5, <2>1, SchedulePicks
<1>6. ASSUME NEW k \in Priorities, SetPriority(k) /\ UNCHANGED ahead PROVE SInv'
  BY <1>4, <1>6 DEF SetPriority
<1>7. ASSUME NEW p \in Procs, ShareFork(p) \/ ShareWakeup(p) PROVE SInv'
  <2>1. /\ Fork(p) \/ Wakeup(p)
        /\ Timely(p) /\ ahead' = Above(ahead, Runnable \cup {p})
    BY <1>7 DEF ShareFork, ShareWakeup
  <2>2. /\ Runnable \cup {p} = Runnable' /\ stride' = stride
        /\ \A q \in Procs : status'[q] = "NONE" => status[q] = "NONE"
    BY <2>1, JoinIs
  <2>3. Close(ahead, Runnable \cup {p}) /\ Runnable \cup {p} \in SUBSET Procs
    BY <1>2, <2>1, TimelyClose
  <2>4. Tracked(ahead, stride') /\ \A q \in Procs : status'[q] = "NONE" => stride'[q] = 0
    BY <1>2, <1>3, <2>2
  <2>. QED BY <1>1, <1>2, <2>1, <2>2, <2>3, <2>4, SettledInv
<1>8. CASE ShareSleep
  <2>1. /\ Sleep /\ current \in Procs /\ ahead' = Above(ahead, Runnable \ {current})
    BY <1>8 DEF ShareSleep, Sleep, Running, SInv, TypeOK
  <2>2. /\ Runnable \ {current} = Runnable' /\ stride' = stride
        /\ \A q \in Procs : status'[q] = "NONE" => stride'[q] = 0
    BY <1>3, <2>1 DEF Sleep, Runnable
  <2>3. Close(ahead, Runnable \ {current}) /\ Runnable \ {current} \in SUBSET Procs
    BY <1>2 DEF Close
  <2>4. Tracked(ahead, stride')
    BY <1>2, <2>2
  <2>. QED BY <1>1, <1>2, <2>1, <2>2, <2>3, <2>4, SettledInv
<1>9. CASE ShareExit
  <2> DEFINE f == [ahead EXCEPT ![current] = TooFar]
  <2>1. /\ Exit /\ current \in Procs /\ ahead' = Above(f, Runnable \ {current})
    BY <1>9 DEF ShareExit, Exit, Running, SInv, TypeOK
  <2>2. f \in [Procs -> Int] /\ f[current] = TooFar /\ \A q \in Procs \ {current} : f[q] = ahead[q]
    BY <1>2, <2>1
  <2>. HIDE DEF f
  <2>3. /\ Runnable \ {current} = Runnable' /\ stride' = [stride EXCEPT ![current] = 0]
        /\ current' = current
        /\ \A q \in Procs : status'[q] = "NONE" => stride'[q] = 0
    BY <1>3, <2>1 DEF Exit, Runnable
  <2>4. Close(f, Runnable \ {current}) /\ Runnable \ {current} \in SUBSET Procs
    BY <1>2, <2>2 DEF Close
  <2>5. \A q \in Queue' : f[q] = ahead[q]
    BY <1>2, <2>2, <2>3 DEF Queue
  <2>6. Tracked(f, stride')
    <3>1. PICK c \in Int : \A p \in Procs :
             ahead[p] # TooFar => \E k \in Int : stride[p] = ahead[p] + c + k * (2 * SignBit)
      BY <1>2 DEF Tracked
    <3>2. \A p \in Procs : f[p] # TooFar =>
             f[p] = ahead[p] /\ stride'[p] = stride[p]
      BY <1>3, <2>2, <2>3
    <3>. QED BY <3>1, <3>2 DEF Tracked
  <2>. QED BY <1>1, <1>2, <2>1, <2>2, <2>3, <2>4, <2>5, <2>6, SettledInv
<1>10. CASE UNCHANGED sharevars
  BY <1>4, <1>10 DEF sharevars, vars
<1>. QED BY <1>5, <1>6, <1>7, <1>8, <1>9, <1>10 DEF ShareNext

\* The invariant holds throughout.
LEMMA SInvHolds == ShareSpec => []SInv
BY SInvInit, SInvStep, PTL DEF ShareSpec

\* What ComparisonRight says.
LEMMA SInvCompares == SInv => ComparisonRight
BY RunnableClose, TrackedDifference DEF ComparisonRight

(***************************************************************************)
(* As long as nobody joins who is too far from another, the sign of the    *)
(* difference of two wrapped strides tells who is behind, whatever the     *)
(* processes, their priorities and the width (default_sched.c).            *)
(***************************************************************************)
THEOREM ComparisonCorrect == ShareSpec => []ComparisonRight
BY SInvHolds, SInvCompares, PTL

-----------------------------------------------------------------------------
(* The shares.                                                             *)

\* The numbers of FairShare.
Bar == [p \in Procs |-> IF p \in Runnable THEN ahead[p] ELSE 0]

\* The numbers g are those of f, counted from e, and what Settle allows.
Shifted(f, S, g, e) ==
    /\ f \in [Procs -> Int] /\ S \in SUBSET Procs /\ Close(f, S) /\ e \in Int
    /\ \A q \in S : g[q] = f[q] - e /\ g[q] \in -BIG_STRIDE..2 * BIG_STRIDE

\* Numbers above the least are those that FairShare settles for, whatever they
\* are counted from.
LEMMA AboveSettles ==
    ASSUME NEW f, NEW S, NEW g, NEW e, Shifted(f, S, g, e),
           S = Runnable', ahead' = Above(f, S)
    PROVE  \E n \in -BIG_STRIDE..2 * BIG_STRIDE :
              /\ S # {} => Fair!IsLeast(n, g, S)
              /\ Bar' = [q \in Procs |-> IF q \in S THEN g[q] - n ELSE 0]
<1>0. /\ f \in [Procs -> Int] /\ S \in SUBSET Procs /\ Close(f, S) /\ e \in Int
      /\ \A q \in S : g[q] = f[q] - e /\ g[q] \in -BIG_STRIDE..2 * BIG_STRIDE
  BY DEF Shifted
<1>1. PICK m \in Int :
         /\ S # {} => Fair!IsLeast(m, f, S)
         /\ S = {} => m = 0
         /\ \A p \in S : Above(f, S)[p] = f[p] - m
  BY <1>0, AboveIs
<1> DEFINE n == IF S = {} THEN 0 ELSE m - e
<1>2. n \in -BIG_STRIDE..2 * BIG_STRIDE /\ (S # {} => Fair!IsLeast(n, g, S))
  <2>1. CASE S = {}
    BY <2>1, StrideAssumption DEF BIG_STRIDE
  <2>2. CASE S # {}
    <3>1. PICK r \in S : f[r] = m
      BY <1>1, <2>2 DEF Fair!IsLeast
    <3>2. n = g[r]
      BY <1>0, <2>2, <3>1
    <3>3. ASSUME NEW q \in S PROVE n <= g[q]
      <4>1. m <= f[q] /\ g[q] = f[q] - e /\ f[q] \in Int
        BY <1>0, <1>1, <2>2 DEF Fair!IsLeast
      <4>. QED BY <1>0, <2>2, <4>1
    <3>. HIDE DEF n
    <3>. QED BY <1>0, <3>1, <3>2, <3>3 DEF Fair!IsLeast
  <2>. QED BY <2>1, <2>2
<1>3. ASSUME NEW q \in S PROVE ahead'[q] = g[q] - n
  <2>1. ahead'[q] = f[q] - m /\ g[q] = f[q] - e /\ f[q] \in Int
    BY <1>0, <1>1
  <2>. QED BY <1>0, <2>1
<1>. HIDE DEF n
<1>4. Bar' = [q \in Procs |-> IF q \in S THEN g[q] - n ELSE 0]
  BY <1>3 DEF Bar
<1>. QED BY <1>2, <1>4

\* The initial values are those of FairShare.
LEMMA FairInit == ShareInit => Fair!Init
<1>. SUFFICES ASSUME ShareInit PROVE Fair!Init
  OBVIOUS
<1>1. Runnable = {InitProc} /\ InitProc \in Procs /\ ahead = [p \in Procs |-> 0]
  BY StrideAssumption DEF ShareInit, Init, Runnable
<1>2. BIG_STRIDE \in Nat
  BY StrideAssumption DEF BIG_STRIDE
<1>3. [p \in Procs |-> IF p \in Runnable THEN ahead[p] ELSE 0] = [p \in Procs |-> 0]
  BY <1>1
<1>. QED BY <1>1, <1>2, <1>3 DEF Fair!Init

\* Each step is one of FairShare or leaves its variables alone.
LEMMA FairStep == SInv /\ [ShareNext]_sharevars => [Fair!Next]_Fair!vars
<1>. SUFFICES ASSUME SInv, [ShareNext]_sharevars PROVE [Fair!Next]_Fair!vars
  OBVIOUS
<1>1. /\ Runnable \in SUBSET Procs /\ Close(ahead, Runnable) /\ ahead \in [Procs -> Int]
      /\ BIG_STRIDE \in Nat
  BY RunnableClose
<1>2. \A p \in Runnable : ahead[p] \in 0..BIG_STRIDE
  BY DEF SInv
<1>3. Bar \in [Procs -> Int] /\ \A p \in Runnable : Bar[p] = ahead[p]
  BY <1>1 DEF Bar
<1>4. status \in [Procs -> {"NONE", "RUNNABLE", "SLEEPING"}]
  BY DEF SInv, TypeOK
<1>5. ASSUME UNCHANGED << stride, status, ahead >> PROVE UNCHANGED Fair!vars
  <2>1. Runnable' = Runnable
    BY <1>5 DEF Runnable
  <2>. QED BY <1>5, <2>1 DEF Fair!vars
<1>6. CASE ShareSchedule
  <2>1. ASSUME NEW r, NEW f, Dispatched(r, f) PROVE Fair!Next
    <3>1. /\ r \in Procs /\ f \in [Procs -> Int] /\ Pass(r) \in 0..BIG_STRIDE
          /\ f[r] = Pass(r) /\ \A q \in Procs \ {r} : f[q] = ahead[q]
          /\ \A q \in Runnable : f[q] \in 0..BIG_STRIDE
          /\ Close(f, Runnable) /\ status' = status
      BY <2>1, DispatchIs
    <3>2. r \in Runnable /\ ahead[r] = 0 /\ ahead' = Above(f, Runnable) /\ Runnable = Runnable'
      BY <2>1, <3>1 DEF Dispatched, Runnable
    <3>3. PICK g, S, pass : g = [Bar EXCEPT ![r] = @ + pass] /\ S = Runnable /\ pass = Pass(r)
      OBVIOUS
    <3>4. Shifted(f, S, g, 0)
      <4>1. ASSUME NEW q \in S PROVE g[q] = f[q] - 0 /\ g[q] \in -BIG_STRIDE..2 * BIG_STRIDE
        <5>1. g[q] = f[q] /\ f[q] \in 0..BIG_STRIDE
          BY <1>1, <1>3, <3>1, <3>2, <3>3
        <5>. QED BY <1>1, <5>1
      <4>. QED BY <1>1, <3>1, <3>3, <4>1 DEF Shifted
    <3>5. PICK n \in -BIG_STRIDE..2 * BIG_STRIDE :
             /\ S # {} => Fair!IsLeast(n, g, S)
             /\ Bar' = [q \in Procs |-> IF q \in S THEN g[q] - n ELSE 0]
      <4>1. S = Runnable' /\ ahead' = Above(f, S)
        BY <3>2, <3>3
      <4>. QED BY <3>4, <4>1, AboveSettles
    <3>6. r \in Runnable /\ Bar[r] = 0 /\ Runnable' = S /\ pass \in 0..BIG_STRIDE
      BY <1>3, <3>1, <3>2, <3>3
    <3>7. Fair!Pick(r)
      BY <3>3, <3>5, <3>6 DEF Fair!Pick, Fair!Settle, Bar
    <3>. QED BY <3>1, <3>7 DEF Fair!Next
  <2>. QED BY <1>5, <1>6, <2>1, SchedulePicks
<1>7. ASSUME NEW k \in Priorities, SetPriority(k) /\ UNCHANGED ahead PROVE UNCHANGED Fair!vars
  BY <1>5, <1>7 DEF SetPriority
<1>8. ASSUME NEW p \in Procs, ShareFork(p) \/ ShareWakeup(p) PROVE Fair!Next
  <2>1. /\ Fork(p) \/ Wakeup(p)
        /\ Timely(p) /\ ahead' = Above(ahead, Runnable \cup {p})
    BY <1>8 DEF ShareFork, ShareWakeup
  <2>2. Runnable \cup {p} = Runnable' /\ p \notin Runnable
    BY <2>1, JoinIs
  <2>3. Close(ahead, Runnable \cup {p}) /\ Runnable \cup {p} \in SUBSET Procs
    BY <1>1, <2>1, TimelyClose
  <2>d. PICK d, e, g, S :
           /\ d = IF Runnable = {} THEN 0 ELSE ahead[p]
           /\ e = ahead[p] - d
           /\ g = [Bar EXCEPT ![p] = d]
           /\ S = Runnable \cup {p}
    OBVIOUS
  <2>4. d \in -BIG_STRIDE..BIG_STRIDE /\ \A q \in Runnable : Bar[q] - d <= BIG_STRIDE
    <3>1. CASE Runnable = {}
      BY <1>1, <2>d, <3>1
    <3>2. CASE Runnable # {}
      <4>1. \A q \in Runnable : ahead[q] - ahead[p] \in -BIG_STRIDE..BIG_STRIDE
        BY <2>1 DEF Timely
      <4>2. PICK q \in Runnable : ahead[q] = 0
        BY <3>2 DEF SInv
      <4>3. 0 - ahead[p] \in -BIG_STRIDE..BIG_STRIDE /\ ahead[p] \in Int
        BY <1>1, <4>1, <4>2
      <4>4. d = ahead[p]
        BY <2>d, <3>2
      <4>. QED BY <1>1, <1>3, <4>1, <4>3, <4>4
    <3>. QED BY <3>1, <3>2
  <2>5. g[p] = d /\ \A q \in Runnable : g[q] = ahead[q]
    BY <1>1, <1>3, <2>2, <2>d
  <2>6. e \in Int /\ ahead[p] \in Int /\ d = ahead[p] - e /\ (Runnable # {} => e = 0)
    BY <1>1, <2>d
  <2>7. Shifted(ahead, S, g, e)
    <3>1. ASSUME NEW q \in S
          PROVE  g[q] = ahead[q] - e /\ g[q] \in -BIG_STRIDE..2 * BIG_STRIDE
      <4>1. CASE q = p
        BY <1>1, <2>4, <2>5, <2>6, <4>1
      <4>2. CASE q \in Runnable
        <5>1. g[q] = ahead[q] /\ e = 0 /\ ahead[q] \in 0..BIG_STRIDE
          BY <1>2, <2>5, <2>6, <4>2
        <5>. QED BY <1>1, <5>1
      <4>. QED BY <2>d, <4>1, <4>2
    <3>. QED BY <1>1, <2>3, <2>6, <2>d, <3>1 DEF Shifted
  <2>8. PICK f : f = ahead
    OBVIOUS
  <2>9. PICK n \in -BIG_STRIDE..2 * BIG_STRIDE :
           /\ S # {} => Fair!IsLeast(n, g, S)
           /\ Bar' = [q \in Procs |-> IF q \in S THEN g[q] - n ELSE 0]
    <3>1. Shifted(f, S, g, e) /\ S = Runnable' /\ ahead' = Above(f, S)
      BY <2>1, <2>2, <2>7, <2>8, <2>d
    <3>. QED BY <3>1, AboveSettles
  <2>10. Fair!Join(p)
    BY <2>2, <2>4, <2>9, <2>d DEF Fair!Join, Fair!Settle, Bar
  <2>. QED BY <2>10 DEF Fair!Next
<1>9. ASSUME NEW f \in [Procs -> Int], current \in Runnable, Runnable \ {current} = Runnable',
             \A q \in Runnable \ {current} : f[q] = ahead[q],
             ahead' = Above(f, Runnable \ {current})
      PROVE  Fair!Next
  <2>1. PICK c, S, g : c = current /\ S = Runnable \ {c} /\ g = Bar
    OBVIOUS
  <2>2. /\ S \in SUBSET Procs /\ S = Runnable' /\ ahead' = Above(f, S)
        /\ \A q \in S : f[q] = ahead[q]
    BY <1>1, <1>9, <2>1
  <2>3. Close(f, S)
    BY <1>1, <2>1, <2>2 DEF Close
  <2>4. ASSUME NEW q \in S PROVE g[q] = f[q] - 0 /\ g[q] \in -BIG_STRIDE..2 * BIG_STRIDE
    <3>1. g[q] = f[q] /\ g[q] \in 0..BIG_STRIDE
      BY <1>2, <1>3, <2>1, <2>2
    <3>. QED BY <1>1, <3>1
  <2>5. Shifted(f, S, g, 0)
    BY <2>2, <2>3, <2>4 DEF Shifted
  <2>6. PICK n \in -BIG_STRIDE..2 * BIG_STRIDE :
           /\ S # {} => Fair!IsLeast(n, g, S)
           /\ Bar' = [q \in Procs |-> IF q \in S THEN g[q] - n ELSE 0]
    BY <2>2, <2>5, AboveSettles
  <2>7. c \in Runnable /\ c \in Procs
    BY <1>1, <1>9, <2>1
  <2>8. Fair!Leave(c)
    BY <2>1, <2>2, <2>6, <2>7 DEF Fair!Leave, Fair!Settle, Bar
  <2>. QED BY <2>7, <2>8 DEF Fair!Next
<1>10. CASE ShareSleep
  <2>1. current \in Runnable /\ status' = [status EXCEPT ![current] = "SLEEPING"]
    BY <1>10 DEF ShareSleep, Sleep, Running, SInv, TypeOK, Runnable
  <2>2. Runnable \ {current} = Runnable'
    BY <1>4, <2>1 DEF Runnable
  <2>3. ahead' = Above(ahead, Runnable \ {current})
    BY <1>10 DEF ShareSleep
  <2>. QED BY <1>1, <1>9, <2>1, <2>2, <2>3
<1>11. CASE ShareExit
  <2> DEFINE f == [ahead EXCEPT ![current] = TooFar]
  <2>1. current \in Runnable /\ status' = [status EXCEPT ![current] = "NONE"]
    BY <1>11 DEF ShareExit, Exit, Running, SInv, TypeOK, Runnable
  <2>2. Runnable \ {current} = Runnable'
    BY <1>4, <2>1 DEF Runnable
  <2>3. ahead' = Above(f, Runnable \ {current})
    BY <1>11 DEF ShareExit
  <2>4. f \in [Procs -> Int] /\ \A q \in Runnable \ {current} : f[q] = ahead[q]
    BY <1>1, RunnableClose
  <2>. HIDE DEF f
  <2>. QED BY <1>9, <2>1, <2>2, <2>3, <2>4
<1>12. CASE UNCHANGED sharevars
  BY <1>5, <1>12 DEF sharevars, vars
<1>. QED BY <1>6, <1>7, <1>8, <1>10, <1>11, <1>12 DEF ShareNext

(***************************************************************************)
(* As long as nobody joins who is too far from another, stride_pick_next   *)
(* picks whoever has got least of the CPU: the wrapped strides, the skew   *)
(* heap and the wakeups implement FairShare.                               *)
(***************************************************************************)
THEOREM SharesKept == ShareSpec => KeepsShares
<1>1. ShareSpec => []SInv
  BY SInvHolds
<1>2. ShareInit => Fair!Init
  BY FairInit
<1>3. SInv /\ [ShareNext]_sharevars => [Fair!Next]_Fair!vars
  BY FairStep
<1>. QED BY <1>1, <1>2, <1>3, PTL DEF ShareSpec, KeepsShares, Fair!Spec

\* FairShare keeps the shares: ShareKept is inductive once the values are known
\* to be those above the least, which no process is below.
FairInRange ==
    /\ BIG_STRIDE \in Nat
    /\ Runnable \subseteq Procs
    /\ Bar \in [Procs -> 0..BIG_STRIDE]

\* No two values of the processes S are too far apart.
Within(f, S) ==
    /\ BIG_STRIDE \in Nat /\ S \in SUBSET Procs
    /\ \A q, r \in S : f[q] \in Int /\ f[q] - f[r] <= BIG_STRIDE

\* Settling then restores the range: b is the new Bar.
LEMMA SettleInRange ==
    ASSUME NEW f, NEW S, Within(f, S), NEW m \in -BIG_STRIDE..2 * BIG_STRIDE, NEW b,
           S # {} => Fair!IsLeast(m, f, S),
           b = [q \in Procs |-> IF q \in S THEN f[q] - m ELSE 0]
    PROVE  S \subseteq Procs /\ b \in [Procs -> 0..BIG_STRIDE]
<1>1. ASSUME NEW q \in S PROVE f[q] - m \in 0..BIG_STRIDE
  <2>1. PICK r \in S : f[r] = m
    BY <1>1 DEF Fair!IsLeast
  <2>2. m <= f[q] /\ f[q] - f[r] <= BIG_STRIDE /\ f[q] \in Int /\ BIG_STRIDE \in Nat
    BY <1>1 DEF Fair!IsLeast, Within
  <2>. QED BY <2>1, <2>2
<1>2. BIG_STRIDE \in Nat /\ S \subseteq Procs
  BY DEF Within
<1>3. \A q \in Procs : (IF q \in S THEN f[q] - m ELSE 0) \in 0..BIG_STRIDE
  BY <1>1, <1>2
<1>. QED BY <1>2, <1>3

\* Two values of the range differ by at most BIG_STRIDE.
LEMMA RangeClose ==
    ASSUME FairInRange, NEW p \in Runnable, NEW q \in Runnable
    PROVE  Bar[p] \in Int /\ Bar[p] - Bar[q] <= BIG_STRIDE
<1>1. Bar[p] \in 0..BIG_STRIDE /\ Bar[q] \in 0..BIG_STRIDE
  BY DEF FairInRange
<1>. QED BY <1>1 DEF FairInRange

\* Whoever joins, leaves or is picked, all values stay between 0 and BIG_STRIDE.
LEMMA FairInRangeStep == FairInRange /\ [Fair!Next]_Fair!vars => FairInRange'
<1> SUFFICES ASSUME FairInRange, [Fair!Next]_Fair!vars PROVE FairInRange'
  OBVIOUS
<1>b. BIG_STRIDE \in Nat /\ Runnable \subseteq Procs
  BY DEF FairInRange
<1>1. ASSUME NEW p \in Procs, Fair!Join(p) PROVE FairInRange'
  <2>1. PICK d \in -BIG_STRIDE..BIG_STRIDE :
           /\ \A q \in Runnable : Bar[q] - d <= BIG_STRIDE
           /\ Fair!Settle(Runnable \cup {p}, [Bar EXCEPT ![p] = d])
    BY <1>1 DEF Fair!Join, Bar
  <2>2. PICK f, S, b : f = [Bar EXCEPT ![p] = d] /\ S = Runnable \cup {p} /\ b = Bar'
    OBVIOUS
  <2>3. f[p] = d /\ \A q \in Runnable : f[q] = Bar[q] /\ Bar[q] \in 0..BIG_STRIDE
    BY <1>1, <1>b, <2>2 DEF FairInRange, Fair!Join
  <2>4. PICK m \in -BIG_STRIDE..2 * BIG_STRIDE :
           /\ S # {} => Fair!IsLeast(m, f, S)
           /\ Bar' = [q \in Procs |-> IF q \in S THEN f[q] - m ELSE 0]
           /\ Runnable' = S
    BY <2>1, <2>2 DEF Fair!Settle, Bar
  <2>5. ASSUME NEW q \in S, NEW r \in S
        PROVE  f[q] \in Int /\ f[q] - f[r] <= BIG_STRIDE
    <3>1. \A x \in Runnable : f[x] \in 0..BIG_STRIDE /\ f[x] - d <= BIG_STRIDE
      BY <2>1, <2>3
    <3>2. q \in Runnable \/ f[q] = d
      BY <2>2, <2>3
    <3>3. r \in Runnable \/ f[r] = d
      BY <2>2, <2>3
    <3>. QED BY <1>b, <3>1, <3>2, <3>3
  <2>6. Within(f, S)
    BY <1>b, <2>2, <2>5 DEF Within
  <2>. QED
    <3>1. /\ S # {} => Fair!IsLeast(m, f, S)
          /\ b = [q \in Procs |-> IF q \in S THEN f[q] - m ELSE 0]
          /\ Runnable' = S /\ Bar' = b /\ BIG_STRIDE' = BIG_STRIDE
      BY <2>2, <2>4 DEF BIG_STRIDE
    <3>2. S \subseteq Procs /\ b \in [Procs -> 0..BIG_STRIDE]
      BY <2>6, <3>1, SettleInRange
    <3>. QED BY <1>b, <3>1, <3>2 DEF FairInRange
<1>2. ASSUME NEW p \in Procs, Fair!Leave(p) PROVE FairInRange'
  <2>1. PICK f, S, b : f = Bar /\ S = Runnable \ {p} /\ b = Bar'
    OBVIOUS
  <2>2. PICK m \in -BIG_STRIDE..2 * BIG_STRIDE :
           /\ S # {} => Fair!IsLeast(m, f, S)
           /\ Bar' = [q \in Procs |-> IF q \in S THEN f[q] - m ELSE 0]
           /\ Runnable' = S
    BY <1>2, <2>1 DEF Fair!Leave, Fair!Settle, Bar
  <2>3. Within(f, S)
    BY <1>b, <2>1, RangeClose DEF Within
  <2>. QED
    <3>1. /\ S # {} => Fair!IsLeast(m, f, S)
          /\ b = [q \in Procs |-> IF q \in S THEN f[q] - m ELSE 0]
          /\ Runnable' = S /\ Bar' = b /\ BIG_STRIDE' = BIG_STRIDE
      BY <2>1, <2>2 DEF BIG_STRIDE
    <3>2. S \subseteq Procs /\ b \in [Procs -> 0..BIG_STRIDE]
      BY <2>3, <3>1, SettleInRange
    <3>. QED BY <1>b, <3>1, <3>2 DEF FairInRange
<1>3. ASSUME NEW p \in Procs, Fair!Pick(p) PROVE FairInRange'
  <2>1. PICK pass \in 0..BIG_STRIDE : Fair!Settle(Runnable, [Bar EXCEPT ![p] = @ + pass])
    BY <1>3 DEF Fair!Pick, Bar
  <2>2. PICK f, S, b : f = [Bar EXCEPT ![p] = @ + pass] /\ S = Runnable /\ b = Bar'
    OBVIOUS
  <2>3. ASSUME NEW q \in S PROVE f[q] \in 0..BIG_STRIDE
    <3>1. Bar[p] = 0 /\ Bar[q] \in 0..BIG_STRIDE
      BY <1>3, <2>2 DEF FairInRange, Fair!Pick, Bar
    <3>2. f[q] = IF q = p THEN 0 + pass ELSE Bar[q]
      BY <3>1, <2>2, <1>b DEF FairInRange
    <3>. QED BY <3>1, <3>2
  <2>4. PICK m \in -BIG_STRIDE..2 * BIG_STRIDE :
           /\ S # {} => Fair!IsLeast(m, f, S)
           /\ Bar' = [q \in Procs |-> IF q \in S THEN f[q] - m ELSE 0]
           /\ Runnable' = S
    BY <2>1, <2>2 DEF Fair!Settle, Bar
  <2>5. ASSUME NEW q \in S, NEW r \in S PROVE f[q] \in Int /\ f[q] - f[r] <= BIG_STRIDE
    <3>1. f[q] \in 0..BIG_STRIDE /\ f[r] \in 0..BIG_STRIDE
      BY <2>3
    <3>. QED BY <1>b, <3>1
  <2>6. Within(f, S)
    BY <1>b, <2>2, <2>5 DEF Within
  <2>. QED
    <3>1. /\ S # {} => Fair!IsLeast(m, f, S)
          /\ b = [q \in Procs |-> IF q \in S THEN f[q] - m ELSE 0]
          /\ Runnable' = S /\ Bar' = b /\ BIG_STRIDE' = BIG_STRIDE
      BY <2>2, <2>4 DEF BIG_STRIDE
    <3>2. S \subseteq Procs /\ b \in [Procs -> 0..BIG_STRIDE]
      BY <2>6, <3>1, SettleInRange
    <3>. QED BY <1>b, <3>1, <3>2 DEF FairInRange
<1>4. CASE UNCHANGED Fair!vars
  BY <1>4 DEF FairInRange, Fair!vars, Bar
<1>. QED BY <1>1, <1>2, <1>3, <1>4 DEF Fair!Next

(***************************************************************************)
(* Over any time a process gets its share of the CPU but for one turn: no  *)
(* two runnable processes are ever further apart than the greatest pass.   *)
(* FairShare promises it, and stride_pick_next keeps it as long as nobody  *)
(* joins from too far (default_sched.c).                                   *)
(***************************************************************************)
THEOREM ShareCorrect ==
    /\ Fair!Spec => []Fair!ShareKept
    /\ ShareSpec => []Fair!ShareKept
<1>1. Fair!Init => FairInRange
  BY DEF Fair!Init, FairInRange, Bar
<1>2. FairInRange => Fair!ShareKept
  BY RangeClose DEF Fair!ShareKept, Bar
<1>3. Fair!Spec => []Fair!ShareKept
  BY <1>1, <1>2, FairInRangeStep, PTL DEF Fair!Spec
<1>4. ShareSpec => Fair!Spec
  BY SharesKept DEF KeepsShares
<1>. QED BY <1>3, <1>4, PTL
=============================================================================
