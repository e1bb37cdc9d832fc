---------------------------- MODULE TimerListProofs ----------------------------
(***************************************************************************)
(* The timer list wakes every sleeper at the tick it asked for, whatever   *)
(* the number of processes and the times they ask for.                     *)
(***************************************************************************)
EXTENDS TimerList, FiniteSetTheorems, SequenceTheorems, TLAPS

-----------------------------------------------------------------------------
(* Induction, and the sums of a list of numbers.                           *)

\* A set of natural numbers that is not empty has a least element.
LEMMA NatLeast ==
    ASSUME NEW T, T \subseteq Nat, T # {}
    PROVE  \E x \in T : \A y \in T : x <= y
<1> DEFINE R == OpToRel(<, Nat)
<1>1. IsWellFoundedOn(R, Nat)
  BY NatLessThanWellFounded
<1>2. \A x, y \in Nat : << y, x >> \in R <=> y < x
  BY DEF OpToRel
<1> HIDE DEF R
<1>3. PICK x \in T : \A y \in T : ~ (<< y, x >> \in R)
  BY <1>1, WFMin
<1>4. ASSUME NEW y \in T PROVE x <= y
  <2>1. x \in Nat /\ y \in Nat /\ ~ (y < x)
    BY <1>2, <1>3
  <2>. QED BY <2>1
<1>. QED BY <1>4

\* A set that holds 0, and with a number the next, holds all natural numbers.
LEMMA SetInduction ==
    ASSUME NEW S, 0 \in S, \A n \in Nat : n \in S => n + 1 \in S
    PROVE  Nat \subseteq S
<1> DEFINE T == Nat \ S
<1>1. CASE T = {}
  BY <1>1
<1>2. CASE T # {}
  <2>1. PICK x \in T : \A y \in T : x <= y
    BY <1>2, NatLeast
  <2>2. x # 0 /\ x - 1 \in Nat /\ x - 1 \notin T
    BY <2>1
  <2>. QED BY <2>2, <2>1
<1>. QED BY <1>1, <1>2

\* f gives the sums of the first numbers of e.
IsSums(f, e, n) ==
    /\ f = [i \in 0..n |-> f[i]]
    /\ f[0] = 0
    /\ \A i \in 1..n : f[i] = f[i - 1] + e[i]

\* There are such sums.
LEMMA SumsExist ==
    ASSUME NEW n \in Nat, NEW e \in [1..n -> Int]
    PROVE  \E f \in [0..n -> Int] : IsSums(f, e, n)
<1> DEFINE S == {m \in Nat : m <= n => \E f \in [0..m -> Int] : IsSums(f, e, m)}
<1>1. 0 \in S
  <2>1. IsSums([i \in 0..0 |-> 0], e, 0)
    BY DEF IsSums
  <2>. QED BY <2>1
<1>2. ASSUME NEW m \in Nat, m \in S PROVE m + 1 \in S
  <2>. SUFFICES ASSUME m + 1 <= n PROVE \E f \in [0..m + 1 -> Int] : IsSums(f, e, m + 1)
    OBVIOUS
  <2>1. PICK f \in [0..m -> Int] : IsSums(f, e, m)
    BY <1>2
  <2> DEFINE g == [i \in 0..m + 1 |-> IF i <= m THEN f[i] ELSE f[m] + e[m + 1]]
  <2>2. f[m] \in Int /\ e[m + 1] \in Int
    BY <2>1
  <2>3. g \in [0..m + 1 -> Int] /\ g[0] = 0
    BY <2>1, <2>2 DEF IsSums
  <2>4. ASSUME NEW i \in 1..m + 1 PROVE g[i] = g[i - 1] + e[i]
    <3>1. CASE i <= m
      <4>1. i \in 1..m /\ i - 1 \in 0..m + 1 /\ i - 1 <= m /\ i \in 0..m + 1
        BY <3>1
      <4>2. f[i] = f[i - 1] + e[i]
        BY <2>1, <4>1 DEF IsSums
      <4>. QED BY <4>1, <4>2
    <3>2. CASE i = m + 1
      BY <2>1, <3>2 DEF IsSums
    <3>. QED BY <3>1, <3>2
  <2>5. IsSums(g, e, m + 1)
    <3>. HIDE DEF g
    <3>. QED BY <2>3, <2>4 DEF IsSums
  <2>. QED BY <2>3, <2>5
<1>3. Nat \subseteq S
  <2>. HIDE DEF S
  <2>. QED BY <1>1, <1>2, SetInduction
<1>. QED BY <1>3

\* And no others.
LEMMA SumsUnique ==
    ASSUME NEW n \in Nat, NEW e, NEW f, NEW g, IsSums(f, e, n), IsSums(g, e, n)
    PROVE  f = g
<1> DEFINE S == {m \in Nat : m <= n => f[m] = g[m]}
<1>1. 0 \in S
  BY DEF IsSums
<1>2. ASSUME NEW m \in Nat, m \in S PROVE m + 1 \in S
  <2>. SUFFICES ASSUME m + 1 <= n PROVE f[m + 1] = g[m + 1]
    OBVIOUS
  <2>1. f[m] = g[m]
    BY <1>2
  <2>2. m + 1 \in 1..n /\ (m + 1) - 1 = m
    OBVIOUS
  <2>3. f[m + 1] = f[m] + e[m + 1]
    BY <2>2 DEF IsSums
  <2>4. g[m + 1] = g[m] + e[m + 1]
    BY <2>2 DEF IsSums
  <2>. QED BY <2>1, <2>3, <2>4
<1>3. Nat \subseteq S
  <2>. HIDE DEF S
  <2>. QED BY <1>1, <1>2, SetInduction
<1>4. \A m \in 0..n : f[m] = g[m]
  BY <1>3
<1>. QED BY <1>4 DEF IsSums

-----------------------------------------------------------------------------
(* When the timers of a list are due.                                      *)

Timer == [proc : Procs, expires : Int]

\* What a timer has left.
Left(list) == [i \in 1..Len(list) |-> list[i].expires]

\* What the timers have left are numbers.
LEMMA LeftType ==
    ASSUME NEW list \in Seq(Timer)
    PROVE  /\ Len(list) \in Nat /\ Left(list) \in [1..Len(list) -> Int]
           /\ \A i \in 1..Len(list) : list[i] \in Timer /\ Left(list)[i] = list[i].expires
<1>1. Len(list) \in Nat /\ \A i \in 1..Len(list) : list[i] \in Timer
  OBVIOUS
<1>2. \A i \in 1..Len(list) : list[i].expires \in Int
  BY <1>1 DEF Timer
<1>. QED BY <1>1, <1>2 DEF Left

\* What the list holds.
LEMMA ListType ==
    ASSUME NEW list \in Seq(Timer)
    PROVE  /\ Len(list) \in Nat /\ DOMAIN list = 1..Len(list)
           /\ \A k \in 1..Len(list) :
                 list[k] \in Timer /\ list[k].proc \in Procs /\ list[k].expires \in Int
<1>1. Len(list) \in Nat /\ DOMAIN list = 1..Len(list)
  OBVIOUS
<1>2. \A k \in 1..Len(list) : list[k] \in Timer
  BY <1>1
<1>3. \A t \in Timer : t.proc \in Procs /\ t.expires \in Int
  BY DEF Timer
<1>. QED BY <1>1, <1>2, <1>3

\* Due gives the sums.
LEMMA DueIsSums ==
    ASSUME NEW list \in Seq(Timer)
    PROVE  \E f \in [0..Len(list) -> Int] :
              IsSums(f, Left(list), Len(list)) /\ \A k : Due(list, k) = f[k]
<1> DEFINE D(f) == [i \in 0..Len(list) |-> IF i = 0 THEN 0 ELSE f[i - 1] + list[i].expires]
           due == CHOOSE f : f = D(f)
<1>1. Len(list) \in Nat /\ \A i \in 1..Len(list) : Left(list)[i] = list[i].expires
  BY LeftType
<1>2. PICK f \in [0..Len(list) -> Int] : IsSums(f, Left(list), Len(list))
  BY LeftType, SumsExist
<1>3. f = D(f)
  <2>1. f = [i \in 0..Len(list) |-> f[i]]
    BY <1>2
  <2>2. \A i \in 0..Len(list) : f[i] = IF i = 0 THEN 0 ELSE f[i - 1] + list[i].expires
    <3>1. \A i \in 0..Len(list) : i # 0 => i \in 1..Len(list)
      BY <1>1
    <3>2. f[0] = 0 /\ \A i \in 1..Len(list) : f[i] = f[i - 1] + list[i].expires
      BY <1>1, <1>2 DEF IsSums
    <3>. QED BY <3>1, <3>2
  <2>. QED BY <2>1, <2>2
<1>4. due = D(due)
  <2>. HIDE DEF D
  <2>. QED BY <1>3
<1>5. \A k : Due(list, k) = due[k]
  BY DEF Due
<1>. HIDE DEF due
<1>6. IsSums(due, Left(list), Len(list))
  <2>1. \A i \in 0..Len(list) : due[i] = IF i = 0 THEN 0 ELSE due[i - 1] + list[i].expires
    BY <1>4
  <2>2. due = [i \in 0..Len(list) |-> due[i]]
    BY <1>4, <2>1
  <2>3. due[0] = 0
    BY <1>1, <2>1
  <2>4. \A i \in 1..Len(list) : i \in 0..Len(list) /\ i # 0
    BY <1>1
  <2>5. \A i \in 1..Len(list) : due[i] = due[i - 1] + Left(list)[i]
    BY <1>1, <2>1, <2>4
  <2>. QED BY <2>2, <2>3, <2>5 DEF IsSums
<1>7. due = f
  BY <1>1, <1>2, <1>6, SumsUnique
<1>. QED BY <1>2, <1>5, <1>7

\* When the timers of a list are due, one after the other.
LEMMA DueIs ==
    ASSUME NEW list \in Seq(Timer)
    PROVE  /\ Due(list, 0) = 0
           /\ \A k \in 1..Len(list) : Due(list, k) = Due(list, k - 1) + list[k].expires
           /\ \A k \in 0..Len(list) : Due(list, k) \in Int
<1>1. PICK f \in [0..Len(list) -> Int] :
        IsSums(f, Left(list), Len(list)) /\ \A k : Due(list, k) = f[k]
  BY DueIsSums
<1>2. /\ Len(list) \in Nat
      /\ \A k \in 1..Len(list) : Left(list)[k] = list[k].expires
  BY LeftType
<1>3. f[0] = 0 /\ \A k \in 1..Len(list) : f[k] = f[k - 1] + Left(list)[k]
  BY <1>1 DEF IsSums
<1>4. \A k \in 0..Len(list) : f[k] \in Int
  BY <1>1
<1>5. \A k : Due(list, k) = f[k]
  BY <1>1
<1>. QED BY <1>2, <1>3, <1>4, <1>5

\* Whatever adds up in the same way is what Due gives.
LEMMA DueUnique ==
    ASSUME NEW list \in Seq(Timer), NEW f, f = [i \in 0..Len(list) |-> f[i]], f[0] = 0,
           \A k \in 1..Len(list) : f[k] = f[k - 1] + list[k].expires
    PROVE  \A k \in 0..Len(list) : Due(list, k) = f[k]
<1>1. PICK g \in [0..Len(list) -> Int] :
        IsSums(g, Left(list), Len(list)) /\ \A k : Due(list, k) = g[k]
  BY DueIsSums
<1>2. IsSums(f, Left(list), Len(list))
  BY LeftType DEF IsSums
<1>3. f = g
  BY <1>1, <1>2, LeftType, SumsUnique
<1>. QED BY <1>1, <1>3

-----------------------------------------------------------------------------
(* Linking and unlinking a timer.                                          *)

\* A list with an element more, at position i.
LEMMA InsertIs ==
    ASSUME NEW S, NEW list \in Seq(S), NEW i \in 1..Len(list) + 1, NEW e \in S
    PROVE  /\ InsertAt(list, i, e) \in Seq(S)
           /\ Len(InsertAt(list, i, e)) = Len(list) + 1
           /\ \A j \in 1..Len(list) + 1 : InsertAt(list, i, e)[j] =
                 IF j < i THEN list[j] ELSE IF j = i THEN e ELSE list[j - 1]
<1> DEFINE a == SubSeq(list, 1, i - 1)
           b == SubSeq(list, i, Len(list))
           c == a \o << e >>
<1>0. Len(list) \in Nat /\ \A j \in 1..Len(list) : list[j] \in S
  OBVIOUS
<1>1. /\ a \in Seq(S) /\ Len(a) = i - 1
      /\ \A j \in 1..i - 1 : a[j] = list[j]
  <2>1. \A j \in 1..i - 1 : list[j] \in S
    BY <1>0
  <2>2. /\ a \in Seq(S) /\ Len(a) = IF 1 <= i - 1 THEN (i - 1) - 1 + 1 ELSE 0
        /\ \A j \in 1..(i - 1) - 1 + 1 : a[j] = list[1 + j - 1]
    BY <2>1, SubSeqProperties
  <2>. HIDE DEF a
  <2>3. Len(a) = i - 1
    BY <2>2
  <2>4. \A j \in 1..i - 1 : j \in 1..(i - 1) - 1 + 1 /\ 1 + j - 1 = j
    OBVIOUS
  <2>5. \A j \in 1..i - 1 : a[j] = list[j]
    BY <2>2, <2>4
  <2>. QED BY <2>2, <2>3, <2>5
<1>2. /\ b \in Seq(S) /\ Len(b) = Len(list) - i + 1
      /\ \A j \in 1..Len(list) - i + 1 : b[j] = list[i + j - 1]
  <2>1. \A j \in i..Len(list) : list[j] \in S
    BY <1>0
  <2>2. /\ b \in Seq(S) /\ Len(b) = IF i <= Len(list) THEN Len(list) - i + 1 ELSE 0
        /\ \A j \in 1..Len(list) - i + 1 : b[j] = list[i + j - 1]
    BY <1>0, <2>1, SubSeqProperties
  <2>. HIDE DEF b
  <2>. QED BY <2>2
<1>3. << e >> \in Seq(S) /\ Len(<< e >>) = 1 /\ << e >>[1] = e
  OBVIOUS
<1>. HIDE DEF a, b
<1>4. /\ c \in Seq(S) /\ Len(c) = i
      /\ \A j \in 1..i : c[j] = IF j < i THEN list[j] ELSE e
  <2>1. /\ c \in Seq(S) /\ Len(c) = Len(a) + 1
        /\ \A j \in 1..Len(a) + 1 : c[j] = IF j <= Len(a) THEN a[j] ELSE << e >>[j - Len(a)]
    BY <1>1, <1>3, ConcatProperties
  <2>. HIDE DEF c
  <2>2. ASSUME NEW j \in 1..i PROVE c[j] = IF j < i THEN list[j] ELSE e
    BY <1>1, <1>3, <2>1
  <2>. QED BY <1>1, <2>1, <2>2
<1>. HIDE DEF c
<1>5. /\ c \o b \in Seq(S) /\ Len(c \o b) = Len(c) + Len(b)
      /\ \A j \in 1..Len(c) + Len(b) : (c \o b)[j] = IF j <= Len(c) THEN c[j] ELSE b[j - Len(c)]
  BY <1>2, <1>4, ConcatProperties
<1>6. InsertAt(list, i, e) = c \o b
  BY DEF InsertAt, a, b, c
<1>7. ASSUME NEW j \in 1..Len(list) + 1
      PROVE  (c \o b)[j] = IF j < i THEN list[j] ELSE IF j = i THEN e ELSE list[j - 1]
  <2>1. CASE j <= i
    BY <1>2, <1>4, <1>5, <2>1
  <2>2. CASE j > i
    <3>1. (c \o b)[j] = b[j - i]
      BY <1>2, <1>4, <1>5, <2>2
    <3>2. b[j - i] = list[i + (j - i) - 1]
      BY <1>0, <1>2, <2>2
    <3>. QED BY <2>2, <3>1, <3>2
  <2>3. j <= i \/ j > i
    BY <1>0
  <2>. QED BY <2>1, <2>2, <2>3
<1>. QED BY <1>0, <1>2, <1>4, <1>5, <1>6, <1>7

\* A list without the element at position i.
LEMMA RemoveIs ==
    ASSUME NEW S, NEW list \in Seq(S), NEW i \in 1..Len(list)
    PROVE  /\ RemoveAt(list, i) \in Seq(S)
           /\ Len(RemoveAt(list, i)) = Len(list) - 1
           /\ \A j \in 1..Len(list) - 1 :
                 RemoveAt(list, i)[j] = IF j < i THEN list[j] ELSE list[j + 1]
<1> DEFINE a == SubSeq(list, 1, i - 1)
           b == SubSeq(list, i + 1, Len(list))
<1>0. Len(list) \in Nat /\ \A j \in 1..Len(list) : list[j] \in S
  OBVIOUS
<1>1. /\ a \in Seq(S) /\ Len(a) = i - 1
      /\ \A j \in 1..i - 1 : a[j] = list[j]
  <2>1. \A j \in 1..i - 1 : list[j] \in S
    BY <1>0
  <2>2. /\ a \in Seq(S) /\ Len(a) = IF 1 <= i - 1 THEN (i - 1) - 1 + 1 ELSE 0
        /\ \A j \in 1..(i - 1) - 1 + 1 : a[j] = list[1 + j - 1]
    BY <2>1, SubSeqProperties
  <2>. HIDE DEF a
  <2>3. Len(a) = i - 1
    BY <2>2
  <2>4. \A j \in 1..i - 1 : j \in 1..(i - 1) - 1 + 1 /\ 1 + j - 1 = j
    OBVIOUS
  <2>5. \A j \in 1..i - 1 : a[j] = list[j]
    BY <2>2, <2>4
  <2>. QED BY <2>2, <2>3, <2>5
<1>2. /\ b \in Seq(S) /\ Len(b) = Len(list) - i
      /\ \A j \in 1..Len(list) - i : b[j] = list[i + j]
  <2>1. \A j \in i + 1..Len(list) : list[j] \in S
    BY <1>0
  <2>2. /\ b \in Seq(S)
        /\ Len(b) = IF i + 1 <= Len(list) THEN Len(list) - (i + 1) + 1 ELSE 0
        /\ \A j \in 1..Len(list) - (i + 1) + 1 : b[j] = list[(i + 1) + j - 1]
    BY <1>0, <2>1, SubSeqProperties
  <2>. HIDE DEF b
  <2>. QED BY <1>0, <2>2
<1>. HIDE DEF a, b
<1>3. /\ a \o b \in Seq(S) /\ Len(a \o b) = Len(a) + Len(b)
      /\ \A j \in 1..Len(a) + Len(b) : (a \o b)[j] = IF j <= Len(a) THEN a[j] ELSE b[j - Len(a)]
  BY <1>1, <1>2, ConcatProperties
<1>4. RemoveAt(list, i) = a \o b
  BY DEF RemoveAt, a, b
<1>5. ASSUME NEW j \in 1..Len(list) - 1
      PROVE  (a \o b)[j] = IF j < i THEN list[j] ELSE list[j + 1]
  <2>1. CASE j < i
    BY <1>1, <1>2, <1>3, <2>1
  <2>2. CASE j >= i
    <3>1. (a \o b)[j] = b[j - (i - 1)]
      BY <1>1, <1>2, <1>3, <2>2
    <3>2. j - (i - 1) \in 1..Len(list) - i
      BY <1>0, <2>2
    <3>3. b[j - (i - 1)] = list[i + (j - (i - 1))]
      BY <1>2, <3>2
    <3>. QED BY <2>2, <3>1, <3>3
  <2>3. j < i \/ j >= i
    BY <1>0
  <2>. QED BY <2>1, <2>2, <2>3
<1>6. \A j \in 1..Len(list) - 1 :
        (a \o b)[j] = IF j < i THEN list[j] ELSE list[j + 1]
  BY <1>5
<1>. QED BY <1>0, <1>1, <1>2, <1>3, <1>4, <1>6

-----------------------------------------------------------------------------
(* What the operations do with the times.                                  *)

\* A list in order: no time is negative, the head has time left, and no
\* process is in it twice.
InOrder(list) ==
    /\ list \in Seq(Timer)
    /\ \A i \in 1..Len(list) : list[i].expires >= 0
    /\ Len(list) > 0 => list[1].expires > 0
    /\ \A i, j \in 1..Len(list) : list[i].proc = list[j].proc => i = j

\* No timer is due before the one in front of it.
LEMMA DueGrows ==
    ASSUME NEW list, InOrder(list), NEW i \in 0..Len(list), NEW j \in i..Len(list)
    PROVE  Due(list, i) <= Due(list, j)
<1> DEFINE S == {m \in Nat : i + m <= Len(list) => Due(list, i) <= Due(list, i + m)}
<1>0. list \in Seq(Timer) /\ Len(list) \in Nat
  BY DEF InOrder
<1>1. \A k \in 0..Len(list) : Due(list, k) \in Int
  BY <1>0, DueIs
<1>2. 0 \in S
  BY <1>1
<1>3. ASSUME NEW m \in Nat, m \in S PROVE m + 1 \in S
  <2>. SUFFICES ASSUME i + (m + 1) <= Len(list) PROVE Due(list, i) <= Due(list, i + (m + 1))
    OBVIOUS
  <2>1. i + m + 1 \in 1..Len(list) /\ i + m \in 0..Len(list)
    BY <1>0
  <2>5. \A k \in 1..Len(list) : Due(list, k) = Due(list, k - 1) + list[k].expires
    BY <1>0, DueIs
  <2>2. Due(list, i + m + 1) = Due(list, i + m + 1 - 1) + list[i + m + 1].expires
    BY <2>1, <2>5
  <2>3. list[i + m + 1].expires \in Int /\ list[i + m + 1].expires >= 0
    BY <1>0, <2>1, ListType DEF InOrder
  <2>4. i + m + 1 - 1 = i + m /\ i + (m + 1) = i + m + 1
    OBVIOUS
  <2>6. Due(list, i) <= Due(list, i + m)
    BY <1>0, <1>3, <2>1
  <2>. QED BY <1>1, <2>1, <2>2, <2>3, <2>4, <2>6
<1>4. Nat \subseteq S
  <2>. HIDE DEF S
  <2>. QED BY <1>2, <1>3, SetInduction
<1>5. j - i \in S /\ i + (j - i) = j
  BY <1>0, <1>4
<1>. QED BY <1>0, <1>5

\* Every timer is due in the future.
LEMMA DuePositive ==
    ASSUME NEW list, InOrder(list), NEW k \in 1..Len(list)
    PROVE  Due(list, k) \in Int /\ Due(list, k) > 0
<1>1. list \in Seq(Timer) /\ Len(list) \in Nat /\ 1 \in 1..Len(list) /\ k \in 0..Len(list)
  BY DEF InOrder
<1>2. Due(list, 1) = Due(list, 1 - 1) + list[1].expires /\ Due(list, 0) = 0 /\ 1 - 1 = 0
  BY <1>1, DueIs
<1>3. list[1].expires \in Int /\ list[1].expires > 0
  BY <1>1, ListType DEF InOrder
<1>4. Due(list, 1) <= Due(list, k) /\ Due(list, k) \in Int
  BY <1>1, DueGrows, DueIs
<1>. QED BY <1>2, <1>3, <1>4

\* The list new is old with a timer for p, due in n ticks, at position i.
Links(old, new, i, p, n) ==
    /\ new \in Seq(Timer) /\ Len(new) = Len(old) + 1 /\ InOrder(new)
    /\ \A k \in 1..Len(new) :
          new[k].proc = IF k < i THEN old[k].proc ELSE IF k = i THEN p ELSE old[k - 1].proc
    /\ \A k \in 1..Len(new) :
          Due(new, k) = IF k < i THEN Due(old, k) ELSE IF k = i THEN n ELSE Due(old, k - 1)

\* add_timer links a timer due at its time and moves no other.
LEMMA AddTimerLinks ==
    ASSUME NEW list, InOrder(list), NEW n \in Nat \ {0}, NEW p \in Procs,
           \A i \in 1..Len(list) : list[i].proc # p
    PROVE  \E i \in 1..Len(list) + 1 : Links(list, AddTimer(list, p, n), i, p, n)
<1> DEFINE later == {i \in DOMAIN list : n < Due(list, i)}
           at    == IF later = {} THEN Len(list) + 1 ELSE Least(later)
           own   == n - Due(list, at - 1)
           rest  == IF later = {} THEN list ELSE [list EXCEPT ![at].expires = @ - own]
           e     == [proc |-> p, expires |-> own]
           new   == InsertAt(rest, at, e)
<1>0. /\ list \in Seq(Timer) /\ Len(list) \in Nat /\ DOMAIN list = 1..Len(list)
      /\ \A k \in 1..Len(list) : list[k] \in Timer /\ list[k].expires \in Int
  BY ListType DEF InOrder
<1>d. /\ Due(list, 0) = 0
      /\ \A k \in 1..Len(list) : Due(list, k) = Due(list, k - 1) + list[k].expires
      /\ \A k \in 0..Len(list) : Due(list, k) \in Int
  BY <1>0, DueIs
<1>1. AddTimer(list, p, n) = new
  BY DEF AddTimer
<1>2. /\ at \in 1..Len(list) + 1
      /\ \A k \in 0..at - 1 : Due(list, k) <= n
      /\ at <= Len(list) => later # {} /\ n < Due(list, at)
      /\ at = Len(list) + 1 => later = {}
  <2>1. \A k \in 1..Len(list) : k \in later <=> n < Due(list, k)
    BY <1>0
  <2>2. CASE later = {}
    <3>1. at = Len(list) + 1
      BY <2>2
    <3>2. \A k \in 0..Len(list) : Due(list, k) <= n
      BY <1>0, <1>d, <2>1, <2>2
    <3>. QED BY <1>0, <2>2, <3>1, <3>2
  <2>3. CASE later # {}
    <3>1. later \subseteq Nat
      BY <1>0
    <3>2. \E i \in later : \A j \in later : i <= j
      <4>. HIDE DEF later
      <4>. QED BY <2>3, <3>1, NatLeast
    <3>3. at \in later /\ \A j \in later : at <= j
      <4>. HIDE DEF later
      <4>. QED BY <2>3, <3>2 DEF Least
    <3>4. at \in 1..Len(list)
      BY <1>0, <3>3
    <3>. HIDE DEF at, later
    <3>5. \A k \in 0..at - 1 : Due(list, k) <= n
      <4>. SUFFICES ASSUME NEW k \in 0..at - 1 PROVE Due(list, k) <= n
        OBVIOUS
      <4>1. CASE k = 0
        BY <1>d, <4>1
      <4>2. CASE k # 0
        <5>1. k \in 1..Len(list) /\ k \notin later
          BY <1>0, <3>3, <3>4, <4>2
        <5>2. Due(list, k) \in Int
          BY <1>0, <1>d, <5>1
        <5>. QED BY <2>1, <5>1, <5>2
      <4>. QED BY <4>1, <4>2
    <3>. QED BY <1>0, <2>1, <2>3, <3>3, <3>4, <3>5
  <2>. QED BY <2>2, <2>3
<1>. HIDE DEF at, later
<1>3. own \in Nat /\ Due(list, at - 1) \in Int /\ n = Due(list, at - 1) + own /\ e \in Timer
  <2>1. at - 1 \in 0..Len(list) /\ at - 1 \in 0..at - 1
    BY <1>0, <1>2
  <2>2. Due(list, at - 1) \in Int /\ Due(list, at - 1) <= n
    BY <1>d, <1>2, <2>1
  <2>. QED BY <2>2 DEF Timer
<1>4. /\ rest \in Seq(Timer) /\ Len(rest) = Len(list)
      /\ \A k \in 1..Len(list) :
            /\ rest[k].proc = list[k].proc
            /\ rest[k].expires = IF k = at THEN list[k].expires - own ELSE list[k].expires
  <2>. HIDE DEF own
  <2>1. CASE later = {}
    <3>1. rest = list /\ at \notin 1..Len(list)
      BY <1>0, <1>2, <2>1
    <3>. QED BY <1>0, <3>1
  <2>2. CASE later # {}
    <3>1. at \in 1..Len(list)
      BY <1>0, <1>2, <2>2
    <3>2. rest = [list EXCEPT ![at] = [list[at] EXCEPT !.expires = @ - own]]
      BY <2>2
    <3>3. list[at] \in Timer /\ list[at].expires - own \in Int
      BY <1>0, <1>3, <3>1
    <3>4. [list[at] EXCEPT !.expires = @ - own] \in Timer
      BY <3>3 DEF Timer
    <3>5. /\ [list[at] EXCEPT !.expires = @ - own].proc = list[at].proc
          /\ [list[at] EXCEPT !.expires = @ - own].expires = list[at].expires - own
      BY <3>3 DEF Timer
    <3>6. /\ rest \in Seq(Timer) /\ Len(rest) = Len(list)
          /\ \A k \in 1..Len(list) :
                rest[k] = IF k = at THEN [list[at] EXCEPT !.expires = @ - own] ELSE list[k]
      BY <1>0, <3>1, <3>2, <3>4, ExceptSeq
    <3>. HIDE DEF rest
    <3>. QED BY <3>5, <3>6
  <2>. QED BY <2>1, <2>2
<1>. HIDE DEF rest, own
<1>5. /\ new \in Seq(Timer) /\ Len(new) = Len(list) + 1
      /\ \A k \in 1..Len(list) + 1 :
            new[k] = IF k < at THEN rest[k] ELSE IF k = at THEN e ELSE rest[k - 1]
  <2>. HIDE DEF e
  <2>. QED BY <1>2, <1>3, <1>4, InsertIs
<1>. HIDE DEF new
<1>6. \A k \in 1..Len(list) + 1 :
         new[k].proc = IF k < at THEN list[k].proc ELSE IF k = at THEN p ELSE list[k - 1].proc
  <2>. SUFFICES ASSUME NEW k \in 1..Len(list) + 1
       PROVE  new[k].proc = IF k < at THEN list[k].proc ELSE IF k = at THEN p ELSE list[k - 1].proc
    OBVIOUS
  <2>1. CASE k < at
    BY <1>0, <1>2, <1>4, <1>5, <2>1
  <2>2. CASE k = at
    BY <1>5, <2>2
  <2>3. CASE k > at
    <3>1. k - 1 \in 1..Len(list)
      BY <1>0, <1>2, <2>3
    <3>. QED BY <1>2, <1>4, <1>5, <2>3, <3>1
  <2>4. k < at \/ k = at \/ k > at
    BY <1>0, <1>2
  <2>. QED BY <2>1, <2>2, <2>3, <2>4
<1>7. \A k \in 1..Len(list) + 1 :
         new[k].expires = IF k < at THEN list[k].expires
                          ELSE IF k = at THEN own
                          ELSE IF k = at + 1 THEN list[k - 1].expires - own
                          ELSE list[k - 1].expires
  <2>. SUFFICES ASSUME NEW k \in 1..Len(list) + 1
       PROVE  new[k].expires = IF k < at THEN list[k].expires
                               ELSE IF k = at THEN own
                               ELSE IF k = at + 1 THEN list[k - 1].expires - own
                               ELSE list[k - 1].expires
    OBVIOUS
  <2>1. CASE k < at
    BY <1>0, <1>2, <1>4, <1>5, <2>1
  <2>2. CASE k = at
    BY <1>5, <2>2
  <2>3. CASE k > at
    <3>1. k - 1 \in 1..Len(list) /\ (k - 1 = at <=> k = at + 1)
      BY <1>0, <1>2, <2>3
    <3>2. new[k] = rest[k - 1]
      BY <1>0, <1>2, <1>5, <2>3
    <3>3. rest[k - 1].expires = IF k - 1 = at THEN list[k - 1].expires - own
                                ELSE list[k - 1].expires
      BY <1>4, <3>1
    <3>4. ~ (k < at) /\ k # at
      BY <1>2, <2>3
    <3>. QED BY <3>1, <3>2, <3>3, <3>4
  <2>4. k < at \/ k = at \/ k > at
    BY <1>0, <1>2
  <2>. QED BY <2>1, <2>2, <2>3, <2>4
<1> DEFINE g == [k \in 0..Len(list) + 1 |->
                   IF k < at THEN Due(list, k) ELSE IF k = at THEN n ELSE Due(list, k - 1)]
<1>8. \A k \in 1..Len(list) + 1 : g[k] = g[k - 1] + new[k].expires
  <2>. SUFFICES ASSUME NEW k \in 1..Len(list) + 1 PROVE g[k] = g[k - 1] + new[k].expires
    OBVIOUS
  <2>0. k \in 0..Len(list) + 1 /\ k - 1 \in 0..Len(list) + 1
    BY <1>0
  <2>1. CASE k < at
    <3>1. k \in 1..Len(list) /\ k - 1 < at
      BY <1>0, <1>2, <2>1
    <3>. QED BY <1>d, <1>7, <2>0, <2>1, <3>1
  <2>2. CASE k = at
    <3>1. k - 1 < at
      BY <1>0, <1>2, <2>2
    <3>2. g[k] = n /\ g[k - 1] = Due(list, at - 1) /\ new[k].expires = own
      BY <1>2, <1>7, <2>0, <2>2, <3>1
    <3>. QED BY <1>3, <3>2
  <2>3. CASE k = at + 1
    <3>1. at \in 1..Len(list) /\ k - 1 = at /\ ~ (k < at) /\ k # at
      BY <1>0, <1>2, <2>3
    <3>2. g[k] = Due(list, at) /\ g[k - 1] = n /\ new[k].expires = list[at].expires - own
      BY <1>7, <2>0, <2>3, <3>1
    <3>3. Due(list, at) = Due(list, at - 1) + list[at].expires
      BY <1>d, <3>1
    <3>. QED BY <1>0, <1>3, <3>1, <3>2, <3>3
  <2>4. CASE k > at + 1
    <3>1. /\ k - 1 \in 1..Len(list) /\ ~ (k < at) /\ k # at /\ k # at + 1
          /\ ~ (k - 1 < at) /\ k - 1 # at
      BY <1>0, <1>2, <2>4
    <3>2. /\ g[k] = Due(list, k - 1) /\ g[k - 1] = Due(list, (k - 1) - 1)
          /\ new[k].expires = list[k - 1].expires
      BY <1>7, <2>0, <3>1
    <3>3. Due(list, k - 1) = Due(list, (k - 1) - 1) + list[k - 1].expires
      BY <1>d, <3>1
    <3>. QED BY <3>2, <3>3
  <2>5. k < at \/ k = at \/ k = at + 1 \/ k > at + 1
    BY <1>0, <1>2
  <2>. QED BY <2>1, <2>2, <2>3, <2>4, <2>5
<1>9. g[0] = 0
  BY <1>0, <1>d, <1>2
<1>10. g = [k \in 0..Len(new) |-> g[k]]
  BY <1>5
<1>. HIDE DEF g
<1>11. \A k \in 0..Len(list) + 1 : Due(new, k) = g[k]
  <2>1. \A k \in 1..Len(new) : g[k] = g[k - 1] + new[k].expires
    BY <1>5, <1>8
  <2>2. \A k \in 0..Len(new) : Due(new, k) = g[k]
    <3>1. new \in Seq(Timer)
      BY <1>5
    <3>. QED BY <1>9, <1>10, <2>1, <3>1, DueUnique
  <2>. QED BY <1>5, <2>2
<1>12. \A k \in 1..Len(list) + 1 : new[k].expires >= 0
  <2>. SUFFICES ASSUME NEW k \in 1..Len(list) + 1 PROVE new[k].expires >= 0
    OBVIOUS
  <2>1. CASE k = at + 1
    <3>1. at \in 1..Len(list) /\ k - 1 = at /\ ~ (k < at) /\ k # at
      BY <1>0, <1>2, <2>1
    <3>2. new[k].expires = list[at].expires - own /\ n < Due(list, at)
      BY <1>2, <1>7, <2>1, <3>1
    <3>3. Due(list, at) = Due(list, at - 1) + list[at].expires
      BY <1>d, <3>1
    <3>. QED BY <1>0, <1>3, <3>1, <3>2, <3>3
  <2>2. CASE k < at
    <3>1. k \in 1..Len(list)
      BY <1>0, <1>2, <2>2
    <3>. QED BY <1>7, <2>2, <3>1 DEF InOrder
  <2>3. CASE k = at
    BY <1>3, <1>7, <2>3
  <2>4. CASE k > at + 1
    <3>1. k - 1 \in 1..Len(list) /\ ~ (k < at) /\ k # at /\ k # at + 1
      BY <1>0, <1>2, <2>4
    <3>. QED BY <1>7, <3>1 DEF InOrder
  <2>5. k < at \/ k = at \/ k = at + 1 \/ k > at + 1
    BY <1>0, <1>2
  <2>. QED BY <2>1, <2>2, <2>3, <2>4, <2>5
<1>13. new[1].expires > 0
  <2>1. 1 \in 1..Len(list) + 1
    BY <1>0
  <2>2. CASE at = 1
    <3>1. at - 1 = 0 /\ own = n
      BY <1>3, <1>d, <2>2
    <3>. QED BY <1>7, <2>1, <2>2, <3>1
  <2>3. CASE at > 1
    <3>1. 1 \in 1..Len(list) /\ Len(list) > 0
      BY <1>0, <1>2, <2>3
    <3>. QED BY <1>7, <2>1, <2>3, <3>1 DEF InOrder
  <2>. QED BY <1>0, <1>2, <2>2, <2>3
<1>14. \A i, j \in 1..Len(list) + 1 : new[i].proc = new[j].proc => i = j
  <2>. SUFFICES ASSUME NEW i \in 1..Len(list) + 1, NEW j \in 1..Len(list) + 1,
                       new[i].proc = new[j].proc
       PROVE  i = j
    OBVIOUS
  <2> DEFINE o(k) == IF k < at THEN k ELSE k - 1
  <2>1. ASSUME NEW k \in 1..Len(list) + 1, k # at
        PROVE  o(k) \in 1..Len(list) /\ new[k].proc = list[o(k)].proc
    BY <1>0, <1>2, <1>6, <2>1
  <2>2. new[at].proc = p
    BY <1>2, <1>6
  <2>3. CASE i = at \/ j = at
    <3>1. i = at /\ j = at
      BY <2>1, <2>2, <2>3
    <3>. QED BY <3>1
  <2>4. CASE i # at /\ j # at
    <3>1. o(i) = o(j)
      <4>. HIDE DEF o
      <4>. QED BY <2>1, <2>4 DEF InOrder
    <3>. QED BY <1>0, <1>2, <2>4, <3>1
  <2>. QED BY <2>3, <2>4
<1>15. InOrder(new)
  BY <1>5, <1>12, <1>13, <1>14 DEF InOrder
<1>16. Links(list, new, at, p, n)
  <2>1. \A k \in 1..Len(list) + 1 : k \in 0..Len(list) + 1
    BY <1>0
  <2>2. \A k \in 1..Len(list) + 1 :
          Due(new, k) = IF k < at THEN Due(list, k) ELSE IF k = at THEN n ELSE Due(list, k - 1)
    BY <1>11, <2>1 DEF g
  <2>. QED BY <1>5, <1>6, <1>15, <2>2 DEF Links
<1>. QED BY <1>1, <1>2, <1>16

\* The list new is old without the timer at position i.
Unlinks(old, new, i) ==
    /\ new \in Seq(Timer) /\ Len(new) = Len(old) - 1 /\ InOrder(new)
    /\ \A k \in 1..Len(new) : new[k].proc = IF k < i THEN old[k].proc ELSE old[k + 1].proc
    /\ \A k \in 1..Len(new) : Due(new, k) = IF k < i THEN Due(old, k) ELSE Due(old, k + 1)

\* del_timer unlinks the timer of the process and moves no other.
LEMMA DelTimerUnlinks ==
    ASSUME NEW list, InOrder(list), NEW p, NEW i \in 1..Len(list), list[i].proc = p
    PROVE  Unlinks(list, DelTimer(list, p), i)
<1> DEFINE at   == {j \in DOMAIN list : list[j].proc = p}
           rest == IF i = Len(list) THEN list
                   ELSE [list EXCEPT ![i + 1].expires = @ + list[i].expires]
           new  == RemoveAt(rest, i)
<1>0. /\ list \in Seq(Timer) /\ Len(list) \in Nat /\ DOMAIN list = 1..Len(list)
      /\ \A k \in 1..Len(list) : list[k] \in Timer /\ list[k].expires \in Int
  BY ListType DEF InOrder
<1>d. /\ Due(list, 0) = 0
      /\ \A k \in 1..Len(list) : Due(list, k) = Due(list, k - 1) + list[k].expires
      /\ \A k \in 0..Len(list) : Due(list, k) \in Int
  BY <1>0, DueIs
<1>1. DelTimer(list, p) = new
  <2>1. at = {i}
    BY <1>0 DEF InOrder
  <2>2. Least(at) = i
    <3>. HIDE DEF at
    <3>. QED BY <2>1, <1>0 DEF Least
  <2>. QED BY <2>1, <2>2 DEF DelTimer
<1>2. /\ rest \in Seq(Timer) /\ Len(rest) = Len(list)
      /\ \A k \in 1..Len(list) :
            /\ rest[k].proc = list[k].proc
            /\ rest[k].expires = IF k = i + 1 THEN list[k].expires + list[i].expires
                                 ELSE list[k].expires
  <2>1. CASE i = Len(list)
    <3>1. rest = list /\ i + 1 \notin 1..Len(list)
      BY <1>0, <2>1
    <3>. QED BY <1>0, <3>1
  <2>2. CASE i # Len(list)
    <3>0. Len(list) \in Nat /\ i \in 1..Len(list) /\ i # Len(list)
      BY <1>0, <2>2
    <3>1. i + 1 \in 1..Len(list)
      <4>. HIDE DEF rest, at
      <4>. QED BY <3>0
    <3>2. rest = [list EXCEPT ![i + 1] = [list[i + 1] EXCEPT !.expires = @ + list[i].expires]]
      BY <2>2
    <3>3. list[i + 1] \in Timer /\ list[i + 1].expires + list[i].expires \in Int
      BY <1>0, <3>1
    <3>4. [list[i + 1] EXCEPT !.expires = @ + list[i].expires] \in Timer
      BY <3>3 DEF Timer
    <3>5. /\ [list[i + 1] EXCEPT !.expires = @ + list[i].expires].proc = list[i + 1].proc
          /\ [list[i + 1] EXCEPT !.expires = @ + list[i].expires].expires
               = list[i + 1].expires + list[i].expires
      BY <3>3 DEF Timer
    <3>6. /\ rest \in Seq(Timer) /\ Len(rest) = Len(list)
          /\ \A k \in 1..Len(list) :
                rest[k] = IF k = i + 1
                          THEN [list[i + 1] EXCEPT !.expires = @ + list[i].expires]
                          ELSE list[k]
      BY <1>0, <3>1, <3>2, <3>4, ExceptSeq
    <3>. HIDE DEF rest
    <3>. QED BY <3>5, <3>6
  <2>. QED BY <2>1, <2>2
<1>. HIDE DEF rest
<1>3. /\ new \in Seq(Timer) /\ Len(new) = Len(list) - 1
      /\ \A k \in 1..Len(list) - 1 : new[k] = IF k < i THEN rest[k] ELSE rest[k + 1]
  <2>1. rest \in Seq(Timer) /\ Len(rest) = Len(list) /\ i \in 1..Len(rest)
    BY <1>2
  <2>2. /\ RemoveAt(rest, i) \in Seq(Timer) /\ Len(RemoveAt(rest, i)) = Len(rest) - 1
        /\ \A k \in 1..Len(rest) - 1 : RemoveAt(rest, i)[k] = IF k < i THEN rest[k] ELSE rest[k + 1]
    BY <2>1, RemoveIs
  <2>. QED BY <2>1, <2>2
<1>. HIDE DEF new
<1>4. \A k \in 1..Len(list) - 1 :
         /\ new[k].proc = IF k < i THEN list[k].proc ELSE list[k + 1].proc
         /\ new[k].expires = IF k < i THEN list[k].expires
                             ELSE IF k = i THEN list[i + 1].expires + list[i].expires
                             ELSE list[k + 1].expires
  <2>. SUFFICES ASSUME NEW k \in 1..Len(list) - 1
       PROVE  /\ new[k].proc = IF k < i THEN list[k].proc ELSE list[k + 1].proc
              /\ new[k].expires = IF k < i THEN list[k].expires
                                  ELSE IF k = i THEN list[i + 1].expires + list[i].expires
                                  ELSE list[k + 1].expires
    OBVIOUS
  <2>0. k \in 1..Len(list) /\ k + 1 \in 1..Len(list) /\ (k + 1 = i + 1 <=> k = i)
    BY <1>0
  <2>1. CASE k < i
    <3>1. k # i + 1
      BY <1>0, <2>1
    <3>. QED BY <1>2, <1>3, <2>0, <2>1, <3>1
  <2>2. CASE ~ (k < i)
    <3>1. new[k] = rest[k + 1]
      BY <1>3, <2>2
    <3>2. /\ rest[k + 1].proc = list[k + 1].proc
          /\ rest[k + 1].expires = IF k + 1 = i + 1 THEN list[k + 1].expires + list[i].expires
                                   ELSE list[k + 1].expires
      BY <1>2, <2>0
    <3>. QED BY <2>0, <2>2, <3>1, <3>2
  <2>. QED BY <2>1, <2>2
<1> DEFINE g == [k \in 0..Len(list) - 1 |-> IF k < i THEN Due(list, k) ELSE Due(list, k + 1)]
<1>5. \A k \in 1..Len(list) - 1 : g[k] = g[k - 1] + new[k].expires
  <2>. SUFFICES ASSUME NEW k \in 1..Len(list) - 1 PROVE g[k] = g[k - 1] + new[k].expires
    OBVIOUS
  <2>0. k \in 0..Len(list) - 1 /\ k - 1 \in 0..Len(list) - 1
    BY <1>0
  <2>1. CASE k < i
    <3>1. k \in 1..Len(list) /\ k - 1 < i
      BY <1>0, <2>1
    <3>. QED BY <1>4, <1>d, <2>0, <2>1, <3>1
  <2>2. CASE k = i
    <3>1. k - 1 < i /\ i + 1 \in 1..Len(list) /\ (i + 1) - 1 = i /\ ~ (k < i)
      BY <1>0, <2>2
    <3>2. /\ g[k] = Due(list, i + 1) /\ g[k - 1] = Due(list, i - 1)
          /\ new[k].expires = list[i + 1].expires + list[i].expires
      BY <1>4, <2>0, <2>2, <3>1
    <3>3. Due(list, i + 1) = Due(list, i) + list[i + 1].expires
      BY <1>d, <3>1
    <3>4. Due(list, i) = Due(list, i - 1) + list[i].expires
      BY <1>d
    <3>5. Due(list, i - 1) \in Int
      BY <1>0, <1>d
    <3>. QED BY <1>0, <3>1, <3>2, <3>3, <3>4, <3>5
  <2>3. CASE k > i
    <3>1. /\ ~ (k < i) /\ k # i /\ ~ (k - 1 < i) /\ (k - 1) + 1 = k
          /\ k + 1 \in 1..Len(list) /\ (k + 1) - 1 = k
      BY <1>0, <2>3
    <3>2. /\ g[k] = Due(list, k + 1) /\ g[k - 1] = Due(list, (k - 1) + 1)
          /\ new[k].expires = list[k + 1].expires
      BY <1>4, <2>0, <3>1
    <3>3. Due(list, k + 1) = Due(list, (k + 1) - 1) + list[k + 1].expires
      BY <1>d, <3>1
    <3>. QED BY <3>1, <3>2, <3>3
  <2>4. k < i \/ k = i \/ k > i
    BY <1>0
  <2>. QED BY <2>1, <2>2, <2>3, <2>4
<1>6. g[0] = 0 /\ g = [k \in 0..Len(new) |-> g[k]]
  BY <1>0, <1>d, <1>3
<1>7. \A k \in 1..Len(list) - 1 :
         Due(new, k) = IF k < i THEN Due(list, k) ELSE Due(list, k + 1)
  <2>. HIDE DEF g
  <2>1. \A k \in 1..Len(new) : g[k] = g[k - 1] + new[k].expires
    BY <1>3, <1>5
  <2>2. \A k \in 0..Len(new) : Due(new, k) = g[k]
    BY <1>3, <1>6, <2>1, DueUnique
  <2>3. \A k \in 1..Len(list) - 1 : k \in 0..Len(list) - 1 /\ k \in 0..Len(new)
    BY <1>0, <1>3
  <2>. QED BY <2>2, <2>3 DEF g
<1>8. \A k \in 1..Len(list) - 1 : new[k].expires >= 0
  <2>. SUFFICES ASSUME NEW k \in 1..Len(list) - 1 PROVE new[k].expires >= 0
    OBVIOUS
  <2>1. k \in 1..Len(list) /\ k + 1 \in 1..Len(list)
    BY <1>0
  <2>2. CASE k = i
    <3>1. list[i].expires >= 0 /\ list[i + 1].expires >= 0
      BY <2>1, <2>2 DEF InOrder
    <3>2. list[i].expires \in Int /\ list[i + 1].expires \in Int
      BY <1>0, <2>1, <2>2
    <3>. QED BY <1>0, <1>4, <2>2, <3>1, <3>2
  <2>3. CASE k # i
    BY <1>4, <2>1, <2>3 DEF InOrder
  <2>. QED BY <2>2, <2>3
<1>9. Len(new) > 0 => new[1].expires > 0
  <2>. SUFFICES ASSUME Len(new) > 0 PROVE new[1].expires > 0
    OBVIOUS
  <2>1. 1 \in 1..Len(list) - 1 /\ 1 \in 1..Len(list) /\ Len(list) > 0 /\ 1 + 1 \in 1..Len(list)
    BY <1>0, <1>3
  <2>2. CASE i = 1
    <3>1. list[1].expires > 0 /\ list[1 + 1].expires >= 0
      BY <2>1 DEF InOrder
    <3>2. list[1].expires \in Int /\ list[1 + 1].expires \in Int
      BY <1>0, <2>1
    <3>3. new[1].expires = list[1 + 1].expires + list[1].expires
      BY <1>4, <2>1, <2>2
    <3>. QED BY <3>1, <3>2, <3>3
  <2>3. CASE i # 1
    <3>1. 1 < i
      BY <1>0, <2>3
    <3>. QED BY <1>4, <2>1, <3>1 DEF InOrder
  <2>. QED BY <2>2, <2>3
<1>10. \A j, k \in 1..Len(list) - 1 : new[j].proc = new[k].proc => j = k
  <2>. SUFFICES ASSUME NEW j \in 1..Len(list) - 1, NEW k \in 1..Len(list) - 1,
                       new[j].proc = new[k].proc
       PROVE  j = k
    OBVIOUS
  <2> DEFINE o(m) == IF m < i THEN m ELSE m + 1
  <2>1. ASSUME NEW m \in 1..Len(list) - 1
        PROVE  o(m) \in 1..Len(list) /\ new[m].proc = list[o(m)].proc
    BY <1>0, <1>4, <2>1
  <2>2. o(j) = o(k)
    <3>. HIDE DEF o
    <3>. QED BY <2>1 DEF InOrder
  <2>. QED BY <1>0, <2>2
<1>11. InOrder(new)
  BY <1>3, <1>8, <1>9, <1>10 DEF InOrder
<1>12. Unlinks(list, new, i)
  BY <1>3, <1>4, <1>7, <1>11 DEF Unlinks
<1>. QED BY <1>1, <1>12

\* The list new is what is left of old when a tick has taken the first m timers.
Fires(old, new, m) ==
    /\ m \in 0..Len(old)
    /\ new \in Seq(Timer) /\ Len(new) = Len(old) - m /\ InOrder(new)
    /\ \A k \in 1..Len(new) : new[k].proc = old[m + k].proc
    /\ \A k \in 1..Len(new) : Due(new, k) = Due(old, m + k) - 1
    /\ \A k \in 1..Len(old) : Due(old, k) = 1 <=> k <= m

\* The head of the list is decremented, and what fires then is unlinked.
Decrements(list, ticked, new) ==
    /\ ticked = [list EXCEPT ![1].expires = @ - 1]
    /\ new = SubSeq(ticked, Cardinality(Firing(ticked)) + 1, Len(ticked))

\* run_timer_list takes the timers that are due at this tick, and no others.
LEMMA TickFires ==
    ASSUME NEW list, InOrder(list), Len(list) > 0,
           NEW ticked, NEW new, Decrements(list, ticked, new)
    PROVE  \E m \in 0..Len(list) :
              /\ Fires(list, new, m)
              /\ Firing(ticked) = 1..m
              /\ \A k \in 1..Len(list) : ticked[k].proc = list[k].proc
<1>0. /\ list \in Seq(Timer) /\ Len(list) \in Nat /\ DOMAIN list = 1..Len(list)
      /\ \A k \in 1..Len(list) : list[k] \in Timer /\ list[k].expires \in Int
      /\ 1 \in 1..Len(list)
  BY ListType DEF InOrder
<1>d. /\ Due(list, 0) = 0
      /\ \A k \in 1..Len(list) : Due(list, k) = Due(list, k - 1) + list[k].expires
      /\ \A k \in 0..Len(list) : Due(list, k) \in Int
  BY <1>0, DueIs
<1>1. /\ ticked \in Seq(Timer) /\ Len(ticked) = Len(list)
      /\ \A k \in 1..Len(list) :
            /\ ticked[k] \in Timer /\ ticked[k].proc = list[k].proc
            /\ ticked[k].expires = IF k = 1 THEN list[k].expires - 1 ELSE list[k].expires
  <2>1. ticked = [list EXCEPT ![1] = [list[1] EXCEPT !.expires = @ - 1]]
    BY DEF Decrements
  <2>2. list[1] \in Timer /\ list[1].expires - 1 \in Int
    BY <1>0
  <2>3. [list[1] EXCEPT !.expires = @ - 1] \in Timer
    BY <2>2 DEF Timer
  <2>4. /\ [list[1] EXCEPT !.expires = @ - 1].proc = list[1].proc
        /\ [list[1] EXCEPT !.expires = @ - 1].expires = list[1].expires - 1
    BY <2>2 DEF Timer
  <2> DEFINE t == [list[1] EXCEPT !.expires = @ - 1]
  <2>5. ticked = [list EXCEPT ![1] = t]
    BY <2>1
  <2>6. t \in Timer /\ t.proc = list[1].proc /\ t.expires = list[1].expires - 1
    BY <2>3, <2>4
  <2>. HIDE DEF t
  <2>7. /\ ticked \in Seq(Timer) /\ Len(ticked) = Len(list)
        /\ \A k \in 1..Len(list) : ticked[k] = IF k = 1 THEN t ELSE list[k]
    BY <1>0, <2>5, <2>6, ExceptSeq
  <2>. QED BY <1>0, <2>6, <2>7
<1>2. \A k \in 1..Len(list) : ticked[k].expires \in Nat
  <2>1. list[1].expires > 0 /\ \A k \in 1..Len(list) : list[k].expires >= 0
    BY DEF InOrder
  <2>. QED BY <1>0, <1>1, <2>1
<1> DEFINE left == {k \in 1..Len(list) : ticked[k].expires # 0}
<1>3. PICK m \in 0..Len(list) :
         /\ \A k \in 1..m : ticked[k].expires = 0
         /\ m < Len(list) => ticked[m + 1].expires # 0
  <2>1. CASE left = {}
    <3>1. \A k \in 1..Len(list) : ticked[k].expires = 0
      BY <2>1
    <3>. QED BY <1>0, <3>1
  <2>2. CASE left # {}
    <3>1. left \subseteq Nat
      BY <1>0
    <3>2. PICK x \in left : \A y \in left : x <= y
      <4>. HIDE DEF left
      <4>. QED BY <2>2, <3>1, NatLeast
    <3>3. x \in 1..Len(list) /\ x - 1 \in 0..Len(list) /\ (x - 1) + 1 = x
      BY <1>0, <3>2
    <3>4. \A k \in 1..x - 1 : ticked[k].expires = 0
      BY <1>0, <3>2, <3>3
    <3>5. ticked[(x - 1) + 1].expires # 0
      BY <3>2, <3>3
    <3>. QED BY <3>3, <3>4, <3>5
  <2>. QED BY <2>1, <2>2
<1>4. Firing(ticked) = 1..m
  <2>1. DOMAIN ticked = 1..Len(list)
    BY <1>1
  <2>2. ASSUME NEW i \in 1..Len(list)
        PROVE  (\A j \in 1..i : ticked[j].expires = 0) <=> i <= m
    <3>1. CASE i <= m
      <4>1. \A j \in 1..i : j \in 1..m
        BY <1>0, <3>1
      <4>. QED BY <1>3, <3>1, <4>1
    <3>2. CASE i > m
      <4>1. m + 1 \in 1..i /\ m < Len(list) /\ ~ (i <= m)
        BY <1>0, <3>2
      <4>. QED BY <1>3, <4>1
    <3>3. i <= m \/ i > m
      BY <1>0
    <3>. QED BY <3>1, <3>2, <3>3
  <2>3. Firing(ticked) = {i \in 1..Len(list) : i <= m}
    BY <2>1, <2>2 DEF Firing
  <2>4. {i \in 1..Len(list) : i <= m} = 1..m
    BY <1>0
  <2>. QED BY <2>3, <2>4
<1>5. Cardinality(Firing(ticked)) = m
  <2>1. Cardinality(1..m) = IF 1 > m THEN 0 ELSE m - 1 + 1
    BY <1>0, FS_Interval
  <2>. QED BY <1>0, <1>4, <2>1
<1>6. /\ new \in Seq(Timer) /\ Len(new) = Len(list) - m
      /\ \A k \in 1..Len(list) - m : new[k] = ticked[m + k]
  <2>1. new = SubSeq(ticked, m + 1, Len(list))
    BY <1>1, <1>5 DEF Decrements
  <2>2. \A i \in m + 1..Len(list) : ticked[i] \in Timer
    BY <1>0, <1>1
  <2>3. /\ new \in Seq(Timer)
        /\ Len(new) = IF m + 1 <= Len(list) THEN Len(list) - (m + 1) + 1 ELSE 0
        /\ \A k \in 1..Len(list) - (m + 1) + 1 : new[k] = ticked[(m + 1) + k - 1]
    BY <1>0, <2>1, <2>2, SubSeqProperties
  <2>4. Len(list) - (m + 1) + 1 = Len(list) - m
    BY <1>0
  <2>5. Len(new) = Len(list) - m
    <3>1. m + 1 <= Len(list) \/ (Len(list) - m = 0 /\ ~ (m + 1 <= Len(list)))
      BY <1>0
    <3>. QED BY <2>3, <2>4, <3>1
  <2>6. ASSUME NEW k \in 1..Len(list) - m PROVE new[k] = ticked[m + k]
    <3>1. new[k] = ticked[(m + 1) + k - 1]
      BY <2>3, <2>4
    <3>2. (m + 1) + k - 1 = m + k
      BY <1>0
    <3>. QED BY <3>1, <3>2
  <2>. QED BY <2>3, <2>5, <2>6
<1>7. \A k \in 1..Len(list) - m :
         /\ m + k \in 1..Len(list)
         /\ new[k].proc = list[m + k].proc
         /\ new[k].expires = ticked[m + k].expires
  <2>1. \A k \in 1..Len(list) - m : m + k \in 1..Len(list)
    BY <1>0
  <2>. QED BY <1>1, <1>6, <2>1
<1>8. \A k \in 1..m : Due(list, k) = 1
  <2> DEFINE S == {k \in Nat : k < m => Due(list, k + 1) = 1}
  <2>1. 0 \in S
    <3>. SUFFICES ASSUME 0 < m PROVE Due(list, 0 + 1) = 1
      OBVIOUS
    <3>1. 1 \in 1..m /\ 1 - 1 = 0 /\ 0 + 1 = 1
      OBVIOUS
    <3>2. ticked[1].expires = 0 /\ ticked[1].expires = list[1].expires - 1
      BY <1>0, <1>1, <1>3, <3>1
    <3>3. Due(list, 1) = Due(list, 0) + list[1].expires
      BY <1>0, <1>d, <3>1
    <3>. QED BY <1>0, <1>d, <3>1, <3>2, <3>3
  <2>2. ASSUME NEW k \in Nat, k \in S PROVE k + 1 \in S
    <3>. SUFFICES ASSUME k + 1 < m PROVE Due(list, (k + 1) + 1) = 1
      OBVIOUS
    <3>1. /\ (k + 1) + 1 \in 1..m /\ (k + 1) + 1 \in 1..Len(list) /\ (k + 1) + 1 # 1
          /\ ((k + 1) + 1) - 1 = k + 1 /\ k < m
      BY <1>0
    <3>2. list[(k + 1) + 1].expires = 0
      BY <1>1, <1>3, <3>1
    <3>3. Due(list, (k + 1) + 1) = Due(list, k + 1) + list[(k + 1) + 1].expires
      BY <1>d, <3>1
    <3>. QED BY <2>2, <3>1, <3>2, <3>3
  <2>3. Nat \subseteq S
    <3>. HIDE DEF S
    <3>. QED BY <2>1, <2>2, SetInduction
  <2>4. \A k \in 1..m : k - 1 \in Nat /\ k - 1 < m /\ (k - 1) + 1 = k
    OBVIOUS
  <2>5. \A k \in Nat : k < m => Due(list, k + 1) = 1
    BY <2>3
  <2>. HIDE DEF S
  <2>6. ASSUME NEW k \in 1..m PROVE Due(list, k) = 1
    <3>1. Due(list, (k - 1) + 1) = 1
      BY <2>4, <2>5
    <3>. QED BY <2>4, <3>1
  <2>. QED BY <2>6
<1>9. m < Len(list) => /\ m + 1 \in 1..Len(list)
                       /\ Due(list, m + 1) = 1 + ticked[m + 1].expires
                       /\ ticked[m + 1].expires > 0
  <2>. SUFFICES ASSUME m < Len(list)
       PROVE  /\ m + 1 \in 1..Len(list)
              /\ Due(list, m + 1) = 1 + ticked[m + 1].expires
              /\ ticked[m + 1].expires > 0
    OBVIOUS
  <2>1. m + 1 \in 1..Len(list) /\ (m + 1) - 1 = m
    BY <1>0
  <2>2. ticked[m + 1].expires \in Nat /\ ticked[m + 1].expires # 0
    BY <1>2, <1>3, <2>1
  <2>3. Due(list, m + 1) = Due(list, m) + list[m + 1].expires
    BY <1>d, <2>1
  <2>4. CASE m = 0
    <3>1. m + 1 = 1 /\ ticked[m + 1].expires = list[m + 1].expires - 1
      BY <1>1, <2>1, <2>4
    <3>2. list[m + 1].expires \in Int
      BY <1>0, <2>1
    <3>. QED BY <1>d, <2>1, <2>2, <2>3, <2>4, <3>1, <3>2
  <2>5. CASE m # 0
    <3>1. m \in 1..m /\ m + 1 # 1
      BY <1>0, <2>5
    <3>2. Due(list, m) = 1 /\ ticked[m + 1].expires = list[m + 1].expires
      BY <1>1, <1>8, <2>1, <3>1
    <3>. QED BY <2>1, <2>2, <2>3, <3>2
  <2>. QED BY <2>4, <2>5
<1>10. \A k \in 1..Len(list) : Due(list, k) = 1 <=> k <= m
  <2>. SUFFICES ASSUME NEW k \in 1..Len(list) PROVE Due(list, k) = 1 <=> k <= m
    OBVIOUS
  <2>1. CASE k <= m
    BY <1>0, <1>8, <2>1
  <2>2. CASE k > m
    <3>1. m < Len(list) /\ m + 1 \in 0..Len(list) /\ k \in m + 1..Len(list)
      BY <1>0, <2>2
    <3>2. Due(list, m + 1) <= Due(list, k)
      BY <3>1, DueGrows
    <3>3. Due(list, m + 1) > 1 /\ Due(list, m + 1) \in Int
      BY <1>2, <1>9, <3>1
    <3>4. Due(list, k) \in Int
      BY <1>0, <1>d
    <3>. QED BY <1>0, <2>2, <3>2, <3>3, <3>4
  <2>3. k <= m \/ k > m
    BY <1>0
  <2>. QED BY <2>1, <2>2, <2>3
<1> DEFINE g == [k \in 0..Len(list) - m |-> IF k = 0 THEN 0 ELSE Due(list, m + k) - 1]
<1>11. \A k \in 1..Len(list) - m : g[k] = g[k - 1] + new[k].expires
  <2>. SUFFICES ASSUME NEW k \in 1..Len(list) - m PROVE g[k] = g[k - 1] + new[k].expires
    OBVIOUS
  <2>0. /\ k \in 0..Len(list) - m /\ k - 1 \in 0..Len(list) - m /\ m + k \in 1..Len(list)
        /\ m < Len(list) /\ k # 0
    BY <1>0
  <2>1. g[k] = Due(list, m + k) - 1 /\ new[k].expires = ticked[m + k].expires
    BY <1>7, <2>0
  <2>2. ticked[m + k].expires \in Nat /\ Due(list, m + k) \in Int
    BY <1>0, <1>2, <1>d, <2>0
  <2>3. CASE k = 1
    <3>1. g[k - 1] = 0 /\ Due(list, m + k) = 1 + ticked[m + k].expires
      BY <1>9, <2>0, <2>3
    <3>. QED BY <2>1, <2>2, <3>1
  <2>4. CASE k # 1
    <3>1. k - 1 # 0 /\ m + (k - 1) = (m + k) - 1 /\ m + k # 1
      BY <1>0, <2>4
    <3>2. g[k - 1] = Due(list, (m + k) - 1) - 1
      BY <2>0, <3>1
    <3>3. ticked[m + k].expires = list[m + k].expires
      BY <1>1, <2>0, <3>1
    <3>4. Due(list, m + k) = Due(list, (m + k) - 1) + list[m + k].expires
      BY <1>d, <2>0
    <3>5. Due(list, (m + k) - 1) \in Int
      BY <1>0, <1>d, <2>0
    <3>6. Due(list, m + k) - 1 = (Due(list, (m + k) - 1) - 1) + ticked[m + k].expires
      BY <2>2, <3>3, <3>4, <3>5
    <3>. QED BY <2>1, <3>2, <3>6
  <2>. QED BY <2>3, <2>4
<1>12. g[0] = 0 /\ g = [k \in 0..Len(new) |-> g[k]]
  BY <1>0, <1>6
<1>13. \A k \in 1..Len(list) - m : Due(new, k) = Due(list, m + k) - 1
  <2>. HIDE DEF g
  <2>1. \A k \in 1..Len(new) : g[k] = g[k - 1] + new[k].expires
    BY <1>6, <1>11
  <2>2. \A k \in 0..Len(new) : Due(new, k) = g[k]
    BY <1>6, <1>12, <2>1, DueUnique
  <2>3. \A k \in 1..Len(list) - m : k \in 0..Len(list) - m /\ k \in 0..Len(new) /\ k # 0
    BY <1>0, <1>6
  <2>. QED BY <2>2, <2>3 DEF g
<1>14. InOrder(new)
  <2>1. \A k \in 1..Len(new) : new[k].expires >= 0
    BY <1>2, <1>6, <1>7
  <2>2. Len(new) > 0 => new[1].expires > 0
    <3>. SUFFICES ASSUME Len(new) > 0 PROVE new[1].expires > 0
      OBVIOUS
    <3>1. m < Len(list) /\ 1 \in 1..Len(list) - m
      BY <1>0, <1>6
    <3>. QED BY <1>7, <1>9, <3>1
  <2>3. ASSUME NEW i \in 1..Len(new), NEW j \in 1..Len(new), new[i].proc = new[j].proc
        PROVE  i = j
    <3>1. m + i \in 1..Len(list) /\ m + j \in 1..Len(list)
      BY <1>6, <1>7
    <3>2. list[m + i].proc = list[m + j].proc
      BY <1>6, <1>7, <2>3
    <3>3. m + i = m + j
      BY <3>1, <3>2 DEF InOrder
    <3>. QED BY <1>0, <1>6, <3>3
  <2>. QED BY <1>6, <2>1, <2>2, <2>3 DEF InOrder
<1>15. Fires(list, new, m)
  <2>. HIDE DEF g
  <2>. QED BY <1>6, <1>7, <1>10, <1>13, <1>14 DEF Fires
<1>. QED BY <1>1, <1>4, <1>15

-----------------------------------------------------------------------------
(* The countdown of each sleeper.                                          *)

\* The processes that have a timer in a list.
InList(list) == {list[i].proc : i \in 1..Len(list)}

\* The ticks a process still has, 0 if it has no timer.
TimeLeft(list, p) ==
    IF p \in InList(list) THEN Due(list, CHOOSE i \in 1..Len(list) : list[i].proc = p) ELSE 0

\* A timer in the list counts down for its process, which has no other.
LEMMA TimeLeftIs ==
    ASSUME NEW list, InOrder(list)
    PROVE  /\ \A i \in 1..Len(list) : TimeLeft(list, list[i].proc) = Due(list, i)
           /\ \A p : p \notin InList(list) => TimeLeft(list, p) = 0
           /\ \A p : TimeLeft(list, p) \in Nat
           /\ \A p : TimeLeft(list, p) > 0 <=> p \in InList(list)
<1>1. ASSUME NEW i \in 1..Len(list) PROVE TimeLeft(list, list[i].proc) = Due(list, i)
  <2>1. (CHOOSE j \in 1..Len(list) : list[j].proc = list[i].proc) = i
    BY DEF InOrder
  <2>2. list[i].proc \in InList(list)
    BY DEF InList
  <2>. QED BY <2>1, <2>2 DEF TimeLeft
<1>2. ASSUME NEW p, p \notin InList(list) PROVE TimeLeft(list, p) = 0
  BY <1>2 DEF TimeLeft
<1>3. ASSUME NEW p, p \in InList(list) PROVE TimeLeft(list, p) \in Nat /\ TimeLeft(list, p) > 0
  <2>1. PICK i \in 1..Len(list) : list[i].proc = p
    BY <1>3 DEF InList
  <2>2. TimeLeft(list, p) = Due(list, i)
    BY <1>1, <2>1
  <2>. QED BY <2>2, DuePositive
<1>. QED BY <1>1, <1>2, <1>3

\* A new timer counts down for its process and leaves the others alone.
LEMMA LinksLeft ==
    ASSUME NEW old, NEW new, NEW i \in 1..Len(old) + 1, NEW p, NEW n \in Nat \ {0},
           InOrder(old), Links(old, new, i, p, n), p \notin InList(old)
    PROVE  /\ InOrder(new) /\ InList(new) = InList(old) \cup {p}
           /\ \A q : TimeLeft(new, q) = IF q = p THEN n ELSE TimeLeft(old, q)
<1>0. /\ Len(old) \in Nat /\ Len(new) = Len(old) + 1 /\ InOrder(new)
      /\ i \in 1..Len(new) /\ new[i].proc = p /\ Due(new, i) = n
  BY ListType DEF Links, InOrder
<1>1. ASSUME NEW k \in 1..Len(old)
      PROVE  \E j \in 1..Len(new) : new[j].proc = old[k].proc /\ Due(new, j) = Due(old, k)
  <2>1. CASE k < i
    <3>1. k \in 1..Len(new)
      BY <1>0
    <3>. QED BY <2>1, <3>1 DEF Links
  <2>2. CASE ~ (k < i)
    <3>1. k + 1 \in 1..Len(new) /\ ~ (k + 1 < i) /\ k + 1 # i /\ (k + 1) - 1 = k
      BY <1>0, <2>2
    <3>2. new[k + 1].proc = old[k].proc /\ Due(new, k + 1) = Due(old, k)
      BY <3>1 DEF Links
    <3>. QED BY <3>1, <3>2
  <2>. QED BY <2>1, <2>2
<1>2. ASSUME NEW j \in 1..Len(new), j # i PROVE new[j].proc \in InList(old)
  <2>1. CASE j < i
    <3>1. j \in 1..Len(old) /\ new[j].proc = old[j].proc
      BY <1>0, <2>1 DEF Links
    <3>. QED BY <3>1 DEF InList
  <2>2. CASE ~ (j < i)
    <3>1. j - 1 \in 1..Len(old) /\ new[j].proc = old[j - 1].proc
      BY <1>0, <1>2, <2>2 DEF Links
    <3>. QED BY <3>1 DEF InList
  <2>. QED BY <2>1, <2>2
<1>3. InList(new) = InList(old) \cup {p}
  <2>1. InList(new) \subseteq InList(old) \cup {p}
    BY <1>0, <1>2 DEF InList
  <2>2. InList(old) \subseteq InList(new) /\ p \in InList(new)
    BY <1>0, <1>1 DEF InList
  <2>. QED BY <2>1, <2>2
<1>4. ASSUME NEW q PROVE TimeLeft(new, q) = IF q = p THEN n ELSE TimeLeft(old, q)
  <2>1. CASE q = p
    BY <1>0, <2>1, TimeLeftIs
  <2>2. CASE q # p /\ q \in InList(old)
    <3>1. PICK k \in 1..Len(old) : old[k].proc = q
      BY <2>2 DEF InList
    <3>2. PICK j \in 1..Len(new) : new[j].proc = q /\ Due(new, j) = Due(old, k)
      BY <1>1, <3>1
    <3>3. TimeLeft(old, q) = Due(old, k)
      BY <3>1, TimeLeftIs
    <3>4. TimeLeft(new, q) = Due(new, j)
      BY <1>0, <3>2, TimeLeftIs
    <3>. QED BY <2>2, <3>2, <3>3, <3>4
  <2>3. CASE q # p /\ q \notin InList(old)
    BY <1>0, <1>3, <2>3, TimeLeftIs
  <2>. QED BY <2>1, <2>2, <2>3
<1>. QED BY <1>0, <1>3, <1>4

\* An unlinked timer stops counting, and the others go on.
LEMMA UnlinksLeft ==
    ASSUME NEW old, NEW new, NEW i \in 1..Len(old), InOrder(old), Unlinks(old, new, i)
    PROVE  /\ InOrder(new) /\ InList(new) = InList(old) \ {old[i].proc}
           /\ \A q : TimeLeft(new, q) = IF q = old[i].proc THEN 0 ELSE TimeLeft(old, q)
<1>0. Len(old) \in Nat /\ Len(new) = Len(old) - 1 /\ InOrder(new)
  BY ListType DEF Unlinks, InOrder
<1>1. ASSUME NEW k \in 1..Len(old), k # i
      PROVE  \E j \in 1..Len(new) : new[j].proc = old[k].proc /\ Due(new, j) = Due(old, k)
  <2>1. CASE k < i
    <3>1. k \in 1..Len(new)
      BY <1>0, <2>1
    <3>. QED BY <2>1, <3>1 DEF Unlinks
  <2>2. CASE ~ (k < i)
    <3>1. k - 1 \in 1..Len(new) /\ ~ (k - 1 < i) /\ (k - 1) + 1 = k
      BY <1>0, <1>1, <2>2
    <3>2. new[k - 1].proc = old[k].proc /\ Due(new, k - 1) = Due(old, k)
      BY <3>1 DEF Unlinks
    <3>. QED BY <3>1, <3>2
  <2>. QED BY <2>1, <2>2
<1>2. ASSUME NEW j \in 1..Len(new)
      PROVE  \E k \in 1..Len(old) : k # i /\ new[j].proc = old[k].proc
  <2>1. CASE j < i
    <3>1. j \in 1..Len(old) /\ j # i /\ new[j].proc = old[j].proc
      BY <1>0, <2>1 DEF Unlinks
    <3>. QED BY <3>1
  <2>2. CASE ~ (j < i)
    <3>1. j + 1 \in 1..Len(old) /\ j + 1 # i /\ new[j].proc = old[j + 1].proc
      BY <1>0, <2>2 DEF Unlinks
    <3>. QED BY <3>1
  <2>. QED BY <2>1, <2>2
<1>3. InList(new) = InList(old) \ {old[i].proc}
  <2>1. ASSUME NEW q \in InList(new) PROVE q \in InList(old) /\ q # old[i].proc
    <3>1. PICK j \in 1..Len(new) : new[j].proc = q
      BY <2>1 DEF InList
    <3>2. PICK k \in 1..Len(old) : k # i /\ q = old[k].proc
      BY <1>2, <3>1
    <3>. QED BY <3>2 DEF InList, InOrder
  <2>2. ASSUME NEW q \in InList(old), q # old[i].proc PROVE q \in InList(new)
    <3>1. PICK k \in 1..Len(old) : old[k].proc = q
      BY <2>2 DEF InList
    <3>2. PICK j \in 1..Len(new) : new[j].proc = q
      BY <1>1, <2>2, <3>1
    <3>. QED BY <3>2 DEF InList
  <2>. QED BY <2>1, <2>2
<1>4. ASSUME NEW q PROVE TimeLeft(new, q) = IF q = old[i].proc THEN 0 ELSE TimeLeft(old, q)
  <2>1. CASE q = old[i].proc
    BY <1>0, <1>3, <2>1, TimeLeftIs
  <2>2. CASE q # old[i].proc /\ q \in InList(old)
    <3>1. PICK k \in 1..Len(old) : old[k].proc = q
      BY <2>2 DEF InList
    <3>2. PICK j \in 1..Len(new) : new[j].proc = q /\ Due(new, j) = Due(old, k)
      BY <1>1, <2>2, <3>1
    <3>3. TimeLeft(old, q) = Due(old, k)
      BY <3>1, TimeLeftIs
    <3>4. TimeLeft(new, q) = Due(new, j)
      BY <1>0, <3>2, TimeLeftIs
    <3>. QED BY <2>2, <3>2, <3>3, <3>4
  <2>3. CASE q # old[i].proc /\ q \notin InList(old)
    BY <1>0, <1>3, <2>3, TimeLeftIs
  <2>. QED BY <2>1, <2>2, <2>3
<1>. QED BY <1>0, <1>3, <1>4

\* A tick counts down for everybody, and takes those who have one tick left.
LEMMA FiresLeft ==
    ASSUME NEW old, NEW new, NEW m, InOrder(old), Fires(old, new, m)
    PROVE  /\ InOrder(new) /\ InList(new) \subseteq InList(old)
           /\ {old[k].proc : k \in 1..m} = {q \in InList(old) : TimeLeft(old, q) = 1}
           /\ \A q : q \in InList(old) => q \in InList(new) \/ TimeLeft(old, q) = 1
           /\ \A q : TimeLeft(new, q) = IF TimeLeft(old, q) > 0 THEN TimeLeft(old, q) - 1 ELSE 0
<1>0. Len(old) \in Nat /\ m \in 0..Len(old) /\ Len(new) = Len(old) - m /\ InOrder(new)
  BY ListType DEF Fires, InOrder
<1>1. ASSUME NEW k \in 1..Len(new)
      PROVE  /\ m + k \in 1..Len(old) /\ new[k].proc = old[m + k].proc
             /\ Due(new, k) = Due(old, m + k) - 1
  BY <1>0 DEF Fires
<1>2. ASSUME NEW k \in 1..Len(old), k > m
      PROVE  \E j \in 1..Len(new) : new[j].proc = old[k].proc /\ Due(new, j) = Due(old, k) - 1
  <2>1. k - m \in 1..Len(new) /\ m + (k - m) = k
    BY <1>0, <1>2
  <2>. QED BY <1>1, <2>1
<1>3. \A k \in 1..Len(old) : TimeLeft(old, old[k].proc) = Due(old, k)
  BY TimeLeftIs
<1>4. {old[k].proc : k \in 1..m} = {q \in InList(old) : TimeLeft(old, q) = 1}
  <2>1. ASSUME NEW k \in 1..m
        PROVE  old[k].proc \in InList(old) /\ TimeLeft(old, old[k].proc) = 1
    <3>1. k \in 1..Len(old) /\ k <= m
      BY <1>0
    <3>. QED BY <1>3, <3>1 DEF Fires, InList
  <2>2. ASSUME NEW q \in InList(old), TimeLeft(old, q) = 1
        PROVE  q \in {old[k].proc : k \in 1..m}
    <3>1. PICK k \in 1..Len(old) : old[k].proc = q
      BY <2>2 DEF InList
    <3>2. k <= m
      BY <1>3, <2>2, <3>1 DEF Fires
    <3>3. k \in 1..m
      BY <1>0, <3>2
    <3>. QED BY <3>1, <3>3
  <2>. QED BY <2>1, <2>2
<1>5. ASSUME NEW q \in InList(new)
      PROVE  q \in InList(old) /\ TimeLeft(new, q) = TimeLeft(old, q) - 1
  <2>1. PICK k \in 1..Len(new) : new[k].proc = q
    BY <1>5 DEF InList
  <2>2. TimeLeft(new, q) = Due(new, k)
    BY <1>0, <2>1, TimeLeftIs
  <2>3. TimeLeft(old, q) = Due(old, m + k) /\ q \in InList(old)
    BY <1>1, <1>3, <2>1 DEF InList
  <2>. QED BY <1>1, <2>2, <2>3
<1>6. ASSUME NEW q, q \in InList(old), q \notin InList(new) PROVE TimeLeft(old, q) = 1
  <2>1. PICK k \in 1..Len(old) : old[k].proc = q
    BY <1>6 DEF InList
  <2>2. CASE k > m
    <3>1. PICK j \in 1..Len(new) : new[j].proc = q
      BY <1>2, <2>1, <2>2
    <3>. QED BY <1>6, <3>1 DEF InList
  <2>3. CASE k <= m
    BY <1>3, <2>1, <2>3 DEF Fires
  <2>. QED BY <1>0, <2>2, <2>3
<1>7. ASSUME NEW q
      PROVE  TimeLeft(new, q) = IF TimeLeft(old, q) > 0 THEN TimeLeft(old, q) - 1 ELSE 0
  <2>1. /\ TimeLeft(old, q) \in Nat /\ (TimeLeft(old, q) > 0 <=> q \in InList(old))
        /\ (q \notin InList(new) => TimeLeft(new, q) = 0)
    BY <1>0, TimeLeftIs
  <2>2. CASE q \in InList(new)
    BY <1>5, <2>1, <2>2
  <2>3. CASE q \notin InList(new) /\ q \in InList(old)
    BY <1>6, <2>1, <2>3
  <2>4. CASE q \notin InList(new) /\ q \notin InList(old)
    BY <2>1, <2>4
  <2>. QED BY <2>2, <2>3, <2>4
<1>. QED BY <1>0, <1>4, <1>5, <1>6, <1>7

-----------------------------------------------------------------------------
(* The invariant and the theorems.                                         *)

\* The list is in order, and its timers are those of the processes in do_sleep.
IInv ==
    /\ phase \in [Procs -> {"out", "asleep", "woken"}]
    /\ InOrder(timer_list)
    /\ InList(timer_list) \subseteq Procs
    /\ \A p \in Procs : /\ phase[p] = "asleep" => p \in InList(timer_list)
                        /\ p \in InList(timer_list) => phase[p] # "out"

\* Linked, said of the list.
LEMMA LinkedIs ==
    IInv => Linked = InList(timer_list) /\ DOMAIN timer_list = 1..Len(timer_list)
BY ListType DEF IInv, InOrder, Linked, InList

\* What the module of the promise calls the time remaining.
Remaining == [p \in Procs |-> IF p \in Linked THEN Due(timer_list, IndexOf(p)) ELSE 0]

\* The time remaining is what the list says.
LEMMA RemainingIs == IInv => Remaining = [p \in Procs |-> TimeLeft(timer_list, p)]
<1>. SUFFICES ASSUME IInv PROVE Remaining = [p \in Procs |-> TimeLeft(timer_list, p)]
  OBVIOUS
<1>1. InOrder(timer_list) /\ Linked = InList(timer_list) /\ DOMAIN timer_list = 1..Len(timer_list)
  BY LinkedIs DEF IInv
<1>2. ASSUME NEW p \in Procs, p \in Linked PROVE TimeLeft(timer_list, p) = Due(timer_list, IndexOf(p))
  <2>1. PICK i \in 1..Len(timer_list) : timer_list[i].proc = p
    BY <1>1, <1>2 DEF InList
  <2>2. IndexOf(p) = i
    BY <1>1, <2>1 DEF IndexOf, InOrder
  <2>. QED BY <1>1, <2>1, <2>2, TimeLeftIs
<1>3. ASSUME NEW p \in Procs, p \notin Linked PROVE TimeLeft(timer_list, p) = 0
  BY <1>1, <1>3, TimeLeftIs
<1>. QED BY <1>2, <1>3 DEF Remaining

\* What each operation does with the countdowns.
LEMMA SleepLeft ==
    ASSUME IInv, NEW p \in Procs, NEW n \in Nat \ {0}, Sleep(p, n)
    PROVE  /\ InOrder(timer_list') /\ InList(timer_list') = InList(timer_list) \cup {p}
           /\ \A q : TimeLeft(timer_list', q) = IF q = p THEN n ELSE TimeLeft(timer_list, q)
<1>1. p \notin InList(timer_list) /\ InOrder(timer_list) /\ timer_list' = AddTimer(timer_list, p, n)
  BY DEF Sleep, IInv
<1>2. \A i \in 1..Len(timer_list) : timer_list[i].proc # p
  BY <1>1 DEF InList
<1>3. PICK i \in 1..Len(timer_list) + 1 : Links(timer_list, timer_list', i, p, n)
  BY <1>1, <1>2, AddTimerLinks
<1>. QED BY <1>1, <1>3, LinksLeft

\* Who leaves do_sleep has no time left.
LEMMA ReturnLeft ==
    ASSUME IInv, NEW p \in Procs, Return(p)
    PROVE  /\ InOrder(timer_list') /\ InList(timer_list') = InList(timer_list) \ {p}
           /\ \A q : TimeLeft(timer_list', q) = IF q = p THEN 0 ELSE TimeLeft(timer_list, q)
<1>1. InOrder(timer_list) /\ timer_list' = DelTimer(timer_list, p)
  BY DEF Return, IInv
<1>2. CASE p \in InList(timer_list)
  <2>1. PICK i \in 1..Len(timer_list) : timer_list[i].proc = p
    BY <1>2 DEF InList
  <2>2. Unlinks(timer_list, timer_list', i)
    BY <1>1, <2>1, DelTimerUnlinks
  <2>. QED BY <1>1, <2>1, <2>2, UnlinksLeft
<1>3. CASE p \notin InList(timer_list)
  <2>1. {i \in DOMAIN timer_list : timer_list[i].proc = p} = {}
    BY <1>3, LinkedIs DEF InList
  <2>2. timer_list' = timer_list
    BY <1>1, <2>1 DEF DelTimer
  <2>. QED BY <1>1, <1>3, <2>2, TimeLeftIs
<1>. QED BY <1>2, <1>3

\* A tick takes one from everybody.
LEMMA TickLeft ==
    ASSUME IInv, Tick
    PROVE  /\ InOrder(timer_list') /\ InList(timer_list') \subseteq InList(timer_list)
           /\ phase' = [p \in Procs |-> IF TimeLeft(timer_list, p) = 1 THEN "woken" ELSE phase[p]]
           /\ \A q \in InList(timer_list) : q \in InList(timer_list') \/ TimeLeft(timer_list, q) = 1
           /\ \A q : TimeLeft(timer_list', q) =
                 IF TimeLeft(timer_list, q) > 0 THEN TimeLeft(timer_list, q) - 1 ELSE 0
<1>0. InOrder(timer_list) /\ timer_list \in Seq(Timer) /\ Len(timer_list) \in Nat
  BY ListType DEF IInv, InOrder
<1>1. CASE timer_list = << >>
  <2>1. UNCHANGED << phase, timer_list >> /\ Len(timer_list) = 0
    BY <1>1 DEF Tick, vars
  <2>2. InList(timer_list) = {}
    BY <2>1 DEF InList
  <2>3. \A q : TimeLeft(timer_list, q) = 0
    BY <2>2 DEF TimeLeft
  <2>4. phase' = [p \in Procs |-> phase[p]]
    BY <2>1 DEF IInv
  <2>. QED BY <1>0, <2>1, <2>2, <2>3, <2>4
<1>2. CASE timer_list # << >>
  <2> DEFINE ticked == [timer_list EXCEPT ![1].expires = @ - 1]
  <2>1. Len(timer_list) > 0
    BY <1>0, <1>2
  <2>2. Decrements(timer_list, ticked, timer_list')
    BY <1>2 DEF Tick, Decrements
  <2>3. phase' = [p \in Procs |-> IF p \in {ticked[i].proc : i \in Firing(ticked)}
                                  THEN "woken" ELSE phase[p]]
    BY <1>2 DEF Tick
  <2>. HIDE DEF ticked
  <2>4. PICK m \in 0..Len(timer_list) :
           /\ Fires(timer_list, timer_list', m)
           /\ Firing(ticked) = 1..m
           /\ \A k \in 1..Len(timer_list) : ticked[k].proc = timer_list[k].proc
    BY <1>0, <2>1, <2>2, TickFires
  <2>5. /\ InOrder(timer_list') /\ InList(timer_list') \subseteq InList(timer_list)
        /\ {timer_list[k].proc : k \in 1..m} = {q \in InList(timer_list) : TimeLeft(timer_list, q) = 1}
        /\ \A q : q \in InList(timer_list) => q \in InList(timer_list') \/ TimeLeft(timer_list, q) = 1
        /\ \A q : TimeLeft(timer_list', q) =
              IF TimeLeft(timer_list, q) > 0 THEN TimeLeft(timer_list, q) - 1 ELSE 0
    BY <1>0, <2>4, FiresLeft
  <2>6. {ticked[i].proc : i \in Firing(ticked)} = {timer_list[k].proc : k \in 1..m}
    <3>1. \A k \in 1..m : k \in 1..Len(timer_list)
      BY <1>0
    <3>. QED BY <2>4, <3>1
  <2>7. \A p : TimeLeft(timer_list, p) = 1 => p \in InList(timer_list)
    BY DEF TimeLeft
  <2>8. \A p \in Procs : p \in {ticked[i].proc : i \in Firing(ticked)} <=> TimeLeft(timer_list, p) = 1
    BY <2>5, <2>6, <2>7
  <2>9. phase' = [p \in Procs |-> IF TimeLeft(timer_list, p) = 1 THEN "woken" ELSE phase[p]]
    BY <2>3, <2>8
  <2>. QED BY <2>5, <2>9
<1>. QED BY <1>1, <1>2

\* The invariant at the start.
LEMMA InvInit == Init => IInv
<1>. SUFFICES ASSUME Init PROVE IInv
  OBVIOUS
<1>1. timer_list = << >> /\ timer_list \in Seq(Timer) /\ Len(timer_list) = 0
  BY DEF Init
<1>2. InList(timer_list) = {}
  BY <1>1 DEF InList
<1>3. InOrder(timer_list)
  BY <1>1 DEF InOrder
<1>. QED BY <1>2, <1>3 DEF Init, IInv

\* One operation, said of the countdowns alone.
LEMMA InvStep == IInv /\ [Next]_vars => IInv'
<1>. SUFFICES ASSUME IInv, [Next]_vars PROVE IInv'
  OBVIOUS
<1>0. phase \in [Procs -> {"out", "asleep", "woken"}] /\ InList(timer_list) \subseteq Procs
  BY DEF IInv
<1>1. ASSUME NEW p \in Procs, NEW n \in 1..MaxSleep, Sleep(p, n) PROVE IInv'
  <2>1. n \in Nat \ {0}
    OBVIOUS
  <2>2. InOrder(timer_list') /\ InList(timer_list') = InList(timer_list) \cup {p}
    BY <1>1, <2>1, SleepLeft
  <2>3. phase' = [phase EXCEPT ![p] = "asleep"]
    BY <1>1 DEF Sleep
  <2>. QED BY <1>0, <2>2, <2>3 DEF IInv
<1>2. ASSUME NEW p \in Procs, Kill(p) PROVE IInv'
  BY <1>2 DEF IInv, Kill
<1>3. ASSUME NEW p \in Procs, Return(p) PROVE IInv'
  <2>1. InOrder(timer_list') /\ InList(timer_list') = InList(timer_list) \ {p}
    BY <1>3, ReturnLeft
  <2>2. phase' = [phase EXCEPT ![p] = "out"]
    BY <1>3 DEF Return
  <2>. QED BY <1>0, <2>1, <2>2 DEF IInv
<1>4. CASE Tick
  <2>1. /\ InOrder(timer_list') /\ InList(timer_list') \subseteq InList(timer_list)
        /\ phase' = [p \in Procs |-> IF TimeLeft(timer_list, p) = 1 THEN "woken" ELSE phase[p]]
        /\ \A q \in InList(timer_list) : q \in InList(timer_list') \/ TimeLeft(timer_list, q) = 1
    BY <1>4, TickLeft
  <2>. QED BY <1>0, <2>1 DEF IInv
<1>5. CASE UNCHANGED vars
  BY <1>5 DEF IInv, vars
<1>. QED BY <1>1, <1>2, <1>3, <1>4, <1>5 DEF Next

\* The invariant always holds.
LEMMA Inductive == Spec => []IInv
BY InvInit, InvStep, PTL DEF Spec

\* A process asleep in do_sleep has a timer, and one outside has none, for any
\* number of processes: no timer stays behind in a stack frame that is gone.
THEOREM SleepersCorrect == Spec => []TimersMatchSleepers
<1>1. IInv => TimersMatchSleepers
  <2>. SUFFICES ASSUME IInv PROVE TimersMatchSleepers
    OBVIOUS
  <2>1. Linked = InList(timer_list)
    BY LinkedIs
  <2>. QED BY <2>1 DEF IInv, TimersMatchSleepers
<1>. QED BY <1>1, Inductive, PTL

\* The head of the list has time left, so the assertion of run_timer_list
\* holds, and no process has two timers, for any number of processes.
THEOREM HeadCorrect == Spec => []HeadHasTime
<1>1. IInv => HeadHasTime
  <2>. SUFFICES ASSUME IInv PROVE HeadHasTime
    OBVIOUS
  <2>0. InOrder(timer_list) /\ timer_list \in Seq(Timer) /\ Len(timer_list) \in Nat
    BY ListType DEF IInv, InOrder
  <2>1. timer_list # << >> => timer_list[1].expires > 0
    BY <2>0 DEF InOrder
  <2> DEFINE n == Len(timer_list)
             f == [i \in 1..n |-> timer_list[i].proc]
  <2>2. f \in Bijection(1..n, InList(timer_list))
    <3>1. f \in [1..n -> InList(timer_list)]
      BY DEF InList
    <3>2. \A i, j \in 1..n : f[i] = f[j] => i = j
      BY <2>0 DEF InOrder
    <3>3. \A q \in InList(timer_list) : \E i \in 1..n : f[i] = q
      BY DEF InList
    <3>. HIDE DEF f
    <3>. QED BY <3>1, <3>2, <3>3 DEF Bijection, Injection, Surjection, IsInjective
  <2>3. IsFiniteSet(1..n) /\ Cardinality(1..n) = n
    <3>1. IsFiniteSet(1..n) /\ Cardinality(1..n) = IF 1 > n THEN 0 ELSE n - 1 + 1
      BY <2>0, FS_Interval
    <3>. QED BY <2>0, <3>1
  <2>4. Cardinality(InList(timer_list)) = n
    BY <2>2, <2>3, FS_Bijection DEF ExistsBijection
  <2>. QED BY <2>1, <2>4, LinkedIs DEF HeadHasTime
<1>. QED BY <1>1, Inductive, PTL

\* Every step of the list is one of the countdowns.
LEMMA PromiseStep ==
    IInv /\ IInv' /\ [Next]_vars => [Abstract!Next]_<< phase, Remaining >>
<1>. SUFFICES ASSUME IInv, IInv', [Next]_vars
     PROVE  Abstract!Next \/ UNCHANGED << phase, Remaining >>
  OBVIOUS
<1>1. Remaining = [p \in Procs |-> TimeLeft(timer_list, p)]
  BY RemainingIs
<1>2. Remaining' = [p \in Procs |-> TimeLeft(timer_list', p)]
  <2>1. (IInv => Remaining = [p \in Procs |-> TimeLeft(timer_list, p)])'
    BY RemainingIs, PTL
  <2>. QED BY <2>1
<1>r. [p \in Procs |-> IF p \in Linked THEN Due(timer_list, IndexOf(p)) ELSE 0] = Remaining
  BY DEF Remaining
<1>3. ASSUME NEW p \in Procs, NEW n \in 1..MaxSleep, Sleep(p, n) PROVE Abstract!Next
  <2>1. n \in Nat \ {0}
    OBVIOUS
  <2>2. \A q : TimeLeft(timer_list', q) = IF q = p THEN n ELSE TimeLeft(timer_list, q)
    BY <1>3, <2>1, SleepLeft
  <2>3. Remaining' = [Remaining EXCEPT ![p] = n]
    BY <1>1, <1>2, <2>2
  <2>4. phase[p] = "out" /\ phase' = [phase EXCEPT ![p] = "asleep"]
    BY <1>3 DEF Sleep
  <2>5. Abstract!Sleep(p, n)
    BY <2>3, <2>4 DEF Abstract!Sleep, Remaining
  <2>. QED BY <2>5 DEF Abstract!Next
<1>4. ASSUME NEW p \in Procs, Kill(p) PROVE Abstract!Next
  <2>1. Remaining' = Remaining
    BY <1>1, <1>2, <1>4 DEF Kill
  <2>2. Abstract!Kill(p)
    BY <1>4, <2>1 DEF Kill, Abstract!Kill, Remaining
  <2>. QED BY <2>2 DEF Abstract!Next
<1>5. ASSUME NEW p \in Procs, Return(p) PROVE Abstract!Next
  <2>2. \A q : TimeLeft(timer_list', q) = IF q = p THEN 0 ELSE TimeLeft(timer_list, q)
    BY <1>5, ReturnLeft
  <2>3. Remaining' = [Remaining EXCEPT ![p] = 0]
    BY <1>1, <1>2, <2>2
  <2>4. phase[p] = "woken" /\ phase' = [phase EXCEPT ![p] = "out"]
    BY <1>5 DEF Return
  <2>5. Abstract!Return(p)
    BY <2>3, <2>4 DEF Abstract!Return, Remaining
  <2>. QED BY <2>5 DEF Abstract!Next
<1>6. CASE Tick
  <2>1. /\ phase' = [p \in Procs |-> IF TimeLeft(timer_list, p) = 1 THEN "woken" ELSE phase[p]]
        /\ \A q : TimeLeft(timer_list', q) =
              IF TimeLeft(timer_list, q) > 0 THEN TimeLeft(timer_list, q) - 1 ELSE 0
    BY <1>6, TickLeft
  <2>2. phase' = [p \in Procs |-> IF Remaining[p] = 1 THEN "woken" ELSE phase[p]]
    BY <1>1, <2>1
  <2>3. Remaining' = [p \in Procs |-> IF Remaining[p] > 0 THEN Remaining[p] - 1 ELSE 0]
    BY <1>1, <1>2, <2>1
  <2>4. Abstract!Tick
    BY <2>2, <2>3 DEF Abstract!Tick, Remaining
  <2>. QED BY <2>4 DEF Abstract!Next
<1>7. CASE UNCHANGED vars
  BY <1>1, <1>2, <1>7 DEF vars
<1>. QED BY <1>3, <1>4, <1>5, <1>6, <1>7 DEF Next

\* However the sleepers come, are killed and leave, the delta list wakes each
\* of them at the tick it asked for, for any number of processes and any times.
THEOREM PromiseCorrect == Spec => KeepsPromise
<1>1. Init => Abstract!Init
  <2>. SUFFICES ASSUME Init PROVE Abstract!Init
    OBVIOUS
  <2>1. IInv /\ Len(timer_list) = 0
    BY InvInit DEF Init
  <2>2. \A p : TimeLeft(timer_list, p) = 0
    BY <2>1 DEF TimeLeft, InList
  <2>3. Remaining = [p \in Procs |-> 0]
    BY <2>1, <2>2, RemainingIs
  <2>. QED BY <2>3 DEF Init, Abstract!Init, Remaining
<1>2. IInv /\ IInv' /\ [Next]_vars
        => [Abstract!Next]_<< phase, [p \in Procs |-> IF p \in Linked
                                                      THEN Due(timer_list, IndexOf(p)) ELSE 0] >>
  BY PromiseStep DEF Remaining
<1>. QED BY <1>1, <1>2, Inductive, PTL DEF Spec, KeepsPromise, Abstract!Spec
=============================================================================
