------------------------------- MODULE DataLemmas ------------------------------
(***************************************************************************)
(* Induction over sets of natural numbers, the functions that recursion    *)
(* defines on an interval and along a chain of nodes, doubly linked lists  *)
(* as sequences of nodes, sums over them, and the pools they come from.    *)
(***************************************************************************)
EXTENDS Integers, SequencesExt, Pool, TLAPS, FiniteSetTheorems, WellFoundedInduction

\* A set of natural numbers that is not empty has a least element.
LEMMA LeastElement ==
    ASSUME NEW T \in SUBSET Nat, T # {}
    PROVE  \E m \in T : \A k \in T : m <= k
  <1>1. IsWellFoundedOn(OpToRel(<, Nat), Nat)
    BY NatLessThanWellFounded
  <1>2. PICK m \in T : \A k \in T : ~ (<<k, m>> \in OpToRel(<, Nat))
    BY <1>1, WFMin, Zenon
  <1>3. \A k \in T : k < m => <<k, m>> \in OpToRel(<, Nat)
    BY DEF OpToRel
  <1>4. \A k \in T : ~(k < m)
    BY <1>2, <1>3
  <1> QED
    BY <1>4

\* A set that contains zero, and the successor of each of its elements below n,
\* contains every number up to n.
LEMMA UpTo ==
    ASSUME NEW n \in Nat, NEW T, 0 \in T, \A k \in 0 .. (n - 1) : k \in T => k + 1 \in T
    PROVE  0 .. n \subseteq T
  <1> SUFFICES ASSUME (0 .. n) \ T # {} PROVE FALSE
    OBVIOUS
  <1> DEFINE Missing == (0 .. n) \ T
  <1>1. Missing \in SUBSET Nat /\ Missing # {}
    OBVIOUS
  <1>2. PICK m \in Missing : \A k \in Missing : m <= k
    <2> HIDE DEF Missing
    <2> QED
      BY <1>1, LeastElement
  <1>3. m # 0 /\ m - 1 \in 0 .. (n - 1) /\ m - 1 \in T
    BY <1>2
  <1> QED
    BY <1>2, <1>3

\* A first value in S, and a step for each of 1 .. n from S to S.
IsStep(S, n, base, step) == base \in S /\ step \in [1 .. n -> [S -> S]]
\* The function on 0 .. n that they define.
IsRecursion(S, n, base, step, f) ==
    /\ f \in [0 .. n -> S]
    /\ f[0] = base /\ \A i \in 1 .. n : f[i] = step[i][f[i - 1]]

\* What a recursion on an interval defines exists.
LEMMA RecursionOnInterval ==
    ASSUME NEW S, NEW n \in Nat, NEW base, NEW step, IsStep(S, n, base, step)
    PROVE  \E f : IsRecursion(S, n, base, step, f)
  <1> USE DEF IsStep
  <1> DEFINE Defined(m, f) == f = [i \in 0 .. m |-> IF i = 0 THEN base ELSE step[i][f[i - 1]]]
             T == {m \in 0 .. n : \E f \in [0 .. m -> S] : Defined(m, f)}
  <1>1. 0 \in T
    <2> DEFINE f == [i \in 0 .. 0 |-> base]
    <2>1. f \in [0 .. 0 -> S] /\ Defined(0, f)
      OBVIOUS
    <2> HIDE DEF f, Defined
    <2>2. \E h \in [0 .. 0 -> S] : Defined(0, h)
      BY <2>1
    <2> QED
      BY <2>2
  <1>2. \A m \in 0 .. (n - 1) : m \in T => m + 1 \in T
    <2> SUFFICES ASSUME NEW m \in 0 .. (n - 1), m \in T PROVE m + 1 \in T
      OBVIOUS
    <2>1. PICK f \in [0 .. m -> S] : Defined(m, f)
      OBVIOUS
    <2> DEFINE g == [i \in 0 .. (m + 1) |-> IF i = m + 1 THEN step[m + 1][f[m]] ELSE f[i]]
    <2>2. step[m + 1] \in [S -> S] /\ f[m] \in S
      OBVIOUS
    <2>3. g \in [0 .. (m + 1) -> S]
      BY <2>2
    <2>4. \A i \in 0 .. (m + 1) : g[i] = IF i = 0 THEN base ELSE step[i][g[i - 1]]
      <3> SUFFICES ASSUME NEW i \in 0 .. (m + 1)
                   PROVE  g[i] = IF i = 0 THEN base ELSE step[i][g[i - 1]]
        OBVIOUS
      <3>1. CASE i = m + 1
        BY <3>1
      <3>2. CASE i # m + 1
        <4>1. i \in 0 .. m /\ g[i] = f[i] /\ (i # 0 => g[i - 1] = f[i - 1])
          BY <3>2
        <4>2. f[i] = IF i = 0 THEN base ELSE step[i][f[i - 1]]
          BY <2>1, <4>1
        <4> QED
          BY <4>1, <4>2
      <3> QED
        BY <3>1, <3>2
    <2>5. Defined(m + 1, g)
      BY <2>4
    <2> HIDE DEF g, Defined
    <2>6. \E h \in [0 .. (m + 1) -> S] : Defined(m + 1, h)
      BY <2>3, <2>5
    <2> QED
      BY <2>6
  <1> HIDE DEF T
  <1>3. 0 .. n \subseteq T
    BY <1>1, <1>2, UpTo
  <1>4. PICK f \in [0 .. n -> S] : Defined(n, f)
    BY <1>3 DEF T
  <1>5. f[0] = base /\ \A i \in 1 .. n : f[i] = step[i][f[i - 1]]
    BY <1>4
  <1> QED
    BY <1>5 DEF IsRecursion

\* A rank that falls along the links of nodes 1 .. m, 0 for no link.
Falls(m, next, rank) ==
    /\ rank \in [1 .. m -> Nat]
    /\ \A n \in 1 .. m : next[n] # 0 => rank[next[n]] < rank[n]
\* The function on the nodes, and on 0, that a first value and a step per node define.
IsChainRecursion(S, m, base, next, step, f) ==
    /\ f \in [0 .. m -> S]
    /\ f[0] = base /\ \A n \in 1 .. m : f[n] = step[n][f[next[n]]]

\* What a recursion along a falling chain defines exists.
LEMMA RecursionAlongChains ==
    ASSUME NEW m \in Nat, NEW S, NEW base, NEW next \in [1 .. m -> 0 .. m],
           NEW rank, Falls(m, next, rank), NEW step, IsStep(S, m, base, step)
    PROVE  \E f : IsChainRecursion(S, m, base, next, step, f)
  <1>0. base \in S /\ step \in [1 .. m -> [S -> S]]
    BY DEF IsStep
  <1>a. rank \in [1 .. m -> Nat]
    BY DEF Falls
  <1>b. \A n \in 1 .. m : next[n] # 0 => rank[next[n]] < rank[n]
    BY DEF Falls
  <1> USE <1>0, <1>a, <1>b
  <1> DEFINE Defined(d, f) == /\ f[0] = base
                              /\ \A n \in 1 .. m : rank[n] < d => f[n] = step[n][f[next[n]]]
             Bounded(k) == \E K \in Nat : \A n \in 1 .. k : rank[n] < K
             B == {k \in 0 .. m : Bounded(k)}
  <1>1. Bounded(m)
    <2>1. 0 \in B
      OBVIOUS
    <2>2. \A k \in 0 .. (m - 1) : k \in B => k + 1 \in B
      <3> HIDE DEF Bounded
      <3> SUFFICES ASSUME NEW k \in 0 .. (m - 1), Bounded(k) PROVE Bounded(k + 1)
        OBVIOUS
      <3> USE DEF Bounded
      <3>1. PICK K \in Nat : \A n \in 1 .. k : rank[n] < K
        OBVIOUS
      <3>2. rank[k + 1] \in Nat
        OBVIOUS
      <3> DEFINE L == IF rank[k + 1] < K THEN K ELSE rank[k + 1] + 1
      <3>3. L \in Nat /\ \A n \in 1 .. (k + 1) : rank[n] < L
        <4>1. L \in Nat /\ K <= L /\ rank[k + 1] < L
          BY <3>2
        <4> HIDE DEF L
        <4>2. \A n \in 1 .. k : rank[n] \in Nat
          OBVIOUS
        <4>3. \A n \in 1 .. k : rank[n] < L
          BY <3>1, <4>1, <4>2
        <4>4. \A n \in 1 .. (k + 1) : n \in 1 .. k \/ n = k + 1
          OBVIOUS
        <4> QED
          BY <4>1, <4>3, <4>4
      <3> HIDE DEF L
      <3> QED
        BY <3>3
    <2> HIDE DEF Bounded
    <2>3. 0 .. m \subseteq B
      <3> HIDE DEF B
      <3> QED
        BY <2>1, <2>2, UpTo
    <2> QED
      BY <2>3
  <1>2. PICK K \in Nat : \A n \in 1 .. m : rank[n] < K
    BY <1>1
  <1> DEFINE T == {d \in 0 .. K : \E f \in [0 .. m -> S] : Defined(d, f)}
  <1>3. 0 \in T
    <2> DEFINE f == [n \in 0 .. m |-> base]
    <2>1. f \in [0 .. m -> S] /\ Defined(0, f)
      OBVIOUS
    <2> HIDE DEF f, Defined
    <2> QED
      BY <2>1
  <1>4. \A d \in 0 .. (K - 1) : d \in T => d + 1 \in T
    <2> SUFFICES ASSUME NEW d \in 0 .. (K - 1), NEW f \in [0 .. m -> S], Defined(d, f)
                 PROVE  \E g \in [0 .. m -> S] : Defined(d + 1, g)
      <3> HIDE DEF Defined
      <3> QED
        OBVIOUS
    <2> DEFINE g == [n \in 0 .. m |-> IF n # 0 /\ rank[n] = d THEN step[n][f[next[n]]] ELSE f[n]]
    <2>1. g \in [0 .. m -> S]
      OBVIOUS
    <2>2. g[0] = base
      OBVIOUS
    <2>3. ASSUME NEW n \in 1 .. m, rank[n] < d + 1 PROVE g[n] = step[n][g[next[n]]]
      <3> DEFINE after == next[n]
      <3>1. after \in 0 .. m /\ (after = 0 \/ (after \in 1 .. m /\ rank[after] \in Nat /\ rank[after] < d))
        BY <2>3
      <3> HIDE DEF after
      <3>2. g[after] = f[after] /\ n # 0 /\ n \in 0 .. m
        BY <3>1
      <3>3. CASE rank[n] = d
        <4>1. g[n] = step[n][f[next[n]]]
          BY <3>2, <3>3
        <4> QED
          BY <3>2, <4>1 DEF after
      <3>4. CASE rank[n] < d
        <4>1. g[n] = f[n]
          BY <3>2, <3>4
        <4>2. f[n] = step[n][f[next[n]]]
          BY <3>4
        <4> QED
          BY <3>2, <4>1, <4>2 DEF after
      <3>5. rank[n] \in Nat
        OBVIOUS
      <3>6. rank[n] = d \/ rank[n] < d
        BY <2>3, <3>5
      <3> QED
        BY <3>3, <3>4, <3>6
    <2>4. Defined(d + 1, g)
      BY <2>2, <2>3
    <2> HIDE DEF g, Defined
    <2> QED
      BY <2>1, <2>4
  <1> HIDE DEF T
  <1>5. 0 .. K \subseteq T
    BY <1>3, <1>4, UpTo
  <1> HIDE DEF Defined
  <1>6. PICK f \in [0 .. m -> S] : Defined(K, f)
    BY <1>5 DEF T
  <1>7. \A n \in 1 .. m : f[n] = step[n][f[next[n]]]
    BY <1>2, <1>6 DEF Defined
  <1>8. f \in [0 .. m -> S] /\ f[0] = base
    BY <1>6 DEF Defined
  <1>9. IsChainRecursion(S, m, base, next, step, f)
    BY <1>7, <1>8 DEF IsChainRecursion
  <1> QED
    BY <1>9

(* What deque::erase leaves: one element fewer, those behind it moved up.  *)
LEMMA RemoveAtShape ==
    ASSUME NEW S, NEW q \in Seq(S), NEW i \in DOMAIN q
    PROVE  /\ RemoveAt(q, i) \in Seq(S)
           /\ Len(RemoveAt(q, i)) = Len(q) - 1
           /\ \A j \in DOMAIN RemoveAt(q, i) :
                 RemoveAt(q, i)[j] = IF j < i THEN q[j] ELSE q[j + 1]
  <1> DEFINE A == SubSeq(q, 1, i - 1)
             B == SubSeq(q, i + 1, Len(q))
  <1>0. i \in 1 .. Len(q) /\ Len(q) \in Nat
    OBVIOUS
  <1>1. /\ A \in Seq(S) /\ Len(A) = i - 1
        /\ \A j \in 1 .. (i - 1) : A[j] = q[j]
    BY <1>0
  <1>2. /\ B \in Seq(S) /\ Len(B) = Len(q) - i
        /\ \A j \in 1 .. (Len(q) - i) : B[j] = q[i + j]
    BY <1>0
  <1>3. RemoveAt(q, i) = A \o B
    BY DEF RemoveAt
  <1> HIDE DEF A, B
  <1>4. /\ A \o B \in Seq(S) /\ Len(A \o B) = Len(q) - 1
        /\ DOMAIN (A \o B) = 1 .. (Len(q) - 1)
    BY <1>0, <1>1, <1>2
  <1>5. ASSUME NEW j \in 1 .. (Len(q) - 1)
        PROVE  (A \o B)[j] = IF j < i THEN q[j] ELSE q[j + 1]
    <2>1. CASE j < i
      BY <2>1, <1>0, <1>1, <1>2
    <2>2. CASE ~(j < i)
      <3>1. (A \o B)[j] = B[j - (i - 1)]
        BY <2>2, <1>0, <1>1, <1>2, SMTT(60)
      <3>2. j - (i - 1) \in 1 .. (Len(q) - i) /\ i + (j - (i - 1)) = j + 1
        BY <2>2, <1>0
      <3> QED
        BY <2>2, <3>1, <3>2, <1>2
    <2> QED
      BY <2>1, <2>2
  <1> QED
    BY <1>3, <1>4, <1>5

-----------------------------------------------------------------------------
(* Doubly linked lists                                                     *)

Before(s, i) == IF i = 1 THEN 0 ELSE s[i - 1]
After(s, i)  == IF i = Len(s) THEN 0 ELSE s[i + 1]
FirstOf(s) == IF s = <<>> THEN 0 ELSE s[1]
LastOf(s)  == IF s = <<>> THEN 0 ELSE s[Len(s)]

\* The nodes of s, among 1 .. m, are linked by next and prev in their order.
DList(m, next, prev, s) ==
    /\ s \in Seq(1 .. m)
    /\ \A i, j \in 1 .. Len(s) : s[i] = s[j] => i = j
    /\ \A i \in 1 .. Len(s) : next[s[i]] = After(s, i) /\ prev[s[i]] = Before(s, i)

\* A list whose nodes keep their links stays one, in a memory no smaller.
LEMMA ListKept ==
    ASSUME NEW m \in Nat, NEW next, NEW prev, NEW s, DList(m, next, prev, s),
           NEW n \in Nat, n >= m, NEW next2, NEW prev2,
           \A i \in 1 .. Len(s) : next2[s[i]] = next[s[i]] /\ prev2[s[i]] = prev[s[i]]
    PROVE  DList(n, next2, prev2, s)
  <1>1. s \in Seq(1 .. n)
    BY DEF DList
  <1> QED
    BY <1>1 DEF DList

\* The links after node x, whose neighbours are linked to each other, has been taken out.
Bypassed(m, next, prev, x, next2, prev2) ==
    \A y \in 1 .. m : y # x =>
       /\ next2[y] = IF y = prev[x] THEN next[x] ELSE next[y]
       /\ prev2[y] = IF y = next[x] THEN prev[x] ELSE prev[y]

\* Taking a node out of a list.
LEMMA ListWithout ==
    ASSUME NEW m \in Nat, NEW next, NEW prev, NEW s, DList(m, next, prev, s),
           NEW i \in 1 .. Len(s), NEW next2, NEW prev2,
           Bypassed(m, next, prev, s[i], next2, prev2)
    PROVE  /\ DList(m, next2, prev2, RemoveAt(s, i))
           /\ FirstOf(RemoveAt(s, i)) = IF prev[s[i]] = 0 THEN next[s[i]] ELSE FirstOf(s)
           /\ LastOf(RemoveAt(s, i)) = IF next[s[i]] = 0 THEN prev[s[i]] ELSE LastOf(s)
  <1> DEFINE r == RemoveAt(s, i)
             n == Len(s)
  <1>1. /\ s \in Seq(1 .. m) /\ n \in Nat /\ i \in 1 .. n
        /\ \A j \in 1 .. n : s[j] \in 1 .. m
    BY DEF DList
  <1>2. \A j, k \in 1 .. n : s[j] = s[k] => j = k
    BY DEF DList
  <1>3. /\ \A j \in 1 .. n : next[s[j]] = IF j = n THEN 0 ELSE s[j + 1]
        /\ \A j \in 1 .. n : prev[s[j]] = IF j = 1 THEN 0 ELSE s[j - 1]
    BY DEF DList, After, Before
  <1>4. /\ r \in Seq(1 .. m) /\ Len(r) = n - 1
        /\ \A j \in 1 .. (n - 1) : r[j] = IF j < i THEN s[j] ELSE s[j + 1]
    <2>1. i \in DOMAIN s /\ s \in Seq(1 .. m)
      BY <1>1
    <2> HIDE DEF n
    <2>2. /\ r \in Seq(1 .. m) /\ Len(r) = Len(s) - 1
          /\ \A j \in DOMAIN r : r[j] = IF j < i THEN s[j] ELSE s[j + 1]
      BY <2>1, RemoveAtShape
    <2> HIDE DEF r
    <2>3. DOMAIN r = 1 .. Len(r)
      BY <2>2
    <2> QED
      BY <2>2, <2>3 DEF n
  <1> HIDE DEF r, n
  <1>5. \A j, k \in 1 .. (n - 1) : r[j] = r[k] => j = k
    <2> SUFFICES ASSUME NEW j \in 1 .. (n - 1), NEW k \in 1 .. (n - 1), r[j] = r[k] PROVE j = k
      OBVIOUS
    <2>1. r[j] = (IF j < i THEN s[j] ELSE s[j + 1]) /\ r[k] = (IF k < i THEN s[k] ELSE s[k + 1])
      BY <1>4
    <2>2. j \in 1 .. n /\ j + 1 \in 1 .. n /\ k \in 1 .. n /\ k + 1 \in 1 .. n
      BY <1>1
    <2> DEFINE a == IF j < i THEN j ELSE j + 1
               b == IF k < i THEN k ELSE k + 1
    <2>3. a \in 1 .. n /\ b \in 1 .. n /\ s[a] = s[b]
      BY <2>1, <2>2
    <2>4. a = b
      BY <1>2, <2>3
    <2> QED
      BY <1>1, <2>4
  <1>6. /\ next[s[i]] = IF i = n THEN 0 ELSE s[i + 1]
        /\ prev[s[i]] = IF i = 1 THEN 0 ELSE s[i - 1]
    BY <1>1, <1>3
  <1>7. ASSUME NEW j \in 1 .. (n - 1)
        PROVE  /\ next2[r[j]] = IF j = n - 1 THEN 0 ELSE r[j + 1]
               /\ prev2[r[j]] = IF j = 1 THEN 0 ELSE r[j - 1]
    <2>0. j \in 1 .. n /\ j + 1 \in 1 .. n /\ (j + 1) - 1 = j
      BY <1>1
    <2>1. /\ i > 1 => i - 1 \in 1 .. n
          /\ i < n => i + 1 \in 1 .. n
      BY <1>1
    <2>2. \A k \in 1 .. n :
              /\ i > 1 => (s[k] = s[i - 1] <=> k = i - 1)
              /\ i < n => (s[k] = s[i + 1] <=> k = i + 1)
              /\ s[k] \in 1 .. m
              /\ k # i => s[k] # s[i]
      BY <1>1, <1>2, <2>1
    <2>3. \A k \in 1 .. n : k # i =>
              /\ next2[s[k]] = IF s[k] = prev[s[i]] THEN next[s[i]] ELSE next[s[k]]
              /\ prev2[s[k]] = IF s[k] = next[s[i]] THEN prev[s[i]] ELSE prev[s[k]]
      BY <2>2 DEF Bypassed
    <2>4. \A k \in 1 .. n : k # i =>
              /\ next2[s[k]] = IF i > 1 /\ k = i - 1 THEN (IF i = n THEN 0 ELSE s[i + 1])
                               ELSE IF k = n THEN 0 ELSE s[k + 1]
              /\ prev2[s[k]] = IF i < n /\ k = i + 1 THEN (IF i = 1 THEN 0 ELSE s[i - 1])
                               ELSE IF k = 1 THEN 0 ELSE s[k - 1]
      <3> SUFFICES ASSUME NEW k \in 1 .. n, k # i
                   PROVE  /\ next2[s[k]] = IF i > 1 /\ k = i - 1 THEN (IF i = n THEN 0 ELSE s[i + 1])
                               ELSE IF k = n THEN 0 ELSE s[k + 1]
                          /\ prev2[s[k]] = IF i < n /\ k = i + 1 THEN (IF i = 1 THEN 0 ELSE s[i - 1])
                               ELSE IF k = 1 THEN 0 ELSE s[k - 1]
        OBVIOUS
      <3>1. s[k] = prev[s[i]] <=> (i > 1 /\ k = i - 1)
        BY <1>1, <1>6, <2>2
      <3>2. s[k] = next[s[i]] <=> (i < n /\ k = i + 1)
        BY <1>1, <1>6, <2>2
      <3> QED
        BY <1>3, <1>6, <2>3, <3>1, <3>2
    <2>5. /\ r[j] = IF j < i THEN s[j] ELSE s[j + 1]
          /\ j > 1 => r[j - 1] = IF j - 1 < i THEN s[j - 1] ELSE s[j]
          /\ j < n - 1 => r[j + 1] = IF j + 1 < i THEN s[j + 1] ELSE s[(j + 1) + 1]
      <3>1. /\ j > 1 => j - 1 \in 1 .. (n - 1) /\ (j - 1) + 1 = j
            /\ j < n - 1 => j + 1 \in 1 .. (n - 1)
        BY <1>1
      <3> QED
        BY <1>4, <3>1
    <2>6. CASE j < i
      <3>1. /\ next2[s[j]] = IF j = i - 1 THEN (IF i = n THEN 0 ELSE s[i + 1]) ELSE s[j + 1]
            /\ prev2[s[j]] = IF j = 1 THEN 0 ELSE s[j - 1]
        BY <1>1, <2>0, <2>4, <2>6
      <3>2. j = i - 1 => i = j + 1 /\ i + 1 = (j + 1) + 1
        BY <1>1
      <3> QED
        BY <1>1, <2>5, <2>6, <3>1, <3>2
    <2>7. CASE j >= i
      <3>1. /\ next2[s[j + 1]] = IF j + 1 = n THEN 0 ELSE s[(j + 1) + 1]
            /\ prev2[s[j + 1]] = IF j = i THEN (IF i = 1 THEN 0 ELSE s[i - 1]) ELSE s[j]
        BY <1>1, <2>0, <2>4, <2>7
      <3> QED
        BY <1>1, <2>5, <2>7, <3>1
    <2> QED
      BY <1>1, <2>6, <2>7
  <1>8. DList(m, next2, prev2, r)
    BY <1>1, <1>4, <1>5, <1>7 DEF DList, After, Before
  <1>9. s # <<>> /\ (r = <<>> <=> n = 1)
    <2>1. n - 1 \in Nat
      BY <1>1
    <2>2. (s = <<>> <=> n = 0) /\ (r = <<>> <=> Len(r) = 0)
      BY <1>1, <1>4, SMTT(60) DEF n
    <2> QED
      BY <1>1, <1>4, <2>1, <2>2
  <1>10. FirstOf(s) = s[1] /\ LastOf(s) = s[n]
    BY <1>9 DEF FirstOf, LastOf, n
  <1>11. /\ FirstOf(r) = IF n = 1 THEN 0 ELSE r[1]
         /\ LastOf(r) = IF n = 1 THEN 0 ELSE r[n - 1]
    BY <1>4, <1>9 DEF FirstOf, LastOf
  <1>12. n # 1 => /\ r[1] = IF 1 < i THEN s[1] ELSE s[2]
                  /\ r[n - 1] = IF n - 1 < i THEN s[n - 1] ELSE s[n]
    <2>1. n # 1 => 1 \in 1 .. (n - 1) /\ n - 1 \in 1 .. (n - 1) /\ (n - 1) + 1 = n
      BY <1>1
    <2> QED
      BY <1>4, <2>1
  <1>13. /\ \A j \in 1 .. n : s[j] # 0
         /\ i > 1 => s[i - 1] # 0
         /\ i < n => s[i + 1] # 0
    BY <1>1
  <1>14. FirstOf(r) = IF prev[s[i]] = 0 THEN next[s[i]] ELSE FirstOf(s)
    BY <1>1, <1>6, <1>10, <1>11, <1>12, <1>13
  <1>15. LastOf(r) = IF next[s[i]] = 0 THEN prev[s[i]] ELSE LastOf(s)
    BY <1>1, <1>6, <1>10, <1>11, <1>12, <1>13
  <1> QED
    BY <1>8, <1>14, <1>15 DEF r

\* The sequence with x behind its first j elements.
With(s, j, x) == [i \in 1 .. (Len(s) + 1) |-> IF i <= j THEN s[i] ELSE IF i = j + 1 THEN x ELSE s[i - 1]]

\* The links after node x has been put in behind the first j of s.
Spliced(next, prev, s, j, x, next2, prev2) ==
    /\ next2[x] = IF j = Len(s) THEN 0 ELSE s[j + 1]
    /\ prev2[x] = IF j = 0 THEN 0 ELSE s[j]
    /\ \A i \in 1 .. Len(s) :
          /\ next2[s[i]] = IF i = j THEN x ELSE next[s[i]]
          /\ prev2[s[i]] = IF i = j + 1 THEN x ELSE prev[s[i]]

\* Putting a node into a list.
LEMMA ListWith ==
    ASSUME NEW m \in Nat, NEW next, NEW prev, NEW s, DList(m, next, prev, s),
           NEW k \in Nat, k >= m, NEW next2, NEW prev2,
           NEW j \in 0 .. Len(s), NEW x \in 1 .. k, \A i \in 1 .. Len(s) : s[i] # x,
           Spliced(next, prev, s, j, x, next2, prev2)
    PROVE  /\ DList(k, next2, prev2, With(s, j, x))
           /\ FirstOf(With(s, j, x)) = IF j = 0 THEN x ELSE FirstOf(s)
           /\ LastOf(With(s, j, x)) = IF j = Len(s) THEN x ELSE LastOf(s)
  <1> DEFINE r == With(s, j, x)
             n == Len(s)
  <1>1. /\ s \in Seq(1 .. m) /\ n \in Nat /\ j \in 0 .. n
        /\ \A i \in 1 .. n : s[i] \in 1 .. k /\ s[i] # x
    BY DEF DList
  <1>2. \A a, b \in 1 .. n : s[a] = s[b] => a = b
    BY DEF DList
  <1>3. /\ \A i \in 1 .. n : next[s[i]] = IF i = n THEN 0 ELSE s[i + 1]
        /\ \A i \in 1 .. n : prev[s[i]] = IF i = 1 THEN 0 ELSE s[i - 1]
    BY DEF DList, After, Before
  <1>4. /\ r \in Seq(1 .. k) /\ Len(r) = n + 1
        /\ \A i \in 1 .. (n + 1) : r[i] = IF i <= j THEN s[i] ELSE IF i = j + 1 THEN x ELSE s[i - 1]
    <2>1. r \in [1 .. (n + 1) -> 1 .. k]
      <3> SUFFICES ASSUME NEW i \in 1 .. (n + 1)
                   PROVE  (IF i <= j THEN s[i] ELSE IF i = j + 1 THEN x ELSE s[i - 1]) \in 1 .. k
        BY DEF With
      <3>1. /\ i <= j => i \in 1 .. n
            /\ i > j /\ i # j + 1 => i - 1 \in 1 .. n
        BY <1>1
      <3> QED
        BY <1>1, <3>1
    <2>2. \A i \in 1 .. (n + 1) : r[i] = IF i <= j THEN s[i] ELSE IF i = j + 1 THEN x ELSE s[i - 1]
      BY DEF With
    <2> HIDE DEF r
    <2>3. n + 1 \in Nat
      BY <1>1
    <2> HIDE DEF n
    <2> QED
      BY <2>1, <2>2, <2>3
  <1>5. /\ next2[x] = IF j = n THEN 0 ELSE s[j + 1]
        /\ prev2[x] = IF j = 0 THEN 0 ELSE s[j]
        /\ \A i \in 1 .. n : /\ next2[s[i]] = IF i = j THEN x ELSE next[s[i]]
                             /\ prev2[s[i]] = IF i = j + 1 THEN x ELSE prev[s[i]]
    BY DEF Spliced
  <1> HIDE DEF r, n
  <1>6. \A a, b \in 1 .. (n + 1) : r[a] = r[b] => a = b
    <2> SUFFICES ASSUME NEW a \in 1 .. (n + 1), NEW b \in 1 .. (n + 1), r[a] = r[b] PROVE a = b
      OBVIOUS
    <2> DEFINE At(i) == IF i <= j THEN i ELSE i - 1
    <2>1. /\ r[a] = IF a = j + 1 THEN x ELSE s[At(a)]
          /\ r[b] = IF b = j + 1 THEN x ELSE s[At(b)]
      <3>1. /\ r[a] = IF a <= j THEN s[a] ELSE IF a = j + 1 THEN x ELSE s[a - 1]
            /\ r[b] = IF b <= j THEN s[b] ELSE IF b = j + 1 THEN x ELSE s[b - 1]
        BY <1>4
      <3>2. ~(a = j + 1 /\ a <= j) /\ ~(b = j + 1 /\ b <= j)
        BY <1>1
      <3> QED
        BY <3>1, <3>2
    <2>2. /\ a # j + 1 => At(a) \in 1 .. n
          /\ b # j + 1 => At(b) \in 1 .. n
      BY <1>1
    <2>3. (a # j + 1 /\ b # j + 1 /\ At(a) = At(b)) => a = b
      BY <1>1
    <2> HIDE DEF At
    <2> QED
      BY <1>1, <1>2, <2>1, <2>2, <2>3
  <1>7. ASSUME NEW i \in 1 .. (n + 1)
        PROVE  /\ next2[r[i]] = IF i = n + 1 THEN 0 ELSE r[i + 1]
               /\ prev2[r[i]] = IF i = 1 THEN 0 ELSE r[i - 1]
    <2>1. /\ i <= n => r[i + 1] = IF i + 1 <= j THEN s[i + 1] ELSE IF i = j THEN x ELSE s[i]
          /\ i > 1 => r[i - 1] = IF i - 1 <= j THEN s[i - 1]
                                 ELSE IF i - 1 = j + 1 THEN x ELSE s[(i - 1) - 1]
          /\ r[i] = IF i <= j THEN s[i] ELSE IF i = j + 1 THEN x ELSE s[i - 1]
      <3>1. /\ i <= n => i + 1 \in 1 .. (n + 1) /\ (i + 1) - 1 = i
            /\ i > 1 => i - 1 \in 1 .. (n + 1)
        BY <1>1
      <3>2. i <= n => r[i + 1] = IF i + 1 <= j THEN s[i + 1] ELSE IF i + 1 = j + 1 THEN x ELSE s[(i + 1) - 1]
        BY <1>4, <3>1
      <3>3. i > 1 => r[i - 1] = IF i - 1 <= j THEN s[i - 1] ELSE IF i - 1 = j + 1 THEN x ELSE s[(i - 1) - 1]
        BY <1>4, <3>1
      <3>4. i + 1 = j + 1 <=> i = j
        BY <1>1
      <3> QED
        BY <1>4, <3>1, <3>2, <3>3, <3>4
    <2>2. CASE i <= j
      <3>1. i \in 1 .. n /\ i <= n
        BY <1>1, <2>2
      <3>2. /\ next2[s[i]] = IF i = j THEN x ELSE IF i = n THEN 0 ELSE s[i + 1]
            /\ prev2[s[i]] = IF i = 1 THEN 0 ELSE s[i - 1]
        BY <1>1, <1>3, <1>5, <2>2, <3>1
      <3> QED
        BY <1>1, <2>1, <2>2, <3>1, <3>2
    <2>3. CASE i = j + 1
      <3>1. (j + 1) - 1 = j
        BY <1>1
      <3> QED
        BY <1>1, <1>5, <2>1, <2>3, <3>1
    <2>4. CASE i > j + 1
      <3>1. i - 1 \in 1 .. n /\ (i - 1) + 1 = i /\ i > 1 /\ i - 1 # j
        BY <1>1, <2>4
      <3>2. /\ next2[s[i - 1]] = IF i - 1 = n THEN 0 ELSE s[i]
            /\ prev2[s[i - 1]] = IF i - 1 = j + 1 THEN x ELSE s[(i - 1) - 1]
        BY <1>1, <1>3, <1>5, <2>4, <3>1
      <3> QED
        BY <1>1, <2>1, <2>4, <3>1, <3>2
    <2> QED
      BY <1>1, <2>2, <2>3, <2>4
  <1>8. DList(k, next2, prev2, r)
    BY <1>1, <1>4, <1>6, <1>7 DEF DList, After, Before
  <1>9. r # <<>> /\ FirstOf(r) = r[1] /\ LastOf(r) = r[n + 1]
    BY <1>1, <1>4 DEF FirstOf, LastOf
  <1>10. (s = <<>> <=> n = 0) /\ FirstOf(s) = (IF n = 0 THEN 0 ELSE s[1])
         /\ LastOf(s) = (IF n = 0 THEN 0 ELSE s[n])
    BY <1>1 DEF FirstOf, LastOf, n
  <1>11. /\ r[1] = IF 1 <= j THEN s[1] ELSE x
         /\ r[n + 1] = IF j = n THEN x ELSE s[n]
    <2>1. 1 \in 1 .. (n + 1) /\ n + 1 \in 1 .. (n + 1) /\ (n + 1) - 1 = n
      BY <1>1
    <2> QED
      BY <1>1, <1>4, <2>1
  <1> QED
    BY <1>1, <1>8, <1>9, <1>10, <1>11 DEF r, n

-----------------------------------------------------------------------------
(* Sequences without repetition                                            *)

Elems(s) == {s[i] : i \in 1 .. Len(s)}

\* Two sequences end to end.
LEMMA Concatenation ==
    ASSUME NEW S, NEW a \in Seq(S), NEW b \in Seq(S)
    PROVE  /\ a \o b \in Seq(S) /\ Len(a \o b) = Len(a) + Len(b)
           /\ \A i \in 1 .. Len(a) : (a \o b)[i] = a[i]
           /\ \A i \in 1 .. Len(b) : (a \o b)[Len(a) + i] = b[i]
           /\ \A i \in 1 .. (Len(a) + Len(b)) :
                 i \in 1 .. Len(a) \/ \E k \in 1 .. Len(b) : i = Len(a) + k
           /\ Elems(a \o b) = Elems(a) \cup Elems(b)
  <1>1. /\ a \o b \in Seq(S) /\ Len(a \o b) = Len(a) + Len(b) /\ Len(a) \in Nat /\ Len(b) \in Nat
        /\ \A i \in 1 .. (Len(a) + Len(b)) :
              (a \o b)[i] = IF i <= Len(a) THEN a[i] ELSE b[i - Len(a)]
    OBVIOUS
  <1> DEFINE n == Len(a)
             m == Len(b)
             c == a \o b
  <1> HIDE DEF n, m, c
  <1>2. /\ n \in Nat /\ m \in Nat
        /\ \A i \in 1 .. (n + m) : c[i] = IF i <= n THEN a[i] ELSE b[i - n]
    BY <1>1 DEF n, m, c
  <1>3. ASSUME NEW i \in 1 .. n PROVE c[i] = a[i] /\ i \in 1 .. (n + m)
    BY <1>2
  <1>4. ASSUME NEW i \in 1 .. m PROVE c[n + i] = b[i] /\ n + i \in 1 .. (n + m)
    <2>1. n + i \in 1 .. (n + m) /\ ~(n + i <= n) /\ (n + i) - n = i
      BY <1>2
    <2> QED
      BY <1>2, <2>1
  <1>5. ASSUME NEW i \in 1 .. (n + m), i \notin 1 .. n
        PROVE  \E k \in 1 .. m : i = n + k
    <2>1. i - n \in 1 .. m /\ i = n + (i - n)
      BY <1>2, <1>5
    <2> QED
      BY <2>1
  <1>6. {c[i] : i \in 1 .. (n + m)} = {a[i] : i \in 1 .. n} \cup {b[i] : i \in 1 .. m}
    <2>1. ASSUME NEW i \in 1 .. (n + m)
          PROVE  c[i] \in {a[k] : k \in 1 .. n} \cup {b[k] : k \in 1 .. m}
      <3>1. CASE i \in 1 .. n
        BY <1>3, <3>1
      <3>2. CASE i \notin 1 .. n
        <4>1. PICK k \in 1 .. m : i = n + k
          BY <1>5, <3>2
        <4>2. c[i] = b[k]
          BY <1>4, <4>1
        <4> QED
          BY <4>2
      <3> QED
        BY <3>1, <3>2
    <2>2. ASSUME NEW i \in 1 .. n PROVE a[i] \in {c[k] : k \in 1 .. (n + m)}
      BY <1>3
    <2>3. ASSUME NEW i \in 1 .. m PROVE b[i] \in {c[k] : k \in 1 .. (n + m)}
      <3>1. n + i \in 1 .. (n + m) /\ c[n + i] = b[i]
        BY <1>4
      <3> QED
        BY <3>1
    <2> QED
      BY <2>1, <2>2, <2>3
  <1>7. Elems(c) = Elems(a) \cup Elems(b)
    <2>1. Len(c) = n + m
      BY <1>1 DEF n, m, c
    <2> QED
      BY <1>6, <2>1 DEF Elems, n, m
  <1> QED
    BY <1>1, <1>3, <1>4, <1>5, <1>7 DEF n, m, c

\* A sequence with one element replaced.
LEMMA SequenceUpdated ==
    ASSUME NEW S, NEW s \in Seq(S), NEW i \in 1 .. Len(s), NEW x \in S
    PROVE  /\ [s EXCEPT ![i] = x] \in Seq(S) /\ Len([s EXCEPT ![i] = x]) = Len(s)
           /\ \A k \in 1 .. Len(s) : [s EXCEPT ![i] = x][k] = IF k = i THEN x ELSE s[k]
  <1> DEFINE n == Len(s)
             r == [s EXCEPT ![i] = x]
  <1>1. n \in Nat /\ s \in [1 .. n -> S]
    OBVIOUS
  <1>2. r \in [1 .. n -> S] /\ \A k \in 1 .. n : r[k] = IF k = i THEN x ELSE s[k]
    BY <1>1
  <1> HIDE DEF n, r
  <1>3. r \in Seq(S) /\ Len(r) = n
    BY <1>1, <1>2
  <1> QED
    BY <1>2, <1>3 DEF n, r

-----------------------------------------------------------------------------
(* Sums of weights along a sequence of nodes                               *)

\* The running sums of the weights w along s.
Running(w, s, f) ==
    /\ f \in [0 .. Len(s) -> Int] /\ f[0] = 0
    /\ \A i \in 1 .. Len(s) : f[i] = f[i - 1] + w[s[i]]
\* The weights of the nodes of s are integers.
Integral(w, s) == \A i \in 1 .. Len(s) : w[s[i]] \in Int
IsTotal(w, s, v) == \E f : Running(w, s, f) /\ v = f[Len(s)]

\* The total of the empty sequence is zero.
LEMMA TotalOfNone ==
    ASSUME NEW w, NEW v, IsTotal(w, <<>>, v)
    PROVE  v = 0
  BY DEF IsTotal, Running

\* Weights that agree along a sequence give it the same total.
LEMMA TotalKept ==
    ASSUME NEW m \in Nat, NEW s \in Seq(1 .. m), NEW w, NEW w2,
           \A i \in 1 .. Len(s) : w2[s[i]] = w[s[i]],
           NEW v, IsTotal(w, s, v), NEW v2, IsTotal(w2, s, v2)
    PROVE  v2 = v
  <1> DEFINE n == Len(s)
  <1>1. n \in Nat
    OBVIOUS
  <1>2. PICK f : Running(w, s, f) /\ v = f[n]
    BY DEF IsTotal
  <1>3. PICK g : Running(w2, s, g) /\ v2 = g[n]
    BY DEF IsTotal
  <1>4. /\ f[0] = 0 /\ \A i \in 1 .. n : f[i] = f[i - 1] + w[s[i]]
        /\ g[0] = 0 /\ \A i \in 1 .. n : g[i] = g[i - 1] + w2[s[i]]
    BY <1>2, <1>3 DEF Running
  <1> DEFINE T == {k \in 0 .. n : g[k] = f[k]}
  <1>5. 0 \in T
    BY <1>1, <1>4
  <1>6. ASSUME NEW k \in 0 .. (n - 1), k \in T PROVE k + 1 \in T
    <2> HIDE DEF n
    <2>1. k + 1 \in 1 .. n /\ (k + 1) - 1 = k /\ k + 1 \in 0 .. n
      BY <1>1
    <2>2. w2[s[k + 1]] = w[s[k + 1]]
      BY <2>1 DEF n
    <2> QED
      BY <1>4, <1>6, <2>1, <2>2
  <1> HIDE DEF T, n
  <1>7. 0 .. n \subseteq T
    BY <1>1, <1>5, <1>6, UpTo
  <1>8. n \in T
    BY <1>1, <1>7
  <1> QED
    BY <1>2, <1>3, <1>8 DEF T

\* A node put into a sequence adds its weight.
LEMMA TotalWith ==
    ASSUME NEW m \in Nat, NEW s \in Seq(1 .. m), NEW w, NEW j \in 0 .. Len(s), NEW x,
           w[x] \in Int, Integral(w, s),
           NEW v \in Int, IsTotal(w, s, v), NEW v2 \in Int, IsTotal(w, With(s, j, x), v2)
    PROVE  v2 = v + w[x]
  <1> DEFINE n == Len(s)
             r == With(s, j, x)
  <1>1. n \in Nat /\ j \in 0 .. n
    OBVIOUS
  <1>2. /\ DOMAIN r = 1 .. (n + 1)
        /\ \A i \in 1 .. (n + 1) : r[i] = IF i <= j THEN s[i] ELSE IF i = j + 1 THEN x ELSE s[i - 1]
    BY DEF With
  <1>3. Len(r) = n + 1
    BY <1>1, <1>2
  <1> HIDE DEF r
  <1>4. PICK f : Running(w, s, f) /\ v = f[n]
    BY DEF IsTotal
  <1>5. PICK g : Running(w, r, g) /\ v2 = g[n + 1]
    BY <1>3 DEF IsTotal, r
  <1>6. /\ f \in [0 .. n -> Int] /\ f[0] = 0 /\ \A i \in 1 .. n : f[i] = f[i - 1] + w[s[i]]
        /\ g[0] = 0 /\ \A i \in 1 .. (n + 1) : g[i] = g[i - 1] + w[r[i]]
    BY <1>3, <1>4, <1>5 DEF Running
  <1> DEFINE y == w[x]
             T == {k \in 0 .. n : (k <= j => g[k] = f[k]) /\ (k >= j => g[k + 1] = f[k] + y)}
  <1> HIDE DEF n, y
  <1>7. 0 \in T
    <2>1. 0 + 1 = 1 /\ 1 - 1 = 0 /\ 1 \in 1 .. (n + 1) /\ 0 \in 0 .. n
      BY <1>1
    <2>2. g[1] = g[0] + w[r[1]]
      BY <1>6, <2>1
    <2>3. j <= 0 => r[1] = x
      BY <1>1, <1>2, <2>1
    <2> QED
      BY <1>1, <1>6, <2>1, <2>2, <2>3 DEF y
  <1>8. ASSUME NEW k \in 0 .. (n - 1), k \in T PROVE k + 1 \in T
    <2>1. /\ k + 1 \in 1 .. n /\ (k + 1) - 1 = k /\ k + 1 \in 0 .. n /\ k + 1 \in 1 .. (n + 1)
          /\ (k + 1) + 1 \in 1 .. (n + 1) /\ ((k + 1) + 1) - 1 = k + 1 /\ k \in Nat /\ k \in 0 .. n
      BY <1>1
    <2>2. /\ f[k + 1] = f[k] + w[s[k + 1]]
          /\ g[k + 1] = g[k] + w[r[k + 1]]
          /\ g[(k + 1) + 1] = g[k + 1] + w[r[(k + 1) + 1]]
      BY <1>6, <2>1
    <2>3. /\ k + 1 <= j => r[k + 1] = s[k + 1]
          /\ k + 1 = j => r[(k + 1) + 1] = x
          /\ k >= j => r[(k + 1) + 1] = s[k + 1]
      <3>1. /\ r[k + 1] = IF k + 1 <= j THEN s[k + 1] ELSE IF k + 1 = j + 1 THEN x ELSE s[(k + 1) - 1]
            /\ r[(k + 1) + 1] = IF (k + 1) + 1 <= j THEN s[(k + 1) + 1]
                                ELSE IF (k + 1) + 1 = j + 1 THEN x ELSE s[((k + 1) + 1) - 1]
        BY <1>2, <2>1
      <3>2. /\ k + 1 = j => ~((k + 1) + 1 <= j) /\ (k + 1) + 1 = j + 1
            /\ k >= j => ~((k + 1) + 1 <= j) /\ (k + 1) + 1 # j + 1
        BY <1>1, <2>1
      <3> QED
        BY <2>1, <3>1, <3>2
    <2>4. /\ k <= j => g[k] = f[k]
          /\ k >= j => g[k + 1] = f[k] + y
      BY <1>8
    <2>5. k + 1 <= j => g[k + 1] = f[k + 1]
      <3>1. k + 1 <= j => k <= j
        BY <1>1, <2>1
      <3> QED
        BY <2>2, <2>3, <2>4, <3>1
    <2>6. k + 1 = j => g[(k + 1) + 1] = f[k + 1] + y
      <3>1. k + 1 = j => k + 1 <= j
        BY <1>1
      <3> QED
        BY <2>2, <2>3, <2>5, <3>1 DEF y
    <2>7. k >= j => g[(k + 1) + 1] = f[k + 1] + y
      <3>1. f[k] \in Int /\ f[k + 1] \in Int /\ y \in Int
        BY <1>6, <2>1 DEF y
      <3> DEFINE z == w[s[k + 1]]
                 a == f[k]
      <3>2. k >= j => g[(k + 1) + 1] = (a + y) + z
        BY <2>2, <2>3, <2>4
      <3>3. f[k + 1] = a + z
        BY <2>2
      <3>4. a \in Int
        BY <3>1
      <3> HIDE DEF z, a
      <3>5. z \in Int => (a + y) + z = (a + z) + y
        BY <3>1, <3>4
      <3>6. z \in Int
        BY <2>1 DEF n, z, Integral
      <3> QED
        BY <3>2, <3>3, <3>5, <3>6
    <2>8. k + 1 >= j => k + 1 = j \/ k >= j
      BY <1>1, <2>1
    <2> QED
      BY <2>1, <2>5, <2>6, <2>7, <2>8
  <1> HIDE DEF T
  <1>9. 0 .. n \subseteq T
    BY <1>1, <1>7, <1>8, UpTo
  <1>10. n \in T
    BY <1>1, <1>9
  <1>11. g[n + 1] = f[n] + y /\ f[n] \in Int
    BY <1>1, <1>6, <1>10 DEF T
  <1> QED
    BY <1>4, <1>5, <1>11 DEF y

\* Every sequence of nodes with integer weights has a total.
LEMMA TotalExists ==
    ASSUME NEW m \in Nat, NEW s \in Seq(1 .. m), NEW w, Integral(w, s)
    PROVE  \E v \in Int : IsTotal(w, s, v)
  <1> DEFINE n == Len(s)
             base == 0
             step == [i \in 1 .. n |-> [a \in Int |-> a + w[s[i]]]]
  <1>1. n \in Nat /\ base \in Int
    OBVIOUS
  <1>2. IsStep(Int, n, base, step)
    BY DEF IsStep, Integral
  <1> HIDE DEF base, step
  <1>3. PICK f : IsRecursion(Int, n, base, step, f)
    BY <1>1, <1>2, RecursionOnInterval
  <1>4. /\ f \in [0 .. n -> Int] /\ f[0] = base
        /\ \A i \in 1 .. n : f[i] = step[i][f[i - 1]]
    BY <1>3 DEF IsRecursion
  <1>5. ASSUME NEW i \in 1 .. n PROVE f[i] = f[i - 1] + w[s[i]]
    <2>1. i - 1 \in 0 .. n
      BY <1>1
    <2>2. f[i - 1] \in Int
      BY <1>4, <2>1
    <2> QED
      BY <1>4, <2>2 DEF step
  <1>6. Running(w, s, f)
    BY <1>4, <1>5 DEF Running, base
  <1>7. f[n] \in Int
    BY <1>1, <1>4
  <1> QED
    BY <1>6, <1>7 DEF IsTotal

\* Removing an element and putting it back.
LEMMA RemovedAndPutBack ==
    ASSUME NEW S, NEW s \in Seq(S), NEW i \in 1 .. Len(s)
    PROVE  /\ RemoveAt(s, i) \in Seq(S) /\ Len(RemoveAt(s, i)) = Len(s) - 1
           /\ i - 1 \in 0 .. Len(RemoveAt(s, i))
           /\ With(RemoveAt(s, i), i - 1, s[i]) = s
  <1> DEFINE r == RemoveAt(s, i)
             n == Len(s)
  <1>1. i \in DOMAIN s /\ n \in Nat
    OBVIOUS
  <1>2. /\ r \in Seq(S) /\ Len(r) = Len(s) - 1
        /\ \A j \in DOMAIN r : r[j] = IF j < i THEN s[j] ELSE s[j + 1]
    BY <1>1, RemoveAtShape
  <1> HIDE DEF r
  <1>3. /\ r \in Seq(S) /\ Len(r) = n - 1 /\ n \in Nat /\ i \in 1 .. n
        /\ \A j \in 1 .. (n - 1) : r[j] = IF j < i THEN s[j] ELSE s[j + 1]
        /\ s = [k \in 1 .. n |-> s[k]]
    BY <1>2
  <1>4. With(r, i - 1, s[i]) = [k \in 1 .. n |->
             IF k <= i - 1 THEN r[k] ELSE IF k = (i - 1) + 1 THEN s[i] ELSE r[k - 1]]
    <2>1. Len(r) + 1 = n
      BY <1>3
    <2> QED
      BY <2>1 DEF With
  <1> HIDE DEF n
  <1>5. ASSUME NEW k \in 1 .. n
        PROVE  (IF k <= i - 1 THEN r[k] ELSE IF k = (i - 1) + 1 THEN s[i] ELSE r[k - 1]) = s[k]
    <2>1. CASE k <= i - 1
      <3>1. k \in 1 .. (n - 1) /\ k < i
        BY <1>3, <2>1
      <3> QED
        BY <1>3, <2>1, <3>1
    <2>2. CASE k = i
      BY <1>3, <2>2
    <2>3. CASE k > i
      <3>1. k - 1 \in 1 .. (n - 1) /\ ~(k - 1 < i) /\ (k - 1) + 1 = k /\ ~(k <= i - 1) /\ k # (i - 1) + 1
        BY <1>3, <2>3
      <3>2. r[k - 1] = IF k - 1 < i THEN s[k - 1] ELSE s[(k - 1) + 1]
        BY <1>3, <3>1
      <3> QED
        BY <3>1, <3>2
    <2> QED
      BY <1>3, <2>1, <2>2, <2>3
  <1>6. With(r, i - 1, s[i]) = s
    BY <1>3, <1>4, <1>5
  <1>7. i - 1 \in 0 .. (n - 1)
    BY <1>3
  <1> QED
    BY <1>3, <1>6, <1>7 DEF r, n

\* A node taken out of a sequence takes its weight along.
LEMMA TotalWithout ==
    ASSUME NEW m \in Nat, NEW s \in Seq(1 .. m), NEW w, NEW i \in 1 .. Len(s),
           Integral(w, s),
           NEW v \in Int, IsTotal(w, s, v), NEW v2 \in Int, IsTotal(w, RemoveAt(s, i), v2)
    PROVE  v = v2 + w[s[i]]
  <1> DEFINE r == RemoveAt(s, i)
             S == 1 .. m
             x == s[i]
  <1>0. s \in Seq(S)
    OBVIOUS
  <1> HIDE DEF S
  <1>1. /\ r \in Seq(S) /\ Len(r) = Len(s) - 1
        /\ i - 1 \in 0 .. Len(r)
        /\ With(r, i - 1, x) = s
    BY <1>0, RemovedAndPutBack
  <1>2. /\ i \in DOMAIN s /\ \A j \in DOMAIN r : r[j] = IF j < i THEN s[j] ELSE s[j + 1]
    BY <1>0, RemoveAtShape
  <1> HIDE DEF r
  <1>3. Integral(w, r)
    <2> SUFFICES ASSUME NEW k \in 1 .. Len(r) PROVE w[r[k]] \in Int
      BY DEF Integral
    <2>1. k \in DOMAIN r /\ k \in 1 .. Len(s) /\ k + 1 \in 1 .. Len(s)
      BY <1>1
    <2> QED
      BY <1>2, <2>1 DEF Integral
  <1>4. w[x] \in Int
    BY DEF Integral
  <1> HIDE DEF x
  <1>5. IsTotal(w, r, v2) /\ IsTotal(w, With(r, i - 1, x), v)
    BY <1>1 DEF r
  <1>6. r \in Seq(1 .. m)
    BY <1>1 DEF S
  <1> DEFINE j == i - 1
  <1>7. j \in 0 .. Len(r)
    BY <1>1
  <1> HIDE DEF j
  <1>8. IsTotal(w, With(r, j, x), v)
    BY <1>5 DEF j
  <1>9. v = v2 + w[x]
    BY <1>3, <1>4, <1>5, <1>6, <1>7, <1>8, TotalWith
  <1> QED
    BY <1>9 DEF x

\* The weights along s are the same but for the node at place i.
ChangedAt(w, w2, s, i) == \A k \in 1 .. Len(s) : k # i => w2[s[k]] = w[s[k]]

\* Changing the weight of one node changes the total by as much.
LEMMA TotalChanged ==
    ASSUME NEW m \in Nat, NEW s \in Seq(1 .. m), NEW w, NEW w2, NEW i \in 1 .. Len(s),
           Integral(w, s), Integral(w2, s),
           ChangedAt(w, w2, s, i),
           NEW v \in Int, IsTotal(w, s, v), NEW v2 \in Int, IsTotal(w2, s, v2)
    PROVE  v2 = v + (w2[s[i]] - w[s[i]])
  <1> DEFINE r == RemoveAt(s, i)
             S == 1 .. m
  <1>0. s \in Seq(S)
    OBVIOUS
  <1> HIDE DEF S
  <1>1. r \in Seq(S) /\ Len(r) = Len(s) - 1
    BY <1>0, RemovedAndPutBack
  <1>2. \A j \in DOMAIN r : r[j] = IF j < i THEN s[j] ELSE s[j + 1]
    <2>1. i \in DOMAIN s
      OBVIOUS
    <2> QED
      BY <1>0, <2>1, RemoveAtShape
  <1> HIDE DEF r
  <1>3. \A k \in 1 .. Len(r) : /\ w[r[k]] \in Int /\ w2[r[k]] \in Int
                               /\ w2[r[k]] = w[r[k]]
    <2> SUFFICES ASSUME NEW k \in 1 .. Len(r)
                 PROVE  w[r[k]] \in Int /\ w2[r[k]] \in Int /\ w2[r[k]] = w[r[k]]
      OBVIOUS
    <2>1. /\ k \in DOMAIN r /\ k \in 1 .. Len(s) /\ k + 1 \in 1 .. Len(s)
          /\ k < i => k # i
          /\ ~(k < i) => k + 1 # i
      BY <1>1
    <2>2. r[k] = IF k < i THEN s[k] ELSE s[k + 1]
      BY <1>2, <2>1
    <2>3. PICK n \in 1 .. Len(s) : n # i /\ r[k] = s[n]
      <3>1. CASE k < i
        BY <2>1, <2>2, <3>1
      <3>2. CASE ~(k < i)
        BY <2>1, <2>2, <3>2
      <3> QED
        BY <3>1, <3>2
    <2>4. w[s[n]] \in Int /\ w2[s[n]] \in Int /\ w2[s[n]] = w[s[n]]
      BY <2>3, Zenon DEF Integral, ChangedAt
    <2> QED
      BY <2>3, <2>4, Zenon
  <1>4. r \in Seq(1 .. m) /\ Integral(w, r) /\ Integral(w2, r)
    BY <1>1, <1>3 DEF S, Integral
  <1>5. PICK u \in Int : IsTotal(w, r, u)
    BY <1>4, TotalExists
  <1>6. PICK u2 \in Int : IsTotal(w2, r, u2)
    BY <1>4, TotalExists
  <1>7. u2 = u
    BY <1>3, <1>4, <1>5, <1>6, TotalKept
  <1>8. v = u + w[s[i]]
    <2>2. IsTotal(w, RemoveAt(s, i), u)
      BY <1>5 DEF r
    <2> QED
      BY <2>2, TotalWithout
  <1>9. v2 = u2 + w2[s[i]]
    <2>2. IsTotal(w2, RemoveAt(s, i), u2)
      BY <1>6 DEF r
    <2> QED
      BY <2>2, TotalWithout
  <1>10. w[s[i]] \in Int /\ w2[s[i]] \in Int
    BY DEF Integral
  <1> QED
    BY <1>7, <1>8, <1>9, <1>10

\* A function that adds up the weights of a sequence adds up equal ones.
LEMMA TotalSame ==
    ASSUME NEW w, NEW w2, NEW s, NEW v, IsTotal(w, s, v),
           \A i \in 1 .. Len(s) : w2[s[i]] = w[s[i]]
    PROVE  IsTotal(w2, s, v)
  BY DEF IsTotal, Running

\* Where the element at place j was before the one at place i was removed.
Place(i, j) == IF j < i THEN j ELSE j + 1

\* What removing one element does to the places of the others.
LEMMA RemoveAtPlaces ==
    ASSUME NEW S, NEW s \in Seq(S), NEW i \in 1 .. Len(s)
    PROVE  /\ RemoveAt(s, i) \in Seq(S) /\ Len(RemoveAt(s, i)) = Len(s) - 1
           /\ \A j \in 1 .. Len(RemoveAt(s, i)) :
                 /\ Place(i, j) \in 1 .. Len(s) /\ Place(i, j) # i
                 /\ RemoveAt(s, i)[j] = s[Place(i, j)]
           /\ \A j, k \in 1 .. Len(RemoveAt(s, i)) : j < k => Place(i, j) < Place(i, k)
           /\ \A k \in 1 .. Len(s) : k # i =>
                 \E j \in 1 .. Len(RemoveAt(s, i)) : Place(i, j) = k
  <1> DEFINE r == RemoveAt(s, i)
             n == Len(s)
  <1>0. i \in DOMAIN s
    OBVIOUS
  <1>1. /\ r \in Seq(S) /\ Len(r) = n - 1
        /\ \A j \in DOMAIN r : r[j] = IF j < i THEN s[j] ELSE s[j + 1]
    BY <1>0, RemoveAtShape
  <1> HIDE DEF r
  <1>2. n \in Nat /\ i \in Int /\ 1 <= i /\ i <= n /\ DOMAIN r = 1 .. (n - 1)
    BY <1>1
  <1> HIDE DEF n
  <1>3. \A j \in 1 .. (n - 1) : /\ Place(i, j) \in 1 .. n /\ Place(i, j) # i
                                /\ r[j] = s[Place(i, j)]
    <2> SUFFICES ASSUME NEW j \in 1 .. (n - 1)
                 PROVE  Place(i, j) \in 1 .. n /\ Place(i, j) # i /\ r[j] = s[Place(i, j)]
      OBVIOUS
    <2>1. r[j] = IF j < i THEN s[j] ELSE s[j + 1]
      BY <1>1, <1>2
    <2>2. r[j] = s[Place(i, j)]
      BY <2>1 DEF Place
    <2>3. Place(i, j) \in 1 .. n /\ Place(i, j) # i
      BY <1>2 DEF Place
    <2> QED
      BY <2>2, <2>3
  <1>4. \A j, k \in 1 .. (n - 1) : j < k => Place(i, j) < Place(i, k)
    BY <1>2 DEF Place
  <1>5. ASSUME NEW k \in 1 .. n, k # i PROVE \E j \in 1 .. (n - 1) : Place(i, j) = k
    <2>1. CASE k < i
      <3>1. k \in 1 .. (n - 1) /\ Place(i, k) = k
        BY <1>2, <2>1 DEF Place
      <3> QED
        BY <3>1
    <2>2. CASE k > i
      <3>1. k - 1 \in 1 .. (n - 1) /\ Place(i, k - 1) = k
        BY <1>2, <2>2 DEF Place
      <3> QED
        BY <3>1
    <2> QED
      BY <1>2, <1>5, <2>1, <2>2
  <1> QED
    BY <1>1, <1>3, <1>4, <1>5 DEF r, n

\* Where the element at place i is once one has been put in behind the first j.
Shift(j, i) == IF i <= j THEN i ELSE i + 1

\* What putting in one element does to places and elements.
LEMMA WithPlaces ==
    ASSUME NEW S, NEW s \in Seq(S), NEW j \in 0 .. Len(s), NEW x
    PROVE  /\ Len(With(s, j, x)) = Len(s) + 1
           /\ j + 1 \in 1 .. (Len(s) + 1) /\ With(s, j, x)[j + 1] = x
           /\ \A i \in 1 .. Len(s) : /\ Shift(j, i) \in 1 .. (Len(s) + 1)
                                     /\ With(s, j, x)[Shift(j, i)] = s[i]
           /\ \A k \in 1 .. (Len(s) + 1) : k = j + 1 \/ \E i \in 1 .. Len(s) : k = Shift(j, i)
           /\ Elems(With(s, j, x)) = Elems(s) \cup {x}
  <1> DEFINE n == Len(s)
             r == With(s, j, x)
  <1>1. n \in Nat /\ j \in Int /\ 0 <= j /\ j <= n
    OBVIOUS
  <1>2. r = [k \in 1 .. (n + 1) |-> IF k <= j THEN s[k] ELSE IF k = j + 1 THEN x ELSE s[k - 1]]
    BY DEF With
  <1> HIDE DEF n, r
  <1>3. Len(r) = n + 1
    BY <1>1, <1>2
  <1>4. j + 1 \in 1 .. (n + 1) /\ r[j + 1] = x
    BY <1>1, <1>2
  <1>5. ASSUME NEW i \in 1 .. n PROVE Shift(j, i) \in 1 .. (n + 1) /\ r[Shift(j, i)] = s[i]
    <2>1. CASE i <= j
      <3>1. Shift(j, i) = i /\ i \in 1 .. (n + 1)
        BY <1>1, <2>1 DEF Shift
      <3> QED
        BY <1>2, <2>1, <3>1
    <2>2. CASE ~(i <= j)
      <3>1. /\ Shift(j, i) = i + 1 /\ i + 1 \in 1 .. (n + 1) /\ ~(i + 1 <= j) /\ i + 1 # j + 1
            /\ (i + 1) - 1 = i
        BY <1>1, <2>2 DEF Shift
      <3>2. r[i + 1] = s[(i + 1) - 1]
        BY <1>2, <3>1
      <3> QED
        BY <3>1, <3>2
    <2> QED
      BY <2>1, <2>2
  <1>6. ASSUME NEW k \in 1 .. (n + 1), k # j + 1 PROVE \E i \in 1 .. n : k = Shift(j, i)
    <2>1. CASE k <= j
      <3>1. k \in 1 .. n /\ k = Shift(j, k)
        BY <1>1, <2>1 DEF Shift
      <3> QED
        BY <3>1
    <2>2. CASE ~(k <= j)
      <3>1. k - 1 \in 1 .. n /\ k = Shift(j, k - 1)
        BY <1>1, <1>6, <2>2 DEF Shift
      <3> QED
        BY <3>1
    <2> QED
      BY <2>1, <2>2
  <1>7. Elems(r) = Elems(s) \cup {x}
    <2>1. Elems(r) = {r[k] : k \in 1 .. (n + 1)} /\ Elems(s) = {s[i] : i \in 1 .. n}
      BY <1>3 DEF Elems, n
    <2>2. \A k \in 1 .. (n + 1) : r[k] \in Elems(s) \cup {x}
      <3> SUFFICES ASSUME NEW k \in 1 .. (n + 1), k # j + 1 PROVE r[k] \in Elems(s)
        BY <1>4
      <3>1. PICK i \in 1 .. n : k = Shift(j, i)
        BY <1>6
      <3> QED
        BY <1>5, <2>1, <3>1
    <2>3. \A i \in 1 .. n : s[i] \in Elems(r)
      <3> SUFFICES ASSUME NEW i \in 1 .. n PROVE s[i] \in Elems(r)
        OBVIOUS
      <3>1. Shift(j, i) \in 1 .. (n + 1) /\ r[Shift(j, i)] = s[i]
        BY <1>5
      <3> QED
        BY <2>1, <3>1
    <2>4. x \in Elems(r)
      BY <1>4, <2>1
    <2>5. Elems(r) \subseteq Elems(s) \cup {x}
      BY <2>1, <2>2
    <2>6. Elems(s) \subseteq Elems(r)
      BY <2>1, <2>3
    <2> QED
      BY <2>4, <2>5, <2>6
  <1> QED
    BY <1>3, <1>4, <1>5, <1>6, <1>7 DEF n, r

-----------------------------------------------------------------------------
(* Following the links of a list                                           *)

\* Putting an element behind the last one appends it.
LEMMA WithLast ==
    ASSUME NEW S, NEW s \in Seq(S), NEW x \in S
    PROVE  With(s, Len(s), x) = Append(s, x)
  <1> DEFINE n == Len(s)
             r == Append(s, x)
  <1>1. /\ n \in Nat /\ r \in Seq(S) /\ Len(r) = n + 1 /\ r[n + 1] = x
        /\ \A i \in 1 .. n : r[i] = s[i]
    OBVIOUS
  <1> HIDE DEF r, n
  <1>2. r = [i \in 1 .. (n + 1) |-> r[i]]
    BY <1>1
  <1>3. \A i \in 1 .. (n + 1) :
           r[i] = IF i <= n THEN s[i] ELSE IF i = n + 1 THEN x ELSE s[i - 1]
    BY <1>1
  <1>4. r = [i \in 1 .. (n + 1) |-> IF i <= n THEN s[i] ELSE IF i = n + 1 THEN x ELSE s[i - 1]]
    BY <1>2, <1>3
  <1> QED
    BY <1>4 DEF With, r, n

\* Every node with a successor is on one of the lists f[k], and no node is on two.
ChainsOf(m, next, prev, K, f) ==
    /\ next \in [1 .. m -> 0 .. m]
    /\ \A k \in K : DList(m, next, prev, f[k])
    /\ \A k, j \in K : \A a \in 1 .. Len(f[k]), b \in 1 .. Len(f[j]) : f[k][a] = f[j][b] => k = j
    /\ \A n \in 1 .. m : next[n] # 0 => \E k \in K : \E a \in 1 .. Len(f[k]) : f[k][a] = n

\* The distance to the end of its list falls from each node to the next.
LEMMA ChainsHaveRank ==
    ASSUME NEW m \in Nat, NEW next, NEW prev, NEW K, NEW f, ChainsOf(m, next, prev, K, f)
    PROVE  \E rank : Falls(m, next, rank)
  <1> DEFINE On(n, k, a) == k \in K /\ a \in 1 .. Len(f[k]) /\ f[k][a] = n
             Rank(n, r) == \E k, a : On(n, k, a) /\ r = Len(f[k]) - a
             rank == [n \in 1 .. m |-> IF \E k, a : On(n, k, a)
                                       THEN CHOOSE r : Rank(n, r) ELSE 0]
  <1>1. \A k \in K : Len(f[k]) \in Nat
    BY DEF ChainsOf, DList
  <1>2. ASSUME NEW n, NEW k, NEW a, On(n, k, a), NEW j, NEW b, On(n, j, b)
        PROVE  k = j /\ a = b
    <2>1. k = j
      BY <1>2 DEF ChainsOf
    <2>2. DList(m, next, prev, f[k]) /\ a \in 1 .. Len(f[k]) /\ b \in 1 .. Len(f[k])
          /\ f[k][a] = f[k][b]
      BY <1>2, <2>1 DEF ChainsOf
    <2>3. a = b
      BY <2>2 DEF DList
    <2> QED
      BY <2>1, <2>3
  <1>3. ASSUME NEW n \in 1 .. m, NEW k, NEW a, On(n, k, a)
        PROVE  rank[n] = Len(f[k]) - a
    <2> HIDE DEF On
    <2>1. Rank(n, Len(f[k]) - a)
      BY <1>3
    <2>2. ASSUME NEW r, Rank(n, r) PROVE r = Len(f[k]) - a
      <3>1. PICK j, b : On(n, j, b) /\ r = Len(f[j]) - b
        BY <2>2
      <3>2. k = j /\ a = b
        BY <1>2, <1>3, <3>1
      <3> QED
        BY <3>1, <3>2
    <2> HIDE DEF Rank
    <2>3. rank[n] = CHOOSE r : Rank(n, r)
      BY <1>3
    <2> HIDE DEF rank
    <2>4. Rank(n, rank[n])
      BY <2>1, <2>3
    <2> QED
      BY <2>2, <2>4
  <1>4. rank \in [1 .. m -> Nat]
    <2>1. ASSUME NEW n \in 1 .. m PROVE rank[n] \in Nat
      <3>1. CASE \E k, a : On(n, k, a)
        <4>1. PICK k, a : On(n, k, a)
          BY <3>1
        <4>2. rank[n] = Len(f[k]) - a
          <5> HIDE DEF rank, On
          <5> QED
            BY <1>3, <4>1
        <4>3. a \in 1 .. Len(f[k]) /\ Len(f[k]) \in Nat
          BY <1>1, <4>1
        <4> HIDE DEF rank
        <4> QED
          BY <4>2, <4>3
      <3>2. CASE ~\E k, a : On(n, k, a)
        <4> HIDE DEF On
        <4> QED
          BY <3>2
      <3> QED
        BY <3>1, <3>2
    <2>2. \E g : rank = [n \in 1 .. m |-> g[n]]
      <3>1. rank = [n \in 1 .. m |-> rank[n]]
        <4> HIDE DEF On, Rank
        <4> QED
          OBVIOUS
      <3> HIDE DEF rank
      <3> QED
        BY <3>1
    <2> HIDE DEF rank
    <2> QED
      BY <2>1, <2>2
  <1>5. ASSUME NEW n \in 1 .. m, next[n] # 0 PROVE rank[next[n]] < rank[n]
    <2>0. PICK k \in K : \E a \in 1 .. Len(f[k]) : f[k][a] = n
      BY <1>5 DEF ChainsOf
    <2>1. PICK a \in 1 .. Len(f[k]) : f[k][a] = n
      BY <2>0
    <2>2. next[n] = After(f[k], a) /\ next[n] \in 1 .. m
      <3>1. DList(m, next, prev, f[k])
        BY DEF ChainsOf
      <3>2. next[n] = After(f[k], a)
        BY <2>1, <3>1 DEF DList
      <3>3. next[n] \in 0 .. m
        BY DEF ChainsOf
      <3> QED
        BY <1>5, <3>2, <3>3
    <2>3. a # Len(f[k]) /\ next[n] = f[k][a + 1]
      BY <1>5, <2>2 DEF After
    <2>4. a + 1 \in 1 .. Len(f[k]) /\ Len(f[k]) \in Nat
      BY <1>1, <2>1, <2>3
    <2>5. On(n, k, a) /\ On(next[n], k, a + 1)
      BY <2>1, <2>3, <2>4
    <2> HIDE DEF rank, On
    <2>6. rank[n] = Len(f[k]) - a /\ rank[next[n]] = Len(f[k]) - (a + 1)
      BY <1>3, <2>2, <2>5
    <2> QED
      BY <2>4, <2>6
  <1> HIDE DEF rank
  <1>6. Falls(m, next, rank)
    BY <1>4, <1>5 DEF Falls
  <1> QED
    BY <1>6

\* A first value and a step per node define a function along such chains.
LEMMA ChainsFollowed ==
    ASSUME NEW m \in Nat, NEW next, NEW prev, NEW K, NEW f, ChainsOf(m, next, prev, K, f),
           NEW S, NEW base, NEW step, IsStep(S, m, base, step)
    PROVE  \E F : IsChainRecursion(S, m, base, next, step, F)
  <1>1. PICK rank : Falls(m, next, rank)
    BY ChainsHaveRank
  <1>2. next \in [1 .. m -> 0 .. m]
    BY DEF ChainsOf
  <1> QED
    BY <1>1, <1>2, RecursionAlongChains

\* The function that puts each node in front of the nodes behind it.
Collects(m, next, F) == F[0] = <<>> /\ \A n \in 1 .. m : F[n] = <<n>> \o F[next[n]]

\* Followed from its first node, a list is what it collects.
LEMMA ChainCollected ==
    ASSUME NEW m \in Nat, NEW next, NEW prev, NEW s, DList(m, next, prev, s),
           NEW F, Collects(m, next, F)
    PROVE  F[FirstOf(s)] = s
  <1> DEFINE n == Len(s)
             Start(k) == IF k = 0 THEN 0 ELSE s[n - k + 1]
             Rest(k) == [i \in 1 .. k |-> s[n - k + i]]
             T == {k \in 0 .. n : F[Start(k)] = Rest(k)}
  <1>1. /\ s \in Seq(1 .. m) /\ n \in Nat /\ \A i \in 1 .. n : s[i] \in 1 .. m
        /\ \A i \in 1 .. n : next[s[i]] = IF i = n THEN 0 ELSE s[i + 1]
        /\ s = [i \in 1 .. n |-> s[i]]
    <2> DEFINE S == 1 .. m
    <2>1. s \in Seq(S) /\ \A i \in 1 .. n : next[s[i]] = IF i = n THEN 0 ELSE s[i + 1]
      BY DEF DList, After
    <2> HIDE DEF S
    <2>2. n \in Nat /\ (\A i \in 1 .. n : s[i] \in S) /\ s = [i \in 1 .. n |-> s[i]]
      BY <2>1
    <2> QED
      BY <2>1, <2>2 DEF S
  <1>0. n \in Nat
    BY <1>1
  <1> HIDE DEF n
  <1>2. 0 \in T
    <2>1. F[Start(0)] = <<>>
      BY DEF Collects
    <2>2. Rest(0) = <<>>
      OBVIOUS
    <2> QED
      BY <1>1, <2>1, <2>2
  <1>3. ASSUME NEW k \in 0 .. (n - 1), k \in T PROVE k + 1 \in T
    <2> DEFINE i == n - k
               x == s[i]
    <2>1. /\ i \in 1 .. n /\ k + 1 \in 0 .. n /\ k + 1 # 0 /\ n - (k + 1) + 1 = i /\ k \in Nat
          /\ i = n <=> k = 0
          /\ k # 0 => n - k + 1 = i + 1
      BY <1>1, SMTT(60)
    <2>2. Start(k + 1) = x
      BY <2>1
    <2>3. next[x] = Start(k)
      BY <1>1, <2>1
    <2>4. F[x] = <<x>> \o Rest(k)
      <3>1. x \in 1 .. m /\ F[Start(k)] = Rest(k)
        BY <1>1, <1>3, <2>1
      <3> HIDE DEF Rest, Start, x
      <3> QED
        BY <2>3, <3>1 DEF Collects
    <2>5. <<x>> \o Rest(k) = Rest(k + 1)
      <3> DEFINE S == 1 .. m
      <3>1. ASSUME NEW a \in 1 .. k PROVE s[n - k + a] \in S
        <4>1. n - k + a \in 1 .. n
          BY <1>1, <3>1
        <4> QED
          BY <1>1, <4>1
      <3> HIDE DEF S
      <3>2. Rest(k) \in [1 .. k -> S]
        BY <3>1
      <3>3. Rest(k) \in Seq(S) /\ Len(Rest(k)) = k /\ \A a \in 1 .. k : Rest(k)[a] = s[n - k + a]
        BY <2>1, <3>2
      <3> DEFINE r == Rest(k)
                 y == x
                 c == <<y>> \o r
      <3>4. r \in Seq(S) /\ Len(r) = k /\ \A a \in 1 .. k : r[a] = s[n - k + a]
        BY <3>3
      <3>5. y \in S
        BY <1>1, <2>1 DEF S
      <3> HIDE DEF r, y
      <3>6. /\ c \in Seq(S) /\ Len(c) = k + 1 /\ c = [a \in 1 .. (k + 1) |-> c[a]]
            /\ \A a \in 1 .. (k + 1) : c[a] = IF a = 1 THEN y ELSE r[a - 1]
        BY <2>1, <3>4, <3>5
      <3> HIDE DEF c
      <3>7. ASSUME NEW a \in 1 .. (k + 1) PROVE c[a] = s[n - (k + 1) + a]
        <4>1. CASE a = 1
          <5>1. n - (k + 1) + a = i
            BY <2>1, <4>1, <1>1
          <5> HIDE DEF i
          <5> QED
            BY <3>6, <4>1, <5>1 DEF y
        <4>2. CASE a # 1
          <5>1. a - 1 \in 1 .. k /\ n - k + (a - 1) = n - (k + 1) + a
            BY <1>0, <4>2
          <5>2. c[a] = r[a - 1]
            BY <3>6, <4>2
          <5>3. r[a - 1] = s[n - k + (a - 1)]
            BY <3>4, <5>1
          <5> QED
            BY <5>1, <5>2, <5>3
        <4> QED
          BY <4>1, <4>2
      <3>8. c = [a \in 1 .. (k + 1) |-> s[n - (k + 1) + a]]
        BY <3>6, <3>7
      <3> QED
        BY <3>8 DEF c, r, y
    <2> HIDE DEF Rest, Start, x
    <2>6. F[Start(k + 1)] = Rest(k + 1)
      BY <2>2, <2>4, <2>5
    <2> QED
      BY <2>1, <2>6
  <1>4. n \in T
    <2> HIDE DEF T
    <2>1. 0 .. n \subseteq T
      BY <1>1, <1>2, <1>3, UpTo
    <2> QED
      BY <1>1, <2>1
  <1>5. Start(n) = FirstOf(s)
    <2>1. s = <<>> <=> n = 0
      BY <1>1 DEF n
    <2>2. n - n + 1 = 1
      BY <1>1
    <2> QED
      BY <2>1, <2>2 DEF FirstOf
  <1>6. Rest(n) = s
    <2>1. \A i \in 1 .. n : n - n + i = i
      BY <1>1
    <2>2. Rest(n) = [i \in 1 .. n |-> s[i]]
      BY <2>1
    <2> QED
      BY <1>1, <2>2
  <1> HIDE DEF Start, Rest
  <1> QED
    BY <1>4, <1>5, <1>6

\* What the list in front of each node's successors is, given those lists.
Collector(m, next, F) == [n \in 0 .. m |-> IF n = 0 THEN <<>> ELSE <<n>> \o F[next[n]]]

\* F is such a function.
Collecting(m, next, F) == F = Collector(m, next, F)

\* Where nodes form finite chains there is a function that collects them.
LEMMA CollectorExists ==
    ASSUME NEW m \in Nat, NEW next, NEW prev, NEW K, NEW f, ChainsOf(m, next, prev, K, f)
    PROVE  \E F : Collecting(m, next, F)
  <1> DEFINE S == Seq(1 .. m)
             base == <<>>
             step == [n \in 1 .. m |-> [a \in S |-> <<n>> \o a]]
  <1>1. IsStep(S, m, base, step)
    <2>1. base \in S
      OBVIOUS
    <2>2. ASSUME NEW n \in 1 .. m, NEW a \in S PROVE <<n>> \o a \in S
      OBVIOUS
    <2> HIDE DEF S
    <2>3. step \in [1 .. m -> [S -> S]]
      BY <2>2
    <2> QED
      BY <2>1, <2>3 DEF IsStep
  <1> HIDE DEF S, base, step
  <1>2. PICK F : IsChainRecursion(S, m, base, next, step, F)
    BY <1>1, ChainsFollowed
  <1>3. F \in [0 .. m -> S] /\ F[0] = base /\ \A n \in 1 .. m : F[n] = step[n][F[next[n]]]
    BY <1>2 DEF IsChainRecursion
  <1>4. \A n \in 1 .. m : next[n] \in 0 .. m
    BY DEF ChainsOf
  <1>5. ASSUME NEW n \in 1 .. m PROVE F[n] = <<n>> \o F[next[n]]
    <2>1. F[next[n]] \in S
      BY <1>3, <1>4
    <2>2. step[n][F[next[n]]] = <<n>> \o F[next[n]]
      BY <2>1 DEF step
    <2> QED
      BY <1>3, <2>2
  <1>6. F = [n \in 0 .. m |-> F[n]]
    BY <1>3
  <1>7. \A n \in 0 .. m : F[n] = IF n = 0 THEN <<>> ELSE <<n>> \o F[next[n]]
    BY <1>3, <1>5 DEF base
  <1>8. Collecting(m, next, F)
    BY <1>6, <1>7 DEF Collector, Collecting
  <1> QED
    BY <1>8

\* Such a function unfolds node by node.
LEMMA CollectorCollects ==
    ASSUME NEW m \in Nat, NEW next, NEW F, Collecting(m, next, F)
    PROVE  Collects(m, next, F)
  <1>1. ASSUME NEW n \in 0 .. m
        PROVE  Collector(m, next, F)[n] = IF n = 0 THEN <<>> ELSE <<n>> \o F[next[n]]
    BY DEF Collector
  <1>2. ASSUME NEW n \in 0 .. m PROVE F[n] = Collector(m, next, F)[n]
    BY Zenon DEF Collecting
  <1>3. F[0] = <<>>
    <2>1. 0 \in 0 .. m
      OBVIOUS
    <2>2. F[0] = Collector(m, next, F)[0]
      BY <1>2, <2>1
    <2>3. Collector(m, next, F)[0] = <<>>
      BY <1>1, <2>1
    <2> QED
      BY <2>2, <2>3
  <1>4. ASSUME NEW n \in 1 .. m PROVE F[n] = <<n>> \o F[next[n]]
    <2>1. n \in 0 .. m /\ n # 0
      OBVIOUS
    <2>2. Collector(m, next, F)[n] = <<n>> \o F[next[n]]
      BY <1>1, <2>1
    <2>3. F[n] = Collector(m, next, F)[n]
      BY <1>2, <2>1
    <2> QED
      BY <2>2, <2>3
  <1> QED
    BY <1>3, <1>4 DEF Collects

\* A total has one value, whatever function adds it up.
LEMMA TotalIsUnique ==
    ASSUME NEW w, NEW n \in Nat, NEW s, Len(s) = n, NEW v, IsTotal(w, s, v),
           NEW F, F[0] = 0, \A i \in 1 .. n : F[i] = F[i - 1] + w[s[i]]
    PROVE  F[n] = v
  <1>1. PICK f : Running(w, s, f) /\ v = f[n]
    BY DEF IsTotal
  <1>2. f[0] = 0 /\ \A i \in 1 .. n : f[i] = f[i - 1] + w[s[i]]
    BY <1>1 DEF Running
  <1> DEFINE T == {k \in 0 .. n : F[k] = f[k]}
  <1>3. 0 \in T
    BY <1>2
  <1>4. ASSUME NEW k \in 0 .. (n - 1), k \in T PROVE k + 1 \in T
    <2>1. k + 1 \in 1 .. n /\ k + 1 \in 0 .. n /\ (k + 1) - 1 = k
      OBVIOUS
    <2>2. F[k + 1] = F[k] + w[s[k + 1]] /\ f[k + 1] = f[k] + w[s[k + 1]]
      BY <1>2, <2>1
    <2>3. F[k] = f[k]
      BY <1>4
    <2> QED
      BY <2>1, <2>2, <2>3
  <1> HIDE DEF T
  <1>5. 0 .. n \subseteq T
    BY <1>3, <1>4, UpTo
  <1>6. n \in T
    BY <1>5
  <1> QED
    BY <1>1, <1>6 DEF T

\* Walking down a list while a test holds of the next node stops at the last of the nodes
\* the test holds of, if it holds of the first j and of no other.
Walked(m, next, More, F) ==
    [n \in 1 .. m |-> IF next[n] # 0 /\ More[next[n]] THEN F[next[n]] ELSE n]
Walking(m, next, More, F) == F = Walked(m, next, More, F)
HoldsUpTo(More, s, j) == \A i \in 2 .. Len(s) : More[s[i]] <=> i <= j

\* Where nodes form finite chains there is a function that walks along them.
LEMMA WalkExists ==
    ASSUME NEW m \in Nat, NEW next, NEW prev, NEW K, NEW f, ChainsOf(m, next, prev, K, f), NEW More
    PROVE  \E F : Walking(m, next, More, F)
  <1> DEFINE S == 0 .. m
             base == 0
             step == [n \in 1 .. m |-> [a \in S |-> IF next[n] # 0 /\ More[next[n]] THEN a ELSE n]]
  <1>1. IsStep(S, m, base, step)
    <2>1. base \in S
      OBVIOUS
    <2>2. ASSUME NEW n \in 1 .. m PROVE n \in S
      OBVIOUS
    <2> HIDE DEF S
    <2>3. step \in [1 .. m -> [S -> S]]
      BY <2>2
    <2> QED
      BY <2>1, <2>3 DEF IsStep
  <1> HIDE DEF base, step
  <1>2. PICK G : IsChainRecursion(S, m, base, next, step, G)
    <2> HIDE DEF S
    <2> QED
      BY <1>1, ChainsFollowed
  <1>3. G \in [0 .. m -> S] /\ \A n \in 1 .. m : G[n] = step[n][G[next[n]]]
    BY <1>2 DEF IsChainRecursion
  <1>4. \A n \in 1 .. m : next[n] \in 0 .. m
    BY DEF ChainsOf
  <1> DEFINE F == [n \in 1 .. m |-> G[n]]
  <1>5. ASSUME NEW n \in 1 .. m PROVE G[n] = IF next[n] # 0 /\ More[next[n]] THEN F[next[n]] ELSE n
    <2>1. G[next[n]] \in S
      BY <1>3, <1>4
    <2> HIDE DEF S
    <2>2. step[n][G[next[n]]] = IF next[n] # 0 /\ More[next[n]] THEN G[next[n]] ELSE n
      BY <2>1 DEF step
    <2>3. next[n] # 0 => F[next[n]] = G[next[n]]
      BY <1>4
    <2> HIDE DEF F
    <2> QED
      BY <1>3, <2>2, <2>3
  <1>6. Walking(m, next, More, F)
    BY <1>5 DEF Walked, Walking
  <1> QED
    BY <1>6

\* The walk ends at the last node that More holds for.
LEMMA WalkStops ==
    ASSUME NEW m \in Nat, NEW next, NEW prev, NEW s, DList(m, next, prev, s),
           NEW More, NEW j \in 1 .. Len(s),
           HoldsUpTo(More, s, j), NEW F, Walking(m, next, More, F)
    PROVE  F[s[1]] = s[j]
  <1> DEFINE n == Len(s)
             T == {k \in 0 .. (j - 1) : F[s[j - k]] = s[j]}
  <1>1. /\ n \in Nat /\ \A i \in 1 .. n : s[i] \in 1 .. m
        /\ \A i \in 1 .. n : next[s[i]] = IF i = n THEN 0 ELSE s[i + 1]
    <2> DEFINE S == 1 .. m
    <2>1. s \in Seq(S) /\ \A i \in 1 .. n : next[s[i]] = IF i = n THEN 0 ELSE s[i + 1]
      BY DEF DList, After
    <2> HIDE DEF S
    <2>2. n \in Nat /\ \A i \in 1 .. n : s[i] \in S
      BY <2>1
    <2> QED
      BY <2>1, <2>2 DEF S
  <1>2. \A i \in 2 .. n : More[s[i]] <=> i <= j
    BY DEF HoldsUpTo
  <1>3. n \in Nat /\ j \in 1 .. n
    BY <1>1
  <1> HIDE DEF n
  <1>4. \A x \in 1 .. m : F[x] = IF next[x] # 0 /\ More[next[x]] THEN F[next[x]] ELSE x
    BY DEF Walked, Walking
  <1>5. 0 \in T
    <2>1. s[j] \in 1 .. m /\ next[s[j]] = IF j = n THEN 0 ELSE s[j + 1]
      BY <1>1, <1>3
    <2>2. j # n => j + 1 \in 2 .. n /\ ~(j + 1 <= j)
      BY <1>3
    <2>3. ~(next[s[j]] # 0 /\ More[next[s[j]]])
      BY <1>2, <2>1, <2>2
    <2>4. F[s[j]] = s[j]
      BY <1>4, <2>1, <2>3
    <2>5. j - 0 = j /\ 0 \in 0 .. (j - 1)
      BY <1>3
    <2> QED
      BY <2>4, <2>5
  <1>6. ASSUME NEW k \in 0 .. ((j - 1) - 1), k \in T PROVE k + 1 \in T
    <2> DEFINE i == j - (k + 1)
    <2>1. /\ i \in 1 .. n /\ i # n /\ i + 1 = j - k /\ i + 1 \in 2 .. n /\ i + 1 <= j
          /\ i + 1 \in 1 .. n /\ k + 1 \in 0 .. (j - 1)
      BY <1>3
    <2> HIDE DEF i
    <2>2. next[s[i]] = s[i + 1] /\ s[i] \in 1 .. m /\ s[i + 1] \in 1 .. m
      BY <1>1, <2>1
    <2>3. More[s[i + 1]] /\ s[i + 1] # 0
      BY <1>2, <2>1, <2>2
    <2>4. F[s[i]] = F[s[i + 1]]
      BY <1>4, <2>2, <2>3
    <2>5. F[s[i + 1]] = s[j]
      BY <1>6, <2>1
    <2> QED
      BY <2>1, <2>4, <2>5 DEF i
  <1> HIDE DEF T
  <1>7. j - 1 \in Nat
    BY <1>3
  <1>8. 0 .. (j - 1) \subseteq T
    BY <1>5, <1>6, <1>7, UpTo
  <1>9. j - 1 \in T
    BY <1>7, <1>8
  <1>10. j - (j - 1) = 1
    BY <1>3
  <1> QED
    BY <1>9, <1>10 DEF T

\* The neighbours of a node of a list are on it.
LEMMA LinksInside ==
    ASSUME NEW m \in Nat, NEW next, NEW prev, NEW s, DList(m, next, prev, s), NEW n \in Elems(s)
    PROVE  /\ n \in 1 .. m
           /\ next[n] = 0 \/ next[n] \in Elems(s)
           /\ prev[n] = 0 \/ prev[n] \in Elems(s)
  <1> DEFINE S == 1 .. m
  <1>1. s \in Seq(S) /\ \A i \in 1 .. Len(s) : next[s[i]] = After(s, i) /\ prev[s[i]] = Before(s, i)
    BY DEF DList
  <1>2. PICK i \in 1 .. Len(s) : s[i] = n
    BY DEF Elems
  <1> HIDE DEF S
  <1>3. Len(s) \in Nat /\ s[i] \in S
    BY <1>1
  <1>4. /\ i # Len(s) => i + 1 \in 1 .. Len(s)
        /\ i # 1 => i - 1 \in 1 .. Len(s)
    BY <1>3
  <1>5. next[n] = After(s, i) /\ prev[n] = Before(s, i)
    BY <1>1, <1>2
  <1>6. After(s, i) = 0 \/ After(s, i) \in Elems(s)
    BY <1>4 DEF After, Elems
  <1>7. Before(s, i) = 0 \/ Before(s, i) \in Elems(s)
    BY <1>4 DEF Before, Elems
  <1> QED
    BY <1>2, <1>3, <1>5, <1>6, <1>7 DEF S

\* Where the elements of a sequence without its i-th come from.
PlacesWithout(s, i) ==
    /\ \A j \in 1 .. Len(RemoveAt(s, i)) :
          /\ Place(i, j) \in 1 .. Len(s) /\ Place(i, j) # i
          /\ RemoveAt(s, i)[j] = s[Place(i, j)]
    /\ \A k \in 1 .. Len(s) : k # i =>
          \E j \in 1 .. Len(RemoveAt(s, i)) : Place(i, j) = k

\* Every other element keeps its place in the order.
LEMMA RemovalPlaces ==
    ASSUME NEW S, NEW s \in Seq(S), NEW i \in 1 .. Len(s)
    PROVE  PlacesWithout(s, i)
  BY RemoveAtPlaces DEF PlacesWithout

\* Taking one element out of a list without repetitions.
LEMMA ElemsWithout ==
    ASSUME NEW m \in Nat, NEW next, NEW prev, NEW s, DList(m, next, prev, s), NEW i \in 1 .. Len(s)
    PROVE  Elems(RemoveAt(s, i)) = Elems(s) \ {s[i]}
  <1> DEFINE S == 1 .. m
             r == RemoveAt(s, i)
  <1>1. s \in Seq(S)
    BY DEF DList
  <1>2. \A j, k \in 1 .. Len(s) : s[j] = s[k] => j = k
    BY DEF DList
  <1> HIDE DEF S
  <1>a. PlacesWithout(s, i)
    BY <1>1, RemovalPlaces
  <1>3. /\ \A j \in 1 .. Len(r) : /\ Place(i, j) \in 1 .. Len(s) /\ Place(i, j) # i
                                  /\ r[j] = s[Place(i, j)]
        /\ \A k \in 1 .. Len(s) : k # i => \E j \in 1 .. Len(r) : Place(i, j) = k
    BY <1>a DEF PlacesWithout
  <1> HIDE DEF r
  <1>4. ASSUME NEW x \in Elems(r) PROVE x \in Elems(s) /\ x # s[i]
    <2>1. PICK j \in 1 .. Len(r) : x = r[j]
      BY DEF Elems
    <2>2. x = s[Place(i, j)] /\ Place(i, j) \in 1 .. Len(s) /\ Place(i, j) # i
      BY <1>3, <2>1
    <2> QED
      BY <1>2, <2>2 DEF Elems
  <1>5. ASSUME NEW x \in Elems(s), x # s[i] PROVE x \in Elems(r)
    <2>1. PICK k \in 1 .. Len(s) : x = s[k]
      BY DEF Elems
    <2>2. PICK j \in 1 .. Len(r) : Place(i, j) = k
      BY <1>3, <1>5, <2>1
    <2>3. r[j] = x
      BY <1>3, <2>1, <2>2
    <2> QED
      BY <2>3 DEF Elems
  <1>6. Elems(r) = Elems(s) \ {s[i]}
    BY <1>4, <1>5
  <1> QED
    BY <1>6 DEF r

-----------------------------------------------------------------------------
(* Pools                                                                   *)

\* A free list: objects 1 .. c, each at most once.
FreeList(f, c) ==
    /\ f \in Seq(Nat) /\ c \in Nat
    /\ \A i \in 1 .. Len(f) : f[i] \in 1 .. c
    /\ \A i, j \in 1 .. Len(f) : f[i] = f[j] => i = j

\* The free list holds each free object once, and the two counters add up.
PoolOK(pool) ==
    /\ pool \in PoolState
    /\ FreeList(pool.free, pool.capacity)
    /\ pool.live + Len(pool.free) = pool.capacity

\* The parts of a pool.
LEMMA PoolRecord ==
    ASSUME NEW pool \in PoolState
    PROVE  /\ pool.free \in Seq(Nat) /\ pool.live \in Nat /\ pool.capacity \in Nat
           /\ pool = [free |-> pool.free, live |-> pool.live, capacity |-> pool.capacity]
           /\ InUse(pool) = (1 .. pool.capacity) \ Elems(pool.free)
  <1>1. /\ pool.free \in Seq(Nat) /\ pool.live \in Nat /\ pool.capacity \in Nat
        /\ pool = [free |-> pool.free, live |-> pool.live, capacity |-> pool.capacity]
    BY DEF PoolState
  <1>2. DOMAIN pool.free = 1 .. Len(pool.free)
    BY <1>1
  <1> QED
    BY <1>1, <1>2 DEF InUse, Elems

\* Two free lists of different objects end to end.
LEMMA FreeListsJoined ==
    ASSUME NEW a \in Seq(Nat), NEW b \in Seq(Nat)
    PROVE  /\ a \o b \in Seq(Nat) /\ Len(a \o b) = Len(a) + Len(b)
           /\ \A i \in 1 .. Len(a) : (a \o b)[i] = a[i]
           /\ \A i \in 1 .. Len(b) : (a \o b)[Len(a) + i] = b[i]
           /\ \A i \in 1 .. (Len(a) + Len(b)) :
                 i \in 1 .. Len(a) \/ \E k \in 1 .. Len(b) : i = Len(a) + k
           /\ Elems(a \o b) = Elems(a) \cup Elems(b)
  <1> DEFINE N == Nat
  <1>1. a \in Seq(N) /\ b \in Seq(N)
    OBVIOUS
  <1>2. Len(a) \in Nat /\ Len(b) \in Nat
    OBVIOUS
  <1> HIDE DEF N
  <1>3. /\ a \o b \in Seq(N) /\ Len(a \o b) = Len(a) + Len(b)
        /\ \A i \in 1 .. Len(a) : (a \o b)[i] = a[i]
        /\ \A i \in 1 .. Len(b) : (a \o b)[Len(a) + i] = b[i]
        /\ \A i \in 1 .. (Len(a) + Len(b)) :
              i \in 1 .. Len(a) \/ \E k \in 1 .. Len(b) : i = Len(a) + k
        /\ Elems(a \o b) = Elems(a) \cup Elems(b)
    BY <1>1, Concatenation
  <1> QED
    BY <1>3 DEF N

\* A free list with fresh objects in front of it.
LEMMA FreeListGrown ==
    ASSUME NEW c \in Nat, NEW f, FreeList(f, c), NEW slab \in Nat \ {0}, NEW s \in Seq(Nat),
           Len(s) = slab, \A i \in 1 .. slab : s[i] = c + i
    PROVE  /\ FreeList(s \o f, c + slab) /\ s \o f # <<>>
           /\ (1 .. (c + slab)) \ Elems(s \o f) = (1 .. c) \ Elems(f)
  <1> DEFINE g == s \o f
             n == Len(f)
  <1>1. f \in Seq(Nat) /\ n \in Nat /\ (\A i \in 1 .. n : f[i] \in 1 .. c)
        /\ (\A i, j \in 1 .. n : f[i] = f[j] => i = j)
    BY DEF FreeList
  <1>2. /\ g \in Seq(Nat) /\ Len(g) = slab + n /\ Elems(g) = Elems(s) \cup Elems(f)
        /\ \A i \in 1 .. slab : g[i] = c + i
        /\ \A i \in 1 .. n : g[slab + i] = f[i]
        /\ \A i \in 1 .. (slab + n) : i \in 1 .. slab \/ \E k \in 1 .. n : i = slab + k
    <2>1. /\ s \o f \in Seq(Nat) /\ Len(s \o f) = Len(s) + Len(f)
          /\ \A i \in 1 .. Len(s) : (s \o f)[i] = s[i]
          /\ \A i \in 1 .. Len(f) : (s \o f)[Len(s) + i] = f[i]
          /\ \A i \in 1 .. (Len(s) + Len(f)) :
                i \in 1 .. Len(s) \/ \E k \in 1 .. Len(f) : i = Len(s) + k
          /\ Elems(s \o f) = Elems(s) \cup Elems(f)
      BY <1>1, FreeListsJoined
    <2> HIDE DEF g, n
    <2>2. g = s \o f /\ n = Len(f)
      BY DEF g, n
    <2> QED
      BY <2>1, <2>2
  <1> HIDE DEF g, n
  <1>3. \A i \in 1 .. (slab + n) : g[i] \in 1 .. (c + slab)
    <2> SUFFICES ASSUME NEW i \in 1 .. (slab + n) PROVE g[i] \in 1 .. (c + slab)
      OBVIOUS
    <2>1. CASE i \in 1 .. slab
      <3>1. g[i] = c + i
        BY <1>2, <2>1
      <3> QED
        BY <2>1, <3>1
    <2>2. ASSUME NEW k \in 1 .. n, i = slab + k PROVE g[i] \in 1 .. (c + slab)
      <3>1. g[i] = f[k] /\ f[k] \in 1 .. c
        BY <1>1, <1>2, <2>2
      <3> QED
        BY <3>1
    <2> QED
      BY <1>2, <2>1, <2>2
  <1>4. \A i, j \in 1 .. (slab + n) : g[i] = g[j] => i = j
    <2> SUFFICES ASSUME NEW i \in 1 .. (slab + n), NEW j \in 1 .. (slab + n), g[i] = g[j]
                 PROVE  i = j
      OBVIOUS
    <2>1. CASE i \in 1 .. slab /\ j \in 1 .. slab
      <3>1. g[i] = c + i /\ g[j] = c + j
        BY <1>2, <2>1
      <3>2. c + i = c + j
        BY <3>1
      <3>3. i \in Nat /\ j \in Nat
        BY <2>1
      <3> QED
        BY <3>2, <3>3
    <2>2. ASSUME NEW k \in 1 .. n, i = slab + k, j \in 1 .. slab PROVE FALSE
      <3>1. g[i] = f[k] /\ f[k] \in 1 .. c /\ g[j] = c + j
        BY <1>1, <1>2, <2>2
      <3> QED
        BY <2>2, <3>1
    <2>3. ASSUME NEW k \in 1 .. n, j = slab + k, i \in 1 .. slab PROVE FALSE
      <3>1. g[j] = f[k] /\ f[k] \in 1 .. c /\ g[i] = c + i
        BY <1>1, <1>2, <2>3
      <3> QED
        BY <2>3, <3>1
    <2>4. ASSUME NEW k \in 1 .. n, i = slab + k, NEW k2 \in 1 .. n, j = slab + k2
          PROVE  i = j
      <3>1. f[k] = f[k2]
        BY <1>2, <2>4
      <3> QED
        BY <1>1, <2>4, <3>1
    <2> QED
      BY <1>2, <2>1, <2>2, <2>3, <2>4
  <1>5. Elems(s) = (c + 1) .. (c + slab)
    <2>1. \A i \in 1 .. slab : c + i \in (c + 1) .. (c + slab)
      OBVIOUS
    <2>2. \A y \in (c + 1) .. (c + slab) : y - c \in 1 .. slab /\ c + (y - c) = y
      OBVIOUS
    <2> QED
      BY <2>1, <2>2, SMTT(60) DEF Elems
  <1>6. (1 .. (c + slab)) \ Elems(g) = (1 .. c) \ Elems(f)
    <2>1. (1 .. (c + slab)) \ ((c + 1) .. (c + slab)) = 1 .. c
      OBVIOUS
    <2> QED
      BY <1>2, <1>5, <2>1
  <1>7. g # <<>>
    BY <1>1, <1>2
  <1>8. FreeList(g, c + slab)
    BY <1>2, <1>3, <1>4 DEF FreeList
  <1> QED
    BY <1>6, <1>7, <1>8 DEF g

\* A new slab is free.
LEMMA SlabAdded ==
    ASSUME NEW pool, PoolOK(pool), NEW slab \in Nat \ {0}
    PROVE  /\ PoolOK(AddSlab(pool, slab))
           /\ AddSlab(pool, slab).capacity = pool.capacity + slab
           /\ AddSlab(pool, slab).free # <<>>
           /\ InUse(AddSlab(pool, slab)) = InUse(pool)
  <1> DEFINE f == pool.free
             c == pool.capacity
             l == pool.live
             s == [i \in 1 .. slab |-> c + i]
             p == AddSlab(pool, slab)
  <1>1. /\ f \in Seq(Nat) /\ c \in Nat /\ l \in Nat /\ FreeList(f, c) /\ l + Len(f) = c
        /\ pool = [free |-> f, live |-> l, capacity |-> c]
        /\ InUse(pool) = (1 .. c) \ Elems(f)
    BY PoolRecord DEF PoolOK
  <1>2. p = [pool EXCEPT !.free = s \o f, !.capacity = c + slab]
    BY DEF AddSlab
  <1> HIDE DEF f, c, l, p
  <1>3. s \in Seq(Nat) /\ Len(s) = slab /\ \A i \in 1 .. slab : s[i] = c + i
    <2>1. s \in [1 .. slab -> Nat] /\ \A i \in 1 .. slab : s[i] = c + i
      BY <1>1
    <2> HIDE DEF s
    <2> QED
      BY <2>1
  <1> HIDE DEF s
  <1>4. p = [free |-> s \o f, live |-> l, capacity |-> c + slab]
    BY <1>1, <1>2
  <1>5. /\ FreeList(s \o f, c + slab) /\ s \o f # <<>>
        /\ (1 .. (c + slab)) \ Elems(s \o f) = (1 .. c) \ Elems(f)
    BY <1>1, <1>3, FreeListGrown
  <1>6. s \o f \in Seq(Nat) /\ Len(s \o f) = slab + Len(f)
    BY <1>1, <1>3, FreeListsJoined
  <1>7. p \in PoolState
    BY <1>1, <1>4, <1>6 DEF PoolState
  <1>8. PoolOK(p)
    <2>1. l + (slab + Len(f)) = c + slab
      BY <1>1
    <2> QED
      BY <1>4, <1>5, <1>6, <1>7, <2>1 DEF PoolOK
  <1>9. InUse(p) = InUse(pool)
    BY <1>1, <1>4, <1>5, <1>7, PoolRecord
  <1> QED
    BY <1>4, <1>5, <1>8, <1>9 DEF p, c

\* alloc hands out an object that was not in use, and grows the pool if it must.
LEMMA ObjectTaken ==
    ASSUME NEW pool, PoolOK(pool), NEW slab \in Nat \ {0}
    PROVE  /\ PoolOK(Alloc(pool, slab))
           /\ Alloc(pool, slab).capacity >= pool.capacity
           /\ Allocated(pool, slab) \in 1 .. Alloc(pool, slab).capacity
           /\ Allocated(pool, slab) \notin InUse(pool)
           /\ InUse(Alloc(pool, slab)) = InUse(pool) \cup {Allocated(pool, slab)}
  <1> DEFINE w == WithFree(pool, slab)
             f == w.free
             c == w.capacity
             l == w.live
             n == Len(f)
             p == Alloc(pool, slab)
             x == Allocated(pool, slab)
  <1>1. PoolOK(w) /\ f # <<>> /\ InUse(w) = InUse(pool) /\ c >= pool.capacity
    <2>1. CASE pool.free = <<>>
      <3>1. w = AddSlab(pool, slab)
        BY <2>1 DEF WithFree
      <3>2. pool.capacity \in Nat
        BY PoolRecord DEF PoolOK
      <3>3. /\ PoolOK(AddSlab(pool, slab)) /\ AddSlab(pool, slab).free # <<>>
            /\ AddSlab(pool, slab).capacity = pool.capacity + slab
            /\ InUse(AddSlab(pool, slab)) = InUse(pool)
        BY SlabAdded, Zenon
      <3>4. pool.capacity + slab >= pool.capacity
        BY <3>2
      <3> QED
        BY <3>1, <3>3, <3>4
    <2>2. CASE pool.free # <<>>
      <3>1. w = pool
        BY <2>2 DEF WithFree
      <3>2. pool.capacity \in Nat
        BY PoolRecord DEF PoolOK
      <3> QED
        BY <2>2, <3>1, <3>2
    <2> QED
      BY <2>1, <2>2
  <1>2. p = [w EXCEPT !.free = Tail(f), !.live = l + 1] /\ x = Head(f)
    BY DEF Alloc, Allocated
  <1> HIDE DEF w, p, x
  <1>3. /\ f \in Seq(Nat) /\ c \in Nat /\ l \in Nat /\ FreeList(f, c) /\ l + n = c
        /\ w = [free |-> f, live |-> l, capacity |-> c]
        /\ InUse(w) = (1 .. c) \ Elems(f)
    BY <1>1, PoolRecord DEF PoolOK
  <1> HIDE DEF f, c, l
  <1>4. p = [free |-> Tail(f), live |-> l + 1, capacity |-> c]
    BY <1>2, <1>3
  <1>5. /\ Tail(f) \in Seq(Nat) /\ Len(Tail(f)) = n - 1 /\ n \in Nat /\ n >= 1
        /\ \A i \in 1 .. (n - 1) : Tail(f)[i] = f[i + 1] /\ i + 1 \in 1 .. n
        /\ Head(f) = f[1] /\ 1 \in 1 .. n
    BY <1>1, <1>3
  <1>6. (\A i \in 1 .. n : f[i] \in 1 .. c) /\ (\A i, j \in 1 .. n : f[i] = f[j] => i = j)
    BY <1>3 DEF FreeList
  <1> HIDE DEF n
  <1>7. FreeList(Tail(f), c)
    <2>1. ASSUME NEW i \in 1 .. (n - 1) PROVE Tail(f)[i] \in 1 .. c
      <3>1. Tail(f)[i] = f[i + 1] /\ i + 1 \in 1 .. n
        BY <1>5
      <3> QED
        BY <1>6, <3>1
    <2>2. ASSUME NEW i \in 1 .. (n - 1), NEW j \in 1 .. (n - 1), Tail(f)[i] = Tail(f)[j]
          PROVE  i = j
      <3>1. f[i + 1] = f[j + 1] /\ i + 1 \in 1 .. n /\ j + 1 \in 1 .. n
        BY <1>5, <2>2
      <3>2. i + 1 = j + 1
        BY <1>6, <3>1
      <3> QED
        BY <3>2
    <2> QED
      BY <1>3, <1>5, <2>1, <2>2 DEF FreeList
  <1>8. Elems(f) = Elems(Tail(f)) \cup {x} /\ x \notin Elems(Tail(f)) /\ x \in 1 .. c
    <2>1. Elems(f) = {f[i] : i \in 1 .. n} /\ Elems(Tail(f)) = {Tail(f)[i] : i \in 1 .. (n - 1)}
      BY <1>5 DEF Elems, n
    <2>2. \A i \in 1 .. n : i # 1 => i - 1 \in 1 .. (n - 1) /\ (i - 1) + 1 = i
      BY <1>5
    <2>3. \A i \in 1 .. n : f[i] = x \/ \E k \in 1 .. (n - 1) : f[i] = Tail(f)[k]
      BY <1>2, <1>5, <2>2
    <2>4. \A i \in 1 .. (n - 1) : i + 1 # 1
      BY <1>5
    <2>5. Elems(f) = Elems(Tail(f)) \cup {x}
      <3>1. \A i \in 1 .. n : f[i] \in Elems(Tail(f)) \cup {x}
        BY <2>1, <2>3
      <3>2. \A i \in 1 .. (n - 1) : Tail(f)[i] \in Elems(f)
        BY <1>5, <2>1
      <3>3. x \in Elems(f)
        BY <1>2, <1>5, <2>1
      <3>4. Elems(f) \subseteq Elems(Tail(f)) \cup {x}
        BY <2>1, <3>1
      <3>5. Elems(Tail(f)) \subseteq Elems(f)
        BY <2>1, <3>2
      <3> QED
        BY <3>3, <3>4, <3>5
    <2>6. \A i \in 1 .. (n - 1) : Tail(f)[i] # x
      BY <1>2, <1>5, <1>6, <2>4
    <2>7. x \in 1 .. c
      BY <1>2, <1>5, <1>6
    <2>8. x \notin Elems(Tail(f))
      BY <2>1, <2>6
    <2> QED
      BY <2>5, <2>7, <2>8
  <1>9. p \in PoolState
    BY <1>3, <1>4, <1>5 DEF PoolState, l
  <1>10. PoolOK(p)
    <2>1. (l + 1) + (n - 1) = c /\ l \in Nat
      BY <1>3, <1>5 DEF l, n
    <2> QED
      BY <1>4, <1>5, <1>7, <1>9, <2>1 DEF PoolOK
  <1>11. InUse(p) = InUse(w) \cup {x} /\ x \notin InUse(w)
    <2>1. InUse(p) = (1 .. c) \ Elems(Tail(f))
      BY <1>4, <1>9, PoolRecord
    <2> QED
      BY <1>3, <1>8, <2>1
  <1>12. p.capacity = c
    BY <1>4
  <1> QED
    BY <1>1, <1>8, <1>10, <1>11, <1>12 DEF p, x

\* dealloc frees the object it is given.
LEMMA ObjectReturned ==
    ASSUME NEW pool, PoolOK(pool), NEW obj \in InUse(pool)
    PROVE  /\ PoolOK(Dealloc(pool, obj))
           /\ Dealloc(pool, obj).capacity = pool.capacity
           /\ InUse(Dealloc(pool, obj)) = InUse(pool) \ {obj}
  <1> DEFINE f == pool.free
             c == pool.capacity
             l == pool.live
             n == Len(f)
             p == Dealloc(pool, obj)
             T == (1 .. c) \ {obj}
             g == <<obj>> \o f
  <1>1. /\ f \in Seq(Nat) /\ c \in Nat /\ l \in Nat /\ FreeList(f, c) /\ l + n = c
        /\ pool = [free |-> f, live |-> l, capacity |-> c]
        /\ InUse(pool) = (1 .. c) \ Elems(f)
    BY PoolRecord DEF PoolOK
  <1>2. p = [pool EXCEPT !.free = g, !.live = l - 1]
    BY DEF Dealloc
  <1> HIDE DEF f, c, l, p
  <1>3. n \in Nat /\ (\A i \in 1 .. n : f[i] \in 1 .. c)
        /\ (\A i, j \in 1 .. n : f[i] = f[j] => i = j)
    BY <1>1 DEF FreeList
  <1>4. obj \in 1 .. c /\ obj \in Nat /\ \A i \in 1 .. n : f[i] # obj
    BY <1>1 DEF Elems
  <1>5. f \in Injection(1 .. n, T)
    <2>1. f \in [1 .. n -> T]
      BY <1>1, <1>3, <1>4
    <2> HIDE DEF T, n
    <2> QED
      BY <1>3, <2>1 DEF Injection, IsInjective
  <1>6. IsFiniteSet(T) /\ Cardinality(T) = c - 1
    <2>0. 1 \in Int /\ c \in Int
      BY <1>1
    <2>1. IsFiniteSet(1 .. c) /\ Cardinality(1 .. c) = c
      <3>1. IsFiniteSet(1 .. c) /\ Cardinality(1 .. c) = IF 1 > c THEN 0 ELSE c - 1 + 1
        BY <2>0, FS_Interval
      <3> QED
        BY <1>1, <3>1
    <2> DEFINE U == 1 .. c
    <2>2. obj \in U
      BY <1>4
    <2> HIDE DEF U
    <2>3. IsFiniteSet(U \ {obj}) /\ Cardinality(U \ {obj}) = Cardinality(U) - 1
      BY <2>1, <2>2, FS_RemoveElement DEF U
    <2> QED
      BY <2>1, <2>3 DEF U
  <1>7. IsFiniteSet(1 .. n) /\ Cardinality(1 .. n) = n
    <2>1. IsFiniteSet(1 .. n) /\ Cardinality(1 .. n) = IF 1 > n THEN 0 ELSE n - 1 + 1
      BY <1>3, FS_Interval
    <2> QED
      BY <1>3, <2>1
  <1>8. n <= c - 1
    <2> HIDE DEF T, n
    <2> QED
      BY <1>5, <1>6, <1>7, FS_Injection
  <1> HIDE DEF T
  <1>9. /\ g \in Seq(Nat) /\ Len(g) = 1 + n /\ Elems(g) = {obj} \cup Elems(f)
        /\ g[1] = obj
        /\ \A i \in 1 .. n : g[1 + i] = f[i]
        /\ \A i \in 1 .. (1 + n) : i = 1 \/ \E k \in 1 .. n : i = 1 + k
    <2> DEFINE o == <<obj>>
    <2>1. o \in Seq(Nat) /\ Len(o) = 1 /\ o[1] = obj
      BY <1>4
    <2>2. Elems(o) = {obj}
      BY <2>1 DEF Elems
    <2> HIDE DEF o
    <2>3. /\ o \o f \in Seq(Nat) /\ Len(o \o f) = Len(o) + Len(f)
          /\ \A i \in 1 .. Len(o) : (o \o f)[i] = o[i]
          /\ \A i \in 1 .. Len(f) : (o \o f)[Len(o) + i] = f[i]
          /\ \A i \in 1 .. (Len(o) + Len(f)) :
                i \in 1 .. Len(o) \/ \E k \in 1 .. Len(f) : i = Len(o) + k
          /\ Elems(o \o f) = Elems(o) \cup Elems(f)
      BY <1>1, <2>1, FreeListsJoined
    <2>4. g = o \o f
      BY DEF o
    <2> HIDE DEF g
    <2>5. Len(o) = 1 /\ Len(f) = n
      BY <2>1
    <2> HIDE DEF n
    <2>6. /\ g \in Seq(Nat) /\ Len(g) = 1 + n /\ Elems(g) = {obj} \cup Elems(f)
          /\ \A i \in 1 .. 1 : g[i] = o[i]
          /\ \A i \in 1 .. n : g[1 + i] = f[i]
          /\ \A i \in 1 .. (1 + n) : i \in 1 .. 1 \/ \E k \in 1 .. n : i = 1 + k
      BY <2>2, <2>3, <2>4, <2>5, SMTT(60)
    <2> QED
      BY <2>1, <2>6
  <1> HIDE DEF g, n
  <1>10. p = [free |-> g, live |-> l - 1, capacity |-> c]
    BY <1>1, <1>2
  <1>11. l - 1 \in Nat /\ (l - 1) + (1 + n) = c
    BY <1>1, <1>3, <1>8
  <1>12. p \in PoolState
    BY <1>1, <1>9, <1>10, <1>11 DEF PoolState
  <1>13. FreeList(g, c)
    <2>0. ASSUME NEW k \in 1 .. n PROVE g[1 + k] = f[k] /\ f[k] \in 1 .. c /\ f[k] # obj
      BY <1>3, <1>4, <1>9
    <2>1. ASSUME NEW i \in 1 .. (1 + n) PROVE g[i] \in 1 .. c
      <3>1. CASE i = 1
        BY <1>4, <1>9, <3>1
      <3>2. ASSUME NEW k \in 1 .. n, i = 1 + k PROVE g[i] \in 1 .. c
        BY <2>0, <3>2
      <3> QED
        BY <1>9, <3>1, <3>2
    <2>2. ASSUME NEW i \in 1 .. (1 + n), NEW j \in 1 .. (1 + n), g[i] = g[j] PROVE i = j
      <3>1. CASE i = 1 /\ j = 1
        BY <3>1
      <3>2. ASSUME NEW k \in 1 .. n, i = 1 + k, j = 1 PROVE FALSE
        BY <1>9, <2>0, <2>2, <3>2
      <3>3. ASSUME NEW k \in 1 .. n, j = 1 + k, i = 1 PROVE FALSE
        BY <1>9, <2>0, <2>2, <3>3
      <3>4. ASSUME NEW k \in 1 .. n, i = 1 + k, NEW k2 \in 1 .. n, j = 1 + k2 PROVE i = j
        <4>1. f[k] = f[k2]
          BY <2>0, <2>2, <3>4
        <4> QED
          BY <1>3, <3>4, <4>1
      <3> QED
        BY <1>9, <3>1, <3>2, <3>3, <3>4
    <2> QED
      BY <1>1, <1>9, <2>1, <2>2 DEF FreeList
  <1>14. PoolOK(p)
    BY <1>9, <1>10, <1>11, <1>12, <1>13 DEF PoolOK
  <1>15. InUse(p) = InUse(pool) \ {obj}
    <2>1. InUse(p) = (1 .. c) \ Elems(g)
      BY <1>10, <1>12, PoolRecord
    <2> QED
      BY <1>1, <1>9, <2>1
  <1> QED
    BY <1>10, <1>14, <1>15 DEF p, c
=============================================================================
