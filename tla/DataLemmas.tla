------------------------------ MODULE DataLemmas ------------------------------
(***************************************************************************)
(* Queues of identities, each of which waits once: what the job managers'  *)
(* enqueue, popleft and remove make of them.  Finite sets, and functions   *)
(* defined by recursion on a number.                                       *)
(***************************************************************************)
EXTENDS Integers, Sequences, SequencesExt, SequenceTheorems, FiniteSetTheorems,
        WellFoundedInduction, TLAPS

(* No identity waits twice.                                                *)
OnceEach(q) == \A i, j \in DOMAIN q : q[i] = q[j] => i = j

(* What is queued last is all that is added to the queue.                  *)
LEMMA AppendQueue ==
  ASSUME NEW S, NEW q \in Seq(S), NEW x \in S
  PROVE  /\ Append(q, x) \in Seq(S)
         /\ ToSet(Append(q, x)) = ToSet(q) \cup {x}
         /\ OnceEach(q) /\ x \notin ToSet(q) => OnceEach(Append(q, x))
<1> DEFINE n == Len(q)
<1>1. n \in Nat /\ DOMAIN q = 1..n
  OBVIOUS
<1>2. /\ Append(q, x) \in Seq(S)
      /\ DOMAIN Append(q, x) = 1..(n + 1)
      /\ Append(q, x)[n + 1] = x
      /\ \A i \in 1..n : Append(q, x)[i] = q[i]
  OBVIOUS
<1> HIDE DEF n
<1>3. 1..(n + 1) = 1..n \cup {n + 1} /\ n + 1 \notin 1..n
  BY <1>1
<1>4. ToSet(Append(q, x)) = ToSet(q) \cup {x}
  BY <1>1, <1>2, <1>3 DEF ToSet
<1>5. ASSUME OnceEach(q), x \notin ToSet(q) PROVE OnceEach(Append(q, x))
  BY <1>1, <1>2, <1>3, <1>5 DEF OnceEach, ToSet
<1> QED
  BY <1>2, <1>4, <1>5

(* What is taken first is all that the queue loses.                        *)
LEMMA TailQueue ==
  ASSUME NEW S, NEW q \in Seq(S), q # <<>>
  PROVE  /\ Head(q) \in S /\ Head(q) \in ToSet(q) /\ Tail(q) \in Seq(S)
         /\ ToSet(Tail(q)) \subseteq ToSet(q)
         /\ ToSet(q) \subseteq ToSet(Tail(q)) \cup {Head(q)}
         /\ OnceEach(q) => OnceEach(Tail(q)) /\ Head(q) \notin ToSet(Tail(q))
<1> DEFINE n == Len(q)
<1>1. n \in Nat /\ n > 0 /\ DOMAIN q = 1..n /\ Head(q) = q[1] /\ \A i \in 1..n : q[i] \in S
  OBVIOUS
<1>2. /\ Tail(q) \in Seq(S)
      /\ DOMAIN Tail(q) = 1..(n - 1)
      /\ \A i \in 1..(n - 1) : Tail(q)[i] = q[i + 1]
  OBVIOUS
<1> HIDE DEF n
<1>3. \A i \in 1..(n - 1) : i + 1 \in 1..n /\ i + 1 # 1
  BY <1>1
<1>4. ToSet(Tail(q)) \subseteq ToSet(q)
  BY <1>1, <1>2, <1>3 DEF ToSet
<1>5. ASSUME OnceEach(q) PROVE OnceEach(Tail(q)) /\ Head(q) \notin ToSet(Tail(q))
  <2>1. OnceEach(Tail(q))
    BY <1>1, <1>2, <1>3, <1>5 DEF OnceEach
  <2>2. Head(q) \notin ToSet(Tail(q))
    BY <1>1, <1>2, <1>3, <1>5 DEF OnceEach, ToSet
  <2> QED
    BY <2>1, <2>2
<1>6. Head(q) \in ToSet(q)
  BY <1>1 DEF ToSet
<1>7. ToSet(q) \subseteq ToSet(Tail(q)) \cup {Head(q)}
  <2> SUFFICES ASSUME NEW i \in 1..n, i # 1 PROVE q[i] \in ToSet(Tail(q))
    BY <1>1 DEF ToSet
  <2>1. PICK h \in 1..(n - 1) : h + 1 = i
    <3>1. i - 1 \in 1..(n - 1) /\ (i - 1) + 1 = i
      BY <1>1
    <3> QED
      BY <3>1
  <2>2. Tail(q)[h] = q[i]
    BY <1>2, <2>1
  <2> QED
    BY <1>2, <2>2 DEF ToSet
<1> QED
  BY <1>1, <1>2, <1>4, <1>5, <1>6, <1>7

(* What is removed from a place in the queue is all that the queue loses.  *)
LEMMA RemoveQueue ==
  ASSUME NEW S, NEW q \in Seq(S), NEW k \in DOMAIN q
  PROVE  /\ RemoveAt(q, k) \in Seq(S)
         /\ ToSet(RemoveAt(q, k)) \subseteq ToSet(q)
         /\ ToSet(q) \subseteq ToSet(RemoveAt(q, k)) \cup {q[k]}
         /\ OnceEach(q) => OnceEach(RemoveAt(q, k)) /\ q[k] \notin ToSet(RemoveAt(q, k))
<1> DEFINE n == Len(q)
           a == SubSeq(q, 1, k - 1)
           b == SubSeq(q, k + 1, n)
           r == RemoveAt(q, k)
<1>1. n \in Nat /\ DOMAIN q = 1..n /\ k \in 1..n /\ \A i \in 1..n : q[i] \in S
  OBVIOUS
<1>2. /\ a \in Seq(S) /\ Len(a) = k - 1 /\ \A i \in 1..(k - 1) : a[i] = q[i]
      /\ b \in Seq(S) /\ Len(b) = n - k /\ \A i \in 1..(n - k) : b[i] = q[k + i]
  <2>1. /\ 1 \in Int /\ k - 1 \in Int /\ \A i \in 1..(k - 1) : q[i] \in S
        /\ k + 1 \in Int /\ n \in Int /\ \A i \in (k + 1)..n : q[i] \in S
    BY <1>1
  <2>2. /\ a \in Seq(S) /\ Len(a) = (IF 1 <= k - 1 THEN (k - 1) - 1 + 1 ELSE 0)
        /\ \A i \in 1..((k - 1) - 1 + 1) : a[i] = q[1 + i - 1]
    BY <2>1, SubSeqProperties
  <2>3. /\ b \in Seq(S) /\ Len(b) = (IF k + 1 <= n THEN n - (k + 1) + 1 ELSE 0)
        /\ \A i \in 1..(n - (k + 1) + 1) : b[i] = q[(k + 1) + i - 1]
    BY <2>1, SubSeqProperties
  <2> HIDE DEF a, b, n
  <2>4. Len(a) = k - 1 /\ Len(b) = n - k
    BY <1>1, <2>2, <2>3
  <2>5. ASSUME NEW i \in 1..(k - 1) PROVE a[i] = q[i]
    <3>1. i \in 1..((k - 1) - 1 + 1) /\ 1 + i - 1 = i
      BY <1>1
    <3> QED
      BY <2>2, <3>1
  <2>6. ASSUME NEW i \in 1..(n - k) PROVE b[i] = q[k + i]
    <3>1. i \in 1..(n - (k + 1) + 1) /\ (k + 1) + i - 1 = k + i
      BY <1>1
    <3> QED
      BY <2>3, <3>1
  <2> QED
    BY <2>2, <2>3, <2>4, <2>5, <2>6
<1>3. r = a \o b
  BY DEF RemoveAt
<1> HIDE DEF a, b
<1>4. /\ r \in Seq(S) /\ Len(r) = (k - 1) + (n - k)
      /\ \A i \in 1..((k - 1) + (n - k)) : r[i] = IF i <= k - 1 THEN a[i] ELSE b[i - (k - 1)]
  BY <1>2, <1>3, ConcatProperties
<1> HIDE DEF r, n
<1>5. /\ DOMAIN r = 1..(n - 1)
      /\ \A i \in 1..(n - 1) : r[i] = IF i < k THEN q[i] ELSE q[i + 1]
  <2>1. Len(r) = n - 1
    BY <1>1, <1>4
  <2>2. DOMAIN r = 1..(n - 1)
    BY <1>4, <2>1
  <2>3. ASSUME NEW i \in 1..(n - 1) PROVE r[i] = IF i < k THEN q[i] ELSE q[i + 1]
    <3>1. CASE i < k
      BY <1>1, <1>2, <1>4, <3>1
    <3>2. CASE ~(i < k)
      <4>1. i - (k - 1) \in 1..(n - k) /\ k + (i - (k - 1)) = i + 1
        BY <1>1, <3>2
      <4>2. r[i] = b[i - (k - 1)]
        BY <1>1, <1>4, <3>2
      <4> QED
        BY <1>2, <3>2, <4>1, <4>2
    <3> QED
      BY <3>1, <3>2
  <2> QED
    BY <2>2, <2>3
<1>6. \A i \in 1..(n - 1) : (IF i < k THEN i ELSE i + 1) \in 1..n \ {k}
  BY <1>1
<1>7. ToSet(r) \subseteq ToSet(q)
  BY <1>1, <1>5, <1>6 DEF ToSet
<1>8. \A i \in 1..n : i # k => \E h \in 1..(n - 1) : i = IF h < k THEN h ELSE h + 1
  <2> SUFFICES ASSUME NEW i \in 1..n, i # k
               PROVE  \E h \in 1..(n - 1) : i = IF h < k THEN h ELSE h + 1
    OBVIOUS
  <2>1. CASE i < k
    <3>1. i \in 1..(n - 1)
      BY <1>1, <2>1
    <3> QED
      BY <2>1, <3>1
  <2>2. CASE i > k
    <3>1. i - 1 \in 1..(n - 1) /\ ~(i - 1 < k) /\ i = (i - 1) + 1
      BY <1>1, <2>2
    <3> QED
      BY <3>1
  <2> QED
    BY <1>1, <2>1, <2>2
<1>9. ToSet(q) \subseteq ToSet(r) \cup {q[k]}
  <2> SUFFICES ASSUME NEW i \in 1..n, i # k PROVE q[i] \in ToSet(r)
    BY <1>1 DEF ToSet
  <2> PICK h \in 1..(n - 1) : i = IF h < k THEN h ELSE h + 1
    BY <1>8
  <2>1. r[h] = q[i]
    BY <1>5
  <2> QED
    BY <1>5, <2>1 DEF ToSet
<1>10. ASSUME OnceEach(q) PROVE OnceEach(r) /\ q[k] \notin ToSet(r)
  <2>1. ASSUME NEW i \in 1..(n - 1), NEW j \in 1..(n - 1), r[i] = r[j] PROVE i = j
    <3> DEFINE x == IF i < k THEN i ELSE i + 1
               y == IF j < k THEN j ELSE j + 1
    <3>1. x \in 1..n /\ y \in 1..n /\ q[x] = q[y]
      BY <1>5, <1>6, <2>1
    <3>2. x = y
      BY <1>1, <1>10, <3>1 DEF OnceEach
    <3> QED
      BY <1>1, <3>2
  <2>2. q[k] \notin ToSet(r)
    BY <1>1, <1>5, <1>6, <1>10 DEF OnceEach, ToSet
  <2> QED
    BY <1>5, <2>1, <2>2 DEF OnceEach
<1> QED
  BY <1>4, <1>7, <1>9, <1>10 DEF r

(* Nothing waits in an empty queue.                                        *)
LEMMA EmptyQueue ==
  (\A S : <<>> \in Seq(S)) /\ ToSet(<<>>) = {} /\ OnceEach(<<>>)
BY DEF ToSet, OnceEach

(* What waits in a queue is what it is a queue of.                         *)
LEMMA QueueElements ==
  ASSUME NEW S, NEW q \in Seq(S)
  PROVE  ToSet(q) \subseteq S
BY DEF ToSet

(* A sequence without repetitions is as long as it has elements.           *)
LEMMA OnceEachCounts ==
  ASSUME NEW S, NEW s \in Seq(S), OnceEach(s)
  PROVE  IsFiniteSet(ToSet(s)) /\ Cardinality(ToSet(s)) = Len(s)
<1> DEFINE n == Len(s)
           T == ToSet(s)
           D == 1..n
<1>1. n \in Nat /\ s \in [D -> T] /\ DOMAIN s = D
  BY DEF ToSet
<1>2. \A x \in T : \E i \in D : s[i] = x
  BY <1>1 DEF ToSet
<1>3. IsFiniteSet(D) /\ Cardinality(D) = n
  BY <1>1, FS_Interval
<1> HIDE DEF n, T, D
<1>4. s \in Bijection(D, T)
  BY <1>1, <1>2 DEF OnceEach, Bijection, Injection, Surjection, IsInjective
<1>5. IsFiniteSet(T) /\ Cardinality(T) = n
  BY <1>3, <1>4, FS_Bijection DEF ExistsBijection
<1> QED BY <1>5 DEF n, T

---------------------------------------------------------------------------
(* A finite set has a smallest member of any collection of its subsets.    *)
LEMMA SmallestSet ==
  ASSUME NEW D, IsFiniteSet(D), NEW T, T \subseteq SUBSET D, T # {}
  PROVE  \E x \in T : \A y \in T : y \subseteq x => y = x
<1>1. IsWellFoundedOn(StrictSubsetOrdering(D), SUBSET D)
  BY FS_StrictSubsetOrderingWellFounded, FS_FiniteSubsetsOfFinite
<1>2. PICK x \in T : \A y \in T : ~ (<<y, x>> \in StrictSubsetOrdering(D))
  BY <1>1, WFMin
<1> QED BY <1>2 DEF StrictSubsetOrdering

(* A set of numbers has a least one.                                       *)
LEMMA LeastMember ==
  ASSUME NEW S, S \subseteq Nat, S # {}
  PROVE  \E n \in S : \A m \in S : n <= m
<1>1. PICK k \in S : TRUE
  OBVIOUS
<1> DEFINE T == {0..m : m \in {q \in S : q <= k}}
<1>2. IsFiniteSet(0..k)
  BY FS_Interval
<1>3. T \subseteq SUBSET (0..k) /\ T # {}
  BY <1>1
<1>4. PICK x \in T : \A y \in T : y \subseteq x => y = x
  <2> DEFINE D == 0..k
  <2> HIDE DEF T, D
  <2>1. IsFiniteSet(D) /\ T \subseteq SUBSET D /\ T # {}
    BY <1>2, <1>3 DEF D
  <2> QED BY <2>1, SmallestSet
<1>5. PICK n \in S : n <= k /\ x = 0..n
  OBVIOUS
<1>6. ASSUME NEW m \in S, m < n PROVE FALSE
  <2>1. 0..m \in T /\ 0..m \subseteq 0..n
    BY <1>6, <1>5
  <2>2. n \in 0..n /\ n \notin 0..m
    BY <1>6
  <2> QED BY <2>1, <2>2, <1>5, <1>4
<1> QED BY <1>6

(* Induction, of the numbers in a set.                                     *)
LEMMA SetInduction ==
  ASSUME NEW S, 0 \in S, \A n \in Nat : n \in S => n + 1 \in S
  PROVE  Nat \subseteq S
<1> SUFFICES ASSUME Nat \ S # {} PROVE FALSE
  OBVIOUS
<1>1. PICK n \in Nat \ S : \A m \in Nat \ S : n <= m
  BY LeastMember
<1>2. n - 1 \in Nat /\ n - 1 \in S
  BY <1>1
<1> QED BY <1>1, <1>2

(* The function that starts from c and goes on by the steps.  There is     *)
(* one, so that a recursive definition of it names one.                    *)
Iterated(f, V, c, step) ==
  f \in [Nat -> V] /\ f[0] = c /\ \A n \in Nat \ {0} : f[n] = step[n][f[n - 1]]

LEMMA Iterates ==
  ASSUME NEW V, NEW c \in V, NEW step \in [Nat -> [V -> V]]
  PROVE  \E f : Iterated(f, V, c, step)
<1> DEFINE Upto(n) == {g \in [0..n -> V] :
                        g[0] = c /\ \A k \in 1..n : g[k] = step[k][g[k - 1]]}
           Found == {n \in Nat : Upto(n) # {}}
           Same == {n \in Nat : \A m \in Nat : n <= m => \A g \in Upto(n), h \in Upto(m) : g[n] = h[n]}
           f == [n \in Nat |-> (CHOOSE g \in Upto(n) : TRUE)[n]]
<1>1. Nat \subseteq Found
  <2>1. 0 \in Found
    <3>1. [k \in 0..0 |-> c] \in Upto(0)
      OBVIOUS
    <3> QED BY <3>1
  <2>2. ASSUME NEW n \in Nat, n \in Found PROVE n + 1 \in Found
    <3>1. PICK g \in Upto(n) : TRUE
      BY <2>2
    <3> DEFINE h == [k \in 0..(n + 1) |-> IF k = n + 1 THEN step[n + 1][g[n]] ELSE g[k]]
    <3>2. step[n + 1] \in [V -> V] /\ g[n] \in V
      OBVIOUS
    <3>3. h \in [0..(n + 1) -> V] /\ h[0] = c
      BY <3>2
    <3>4. \A k \in 1..(n + 1) : h[k] = step[k][h[k - 1]]
      <4> TAKE k \in 1..(n + 1)
      <4>1. CASE k = n + 1
        BY <4>1
      <4>2. CASE k # n + 1
        <5>1. k \in 1..n /\ k - 1 \in 0..n /\ k - 1 # n + 1
          BY <4>2
        <5> QED BY <5>1, <3>1
      <4> QED BY <4>1, <4>2
    <3>5. h \in Upto(n + 1)
      <4> HIDE DEF h
      <4> QED BY <3>3, <3>4
    <3> HIDE DEF Upto
    <3> QED BY <3>5
  <2> HIDE DEF Found
  <2> QED BY <2>1, <2>2, SetInduction
<1>2. Nat \subseteq Same
  <2>1. 0 \in Same
    OBVIOUS
  <2>2. ASSUME NEW n \in Nat, n \in Same PROVE n + 1 \in Same
    <3> SUFFICES ASSUME NEW m \in Nat, n + 1 <= m,
                        NEW g \in Upto(n + 1), NEW h \in Upto(m)
                 PROVE  g[n + 1] = h[n + 1]
      <4> HIDE DEF Upto
      <4> QED OBVIOUS
    <3> DEFINE b == [k \in 0..n |-> g[k]]
    <3>1. b \in Upto(n)
      <4>1. b \in [0..n -> V] /\ b[0] = c
        OBVIOUS
      <4>2. ASSUME NEW k \in 1..n PROVE b[k] = step[k][b[k - 1]]
        <5>1. k \in 1..(n + 1) /\ k - 1 \in 0..n /\ k \in 0..n
          OBVIOUS
        <5> QED BY <5>1
      <4> HIDE DEF b
      <4> QED BY <4>1, <4>2
    <3>2. g[n] = h[n]
      <4>1. b[n] = h[n]
        <5> HIDE DEF b, Upto
        <5> QED BY <2>2, <3>1
      <4> QED BY <4>1
    <3>3. g[n + 1] = step[n + 1][g[n]] /\ h[n + 1] = step[n + 1][h[n]]
      <4>1. n + 1 \in 1..(n + 1) /\ n + 1 \in 1..m /\ (n + 1) - 1 = n
        OBVIOUS
      <4> QED BY <4>1
    <3> QED BY <3>2, <3>3
  <2> HIDE DEF Same
  <2> QED BY <2>1, <2>2, SetInduction
<1>3. ASSUME NEW n \in Nat PROVE (CHOOSE g \in Upto(n) : TRUE) \in Upto(n)
  <2> HIDE DEF Upto
  <2> QED BY <1>1
<1>4. f \in [Nat -> V]
  <2> SUFFICES ASSUME NEW n \in Nat PROVE (CHOOSE g \in Upto(n) : TRUE)[n] \in V
    OBVIOUS
  <2> DEFINE g == CHOOSE g \in Upto(n) : TRUE
  <2>1. g \in Upto(n)
    BY <1>3
  <2>2. g[n] \in V
    <3> HIDE DEF g
    <3> QED BY <2>1
  <2> QED BY <2>2
<1>5. f[0] = c
  BY <1>3
<1>6. ASSUME NEW n \in Nat \ {0} PROVE f[n] = step[n][f[n - 1]]
  <2> DEFINE g == CHOOSE g \in Upto(n) : TRUE
             h == CHOOSE h \in Upto(n - 1) : TRUE
  <2>1. g \in Upto(n) /\ h \in Upto(n - 1)
    <3>1. n \in Nat /\ n - 1 \in Nat
      OBVIOUS
    <3> HIDE DEF Upto
    <3> QED BY <1>3, <3>1
  <2>2. n - 1 \in Same /\ n - 1 <= n
    BY <1>2
  <2>3. h[n - 1] = g[n - 1]
    <3> HIDE DEF Upto, g, h
    <3> QED BY <2>1, <2>2
  <2>4. g[n] = step[n][g[n - 1]]
    <3> HIDE DEF g, h
    <3> QED BY <2>1
  <2> QED BY <2>3, <2>4
<1> HIDE DEF f
<1>7. Iterated(f, V, c, step)
  BY <1>4, <1>5, <1>6 DEF Iterated
<1> QED BY <1>7
=============================================================================
