------------------------- MODULE LoadExecutionProofs -------------------------
(***************************************************************************)
(* What the journal of a load says of Odoo, and what a load may send, for  *)
(* any rows, references, batch sizes, limits, loads and exits of the       *)
(* process; and, first, that a schedule is what it has to be.              *)
(***************************************************************************)
EXTENDS LoadExecution, DataLemmas, FiniteSetTheorems, WellFoundedInduction, TLAPS

---------------------------------------------------------------------------
(* Reach(S, E) is the least set that holds S and is closed under E.        *)
LEMMA ReachLeast ==
  ASSUME NEW S, NEW E
  PROVE  /\ S \subseteq Reach(S, E)
         /\ Owners(Reach(S, E), E) \subseteq Reach(S, E)
         /\ \A T : S \subseteq T /\ Owners(T, E) \subseteq T => Reach(S, E) \subseteq T
<1> DEFINE near == S \cup {Owner(e) : e \in E}
           Closed(T) == S \subseteq T /\ Owners(T, E) \subseteq T
<1>1. Reach(S, E) = {r \in near : \A T \in SUBSET near : Closed(T) => r \in T}
  BY DEF Reach
<1>2. \A T, r : r \in Owners(T, E) <=> \E e \in E : Dependency(e) \in T /\ r = Owner(e)
  BY DEF Owners
<1>3. S \subseteq Reach(S, E)
  BY <1>1
<1>4. ASSUME NEW r \in Owners(Reach(S, E), E) PROVE r \in Reach(S, E)
  <2>1. PICK e \in E : Dependency(e) \in Reach(S, E) /\ r = Owner(e)
    BY <1>2
  <2>2. r \in near
    BY <2>1
  <2>3. ASSUME NEW T \in SUBSET near, Closed(T) PROVE r \in T
    <3>1. Dependency(e) \in T
      BY <1>1, <2>1, <2>3
    <3> QED BY <1>2, <2>1, <2>3, <3>1
  <2> HIDE DEF near, Closed
  <2> QED BY <1>1, <2>2, <2>3
<1>5. ASSUME NEW T, S \subseteq T, Owners(T, E) \subseteq T PROVE Reach(S, E) \subseteq T
  <2>1. T \cap near \in SUBSET near
    OBVIOUS
  <2>2. Owners(T \cap near, E) \subseteq T \cap near
    <3> SUFFICES ASSUME NEW r \in Owners(T \cap near, E) PROVE r \in T \cap near
      OBVIOUS
    <3>1. PICK e \in E : Dependency(e) \in T /\ r = Owner(e)
      BY <1>2
    <3>2. r \in Owners(T, E) /\ r \in near
      BY <1>2, <3>1
    <3> QED BY <3>2, <1>5
  <2>3. Closed(T \cap near)
    BY <2>2, <1>5
  <2> HIDE DEF near, Closed
  <2> QED BY <1>1, <2>1, <2>3
<1> QED BY <1>3, <1>4, <1>5

(* It grows with either argument, and what is reached from it is in it.    *)
LEMMA ReachGrows ==
  ASSUME NEW S, NEW E, NEW T, NEW F, E \subseteq F, S \subseteq Reach(T, F)
  PROVE  Reach(S, E) \subseteq Reach(T, F)
<1>1. Owners(Reach(T, F), E) \subseteq Reach(T, F)
  <2>1. Owners(Reach(T, F), E) \subseteq Owners(Reach(T, F), F)
    BY DEF Owners
  <2> QED BY <2>1, ReachLeast
<1> QED BY <1>1, ReachLeast

(* Whatever is reached is in S or waits for something that is reached.     *)
LEMMA ReachedFrom ==
  ASSUME NEW S, NEW E, NEW r \in Reach(S, E), r \notin S
  PROVE  \E e \in E : Owner(e) = r /\ Dependency(e) \in Reach(S, E)
<1> DEFINE T == S \cup Owners(Reach(S, E), E)
<1>1. T \subseteq Reach(S, E)
  BY ReachLeast
<1>2. Owners(T, E) \subseteq T
  <2>1. Owners(T, E) \subseteq Owners(Reach(S, E), E)
    <3> HIDE DEF T
    <3> QED BY <1>1 DEF Owners
  <2> QED BY <2>1
<1>3. r \in T
  <2>1. S \subseteq T
    OBVIOUS
  <2> HIDE DEF T
  <2> QED BY <1>2, <2>1, ReachLeast
<1>4. r \in Owners(Reach(S, E), E)
  BY <1>3
<1> QED BY <1>4 DEF Owners

(* Every row on a cycle waits for a row on a cycle.                        *)
LEMMA CyclesGoBack ==
  ASSUME NEW E, NEW r, OnCycle(r, E)
  PROVE  \E e \in E : Owner(e) = r /\ OnCycle(Dependency(e), E)
<1>1. r \in Reach(Owners({r}, E), E)
  BY DEF OnCycle
<1>2. CASE r \in Owners({r}, E)
  <2>1. PICK e \in E : Dependency(e) = r /\ Owner(e) = r
    BY <1>2 DEF Owners
  <2> QED BY <2>1
<1>3. CASE r \notin Owners({r}, E)
  <2>1. PICK e \in E : Owner(e) = r /\ Dependency(e) \in Reach(Owners({r}, E), E)
    BY <1>1, <1>3, ReachedFrom
  <2> DEFINE p == Dependency(e)
             beyond == Reach(Owners({p}, E), E)
  <2>2. r \in Owners({p}, E)
    BY <2>1 DEF Owners
  <2>3. Owners({r}, E) \subseteq beyond
    <3>1. Owners({p}, E) \subseteq beyond /\ Owners(beyond, E) \subseteq beyond
      BY ReachLeast
    <3>2. Owners({r}, E) \subseteq Owners(beyond, E)
      <4>1. r \in beyond
        BY <2>2, <3>1
      <4> HIDE DEF beyond
      <4> QED BY <4>1 DEF Owners
    <3> QED BY <3>1, <3>2
  <2>4. Reach(Owners({r}, E), E) \subseteq beyond
    BY <2>3, ReachGrows
  <2>5. OnCycle(p, E)
    BY <2>1, <2>4 DEF OnCycle
  <2> QED BY <2>1, <2>5
<1> QED BY <1>2, <1>3

(* Rows that all wait for one another, and rows of one component.          *)
AllWait(R, E) ==
  R # {} /\ \A r \in R : \E e \in E : Owner(e) = r /\ Dependency(e) \in R
Connected(R, E) == \A p, q \in R : q \in StrongComponent(p, E)

(* Rows of a finite set that all wait for one another include some that    *)
(* do so within one component.                                             *)
LEMMA WaitingCloses ==
  ASSUME NEW R, IsFiniteSet(R), NEW E, NEW K, K \subseteq E, AllWait(R, K)
  PROVE  \E C \in SUBSET R : AllWait(C, K) /\ Connected(C, E)
<1> USE DEF AllWait
<1> DEFINE Before(r) == {q \in R : r \in Reach({q}, E)}
           T == {Before(r) : r \in R}
<1>1. T \subseteq SUBSET R /\ T # {}
  <2>1. PICK r \in R : TRUE
    OBVIOUS
  <2>2. Before(r) \in T
    OBVIOUS
  <2> QED BY <2>2
<1>2. PICK x \in T : \A y \in T : y \subseteq x => y = x
  <2> HIDE DEF T
  <2> QED BY <1>1, SmallestSet
<1> DEFINE C == {q \in R : Before(q) = x}
<1>3. C \in SUBSET R /\ C # {}
  BY <1>2
<1>4. ASSUME NEW r \in C PROVE \E e \in K : Owner(e) = r /\ Dependency(e) \in C
  <2>1. PICK e \in K : Owner(e) = r /\ Dependency(e) \in R
    OBVIOUS
  <2> DEFINE p == Dependency(e)
  <2>2. r \in Reach({p}, E)
    <3>1. {p} \subseteq Reach({p}, E) /\ Owners(Reach({p}, E), E) \subseteq Reach({p}, E)
      BY ReachLeast
    <3>2. r \in Owners(Reach({p}, E), E)
      BY <2>1, <3>1 DEF Owners
    <3> QED BY <3>1, <3>2
  <2>3. Before(p) \subseteq Before(r)
    <3> SUFFICES ASSUME NEW q \in R, p \in Reach({q}, E) PROVE r \in Reach({q}, E)
      OBVIOUS
    <3>1. Reach({p}, E) \subseteq Reach({q}, E)
      BY ReachGrows
    <3> QED BY <3>1, <2>2
  <2>4. Before(p) \in T /\ Before(r) = x
    BY <2>1
  <2>5. Before(p) = x
    <3> HIDE DEF T, Before
    <3> QED BY <1>2, <2>3, <2>4
  <2>6. p \in C
    BY <2>1, <2>5
  <2> QED BY <2>1, <2>6
<1>5. ASSUME NEW p \in C, NEW q \in C PROVE q \in StrongComponent(p, E)
  <2>1. p \in Reach({p}, E) /\ q \in Reach({q}, E)
    BY ReachLeast
  <2>2. p \in Before(p) /\ q \in Before(q)
    BY <2>1
  <2>3. p \in Before(q) /\ q \in Before(p)
    BY <2>2
  <2> QED BY <2>3 DEF StrongComponent
<1> HIDE DEF C
<1> QED BY <1>3, <1>4, <1>5 DEF Connected

(* A row that waits for what it reaches is on a cycle.                     *)
LEMMA CycleCloses ==
  ASSUME NEW E, NEW e \in E, Dependency(e) \in Reach({Owner(e)}, E)
  PROVE  OnCycle(Owner(e), E)
<1> DEFINE r == Owner(e)
           beyond == Reach(Owners({r}, E), E)
<1>1. Owners({r}, E) \subseteq beyond /\ Owners(beyond, E) \subseteq beyond
  BY ReachLeast
<1>2. Reach({r}, E) \subseteq {r} \cup beyond
  <2>1. Owners({r} \cup beyond, E) \subseteq {r} \cup beyond
    <3> HIDE DEF r, beyond
    <3>1. Owners({r} \cup beyond, E) \subseteq Owners({r}, E) \cup Owners(beyond, E)
      BY DEF Owners
    <3> QED BY <3>1, <1>1
  <2>2. {r} \subseteq {r} \cup beyond
    OBVIOUS
  <2> HIDE DEF r, beyond
  <2> QED BY <2>1, <2>2, ReachLeast
<1>3. Dependency(e) \in {r} \cup beyond
  BY <1>2
<1>4. r \in Owners({r} \cup beyond, E)
  <2>1. Owner(e) = r
    OBVIOUS
  <2> HIDE DEF r, beyond
  <2> QED BY <1>3, <2>1 DEF Owners
<1>5. r \in beyond
  <2> HIDE DEF r, beyond
  <2>1. Owners({r} \cup beyond, E) \subseteq Owners({r}, E) \cup Owners(beyond, E)
    BY DEF Owners
  <2> QED BY <2>1, <1>1, <1>4
<1> QED BY <1>5 DEF OnCycle

(* Where no row is on a cycle, no rows all wait for one another.           *)
LEMMA NoCycleNoWaiting ==
  ASSUME NEW R, IsFiniteSet(R), NEW E, \A r \in R : ~OnCycle(r, E)
  PROVE  ~AllWait(R, E)
<1> SUFFICES ASSUME AllWait(R, E)
             PROVE  FALSE
  OBVIOUS
<1>1. PICK C \in SUBSET R : AllWait(C, E) /\ Connected(C, E)
  <2>1. E \subseteq E
    OBVIOUS
  <2> QED BY <2>1, WaitingCloses
<1>2. PICK e \in E : Owner(e) \in C /\ Dependency(e) \in C
  BY <1>1 DEF AllWait
<1>3. Dependency(e) \in Reach({Owner(e)}, E)
  BY <1>1, <1>2 DEF StrongComponent, Connected
<1> QED BY <1>2, <1>3, CycleCloses

---------------------------------------------------------------------------
(* Ready rows are rows of S, and one of them is the lowest.                *)
LEMMA ReadyRows ==
  ASSUME NEW S, S \subseteq Nat, NEW E, NEW done, Ready(done, S, E) # {}
  PROVE  Min(Ready(done, S, E)) \in Ready(done, S, E)
<1> DEFINE next == Ready(done, S, E)
<1>1. next \subseteq Nat
  BY DEF Ready
<1>2. \E r \in next : \A q \in next : r <= q
  <2> HIDE DEF next
  <2> QED BY <1>1, LeastMember DEF next
<1> HIDE DEF next
<1>3. Min(next) \in next
  BY <1>2 DEF Min
<1> QED BY <1>3 DEF next

(* Kahn's order is the last of the sequences that the recursion names.     *)
LEMMA OrderIsBuilt ==
  ASSUME NEW S, S \subseteq Nat, IsFiniteSet(S), NEW E
  PROVE  \E order \in [Nat -> Seq(S)] :
           /\ order[0] = <<>>
           /\ \A n \in Nat \ {0} : order[n] = Extended(order[n - 1], S, E)
           /\ Order(S, E) = order[Cardinality(S)]
<1> DEFINE V == Seq(S)
           step == [n \in Nat |-> [s \in V |-> Extended(s, S, E)]]
           body(g, n) == IF n = 0 THEN <<>> ELSE Extended(g[n - 1], S, E)
           order == CHOOSE g : g = [n \in Nat |-> body(g, n)]
<1>1. ASSUME NEW s \in V PROVE Extended(s, S, E) \in V
  <2>1. CASE Ready(ToSet(s), S, E) = {}
    BY <2>1 DEF Extended
  <2>2. CASE Ready(ToSet(s), S, E) # {}
    <3>1. Min(Ready(ToSet(s), S, E)) \in Ready(ToSet(s), S, E)
      BY <2>2, ReadyRows
    <3>2. Min(Ready(ToSet(s), S, E)) \in S
      BY <3>1 DEF Ready
    <3> QED BY <3>2, <2>2 DEF Extended
  <2> QED BY <2>1, <2>2
<1>2. step \in [Nat -> [V -> V]] /\ <<>> \in V
  <2>1. <<>> \in V
    OBVIOUS
  <2> HIDE DEF V
  <2> QED BY <1>1, <2>1
<1>3. PICK f : Iterated(f, V, <<>>, step)
  <2> HIDE DEF V, step
  <2> QED BY <1>2, Iterates
<1>4. \A n \in Nat \ {0} : f[n] = Extended(f[n - 1], S, E)
  <2> TAKE n \in Nat \ {0}
  <2>1. n \in Nat /\ n - 1 \in Nat
    OBVIOUS
  <2> HIDE DEF V
  <2>2. f[n - 1] \in V
    BY <1>3, <2>1 DEF Iterated
  <2> QED BY <1>3, <2>1, <2>2 DEF Iterated
<1>5. f = [n \in Nat |-> body(f, n)]
  <2> HIDE DEF V
  <2> QED BY <1>3, <1>4 DEF Iterated
<1>6. order = [n \in Nat |-> body(order, n)]
  <2> HIDE DEF body
  <2> QED BY <1>5
<1>7. Order(S, E) = order[Cardinality(S)]
  BY DEF Order
<1> HIDE DEF order
<1>8. order[0] = <<>> /\ \A n \in Nat \ {0} : order[n] = Extended(order[n - 1], S, E)
  BY <1>6
<1>9. Nat \subseteq {n \in Nat : order[n] \in V}
  <2> DEFINE Built == {n \in Nat : order[n] \in V}
  <2>1. 0 \in Built
    <3> HIDE DEF V
    <3> QED BY <1>2, <1>8
  <2>2. ASSUME NEW n \in Nat, n \in Built PROVE n + 1 \in Built
    <3>1. n + 1 \in Nat \ {0} /\ (n + 1) - 1 = n
      OBVIOUS
    <3>2. order[n + 1] = Extended(order[n], S, E)
      BY <1>8, <3>1
    <3> HIDE DEF V
    <3> QED BY <1>1, <2>2, <3>2
  <2> HIDE DEF Built
  <2> QED BY <2>1, <2>2, SetInduction DEF Built
<1>10. order \in [Nat -> V]
  <2> HIDE DEF V, body
  <2> QED BY <1>6, <1>9
<1> QED BY <1>7, <1>8, <1>10

(* The rows before r in an order are all that r waits for.                 *)
Before(order, p, r) == \E i, j \in DOMAIN order : i < j /\ order[i] = p /\ order[j] = r
Follows(order, S, E) ==
  \A e \in Within(S, E) :
    Owner(e) \in ToSet(order) => Before(order, Dependency(e), Owner(e))

(* A step of the order adds a row that waits for none of the others.       *)
LEMMA OrderStep ==
  ASSUME NEW S, S \subseteq Nat, NEW E, NEW s \in Seq(S), OnceEach(s), Follows(s, S, E)
  PROVE  /\ Ready(ToSet(s), S, E) = {} => Extended(s, S, E) = s
         /\ Ready(ToSet(s), S, E) # {} => Len(Extended(s, S, E)) = Len(s) + 1
         /\ OnceEach(Extended(s, S, E)) /\ Follows(Extended(s, S, E), S, E)
<1>1. CASE Ready(ToSet(s), S, E) = {}
  BY <1>1 DEF Extended
<1>2. CASE Ready(ToSet(s), S, E) # {}
  <2> DEFINE r == Min(Ready(ToSet(s), S, E))
             t == Append(s, r)
             n == Len(s)
  <2>1. r \in Ready(ToSet(s), S, E)
    BY <1>2, ReadyRows
  <2>2. r \in S /\ r \notin ToSet(s)
    BY <2>1 DEF Ready
  <2>3. Extended(s, S, E) = t
    BY <1>2 DEF Extended
  <2>4. \A e \in Within(S, E) : Owner(e) = r => Dependency(e) \in ToSet(s)
    BY <2>1 DEF Ready
  <2> HIDE DEF r
  <2>5. OnceEach(t) /\ ToSet(t) = ToSet(s) \cup {r}
    BY <2>2, AppendQueue
  <2>6. /\ n \in Nat /\ DOMAIN s = 1..n /\ DOMAIN t = 1..(n + 1) /\ Len(t) = n + 1
        /\ t[n + 1] = r /\ \A i \in 1..n : t[i] = s[i]
    BY <2>2
  <2> HIDE DEF t, n
  <2>7. 1..n \subseteq 1..(n + 1) /\ n + 1 \in 1..(n + 1) /\ \A i \in 1..n : i < n + 1
    BY <2>6
  <2>8. ASSUME NEW e \in Within(S, E), Owner(e) \in ToSet(t)
        PROVE  Before(t, Dependency(e), Owner(e))
    <3>1. CASE Owner(e) = r
      <4>1. PICK i \in DOMAIN s : s[i] = Dependency(e)
        BY <2>4, <3>1 DEF ToSet
      <4> QED BY <2>6, <2>7, <3>1, <4>1 DEF Before
    <3>2. CASE Owner(e) \in ToSet(s)
      <4>1. Before(s, Dependency(e), Owner(e))
        BY <3>2 DEF Follows
      <4> QED BY <2>6, <2>7, <4>1 DEF Before
    <3> QED BY <2>5, <2>8, <3>1, <3>2
  <2>9. Follows(t, S, E)
    BY <2>8 DEF Follows
  <2> QED BY <1>2, <2>3, <2>5, <2>6, <2>9 DEF n
<1> QED BY <1>1, <1>2

(* Kahn's order takes every row once and keeps to what they wait for, if   *)
(* no rows all wait for one another.                                       *)
LEMMA OrderIsWhole ==
  ASSUME NEW S, S \subseteq Nat, IsFiniteSet(S), NEW E,
         \A R \in SUBSET S : ~AllWait(R, Within(S, E))
  PROVE  /\ Order(S, E) \in Seq(S) /\ OnceEach(Order(S, E))
         /\ ToSet(Order(S, E)) = S /\ Follows(Order(S, E), S, E)
<1>1. PICK order \in [Nat -> Seq(S)] :
         /\ order[0] = <<>>
         /\ \A n \in Nat \ {0} : order[n] = Extended(order[n - 1], S, E)
         /\ Order(S, E) = order[Cardinality(S)]
  BY OrderIsBuilt
<1> DEFINE Sound(n) ==
             /\ OnceEach(order[n]) /\ Follows(order[n], S, E)
             /\ Len(order[n]) = n \/ Ready(ToSet(order[n]), S, E) = {}
           Reached == {n \in Nat : Sound(n)}
<1>2. Nat \subseteq Reached
  <2>1. 0 \in Reached
    <3>1. OnceEach(<<>>) /\ ToSet(<<>>) = {} /\ Len(<<>>) = 0
      BY EmptyQueue
    <3>2. Follows(<<>>, S, E)
      BY <3>1 DEF Follows
    <3> QED BY <1>1, <3>1, <3>2
  <2>2. ASSUME NEW n \in Nat, n \in Reached PROVE n + 1 \in Reached
    <3>1. n + 1 \in Nat \ {0} /\ (n + 1) - 1 = n
      OBVIOUS
    <3>2. order[n + 1] = Extended(order[n], S, E) /\ order[n] \in Seq(S)
      BY <1>1, <3>1
    <3>3. Sound(n)
      BY <2>2
    <3>4. /\ OnceEach(order[n + 1]) /\ Follows(order[n + 1], S, E)
          /\ Ready(ToSet(order[n]), S, E) = {} => order[n + 1] = order[n]
          /\ Ready(ToSet(order[n]), S, E) # {} => Len(order[n + 1]) = Len(order[n]) + 1
      <4>1. PICK t \in Seq(S) : t = order[n]
        BY <3>2
      <4>2. OnceEach(t) /\ Follows(t, S, E) /\ order[n + 1] = Extended(t, S, E)
        BY <3>2, <3>3, <4>1
      <4>3. /\ Ready(ToSet(t), S, E) = {} => Extended(t, S, E) = t
            /\ Ready(ToSet(t), S, E) # {} => Len(Extended(t, S, E)) = Len(t) + 1
            /\ OnceEach(Extended(t, S, E)) /\ Follows(Extended(t, S, E), S, E)
        BY <4>2, OrderStep
      <4> QED BY <4>1, <4>2, <4>3
    <3>5. Sound(n + 1)
      BY <3>3, <3>4
    <3> QED BY <3>1, <3>5
  <2> HIDE DEF Reached
  <2> QED BY <2>1, <2>2, SetInduction
<1> DEFINE s == order[Cardinality(S)]
<1>3. Cardinality(S) \in Nat
  BY FS_CardinalityType
<1>4. /\ s \in Seq(S) /\ OnceEach(s) /\ Follows(s, S, E)
      /\ Len(s) = Cardinality(S) \/ Ready(ToSet(s), S, E) = {}
  BY <1>1, <1>2, <1>3
<1> HIDE DEF s
<1>5. ToSet(s) = S
  <2>1. ToSet(s) \subseteq S
    BY <1>4, QueueElements
  <2>2. CASE Len(s) = Cardinality(S)
    <3>3. Cardinality(ToSet(s)) = Len(s)
      BY <1>4, OnceEachCounts
    <3> QED BY <2>1, <2>2, <3>3, FS_Subset
  <2>3. CASE Ready(ToSet(s), S, E) = {}
    <3> DEFINE R == S \ ToSet(s)
    <3>1. ASSUME NEW r \in R PROVE \E e \in Within(S, E) : Owner(e) = r /\ Dependency(e) \in R
      <4>1. PICK e \in Within(S, E) : Owner(e) = r /\ Dependency(e) \notin ToSet(s)
        BY <2>3 DEF Ready
      <4> QED BY <4>1 DEF Within
    <3>2. ~AllWait(R, Within(S, E))
      OBVIOUS
    <3>3. R = {}
      BY <3>1, <3>2 DEF AllWait
    <3> QED BY <2>1, <3>3
  <2> QED BY <1>4, <2>2, <2>3
<1> QED BY <1>1, <1>4, <1>5 DEF s

(* The place of a row in an order.                                         *)
LEMMA PlaceIsIts ==
  ASSUME NEW S, NEW s \in Seq(S), OnceEach(s)
  PROVE  /\ \A r \in ToSet(s) : PlaceIn(s, r) \in 1..Len(s) /\ s[PlaceIn(s, r)] = r
         /\ \A p, r : Before(s, p, r) => PlaceIn(s, p) < PlaceIn(s, r)
<1>1. DOMAIN s = 1..Len(s) /\ Len(s) \in Nat
  OBVIOUS
<1>2. ASSUME NEW r, NEW i \in DOMAIN s, s[i] = r PROVE PlaceIn(s, r) = i
  BY <1>2 DEF PlaceIn, OnceEach
<1>3. ASSUME NEW p, NEW r, Before(s, p, r) PROVE PlaceIn(s, p) < PlaceIn(s, r)
  <2>1. PICK i, j \in DOMAIN s : i < j /\ s[i] = p /\ s[j] = r
    BY <1>3 DEF Before
  <2> QED BY <1>2, <2>1
<1>4. ASSUME NEW r \in ToSet(s) PROVE PlaceIn(s, r) \in 1..Len(s) /\ s[PlaceIn(s, r)] = r
  <2>1. PICK i \in DOMAIN s : s[i] = r
    BY DEF ToSet
  <2> QED BY <1>1, <1>2, <2>1
<1> QED BY <1>3, <1>4

(* The rows of a component have the same component.                        *)
LEMMA ComponentsAgree ==
  ASSUME NEW E, NEW p, NEW q \in StrongComponent(p, E)
  PROVE  StrongComponent(q, E) = StrongComponent(p, E)
<1>1. ASSUME NEW a, NEW b, a \in Reach({b}, E) PROVE Reach({a}, E) \subseteq Reach({b}, E)
  BY <1>1, ReachGrows
<1>2. q \in Reach({p}, E) /\ p \in Reach({q}, E)
  BY DEF StrongComponent
<1>3. Reach({q}, E) = Reach({p}, E)
  <2>1. Reach({q}, E) \subseteq Reach({p}, E)
    BY <1>1, <1>2
  <2>2. Reach({p}, E) \subseteq Reach({q}, E)
    BY <1>1, <1>2
  <2> QED BY <2>1, <2>2
<1>4. \A r : q \in Reach({r}, E) <=> p \in Reach({r}, E)
  BY <1>1, <1>2
<1> QED BY <1>3, <1>4 DEF StrongComponent

(* Once the optional references that point back are put off, no rows all   *)
(* wait for one another, if no row is on a cycle of required references.   *)
Hard(E) == {e \in E : e[2].hard}

LEMMA DeferringBreaksCycles ==
  ASSUME NEW U, U \subseteq Nat, IsFiniteSet(U), NEW E, E = Within(U, E),
         \A r \in U : ~OnCycle(r, Hard(E)), NEW R \in SUBSET U
  PROVE  ~AllWait(R, E \ DeferBack(E))
<1> DEFINE K == E \ DeferBack(E)
<1> SUFFICES ASSUME AllWait(R, K) PROVE FALSE
  OBVIOUS
<1>1. IsFiniteSet(R) /\ K \subseteq E
  BY FS_Subset
<1>2. PICK C \in SUBSET R : AllWait(C, K) /\ Connected(C, E)
  <2> HIDE DEF K
  <2> QED BY <1>1, WaitingCloses
<1>3. PICK top \in C : TRUE
  BY <1>2 DEF AllWait
<1> DEFINE component == StrongComponent(top, E)
           order == Order(component, Hard(E))
<1>4. C \subseteq component /\ \A p \in C : StrongComponent(p, E) = component
  BY <1>2, <1>3, ComponentsAgree DEF Connected
<1>5. component \subseteq U
  <2>1. Owners(U, E) \subseteq U /\ {top} \subseteq U
    BY DEF Owners, Within
  <2> QED BY <2>1, ReachLeast DEF StrongComponent
<1>6. \A Q \in SUBSET component : ~AllWait(Q, Within(component, Hard(E)))
  <2> SUFFICES ASSUME NEW Q \in SUBSET component, AllWait(Q, Within(component, Hard(E)))
               PROVE  FALSE
    OBVIOUS
  <2>1. AllWait(Q, Hard(E))
    BY DEF AllWait, Within
  <2>2. IsFiniteSet(Q) /\ \A r \in Q : ~OnCycle(r, Hard(E))
    BY <1>5, FS_Subset
  <2> QED BY <2>1, <2>2, NoCycleNoWaiting
<1>7. component \subseteq Nat /\ IsFiniteSet(component)
  BY <1>5, FS_Subset
<1>8. /\ order \in Seq(component) /\ OnceEach(order)
      /\ ToSet(order) = component /\ Follows(order, component, Hard(E))
  <2> HIDE DEF component
  <2> QED BY <1>6, <1>7, OrderIsWhole
<1> HIDE DEF order, component
<1>9. \A q \in C : PlaceIn(order, q) \in Nat
  BY <1>4, <1>8, PlaceIsIts
<1>10. PICK r \in C : \A q \in C : PlaceIn(order, r) <= PlaceIn(order, q)
  <2> DEFINE T == {PlaceIn(order, q) : q \in C}
  <2>1. T \subseteq Nat /\ T # {}
    BY <1>3, <1>9
  <2>2. PICK n \in T : \A m \in T : n <= m
    <3> HIDE DEF T
    <3> QED BY <2>1, LeastMember
  <2> QED BY <2>2
<1>11. PICK e \in K : Owner(e) = r /\ Dependency(e) \in C
  BY <1>2 DEF AllWait
<1> DEFINE p == Dependency(e)
<1>12. PlaceIn(order, p) \in Nat /\ PlaceIn(order, r) \in Nat
  BY <1>9, <1>11
<1>13. PlaceIn(order, p) < PlaceIn(order, r)
  <2>1. CASE e[2].hard
    <3>1. e \in Within(component, Hard(E)) /\ Owner(e) \in ToSet(order)
      BY <1>4, <1>8, <1>11, <2>1 DEF Within, Hard
    <3>2. Before(order, p, r)
      BY <1>8, <1>11, <3>1 DEF Follows
    <3> QED BY <1>8, <3>2, PlaceIsIts
  <2>2. CASE ~e[2].hard
    <3>1. StrongComponent(p, E) = component /\ r \in component
      BY <1>4, <1>11
    <3>2. e \notin DeferBack(E) /\ e \in E
      BY <1>11
    <3>3. ~(PlaceIn(order, p) >= PlaceIn(order, r))
      BY <1>11, <2>2, <3>1, <3>2 DEF DeferBack, order, Hard
    <3> QED BY <1>12, <3>3
  <2> QED BY <2>1, <2>2
<1>14. PlaceIn(order, r) <= PlaceIn(order, p)
  <2> HIDE DEF K, p
  <2>1. p \in C
    BY <1>11 DEF p
  <2> QED BY <1>10, <2>1
<1> QED BY <1>12, <1>13, <1>14

---------------------------------------------------------------------------
(* The rows in groups, groups that share no row, and groups behind those   *)
(* that their rows wait for.                                               *)
Members(g) == UNION {g[i] : i \in DOMAIN g}
Disjoint(g) == \A i, j \in DOMAIN g : g[i] \cap g[j] # {} => i = j
Layered(g, E) ==
  \A e \in E : \A j \in DOMAIN g :
    Owner(e) \in g[j] => \E i \in DOMAIN g : i < j /\ Dependency(e) \in g[i]

LEMMA GroupedTypes ==
  ASSUME NEW X, NEW g \in Seq(SUBSET X), NEW r \in X, NEW E
  PROVE  Grouped(g, r, E) \in Seq(SUBSET X)
<1>1. CASE g = <<>> \/ \E e \in E : Owner(e) = r /\ Dependency(e) \in g[Len(g)]
  BY <1>1 DEF Grouped
<1>2. CASE ~(g = <<>> \/ \E e \in E : Owner(e) = r /\ Dependency(e) \in g[Len(g)])
  <2> DEFINE last == Len(g)
  <2>1. last \in Nat /\ last # 0 /\ DOMAIN g = 1..last /\ \A i \in 1..last : g[i] \in SUBSET X
    BY <1>2
  <2>2. Grouped(g, r, E) = [g EXCEPT ![last] = @ \cup {r}]
    BY <1>2 DEF Grouped
  <2>3. [g EXCEPT ![last] = @ \cup {r}] \in Seq(SUBSET X)
    <3>1. g[last] \cup {r} \in SUBSET X /\ last \in 1..Len(g)
      BY <2>1
    <3> QED BY <3>1, ExceptSeq
  <2> QED BY <2>2, <2>3
<1> QED BY <1>1, <1>2

(* One more row whose dependencies have been placed keeps the groups so.   *)
LEMMA GroupedStep ==
  ASSUME NEW X, NEW g \in Seq(SUBSET X), NEW r \in X, NEW E,
         Disjoint(g), Layered(g, E), r \notin Members(g),
         \A e \in E : Owner(e) = r => Dependency(e) \in Members(g)
  PROVE  /\ Members(Grouped(g, r, E)) = Members(g) \cup {r}
         /\ Disjoint(Grouped(g, r, E)) /\ Layered(Grouped(g, r, E), E)
<1> DEFINE last == Len(g)
           opens == g = <<>> \/ \E e \in E : Owner(e) = r /\ Dependency(e) \in g[last]
           h == Grouped(g, r, E)
<1>1. last \in Nat /\ DOMAIN g = 1..last /\ \A i \in 1..last : g[i] \in SUBSET X /\ r \notin g[i]
  BY DEF Members
<1>2. \A e \in E : Owner(e) = r => \E i \in 1..last : Dependency(e) \in g[i]
  BY <1>1 DEF Members
<1>3. CASE opens
  <2>1. h = Append(g, {r})
    BY <1>3 DEF Grouped
  <2>2. /\ DOMAIN h = 1..(last + 1) /\ h[last + 1] = {r}
        /\ \A i \in 1..last : h[i] = g[i]
    <3>1. {r} \in SUBSET X
      OBVIOUS
    <3> QED BY <2>1, <3>1
  <2>3. 1..(last + 1) = 1..last \cup {last + 1} /\ last + 1 \notin 1..last /\ \A i \in 1..last : i < last + 1
    BY <1>1
  <2> HIDE DEF h, last
  <2>4. Members(h) = Members(g) \cup {r}
    BY <1>1, <2>2, <2>3 DEF Members
  <2>5. Disjoint(h)
    BY <1>1, <2>2, <2>3 DEF Disjoint
  <2>6. ASSUME NEW e \in E, NEW j \in DOMAIN h, Owner(e) \in h[j]
        PROVE  \E i \in DOMAIN h : i < j /\ Dependency(e) \in h[i]
    <3>1. CASE j \in 1..last
      <4>1. PICK i \in 1..last : i < j /\ Dependency(e) \in g[i]
        BY <1>1, <2>2, <2>6, <3>1 DEF Layered
      <4> QED BY <2>2, <2>3, <4>1
    <3>2. CASE j = last + 1
      <4>1. PICK i \in 1..last : Dependency(e) \in g[i]
        BY <1>2, <2>2, <2>6, <3>2
      <4> QED BY <2>2, <2>3, <3>2, <4>1
    <3> QED BY <2>2, <2>3, <3>1, <3>2
  <2> QED BY <2>4, <2>5, <2>6 DEF Layered, h
<1>4. CASE ~opens
  <2>1. last \in 1..last
    BY <1>1, <1>4
  <2>2. h = [g EXCEPT ![last] = g[last] \cup {r}]
    BY <1>4, <2>1 DEF Grouped
  <2>3. /\ DOMAIN h = 1..last /\ h[last] = g[last] \cup {r}
        /\ \A i \in 1..last : i # last => h[i] = g[i]
    BY <1>1, <2>1, <2>2
  <2>4. \A e \in E : Owner(e) = r => Dependency(e) \notin g[last]
    BY <1>4
  <2>5. \A i \in 1..last : i # last => i < last
    BY <1>1
  <2> HIDE DEF h, last
  <2>6. Members(h) = Members(g) \cup {r}
    BY <1>1, <2>1, <2>3 DEF Members
  <2>7. Disjoint(h)
    BY <1>1, <2>1, <2>3 DEF Disjoint
  <2>8. ASSUME NEW e \in E, NEW j \in DOMAIN h, Owner(e) \in h[j]
        PROVE  \E i \in DOMAIN h : i < j /\ Dependency(e) \in h[i]
    <3>1. CASE Owner(e) \in g[j]
      <4>1. PICK i \in 1..last : i < j /\ Dependency(e) \in g[i]
        BY <1>1, <2>3, <3>1 DEF Layered
      <4> QED BY <2>3, <4>1
    <3>2. CASE Owner(e) \notin g[j]
      <4>1. j = last /\ Owner(e) = r
        BY <2>3, <2>8, <3>2
      <4>2. PICK i \in 1..last : Dependency(e) \in g[i]
        BY <1>2, <4>1
      <4> QED BY <2>3, <2>4, <2>5, <4>1, <4>2
    <3> QED BY <3>1, <3>2
  <2> QED BY <2>6, <2>7, <2>8 DEF Layered, h
<1> QED BY <1>3, <1>4

(* The groups are the last of those that the recursion names.              *)
LEMMA GroupsAreBuilt ==
  ASSUME NEW order, Len(order) \in Nat, NEW E
  PROVE  \E groups \in [Nat -> Seq(SUBSET {order[n] : n \in Nat})] :
           /\ groups[0] = <<>>
           /\ \A n \in Nat \ {0} : groups[n] = Grouped(groups[n - 1], order[n], E)
           /\ Groups(order, E) = groups[Len(order)]
<1> DEFINE V == Seq(SUBSET {order[n] : n \in Nat})
           step == [n \in Nat |-> [g \in V |-> Grouped(g, order[n], E)]]
           body(g, n) == IF n = 0 THEN <<>> ELSE Grouped(g[n - 1], order[n], E)
           groups == CHOOSE g : g = [n \in Nat |-> body(g, n)]
<1>1. ASSUME NEW n \in Nat, NEW g \in V PROVE Grouped(g, order[n], E) \in V
  <2> DEFINE X == {order[m] : m \in Nat}
  <2>1. order[n] \in X
    OBVIOUS
  <2> HIDE DEF X
  <2> QED BY <2>1, GroupedTypes
<1>2. step \in [Nat -> [V -> V]] /\ <<>> \in V
  <2>1. <<>> \in V
    OBVIOUS
  <2> HIDE DEF V
  <2> QED BY <1>1, <2>1
<1>3. PICK f : Iterated(f, V, <<>>, step)
  <2> HIDE DEF V, step
  <2> QED BY <1>2, Iterates
<1>4. \A n \in Nat \ {0} : f[n] = Grouped(f[n - 1], order[n], E)
  <2> TAKE n \in Nat \ {0}
  <2>1. n \in Nat /\ n - 1 \in Nat
    OBVIOUS
  <2> HIDE DEF V
  <2>2. f[n - 1] \in V
    BY <1>3, <2>1 DEF Iterated
  <2> QED BY <1>3, <2>1, <2>2 DEF Iterated
<1>5. f = [n \in Nat |-> body(f, n)]
  <2> HIDE DEF V
  <2> QED BY <1>3, <1>4 DEF Iterated
<1>6. groups = [n \in Nat |-> body(groups, n)]
  <2> HIDE DEF body
  <2> QED BY <1>5
<1>7. Groups(order, E) = groups[Len(order)]
  BY DEF Groups
<1> HIDE DEF groups
<1>8. groups[0] = <<>> /\ \A n \in Nat \ {0} : groups[n] = Grouped(groups[n - 1], order[n], E)
  BY <1>6
<1>9. Nat \subseteq {n \in Nat : groups[n] \in V}
  <2> DEFINE Built == {n \in Nat : groups[n] \in V}
  <2>1. 0 \in Built
    <3> HIDE DEF V
    <3> QED BY <1>2, <1>8
  <2>2. ASSUME NEW n \in Nat, n \in Built PROVE n + 1 \in Built
    <3>1. n + 1 \in Nat \ {0} /\ n + 1 \in Nat /\ (n + 1) - 1 = n
      OBVIOUS
    <3>2. groups[n + 1] = Grouped(groups[n], order[n + 1], E)
      BY <1>8, <3>1
    <3> HIDE DEF V
    <3> QED BY <1>1, <2>2, <3>1, <3>2
  <2> HIDE DEF Built
  <2> QED BY <2>1, <2>2, SetInduction DEF Built
<1>10. groups \in [Nat -> V]
  <2> HIDE DEF V, body
  <2> QED BY <1>6, <1>9
<1> QED BY <1>7, <1>8, <1>10

(* The groups of an order hold its rows, each one once, behind the groups  *)
(* of the rows that it waits for.                                          *)
LEMMA GroupsAreWhole ==
  ASSUME NEW S, NEW order \in Seq(S), OnceEach(order), NEW E,
         \A e \in E : Owner(e) \in ToSet(order) => Before(order, Dependency(e), Owner(e))
  PROVE  /\ Members(Groups(order, E)) = ToSet(order)
         /\ Disjoint(Groups(order, E)) /\ Layered(Groups(order, E), E)
         /\ \E n \in Nat : DOMAIN Groups(order, E) = 1..n
<1> DEFINE X == {order[n] : n \in Nat}
           upto(n) == {order[i] : i \in 1..n}
<1>1. PICK groups \in [Nat -> Seq(SUBSET X)] :
         /\ groups[0] = <<>>
         /\ \A n \in Nat \ {0} : groups[n] = Grouped(groups[n - 1], order[n], E)
         /\ Groups(order, E) = groups[Len(order)]
  <2>1. Len(order) \in Nat
    OBVIOUS
  <2> QED BY <2>1, GroupsAreBuilt
<1> DEFINE Sound(g, n) == Members(g) = upto(n) /\ Disjoint(g) /\ Layered(g, E)
           Reached == {n \in Nat : n <= Len(order) => Sound(groups[n], n)}
<1>2. Len(order) \in Nat /\ DOMAIN order = 1..Len(order)
  OBVIOUS
<1>3. Nat \subseteq Reached
  <2>1. 0 \in Reached
    <3>1. Sound(<<>>, 0)
      <4>1. DOMAIN <<>> = {} /\ 1..0 = {}
        OBVIOUS
      <4> QED BY <4>1 DEF Members, Disjoint, Layered
    <3> HIDE DEF Sound
    <3> QED BY <1>1, <3>1
  <2>2. ASSUME NEW n \in Nat, n \in Reached PROVE n + 1 \in Reached
    <3> SUFFICES ASSUME n + 1 <= Len(order) PROVE Sound(groups[n + 1], n + 1)
      OBVIOUS
    <3>1. n + 1 \in Nat \ {0} /\ n + 1 \in Nat /\ (n + 1) - 1 = n /\ n <= Len(order)
      BY <1>2
    <3> DEFINE r == order[n + 1]
               g == groups[n]
    <3>2. groups[n + 1] = Grouped(g, r, E) /\ g \in Seq(SUBSET X) /\ r \in X
      BY <1>1, <3>1
    <3>3. Members(g) = upto(n) /\ Disjoint(g) /\ Layered(g, E)
      BY <2>2, <3>1
    <3>4. \A i \in DOMAIN order : order[i] = r => i = n + 1
      BY <1>2, <3>1 DEF OnceEach
    <3>5. r \notin upto(n)
      <4> SUFFICES ASSUME NEW i \in 1..n, order[i] = r PROVE FALSE
        OBVIOUS
      <4>1. i \in DOMAIN order /\ i # n + 1
        BY <1>2, <3>1
      <4> QED BY <3>4, <4>1
    <3>6. ASSUME NEW e \in E, Owner(e) = r PROVE Dependency(e) \in upto(n)
      <4>1. r \in ToSet(order)
        <5>1. n + 1 \in DOMAIN order
          BY <1>2, <3>1
        <5> QED BY <5>1 DEF ToSet
      <4>2. PICK i, j \in DOMAIN order : i < j /\ order[i] = Dependency(e) /\ order[j] = r
        BY <3>6, <4>1 DEF Before
      <4>3. i \in 1..n
        BY <1>2, <3>1, <3>4, <4>2
      <4> QED BY <4>2, <4>3
    <3>7. upto(n + 1) = upto(n) \cup {r}
      <4>1. 1..(n + 1) = 1..n \cup {n + 1}
        BY <3>1
      <4> QED BY <4>1
    <3> HIDE DEF upto, r, g, X
    <3>8. Members(Grouped(g, r, E)) = Members(g) \cup {r}
          /\ Disjoint(Grouped(g, r, E)) /\ Layered(Grouped(g, r, E), E)
      BY <3>2, <3>3, <3>5, <3>6, GroupedStep
    <3> QED BY <3>2, <3>3, <3>7, <3>8
  <2> HIDE DEF Reached
  <2> QED BY <2>1, <2>2, SetInduction
<1>4. Sound(groups[Len(order)], Len(order))
  BY <1>2, <1>3
<1>5. upto(Len(order)) = ToSet(order)
  BY <1>2 DEF ToSet
<1>6. \E n \in Nat : DOMAIN Groups(order, E) = 1..n
  <2>1. PICK g \in Seq(SUBSET X) : Groups(order, E) = g
    BY <1>1, <1>2
  <2>2. DOMAIN g = 1..Len(g) /\ Len(g) \in Nat
    OBVIOUS
  <2> QED BY <2>1, <2>2
<1> QED BY <1>1, <1>4, <1>5, <1>6

(* No row is put into two groups.                                          *)
LEMMA OneGroup ==
  ASSUME NEW g, Disjoint(g), NEW i \in DOMAIN g, NEW r \in g[i]
  PROVE  {j \in DOMAIN g : r \in g[j]} = {i} /\ (CHOOSE j \in DOMAIN g : r \in g[j]) = i
BY DEF Disjoint

(* The rows of a schedule that are not blocked have a place of their own   *)
(* in its order, and groups that share none of them.                       *)
Orderly(p) ==
  /\ Disjoint(p.groups) /\ Members(p.groups) = RowsOf(p) \ p.blocked
  /\ \E n \in Nat : DOMAIN p.groups = 1..n
  /\ \A r \in RowsOf(p) \ p.blocked :
       PlaceIn(p.order, r) \in Nat /\ p.order[PlaceIn(p.order, r)] = r

(* Whatever rows are created and whatever the fields refer to,             *)
(* schedule_dependencies makes a schedule: every row that is not blocked   *)
(* is in one group, behind the new records that its first write needs;     *)
(* only optional references on a cycle are put off; and a row is blocked   *)
(* only behind a cycle of required references.                             *)
THEOREM SchedulesAreSound ==
  ASSUME NEW D, D \subseteq Nat, IsFiniteSet(D), NEW creates \in SUBSET D,
         NEW fs, \A f \in fs : f.owner \in D
  PROVE  IsSchedule(Schedule(creates, fs)) /\ Orderly(Schedule(creates, fs))
<1> DEFINE scheduled == Schedule(creates, fs)
           edges == Edges(creates, fs)
           rows == creates \cup {f.owner : f \in fs}
           hard == {e \in edges : e[2].hard}
           cycle == {r \in rows : OnCycle(r, hard)}
           blocked == Reach(cycle, edges)
           U == rows \ blocked
           usable == Within(U, edges)
           deferred == DeferBack(usable)
           K == usable \ deferred
           order == Order(U, K)
           groups == Groups(order, K)
<1>1. /\ scheduled.creates = creates /\ scheduled.updates = rows \ creates /\ scheduled.fields = fs
      /\ scheduled.blocked = blocked /\ scheduled.deferred = {e[2] : e \in deferred}
      /\ scheduled.groups = groups /\ scheduled.order = order
  BY DEF Schedule
<1>2. RowsOf(scheduled) = rows
  BY <1>1 DEF RowsOf
<1>3. \A e \in edges :
        /\ Dependency(e) \in creates /\ Dependency(e) \in rows
        /\ e[2] \in fs /\ Owner(e) = e[2].owner /\ Owner(e) \in rows
        /\ Dependency(e) \in e[2].refs
  BY DEF Edges, Dependency, Owner
<1>4. \A p \in creates : \A f \in fs : p \in f.refs =>
        \E e \in edges : e[2] = f /\ Dependency(e) = p /\ Owner(e) = f.owner
  <2> TAKE p \in creates
  <2> TAKE f \in fs
  <2> HAVE p \in f.refs
  <2>1. <<p, f>> \in edges
    BY DEF Edges
  <2>2. <<p, f>>[2] = f /\ Dependency(<<p, f>>) = p /\ Owner(<<p, f>>) = f.owner
    BY DEF Dependency, Owner
  <2> QED BY <2>1, <2>2
<1>5. rows \subseteq D
  OBVIOUS
<1>6. U \subseteq Nat /\ IsFiniteSet(U) /\ U \subseteq rows /\ U \cap blocked = {}
  BY <1>5, FS_Subset
<1>7. cycle \subseteq blocked /\ Owners(blocked, edges) \subseteq blocked
  BY ReachLeast
<1> HIDE DEF scheduled, edges, rows, blocked
<1>8. usable \subseteq edges /\ \A e \in usable : Dependency(e) \in U /\ Owner(e) \in U
  BY DEF Within
<1> HIDE DEF U
<1>9. usable = Within(U, usable)
  BY <1>8 DEF Within
<1>10. \A r \in U : ~OnCycle(r, Hard(usable))
  <2> SUFFICES ASSUME NEW r \in U, OnCycle(r, Hard(usable)) PROVE FALSE
    OBVIOUS
  <2>1. Hard(usable) \subseteq hard
    BY <1>8 DEF Hard
  <2> HIDE DEF hard
  <2>2. Owners({r}, Hard(usable)) \subseteq Reach(Owners({r}, hard), hard)
    <3>1. Owners({r}, Hard(usable)) \subseteq Owners({r}, hard)
      BY <2>1 DEF Owners
    <3> QED BY <3>1, ReachLeast
  <2>3. r \in Reach(Owners({r}, hard), hard)
    BY <2>1, <2>2, ReachGrows DEF OnCycle
  <2>4. r \in cycle
    BY <1>6, <2>3 DEF OnCycle
  <2> QED BY <1>6, <1>7, <2>4
<1> HIDE DEF usable
<1>11. \A R \in SUBSET U : ~AllWait(R, Within(U, K))
  <2>1. Within(U, K) = K
    BY <1>8 DEF Within
  <2> QED BY <1>6, <1>9, <1>10, <2>1, DeferringBreaksCycles
<1> HIDE DEF K
<1>12. /\ order \in Seq(U) /\ OnceEach(order)
       /\ ToSet(order) = U /\ Follows(order, U, K)
  BY <1>6, <1>11, OrderIsWhole
<1> HIDE DEF order
<1>13. /\ Members(groups) = U /\ Disjoint(groups) /\ Layered(groups, K)
       /\ \E n \in Nat : DOMAIN groups = 1..n
  <2>1. \A e \in K : Owner(e) \in ToSet(order) => Before(order, Dependency(e), Owner(e))
    <3>1. \A e \in K : e \in Within(U, K)
      BY <1>8 DEF K, Within
    <3> QED BY <1>12, <3>1 DEF Follows
  <2> QED BY <1>12, <2>1, GroupsAreWhole
<1> HIDE DEF groups
<1>14. ASSUME NEW r \in U
       PROVE \E i \in DOMAIN groups :
               r \in groups[i] /\ {j \in DOMAIN groups : r \in groups[j]} = {i} /\ GroupOf(scheduled, r) = i
  <2>1. PICK i \in DOMAIN groups : r \in groups[i]
    BY <1>13 DEF Members
  <2> QED BY <1>1, <1>13, <2>1, OneGroup DEF GroupOf
<1>15. ASSUME NEW r \in U
       PROVE  Cardinality({i \in DOMAIN scheduled.groups : r \in scheduled.groups[i]}) = 1
  <2>1. PICK i \in DOMAIN groups : {j \in DOMAIN groups : r \in groups[j]} = {i}
    BY <1>14
  <2>2. Cardinality({i}) = 1
    BY FS_Singleton
  <2> QED BY <1>1, <2>1, <2>2
<1>16. UNION {scheduled.groups[i] : i \in DOMAIN scheduled.groups} = U
  BY <1>1, <1>13 DEF Members
<1>17. ASSUME NEW r \in U, NEW p \in NeedsOf(scheduled, r) \cap scheduled.creates
       PROVE  GroupOf(scheduled, p) < GroupOf(scheduled, r)
  <2>1. PICK f \in fs : f.owner = r /\ f \notin scheduled.deferred /\ p \in f.refs
    BY <1>1 DEF NeedsOf, FieldsOf
  <2>2. PICK e \in edges : e[2] = f /\ Dependency(e) = p /\ Owner(e) = r
    <3>1. p \in creates
      BY <1>1
    <3> QED BY <1>4, <2>1, <3>1
  <2>3. p \in U
    <3>1. ASSUME p \in blocked PROVE FALSE
      <4>1. r \in Owners(blocked, edges)
        BY <2>2, <3>1 DEF Owners
      <4> QED BY <4>1, <1>6, <1>7
    <3>2. p \in rows
      BY <1>3, <2>2
    <3> QED BY <3>1, <3>2 DEF U
  <2>4. e \in usable
    BY <2>2, <2>3 DEF usable, Within
  <2>5. e \in K
    <3>1. e \notin deferred
      BY <1>1, <2>1, <2>2
    <3> QED BY <2>4, <3>1 DEF K
  <2>6. PICK j \in DOMAIN groups : r \in groups[j] /\ GroupOf(scheduled, r) = j
    BY <1>14
  <2>7. PICK i \in DOMAIN groups : i < j /\ p \in groups[i]
    BY <1>13, <2>2, <2>5, <2>6 DEF Layered
  <2>8. GroupOf(scheduled, p) = i
    BY <1>1, <1>13, <2>7, OneGroup DEF GroupOf
  <2> QED BY <2>6, <2>7, <2>8
<1>18. ASSUME NEW f \in scheduled.deferred
       PROVE  ~f.hard /\ \E p \in f.refs : f.owner \in StrongComponent(p, edges)
  <2>1. PICK e \in usable : e[2] = f /\ ~f.hard /\ Owner(e) \in StrongComponent(Dependency(e), usable)
    BY <1>1 DEF DeferBack
  <2>2. Dependency(e) \in f.refs /\ Owner(e) = f.owner
    BY <1>3, <1>8, <2>1
  <2>3. \A a, b : a \in Reach({b}, usable) => a \in Reach({b}, edges)
    <3> SUFFICES ASSUME NEW a, NEW b, a \in Reach({b}, usable) PROVE a \in Reach({b}, edges)
      OBVIOUS
    <3>1. {b} \subseteq Reach({b}, edges)
      BY ReachLeast
    <3> QED BY <1>8, <3>1, ReachGrows
  <2>4. Owner(e) \in StrongComponent(Dependency(e), edges)
    BY <2>1, <2>3 DEF StrongComponent
  <2> QED BY <2>1, <2>2, <2>4
<1>19. ASSUME blocked # {}
       PROVE \E S \in SUBSET blocked :
               S # {} /\ \A r \in S : \E e \in edges : Owner(e) = r /\ Dependency(e) \in S
  <2>1. cycle # {}
    <3>1. ASSUME cycle = {} PROVE blocked \subseteq {}
      <4>1. {} \subseteq {} /\ Owners({}, edges) \subseteq {}
        BY DEF Owners
      <4> QED BY <3>1, <4>1, ReachLeast DEF blocked
    <3> QED BY <1>19, <3>1
  <2>2. ASSUME NEW r \in cycle PROVE \E e \in edges : Owner(e) = r /\ Dependency(e) \in cycle
    <3>1. PICK e \in hard : Owner(e) = r /\ OnCycle(Dependency(e), hard)
      <4>1. OnCycle(r, hard)
        OBVIOUS
      <4> HIDE DEF hard
      <4> QED BY <4>1, CyclesGoBack
    <3>2. e \in edges
      OBVIOUS
    <3> HIDE DEF hard
    <3> QED BY <1>3, <3>1, <3>2
  <2> HIDE DEF cycle
  <2> QED BY <1>7, <2>1, <2>2
<1>20. RowsOf(scheduled) \ scheduled.blocked = U /\ Edges(scheduled.creates, scheduled.fields) = edges
  BY <1>1, <1>2 DEF U, edges
<1>21. scheduled.blocked # {} =>
         \E S \in SUBSET scheduled.blocked :
           S # {} /\ \A r \in S : \E e \in edges : Owner(e) = r /\ Dependency(e) \in S
  BY <1>1, <1>19
<1>22. IsSchedule(scheduled)
  BY <1>15, <1>16, <1>17, <1>18, <1>20, <1>21 DEF IsSchedule
<1>23. Orderly(scheduled)
  <2>1. \A r \in U : PlaceIn(order, r) \in Nat /\ order[PlaceIn(order, r)] = r
    <3>1. \A r \in ToSet(order) : PlaceIn(order, r) \in 1..Len(order) /\ order[PlaceIn(order, r)] = r
      BY <1>12, PlaceIsIts
    <3> QED BY <1>12, <3>1
  <2> QED BY <1>1, <1>13, <1>20, <2>1 DEF Orderly
<1> QED BY <1>22, <1>23 DEF scheduled

---------------------------------------------------------------------------(* Types, and what the schedule of a load is made of.                      *)
Calls == [rows : SUBSET Rows, phase : Phases, fields : SUBSET fields, answer : Answers]

PlanShape ==
  /\ plan.creates \subseteq Rows /\ plan.updates \subseteq Rows \ plan.creates
  /\ plan.fields \subseteq fields
  /\ \A r \in Rows \ plan.creates : Deferred(r) = {}

(* Only what is new is created.                                            *)
Workers == {w \in Worker : w.batches \in Seq(SUBSET plan.creates)}
Creating ==
  worker.pc = "wait" /\ call.phase = "CREATE" =>
    worker.batches # <<>> /\ call.rows \subseteq plan.creates

Typed ==
  /\ TypeOK /\ prepared \in Situations /\ call \in Calls /\ PlanShape
  /\ worker \in Workers /\ Creating

---------------------------------------------------------------------------
(* How a load flows.                                                       *)
InFlight == With(journal, {"IN_FLIGHT"})

(* Rows are in flight while the worker waits for its call, and whenever a  *)
(* worker has gone with one.                                               *)
CallsFollow ==
  /\ call.rows # {} => worker.pc = "wait" /\ run = "RUNNING"
  /\ call.answer # "none" => call.rows # {}
  /\ worker.pc = "wait" => InFlight = call.rows /\ flight = call.phase
  /\ worker.pc \notin {"off", "recover", "wait"} => InFlight = {}

(* The worker's copy falls behind the journal only by what a stop request  *)
(* blocks, and the journal is of the rows of the schedule.                 *)
CopyFollows ==
  /\ worker.pc \notin {"off", "recover"} =>
       \A r \in Rows : seen[r] = journal[r] \/ (seen[r] \in Unattempted /\ journal[r] = "BLOCKED")
  /\ worker.pc = "recover" =>
       \A r \in Rows : seen[r] # "IN_FLIGHT" /\ (seen[r] = "NONE" <=> r \notin RowsOf(plan))
  /\ worker.pc = "finish" => With(seen, Unattempted) = {}
  /\ worker.pc # "off" => run # "NONE"
  /\ run # "NONE" => \A r \in Rows : journal[r] = "NONE" <=> r \notin RowsOf(plan)

(* What ends the sending, and that it has ended.                           *)
Bad == \/ With(journal, {"OUTCOME_UNKNOWN"}) # {}
       \/ policy = "STOP" /\ With(journal, {"FAILED"}) # {}
Sending == {"group", "creates", "updates", "completions"}
Ceased(w) == w.stopping /\ w.batches = <<>> /\ w.todo = {}

StopsFollow ==
  /\ worker.pc \in Sending /\ Bad => Ceased(worker)
  /\ worker.pc \in {"wait", "continue"} => ~Bad
  /\ control.state \in {"STOPPED", "FINISHED"} => run # "RUNNING"

Flows == CallsFollow /\ CopyFollows /\ StopsFollow /\ BudgetPauses /\ FinishedIsSettled

---------------------------------------------------------------------------
(* What the journal says is there.                                         *)
Whole(r) == count[r] > 0 /\ FieldsOf(plan, r) \subseteq written
Placed(r) == count[r] > 0 /\ FieldsOf(plan, r) \ plan.deferred \subseteq written
Truthful(rows) ==
  \A r \in Rows : /\ rows[r] = "COMMITTED" => Whole(r)
                  /\ rows[r] = "PARTIALLY_APPLIED" => Placed(r)

(* What a row that may have been sent is known to be.                      *)
FlightKnown ==
  \A r \in InFlight : /\ flight = "UPDATE" => r \in plan.updates
                      /\ flight = "COMPLETION" => Placed(r)

(* A comparison lists as new no record that Odoo does not lack, and a      *)
(* later one no record that an earlier one found.                          *)
ViewsAge ==
  /\ \A r \in Rows \ review.creates : count[r] > 0
  /\ \A v \in reading :
       v.creates \subseteq review.creates /\ \A r \in Rows \ v.creates : count[r] > 0
  /\ \A r \in plan.updates : count[r] > 0

ReceiptsFollow ==
  \A r \in kept :
    count[r] > 0 /\ r \notin review.creates /\ (run = "RUNNING" => r \notin plan.creates)

CallCarries ==
  /\ worker.pc = "wait" => call.fields = UNION {Sent(r, call.phase) : r \in call.rows}
  /\ call.answer = "accepted" =>
       /\ call.fields \subseteq written
       /\ call.phase = "CREATE" => \A r \in call.rows : count[r] > 0

Accounted ==
  /\ Truthful(journal) /\ (worker.pc = "recover" => Truthful(seen))
  /\ FlightKnown /\ ViewsAge /\ ReceiptsFollow /\ CallCarries

---------------------------------------------------------------------------
(* What the journal says is not there: on a local target, whose calls are  *)
(* over when their caller is.                                              *)
Unwritten == Unattempted \cup {"FAILED", "BLOCKED"}
Absent(r) == FieldsOf(plan, r) \cap written = {} /\ (r \in plan.creates => count[r] = 0)
Untouched(rows) == \A r \in Rows : rows[r] \in Unwritten => Absent(r)

Owned == \A f \in written : count[f.owner] > 0

(* Comparisons are taken between loads.                                    *)
ViewsHold ==
  /\ run = "RUNNING" => reading = {} /\ ~fresh
  /\ reading \subseteq {Compared}
  /\ fresh => review = Compared

(* Of an update in flight Odoo has every field, or none.                   *)
UpdatesWhole ==
  flight = "UPDATE" =>
    \A r \in InFlight : FieldsOf(plan, r) \subseteq written \/ FieldsOf(plan, r) \cap written = {}

(* A call that Odoo has not accepted has left nothing behind.              *)
NotYet ==
  worker.pc = "wait" /\ call.answer # "accepted" /\ call.phase # "COMPLETION" =>
    \A r \in call.rows : Absent(r)

Local ==
  /\ Owned /\ ViewsHold /\ UpdatesWhole /\ NotYet
  /\ Untouched(journal) /\ (worker.pc = "recover" => Untouched(seen))

Apart ==
  /\ late = {}
  /\ \A r \in Rows : count[r] <= 1
  /\ ~Remote => Local

---------------------------------------------------------------------------
(* Of schedules and of settled controls.                                   *)

(* Nothing that a row which is not new refers forward to is put off: no    *)
(* row waits for it, so it is on no cycle.                                 *)
LEMMA ScheduleShape ==
  ASSUME NEW creates, NEW fs
  PROVE  LET p == Schedule(creates, fs) IN
         /\ p.creates = creates /\ p.fields = fs
         /\ p.updates = {f.owner : f \in fs} \ creates
         /\ \A r : r \notin creates => DeferredOf(p, r) = {}
<1> DEFINE edges == Edges(creates, fs)
           rows == creates \cup {f.owner : f \in fs}
           hard == {e \in edges : e[2].hard}
           blocked == Reach({r \in rows : OnCycle(r, hard)}, edges)
           usable == Within(rows \ blocked, edges)
           deferred == DeferBack(usable)
           p == Schedule(creates, fs)
<1>1. /\ p.creates = creates /\ p.fields = fs /\ p.updates = rows \ creates
      /\ p.deferred = {e[2] : e \in deferred}
  BY DEF Schedule
<1>2. ASSUME NEW r, r \notin creates, NEW f \in DeferredOf(p, r)
      PROVE  FALSE
  <2>1. PICK e \in deferred : f = e[2] /\ Owner(e) = r
    BY <1>1, <1>2 DEF DeferredOf, FieldsOf, Owner
  <2>2. e \in usable /\ Owner(e) \in StrongComponent(Dependency(e), usable)
    BY <2>1 DEF DeferBack
  <2>3. Dependency(e) \in Reach({r}, usable)
    BY <2>1, <2>2 DEF StrongComponent
  <2>4. \A d \in usable : Dependency(d) \in creates
    BY DEF Within, Edges, Dependency
  <2>5. Owners({r}, usable) \subseteq {r}
    BY <2>4, <1>2 DEF Owners
  <2>6. Dependency(e) \in {r}
    BY <2>3, <2>5 DEF Reach
  <2> QED BY <2>2, <2>4, <2>6, <1>2
<1> QED BY <1>1, <1>2

LEMMA ScheduleOfView ==
  ASSUME NEW view \in Reviewed, prepared \in Situations, plan' = PlanOf(view), prepared' = prepared
  PROVE  PlanShape' /\ plan'.creates = view.creates /\ plan'.fields = view.fields
<1>1. view.creates \subseteq Rows /\ view.fields \subseteq fields
  BY DEF Reviewed
<1>2. \A f \in fields : f.owner \in Rows
  BY SituationsAssumption DEF fields
<1>3. /\ plan'.creates = view.creates /\ plan'.fields = view.fields
      /\ plan'.updates = {f.owner : f \in view.fields} \ view.creates
      /\ \A r : r \notin view.creates => DeferredOf(plan', r) = {}
  BY ScheduleShape DEF PlanOf
<1>4. fields' = fields
  BY DEF fields
<1> QED BY <1>1, <1>2, <1>3, <1>4 DEF PlanShape, Deferred

(* A result settles a control that may still pause, and no other; a        *)
(* control that goes on has its budgets left.                              *)
LEMMA SettledFacts ==
  ASSUME NEW c \in Control, NEW phase \in Phases, NEW n \in Nat, NEW rejected \in BOOLEAN
  PROVE  LET s == Settled(c, phase, n, rejected) IN
         /\ s \in Control
         /\ s.state # c.state => c.state \in {"RUNNING", "PAUSED"} /\ s.state = "PAUSED"
         /\ s.calls <= c.calls
         /\ s.state = "RUNNING" /\ policy = "CONTINUE" =>
              /\ s.calls < IsolationLimit
              /\ (\A q \in Phases : c.streak[q] < ConsecutiveLimit) =>
                   \A q \in Phases : s.streak[q] < ConsecutiveLimit
<1> DEFINE accepted == n > 0 /\ ~rejected
           streak == IF n = 0 THEN c.streak
                     ELSE [c.streak EXCEPT ![phase] = IF rejected THEN @ + n ELSE 0]
           due == \/ n > 0 /\ streak[phase] >= ConsecutiveLimit
                  \/ ~accepted /\ c.calls >= IsolationLimit
           s == Settled(c, phase, n, rejected)
<1>1. c.streak \in [Phases -> Nat] /\ c.calls \in Nat
  BY DEF Control
<1>2. streak \in [Phases -> Nat] /\ \A q \in Phases \ {phase} : streak[q] = c.streak[q]
  BY <1>1
<1>3. IsolationLimit \in Nat \ {0} /\ ConsecutiveLimit \in Nat \ {0}
  BY LimitsAssumption
<1>4. CASE c.state \notin {"RUNNING", "PAUSED"}
  <2>1. s = c
    BY <1>4 DEF Settled
  <2> QED BY <2>1, <1>4, <1>1
<1>5. CASE c.state \in {"RUNNING", "PAUSED"}
  <2>1. s = [c EXCEPT !.streak = streak, !.calls = IF accepted THEN 0 ELSE @,
                      !.state = IF policy = "CONTINUE" /\ due THEN "PAUSED" ELSE @]
    BY <1>5 DEF Settled
  <2>2. /\ s.streak = streak /\ s.calls = (IF accepted THEN 0 ELSE c.calls)
        /\ s.state = (IF policy = "CONTINUE" /\ due THEN "PAUSED" ELSE c.state)
        /\ s \in Control
    <3> HIDE DEF s, accepted, streak, due
    <3> QED BY <2>1, <1>2, <1>1, <1>5 DEF Control
  <2>3. ASSUME s.state = "RUNNING", policy = "CONTINUE"
        PROVE  ~due
    BY <2>2, <2>3
  <2>4. s.calls <= c.calls
    BY <2>2, <1>1
  <2>5. s.state = "RUNNING" /\ policy = "CONTINUE" => s.calls < IsolationLimit
    BY <2>2, <2>3, <1>1, <1>3
  <2>6. ASSUME s.state = "RUNNING", policy = "CONTINUE",
               \A q \in Phases : c.streak[q] < ConsecutiveLimit
        PROVE  \A q \in Phases : s.streak[q] < ConsecutiveLimit
    <3>1. streak[phase] < ConsecutiveLimit
      <4>1. CASE n = 0
        BY <4>1, <2>6
      <4>2. CASE n > 0
        <5> HIDE DEF streak
        <5> QED BY <4>2, <2>6, <2>3, <1>2, <1>3
      <4> QED BY <4>1, <4>2
    <3> HIDE DEF streak
    <3> QED BY <3>1, <1>2, <2>2, <2>6
  <2> HIDE DEF accepted, streak, due
  <2> QED BY <2>2, <2>4, <2>5, <2>6, <1>5
<1> QED BY <1>4, <1>5

LEMMA RowsAreCounted ==
  ASSUME NEW S \in SUBSET Rows
  PROVE  Cardinality(S) \in Nat /\ (Cardinality(S) = 0 <=> S = {})
BY RowsAssumption, FS_Subset, FS_CardinalityType, FS_EmptySet

---------------------------------------------------------------------------
(* Types.                                                                  *)
Rowed == [Rows -> Statuses \cup {"NONE"}]

LEMMA SameSituation ==
  ASSUME prepared' = prepared
  PROVE  /\ fields' = fields /\ Remote' = Remote /\ Reviewed' = Reviewed
         /\ Call' = Call /\ Calls' = Calls
BY DEF fields, Remote, Reviewed, Call, Calls

LEMMA MarkedRows ==
  ASSUME NEW rows \in Rowed, NEW S, NEW status \in Statuses
  PROVE  Marked(rows, S, status) \in Rowed
BY DEF Marked, Rowed

LEMMA WithRows ==
  ASSUME NEW rows \in Rowed, NEW status
  PROVE  With(rows, status) = {r \in Rows : rows[r] \in status}
BY DEF With, Rowed

LEMMA FirstRows ==
  ASSUME NEW S, NEW n
  PROVE  First(S, n) \subseteq S
BY DEF First

LEMMA NoWorkerTyped == NoWorker \in Workers /\ NoWorker.pc = "off"
<1>1. <<>> \in Seq(SUBSET Rows) /\ <<>> \in Seq(SUBSET plan.creates)
  OBVIOUS
<1>2. {} \in SUBSET Rows
  OBVIOUS
<1>3. NoWorker \in Worker
  BY <1>1, <1>2 DEF NoWorker, Worker
<1> QED BY <1>1, <1>3 DEF NoWorker, Workers

LEMMA CallsCounted ==
  ASSUME NEW c \in Control
  PROVE  [c EXCEPT !.calls = @ + 1] \in Control
<1>1. c.calls + 1 \in Nat
  BY DEF Control
<1> QED BY <1>1 DEF Control

(* The parts of TypeOK.                                                    *)
LEMMA TypeParts ==
  ASSUME Typed
  PROVE  /\ run \in RunStatuses /\ policy \in {"STOP", "CONTINUE"}
         /\ review \in Reviewed /\ reading \subseteq Reviewed /\ Cardinality(reading) <= 1
         /\ fresh \in BOOLEAN /\ loads \in 0..prepared.loads /\ kept \subseteq Rows
         /\ journal \in Rowed /\ seen \in Rowed
         /\ flight \in Phases /\ isolating \subseteq Rows /\ diagnosed \subseteq Rows
         /\ control \in Control /\ worker \in Workers /\ stopper \in Stopper
         /\ worker \in Worker /\ worker.batches \in Seq(SUBSET plan.creates)
         /\ count \in [Rows -> Nat] /\ written \subseteq fields
         /\ call \in Calls /\ late \subseteq Call /\ crashes \in 0..prepared.crashes
         /\ prepared \in Situations /\ prepared.loads \in Nat /\ prepared.crashes \in Nat
<1>1. prepared \in Situations /\ call \in Calls /\ TypeOK
  BY DEF Typed
<1>2. prepared.loads \in Nat /\ prepared.crashes \in Nat
  BY <1>1, SituationsAssumption
<1>3. worker \in Workers
  BY DEF Typed
<1> QED BY <1>1, <1>2, <1>3 DEF TypeOK, Rowed, Workers

(* A step that makes no comparison, starts no load and gives none up.      *)
LEMMA StepTyped ==
  ASSUME Typed, UNCHANGED <<past, policy>>, run' \in RunStatuses,
         journal' \in Rowed, seen' \in Rowed,
         flight' \in Phases, isolating' \subseteq Rows, diagnosed' \subseteq Rows,
         control' \in Control, worker' \in Workers, stopper' \in Stopper,
         count' \in [Rows -> Nat], written' \subseteq fields,
         call' \in Calls, late' \subseteq Call, crashes' \in 0..prepared.crashes,
         worker'.pc = "wait" /\ call'.phase = "CREATE" =>
           worker'.batches # <<>> /\ call'.rows \subseteq plan.creates
  PROVE  Typed'
<1>1. UNCHANGED <<prepared, reading, review, fresh, loads, kept, plan>>
  BY DEF past, compared
<1>2. /\ fields' = fields /\ Reviewed' = Reviewed /\ Call' = Call /\ Calls' = Calls
  BY <1>1, SameSituation
<1>3. PlanShape'
  BY <1>1, <1>2 DEF Typed, PlanShape, Deferred
<1>4. Rowed' = Rowed
  BY DEF Rowed
<1> HIDE DEF Rowed
<1>5. TypeOK'
  <2>1. /\ review' \in Reviewed' /\ reading' \subseteq Reviewed' /\ Cardinality(reading') <= 1
        /\ fresh' \in BOOLEAN /\ loads' \in 0..prepared'.loads /\ kept' \subseteq Rows
        /\ policy' \in {"STOP", "CONTINUE"} /\ crashes' \in 0..prepared'.crashes
    BY <1>1, <1>2, TypeParts
  <2>2. /\ [rows |-> call'.rows, phase |-> call'.phase, fields |-> call'.fields] \in Call'
        /\ call'.answer \in Answers
    BY <1>2 DEF Calls, Call
  <2>3. worker' \in Worker
    BY DEF Workers
  <2> QED BY <2>1, <2>2, <2>3, <1>2 DEF TypeOK, Rowed
<1>7. worker' \in Workers' /\ Creating'
  BY <1>1 DEF Workers, Creating
<1>6. prepared' \in Situations /\ call' \in Calls'
  BY <1>1, <1>2 DEF Typed
<1> QED BY <1>3, <1>5, <1>6, <1>7 DEF Typed

(* A step of the worker that records nothing.                              *)
LEMMA IdleTyped ==
  ASSUME Typed, Idle, worker' \in Workers, worker'.pc # "wait"
  PROVE  Typed'
<1>1. /\ UNCHANGED <<past, run, policy, rowsVars, control, seen, stopper, odoo, call, crashes>>
  BY DEF Idle
<1> QED BY <1>1, TypeParts, StepTyped DEF rowsVars, odoo

LEMMA BlockTyped ==
  ASSUME Typed, NEW S, NEW then, Block(S, then), then \in Workers, then.pc # "wait"
  PROVE  Typed'
<1>1. /\ UNCHANGED <<past, run, policy, flight, isolating, diagnosed, control, stopper, odoo, call, crashes>>
      /\ UNCHANGED <<count, written, late>>
  BY DEF Block, odoo
<1>2. journal' \in Rowed /\ seen' \in Rowed /\ worker' \in Workers /\ worker'.pc # "wait"
  <2>1. NoWorker \in Workers /\ NoWorker.pc # "wait"
    BY NoWorkerTyped
  <2>2. "BLOCKED" \in Statuses
    BY DEF Statuses
  <2>3. Marked(journal, S, "BLOCKED") \in Rowed /\ Marked(seen, S, "BLOCKED") \in Rowed
    BY <2>2, TypeParts, MarkedRows
  <2> QED BY <2>1, <2>3, TypeParts DEF Block
<1> QED BY <1>1, <1>2, TypeParts, StepTyped

LEMMA BeginTyped ==
  ASSUME Typed, NEW S \in SUBSET Rows, NEW phase \in Phases, Begin(S, phase),
         phase = "CREATE" => worker.batches # <<>> /\ S \subseteq plan.creates
  PROVE  Typed'
<1>1. /\ UNCHANGED <<past, run, policy, stopper, odoo, crashes>>
      /\ UNCHANGED <<count, written, late>>
  BY DEF Begin, odoo
<1>2. /\ journal' \in Rowed /\ seen' \in Rowed /\ flight' \in Phases
      /\ isolating' \subseteq Rows /\ diagnosed' \subseteq Rows
      /\ control' \in Control /\ worker' \in Workers /\ call' \in Calls
      /\ worker'.pc = "wait" /\ call'.phase = "CREATE" =>
           worker'.batches # <<>> /\ call'.rows \subseteq plan.creates
  <2>1. CASE UNCHANGED <<rowsVars, seen, control, call>>
             /\ (worker' = NoWorker \/ worker' = [worker EXCEPT !.pc = "halted"])
    <3>1. worker' \in Workers /\ worker'.pc # "wait"
      <4>1. worker \in Workers
        BY TypeParts
      <4>2. /\ [worker EXCEPT !.pc = "halted"] \in Workers
            /\ [worker EXCEPT !.pc = "halted"].pc # "wait"
        BY <4>1 DEF Worker, Workers
      <4> QED BY <4>2, <2>1, NoWorkerTyped
    <3> QED BY <3>1, <2>1, TypeParts DEF rowsVars
  <2>2. CASE /\ journal' = Marked(journal, S, "IN_FLIGHT")
             /\ seen' = Marked(seen, S, "IN_FLIGHT")
             /\ flight' = phase
             /\ isolating' = isolating \ S /\ diagnosed' = diagnosed \ S
             /\ (control' = [control EXCEPT !.calls = @ + 1] \/ control' = control)
             /\ call' = [rows |-> S, phase |-> phase, answer |-> "none",
                         fields |-> UNION {Sent(r, phase) : r \in S}]
             /\ worker' = [worker EXCEPT !.pc = "wait"]
    <3>1. journal' \in Rowed /\ seen' \in Rowed
      <4>1. "IN_FLIGHT" \in Statuses
        BY DEF Statuses
      <4> QED BY <4>1, <2>2, TypeParts, MarkedRows
    <3>2. call' \in Calls
      <4>1. \A r \in S : Sent(r, phase) \subseteq fields
        BY DEF Sent, Deferred, DeferredOf, FieldsOf, Typed, PlanShape
      <4>2. UNION {Sent(r, phase) : r \in S} \subseteq fields
        BY <4>1
      <4> HIDE DEF fields
      <4> QED BY <4>2, <2>2 DEF Calls, Answers
    <3>3. worker' \in Workers /\ worker'.batches = worker.batches
      BY <2>2, TypeParts DEF Worker, Workers
    <3>4. control' \in Control
      BY <2>2, TypeParts, CallsCounted
    <3>5. call'.phase = phase /\ call'.rows = S
      BY <2>2
    <3> QED BY <3>1, <3>2, <3>3, <3>4, <3>5, <2>2, TypeParts
  <2> QED BY <2>1, <2>2 DEF Begin
<1> QED BY <1>1, <1>2, TypeParts, StepTyped

---------------------------------------------------------------------------
(* What the steps of the worker come down to.                              *)

(* Where the worker may go without having sent or read anything: one that  *)
(* has ceased sending does not begin again.                                *)
Onward(w) ==
  /\ w \in Workers /\ w.pc \notin {"wait", "recover", "continue"}
  /\ worker.pc \notin {"off", "wait", "recover", "continue"}
  /\ w.pc \in Sending => worker.pc \in Sending /\ (Ceased(worker) => Ceased(w))

Walk ==
  Idle /\ Onward(worker') /\ (worker'.pc = "finish" => With(seen, Unattempted) = {})

Blocks ==
  \E S \in SUBSET Rows, then \in Worker :
    /\ Onward(then) /\ Block(S, then)
    /\ then.pc = "finish" => With(seen, Unattempted) \subseteq S

Begins ==
  \E S \in SUBSET Rows, phase \in Phases :
    /\ Begin(S, phase) /\ worker.pc \in Sending /\ ~Ceased(worker)
    /\ phase = "CREATE" => worker.batches # <<>> /\ S \subseteq plan.creates
    /\ phase = "UPDATE" => S \subseteq plan.updates

Finishes ==
  /\ worker.pc \in {"finish", "finish stopped"} /\ worker' = NoWorker
  /\ UNCHANGED <<past, policy, rowsVars, seen, stopper, odoo, call, crashes>>
  /\ \E status \in RunStatuses \ {"NONE", "RUNNING", "CLOSED"} :
       /\ FinishRun(status)
       /\ status = "COMPLETED" =>
            /\ worker.pc = "finish"
            /\ With(seen, {"OUTCOME_UNKNOWN", "PARTIALLY_APPLIED", "FAILED", "BLOCKED"}) = {}

LEMMA GoOnward ==
  ASSUME Typed, worker.pc \notin {"off", "wait", "recover", "continue"},
         NEW pc \in {"group", "creates", "updates", "completions", "remaining", "rest",
                     "finish", "halted", "stopped", "finish stopped"},
         pc \in Sending => worker.pc \in Sending
  PROVE  Onward([worker EXCEPT !.pc = pc]) /\ [worker EXCEPT !.pc = pc].pc = pc
<1> DEFINE w == [worker EXCEPT !.pc = pc]
<1>1. worker \in Worker /\ worker.batches \in Seq(SUBSET plan.creates)
  BY TypeParts
<1>2. w \in Worker /\ w.batches = worker.batches /\ w.pc = pc
      /\ w.todo = worker.todo /\ w.stopping = worker.stopping
  BY <1>1 DEF Worker
<1> HIDE DEF w
<1>3. w \in Workers
  BY <1>1, <1>2 DEF Workers
<1>4. Onward(w)
  BY <1>2, <1>3 DEF Onward, Ceased
<1> QED BY <1>2, <1>4 DEF w

LEMMA NextGroupOnward ==
  ASSUME Typed, worker.pc \in Sending
  PROVE  Onward(NextGroup) /\ NextGroup.pc = "group"
<1>1. worker \in Worker /\ worker.batches \in Seq(SUBSET plan.creates)
  BY TypeParts
<1>2. worker.group + 1 \in Nat
  <2>1. worker.group \in Nat
    BY <1>1 DEF Worker
  <2> QED BY <2>1
<1>3. /\ NextGroup \in Worker
      /\ NextGroup.batches = worker.batches /\ NextGroup.pc = "group"
      /\ NextGroup.todo = worker.todo /\ NextGroup.stopping = worker.stopping
  BY <1>1, <1>2 DEF NextGroup, Worker
<1>4. NextGroup \in Workers
  BY <1>1, <1>3 DEF Workers
<1> QED BY <1>3, <1>4 DEF Onward, Ceased, Sending

LEMMA GoneOnward ==
  ASSUME Typed, worker.pc \notin {"off", "wait", "recover", "continue"}
  PROVE  Onward(NoWorker) /\ NoWorker.pc = "off"
BY NoWorkerTyped DEF Onward, Sending

LEMMA TodoOnward ==
  ASSUME Typed, worker.pc \notin {"off", "wait", "recover", "continue"},
         NEW todo \in SUBSET Rows,
         NEW pc \in {"completions", "stopped"},
         pc = "completions" => worker.pc \in Sending /\ ~Ceased(worker)
  PROVE  Onward([worker EXCEPT !.pc = pc, !.todo = todo])
<1> DEFINE w == [worker EXCEPT !.pc = pc, !.todo = todo]
<1>1. worker \in Worker /\ worker.batches \in Seq(SUBSET plan.creates)
  BY TypeParts
<1>2. w \in Worker /\ w.batches = worker.batches /\ w.pc = pc
  BY <1>1 DEF Worker
<1> HIDE DEF w
<1>3. w \in Workers
  BY <1>1, <1>2 DEF Workers
<1>4. Onward(w)
  BY <1>2, <1>3 DEF Onward, Sending
<1> QED BY <1>4 DEF w

LEMMA BatchesOnward ==
  ASSUME Typed, worker.pc = "creates", ~Ceased(worker),
         NEW batches \in Seq(SUBSET plan.creates)
  PROVE  Onward([worker EXCEPT !.batches = batches])
<1> DEFINE w == [worker EXCEPT !.batches = batches]
<1>1. worker \in Worker /\ plan.creates \subseteq Rows
  BY TypeParts DEF Typed, PlanShape
<1>2. batches \in Seq(SUBSET Rows)
  BY <1>1
<1>3. w \in Worker /\ w.batches = batches /\ w.pc = "creates"
  BY <1>1, <1>2 DEF Worker
<1> HIDE DEF w
<1>4. w \in Workers
  BY <1>3 DEF Workers
<1>5. Onward(w)
  BY <1>3, <1>4 DEF Onward, Sending
<1> QED BY <1>5 DEF w

LEMMA SequencesOf ==
  ASSUME NEW T
  PROVE  /\ \A x \in T : <<x>> \in Seq(T)
         /\ \A x, y \in T : <<x, y>> \in Seq(T)
         /\ \A s \in Seq(T) : s # <<>> => Head(s) \in T /\ Tail(s) \in Seq(T) /\ s[1] \in T
         /\ \A s, t \in Seq(T) : s \o t \in Seq(T)
<1>1. (\A x \in T : <<x>> \in Seq(T)) /\ (\A x, y \in T : <<x, y>> \in Seq(T))
  OBVIOUS
<1>2. \A s \in Seq(T) : s # <<>> => Head(s) \in T /\ Tail(s) \in Seq(T) /\ s[1] \in T
  OBVIOUS
<1>3. \A s, t \in Seq(T) : s \o t \in Seq(T)
  OBVIOUS
<1> QED BY <1>1, <1>2, <1>3

LEMMA GroupShape ==
  ASSUME Typed, EnterGroup
  PROVE  Walk \/ Blocks
<1>1. worker.pc = "group" /\ worker.pc \in Sending
  BY DEF EnterGroup, Sending
<1>2. CASE Go("creates") /\ Idle
  BY <1>1, <1>2, GoOnward DEF Walk, Go
<1>3. CASE Block(Pending(Group), NextGroup)
  <2>1. Pending(Group) \subseteq Rows
    BY TypeParts, WithRows DEF Pending
  <2>2. Onward(NextGroup) /\ NextGroup.pc = "group" /\ NextGroup \in Worker
    BY <1>1, NextGroupOnward DEF Onward, Workers
  <2> QED BY <2>1, <2>2, <1>3 DEF Blocks
<1>4. CASE /\ worker.stopping /\ Idle /\ worker' = [worker EXCEPT !.pc = "remaining"]
  BY <1>1, <1>4, GoOnward DEF Walk, Sending
<1>5. CASE /\ ~worker.stopping /\ Idle
           /\ worker' = [worker EXCEPT !.pc = "completions",
                !.todo = {r \in With(seen, {"PARTIALLY_APPLIED"}) :
                            Deferred(r) # {} /\ ~(policy = "CONTINUE" /\ r \in diagnosed)}]
  <2>1. {r \in With(seen, {"PARTIALLY_APPLIED"}) :
           Deferred(r) # {} /\ ~(policy = "CONTINUE" /\ r \in diagnosed)} \in SUBSET Rows
    BY TypeParts, WithRows
  <2>2. Onward(worker')
    BY <2>1, <1>1, <1>5, TodoOnward DEF Ceased
  <2>3. worker'.pc = "completions"
    BY <1>5, TypeParts DEF Worker
  <2> QED BY <2>2, <2>3, <1>5 DEF Walk
<1> QED BY <1>2, <1>3, <1>4, <1>5 DEF EnterGroup

LEMMA CreateShape ==
  ASSUME Typed, TakeBatch \/ Create
  PROVE  Walk \/ Blocks \/ Begins
<1>1. worker.pc = "creates" /\ worker.pc \in Sending
  BY DEF TakeBatch, Create, Sending
<1>2. worker \in Worker /\ worker.batches \in Seq(SUBSET plan.creates) /\ plan.creates \subseteq Rows
  BY TypeParts DEF Typed, PlanShape
<1>3. CASE TakeBatch
  <2> DEFINE creates == Pending(Group \cap plan.creates)
  <2>1. CASE Idle /\ worker' = [worker EXCEPT !.pc = "updates"]
    BY <1>1, <2>1, GoOnward DEF Walk
  <2>2. CASE Idle /\ ~worker.stopping /\ worker' = [worker EXCEPT !.batches = <<First(creates, BatchRows)>>]
    <3>1. First(creates, BatchRows) \in SUBSET plan.creates
      BY FirstRows DEF Pending
    <3> HIDE DEF creates
    <3>2. <<First(creates, BatchRows)>> \in Seq(SUBSET plan.creates)
      BY <3>1, SequencesOf
    <3>3. Onward(worker')
      BY <3>2, <2>2, <1>1, BatchesOnward DEF Ceased
    <3>4. worker'.pc = "creates"
      BY <2>2, <1>1, <1>2 DEF Worker
    <3> QED BY <3>3, <3>4, <2>2 DEF Walk
  <2> QED BY <1>3, <2>1, <2>2 DEF TakeBatch
<1>4. CASE Create
  <2> DEFINE batch == Head(worker.batches)
             without == {r \in batch : ~HasReceipts(r)}
             dropped == First(without, 1)
  <2>1. worker.batches # <<>> /\ ~Ceased(worker)
    BY <1>4 DEF Create, Ceased
  <2>2. batch \in SUBSET plan.creates /\ Tail(worker.batches) \in Seq(SUBSET plan.creates)
    BY <2>1, <1>2, SequencesOf
  <2>3. CASE Idle /\ worker' = [worker EXCEPT !.batches = Tail(worker.batches)]
    <3>1. Onward(worker')
      BY <2>1, <2>2, <2>3, <1>1, BatchesOnward
    <3>2. worker'.pc = "creates"
      BY <2>3, <1>1, <1>2 DEF Worker
    <3> QED BY <3>1, <3>2, <2>3 DEF Walk
  <2>4. CASE Block(dropped, [worker EXCEPT !.batches[1] = @ \ dropped])
    <3> DEFINE batches == [worker.batches EXCEPT ![1] = @ \ dropped]
               then == [worker EXCEPT !.batches = batches]
    <3>1. dropped \in SUBSET Rows
      BY <2>2, <1>2, FirstRows
    <3>2. worker.batches[1] \in SUBSET plan.creates
      BY <2>1, <1>2
    <3> HIDE DEF dropped
    <3>3. batches \in Seq(SUBSET plan.creates)
      BY <3>2, <1>2
    <3>4. then = [worker EXCEPT !.batches[1] = @ \ dropped]
      BY <1>2 DEF Worker
    <3>5. Onward(then)
      <4> HIDE DEF batches
      <4> QED BY <3>3, <2>1, <1>1, BatchesOnward
    <3>6. then.pc = "creates" /\ then \in Worker
      <4>1. then.pc = "creates"
        <5> HIDE DEF batches
        <5> QED BY <1>1, <1>2 DEF Worker
      <4> QED BY <4>1, <3>5 DEF Onward, Workers
    <3> HIDE DEF then
    <3> QED BY <2>4, <3>1, <3>4, <3>5, <3>6 DEF Blocks
  <2>5. CASE Begin(batch, "CREATE")
    <3> HIDE DEF batch
    <3>1. batch \in SUBSET Rows /\ "CREATE" \in Phases
      BY <2>2, <1>2 DEF Phases
    <3> QED BY <3>1, <2>1, <2>2, <2>5, <1>1 DEF Begins
  <2> QED BY <1>4, <2>3, <2>4, <2>5 DEF Create
<1> QED BY <1>3, <1>4

LEMMA UpdateShape ==
  ASSUME Typed, Update
  PROVE  Walk \/ Blocks \/ Begins
<1> DEFINE updates == Pending(Group \cap plan.updates)
           one == First(updates, 1)
           blocked == worker.stopping \/ \E r \in one : ~HasReceipts(r)
<1>1. worker.pc = "updates" /\ worker.pc \in Sending
  BY DEF Update, Sending
<1>2. one \subseteq plan.updates /\ one \in SUBSET Rows
  BY FirstRows DEF Pending, Typed, PlanShape
<1> HIDE DEF updates, one
<1>3. CASE Idle /\ worker' = NextGroup
  BY <1>1, <1>3, NextGroupOnward DEF Walk
<1>4. CASE Block(one, worker)
  <2>1. worker \in Workers /\ worker \in Worker
    BY TypeParts
  <2>2. Onward(worker)
    BY <2>1, <1>1 DEF Onward
  <2> QED BY <2>1, <2>2, <1>1, <1>2, <1>4 DEF Blocks
<1>5. CASE ~blocked /\ Begin(one, "UPDATE")
  <2>1. ~Ceased(worker) /\ "UPDATE" \in Phases
    BY <1>5 DEF Ceased, Phases
  <2> QED BY <2>1, <1>1, <1>2, <1>5 DEF Begins
<1>6. \/ Idle /\ worker' = NextGroup
      \/ Block(one, worker)
      \/ ~blocked /\ Begin(one, "UPDATE")
  BY DEF Update, updates, one
<1> QED BY <1>3, <1>4, <1>5, <1>6

LEMMA CompleteShape ==
  ASSUME Typed, Complete
  PROVE  Walk \/ Begins
<1> DEFINE one == First(worker.todo, 1)
<1>1. worker.pc = "completions" /\ worker.pc \in Sending
  BY DEF Complete, Sending
<1>2. worker.todo \subseteq Rows /\ worker \in Worker
  BY TypeParts DEF Worker
<1>3. one \subseteq worker.todo /\ one \in SUBSET Rows
  BY <1>2, FirstRows
<1>4. CASE Go("remaining") /\ Idle
  BY <1>1, <1>4, GoOnward DEF Walk, Go, Sending
<1>5. CASE /\ one # {} /\ Idle
           /\ worker' = IF run = "RUNNING" THEN [worker EXCEPT !.todo = @ \ one] ELSE NoWorker
  <2>1. CASE worker' = NoWorker
    BY <2>1, <1>1, <1>5, GoneOnward DEF Walk
  <2>2. CASE worker' = [worker EXCEPT !.todo = @ \ one]
    <3>1. worker' = [worker EXCEPT !.pc = "completions", !.todo = worker.todo \ one]
      BY <2>2, <1>1, <1>2 DEF Worker
    <3>2. ~Ceased(worker) /\ worker.todo \ one \in SUBSET Rows
      BY <1>2, <1>3, <1>5 DEF Ceased
    <3>3. Onward(worker')
      <4> HIDE DEF one
      <4> QED BY <3>1, <3>2, <1>1, TodoOnward
    <3>4. worker'.pc = "completions"
      BY <3>1, <1>2 DEF Worker
    <3> QED BY <3>3, <3>4, <1>5 DEF Walk
  <2> QED BY <1>5, <2>1, <2>2
<1>6. CASE one # {} /\ Begin(one, "COMPLETION")
  <2>1. ~Ceased(worker) /\ "COMPLETION" \in Phases
    BY <1>3, <1>6 DEF Ceased, Phases
  <2> HIDE DEF one
  <2> QED BY <2>1, <1>1, <1>3, <1>6 DEF Begins
<1> QED BY <1>4, <1>5, <1>6 DEF Complete

LEMMA EndShape ==
  ASSUME Typed, Remaining \/ BlockRest \/ Finish \/ Halted \/ BlockStopped \/ FinishStopped
  PROVE  Walk \/ Blocks \/ Finishes
<1>1. worker \in Worker /\ worker.todo \subseteq Rows /\ seen \in Rowed /\ journal \in Rowed
  BY TypeParts DEF Worker
<1>2. Pending(Rows) = With(seen, Unattempted) /\ Pending(Rows) \in SUBSET Rows
  BY <1>1, WithRows DEF Pending
<1>3. CASE Remaining
  <2>1. worker.pc = "remaining" /\ Idle
    BY <1>3 DEF Remaining
  <2>2. PICK pc \in {"finish", "rest", "halted"} :
          worker' = [worker EXCEPT !.pc = pc] /\ (pc = "finish" => Pending(Rows) = {})
    BY <1>3 DEF Remaining, Go
  <2>3. Onward(worker') /\ worker'.pc = pc
    BY <2>1, <2>2, GoOnward DEF Sending
  <2> QED BY <2>1, <2>2, <2>3, <1>2 DEF Walk
<1>4. CASE BlockRest
  <2> DEFINE then == [worker EXCEPT !.pc = "finish"]
  <2>1. worker.pc = "rest" /\ Block(Pending(Rows), then)
    BY <1>4 DEF BlockRest
  <2>2. Onward(then)
    BY <2>1, GoOnward DEF Sending
  <2> HIDE DEF then
  <2>3. then \in Worker
    BY <2>2 DEF Onward, Workers
  <2> QED BY <2>1, <2>2, <2>3, <1>2 DEF Blocks
<1>5. CASE Finish
  <2> DEFINE status == IF With(seen, {"OUTCOME_UNKNOWN"}) # {} THEN "OUTCOME_UNKNOWN"
                       ELSE IF With(seen, {"PARTIALLY_APPLIED", "FAILED", "BLOCKED"}) # {}
                       THEN "COMPLETED_WITH_ERRORS" ELSE "COMPLETED"
  <2>1. /\ worker.pc = "finish" /\ worker' = NoWorker /\ FinishRun(status)
        /\ UNCHANGED <<past, policy, rowsVars, seen, stopper, odoo, call, crashes>>
    BY <1>5 DEF Finish
  <2>2. status \in RunStatuses \ {"NONE", "RUNNING", "CLOSED"}
    BY DEF RunStatuses
  <2>3. ASSUME status = "COMPLETED"
        PROVE  With(seen, {"OUTCOME_UNKNOWN", "PARTIALLY_APPLIED", "FAILED", "BLOCKED"}) = {}
    BY <2>3 DEF With
  <2> HIDE DEF status
  <2> QED BY <2>1, <2>2, <2>3 DEF Finishes
<1>6. CASE Halted
  <2>1. worker.pc = "halted" /\ Idle
    BY <1>6 DEF Halted
  <2>2. CASE worker' = NoWorker
    BY <2>1, <2>2, GoneOnward DEF Walk
  <2>3. CASE worker' = [worker EXCEPT !.pc = "stopped", !.todo = With(journal, Unattempted)]
    <3>1. With(journal, Unattempted) \in SUBSET Rows
      BY <1>1, WithRows
    <3>2. Onward(worker')
      BY <3>1, <2>1, <2>3, TodoOnward
    <3>3. worker'.pc = "stopped"
      BY <2>3, <1>1 DEF Worker
    <3> QED BY <3>2, <3>3, <2>1 DEF Walk
  <2> QED BY <1>6, <2>2, <2>3 DEF Halted
<1>7. CASE BlockStopped
  <2> DEFINE then == [worker EXCEPT !.pc = "finish stopped"]
  <2>1. worker.pc = "stopped" /\ Block(worker.todo, then)
    BY <1>7 DEF BlockStopped
  <2>2. Onward(then) /\ then.pc = "finish stopped"
    BY <2>1, GoOnward DEF Sending
  <2> HIDE DEF then
  <2>3. then \in Worker
    BY <2>2 DEF Onward, Workers
  <2> QED BY <2>1, <2>2, <2>3, <1>1 DEF Blocks
<1>8. CASE FinishStopped
  <2>1. /\ "COMPLETED_WITH_ERRORS" \in RunStatuses \ {"NONE", "RUNNING", "CLOSED"}
        /\ "COMPLETED_WITH_ERRORS" # "COMPLETED"
    BY DEF RunStatuses
  <2>2. /\ worker.pc = "finish stopped" /\ worker' = NoWorker
        /\ FinishRun("COMPLETED_WITH_ERRORS")
        /\ UNCHANGED <<past, policy, rowsVars, seen, stopper, odoo, call, crashes>>
    BY <1>8 DEF FinishStopped
  <2> QED BY <2>1, <2>2 DEF Finishes
<1> QED BY <1>3, <1>4, <1>5, <1>6, <1>7, <1>8

(* Every step of the worker, but for the ones of a resumption.             *)
LEMMA WorkShapes ==
  ASSUME Typed, Work
  PROVE  Walk \/ Blocks \/ Begins \/ Finishes \/ Recover \/ Continue
BY GroupShape, CreateShape, UpdateShape, CompleteShape, EndShape DEF Work

---------------------------------------------------------------------------
(* What a settled call comes down to.                                      *)
SettledAs(status) ==
  /\ UNCHANGED <<past, run, policy, flight, stopper, count, written, crashes>>
  /\ journal' = [r \in Rows |-> IF r \in call.rows THEN status[r] ELSE journal[r]]
  /\ seen' = [r \in Rows |-> IF r \in call.rows THEN status[r] ELSE seen[r]]
  /\ isolating' \subseteq Rows /\ diagnosed' \subseteq Rows
  /\ call' = NoCall /\ worker' \in Workers /\ worker'.pc \in Sending
  /\ late' \subseteq Call /\ (LateCalls \/ late' = late)

AsWritten == [r \in Rows |-> IF call.phase = "CREATE" /\ Deferred(r) # {}
                             THEN "PARTIALLY_APPLIED" ELSE "COMMITTED"]
AsRejected == [r \in Rows |-> IF call.phase = "COMPLETION" THEN "PARTIALLY_APPLIED" ELSE "FAILED"]
As(status) == [r \in Rows |-> status]

SettledWritten ==
  /\ SettledAs(AsWritten) /\ call.answer = "accepted"
  /\ control' = Settled(control, call.phase, Cardinality(call.rows), FALSE)
SettledApart ==
  /\ SettledAs(As("RETRY_READY")) /\ call.answer = "rejected" /\ call.phase = "CREATE"
  /\ control' = Settled(control, "CREATE", 0, FALSE)
SettledRejected ==
  /\ SettledAs(AsRejected) /\ call.answer \in {"rejected", "refused"}
  /\ control' = Settled(control, call.phase, Cardinality(call.rows), TRUE)
  /\ policy = "STOP" => Ceased(worker')
SettledUnknown ==
  SettledAs(As("OUTCOME_UNKNOWN")) /\ control' = control /\ Ceased(worker')

LEMMA RestTyped ==
  ASSUME Typed, worker.pc = "wait",
         NEW then \in {Rest, StopSending}
  PROVE  LET w == [then EXCEPT !.pc = After[call.phase]] IN
         /\ w \in Workers /\ w.pc \in Sending
         /\ then = StopSending => Ceased(w)
<1> DEFINE w == [then EXCEPT !.pc = After[call.phase]]
<1>1. worker \in Worker /\ worker.batches \in Seq(SUBSET plan.creates) /\ plan.creates \subseteq Rows
  BY TypeParts DEF Typed, PlanShape
<1>2. After[call.phase] \in {"creates", "updates", "completions"} /\ call.phase \in Phases
  BY TypeParts DEF Calls, After, Phases
<1>3. then \in Worker /\ then.batches \in Seq(SUBSET plan.creates)
  <2>1. CASE then = StopSending
    <3>1. <<>> \in Seq(SUBSET Rows) /\ <<>> \in Seq(SUBSET plan.creates) /\ {} \in SUBSET Rows
      OBVIOUS
    <3> QED BY <2>1, <3>1, <1>1 DEF StopSending, Worker
  <2>2. CASE then = Rest /\ call.phase = "CREATE"
    <3>1. worker.batches # <<>>
      BY <2>2 DEF Typed, Creating
    <3>2. Tail(worker.batches) \in Seq(SUBSET plan.creates) /\ Tail(worker.batches) \in Seq(SUBSET Rows)
      <4>1. worker.batches \in Seq(SUBSET Rows)
        BY <1>1 DEF Worker
      <4> QED BY <3>1, <4>1, <1>1, SequencesOf
    <3> QED BY <2>2, <3>2, <1>1 DEF Rest, Worker
  <2>3. CASE then = Rest /\ call.phase # "CREATE"
    <3>1. worker.todo \ call.rows \in SUBSET Rows
      BY <1>1 DEF Worker
    <3> QED BY <2>3, <3>1, <1>1 DEF Rest, Worker
  <2> QED BY <2>1, <2>2, <2>3
<1>4. w \in Worker /\ w.batches = then.batches /\ w.pc = After[call.phase]
      /\ w.stopping = then.stopping /\ w.todo = then.todo
  BY <1>2, <1>3 DEF Worker
<1>5. ASSUME then = StopSending
      PROVE  then.stopping /\ then.batches = <<>> /\ then.todo = {}
  BY <1>5, <1>1 DEF StopSending, Worker
<1> HIDE DEF w
<1>6. w \in Workers /\ w.pc \in Sending /\ (then = StopSending => Ceased(w))
  BY <1>2, <1>3, <1>4, <1>5 DEF Workers, Sending, Ceased
<1> QED BY <1>6 DEF w

LEMMA SettleShape ==
  ASSUME Typed, Settle
  PROVE  SettledWritten \/ SettledApart \/ SettledRejected \/ SettledUnknown
<1>1. worker.pc = "wait" /\ UNCHANGED <<past, run, policy, stopper, count, written, crashes>>
  BY DEF Settle
<1>2. /\ worker \in Worker /\ worker.batches \in Seq(SUBSET plan.creates)
      /\ plan.creates \subseteq Rows /\ call \in Calls /\ call.rows \subseteq Rows
      /\ isolating \subseteq Rows /\ diagnosed \subseteq Rows /\ late \subseteq Call
  BY TypeParts DEF Typed, PlanShape, Calls
<1>3. CASE Accepted
  <2>1. /\ worker' = [Rest EXCEPT !.pc = After[call.phase]] /\ call' = NoCall
        /\ UNCHANGED <<flight, isolating, diagnosed, late>> /\ call.answer = "accepted"
        /\ journal' = [r \in Rows |-> IF r \in call.rows THEN AsWritten[r] ELSE journal[r]]
        /\ seen' = [r \in Rows |-> IF r \in call.rows THEN AsWritten[r] ELSE seen[r]]
        /\ control' = Settled(control, call.phase, Cardinality(call.rows), FALSE)
    BY <1>3 DEF Accepted, Record, AsWritten
  <2>2. worker' \in Workers /\ worker'.pc \in Sending
    BY <2>1, <1>1, RestTyped
  <2> QED BY <1>1, <1>2, <2>1, <2>2 DEF SettledWritten, SettledAs
<1>4. CASE TakeApart
  <2> DEFINE left == First(call.rows, Cardinality(call.rows) \div 2)
             batches == <<left, call.rows \ left>> \o Tail(worker.batches)
  <2>1. /\ worker' = [worker EXCEPT !.pc = "creates", !.batches = batches]
        /\ call' = NoCall /\ UNCHANGED <<flight, diagnosed, late>>
        /\ isolating' = isolating \cup call.rows
        /\ control' = Settled(control, "CREATE", 0, FALSE)
        /\ call.answer = "rejected" /\ call.phase = "CREATE"
    BY <1>4 DEF TakeApart, Divisible
  <2>2. /\ journal' = Marked(journal, call.rows, "RETRY_READY")
        /\ seen' = Marked(seen, call.rows, "RETRY_READY")
    BY <1>4 DEF TakeApart
  <2>3. call.rows \subseteq plan.creates /\ worker.batches # <<>>
    BY <2>1, <1>1 DEF Typed, Creating
  <2>4. left \in SUBSET plan.creates /\ call.rows \ left \in SUBSET plan.creates
    BY <2>3, FirstRows
  <2> HIDE DEF left
  <2>5. <<left, call.rows \ left>> \in Seq(SUBSET plan.creates)
    BY <2>4, SequencesOf
  <2>6. batches \in Seq(SUBSET plan.creates)
    BY <2>3, <2>5, <1>2, SequencesOf
  <2> HIDE DEF batches
  <2>7. batches \in Seq(SUBSET Rows)
    BY <2>6, <1>2
  <2>8. worker' \in Worker /\ worker'.batches = batches /\ worker'.pc = "creates"
    BY <2>1, <2>7, <1>2 DEF Worker
  <2>9. worker' \in Workers /\ worker'.pc \in Sending
    BY <2>6, <2>8 DEF Workers, Sending
  <2>10. SettledAs(As("RETRY_READY"))
    BY <1>1, <1>2, <2>1, <2>2, <2>9 DEF SettledAs, As, Marked
  <2> QED BY <2>1, <2>10 DEF SettledApart
<1>5. CASE Rejected
  <2> DEFINE goOn == call.answer = "rejected" /\ policy = "CONTINUE"
             then == IF goOn THEN Rest ELSE StopSending
  <2>1. /\ worker' = [then EXCEPT !.pc = After[call.phase]] /\ call' = NoCall
        /\ UNCHANGED <<flight, isolating, late>> /\ call.answer \in {"rejected", "refused"}
        /\ diagnosed' = (IF call.phase = "COMPLETION" THEN diagnosed \cup call.rows ELSE diagnosed)
        /\ journal' = [r \in Rows |-> IF r \in call.rows THEN AsRejected[r] ELSE journal[r]]
        /\ seen' = [r \in Rows |-> IF r \in call.rows THEN AsRejected[r] ELSE seen[r]]
        /\ control' = Settled(control, call.phase, Cardinality(call.rows), TRUE)
    BY <1>5 DEF Rejected, Record, AsRejected
  <2>2. worker' \in Workers /\ worker'.pc \in Sending /\ (~goOn => Ceased(worker'))
    BY <2>1, <1>1, RestTyped
  <2>3. SettledAs(AsRejected)
    BY <1>1, <1>2, <2>1, <2>2 DEF SettledAs
  <2> QED BY <2>1, <2>2, <2>3 DEF SettledRejected
<1>6. CASE Unknown
  <2>1. /\ worker' = [StopSending EXCEPT !.pc = After[call.phase]] /\ call' = NoCall
        /\ UNCHANGED <<flight, isolating, diagnosed, control>> /\ GiveUp
        /\ journal' = Marked(journal, call.rows, "OUTCOME_UNKNOWN")
        /\ seen' = Marked(seen, call.rows, "OUTCOME_UNKNOWN")
    BY <1>6 DEF Unknown
  <2>2. worker' \in Workers /\ worker'.pc \in Sending /\ Ceased(worker')
    BY <2>1, <1>1, RestTyped
  <2>3. late' \subseteq Call /\ (LateCalls \/ late' = late)
    <3>1. [rows |-> call.rows, phase |-> call.phase, fields |-> call.fields] \in Call
      BY <1>2 DEF Calls, Call
    <3> QED BY <3>1, <2>1, <1>2 DEF GiveUp
  <2>4. SettledAs(As("OUTCOME_UNKNOWN"))
    BY <1>1, <1>2, <2>1, <2>2, <2>3 DEF SettledAs, As, Marked
  <2> QED BY <2>1, <2>2, <2>4 DEF SettledUnknown
<1> QED BY <1>3, <1>4, <1>5, <1>6 DEF Settle

LEMMA SettleTyped ==
  ASSUME Typed, Settle
  PROVE  Typed'
<1>1. PICK status \in [Rows -> Statuses] : SettledAs(status)
  <2>1. AsWritten \in [Rows -> Statuses]
    BY DEF AsWritten, Statuses, Created
  <2>2. AsRejected \in [Rows -> Statuses]
    BY DEF AsRejected, Statuses, Created
  <2>3. As("RETRY_READY") \in [Rows -> Statuses] /\ As("OUTCOME_UNKNOWN") \in [Rows -> Statuses]
    BY DEF As, Statuses, Unattempted
  <2> QED BY <2>1, <2>2, <2>3, SettleShape
          DEF SettledWritten, SettledApart, SettledRejected, SettledUnknown
<1>2. journal' \in Rowed /\ seen' \in Rowed
  BY <1>1, TypeParts DEF SettledAs, Rowed
<1>3. control' \in Control
  <2>1. call.phase \in Phases /\ Cardinality(call.rows) \in Nat /\ "CREATE" \in Phases
    BY TypeParts, RowsAreCounted DEF Calls, Phases
  <2>2. \/ control' = Settled(control, call.phase, Cardinality(call.rows), FALSE)
        \/ control' = Settled(control, call.phase, Cardinality(call.rows), TRUE)
        \/ control' = Settled(control, "CREATE", 0, FALSE)
        \/ control' = control
    BY SettleShape DEF SettledWritten, SettledApart, SettledRejected, SettledUnknown
  <2>3. control \in Control
    BY TypeParts
  <2> QED BY <2>1, <2>2, <2>3, SettledFacts
<1>4. call' \in Calls /\ worker'.pc # "wait"
  <2>1. NoCall \in Calls
    BY DEF NoCall, Calls, Phases, Answers
  <2> QED BY <1>1, <2>1 DEF SettledAs, Sending
<1>5. /\ UNCHANGED <<past, run, policy, flight, stopper, count, written, crashes>>
      /\ isolating' \subseteq Rows /\ diagnosed' \subseteq Rows
      /\ worker' \in Workers /\ late' \subseteq Call
  BY <1>1 DEF SettledAs
<1> QED BY <1>2, <1>3, <1>4, <1>5, TypeParts, StepTyped

(* The end of a run keeps a stop.                                          *)
LEMMA FinishFacts ==
  ASSUME Typed, NEW status \in RunStatuses, FinishRun(status)
  PROVE  /\ run' \in RunStatuses /\ control' \in Control
         /\ control'.calls = control.calls /\ control'.streak = control.streak
         /\ \/ UNCHANGED <<run, control>>
            \/ /\ MayFinish /\ run' = status
               /\ control'.state = IF control.state = "STOP_REQUESTED" THEN "STOPPED" ELSE "FINISHED"
<1>1. control \in Control /\ run \in RunStatuses
  BY TypeParts
<1>2. CASE ~MayFinish
  BY <1>1, <1>2 DEF FinishRun
<1>3. CASE MayFinish
  <2>1. /\ run' = status
        /\ control' = [control EXCEPT !.state = IF @ = "STOP_REQUESTED" THEN "STOPPED" ELSE "FINISHED"]
    BY <1>3 DEF FinishRun
  <2>2. /\ control' \in Control /\ control'.calls = control.calls /\ control'.streak = control.streak
        /\ control'.state = IF control.state = "STOP_REQUESTED" THEN "STOPPED" ELSE "FINISHED"
    BY <2>1, <1>1 DEF Control
  <2> QED BY <2>1, <2>2, <1>3
<1> QED BY <1>2, <1>3

LEMMA FreshTyped == FreshControl \in Control
BY DEF FreshControl, Control

LEMMA TransportTyped ==
  /\ Transport \in Workers /\ Transport.pc = "group" /\ ~Transport.stopping
  /\ [NoWorker EXCEPT !.pc = "recover"] \in Workers
  /\ [NoWorker EXCEPT !.pc = "recover"].pc = "recover"
<1>1. NoWorker \in Worker /\ NoWorker.batches \in Seq(SUBSET plan.creates) /\ ~NoWorker.stopping
  BY NoWorkerTyped DEF Workers, NoWorker
<1>2. /\ Transport \in Worker /\ Transport.pc = "group" /\ Transport.batches = NoWorker.batches
      /\ Transport.stopping = NoWorker.stopping
  BY <1>1 DEF Transport, Worker
<1>3. /\ [NoWorker EXCEPT !.pc = "recover"] \in Worker
      /\ [NoWorker EXCEPT !.pc = "recover"].pc = "recover"
      /\ [NoWorker EXCEPT !.pc = "recover"].batches = NoWorker.batches
  BY <1>1 DEF Worker
<1> QED BY <1>1, <1>2, <1>3 DEF Workers

LEMMA WorkTyped ==
  ASSUME Typed, Work
  PROVE  Typed'
<1>1. CASE Walk
  BY <1>1, IdleTyped DEF Walk, Onward
<1>2. CASE Blocks
  BY <1>2, BlockTyped DEF Blocks, Onward
<1>3. CASE Begins
  BY <1>3, BeginTyped DEF Begins
<1>4. CASE Finishes
  <2>1. /\ UNCHANGED <<past, policy, journal, flight, isolating, diagnosed, seen, stopper>>
        /\ UNCHANGED <<count, written, late, call, crashes>> /\ worker' = NoWorker
    BY <1>4 DEF Finishes, rowsVars, odoo
  <2>2. run' \in RunStatuses /\ control' \in Control
    BY <1>4, FinishFacts DEF Finishes
  <2> QED BY <2>1, <2>2, TypeParts, NoWorkerTyped, StepTyped
<1>5. CASE Recover
  <2> DEFINE found == {r \in With(journal, {"IN_FLIGHT"}) :
                         \/ seen[r] = "COMMITTED"
                         \/ seen[r] = "PARTIALLY_APPLIED" /\ flight = "CREATE"}
  <2>1. /\ UNCHANGED <<past, run, policy, flight, isolating, diagnosed, seen, stopper>>
        /\ UNCHANGED <<count, written, late, call, crashes>> /\ worker.pc = "recover"
    BY <1>5 DEF Recover, odoo
  <2>2. Cardinality(found) \in Nat
    <3>1. found \in SUBSET Rows
      BY TypeParts, WithRows
    <3> QED BY <3>1, RowsAreCounted
  <2>3. \/ UNCHANGED <<journal, control>> /\ worker' = NoWorker
        \/ /\ journal' = seen /\ control' = Settled(control, flight, Cardinality(found), FALSE)
           /\ worker' = [worker EXCEPT !.pc = "continue"] \/ worker' = Transport
    BY <1>5 DEF Recover
  <2>4. journal' \in Rowed
    BY <2>3, TypeParts
  <2>5. control' \in Control
    <3> HIDE DEF found
    <3> QED BY <2>2, <2>3, TypeParts, SettledFacts
  <2>6. worker' \in Workers /\ worker'.pc # "wait"
    <3>1. /\ [worker EXCEPT !.pc = "continue"] \in Workers
          /\ [worker EXCEPT !.pc = "continue"].pc = "continue"
      <4>1. worker \in Workers
        BY TypeParts
      <4> QED BY <4>1 DEF Workers, Worker
    <3> QED BY <3>1, <2>3, NoWorkerTyped, TransportTyped
  <2> QED BY <2>1, <2>4, <2>5, <2>6, TypeParts, StepTyped
<1>6. CASE Continue
  <2>1. /\ UNCHANGED <<past, run, policy, journal, flight, isolating, diagnosed, seen, stopper>>
        /\ UNCHANGED <<count, written, late, call, crashes>>
    BY <1>6 DEF Continue, rowsVars, odoo
  <2>2. control' \in Control /\ worker' \in Workers /\ worker'.pc # "wait"
    BY <1>6, TypeParts, NoWorkerTyped, TransportTyped, FreshTyped DEF Continue
  <2> QED BY <2>1, <2>2, TypeParts, StepTyped
<1> QED BY <1>1, <1>2, <1>3, <1>4, <1>5, <1>6, WorkShapes

LEMMA StopTyped ==
  ASSUME Typed, RequestStop \/ Stopping
  PROVE  Typed'
<1>1. /\ UNCHANGED <<past, policy, flight, isolating, diagnosed, worker, seen>>
      /\ UNCHANGED <<count, written, late, call, crashes>>
  BY DEF RequestStop, Stopping, StopRead, StopBlock, StopFinish, rowsVars, odoo
<1>2. With(journal, Unattempted) \subseteq Rows
  BY TypeParts, WithRows
<1>3. stopper' \in Stopper
  BY <1>2, TypeParts
     DEF RequestStop, Stopping, StopRead, StopBlock, StopFinish, Stopper, NoStopper
<1>4. journal' \in Rowed
  <2>1. \A S : Marked(journal, S, "BLOCKED") \in Rowed
    BY TypeParts, MarkedRows DEF Statuses
  <2> QED BY <2>1, TypeParts DEF RequestStop, Stopping, StopRead, StopBlock, StopFinish, rowsVars
<1>5. run' \in RunStatuses /\ control' \in Control
  <2>1. [control EXCEPT !.state = "STOP_REQUESTED"] \in Control
    BY TypeParts DEF Control
  <2>2. "COMPLETED_WITH_ERRORS" \in RunStatuses
    BY DEF RunStatuses
  <2>3. CASE StopFinish
    BY <2>2, <2>3, FinishFacts DEF StopFinish
  <2> QED BY <2>1, <2>3, TypeParts DEF RequestStop, Stopping, StopRead, StopBlock
<1>6. worker'.pc = "wait" /\ call'.phase = "CREATE" =>
        worker'.batches # <<>> /\ call'.rows \subseteq plan.creates
  BY <1>1 DEF Typed, Creating
<1> QED BY <1>1, <1>3, <1>4, <1>5, <1>6, TypeParts, StepTyped

LEMMA CarryTyped ==
  ASSUME Typed, NEW c, Carry(c), c.fields \subseteq fields
  PROVE  count' \in [Rows -> Nat] /\ written' \subseteq fields
BY TypeParts DEF Carry

LEMMA OdooTyped ==
  ASSUME Typed, Handle \/ \E c \in late : HandleLate(c)
  PROVE  Typed'
<1>1. /\ UNCHANGED <<past, run, policy, journal, flight, isolating, diagnosed, control>>
      /\ UNCHANGED <<worker, seen, stopper, crashes>>
  BY DEF Handle, HandleLate, rowsVars
<1>2. /\ call' \in Calls /\ call'.rows = call.rows /\ call'.phase = call.phase
      /\ late' \subseteq Call
  BY TypeParts DEF Handle, HandleLate, Calls, Answers
<1>3. count' \in [Rows -> Nat] /\ written' \subseteq fields
  <2>1. call.fields \subseteq fields /\ \A c \in late : c.fields \subseteq fields
    BY TypeParts DEF Calls, Call
  <2> QED BY <2>1, TypeParts, CarryTyped DEF Handle, HandleLate
<1>4. worker'.pc = "wait" /\ call'.phase = "CREATE" =>
        worker'.batches # <<>> /\ call'.rows \subseteq plan.creates
  BY <1>1, <1>2 DEF Typed, Creating
<1> QED BY <1>1, <1>2, <1>3, <1>4, TypeParts, StepTyped

LEMMA FoundStatuses ==
  ASSUME Typed, NEW r \in Rows
  PROVE  /\ Found(r) \in Statuses \cup {"NONE"} /\ Found(r) # "IN_FLIGHT"
         /\ Found(r) = "NONE" <=> journal[r] = "NONE"
<1>1. journal[r] \in Statuses \cup {"NONE"}
  BY TypeParts DEF Rowed
<1>2. FoundRecord(r) \in {"COMMITTED", "PARTIALLY_APPLIED", "RETRY_READY", "OUTCOME_UNKNOWN"}
  BY DEF FoundRecord
<1>3. FoundCreate(r) \in {"COMMITTED", "PARTIALLY_APPLIED", "RETRY_READY", "OUTCOME_UNKNOWN"}
  BY <1>2 DEF FoundCreate
<1>4. CASE journal[r] = "IN_FLIGHT"
  BY <1>2, <1>3, <1>4 DEF Found, Statuses, Created, Unattempted
<1>5. CASE journal[r] = "PARTIALLY_APPLIED"
  BY <1>5 DEF Found, Statuses, Created, Unattempted
<1>6. CASE journal[r] \notin {"IN_FLIGHT", "PARTIALLY_APPLIED"}
  BY <1>1, <1>6 DEF Found
<1> QED BY <1>4, <1>5, <1>6

LEMMA AssessTyped ==
  ASSUME Typed, Assess
  PROVE  Typed'
<1>1. /\ UNCHANGED <<past, run, policy, journal, flight, isolating, diagnosed, control>>
      /\ UNCHANGED <<stopper, count, written, late, call, crashes>>
      /\ worker' = [NoWorker EXCEPT !.pc = "recover"]
      /\ seen' = [r \in Rows |-> Found(r)]
  BY DEF Assess, rowsVars, odoo
<1>2. seen' \in Rowed
  BY <1>1, FoundStatuses DEF Rowed
<1> QED BY <1>1, <1>2, TransportTyped, TypeParts, StepTyped

LEMMA ComparedTyped ==
  ASSUME Typed
  PROVE  Compared \in Reviewed
<1> DEFINE creates == {r \in Rows : count[r] = 0}
           ambiguous == {r \in Rows : count[r] > 1}
           lacking == {f \in fields : count[f.owner] = 0 \/ f \notin written}
<1>1. Compared = [creates |-> creates, ambiguous |-> ambiguous, fields |-> lacking]
  BY DEF Compared
<1>2. creates \in SUBSET Rows /\ ambiguous \in SUBSET Rows /\ lacking \in SUBSET fields
  OBVIOUS
<1> HIDE DEF creates, ambiguous, lacking
<1> QED BY <1>1, <1>2 DEF Reviewed

(* A step that changes what is compared, or starts a load.                 *)
LEMMA PastTyped ==
  ASSUME Typed, UNCHANGED prepared, PlanShape', run' \in RunStatuses,
         policy' \in {"STOP", "CONTINUE"},
         review' \in Reviewed, reading' \subseteq Reviewed, Cardinality(reading') <= 1,
         fresh' \in BOOLEAN, loads' \in 0..prepared.loads, kept' \subseteq Rows,
         journal' \in Rowed, seen' \in Rowed,
         flight' \in Phases, isolating' \subseteq Rows, diagnosed' \subseteq Rows,
         control' \in Control, worker' \in Workers', stopper' \in Stopper,
         count' \in [Rows -> Nat], written' \subseteq fields,
         call' \in Calls, late' \subseteq Call, crashes' \in 0..prepared.crashes, Creating'
  PROVE  Typed'
<1>1. /\ fields' = fields /\ Reviewed' = Reviewed /\ Call' = Call /\ Calls' = Calls
  BY SameSituation
<1>2. [rows |-> call'.rows, phase |-> call'.phase, fields |-> call'.fields] \in Call'
      /\ call'.answer \in Answers
  BY <1>1 DEF Calls, Call
<1>3. worker' \in Worker
  BY DEF Workers
<1>4. TypeOK'
  BY <1>1, <1>2, <1>3 DEF TypeOK, Rowed
<1>5. prepared' \in Situations /\ call' \in Calls'
  BY <1>1 DEF Typed
<1> QED BY <1>4, <1>5 DEF Typed

LEMMA CompareTyped ==
  ASSUME Typed, Compare \/ Publish \/ Close
  PROVE  Typed'
<1>1. /\ UNCHANGED <<prepared, plan, loads, policy, journal, flight, isolating, diagnosed>>
      /\ UNCHANGED <<control, worker, seen, stopper, count, written, late, call, crashes>>
  BY DEF Compare, Publish, Close, compared, rowsVars, odoo
<1>2. PlanShape' /\ Creating' /\ worker' \in Workers'
  BY <1>1, SameSituation, TypeParts DEF Typed, PlanShape, Creating, Workers, Deferred
<1>3. run' \in RunStatuses /\ kept' \subseteq Rows
  <2>1. With(journal, Created) \subseteq Rows
    BY TypeParts, WithRows
  <2> QED BY <2>1, TypeParts DEF Compare, Publish, Close, RunStatuses
<1>4. review' \in Reviewed /\ fresh' \in BOOLEAN
  BY TypeParts DEF Compare, Publish, Close, compared
<1>5. reading' \subseteq Reviewed /\ Cardinality(reading') <= 1
  <2>1. CASE reading' = {Compared}
    BY <2>1, ComparedTyped, FS_Singleton
  <2>2. CASE reading' = {}
    BY <2>2, FS_EmptySet
  <2>3. CASE reading' = reading
    BY <2>3, TypeParts
  <2> QED BY <2>1, <2>2, <2>3 DEF Compare, Publish, Close, compared
<1> QED BY <1>1, <1>2, <1>3, <1>4, <1>5, TypeParts, PastTyped

LEMMA CrashTyped ==
  ASSUME Typed, Crash
  PROVE  Typed'
<1>1. /\ UNCHANGED <<prepared, review, fresh, loads, kept, plan>>
      /\ UNCHANGED <<run, policy, journal, flight, isolating, diagnosed, control, seen, count, written>>
      /\ worker' = NoWorker /\ stopper' = NoStopper /\ call' = NoCall /\ reading' = {}
      /\ crashes' = crashes + 1 /\ crashes < prepared.crashes /\ GiveUp
  BY DEF Crash, rowsVars
<1>2. PlanShape'
  BY <1>1, SameSituation DEF Typed, PlanShape, Deferred
<1>3. worker' \in Workers' /\ Creating'
  BY <1>1, NoWorkerTyped DEF Workers, Creating
<1>4. NoStopper \in Stopper /\ NoCall \in Calls
  BY DEF NoStopper, Stopper, NoCall, Calls, Phases, Answers
<1>5. reading' \subseteq Reviewed /\ Cardinality(reading') <= 1
  BY <1>1, FS_EmptySet
<1>6. late' \subseteq Call
  BY <1>1, TypeParts DEF GiveUp, Calls, Call
<1>7. crashes' \in 0..prepared.crashes
  BY <1>1, TypeParts
<1> QED BY <1>1, <1>2, <1>3, <1>4, <1>5, <1>6, <1>7, TypeParts, PastTyped

LEMMA StartTyped ==
  ASSUME Typed, NEW p \in Policies, Start(p)
  PROVE  Typed' /\ plan'.creates = review.creates /\ plan'.fields = review.fields
<1>1. /\ UNCHANGED <<prepared, reading, review, kept, call, crashes, count, written, late>>
      /\ plan' = PlanOf(review) /\ run' = "RUNNING" /\ policy' = p
      /\ journal' = [r \in Rows |-> IF r \in RowsOf(plan') THEN "PLANNED" ELSE "NONE"]
      /\ seen' = journal' /\ flight' = "CREATE" /\ isolating' = {} /\ diagnosed' = {}
      /\ control' = FreshControl /\ worker' = Transport /\ stopper' = NoStopper
      /\ fresh' = FALSE /\ loads' = loads + 1 /\ loads < prepared.loads
  BY DEF Start, odoo
<1>2. PlanShape' /\ plan'.creates = review.creates /\ plan'.fields = review.fields
  BY <1>1, TypeParts, ScheduleOfView
<1>3. journal' \in Rowed
  BY <1>1 DEF Rowed, Statuses, Unattempted
<1>4. worker' \in Workers' /\ Creating'
  <2>1. Transport \in Worker /\ Transport.batches = <<>> /\ Transport.pc = "group"
    BY TransportTyped DEF Workers, Transport, NoWorker
  <2>2. <<>> \in Seq(SUBSET plan'.creates)
    OBVIOUS
  <2> QED BY <2>1, <2>2, <1>1 DEF Workers, Creating
<1>5. NoStopper \in Stopper /\ "CREATE" \in Phases /\ "RUNNING" \in RunStatuses
  BY DEF NoStopper, Stopper, Phases, RunStatuses
<1>6. loads' \in 0..prepared.loads /\ policy' \in {"STOP", "CONTINUE"}
  BY <1>1, TypeParts, LimitsAssumption
<1> QED BY <1>1, <1>2, <1>3, <1>4, <1>5, <1>6, TypeParts, FreshTyped, PastTyped

LEMMA InitTyped ==
  ASSUME Init
  PROVE  Typed
<1>1. prepared \in Situations /\ prepared.loads \in Nat /\ prepared.crashes \in Nat
  BY SituationsAssumption DEF Init
<1>2. count \in [Rows -> Nat] /\ written = {}
  BY DEF Init
<1>3. Compared \in Reviewed
  <2> DEFINE creates == {r \in Rows : count[r] = 0}
             ambiguous == {r \in Rows : count[r] > 1}
             lacking == {f \in fields : count[f.owner] = 0 \/ f \notin written}
  <2>1. Compared = [creates |-> creates, ambiguous |-> ambiguous, fields |-> lacking]
    BY DEF Compared
  <2>2. creates \in SUBSET Rows /\ ambiguous \in SUBSET Rows /\ lacking \in SUBSET fields
    OBVIOUS
  <2> HIDE DEF creates, ambiguous, lacking
  <2> QED BY <2>1, <2>2 DEF Reviewed
<1>4. PlanShape
  <2>1. /\ plan.creates = {} /\ plan.fields = {} /\ plan.updates = {f.owner : f \in {}} \ {}
        /\ \A r : r \notin {} => DeferredOf(plan, r) = {}
    BY ScheduleShape DEF Init, PlanOf
  <2>2. plan.updates = {}
    BY <2>1
  <2> QED BY <2>1, <2>2 DEF PlanShape, Deferred
<1>5. worker \in Workers /\ worker.pc = "off" /\ worker \in Worker
  BY NoWorkerTyped DEF Init, Workers
<1>6. call \in Calls /\ stopper \in Stopper
  BY DEF Init, NoCall, Calls, Phases, Answers, NoStopper, Stopper
<1>7. [rows |-> call.rows, phase |-> call.phase, fields |-> call.fields] \in Call /\ call.answer \in Answers
  BY <1>6 DEF Calls, Call
<1>8. reading \subseteq Reviewed /\ Cardinality(reading) <= 1
  BY FS_EmptySet DEF Init
<1>9. TypeOK
  BY <1>1, <1>2, <1>3, <1>5, <1>6, <1>7, <1>8, FreshTyped
     DEF Init, TypeOK, RunStatuses, Phases
<1> QED BY <1>1, <1>4, <1>5, <1>6, <1>9 DEF Typed, Creating

LEMMA NextTyped ==
  ASSUME Typed, [Next]_vars
  PROVE  Typed'
<1>1. CASE UNCHANGED vars
  BY <1>1 DEF vars, past, compared, rowsVars, odoo, Typed, TypeOK, PlanShape, Creating, Workers,
              Calls, Call, Reviewed, Deferred, fields
<1>2. CASE Next
  BY <1>2, StartTyped, WorkTyped, SettleTyped, StopTyped, AssessTyped, CrashTyped, CompareTyped,
     OdooTyped DEF Next
<1> QED BY <1>1, <1>2

(* Every state of the service's loads is of its declared types, and only   *)
(* what the comparison calls new is ever in a batch of creates.            *)
THEOREM LoadTypes == Spec => []TypeOK
<1>1. Spec => []Typed
  BY InitTyped, NextTyped, PTL DEF Spec
<1>2. Typed => TypeOK
  BY DEF Typed
<1> QED BY <1>1, <1>2, PTL

---------------------------------------------------------------------------
(* The flow of a load.                                                     *)

(* The sets of rows that the flow is stated with.                          *)
LEMMA RowSets ==
  ASSUME NEW rows \in Rowed
  PROVE  /\ With(rows, {"IN_FLIGHT"}) = {r \in Rows : rows[r] = "IN_FLIGHT"}
         /\ With(rows, {"OUTCOME_UNKNOWN"}) = {r \in Rows : rows[r] = "OUTCOME_UNKNOWN"}
         /\ With(rows, {"FAILED"}) = {r \in Rows : rows[r] = "FAILED"}
         /\ With(rows, {"COMMITTED"}) = {r \in Rows : rows[r] = "COMMITTED"}
         /\ With(rows, Unattempted) = {r \in Rows : rows[r] \in Unattempted}
         /\ With(rows, Unattempted \cup {"IN_FLIGHT"}) =
              {r \in Rows : rows[r] \in Unattempted \cup {"IN_FLIGHT"}}
         /\ With(rows, {"IN_FLIGHT", "OUTCOME_UNKNOWN"}) =
              {r \in Rows : rows[r] \in {"IN_FLIGHT", "OUTCOME_UNKNOWN"}}
BY DEF With, Rowed

LEMMA FlowKept ==
  ASSUME Flows, UNCHANGED <<plan, run, policy, journal, control>>
  PROVE  BudgetPauses' /\ FinishedIsSettled' /\ InFlight' = InFlight /\ (Bad' <=> Bad)
BY DEF Flows, BudgetPauses, FinishedIsSettled, InFlight, Bad, With

LEMMA WalkFlows ==
  ASSUME Typed, Flows, Walk
  PROVE  Flows'
<1>1. /\ UNCHANGED <<past, plan, run, policy, journal, flight, control, seen, stopper, call>>
      /\ Onward(worker') /\ (worker'.pc = "finish" => With(seen, Unattempted) = {})
  BY DEF Walk, Idle, past, rowsVars
<1>2. BudgetPauses' /\ FinishedIsSettled' /\ InFlight' = InFlight /\ (Bad' <=> Bad)
  BY <1>1, FlowKept
<1>3. CallsFollow'
  BY <1>1, <1>2 DEF Flows, CallsFollow, Onward
<1>4. CopyFollows'
  BY <1>1 DEF Flows, CopyFollows, Onward, With, RowsOf
<1>5. StopsFollow'
  BY <1>1, <1>2 DEF Flows, StopsFollow, Onward, Ceased
<1> QED BY <1>2, <1>3, <1>4, <1>5 DEF Flows

BlocksRows(S, T) ==
  /\ \A r \in T : journal[r] \in Unattempted
  /\ T = {} \/ run = "RUNNING"
  /\ journal' = [r \in Rows |-> IF r \in T THEN "BLOCKED" ELSE journal[r]]
  /\ seen' = [r \in Rows |-> IF r \in T THEN "BLOCKED" ELSE seen[r]]
  /\ worker' # NoWorker => T = S

LEMMA BlockedRows ==
  ASSUME Typed, NEW S \in SUBSET Rows, NEW then, Block(S, then)
  PROVE  /\ worker' = then \/ worker' = NoWorker
         /\ \E T \in SUBSET Rows : BlocksRows(S, T)
<1>1. journal \in Rowed /\ seen \in Rowed
  BY TypeParts
<1>2. CASE S = {} \/ MayBlock(S)
  <2>1. /\ journal' = Marked(journal, S, "BLOCKED") /\ seen' = Marked(seen, S, "BLOCKED")
        /\ worker' = then
    BY <1>2 DEF Block
  <2>2. S = {} \/ (run = "RUNNING" /\ \A r \in S : journal[r] \in Unattempted)
    BY <1>2 DEF MayBlock, With
  <2>3. BlocksRows(S, S)
    BY <2>1, <2>2 DEF Marked, BlocksRows
  <2> QED BY <2>1, <2>3
<1>3. CASE ~(S = {} \/ MayBlock(S))
  <2>1. UNCHANGED <<journal, seen>> /\ worker' = NoWorker
    BY <1>3 DEF Block
  <2>2. /\ journal' = [r \in Rows |-> IF r \in {} THEN "BLOCKED" ELSE journal[r]]
        /\ seen' = [r \in Rows |-> IF r \in {} THEN "BLOCKED" ELSE seen[r]]
    BY <2>1, <1>1 DEF Rowed
  <2>3. BlocksRows(S, {})
    BY <2>1, <2>2 DEF BlocksRows
  <2> QED BY <2>1, <2>3
<1> QED BY <1>2, <1>3

(* Blocking rows that nobody has sent disturbs none of the sets.           *)
LEMMA BlockingKeeps ==
  ASSUME Typed, Typed', Flows, UNCHANGED <<plan, run, policy, control>>,
         NEW T \in SUBSET Rows, \A r \in T : journal[r] \in Unattempted,
         T = {} \/ run = "RUNNING",
         journal' = [r \in Rows |-> IF r \in T THEN "BLOCKED" ELSE journal[r]]
  PROVE  /\ BudgetPauses' /\ FinishedIsSettled' /\ InFlight' = InFlight /\ (Bad' <=> Bad)
         /\ run # "NONE" => \A r \in Rows : journal'[r] = "NONE" <=> r \notin RowsOf(plan)
<1>1. journal \in Rowed /\ journal' \in Rowed
  <2>1. journal' \in Rowed
    BY DEF Typed, TypeOK, Rowed
  <2> QED BY <2>1, TypeParts
<1>2. /\ With(journal', {"IN_FLIGHT"}) = With(journal, {"IN_FLIGHT"})
      /\ With(journal', {"OUTCOME_UNKNOWN"}) = With(journal, {"OUTCOME_UNKNOWN"})
      /\ With(journal', {"FAILED"}) = With(journal, {"FAILED"})
      /\ With(journal', {"IN_FLIGHT", "OUTCOME_UNKNOWN"}) = With(journal, {"IN_FLIGHT", "OUTCOME_UNKNOWN"})
  <2>1. \A r \in Rows : \/ journal'[r] = journal[r]
                        \/ journal'[r] = "BLOCKED" /\ journal[r] \in {"PLANNED", "RETRY_READY"}
    BY DEF Unattempted
  <2>2. ASSUME NEW kind \in {{"IN_FLIGHT"}, {"OUTCOME_UNKNOWN"}, {"FAILED"}, {"IN_FLIGHT", "OUTCOME_UNKNOWN"}}
        PROVE  With(journal', kind) = With(journal, kind)
    <3>1. \A r \in Rows : journal'[r] \in kind <=> journal[r] \in kind
      BY <2>1
    <3>2. /\ With(journal', kind) = {r \in Rows : journal'[r] \in kind}
          /\ With(journal, kind) = {r \in Rows : journal[r] \in kind}
      <4> HIDE DEF Rowed
      <4> QED BY <1>1, WithRows
    <3> QED BY <3>1, <3>2
  <2> QED BY <2>2
<1>3. InFlight' = InFlight /\ (Bad' <=> Bad)
  BY <1>2 DEF InFlight, Bad
<1>4. BudgetPauses'
  BY <1>2 DEF Flows, BudgetPauses
<1>5. FinishedIsSettled'
  <2>1. CASE T = {}
    <3>1. journal' = journal
      BY <2>1, <1>1 DEF Rowed
    <3> QED BY <3>1, FlowKept
  <2>2. CASE run = "RUNNING"
    BY <2>2 DEF FinishedIsSettled
  <2> QED BY <2>1, <2>2
<1>6. run # "NONE" => \A r \in Rows : journal'[r] = "NONE" <=> r \notin RowsOf(plan)
  BY DEF Flows, CopyFollows, Unattempted
<1> QED BY <1>3, <1>4, <1>5, <1>6

LEMMA BlocksFlows ==
  ASSUME Typed, Typed', Flows, Blocks
  PROVE  Flows'
<1>1. PICK S \in SUBSET Rows, then \in Worker :
        /\ Onward(then) /\ Block(S, then)
        /\ then.pc = "finish" => With(seen, Unattempted) \subseteq S
  BY DEF Blocks
<1>2. /\ UNCHANGED <<plan, run, policy, flight, control, stopper, call>>
  BY <1>1 DEF Block, past
<1>3. /\ worker' = then \/ worker' = NoWorker
      /\ \E T \in SUBSET Rows : BlocksRows(S, T)
  BY <1>1, BlockedRows
<1>4. PICK T \in SUBSET Rows :
           /\ \A r \in T : journal[r] \in Unattempted
           /\ T = {} \/ run = "RUNNING"
           /\ journal' = [r \in Rows |-> IF r \in T THEN "BLOCKED" ELSE journal[r]]
           /\ seen' = [r \in Rows |-> IF r \in T THEN "BLOCKED" ELSE seen[r]]
           /\ worker' # NoWorker => T = S
  BY <1>3 DEF BlocksRows
<1>5. /\ BudgetPauses' /\ FinishedIsSettled' /\ InFlight' = InFlight /\ (Bad' <=> Bad)
      /\ run # "NONE" => \A r \in Rows : journal'[r] = "NONE" <=> r \notin RowsOf(plan)
  BY <1>2, <1>4, BlockingKeeps
<1>6. /\ worker.pc \notin {"off", "wait", "recover", "continue"}
      /\ worker'.pc \notin {"wait", "recover", "continue"}
      /\ worker'.pc \in Sending => worker.pc \in Sending /\ (Ceased(worker) => Ceased(worker'))
      /\ worker'.pc = "finish" => With(seen, Unattempted) \subseteq T
  BY <1>1, <1>3, <1>4, NoWorkerTyped DEF Onward, Sending
<1>7. CallsFollow'
  BY <1>2, <1>5, <1>6 DEF Flows, CallsFollow
<1>8. CopyFollows'
  <2>1. seen \in Rowed /\ seen' \in Rowed
    BY <1>4, TypeParts DEF Typed, TypeOK, Rowed
  <2>2. \A r \in Rows : seen[r] = journal[r] \/ (seen[r] \in Unattempted /\ journal[r] = "BLOCKED")
    BY <1>6 DEF Flows, CopyFollows
  <2>3. \A r \in Rows : seen'[r] = journal'[r] \/ (seen'[r] \in Unattempted /\ journal'[r] = "BLOCKED")
    BY <2>2, <1>4
  <2>4. worker'.pc = "finish" => With(seen', Unattempted) = {}
    BY <2>1, <1>4, <1>6, RowSets DEF Unattempted
  <2>5. worker.pc # "off" /\ run # "NONE"
    BY <1>6 DEF Flows, CopyFollows
  <2> QED BY <2>3, <2>4, <2>5, <1>2, <1>5, <1>6 DEF CopyFollows, RowsOf
<1>9. StopsFollow'
  BY <1>2, <1>5, <1>6 DEF Flows, StopsFollow, Ceased
<1> QED BY <1>5, <1>7, <1>8, <1>9 DEF Flows

(* A call that leaves.                                                     *)
Departs(S, phase) ==
  /\ UNCHANGED <<past, run, policy, stopper, odoo, crashes>>
  /\ run = "RUNNING" /\ control.state = "RUNNING"
  /\ worker.pc \in Sending /\ ~Ceased(worker)
  /\ \A r \in S : journal[r] \in Expected(phase)
  /\ phase = "CREATE" => S \subseteq plan.creates
  /\ phase = "UPDATE" => S \subseteq plan.updates
  /\ journal' = [r \in Rows |-> IF r \in S THEN "IN_FLIGHT" ELSE journal[r]]
  /\ seen' = [r \in Rows |-> IF r \in S THEN "IN_FLIGHT" ELSE seen[r]]
  /\ flight' = phase
  /\ \/ control' = control
     \/ S # {} /\ control.calls < IsolationLimit /\ control' = [control EXCEPT !.calls = @ + 1]
  /\ call' = [rows |-> S, phase |-> phase, answer |-> "none",
              fields |-> UNION {Sent(r, phase) : r \in S}]
  /\ worker' = [worker EXCEPT !.pc = "wait"]

LEMMA BeginShape ==
  ASSUME Typed, Begins
  PROVE  Walk \/ \E S \in SUBSET Rows, phase \in Phases : Departs(S, phase)
<1>1. PICK S \in SUBSET Rows, phase \in Phases :
        /\ Begin(S, phase) /\ worker.pc \in Sending /\ ~Ceased(worker)
        /\ phase = "CREATE" => worker.batches # <<>> /\ S \subseteq plan.creates
        /\ phase = "UPDATE" => S \subseteq plan.updates
  BY DEF Begins
<1> DEFINE isolation == S \cap isolating # {}
<1>2. UNCHANGED <<past, run, policy, stopper, odoo, crashes>>
  BY <1>1 DEF Begin
<1>3. CASE \/ run # "RUNNING"
           \/ control.state = "RUNNING" /\ ~(S \subseteq With(journal, Expected(phase)))
  <2>1. worker' = NoWorker /\ UNCHANGED <<rowsVars, seen, control, call>>
    BY <1>1, <1>3 DEF Begin
  <2>2. Idle
    BY <1>2, <2>1 DEF Idle
  <2>3. worker.pc \notin {"off", "wait", "recover", "continue"}
    BY <1>1 DEF Sending
  <2>4. Onward(worker') /\ worker'.pc # "finish"
    BY <2>1, <2>3, GoneOnward
  <2> QED BY <2>2, <2>4 DEF Walk
<1>4. CASE /\ run = "RUNNING"
           /\ ~(control.state = "RUNNING" /\ ~(S \subseteq With(journal, Expected(phase))))
           /\ control.state # "RUNNING" \/ (isolation /\ control.calls >= IsolationLimit)
  <2>1. worker' = [worker EXCEPT !.pc = "halted"] /\ UNCHANGED <<rowsVars, seen, control, call>>
    BY <1>1, <1>4 DEF Begin
  <2>2. Idle
    BY <1>2, <2>1 DEF Idle
  <2>3. worker.pc \notin {"off", "wait", "recover", "continue"} /\ "halted" \notin Sending
    BY <1>1 DEF Sending
  <2>4. Onward(worker') /\ worker'.pc = "halted"
    BY <2>1, <2>3, GoOnward
  <2> QED BY <2>2, <2>4 DEF Walk
<1>5. CASE /\ run = "RUNNING" /\ control.state = "RUNNING"
           /\ S \subseteq With(journal, Expected(phase))
           /\ ~(isolation /\ control.calls >= IsolationLimit)
  <2>1. /\ journal' = Marked(journal, S, "IN_FLIGHT")
        /\ seen' = Marked(seen, S, "IN_FLIGHT")
        /\ flight' = phase
        /\ control' = (IF isolation THEN [control EXCEPT !.calls = @ + 1] ELSE control)
        /\ call' = [rows |-> S, phase |-> phase, answer |-> "none",
                    fields |-> UNION {Sent(r, phase) : r \in S}]
        /\ worker' = [worker EXCEPT !.pc = "wait"]
    BY <1>1, <1>5 DEF Begin
  <2>2. \/ control' = control
        \/ S # {} /\ control.calls < IsolationLimit /\ control' = [control EXCEPT !.calls = @ + 1]
    <3>1. control.calls \in Nat /\ IsolationLimit \in Nat
      BY TypeParts, LimitsAssumption DEF Control
    <3>2. isolation => control.calls < IsolationLimit
      BY <3>1, <1>5
    <3> QED BY <3>2, <2>1
  <2>3. \A r \in S : journal[r] \in Expected(phase)
    BY <1>5 DEF With
  <2> HIDE DEF isolation
  <2>4. Departs(S, phase)
    BY <1>1, <1>2, <1>5, <2>1, <2>2, <2>3 DEF Departs, Marked
  <2> QED BY <2>4
<1> QED BY <1>3, <1>4, <1>5

LEMMA DepartsFlows ==
  ASSUME Typed, Typed', Flows,
         NEW S \in SUBSET Rows, NEW phase \in Phases, Departs(S, phase)
  PROVE  Flows'
<1>1. /\ UNCHANGED <<plan, run, policy>> /\ run = "RUNNING" /\ control.state = "RUNNING"
      /\ worker.pc \in Sending /\ ~Ceased(worker)
      /\ \A r \in S : journal[r] \in Expected(phase)
      /\ journal' = [r \in Rows |-> IF r \in S THEN "IN_FLIGHT" ELSE journal[r]]
      /\ seen' = [r \in Rows |-> IF r \in S THEN "IN_FLIGHT" ELSE seen[r]]
      /\ flight' = phase
      /\ \/ control' = control
         \/ S # {} /\ control.calls < IsolationLimit /\ control' = [control EXCEPT !.calls = @ + 1]
      /\ call'.rows = S /\ call'.phase = phase /\ call'.answer = "none"
      /\ worker' = [worker EXCEPT !.pc = "wait"]
  BY DEF Departs, past
<1>2. journal \in Rowed /\ journal' \in Rowed /\ seen \in Rowed
  <2>1. journal' \in Rowed
    BY DEF Typed, TypeOK, Rowed
  <2> QED BY <2>1, TypeParts
<1>3. worker'.pc = "wait" /\ worker.pc \notin {"off", "recover", "wait"}
  BY <1>1, TypeParts DEF Worker, Sending
<1>4. ~Bad /\ InFlight = {}
  BY <1>1, <1>3 DEF Flows, StopsFollow, CallsFollow
<1>5. \A r \in S : journal[r] \in {"PLANNED", "RETRY_READY", "PARTIALLY_APPLIED"}
  BY <1>1 DEF Expected, Unattempted
<1>6. InFlight' = S
  <2>1. \A r \in Rows : journal[r] # "IN_FLIGHT"
    BY <1>4, <1>2, RowSets DEF InFlight
  <2>2. InFlight' = {r \in Rows : journal'[r] = "IN_FLIGHT"}
    BY <1>2, RowSets DEF InFlight
  <2>3. {r \in Rows : journal'[r] = "IN_FLIGHT"} = S
    BY <2>1, <1>1
  <2> QED BY <2>2, <2>3
<1>7. ~Bad'
  <2>1. ASSUME NEW status \in {"OUTCOME_UNKNOWN", "FAILED"}, NEW r \in Rows, journal'[r] = status
        PROVE  journal[r] = status
    BY <2>1, <1>1
  <2> QED BY <2>1, <1>1, <1>2, <1>4, RowSets DEF Bad
<1>8. CallsFollow'
  BY <1>1, <1>3, <1>6 DEF CallsFollow
<1>9. CopyFollows'
  <2>1. \A r \in Rows : seen[r] = journal[r] \/ (seen[r] \in Unattempted /\ journal[r] = "BLOCKED")
    BY <1>3 DEF Flows, CopyFollows
  <2>2. \A r \in Rows : seen'[r] = journal'[r] \/ (seen'[r] \in Unattempted /\ journal'[r] = "BLOCKED")
    BY <2>1, <1>1
  <2>3. \A r \in Rows : journal'[r] = "NONE" <=> r \notin RowsOf(plan)
    BY <1>1, <1>5 DEF Flows, CopyFollows
  <2> QED BY <2>2, <2>3, <1>1, <1>3 DEF CopyFollows, RowsOf
<1>10. control.calls \in Nat /\ IsolationLimit \in Nat /\ control \in Control
  BY TypeParts, LimitsAssumption DEF Control
<1>11. /\ control'.state = "RUNNING" /\ control'.streak = control.streak
       /\ control'.calls = control.calls \/ (S # {} /\ control'.calls = control.calls + 1 /\ control.calls < IsolationLimit)
  BY <1>1, <1>10 DEF Control
<1>12. StopsFollow'
  BY <1>3, <1>7, <1>11 DEF StopsFollow, Sending
<1>13. BudgetPauses'
  <2>1. control'.calls <= IsolationLimit
    BY <1>10, <1>11 DEF Flows, BudgetPauses
  <2>2. policy = "CONTINUE" => \A q \in Phases : control'.streak[q] < ConsecutiveLimit
    BY <1>1, <1>11 DEF Flows, BudgetPauses
  <2>3. ASSUME policy = "CONTINUE", control'.calls = IsolationLimit
        PROVE  With(journal', {"IN_FLIGHT", "OUTCOME_UNKNOWN"}) # {}
    <3>1. CASE S # {}
      BY <3>1, <1>1, <1>2, RowSets
    <3>2. CASE S = {}
      <4>1. control.calls = IsolationLimit
        BY <3>2, <2>3, <1>11
      <4>2. With(journal, {"IN_FLIGHT", "OUTCOME_UNKNOWN"}) # {}
        BY <4>1, <2>3, <1>1 DEF Flows, BudgetPauses
      <4>3. journal' = journal
        BY <3>2, <1>1, <1>2 DEF Rowed
      <4> QED BY <4>2, <4>3
    <3> QED BY <3>1, <3>2
  <2> QED BY <2>1, <2>2, <2>3, <1>1, <1>11 DEF BudgetPauses
<1>14. FinishedIsSettled'
  BY <1>1 DEF FinishedIsSettled
<1> QED BY <1>8, <1>9, <1>12, <1>13, <1>14 DEF Flows

LEMMA FlowsSame ==
  ASSUME Flows, UNCHANGED <<plan, run, policy, journal, flight, control, worker, seen, call>>
  PROVE  Flows'
<1>1. BudgetPauses' /\ FinishedIsSettled' /\ InFlight' = InFlight /\ (Bad' <=> Bad)
  BY FlowKept
<1>2. CallsFollow' /\ StopsFollow'
  BY <1>1 DEF Flows, CallsFollow, StopsFollow, Ceased
<1>3. CopyFollows'
  BY DEF Flows, CopyFollows, RowsOf, With
<1> QED BY <1>1, <1>2, <1>3 DEF Flows

(* A run that may finish has nothing in flight.                            *)
LEMMA RunEnds ==
  ASSUME Typed, Flows, MayFinish, UNCHANGED <<plan, policy, journal, flight, seen, call>>,
         worker' = worker \/ (worker' = NoWorker /\ worker.pc \in {"finish", "finish stopped"}),
         run' \notin {"NONE", "RUNNING", "CLOSED"},
         control'.calls = control.calls, control'.streak = control.streak,
         control'.state \in {"STOPPED", "FINISHED"},
         run' = "COMPLETED" => With(journal, {"COMMITTED"}) = RowsOf(plan)
  PROVE  Flows'
<1>1. With(journal, Unattempted \cup {"IN_FLIGHT"}) = {} /\ run = "RUNNING"
  BY DEF MayFinish
<1>2. InFlight = {}
  BY <1>1 DEF InFlight, With
<1>3. call.rows = {}
  BY <1>2 DEF Flows, CallsFollow
<1>4. InFlight' = InFlight /\ (Bad' <=> Bad)
  BY DEF InFlight, Bad, With
<1>5. CallsFollow'
  BY <1>2, <1>3, <1>4, NoWorkerTyped DEF Flows, CallsFollow
<1>6. CopyFollows'
  <2>1. \A r \in Rows : journal[r] = "NONE" <=> r \notin RowsOf(plan)
    BY <1>1 DEF Flows, CopyFollows
  <2>2. CASE worker' = worker
    BY <2>1, <2>2, <1>1 DEF Flows, CopyFollows, RowsOf, With
  <2>3. CASE worker' = NoWorker
    BY <2>1, <2>3, NoWorkerTyped DEF CopyFollows, RowsOf
  <2> QED BY <2>2, <2>3
<1>7. StopsFollow'
  BY <1>4, NoWorkerTyped DEF Flows, StopsFollow, Ceased, Sending
<1>8. BudgetPauses'
  BY DEF Flows, BudgetPauses
<1>9. FinishedIsSettled'
  BY <1>1 DEF FinishedIsSettled, With, RowsOf
<1> QED BY <1>5, <1>6, <1>7, <1>8, <1>9 DEF Flows

LEMMA FinishesFlows ==
  ASSUME Typed, Flows, Finishes
  PROVE  Flows'
<1>1. /\ worker.pc \in {"finish", "finish stopped"} /\ worker' = NoWorker
      /\ UNCHANGED <<past, policy, rowsVars, seen, stopper, odoo, call, crashes>>
  BY DEF Finishes
<1>2. PICK status \in RunStatuses \ {"NONE", "RUNNING", "CLOSED"} :
        /\ FinishRun(status)
        /\ status = "COMPLETED" =>
             /\ worker.pc = "finish"
             /\ With(seen, {"OUTCOME_UNKNOWN", "PARTIALLY_APPLIED", "FAILED", "BLOCKED"}) = {}
  BY DEF Finishes
<1>3. CASE UNCHANGED <<run, control>>
  <2>1. Idle
    BY <1>1, <1>3 DEF Idle
  <2>2. Onward(worker') /\ worker'.pc = "off"
    BY <1>1, GoneOnward
  <2> QED BY <2>1, <2>2, WalkFlows DEF Walk
<1>4. CASE MayFinish /\ run' = status /\ control'.calls = control.calls
           /\ control'.streak = control.streak /\ control'.state \in {"STOPPED", "FINISHED"}
  <2>1. ASSUME status = "COMPLETED"
        PROVE  With(journal, {"COMMITTED"}) = RowsOf(plan)
    <3>1. journal \in Rowed /\ seen \in Rowed /\ RowsOf(plan) \subseteq Rows
      BY TypeParts DEF Typed, PlanShape, RowsOf
    <3>2. /\ \A r \in Rows : seen[r] \notin {"OUTCOME_UNKNOWN", "PARTIALLY_APPLIED", "FAILED", "BLOCKED"}
          /\ \A r \in Rows : seen[r] \notin Unattempted
          /\ \A r \in Rows : journal[r] # "IN_FLIGHT"
      <4>1. /\ With(seen, {"OUTCOME_UNKNOWN", "PARTIALLY_APPLIED", "FAILED", "BLOCKED"}) = {}
            /\ With(seen, Unattempted) = {}
            /\ With(journal, Unattempted \cup {"IN_FLIGHT"}) = {}
        BY <1>2, <1>4, <2>1 DEF Flows, CopyFollows, MayFinish
      <4> QED BY <3>1, <4>1 DEF With, Rowed
    <3>3. \A r \in Rows : seen[r] = journal[r]
      BY <1>2, <2>1, <3>2 DEF Flows, CopyFollows
    <3>4. \A r \in Rows : journal[r] \in {"COMMITTED", "NONE"}
      BY <3>1, <3>2, <3>3 DEF Rowed, Statuses, Created, Unattempted
    <3>5. \A r \in Rows : journal[r] = "NONE" <=> r \notin RowsOf(plan)
      BY <1>4 DEF Flows, CopyFollows, MayFinish
    <3>6. With(journal, {"COMMITTED"}) = {r \in Rows : journal[r] = "COMMITTED"}
      BY <3>1, RowSets
    <3> QED BY <3>1, <3>4, <3>5, <3>6
  <2>2. UNCHANGED <<plan, policy, journal, flight, seen, call>>
    BY <1>1 DEF past, rowsVars
  <2> QED BY <1>1, <1>2, <1>4, <2>1, <2>2, RunEnds
<1> QED BY <1>2, <1>3, <1>4, FinishFacts

LEMMA StopsFlows ==
  ASSUME Typed, Typed', Flows, RequestStop \/ Stopping
  PROVE  Flows'
<1>1. CASE RequestStop
  <2>1. /\ UNCHANGED <<plan, run, policy, journal, flight, worker, seen, call>> /\ run = "RUNNING"
        /\ control' = [control EXCEPT !.state = "STOP_REQUESTED"]
    BY <1>1 DEF RequestStop, past, rowsVars
  <2>2. /\ control'.state = "STOP_REQUESTED" /\ control'.calls = control.calls
        /\ control'.streak = control.streak
    BY <2>1, TypeParts DEF Control
  <2>3. InFlight' = InFlight /\ (Bad' <=> Bad)
    BY <2>1 DEF InFlight, Bad, With
  <2>4. CallsFollow' /\ StopsFollow'
    BY <2>1, <2>2, <2>3 DEF Flows, CallsFollow, StopsFollow, Ceased
  <2>5. CopyFollows'
    BY <2>1 DEF Flows, CopyFollows, RowsOf, With
  <2>6. BudgetPauses' /\ FinishedIsSettled'
    BY <2>1, <2>2 DEF Flows, BudgetPauses, FinishedIsSettled
  <2> QED BY <2>4, <2>5, <2>6 DEF Flows
<1>2. CASE StopRead
  BY <1>2, FlowsSame DEF StopRead, past, rowsVars
<1>3. CASE StopBlock
  <2>1. UNCHANGED <<plan, run, policy, flight, control, worker, seen, call>>
    BY <1>3 DEF StopBlock, past
  <2>2. CASE UNCHANGED journal
    BY <2>1, <2>2, FlowsSame
  <2>3. CASE /\ stopper.rows = {} \/ MayBlock(stopper.rows)
             /\ journal' = Marked(journal, stopper.rows, "BLOCKED")
    <3> DEFINE T == stopper.rows
    <3>1. /\ T \in SUBSET Rows
          /\ T = {} \/ run = "RUNNING"
          /\ \A r \in T : journal[r] \in Unattempted
          /\ journal' = [r \in Rows |-> IF r \in T THEN "BLOCKED" ELSE journal[r]]
      BY <2>3, TypeParts DEF MayBlock, With, Marked, Stopper
    <3> HIDE DEF T
    <3>2. /\ BudgetPauses' /\ FinishedIsSettled' /\ InFlight' = InFlight /\ (Bad' <=> Bad)
          /\ run # "NONE" => \A r \in Rows : journal'[r] = "NONE" <=> r \notin RowsOf(plan)
      BY <3>1, <2>1, BlockingKeeps
    <3>3. CallsFollow' /\ StopsFollow'
      BY <2>1, <3>2 DEF Flows, CallsFollow, StopsFollow, Ceased
    <3>4. CopyFollows'
      <4>1. ASSUME worker.pc \notin {"off", "recover"}, NEW r \in Rows
            PROVE  seen[r] = journal'[r] \/ (seen[r] \in Unattempted /\ journal'[r] = "BLOCKED")
        <5>1. seen[r] = journal[r] \/ (seen[r] \in Unattempted /\ journal[r] = "BLOCKED")
          BY <4>1 DEF Flows, CopyFollows
        <5> QED BY <5>1, <3>1 DEF Unattempted
      <4> QED BY <4>1, <2>1, <3>2 DEF Flows, CopyFollows, RowsOf, With
    <3> QED BY <3>2, <3>3, <3>4 DEF Flows
  <2> QED BY <1>3, <2>2, <2>3 DEF StopBlock
<1>4. CASE StopFinish
  <2>1. UNCHANGED <<plan, policy, journal, flight, worker, seen, call>>
    BY <1>4 DEF StopFinish, past, rowsVars
  <2>2. FinishRun("COMPLETED_WITH_ERRORS") /\ "COMPLETED_WITH_ERRORS" \in RunStatuses
    BY <1>4 DEF StopFinish, RunStatuses
  <2>3. CASE UNCHANGED <<run, control>>
    BY <2>1, <2>3, FlowsSame
  <2>4. CASE MayFinish /\ run' = "COMPLETED_WITH_ERRORS" /\ control'.calls = control.calls
             /\ control'.streak = control.streak /\ control'.state \in {"STOPPED", "FINISHED"}
    BY <2>1, <2>4, RunEnds
  <2> QED BY <2>2, <2>3, <2>4, FinishFacts
<1> QED BY <1>1, <1>2, <1>3, <1>4 DEF Stopping

(* A settled control keeps the budgets.                                    *)
LEMMA SettledBudget ==
  ASSUME Typed, Flows, policy' = policy, With(journal, {"IN_FLIGHT"})' = {},
         NEW phase \in Phases, NEW n \in Nat, NEW rejected \in BOOLEAN,
         control' = Settled(control, phase, n, rejected)
  PROVE  BudgetPauses' /\ (control'.state \in {"STOPPED", "FINISHED"} => control.state = control'.state)
<1>1. control \in Control /\ control.calls \in Nat /\ IsolationLimit \in Nat
  BY TypeParts, LimitsAssumption DEF Control
<1>2. /\ control' \in Control
      /\ control'.state # control.state =>
           control.state \in {"RUNNING", "PAUSED"} /\ control'.state = "PAUSED"
      /\ control'.calls <= control.calls
      /\ control'.state = "RUNNING" /\ policy = "CONTINUE" =>
           /\ control'.calls < IsolationLimit
           /\ (\A q \in Phases : control.streak[q] < ConsecutiveLimit) =>
                \A q \in Phases : control'.streak[q] < ConsecutiveLimit
  BY <1>1, SettledFacts
<1>3. control'.calls \in Nat
  BY <1>2 DEF Control
<1>4. control.calls <= IsolationLimit
  BY DEF Flows, BudgetPauses
<1>5. control'.calls <= IsolationLimit
  BY <1>1, <1>2, <1>3, <1>4
<1>6. ASSUME control'.state = "RUNNING", policy = "CONTINUE"
      PROVE  /\ \A q \in Phases : control'.streak[q] < ConsecutiveLimit
             /\ control'.calls # IsolationLimit
  <2>1. control.state = "RUNNING"
    BY <1>2, <1>6
  <2>2. \A q \in Phases : control.streak[q] < ConsecutiveLimit
    BY <2>1, <1>6 DEF Flows, BudgetPauses
  <2> QED BY <2>2, <1>1, <1>2, <1>3, <1>6
<1> QED BY <1>2, <1>5, <1>6 DEF BudgetPauses

LEMMA SettledFlows ==
  ASSUME Typed, Typed', Flows, worker.pc = "wait",
         NEW status \in [Rows -> Statuses], SettledAs(status),
         \A r \in Rows : status[r] # "IN_FLIGHT",
         (\E r \in Rows : status[r] = "OUTCOME_UNKNOWN" \/ (status[r] = "FAILED" /\ policy = "STOP"))
           => Ceased(worker')
  PROVE  CallsFollow' /\ CopyFollows' /\ FinishedIsSettled' /\ InFlight' = {}
         /\ (Bad' => Ceased(worker')) /\ worker'.pc \notin {"wait", "continue"}
<1>1. /\ UNCHANGED <<plan, run, policy, flight>>
      /\ journal' = [r \in Rows |-> IF r \in call.rows THEN status[r] ELSE journal[r]]
      /\ seen' = [r \in Rows |-> IF r \in call.rows THEN status[r] ELSE seen[r]]
      /\ call' = NoCall /\ worker'.pc \in Sending
  BY DEF SettledAs, past
<1>2. journal \in Rowed /\ journal' \in Rowed /\ seen \in Rowed
  <2>1. journal' \in Rowed
    BY DEF Typed, TypeOK, Rowed
  <2> QED BY <2>1, TypeParts
<1>3. \A r \in Rows : journal[r] = "IN_FLIGHT" <=> r \in call.rows
  <2>1. InFlight = call.rows /\ call.rows \subseteq Rows
    BY TypeParts DEF Flows, CallsFollow, Calls
  <2> QED BY <2>1, <1>2, RowSets DEF InFlight
<1>4. InFlight' = {}
  <2>1. \A r \in Rows : journal'[r] # "IN_FLIGHT"
    BY <1>1, <1>3
  <2> QED BY <2>1, <1>2, RowSets DEF InFlight
<1>5. NoCall.rows = {} /\ NoCall.answer = "none"
  BY DEF NoCall
<1>6. CallsFollow'
  BY <1>1, <1>4, <1>5 DEF CallsFollow, Sending
<1>7. worker.pc # "off" /\ run # "NONE"
  BY DEF Flows, CopyFollows
<1>8. CopyFollows'
  <2>1. \A r \in Rows : seen[r] = journal[r] \/ (seen[r] \in Unattempted /\ journal[r] = "BLOCKED")
    BY DEF Flows, CopyFollows
  <2>2. \A r \in Rows : seen'[r] = journal'[r] \/ (seen'[r] \in Unattempted /\ journal'[r] = "BLOCKED")
    BY <2>1, <1>1
  <2>3. \A r \in Rows : status[r] # "NONE"
    BY DEF Statuses, Created, Unattempted
  <2>4. \A r \in Rows : journal[r] = "NONE" <=> r \notin RowsOf(plan)
    BY <1>7 DEF Flows, CopyFollows
  <2>5. \A r \in Rows : journal'[r] = "NONE" <=> r \notin RowsOf(plan)
    <3> TAKE r \in Rows
    <3>1. CASE r \in call.rows
      BY <3>1, <2>3, <2>4, <1>1, <1>3
    <3>2. CASE r \notin call.rows
      BY <3>2, <2>4, <1>1
    <3> QED BY <3>1, <3>2
  <2> QED BY <2>2, <2>5, <1>1, <1>7 DEF CopyFollows, RowsOf, Sending
<1>9. FinishedIsSettled'
  <2>1. CASE call.rows = {}
    <3>1. journal' = journal
      BY <2>1, <1>1, <1>2 DEF Rowed
    <3> QED BY <3>1, <1>1 DEF Flows, FinishedIsSettled, With, RowsOf
  <2>2. CASE call.rows # {}
    BY <2>2, <1>1 DEF Flows, CallsFollow, FinishedIsSettled
  <2> QED BY <2>1, <2>2
<1>10. ASSUME Bad'
       PROVE  Ceased(worker')
  <2>1. ~Bad
    BY DEF Flows, StopsFollow
  <2>2. PICK r \in Rows : journal'[r] = "OUTCOME_UNKNOWN" \/ (journal'[r] = "FAILED" /\ policy = "STOP")
    BY <1>10, <1>1, <1>2, RowSets DEF Bad
  <2>3. ~(journal[r] = "OUTCOME_UNKNOWN" \/ (journal[r] = "FAILED" /\ policy = "STOP"))
    BY <2>1, <1>2, RowSets DEF Bad
  <2>4. r \in call.rows /\ journal'[r] = status[r]
    BY <2>2, <2>3, <1>1
  <2> QED BY <2>2, <2>4
<1> QED BY <1>1, <1>4, <1>6, <1>8, <1>9, <1>10 DEF Sending

LEMMA StatusesOf ==
  /\ AsWritten \in [Rows -> Statuses] /\ \A r \in Rows : AsWritten[r] \in Created
  /\ AsRejected \in [Rows -> Statuses] /\ \A r \in Rows : AsRejected[r] \in {"PARTIALLY_APPLIED", "FAILED"}
  /\ As("RETRY_READY") \in [Rows -> Statuses] /\ \A r \in Rows : As("RETRY_READY")[r] = "RETRY_READY"
  /\ As("OUTCOME_UNKNOWN") \in [Rows -> Statuses]
  /\ \A r \in Rows : As("OUTCOME_UNKNOWN")[r] = "OUTCOME_UNKNOWN"
<1>1. AsWritten \in [Rows -> Statuses] /\ \A r \in Rows : AsWritten[r] \in Created
  BY DEF AsWritten, Statuses, Created
<1>2. AsRejected \in [Rows -> Statuses] /\ \A r \in Rows : AsRejected[r] \in {"PARTIALLY_APPLIED", "FAILED"}
  BY DEF AsRejected, Statuses, Created
<1>3. /\ As("RETRY_READY") \in [Rows -> Statuses]
      /\ \A r \in Rows : As("RETRY_READY")[r] = "RETRY_READY"
      /\ As("OUTCOME_UNKNOWN") \in [Rows -> Statuses]
      /\ \A r \in Rows : As("OUTCOME_UNKNOWN")[r] = "OUTCOME_UNKNOWN"
  BY DEF As, Statuses, Unattempted
<1> QED BY <1>1, <1>2, <1>3

LEMMA SettleFlows ==
  ASSUME Typed, Typed', Flows, Settle
  PROVE  Flows'
<1> DEFINE Goal == /\ CallsFollow' /\ CopyFollows' /\ FinishedIsSettled' /\ InFlight' = {}
                   /\ (Bad' => Ceased(worker')) /\ worker'.pc \notin {"wait", "continue"}
           Ended == control'.state \in {"STOPPED", "FINISHED"} => control.state = control'.state
<1>1. worker.pc = "wait" /\ UNCHANGED <<run, policy>>
  BY DEF Settle
<1>2. call.phase \in Phases /\ Cardinality(call.rows) \in Nat /\ "CREATE" \in Phases /\ 0 \in Nat
  BY TypeParts, RowsAreCounted DEF Calls, Phases
<1>3. CASE SettledWritten
  <2>1. SettledAs(AsWritten) /\ control' = Settled(control, call.phase, Cardinality(call.rows), FALSE)
    BY <1>3 DEF SettledWritten
  <2>2. \A r \in Rows : AsWritten[r] \notin {"IN_FLIGHT", "OUTCOME_UNKNOWN", "FAILED"}
    BY StatusesOf DEF Created
  <2>3. Goal
    BY <2>1, <2>2, <1>1, StatusesOf, SettledFlows
  <2>4. BudgetPauses' /\ Ended
    BY <2>1, <2>3, <1>1, <1>2, SettledBudget DEF InFlight
  <2> QED BY <2>3, <2>4, <1>1 DEF Flows, StopsFollow
<1>4. CASE SettledApart
  <2>1. SettledAs(As("RETRY_READY")) /\ control' = Settled(control, "CREATE", 0, FALSE)
    BY <1>4 DEF SettledApart
  <2>2. \A r \in Rows : As("RETRY_READY")[r] \notin {"IN_FLIGHT", "OUTCOME_UNKNOWN", "FAILED"}
    BY StatusesOf
  <2>3. Goal
    BY <2>1, <2>2, <1>1, StatusesOf, SettledFlows
  <2>4. BudgetPauses' /\ Ended
    BY <2>1, <2>3, <1>1, <1>2, SettledBudget DEF InFlight
  <2> QED BY <2>3, <2>4, <1>1 DEF Flows, StopsFollow
<1>5. CASE SettledRejected
  <2>1. /\ SettledAs(AsRejected) /\ control' = Settled(control, call.phase, Cardinality(call.rows), TRUE)
        /\ policy = "STOP" => Ceased(worker')
    BY <1>5 DEF SettledRejected
  <2>2. \A r \in Rows : AsRejected[r] \notin {"IN_FLIGHT", "OUTCOME_UNKNOWN"}
    BY StatusesOf
  <2>3. Goal
    BY <2>1, <2>2, <1>1, StatusesOf, SettledFlows
  <2>4. BudgetPauses' /\ Ended
    BY <2>1, <2>3, <1>1, <1>2, SettledBudget DEF InFlight
  <2> QED BY <2>3, <2>4, <1>1 DEF Flows, StopsFollow
<1>6. CASE SettledUnknown
  <2>1. SettledAs(As("OUTCOME_UNKNOWN")) /\ control' = control /\ Ceased(worker')
    BY <1>6 DEF SettledUnknown
  <2>2. \A r \in Rows : As("OUTCOME_UNKNOWN")[r] # "IN_FLIGHT"
    BY StatusesOf
  <2>3. Goal
    BY <2>1, <2>2, <1>1, StatusesOf, SettledFlows
  <2>4. BudgetPauses'
    <3>1. ASSUME With(journal, {"IN_FLIGHT", "OUTCOME_UNKNOWN"}) # {}
          PROVE  With(journal', {"IN_FLIGHT", "OUTCOME_UNKNOWN"}) # {}
      <4>1. journal \in Rowed /\ journal' \in Rowed
        <5>1. journal' \in Rowed
          BY DEF Typed, TypeOK, Rowed
        <5> QED BY <5>1, TypeParts
      <4>2. PICK r \in Rows : journal[r] \in {"IN_FLIGHT", "OUTCOME_UNKNOWN"}
        BY <3>1, <4>1, RowSets
      <4>3. journal'[r] = IF r \in call.rows THEN "OUTCOME_UNKNOWN" ELSE journal[r]
        BY <2>1, StatusesOf DEF SettledAs
      <4>4. journal'[r] \in {"IN_FLIGHT", "OUTCOME_UNKNOWN"}
        BY <4>2, <4>3
      <4> QED BY <4>1, <4>4, RowSets
    <3>2. With(journal', {"IN_FLIGHT"}) = {}
      BY <2>3 DEF InFlight
    <3> QED BY <3>1, <3>2, <2>1, <1>1 DEF Flows, BudgetPauses
  <2> QED BY <2>1, <2>3, <2>4, <1>1 DEF Flows, StopsFollow
<1> QED BY <1>3, <1>4, <1>5, <1>6, SettleShape

LEMMA FreshFlows ==
  /\ FreshControl.state = "RUNNING" /\ FreshControl.calls = 0
  /\ \A q \in Phases : FreshControl.streak[q] = 0
BY DEF FreshControl

LEMMA RecoverFlows ==
  ASSUME Typed, Typed', Flows, Recover
  PROVE  Flows'
<1> DEFINE found == {r \in With(journal, {"IN_FLIGHT"}) :
                       \/ seen[r] = "COMMITTED"
                       \/ seen[r] = "PARTIALLY_APPLIED" /\ flight = "CREATE"}
<1>1. /\ UNCHANGED <<plan, run, policy, flight, seen, call>> /\ worker.pc = "recover"
  BY DEF Recover, past
<1>2. call.rows = {} /\ run # "NONE"
  BY <1>1 DEF Flows, CallsFollow, CopyFollows
<1>3. CASE UNCHANGED <<journal, control>> /\ worker' = NoWorker
  <2>1. BudgetPauses' /\ FinishedIsSettled' /\ InFlight' = InFlight /\ (Bad' <=> Bad)
    BY <1>1, <1>3, FlowKept
  <2>2. CallsFollow' /\ StopsFollow' /\ CopyFollows'
    BY <1>1, <1>2, <1>3, <2>1, NoWorkerTyped
       DEF Flows, CallsFollow, StopsFollow, CopyFollows, Sending, RowsOf
  <2> QED BY <2>1, <2>2 DEF Flows
<1>4. CASE /\ Resumable
           /\ journal' = seen
           /\ control' = Settled(control, flight, Cardinality(found), FALSE)
           /\ worker' = (IF Paused THEN [worker EXCEPT !.pc = "continue"] ELSE Transport)
  <2>1. seen \in Rowed /\ journal' \in Rowed
    BY <1>4, TypeParts
  <2>2. \A r \in Rows : seen[r] # "IN_FLIGHT" /\ (seen[r] = "NONE" <=> r \notin RowsOf(plan))
    BY <1>1 DEF Flows, CopyFollows
  <2>3. With(journal', {"IN_FLIGHT"}) = {}
    BY <2>1, <2>2, <1>4, RowSets
  <2>4. Cardinality(found) \in Nat /\ flight \in Phases
    <3>1. found \in SUBSET Rows
      BY TypeParts, WithRows
    <3> QED BY <3>1, RowsAreCounted, TypeParts
  <2>5. BudgetPauses' /\ (control'.state \in {"STOPPED", "FINISHED"} => control.state = control'.state)
    <3> HIDE DEF found
    <3> QED BY <2>3, <2>4, <1>1, <1>4, SettledBudget
  <2>6. ~Bad'
    <3>1. With(seen, {"OUTCOME_UNKNOWN"}) = {}
      BY <1>4 DEF Resumable
    <3>2. policy = "STOP" => With(seen, {"FAILED"}) = {}
      <4>1. CASE Paused
        BY <4>1 DEF Paused
      <4>2. CASE With(seen, {"FAILED", "BLOCKED"}) = {}
        BY <4>2 DEF With
      <4> QED BY <4>1, <4>2, <1>4 DEF Resumable
    <3> QED BY <3>1, <3>2, <1>1, <1>4 DEF Bad
  <2>7. worker'.pc \in {"continue", "group"}
    BY <1>4, TypeParts, TransportTyped DEF Worker
  <2>8. run = "RUNNING"
    BY <1>4 DEF Resumable
  <2>9. CallsFollow'
    BY <1>1, <1>2, <2>3, <2>7 DEF Flows, CallsFollow, InFlight
  <2>10. CopyFollows'
    BY <1>1, <1>2, <1>4, <2>2, <2>7 DEF CopyFollows, RowsOf
  <2>11. StopsFollow'
    BY <1>1, <2>5, <2>6, <2>8 DEF Flows, StopsFollow
  <2>12. FinishedIsSettled'
    BY <1>1, <2>8 DEF FinishedIsSettled
  <2> QED BY <2>5, <2>9, <2>10, <2>11, <2>12 DEF Flows
<1> QED BY <1>3, <1>4 DEF Recover

LEMMA ContinueFlows ==
  ASSUME Typed, Flows, Continue
  PROVE  Flows'
<1>1. /\ UNCHANGED <<plan, run, policy, journal, flight, seen, call>> /\ worker.pc = "continue"
  BY DEF Continue, past, rowsVars
<1>2. call.rows = {} /\ run # "NONE" /\ ~Bad /\ InFlight = {}
  BY <1>1 DEF Flows, CallsFollow, CopyFollows, StopsFollow
<1>3. InFlight' = InFlight /\ (Bad' <=> Bad)
  BY <1>1 DEF InFlight, Bad, With
<1>4. worker'.pc \in {"off", "group"}
  BY NoWorkerTyped, TransportTyped DEF Continue
<1>5. \/ control' = control
      \/ run = "RUNNING" /\ control' = FreshControl
  BY DEF Continue
<1>6. CallsFollow'
  BY <1>1, <1>2, <1>3, <1>4 DEF Flows, CallsFollow
<1>7. CopyFollows'
  BY <1>1, <1>2, <1>4 DEF Flows, CopyFollows, RowsOf
<1>8. StopsFollow'
  BY <1>1, <1>2, <1>3, <1>5, FreshFlows DEF Flows, StopsFollow
<1>9. BudgetPauses' /\ FinishedIsSettled'
  <2>1. CASE control' = control
    BY <2>1, <1>1, FlowKept
  <2>2. CASE run = "RUNNING" /\ control' = FreshControl
    <3>1. FinishedIsSettled'
      BY <2>2, <1>1 DEF FinishedIsSettled
    <3>2. BudgetPauses'
      BY <2>2, FreshFlows, LimitsAssumption DEF BudgetPauses
    <3> QED BY <3>1, <3>2
  <2> QED BY <2>1, <2>2, <1>5
<1> QED BY <1>6, <1>7, <1>8, <1>9 DEF Flows

LEMMA AssessFlows ==
  ASSUME Typed, Flows, Assess
  PROVE  Flows'
<1>1. /\ UNCHANGED <<plan, run, policy, journal, flight, control, call>>
      /\ worker.pc = "off" /\ run = "RUNNING"
      /\ seen' = [r \in Rows |-> Found(r)] /\ worker' = [NoWorker EXCEPT !.pc = "recover"]
  BY DEF Assess, past, rowsVars
<1>2. BudgetPauses' /\ FinishedIsSettled' /\ InFlight' = InFlight /\ (Bad' <=> Bad)
  BY <1>1, FlowKept
<1>3. worker'.pc = "recover" /\ call.rows = {}
  BY <1>1, TransportTyped DEF Flows, CallsFollow
<1>4. CallsFollow' /\ StopsFollow'
  BY <1>1, <1>2, <1>3 DEF Flows, CallsFollow, StopsFollow, Sending
<1>5. CopyFollows'
  <2>1. \A r \in Rows : journal[r] = "NONE" <=> r \notin RowsOf(plan)
    BY <1>1 DEF Flows, CopyFollows
  <2>2. \A r \in Rows : seen'[r] # "IN_FLIGHT" /\ (seen'[r] = "NONE" <=> r \notin RowsOf(plan))
    BY <1>1, <2>1, FoundStatuses
  <2> QED BY <1>1, <1>3, <2>1, <2>2 DEF CopyFollows, RowsOf
<1> QED BY <1>2, <1>4, <1>5 DEF Flows

LEMMA CrashFlows ==
  ASSUME Typed, Flows, Crash
  PROVE  Flows'
<1>1. /\ UNCHANGED <<plan, run, policy, journal, flight, control, seen>>
      /\ worker' = NoWorker /\ call' = NoCall
  BY DEF Crash, rowsVars
<1>2. BudgetPauses' /\ FinishedIsSettled' /\ InFlight' = InFlight /\ (Bad' <=> Bad)
  BY <1>1, FlowKept
<1>3. CallsFollow' /\ StopsFollow' /\ CopyFollows'
  BY <1>1, <1>2, NoWorkerTyped
     DEF Flows, CallsFollow, StopsFollow, CopyFollows, Sending, NoCall, RowsOf
<1> QED BY <1>2, <1>3 DEF Flows

LEMMA StartFlows ==
  ASSUME Typed, Typed', Flows, NEW p \in Policies, Start(p)
  PROVE  Flows'
<1>1. /\ run' = "RUNNING" /\ worker.pc = "off"
      /\ journal' = [r \in Rows |-> IF r \in RowsOf(plan') THEN "PLANNED" ELSE "NONE"]
      /\ seen' = journal' /\ control' = FreshControl /\ worker' = Transport
      /\ UNCHANGED call
  BY DEF Start
<1>2. journal' \in Rowed
  BY DEF Typed, TypeOK, Rowed
<1>3. \A r \in Rows : journal'[r] \in {"PLANNED", "NONE"} /\ (journal'[r] = "NONE" <=> r \notin RowsOf(plan'))
  BY <1>1
<1>4. InFlight' = {} /\ ~Bad'
  BY <1>2, <1>3, RowSets DEF InFlight, Bad
<1>5. call.rows = {} /\ worker'.pc = "group"
  BY <1>1, TransportTyped DEF Flows, CallsFollow
<1>6. CallsFollow' /\ StopsFollow'
  BY <1>1, <1>4, <1>5, FreshFlows DEF Flows, CallsFollow, StopsFollow
<1>7. CopyFollows'
  BY <1>1, <1>3, <1>5 DEF CopyFollows
<1>8. BudgetPauses'
  BY <1>1, FreshFlows, LimitsAssumption DEF BudgetPauses
<1>9. FinishedIsSettled'
  BY <1>1 DEF FinishedIsSettled
<1> QED BY <1>6, <1>7, <1>8, <1>9 DEF Flows

LEMMA CompareFlows ==
  ASSUME Typed, Flows, Compare \/ Publish \/ Close \/ \E c \in late : HandleLate(c)
  PROVE  Flows'
<1>1. CASE Compare \/ Publish \/ \E c \in late : HandleLate(c)
  BY <1>1, FlowsSame DEF Compare, Publish, HandleLate, past, rowsVars
<1>2. CASE Close
  <2>1. /\ UNCHANGED <<plan, policy, journal, flight, control, worker, seen, call>>
        /\ worker.pc = "off" /\ run = "RUNNING" /\ run' = "CLOSED"
    BY <1>2 DEF Close, rowsVars
  <2>2. InFlight' = InFlight /\ (Bad' <=> Bad)
    BY <2>1 DEF InFlight, Bad, With
  <2>3. CallsFollow' /\ StopsFollow' /\ CopyFollows'
    BY <2>1, <2>2 DEF Flows, CallsFollow, StopsFollow, CopyFollows, RowsOf, Sending
  <2>4. BudgetPauses' /\ FinishedIsSettled'
    BY <2>1 DEF Flows, BudgetPauses, FinishedIsSettled
  <2> QED BY <2>3, <2>4 DEF Flows
<1> QED BY <1>1, <1>2

LEMMA HandleFlows ==
  ASSUME Typed, Flows, Handle
  PROVE  Flows'
<1>1. /\ UNCHANGED <<plan, run, policy, journal, flight, control, worker, seen>> /\ call.rows # {}
      /\ call'.rows = call.rows /\ call'.phase = call.phase
  BY TypeParts DEF Handle, past, rowsVars, Calls
<1>2. BudgetPauses' /\ FinishedIsSettled' /\ InFlight' = InFlight /\ (Bad' <=> Bad)
  BY <1>1, FlowKept
<1>3. CallsFollow' /\ StopsFollow' /\ CopyFollows'
  BY <1>1, <1>2 DEF Flows, CallsFollow, StopsFollow, CopyFollows, RowsOf, Ceased, With
<1> QED BY <1>2, <1>3 DEF Flows

LEMMA InitFlows ==
  ASSUME Init
  PROVE  Flows
<1>1. Typed /\ worker.pc = "off" /\ run = "NONE" /\ call = NoCall /\ control = FreshControl
  BY InitTyped, NoWorkerTyped DEF Init
<1>2. CallsFollow /\ StopsFollow /\ CopyFollows
  BY <1>1, FreshFlows DEF CallsFollow, StopsFollow, CopyFollows, NoCall, Sending
<1>3. BudgetPauses /\ FinishedIsSettled
  BY <1>1, FreshFlows, LimitsAssumption DEF BudgetPauses, FinishedIsSettled
<1> QED BY <1>2, <1>3 DEF Flows

LEMMA NextFlows ==
  ASSUME Typed, Typed', Flows, [Next]_vars
  PROVE  Flows'
<1>1. CASE UNCHANGED vars
  BY <1>1, FlowsSame DEF vars, past, rowsVars
<1>2. CASE Work
  <2>1. CASE Begins
    BY <2>1, BeginShape, WalkFlows, DepartsFlows
  <2> QED BY <1>2, <2>1, WorkShapes, WalkFlows, BlocksFlows, FinishesFlows, RecoverFlows, ContinueFlows
<1>3. CASE Next /\ ~Work
  BY <1>3, StartFlows, SettleFlows, StopsFlows, AssessFlows, CrashFlows, CompareFlows, HandleFlows
     DEF Next
<1> QED BY <1>1, <1>2, <1>3

LEMMA LoadFlows == Spec => [](Typed /\ Flows)
<1>1. Init => Typed /\ Flows
  BY InitTyped, InitFlows
<1>2. Typed /\ Flows /\ [Next]_vars => Typed' /\ Flows'
  BY NextTyped, NextFlows
<1> QED BY <1>1, <1>2, PTL DEF Spec

(* A spent budget of one phase's rejections or of isolated calls pauses    *)
(* the load before it is overrun, and a paused load has nothing in flight, *)
(* however its rejections, exits and resumptions fall.                     *)
THEOREM BudgetsHold == Spec => []BudgetPauses
<1>1. Typed /\ Flows => BudgetPauses
  BY DEF Flows
<1> QED BY <1>1, LoadFlows, PTL

---------------------------------------------------------------------------
(* What a step may do to settled rows, to Odoo and to a stop.              *)
Keeps == SettledRowsStay /\ SendsSafely /\ StopHolds

LEMMA KeepsSame ==
  ASSUME journal' = journal,
         control.state \in {"STOP_REQUESTED", "STOPPED"} =>
           control'.state \in {"STOP_REQUESTED", "STOPPED"}
  PROVE  Keeps
BY DEF Keeps, SettledRowsStay, SendsSafely, Sends, StopHolds

LEMMA KeepsBlocked ==
  ASSUME NEW T, \A r \in T : journal[r] \in Unattempted, control' = control,
         journal' = [r \in Rows |-> IF r \in T THEN "BLOCKED" ELSE journal[r]]
  PROVE  Keeps
<1>1. SettledRowsStay
  BY DEF SettledRowsStay, Unattempted
<1>2. ~Sends
  BY DEF Sends
<1> QED BY <1>1, <1>2 DEF Keeps, SendsSafely, StopHolds

LEMMA KeepsDeparting ==
  ASSUME Typed, Flows, NEW S \in SUBSET Rows, NEW phase \in Phases, Departs(S, phase)
  PROVE  Keeps
<1>1. /\ control.state = "RUNNING"
      /\ worker.pc \in Sending /\ ~Ceased(worker)
      /\ \A r \in S : journal[r] \in Expected(phase)
      /\ journal' = [r \in Rows |-> IF r \in S THEN "IN_FLIGHT" ELSE journal[r]]
  BY DEF Departs
<1>2. ~Bad /\ InFlight = {}
  BY <1>1 DEF Flows, StopsFollow, CallsFollow, Sending
<1>3. SettledRowsStay
  BY <1>1 DEF SettledRowsStay, Expected, Unattempted
<1>4. SendsSafely
  <2>1. With(journal, {"IN_FLIGHT", "OUTCOME_UNKNOWN"}) = {}
    BY <1>2 DEF InFlight, Bad, With
  <2> QED BY <2>1, <1>1, <1>2 DEF SendsSafely, Bad
<1>5. StopHolds
  BY <1>1 DEF StopHolds
<1> QED BY <1>3, <1>4, <1>5 DEF Keeps

LEMMA KeepsSettled ==
  ASSUME Typed, NEW phase \in Phases, NEW n \in Nat, NEW rejected \in BOOLEAN,
         control' = Settled(control, phase, n, rejected)
  PROVE  StopHolds
<1>1. control'.state # control.state => control.state \in {"RUNNING", "PAUSED"}
  BY TypeParts, SettledFacts
<1> QED BY <1>1 DEF StopHolds

LEMMA KeepsSettling ==
  ASSUME Typed, Flows, Settle
  PROVE  Keeps
<1>1. worker.pc = "wait"
  BY DEF Settle
<1>2. PICK status \in [Rows -> Statuses] :
        SettledAs(status) /\ \A r \in Rows : status[r] # "IN_FLIGHT"
  <2>1. /\ \A r \in Rows : AsWritten[r] # "IN_FLIGHT"
        /\ \A r \in Rows : AsRejected[r] # "IN_FLIGHT"
        /\ \A r \in Rows : As("RETRY_READY")[r] # "IN_FLIGHT"
        /\ \A r \in Rows : As("OUTCOME_UNKNOWN")[r] # "IN_FLIGHT"
    BY StatusesOf DEF Created
  <2> QED BY <2>1, StatusesOf, SettleShape
          DEF SettledWritten, SettledApart, SettledRejected, SettledUnknown
<1>3. journal' = [r \in Rows |-> IF r \in call.rows THEN status[r] ELSE journal[r]]
  BY <1>2 DEF SettledAs
<1>4. \A r \in call.rows : journal[r] = "IN_FLIGHT"
  BY <1>1 DEF Flows, CallsFollow, InFlight, With
<1>5. SettledRowsStay
  BY <1>3, <1>4 DEF SettledRowsStay
<1>6. ~Sends
  BY <1>2, <1>3 DEF Sends
<1>7. StopHolds
  <2>1. call.phase \in Phases /\ Cardinality(call.rows) \in Nat /\ "CREATE" \in Phases /\ 0 \in Nat
    BY TypeParts, RowsAreCounted DEF Calls, Phases
  <2>2. \/ control' = Settled(control, call.phase, Cardinality(call.rows), FALSE)
        \/ control' = Settled(control, call.phase, Cardinality(call.rows), TRUE)
        \/ control' = Settled(control, "CREATE", 0, FALSE)
        \/ control' = control
    BY SettleShape DEF SettledWritten, SettledApart, SettledRejected, SettledUnknown
  <2>3. CASE control' = control
    BY <2>3 DEF StopHolds
  <2> QED BY <2>1, <2>2, <2>3, KeepsSettled
<1> QED BY <1>5, <1>6, <1>7 DEF Keeps, SendsSafely

LEMMA KeepsRecovering ==
  ASSUME Typed, Flows, Recover
  PROVE  Keeps
<1> DEFINE found == {r \in With(journal, {"IN_FLIGHT"}) :
                       \/ seen[r] = "COMMITTED"
                       \/ seen[r] = "PARTIALLY_APPLIED" /\ flight = "CREATE"}
<1>1. CASE UNCHANGED <<journal, control>>
  BY <1>1, KeepsSame
<1>2. CASE /\ Resumable /\ journal' = seen
           /\ control' = Settled(control, flight, Cardinality(found), FALSE)
  <2>1. \A r \in Rows : seen[r] # journal[r] => journal[r] \in {"IN_FLIGHT", "PARTIALLY_APPLIED"}
    BY <1>2 DEF Resumable, Stale
  <2>2. SettledRowsStay
    BY <2>1, <1>2 DEF SettledRowsStay
  <2>3. \A r \in Rows : seen[r] # "IN_FLIGHT"
    BY DEF Recover, Flows, CopyFollows
  <2>4. ~Sends
    BY <2>3, <1>2 DEF Sends
  <2>5. Cardinality(found) \in Nat /\ flight \in Phases
    <3>1. found \in SUBSET Rows
      BY TypeParts, WithRows
    <3> QED BY <3>1, RowsAreCounted, TypeParts
  <2>6. StopHolds
    <3> HIDE DEF found
    <3> QED BY <2>5, <1>2, KeepsSettled
  <2> QED BY <2>2, <2>4, <2>6 DEF Keeps, SendsSafely
<1> QED BY <1>1, <1>2 DEF Recover

LEMMA KeepsEnding ==
  ASSUME Typed, Flows, NEW status \in RunStatuses, FinishRun(status), journal' = journal
  PROVE  Keeps
<1>1. control.state = "STOPPED" => run # "RUNNING"
  BY DEF Flows, StopsFollow
<1>2. control.state \in {"STOP_REQUESTED", "STOPPED"} =>
        control'.state \in {"STOP_REQUESTED", "STOPPED"}
  BY <1>1, FinishFacts DEF MayFinish
<1> QED BY <1>2, KeepsSame

LEMMA KeepsWorking ==
  ASSUME Typed, Flows, Work
  PROVE  Keeps
<1>1. CASE Walk
  BY <1>1, KeepsSame DEF Walk, Idle, rowsVars
<1>2. CASE Blocks
  <2>1. PICK S \in SUBSET Rows, then \in Worker : Block(S, then)
    BY <1>2 DEF Blocks
  <2>2. PICK T \in SUBSET Rows : BlocksRows(S, T)
    BY <2>1, BlockedRows
  <2>3. control' = control
    BY <2>1 DEF Block
  <2> QED BY <2>2, <2>3, KeepsBlocked DEF BlocksRows
<1>3. CASE Begins
  BY <1>1, <1>3, BeginShape, KeepsDeparting
<1>4. CASE Finishes
  BY <1>4, KeepsEnding DEF Finishes, rowsVars
<1>5. CASE Continue
  BY <1>5, KeepsSame DEF Continue, rowsVars
<1> QED BY <1>1, <1>2, <1>3, <1>4, <1>5, KeepsRecovering, WorkShapes

LEMMA KeepsStopping ==
  ASSUME Typed, Flows, RequestStop \/ Stopping
  PROVE  Keeps
<1>1. CASE RequestStop
  <2>1. control'.state = "STOP_REQUESTED" /\ journal' = journal
    BY <1>1, TypeParts DEF RequestStop, Control, rowsVars
  <2> QED BY <2>1, KeepsSame
<1>2. CASE StopRead
  BY <1>2, KeepsSame DEF StopRead, rowsVars
<1>3. CASE StopBlock
  <2>1. CASE journal' = journal
    BY <1>3, <2>1, KeepsSame DEF StopBlock
  <2>2. CASE /\ stopper.rows = {} \/ MayBlock(stopper.rows)
             /\ journal' = Marked(journal, stopper.rows, "BLOCKED")
    BY <1>3, <2>2, KeepsBlocked DEF StopBlock, MayBlock, With, Marked
  <2> QED BY <1>3, <2>1, <2>2 DEF StopBlock
<1>4. CASE StopFinish
  BY <1>4, KeepsEnding DEF StopFinish, rowsVars, RunStatuses
<1> QED BY <1>1, <1>2, <1>3, <1>4 DEF Stopping

LEMMA NextKeeps ==
  ASSUME Typed, Flows, [Next]_vars, loads' = loads
  PROVE  Keeps
<1>1. CASE UNCHANGED vars
  BY <1>1, KeepsSame DEF vars, rowsVars
<1>2. CASE \E p \in Policies : Start(p)
  <2>1. loads \in Nat /\ loads' = loads + 1
    BY <1>2, TypeParts DEF Start
  <2> QED BY <2>1
<1>3. CASE Assess \/ Crash \/ Compare \/ Publish \/ Close \/ Handle \/ \E c \in late : HandleLate(c)
  BY <1>3, KeepsSame DEF Assess, Crash, Compare, Publish, Close, Handle, HandleLate, rowsVars
<1> QED BY <1>1, <1>2, <1>3, KeepsWorking, KeepsSettling, KeepsStopping DEF Next

(* Within a load a settled row is never written again and a rejected one   *)
(* never retried; nothing is sent over a row in flight or unknown, under   *)
(* STOP over a rejected one, or while a pause or a stop is recorded; and a *)
(* stop is kept, whoever resumes.                                          *)
THEOREM NothingIsSentAfter == Spec => NothingSentAfter
<1>1. Typed /\ Flows /\ [Next]_vars =>
        [loads' = loads => SettledRowsStay /\ SendsSafely /\ StopHolds]_vars
  BY NextKeeps DEF Keeps
<1> QED BY <1>1, LoadFlows, PTL DEF Spec, NothingSentAfter

---------------------------------------------------------------------------
(* What Odoo holds is never less than the journal says.                    *)
Grows == (\A r \in Rows : count[r] > 0 => count'[r] > 0) /\ written \subseteq written'

LEMMA OdooSame == UNCHANGED <<count, written>> => Grows
BY DEF Grows

LEMMA RowsGrow ==
  ASSUME UNCHANGED plan, Grows, NEW r \in Rows
  PROVE  (Whole(r) => Whole(r)') /\ (Placed(r) => Placed(r)')
<1>1. Whole(r) => Whole(r)'
  BY DEF Grows, Whole, FieldsOf
<1>2. Placed(r) => Placed(r)'
  BY DEF Grows, Placed, FieldsOf
<1> QED BY <1>1, <1>2

(* A row of which less, or the same, is said.                              *)
LEMMA JournalKept ==
  ASSUME UNCHANGED plan, Grows, Truthful(journal),
         \A r \in Rows : journal'[r] \in Created => journal'[r] = journal[r]
  PROVE  Truthful(journal)'
<1> SUFFICES ASSUME NEW r \in Rows
             PROVE  /\ journal'[r] = "COMMITTED" => Whole(r)'
                    /\ journal'[r] = "PARTIALLY_APPLIED" => Placed(r)'
  BY DEF Truthful
<1>1. journal'[r] \in {"COMMITTED", "PARTIALLY_APPLIED"} => journal[r] = journal'[r]
  BY DEF Created
<1>2. /\ journal[r] = "COMMITTED" => Whole(r)
      /\ journal[r] = "PARTIALLY_APPLIED" => Placed(r)
  BY DEF Truthful
<1> QED BY <1>1, <1>2, RowsGrow

LEMMA ViewsKept ==
  ASSUME UNCHANGED <<plan, review, kept>>, Grows, reading' \subseteq reading,
         PlanShape, kept \subseteq Rows,
         run' = "RUNNING" => run = "RUNNING", ViewsAge, ReceiptsFollow
  PROVE  ViewsAge' /\ ReceiptsFollow'
<1>1. \A r \in plan.updates : r \in Rows
  BY DEF PlanShape
<1>2. ViewsAge'
  <2>1. \A r \in Rows \ review.creates : count'[r] > 0
    BY DEF ViewsAge, Grows
  <2>2. \A v \in reading : v.creates \subseteq review.creates /\ \A r \in Rows \ v.creates : count'[r] > 0
    BY DEF ViewsAge, Grows
  <2>3. \A r \in plan.updates : count'[r] > 0
    BY <1>1 DEF ViewsAge, Grows
  <2> QED BY <2>1, <2>2, <2>3 DEF ViewsAge
<1>3. ReceiptsFollow'
  BY DEF ReceiptsFollow, Grows
<1> QED BY <1>2, <1>3

LEMMA FlightKept ==
  ASSUME UNCHANGED <<plan, flight>>, Grows, FlightKnown, InFlight' \subseteq InFlight, InFlight \subseteq Rows
  PROVE  FlightKnown'
<1> SUFFICES ASSUME NEW r \in InFlight'
             PROVE  (flight' = "UPDATE" => r \in plan'.updates) /\ (flight' = "COMPLETION" => Placed(r)')
  BY DEF FlightKnown
<1>1. r \in InFlight /\ r \in Rows
  OBVIOUS
<1>2. (flight = "UPDATE" => r \in plan.updates) /\ (flight = "COMPLETION" => Placed(r))
  BY <1>1 DEF FlightKnown
<1> QED BY <1>1, <1>2, RowsGrow

LEMMA CallKept ==
  ASSUME UNCHANGED <<plan, call>>, Grows, CallCarries, call \in Calls,
         worker'.pc = "wait" => worker.pc = "wait"
  PROVE  CallCarries'
<1>1. call.rows \subseteq Rows
  BY DEF Calls
<1>2. worker'.pc = "wait" => call'.fields = UNION {Sent(r, call.phase)' : r \in call'.rows}
  <2>1. \A r : Sent(r, call.phase)' = Sent(r, call.phase)
    BY DEF Sent, Deferred
  <2> QED BY <2>1 DEF CallCarries
<1>3. call.answer = "accepted" =>
        call.fields \subseteq written' /\ (call.phase = "CREATE" => \A r \in call.rows : count'[r] > 0)
  BY <1>1 DEF CallCarries, Grows
<1> QED BY <1>2, <1>3 DEF CallCarries

(* A step of the load that is no answer, and no resumption.                *)
LEMMA AccountKept ==
  ASSUME Typed, Accounted, UNCHANGED <<plan, review, kept, flight, call>>, Grows, reading' \subseteq reading,
         run' = "RUNNING" => run = "RUNNING",
         \A r \in Rows : journal'[r] \in Created => journal'[r] = journal[r],
         InFlight' \subseteq InFlight,
         worker'.pc = "wait" => worker.pc = "wait",
         worker'.pc = "recover" => worker.pc = "recover" /\ seen' = seen
  PROVE  Accounted'
<1>1. PlanShape /\ kept \subseteq Rows /\ call \in Calls /\ InFlight \subseteq Rows
  BY TypeParts, WithRows DEF Typed, InFlight
<1>2. Truthful(journal)'
  BY JournalKept DEF Accounted
<1>3. FlightKnown' /\ CallCarries'
  BY <1>1, FlightKept, CallKept DEF Accounted
<1>4. ViewsAge' /\ ReceiptsFollow'
  BY <1>1, ViewsKept DEF Accounted
<1>5. worker'.pc = "recover" => Truthful(seen)'
  <2>1. ASSUME worker'.pc = "recover", NEW r \in Rows
        PROVE  /\ seen[r] = "COMMITTED" => Whole(r)'
               /\ seen[r] = "PARTIALLY_APPLIED" => Placed(r)'
    <3>1. seen' = seen /\ Truthful(seen)
      BY <2>1 DEF Accounted
    <3>2. /\ seen[r] = "COMMITTED" => Whole(r)
          /\ seen[r] = "PARTIALLY_APPLIED" => Placed(r)
      BY <3>1 DEF Truthful
    <3> QED BY <3>1, <3>2, RowsGrow
  <2>2. worker'.pc = "recover" => seen' = seen
    OBVIOUS
  <2> QED BY <2>1, <2>2 DEF Truthful
<1> QED BY <1>2, <1>3, <1>4, <1>5 DEF Accounted

LEMMA WalkAccounted ==
  ASSUME Typed, Accounted, Walk
  PROVE  Accounted'
<1>1. /\ UNCHANGED <<plan, review, kept, reading, flight, call, count, written, run, journal>>
      /\ worker'.pc \notin {"wait", "recover"}
  BY DEF Walk, Idle, past, compared, rowsVars, odoo, Onward
<1>2. InFlight' = InFlight
  BY <1>1 DEF InFlight, With
<1> QED BY <1>1, <1>2, OdooSame, AccountKept

LEMMA BlocksAccounted ==
  ASSUME Typed, Typed', Flows, Accounted, Blocks
  PROVE  Accounted'
<1>1. PICK S \in SUBSET Rows, then \in Worker : Onward(then) /\ Block(S, then)
  BY DEF Blocks
<1>2. UNCHANGED <<plan, review, kept, reading, flight, call, count, written, run, policy, control>>
  BY <1>1 DEF Block, past, compared, odoo
<1>3. PICK T \in SUBSET Rows : BlocksRows(S, T)
  BY <1>1, BlockedRows
<1>4. /\ \A r \in T : journal[r] \in Unattempted
      /\ T = {} \/ run = "RUNNING"
      /\ journal' = [r \in Rows |-> IF r \in T THEN "BLOCKED" ELSE journal[r]]
  BY <1>3 DEF BlocksRows
<1>5. InFlight' = InFlight
  BY <1>2, <1>4, BlockingKeeps
<1>6. \A r \in Rows : journal'[r] \in Created => journal'[r] = journal[r]
  BY <1>4 DEF Created
<1>7. worker'.pc \notin {"wait", "recover"}
  BY <1>1, BlockedRows, NoWorkerTyped DEF Onward
<1> QED BY <1>2, <1>5, <1>6, <1>7, OdooSame, AccountKept

LEMMA DepartsAccounted ==
  ASSUME Typed, Typed', Flows, Accounted,
         NEW S \in SUBSET Rows, NEW phase \in Phases, Departs(S, phase)
  PROVE  Accounted'
<1>1. /\ UNCHANGED <<plan, review, kept, reading, count, written, run>>
      /\ worker.pc \in Sending /\ ~Ceased(worker)
      /\ \A r \in S : journal[r] \in Expected(phase)
      /\ phase = "UPDATE" => S \subseteq plan.updates
      /\ journal' = [r \in Rows |-> IF r \in S THEN "IN_FLIGHT" ELSE journal[r]]
      /\ flight' = phase
      /\ call' = [rows |-> S, phase |-> phase, answer |-> "none",
                  fields |-> UNION {Sent(r, phase) : r \in S}]
      /\ worker' = [worker EXCEPT !.pc = "wait"]
  BY DEF Departs, past, compared, odoo
<1>2. Grows
  BY <1>1, OdooSame
<1>3. worker'.pc = "wait"
  BY <1>1, TypeParts DEF Worker
<1>4. Truthful(journal)'
  BY <1>1, <1>2, JournalKept DEF Accounted, Created
<1>5. InFlight' \subseteq S
  <2>1. worker.pc \notin {"off", "recover", "wait"}
    BY <1>1 DEF Sending
  <2>2. InFlight = {}
    BY <2>1 DEF Flows, CallsFollow
  <2>3. journal \in Rowed
    BY TypeParts
  <2>4. \A r \in Rows : journal[r] # "IN_FLIGHT"
    BY <2>2, <2>3 DEF InFlight, With, Rowed
  <2> QED BY <2>4, <1>1 DEF InFlight, With
<1>6. FlightKnown'
  <2> SUFFICES ASSUME NEW r \in S
               PROVE  (phase = "UPDATE" => r \in plan.updates) /\ (phase = "COMPLETION" => Placed(r)')
    BY <1>1, <1>5 DEF FlightKnown
  <2>1. ASSUME phase = "COMPLETION"
        PROVE  Placed(r)
    <3>1. journal[r] = "PARTIALLY_APPLIED"
      BY <1>1, <2>1 DEF Expected
    <3> QED BY <3>1 DEF Accounted, Truthful
  <2> QED BY <2>1, <1>1, <1>2, RowsGrow
<1>7. ViewsAge' /\ ReceiptsFollow'
  BY <1>1, <1>2, TypeParts, ViewsKept DEF Typed, Accounted
<1>8. CallCarries'
  <2>1. \A r : Sent(r, phase)' = Sent(r, phase)
    BY <1>1 DEF Sent, Deferred
  <2>2. call'.phase = phase /\ call'.rows = S /\ call'.answer = "none"
        /\ call'.fields = UNION {Sent(r, phase) : r \in S}
    BY <1>1
  <2> QED BY <2>1, <2>2 DEF CallCarries
<1> QED BY <1>3, <1>4, <1>6, <1>7, <1>8 DEF Accounted

LEMMA EndingAccounted ==
  ASSUME Typed, Accounted, NEW status \in RunStatuses, FinishRun(status), status # "RUNNING",
         UNCHANGED <<past, rowsVars, seen, odoo, call>>,
         worker' = NoWorker \/ worker' = worker
  PROVE  Accounted'
<1>1. UNCHANGED <<plan, review, kept, reading, flight, call, count, written, journal, seen>>
  BY DEF past, compared, rowsVars, odoo
<1>2. run' = "RUNNING" => run = "RUNNING"
  BY FinishFacts
<1>3. InFlight' = InFlight
  BY <1>1 DEF InFlight, With
<1>4. worker'.pc \in {"wait", "recover"} => worker' = worker
  BY NoWorkerTyped
<1> QED BY <1>1, <1>2, <1>3, <1>4, OdooSame, AccountKept

LEMMA StopsAccounted ==
  ASSUME Typed, Typed', Flows, Accounted, RequestStop \/ Stopping
  PROVE  Accounted'
<1>1. CASE RequestStop \/ StopRead \/ StopBlock
  <2>1. UNCHANGED <<plan, review, kept, reading, flight, call, count, written, run, policy, worker, seen>>
    BY <1>1 DEF RequestStop, StopRead, StopBlock, past, compared, rowsVars, odoo
  <2>2. CASE journal' = journal
    <3>1. InFlight' = InFlight
      BY <2>2 DEF InFlight, With
    <3> QED BY <2>1, <2>2, <3>1, OdooSame, AccountKept
  <2>3. CASE /\ stopper.rows = {} \/ MayBlock(stopper.rows)
             /\ journal' = Marked(journal, stopper.rows, "BLOCKED")
    <3>1. \A r \in Rows : journal'[r] = journal[r] \/ journal'[r] = "BLOCKED"
      BY <2>3 DEF Marked
    <3>2. \A r \in Rows : journal'[r] \in Created => journal'[r] = journal[r]
      BY <3>1 DEF Created
    <3>3. InFlight' \subseteq InFlight
      <4>1. journal \in Rowed /\ journal' \in Rowed
        <5>1. journal' \in Rowed
          BY DEF Typed, TypeOK, Rowed
        <5> QED BY <5>1, TypeParts
      <4>2. InFlight = {r \in Rows : journal[r] = "IN_FLIGHT"}
            /\ InFlight' = {r \in Rows : journal'[r] = "IN_FLIGHT"}
        BY <4>1, RowSets DEF InFlight
      <4> QED BY <4>2, <3>1
    <3> QED BY <2>1, <3>2, <3>3, OdooSame, AccountKept
  <2> QED BY <1>1, <2>2, <2>3 DEF RequestStop, StopRead, StopBlock, rowsVars
<1>2. CASE StopFinish
  <2>1. /\ FinishRun("COMPLETED_WITH_ERRORS") /\ worker' = worker
        /\ UNCHANGED <<past, rowsVars, seen, odoo, call>>
    BY <1>2 DEF StopFinish
  <2>2. "COMPLETED_WITH_ERRORS" \in RunStatuses
    BY DEF RunStatuses
  <2> QED BY <2>1, <2>2, EndingAccounted
<1> QED BY <1>1, <1>2 DEF Stopping

LEMMA RecoverAccounted ==
  ASSUME Typed, Typed', Flows, Flows', Accounted, Recover \/ Continue
  PROVE  Accounted'
<1>1. /\ UNCHANGED <<plan, review, kept, reading, flight, call, count, written, run>>
      /\ worker.pc \in {"recover", "continue"}
  <2>1. CASE Recover
    BY <2>1 DEF Recover, past, compared, odoo
  <2>2. CASE Continue
    BY <2>2 DEF Continue, past, compared, odoo, rowsVars
  <2> QED BY <2>1, <2>2
<1>2. worker'.pc \in {"off", "continue", "group"}
  <2>1. [worker EXCEPT !.pc = "continue"].pc = "continue"
    BY TypeParts DEF Worker
  <2>2. \/ worker' = NoWorker \/ worker' = Transport
        \/ worker' = [worker EXCEPT !.pc = "continue"]
    BY DEF Recover, Continue
  <2> QED BY <2>1, <2>2, NoWorkerTyped, TransportTyped
<1>3. CASE journal' = journal
  <2>1. InFlight' = InFlight
    BY <1>3 DEF InFlight, With
  <2> QED BY <1>1, <1>2, <1>3, <2>1, OdooSame, AccountKept
<1>4. CASE Recover /\ journal' = seen
  <2>1. worker.pc = "recover" /\ Truthful(seen)
    BY <1>4 DEF Recover, Accounted
  <2>2. Truthful(journal)'
    <3> SUFFICES ASSUME NEW r \in Rows
                 PROVE  /\ seen[r] = "COMMITTED" => Whole(r)'
                        /\ seen[r] = "PARTIALLY_APPLIED" => Placed(r)'
      BY <1>4 DEF Truthful
    <3>1. /\ seen[r] = "COMMITTED" => Whole(r)
          /\ seen[r] = "PARTIALLY_APPLIED" => Placed(r)
      BY <2>1 DEF Truthful
    <3> QED BY <3>1, <1>1, OdooSame, RowsGrow
  <2>3. InFlight' = {}
    <3>1. \A r \in Rows : seen[r] # "IN_FLIGHT"
      BY <2>1 DEF Flows, CopyFollows
    <3>2. seen \in Rowed
      BY TypeParts
    <3> QED BY <3>1, <3>2, <1>4 DEF InFlight, With, Rowed
  <2>4. FlightKnown'
    BY <2>3 DEF FlightKnown
  <2>5. ViewsAge' /\ ReceiptsFollow'
    BY <1>1, OdooSame, TypeParts, ViewsKept DEF Typed, Accounted
  <2>6. CallCarries'
    BY <1>1, <1>2, OdooSame, TypeParts, CallKept DEF Accounted
  <2> QED BY <1>2, <2>2, <2>4, <2>5, <2>6 DEF Accounted
<1> QED BY <1>3, <1>4 DEF Recover, Continue, rowsVars

(* What an accepted call has put in place.                                 *)
LEMMA WrittenRows ==
  ASSUME Typed, Flows, Accounted, worker.pc = "wait", call.answer = "accepted",
         NEW r \in call.rows
  PROVE  /\ AsWritten[r] = "COMMITTED" => Whole(r)
         /\ AsWritten[r] = "PARTIALLY_APPLIED" => Placed(r)
<1>1. r \in Rows /\ call.phase \in Phases
  BY TypeParts DEF Calls
<1>2. Sent(r, call.phase) \subseteq written
  <2>1. call.fields = UNION {Sent(q, call.phase) : q \in call.rows} /\ call.fields \subseteq written
    BY DEF Accounted, CallCarries
  <2> QED BY <2>1
<1>3. r \in InFlight /\ flight = call.phase
  BY DEF Flows, CallsFollow
<1>4. Deferred(r) = FieldsOf(plan, r) \cap plan.deferred
  BY DEF Deferred, DeferredOf
<1>5. CASE call.phase = "CREATE"
  <2>1. count[r] > 0
    BY <1>5 DEF Accounted, CallCarries
  <2>2. FieldsOf(plan, r) \ plan.deferred \subseteq written
    BY <1>2, <1>5 DEF Sent
  <2>3. Deferred(r) = {} => FieldsOf(plan, r) \subseteq written
    BY <2>2, <1>4
  <2>4. AsWritten[r] = IF Deferred(r) # {} THEN "PARTIALLY_APPLIED" ELSE "COMMITTED"
    BY <1>1, <1>5 DEF AsWritten
  <2> QED BY <2>1, <2>2, <2>3, <2>4 DEF Whole, Placed
<1>6. CASE call.phase # "CREATE"
  <2>1. AsWritten[r] = "COMMITTED"
    BY <1>1, <1>6 DEF AsWritten
  <2>2. CASE call.phase = "UPDATE"
    <3>1. r \in plan.updates
      BY <2>2, <1>3 DEF Accounted, FlightKnown
    <3>2. count[r] > 0
      BY <3>1 DEF Accounted, ViewsAge
    <3>3. Deferred(r) = {}
      BY <3>1, <1>1 DEF Typed, PlanShape
    <3>4. FieldsOf(plan, r) \ plan.deferred \subseteq written
      BY <1>2, <2>2 DEF Sent
    <3>5. FieldsOf(plan, r) \subseteq written
      BY <3>3, <3>4, <1>4
    <3> QED BY <2>1, <3>2, <3>5 DEF Whole
  <2>3. CASE call.phase = "COMPLETION"
    <3>1. Placed(r)
      BY <2>3, <1>3 DEF Accounted, FlightKnown
    <3>2. Deferred(r) \subseteq written
      BY <1>2, <2>3 DEF Sent
    <3>3. FieldsOf(plan, r) \subseteq written
      BY <3>1, <3>2, <1>4 DEF Placed
    <3> QED BY <2>1, <3>1, <3>3 DEF Whole, Placed
  <2> QED BY <1>1, <1>6, <2>2, <2>3 DEF Phases
<1> QED BY <1>5, <1>6

LEMMA SettledAccounted ==
  ASSUME Typed, Typed', Flows, Flows', Accounted, worker.pc = "wait",
         NEW status \in [Rows -> Statuses], SettledAs(status),
         \A r \in call.rows : /\ status[r] = "COMMITTED" => Whole(r)
                              /\ status[r] = "PARTIALLY_APPLIED" => Placed(r)
  PROVE  Accounted'
<1>1. /\ UNCHANGED <<plan, review, kept, reading, flight, count, written, run>>
      /\ journal' = [r \in Rows |-> IF r \in call.rows THEN status[r] ELSE journal[r]]
      /\ call' = NoCall /\ worker'.pc \in Sending
  BY DEF SettledAs, past, compared
<1>2. Grows
  BY <1>1, OdooSame
<1>3. Truthful(journal)'
  <2> SUFFICES ASSUME NEW r \in Rows
               PROVE  /\ journal'[r] = "COMMITTED" => Whole(r)'
                      /\ journal'[r] = "PARTIALLY_APPLIED" => Placed(r)'
    BY DEF Truthful
  <2>1. /\ journal'[r] = "COMMITTED" => Whole(r)
        /\ journal'[r] = "PARTIALLY_APPLIED" => Placed(r)
    <3>1. CASE r \in call.rows
      <4>1. journal'[r] = status[r]
        BY <3>1, <1>1
      <4> QED BY <3>1, <4>1
    <3>2. CASE r \notin call.rows
      <4>1. journal'[r] = journal[r]
        BY <3>2, <1>1
      <4>2. /\ journal[r] = "COMMITTED" => Whole(r)
            /\ journal[r] = "PARTIALLY_APPLIED" => Placed(r)
        BY DEF Accounted, Truthful
      <4> QED BY <4>1, <4>2
    <3> QED BY <3>1, <3>2
  <2> QED BY <2>1, <1>1, <1>2, RowsGrow
<1>4. FlightKnown'
  <2>1. InFlight' = {}
    BY <1>1 DEF Flows, CallsFollow, Sending
  <2> QED BY <2>1 DEF FlightKnown
<1>5. ViewsAge' /\ ReceiptsFollow'
  BY <1>1, <1>2, TypeParts, ViewsKept DEF Typed, Accounted
<1>6. CallCarries'
  BY <1>1 DEF CallCarries, NoCall, Sending
<1> QED BY <1>1, <1>3, <1>4, <1>5, <1>6 DEF Accounted, Sending

LEMMA SettleAccounted ==
  ASSUME Typed, Typed', Flows, Flows', Accounted, Settle
  PROVE  Accounted'
<1>1. worker.pc = "wait" /\ call.rows \subseteq Rows
  BY TypeParts DEF Settle, Calls
<1>2. CASE SettledWritten
  BY <1>1, <1>2, WrittenRows, StatusesOf, SettledAccounted DEF SettledWritten
<1>3. CASE SettledApart
  <2>1. SettledAs(As("RETRY_READY")) /\ \A r \in call.rows : As("RETRY_READY")[r] = "RETRY_READY"
    BY <1>1, <1>3, StatusesOf DEF SettledApart
  <2> QED BY <1>1, <2>1, StatusesOf, SettledAccounted
<1>4. CASE SettledRejected
  <2>1. SettledAs(AsRejected)
    BY <1>4 DEF SettledRejected
  <2>2. ASSUME NEW r \in call.rows
        PROVE  /\ AsRejected[r] = "COMMITTED" => Whole(r)
               /\ AsRejected[r] = "PARTIALLY_APPLIED" => Placed(r)
    <3>1. AsRejected[r] = IF call.phase = "COMPLETION" THEN "PARTIALLY_APPLIED" ELSE "FAILED"
      BY <1>1 DEF AsRejected
    <3>2. r \in InFlight /\ flight = call.phase
      BY <1>1 DEF Flows, CallsFollow
    <3>3. call.phase = "COMPLETION" => Placed(r)
      BY <3>2 DEF Accounted, FlightKnown
    <3> QED BY <3>1, <3>3
  <2> QED BY <1>1, <2>1, <2>2, StatusesOf, SettledAccounted
<1>5. CASE SettledUnknown
  <2>1. /\ SettledAs(As("OUTCOME_UNKNOWN"))
        /\ \A r \in call.rows : As("OUTCOME_UNKNOWN")[r] = "OUTCOME_UNKNOWN"
    BY <1>1, <1>5, StatusesOf DEF SettledUnknown
  <2> QED BY <1>1, <2>1, StatusesOf, SettledAccounted
<1> QED BY <1>2, <1>3, <1>4, <1>5, SettleShape

(* What recovery reads of a row that has a record is so.                   *)
LEMMA RecordFound ==
  ASSUME NEW r \in Rows, count[r] > 0
  PROVE  /\ Differing(r) = {} => Whole(r)
         /\ Differing(r) \subseteq Deferred(r) => Placed(r)
         /\ FoundRecord(r) = "COMMITTED" => Whole(r)
         /\ FoundRecord(r) = "PARTIALLY_APPLIED" => Placed(r)
<1>1. Differing(r) = {} => Whole(r)
  BY DEF Differing, Whole
<1>2. Differing(r) \subseteq Deferred(r) => Placed(r)
  BY DEF Differing, Deferred, DeferredOf, Placed
<1>3. FoundRecord(r) = "COMMITTED" => Differing(r) = {}
  BY DEF FoundRecord
<1>4. FoundRecord(r) = "PARTIALLY_APPLIED" => Differing(r) \subseteq Deferred(r)
  BY DEF FoundRecord
<1> QED BY <1>1, <1>2, <1>3, <1>4

LEMMA FoundIsSo ==
  ASSUME Typed, Flows, Accounted, NEW r \in Rows
  PROVE  /\ Found(r) = "COMMITTED" => Whole(r)
         /\ Found(r) = "PARTIALLY_APPLIED" => Placed(r)
<1>1. count[r] \in Nat /\ flight \in Phases /\ journal \in Rowed
  BY TypeParts
<1>2. CASE journal[r] = "IN_FLIGHT" /\ flight = "CREATE"
  <2>1. Found(r) = FoundCreate(r)
    BY <1>2 DEF Found
  <2>2. Found(r) \in Created => count[r] = 1 /\ Found(r) = FoundRecord(r)
    BY <2>1 DEF FoundCreate, Created
  <2> QED BY <1>1, <2>2, RecordFound DEF Created
<1>3. CASE journal[r] = "IN_FLIGHT" /\ flight # "CREATE"
  <2>1. Found(r) = FoundRecord(r)
    BY <1>3 DEF Found
  <2>2. r \in InFlight
    BY <1>1, <1>3, RowSets DEF InFlight
  <2>3. count[r] > 0
    <3>1. CASE flight = "UPDATE"
      BY <3>1, <2>2 DEF Accounted, FlightKnown, ViewsAge
    <3>2. CASE flight = "COMPLETION"
      BY <3>2, <2>2 DEF Accounted, FlightKnown, Placed
    <3> QED BY <3>1, <3>2, <1>1, <1>3 DEF Phases
  <2> QED BY <2>1, <2>3, RecordFound
<1>4. CASE journal[r] = "PARTIALLY_APPLIED"
  <2>1. Placed(r)
    BY <1>4 DEF Accounted, Truthful
  <2>2. Found(r) = "COMMITTED" => Differing(r) = {}
    BY <1>4 DEF Found
  <2>3. count[r] > 0
    BY <2>1 DEF Placed
  <2> QED BY <2>1, <2>2, <2>3, RecordFound
<1>5. CASE journal[r] \notin {"IN_FLIGHT", "PARTIALLY_APPLIED"}
  <2>1. Found(r) = journal[r]
    BY <1>5 DEF Found
  <2>2. /\ journal[r] = "COMMITTED" => Whole(r)
        /\ journal[r] = "PARTIALLY_APPLIED" => Placed(r)
    BY DEF Accounted, Truthful
  <2> QED BY <2>1, <2>2
<1> QED BY <1>2, <1>3, <1>4, <1>5

LEMMA AssessAccounted ==
  ASSUME Typed, Flows, Accounted, Assess
  PROVE  Accounted'
<1>1. /\ UNCHANGED <<plan, review, kept, reading, flight, call, count, written, run, journal>>
      /\ worker.pc = "off"
      /\ seen' = [r \in Rows |-> Found(r)] /\ worker' = [NoWorker EXCEPT !.pc = "recover"]
  BY DEF Assess, past, compared, rowsVars, odoo
<1>2. Grows
  BY <1>1, OdooSame
<1>3. worker'.pc = "recover" /\ InFlight' = InFlight /\ InFlight \subseteq Rows
  BY <1>1, TransportTyped, TypeParts, WithRows DEF InFlight
<1>4. Truthful(seen)'
  <2> SUFFICES ASSUME NEW r \in Rows
               PROVE  /\ Found(r) = "COMMITTED" => Whole(r)'
                      /\ Found(r) = "PARTIALLY_APPLIED" => Placed(r)'
    BY <1>1 DEF Truthful
  <2> QED BY <1>1, <1>2, FoundIsSo, RowsGrow
<1>5. Truthful(journal)'
  BY <1>1, <1>2, JournalKept DEF Accounted
<1>6. FlightKnown' /\ CallCarries'
  BY <1>1, <1>2, <1>3, TypeParts, FlightKept, CallKept DEF Accounted
<1>7. ViewsAge' /\ ReceiptsFollow'
  BY <1>1, <1>2, TypeParts, ViewsKept DEF Typed, Accounted
<1> QED BY <1>4, <1>5, <1>6, <1>7 DEF Accounted

LEMMA CrashAccounted ==
  ASSUME Typed, Accounted, Crash
  PROVE  Accounted'
<1>1. /\ UNCHANGED <<plan, review, kept, flight, count, written, run, journal>>
      /\ reading' = {} /\ worker' = NoWorker /\ call' = NoCall
  BY DEF Crash, rowsVars
<1>2. Grows /\ worker'.pc = "off"
  BY <1>1, OdooSame, NoWorkerTyped
<1>3. InFlight' = InFlight /\ InFlight \subseteq Rows
  <2>1. InFlight' = InFlight
    BY <1>1 DEF InFlight, With
  <2> QED BY <2>1, TypeParts, WithRows DEF InFlight
<1>4. Truthful(journal)'
  BY <1>1, <1>2, JournalKept DEF Accounted
<1>5. FlightKnown'
  BY <1>1, <1>2, <1>3, FlightKept DEF Accounted
<1>6. ViewsAge' /\ ReceiptsFollow'
  BY <1>1, <1>2, TypeParts, ViewsKept DEF Typed, Accounted
<1>7. CallCarries'
  BY <1>1, <1>2 DEF CallCarries, NoCall
<1> QED BY <1>2, <1>4, <1>5, <1>6, <1>7 DEF Accounted

(* Odoo only ever gains by a call.                                         *)
LEMMA CarryGrows ==
  ASSUME Typed, NEW c, Carry(c)
  PROVE  /\ Grows /\ c.fields \subseteq written'
         /\ c.phase = "CREATE" => \A r \in c.rows \cap Rows : count'[r] > 0
<1>1. count \in [Rows -> Nat]
  BY TypeParts
<1>2. \A r \in Rows : count'[r] # count[r] => count'[r] > 0
  BY <1>1 DEF Carry
<1>3. written \subseteq written' /\ c.fields \subseteq written'
  BY DEF Carry
<1>4. c.phase = "CREATE" => \A r \in c.rows \cap Rows : count'[r] > 0
  BY <1>1 DEF Carry
<1>5. Grows
  BY <1>2, <1>3 DEF Grows
<1> QED BY <1>3, <1>4, <1>5

LEMMA HandleAccounted ==
  ASSUME Typed, Accounted, Handle
  PROVE  Accounted'
<1>1. /\ UNCHANGED <<plan, review, kept, reading, flight, run, journal, worker, seen>>
      /\ call.answer = "none"
      /\ \/ Carry(call) /\ call' = [call EXCEPT !.answer = "accepted"]
         \/ \E a \in {"rejected", "refused"} :
              call' = [call EXCEPT !.answer = a] /\ UNCHANGED <<count, written>>
  BY DEF Handle, past, compared, rowsVars
<1>2. Grows
  BY <1>1, OdooSame, CarryGrows
<1>3. /\ call'.rows = call.rows /\ call'.phase = call.phase /\ call'.fields = call.fields
      /\ call.rows \subseteq Rows
  BY <1>1, TypeParts DEF Calls
<1>4. InFlight' = InFlight /\ InFlight \subseteq Rows
  <2>1. InFlight' = InFlight
    BY <1>1 DEF InFlight, With
  <2> QED BY <2>1, TypeParts, WithRows DEF InFlight
<1>5. Truthful(journal)'
  BY <1>1, <1>2, JournalKept DEF Accounted
<1>6. FlightKnown'
  BY <1>1, <1>2, <1>4, FlightKept DEF Accounted
<1>7. ViewsAge' /\ ReceiptsFollow'
  BY <1>1, <1>2, TypeParts, ViewsKept DEF Typed, Accounted
<1>8. CallCarries'
  <2>1. \A r, phase : Sent(r, phase)' = Sent(r, phase)
    BY <1>1 DEF Sent, Deferred
  <2>2. worker'.pc = "wait" => call'.fields = UNION {Sent(r, call.phase)' : r \in call.rows}
    BY <2>1, <1>1, <1>3 DEF Accounted, CallCarries
  <2>3. call'.answer = "accepted" => Carry(call)
    BY <1>1, TypeParts DEF Calls
  <2>4. call'.answer = "accepted" =>
          /\ call.fields \subseteq written'
          /\ call.phase = "CREATE" => \A r \in call.rows : count'[r] > 0
    BY <2>3, <1>3, CarryGrows
  <2> QED BY <2>2, <2>4, <1>3 DEF CallCarries
<1>9. worker'.pc = "recover" => Truthful(seen)'
  <2>1. ASSUME worker'.pc = "recover", NEW r \in Rows
        PROVE  /\ seen[r] = "COMMITTED" => Whole(r)'
               /\ seen[r] = "PARTIALLY_APPLIED" => Placed(r)'
    <3>1. Truthful(seen)
      BY <2>1, <1>1 DEF Accounted
    <3>2. /\ seen[r] = "COMMITTED" => Whole(r)
          /\ seen[r] = "PARTIALLY_APPLIED" => Placed(r)
      BY <3>1 DEF Truthful
    <3> QED BY <3>2, <1>1, <1>2, RowsGrow
  <2> QED BY <2>1, <1>1 DEF Truthful
<1> QED BY <1>5, <1>6, <1>7, <1>8, <1>9 DEF Accounted

LEMMA LateAccounted ==
  ASSUME Typed, Accounted, NEW c \in late, HandleLate(c)
  PROVE  Accounted'
<1>1. UNCHANGED <<plan, review, kept, reading, flight, call, run, journal, worker, seen>>
  BY DEF HandleLate, past, compared, rowsVars
<1>2. Grows
  BY CarryGrows DEF HandleLate
<1>3. InFlight' = InFlight
  BY <1>1 DEF InFlight, With
<1> QED BY <1>1, <1>2, <1>3, AccountKept

LEMMA CompareAccounted ==
  ASSUME Typed, Accounted, Compare \/ Publish \/ Close
  PROVE  Accounted'
<1>1. UNCHANGED <<plan, flight, call, count, written, journal, worker, seen>>
  BY DEF Compare, Publish, Close, rowsVars, odoo
<1>2. InFlight' = InFlight /\ InFlight \subseteq Rows
  <2>1. InFlight' = InFlight
    BY <1>1 DEF InFlight, With
  <2> QED BY <2>1, TypeParts, WithRows DEF InFlight
<1>3. Truthful(journal)' /\ (worker'.pc = "recover" => Truthful(seen)')
  BY <1>1 DEF Accounted, Truthful, Whole, Placed, FieldsOf
<1>4. FlightKnown' /\ CallCarries'
  BY <1>1, <1>2, OdooSame, TypeParts, FlightKept, CallKept DEF Accounted
<1>5. ViewsAge' /\ ReceiptsFollow'
  <2>1. count \in [Rows -> Nat] /\ reading \subseteq Reviewed /\ review.creates \subseteq Rows
    BY TypeParts DEF Reviewed
  <2>2. /\ \A r \in Rows \ review.creates : count[r] > 0
        /\ \A v \in reading :
             v.creates \subseteq review.creates /\ \A r \in Rows \ v.creates : count[r] > 0
        /\ \A r \in plan.updates : count[r] > 0
    BY DEF Accounted, ViewsAge
  <2>3. \A r \in kept :
          count[r] > 0 /\ r \notin review.creates /\ (run = "RUNNING" => r \notin plan.creates)
    BY DEF Accounted, ReceiptsFollow
  <2>4. CASE Compare
    <3>1. UNCHANGED <<review, kept, run>> /\ reading' = {Compared}
      BY <2>4 DEF Compare
    <3>2. Compared.creates = {r \in Rows : count[r] = 0}
      BY DEF Compared
    <3>3. Compared.creates \subseteq review.creates /\ \A r \in Rows \ Compared.creates : count[r] > 0
      BY <3>2, <2>1, <2>2
    <3>4. ViewsAge'
      BY <3>1, <3>3, <2>2, <1>1 DEF ViewsAge
    <3> QED BY <3>1, <3>4, <2>3, <1>1 DEF ReceiptsFollow
  <2>5. CASE Publish
    <3>1. UNCHANGED <<kept, run>> /\ reading' = {} /\ \E view \in reading : review' = view
      BY <2>5 DEF Publish
    <3>2. ViewsAge'
      BY <3>1, <2>2, <1>1 DEF ViewsAge
    <3>3. ReceiptsFollow'
      BY <3>1, <2>2, <2>3, <1>1 DEF ReceiptsFollow
    <3> QED BY <3>2, <3>3
  <2>6. CASE Close
    <3>1. UNCHANGED <<review, reading>> /\ kept' = kept \cup With(journal, Created)
          /\ run' = "CLOSED" /\ ReceiptsFound
      BY <2>6 DEF Close, compared
    <3>2. \A r \in With(journal, Created) : count[r] > 0 /\ r \notin review.creates
      <4> TAKE r \in With(journal, Created)
      <4>1. r \in Rows /\ journal[r] \in Created
        BY TypeParts, WithRows
      <4>2. count[r] > 0
        BY <4>1 DEF Accounted, Truthful, Whole, Placed, Created
      <4> QED BY <4>2, <3>1 DEF ReceiptsFound
    <3>3. ReceiptsFollow'
      BY <3>1, <3>2, <2>3, <1>1 DEF ReceiptsFollow
    <3>4. ViewsAge'
      BY <3>1, <2>2, <1>1 DEF ViewsAge
    <3> QED BY <3>3, <3>4
  <2> QED BY <2>4, <2>5, <2>6
<1> QED BY <1>3, <1>4, <1>5 DEF Accounted

LEMMA StartAccounted ==
  ASSUME Typed, Typed', Flows, Accounted, NEW p \in Policies, Start(p)
  PROVE  Accounted'
<1>1. /\ UNCHANGED <<reading, review, kept, call, count, written>>
      /\ journal' = [r \in Rows |-> IF r \in RowsOf(plan') THEN "PLANNED" ELSE "NONE"]
      /\ worker' = Transport /\ worker.pc = "off"
  BY DEF Start, odoo
<1>2. plan'.creates = review.creates /\ plan'.updates \subseteq Rows \ plan'.creates
  BY StartTyped DEF Typed, PlanShape
<1>3. \A r \in Rows : journal'[r] \in {"PLANNED", "NONE"}
  BY <1>1
<1>4. Truthful(journal)'
  BY <1>3 DEF Truthful
<1>5. FlightKnown'
  <2>1. journal' \in Rowed
    BY DEF Typed, TypeOK, Rowed
  <2>2. InFlight' = {}
    BY <2>1, <1>3, RowSets DEF InFlight
  <2> QED BY <2>2 DEF FlightKnown
<1>6. ViewsAge'
  BY <1>1, <1>2 DEF Accounted, ViewsAge
<1>7. ReceiptsFollow'
  BY <1>1, <1>2 DEF Accounted, ReceiptsFollow
<1>8. worker'.pc = "group"
  BY <1>1, TransportTyped
<1>9. CallCarries'
  BY <1>1, <1>8 DEF Flows, CallsFollow, CallCarries
<1> QED BY <1>4, <1>5, <1>6, <1>7, <1>8, <1>9 DEF Accounted

LEMMA InitAccounted ==
  ASSUME Init
  PROVE  Accounted
<1>1. /\ count \in [Rows -> Nat] /\ reading = {} /\ review = Compared /\ kept = {}
      /\ journal = [r \in Rows |-> "NONE"] /\ worker = NoWorker /\ call = NoCall
  BY DEF Init
<1>2. worker.pc = "off"
  BY <1>1, NoWorkerTyped
<1>3. Truthful(journal)
  BY <1>1 DEF Truthful
<1>4. InFlight = {}
  BY <1>1 DEF InFlight, With
<1>5. plan.updates = {}
  <2>1. plan.updates = {f.owner : f \in {}} \ {}
    BY ScheduleShape DEF Init, PlanOf
  <2> QED BY <2>1
<1>6. ViewsAge
  <2>1. review.creates = {r \in Rows : count[r] = 0}
    BY <1>1 DEF Compared
  <2> QED BY <2>1, <1>1, <1>5 DEF ViewsAge
<1>7. FlightKnown /\ ReceiptsFollow /\ CallCarries
  BY <1>1, <1>2, <1>4 DEF FlightKnown, ReceiptsFollow, CallCarries, NoCall
<1> QED BY <1>2, <1>3, <1>6, <1>7 DEF Accounted

LEMMA NextAccounted ==
  ASSUME Typed, Typed', Flows, Flows', Accounted, [Next]_vars
  PROVE  Accounted'
<1>1. CASE UNCHANGED vars
  <2>1. UNCHANGED <<plan, review, kept, reading, flight, call, count, written, run, journal, worker, seen>>
    BY <1>1 DEF vars, past, compared, rowsVars, odoo
  <2>2. InFlight' = InFlight
    BY <2>1 DEF InFlight, With
  <2> QED BY <2>1, <2>2, OdooSame, AccountKept
<1>2. CASE Work
  <2>1. CASE Begins
    BY <2>1, BeginShape, WalkAccounted, DepartsAccounted
  <2>2. CASE Finishes
    <3>1. PICK status \in RunStatuses \ {"NONE", "RUNNING", "CLOSED"} : FinishRun(status)
      BY <2>2 DEF Finishes
    <3> QED BY <2>2, <3>1, EndingAccounted DEF Finishes
  <2> QED BY <1>2, <2>1, <2>2, WorkShapes, WalkAccounted, BlocksAccounted, RecoverAccounted
<1>3. CASE Next /\ ~Work
  BY <1>3, StartAccounted, SettleAccounted, StopsAccounted, AssessAccounted, CrashAccounted,
     CompareAccounted, HandleAccounted, LateAccounted DEF Next
<1> QED BY <1>1, <1>2, <1>3

LEMMA LoadAccounts == Spec => [](Typed /\ Flows /\ Accounted)
<1>1. Init => Typed /\ Flows /\ Accounted
  BY InitTyped, InitFlows, InitAccounted
<1>2. Typed /\ Flows /\ Accounted /\ [Next]_vars => Typed' /\ Flows' /\ Accounted'
  BY NextTyped, NextFlows, NextAccounted
<1> QED BY <1>1, <1>2, PTL DEF Spec

LEMMA TruthIsWritten == Accounted => AcceptedIsWritten
BY DEF Accounted, Truthful, Whole, Placed, AcceptedIsWritten

(* Whatever the journal calls committed or partly applied is in Odoo with  *)
(* its record and its fields, also over lost and late answers, exits and   *)
(* recoveries; and a record that a closed load has a receipt for is there  *)
(* and is not created again by the loads after it.                         *)
THEOREM ReceiptsAreHeld == Spec => []ReceiptsHold
<1>1. Typed /\ Flows /\ Accounted => ReceiptsHold
  BY TruthIsWritten DEF Accounted, ReceiptsFollow, ReceiptsHold
<1> QED BY <1>1, LoadAccounts, PTL

---------------------------------------------------------------------------
(* What Odoo does not hold, when it is done with every abandoned call.     *)
LEMMA OdooStill ==
  ASSUME UNCHANGED <<plan, count, written>>
  PROVE  \A r : Absent(r)' <=> Absent(r)
BY DEF Absent, FieldsOf

LEMMA ComparedStill ==
  ASSUME UNCHANGED <<prepared, count, written>>
  PROVE  Compared' = Compared
BY DEF Compared, fields

LEMMA UntouchedStill ==
  ASSUME UNCHANGED <<plan, count, written>>, Untouched(journal),
         \A r \in Rows : journal'[r] \in Unwritten => journal[r] \in Unwritten
  PROVE  Untouched(journal)'
<1> SUFFICES ASSUME NEW r \in Rows, journal'[r] \in Unwritten
             PROVE  Absent(r)'
  BY DEF Untouched
<1>1. Absent(r)
  BY DEF Untouched
<1> QED BY <1>1, OdooStill

LEMMA SeenStill ==
  ASSUME UNCHANGED <<plan, count, written, seen>>, Untouched(seen)
  PROVE  Untouched(seen)'
<1> SUFFICES ASSUME NEW r \in Rows, seen[r] \in Unwritten
             PROVE  Absent(r)'
  BY DEF Untouched
<1>1. Absent(r)
  BY DEF Untouched
<1> QED BY <1>1, OdooStill

LEMMA ViewsStill ==
  ASSUME UNCHANGED <<prepared, review, fresh, count, written>>, reading' \subseteq reading,
         run' = "RUNNING" => run = "RUNNING", ViewsHold
  PROVE  ViewsHold'
BY ComparedStill DEF ViewsHold

LEMMA OwnedStill ==
  ASSUME UNCHANGED <<count, written>>, Owned
  PROVE  Owned'
BY DEF Owned

LEMMA UpdatesStill ==
  ASSUME UNCHANGED <<plan, flight, written>>, InFlight' \subseteq InFlight, UpdatesWhole
  PROVE  UpdatesWhole'
BY DEF UpdatesWhole, FieldsOf

(* A step that does not touch Odoo, and records nothing as unwritten that  *)
(* was not so.                                                             *)
LEMMA ApartKept ==
  ASSUME Apart, UNCHANGED <<prepared, plan, review, fresh, flight, count, written>>, late' = late,
         reading' \subseteq reading, run' = "RUNNING" => run = "RUNNING",
         InFlight' \subseteq InFlight,
         \A r \in Rows : journal'[r] \in Unwritten => journal[r] \in Unwritten,
         worker'.pc = "wait" => worker.pc = "wait" /\ call' = call,
         worker'.pc = "recover" => worker.pc = "recover" /\ seen' = seen
  PROVE  Apart'
<1>1. late' = {} /\ \A r \in Rows : count'[r] <= 1
  BY DEF Apart
<1>2. Remote' = Remote
  BY DEF Remote
<1>3. ASSUME ~Remote
      PROVE  Local'
  <2>1. Local
    BY <1>3 DEF Apart
  <2>2. Owned' /\ ViewsHold' /\ UpdatesWhole' /\ Untouched(journal)'
    BY <2>1, OwnedStill, ViewsStill, UpdatesStill, UntouchedStill DEF Local
  <2>3. worker'.pc = "recover" => Untouched(seen)'
    BY <2>1, SeenStill DEF Local
  <2>4. NotYet'
    BY <2>1, OdooStill DEF Local, NotYet
  <2> QED BY <2>2, <2>3, <2>4 DEF Local
<1> QED BY <1>1, <1>2, <1>3 DEF Apart

LEMMA WalkApart ==
  ASSUME Typed, Apart, Walk
  PROVE  Apart'
<1>1. /\ UNCHANGED <<prepared, plan, review, fresh, reading, flight, count, written, late, run, journal>>
      /\ worker'.pc \notin {"wait", "recover"}
  BY DEF Walk, Idle, past, compared, rowsVars, odoo, Onward
<1>2. InFlight' = InFlight
  BY <1>1 DEF InFlight, With
<1> QED BY <1>1, <1>2, ApartKept

LEMMA BlocksApart ==
  ASSUME Typed, Typed', Flows, Apart, Blocks
  PROVE  Apart'
<1>1. PICK S \in SUBSET Rows, then \in Worker : Onward(then) /\ Block(S, then)
  BY DEF Blocks
<1>2. UNCHANGED <<prepared, plan, review, fresh, reading, flight, count, written, late, run, policy, control>>
  BY <1>1 DEF Block, past, compared, odoo
<1>3. PICK T \in SUBSET Rows : BlocksRows(S, T)
  BY <1>1, BlockedRows
<1>4. /\ \A r \in T : journal[r] \in Unattempted
      /\ T = {} \/ run = "RUNNING"
      /\ journal' = [r \in Rows |-> IF r \in T THEN "BLOCKED" ELSE journal[r]]
  BY <1>3 DEF BlocksRows
<1>5. InFlight' = InFlight
  BY <1>2, <1>4, BlockingKeeps
<1>6. \A r \in Rows : journal'[r] \in Unwritten => journal[r] \in Unwritten
  BY <1>4 DEF Unwritten
<1>7. worker'.pc \notin {"wait", "recover"}
  BY <1>1, BlockedRows, NoWorkerTyped DEF Onward
<1> QED BY <1>2, <1>5, <1>6, <1>7, ApartKept

LEMMA EndingApart ==
  ASSUME Typed, Apart, NEW status \in RunStatuses, FinishRun(status), status # "RUNNING",
         UNCHANGED <<past, rowsVars, seen, odoo, call>>,
         worker' = NoWorker \/ worker' = worker
  PROVE  Apart'
<1>1. UNCHANGED <<prepared, plan, review, fresh, reading, flight, call, count, written, late, journal, seen>>
  BY DEF past, compared, rowsVars, odoo
<1>2. run' = "RUNNING" => run = "RUNNING"
  BY FinishFacts
<1>3. InFlight' = InFlight
  BY <1>1 DEF InFlight, With
<1>4. worker'.pc \in {"wait", "recover"} => worker' = worker
  BY NoWorkerTyped
<1> QED BY <1>1, <1>2, <1>3, <1>4, ApartKept

LEMMA StopsApart ==
  ASSUME Typed, Typed', Flows, Apart, RequestStop \/ Stopping
  PROVE  Apart'
<1>1. CASE RequestStop \/ StopRead \/ StopBlock
  <2>1. /\ UNCHANGED <<prepared, plan, review, fresh, reading, flight, count, written, late>>
        /\ UNCHANGED <<call, run, policy, worker, seen>>
    BY <1>1 DEF RequestStop, StopRead, StopBlock, past, compared, rowsVars, odoo
  <2>2. CASE journal' = journal
    <3>1. InFlight' = InFlight
      BY <2>2 DEF InFlight, With
    <3> QED BY <2>1, <2>2, <3>1, ApartKept
  <2>3. CASE /\ stopper.rows = {} \/ MayBlock(stopper.rows)
             /\ journal' = Marked(journal, stopper.rows, "BLOCKED")
    <3>1. \A r \in Rows : \/ journal'[r] = journal[r]
                          \/ journal'[r] = "BLOCKED" /\ journal[r] \in Unattempted
      BY <2>3 DEF Marked, MayBlock, With
    <3>2. \A r \in Rows : journal'[r] \in Unwritten => journal[r] \in Unwritten
      BY <3>1 DEF Unwritten
    <3>3. InFlight' \subseteq InFlight
      <4>1. journal \in Rowed /\ journal' \in Rowed
        <5>1. journal' \in Rowed
          BY DEF Typed, TypeOK, Rowed
        <5> QED BY <5>1, TypeParts
      <4>2. InFlight = {r \in Rows : journal[r] = "IN_FLIGHT"}
            /\ InFlight' = {r \in Rows : journal'[r] = "IN_FLIGHT"}
        BY <4>1, RowSets DEF InFlight
      <4> QED BY <4>2, <3>1
    <3> QED BY <2>1, <3>2, <3>3, ApartKept
  <2> QED BY <1>1, <2>2, <2>3 DEF RequestStop, StopRead, StopBlock, rowsVars
<1>2. CASE StopFinish
  <2>1. /\ FinishRun("COMPLETED_WITH_ERRORS") /\ worker' = worker
        /\ UNCHANGED <<past, rowsVars, seen, odoo, call>>
    BY <1>2 DEF StopFinish
  <2>2. "COMPLETED_WITH_ERRORS" \in RunStatuses
    BY DEF RunStatuses
  <2> QED BY <2>1, <2>2, EndingApart
<1> QED BY <1>1, <1>2 DEF Stopping

LEMMA DepartsApart ==
  ASSUME Typed, Typed', Flows, Flows', Apart,
         NEW S \in SUBSET Rows, NEW phase \in Phases, Departs(S, phase)
  PROVE  Apart'
<1>1. /\ UNCHANGED <<prepared, plan, review, fresh, reading, count, written, late, run>>
      /\ \A r \in S : journal[r] \in Expected(phase)
      /\ journal' = [r \in Rows |-> IF r \in S THEN "IN_FLIGHT" ELSE journal[r]]
      /\ flight' = phase /\ call'.rows = S /\ call'.phase = phase
      /\ worker' = [worker EXCEPT !.pc = "wait"]
  BY DEF Departs, past, compared, odoo
<1>2. Remote' = Remote /\ late' = {} /\ \A r \in Rows : count'[r] <= 1
  BY <1>1 DEF Remote, Apart
<1>3. worker'.pc = "wait"
  BY <1>1, TypeParts DEF Worker
<1>4. InFlight' = S
  BY <1>1, <1>3 DEF Flows, CallsFollow
<1>5. ASSUME ~Remote
      PROVE  Local'
  <2>1. Local
    BY <1>5 DEF Apart
  <2>2. Owned' /\ ViewsHold'
    BY <1>1, <2>1, OwnedStill, ViewsStill DEF Local
  <2>3. \A r \in Rows : journal'[r] \in Unwritten => journal[r] \in Unwritten
    BY <1>1 DEF Unwritten, Unattempted
  <2>4. Untouched(journal)'
    BY <1>1, <2>1, <2>3, UntouchedStill DEF Local
  <2>5. phase # "COMPLETION" => \A r \in S : Absent(r)
    <3>1. phase # "COMPLETION" => \A r \in S : journal[r] \in Unwritten
      BY <1>1 DEF Expected, Unwritten
    <3> QED BY <2>1, <3>1 DEF Local, Untouched
  <2>6. NotYet'
    BY <1>1, <2>5, OdooStill DEF NotYet
  <2>7. UpdatesWhole'
    <3>1. ASSUME phase = "UPDATE", NEW r \in S
          PROVE  FieldsOf(plan', r) \cap written' = {}
      BY <2>5, <3>1, <1>1 DEF Absent
    <3> QED BY <3>1, <1>1, <1>4 DEF UpdatesWhole
  <2> QED BY <2>2, <2>4, <2>6, <2>7, <1>3 DEF Local
<1> QED BY <1>2, <1>5 DEF Apart

LEMMA RecoverApart ==
  ASSUME Typed, Typed', Flows, Flows', Apart, Recover \/ Continue
  PROVE  Apart'
<1>1. /\ UNCHANGED <<prepared, plan, review, fresh, reading, flight, count, written, late, run, call>>
      /\ worker.pc \in {"recover", "continue"}
  <2>1. CASE Recover
    BY <2>1 DEF Recover, past, compared, odoo
  <2>2. CASE Continue
    BY <2>2 DEF Continue, past, compared, odoo, rowsVars
  <2> QED BY <2>1, <2>2
<1>2. worker'.pc \in {"off", "continue", "group"}
  <2>1. [worker EXCEPT !.pc = "continue"].pc = "continue"
    BY TypeParts DEF Worker
  <2>2. \/ worker' = NoWorker \/ worker' = Transport
        \/ worker' = [worker EXCEPT !.pc = "continue"]
    BY DEF Recover, Continue
  <2> QED BY <2>1, <2>2, NoWorkerTyped, TransportTyped
<1>3. CASE journal' = journal
  <2>1. InFlight' = InFlight
    BY <1>3 DEF InFlight, With
  <2> QED BY <1>1, <1>2, <1>3, <2>1, ApartKept
<1>4. CASE Recover /\ journal' = seen
  <2>1. worker.pc = "recover" /\ \A r \in Rows : seen[r] # "IN_FLIGHT"
    BY <1>4 DEF Recover, Flows, CopyFollows
  <2>2. InFlight' = {}
    <3>1. seen \in Rowed
      BY TypeParts
    <3> QED BY <2>1, <3>1, <1>4 DEF InFlight, With, Rowed
  <2>3. Remote' = Remote /\ late' = {} /\ \A r \in Rows : count'[r] <= 1
    BY <1>1 DEF Remote, Apart
  <2>4. ASSUME ~Remote
        PROVE  Local'
    <3>1. Local /\ Untouched(seen)
      BY <2>1, <2>4 DEF Apart, Local
    <3>2. Owned' /\ ViewsHold'
      BY <1>1, <3>1, OwnedStill, ViewsStill DEF Local
    <3>3. Untouched(journal)'
      <4> SUFFICES ASSUME NEW r \in Rows, seen[r] \in Unwritten
                   PROVE  Absent(r)'
        BY <1>4 DEF Untouched
      <4>1. Absent(r)
        BY <3>1 DEF Untouched
      <4> QED BY <4>1, <1>1, OdooStill
    <3>4. UpdatesWhole' /\ NotYet'
      BY <2>2, <1>2 DEF UpdatesWhole, NotYet
    <3> QED BY <3>2, <3>3, <3>4, <1>2 DEF Local
  <2> QED BY <2>3, <2>4 DEF Apart
<1> QED BY <1>3, <1>4 DEF Recover, Continue, rowsVars

LEMMA SettledApartFrom ==
  ASSUME ~LateCalls, Typed, Typed', Flows, Flows', Apart, worker.pc = "wait",
         NEW status \in [Rows -> Statuses], SettledAs(status),
         ~Remote => \A r \in call.rows : status[r] \in Unwritten => Absent(r)
  PROVE  Apart'
<1>1. /\ UNCHANGED <<prepared, plan, review, fresh, reading, flight, count, written, late, run>>
      /\ journal' = [r \in Rows |-> IF r \in call.rows THEN status[r] ELSE journal[r]]
      /\ worker'.pc \in Sending
  BY DEF SettledAs, past, compared
<1>2. Remote' = Remote /\ late' = {} /\ \A r \in Rows : count'[r] <= 1
  BY <1>1 DEF Remote, Apart
<1>3. InFlight' = {}
  BY <1>1 DEF Flows, CallsFollow, Sending
<1>4. ASSUME ~Remote
      PROVE  Local'
  <2>1. Local
    BY <1>4 DEF Apart
  <2>2. Owned' /\ ViewsHold'
    BY <1>1, <2>1, OwnedStill, ViewsStill DEF Local
  <2>3. Untouched(journal)'
    <3> SUFFICES ASSUME NEW r \in Rows, journal'[r] \in Unwritten
                 PROVE  Absent(r)'
      BY DEF Untouched
    <3>1. CASE r \in call.rows
      <4>1. status[r] \in Unwritten
        BY <3>1, <1>1
      <4> QED BY <3>1, <4>1, <1>1, <1>4, OdooStill
    <3>2. CASE r \notin call.rows
      <4>1. journal[r] \in Unwritten
        BY <3>2, <1>1
      <4>2. Absent(r)
        BY <4>1, <2>1 DEF Local, Untouched
      <4> QED BY <4>2, <1>1, OdooStill
    <3> QED BY <3>1, <3>2
  <2>4. UpdatesWhole' /\ NotYet'
    BY <1>1, <1>3 DEF UpdatesWhole, NotYet, Sending
  <2> QED BY <2>2, <2>3, <2>4, <1>1 DEF Local, Sending
<1> QED BY <1>2, <1>4 DEF Apart

LEMMA SettleApart ==
  ASSUME ~LateCalls, Typed, Typed', Flows, Flows', Apart, Settle
  PROVE  Apart'
<1>1. worker.pc = "wait" /\ call.rows \subseteq Rows
  BY TypeParts DEF Settle, Calls
<1>2. CASE SettledWritten
  <2>1. SettledAs(AsWritten) /\ \A r \in call.rows : AsWritten[r] \notin Unwritten
    BY <1>1, <1>2, StatusesOf DEF SettledWritten, Created, Unwritten, Unattempted
  <2> QED BY <1>1, <2>1, StatusesOf, SettledApartFrom
<1>3. CASE SettledApart
  <2>1. SettledAs(As("RETRY_READY")) /\ call.answer # "accepted" /\ call.phase # "COMPLETION"
    BY <1>3 DEF SettledApart
  <2>2. ~Remote => \A r \in call.rows : Absent(r)
    BY <1>1, <2>1 DEF Apart, Local, NotYet
  <2> QED BY <1>1, <2>1, <2>2, StatusesOf, SettledApartFrom
<1>4. CASE SettledRejected
  <2>1. SettledAs(AsRejected) /\ call.answer # "accepted"
    BY <1>4 DEF SettledRejected
  <2>2. ASSUME ~Remote, NEW r \in call.rows, AsRejected[r] \in Unwritten
        PROVE  Absent(r)
    <3>1. call.phase # "COMPLETION"
      BY <1>1, <2>2 DEF AsRejected, Unwritten, Unattempted
    <3> QED BY <1>1, <2>1, <2>2, <3>1 DEF Apart, Local, NotYet
  <2> QED BY <1>1, <2>1, <2>2, StatusesOf, SettledApartFrom
<1>5. CASE SettledUnknown
  <2>1. /\ SettledAs(As("OUTCOME_UNKNOWN"))
        /\ \A r \in call.rows : As("OUTCOME_UNKNOWN")[r] \notin Unwritten
    BY <1>1, <1>5, StatusesOf DEF SettledUnknown, Unwritten, Unattempted
  <2> QED BY <1>1, <2>1, StatusesOf, SettledApartFrom
<1> QED BY <1>2, <1>3, <1>4, <1>5, SettleShape

(* A row that recovery frees to be sent again has left nothing behind.     *)
LEMMA FreedIsAbsent ==
  ASSUME Typed, Flows, Accounted, Local, \A r \in Rows : count[r] <= 1,
         NEW r \in Rows, Found(r) \in Unwritten
  PROVE  Absent(r)
<1>1. count[r] \in Nat /\ flight \in Phases /\ journal \in Rowed /\ count[r] <= 1
  BY TypeParts
<1>2. FoundRecord(r) \in Unwritten =>
        flight = "UPDATE" /\ Differing(r) # {}
  BY DEF FoundRecord, Unwritten, Unattempted
<1>3. CASE journal[r] = "IN_FLIGHT" /\ flight = "CREATE"
  <2>1. Found(r) = FoundCreate(r)
    BY <1>3 DEF Found
  <2>2. count[r] = 0
    BY <2>1, <1>1, <1>2, <1>3 DEF FoundCreate, Unwritten, Unattempted
  <2>3. FieldsOf(plan, r) \cap written = {}
    BY <2>2 DEF Local, Owned, FieldsOf
  <2> QED BY <2>2, <2>3 DEF Absent
<1>4. CASE journal[r] = "IN_FLIGHT" /\ flight # "CREATE"
  <2>1. flight = "UPDATE" /\ Differing(r) # {}
    BY <1>2, <1>4 DEF Found
  <2>2. r \in InFlight
    BY <1>1, <1>4, RowSets DEF InFlight
  <2>3. FieldsOf(plan, r) \cap written = {}
    BY <2>1, <2>2 DEF Local, UpdatesWhole, Differing
  <2>4. r \notin plan.creates
    BY <2>1, <2>2 DEF Accounted, FlightKnown, Typed, PlanShape
  <2> QED BY <2>3, <2>4 DEF Absent
<1>5. CASE journal[r] = "PARTIALLY_APPLIED"
  <2>1. Found(r) \in {"COMMITTED", "OUTCOME_UNKNOWN", "PARTIALLY_APPLIED"}
    BY <1>5 DEF Found
  <2> QED BY <2>1 DEF Unwritten, Unattempted
<1>6. CASE journal[r] \notin {"IN_FLIGHT", "PARTIALLY_APPLIED"}
  <2>1. Found(r) = journal[r]
    BY <1>6 DEF Found
  <2> QED BY <2>1 DEF Local, Untouched
<1> QED BY <1>3, <1>4, <1>5, <1>6

LEMMA AssessApart ==
  ASSUME Typed, Flows, Accounted, Apart, Assess
  PROVE  Apart'
<1>1. /\ UNCHANGED <<prepared, plan, review, fresh, reading, flight, count, written, late, run, journal>>
      /\ seen' = [r \in Rows |-> Found(r)] /\ worker' = [NoWorker EXCEPT !.pc = "recover"]
  BY DEF Assess, past, compared, rowsVars, odoo
<1>2. worker'.pc = "recover" /\ InFlight' = InFlight
  BY <1>1, TransportTyped DEF InFlight, With
<1>3. Remote' = Remote /\ late' = {} /\ \A r \in Rows : count'[r] <= 1
  BY <1>1 DEF Remote, Apart
<1>4. ASSUME ~Remote
      PROVE  Local'
  <2>1. Local /\ \A r \in Rows : count[r] <= 1
    BY <1>4 DEF Apart
  <2>2. Owned' /\ ViewsHold' /\ UpdatesWhole' /\ Untouched(journal)'
    BY <1>1, <1>2, <2>1, OwnedStill, ViewsStill, UpdatesStill, UntouchedStill DEF Local
  <2>3. Untouched(seen)'
    <3> SUFFICES ASSUME NEW r \in Rows, Found(r) \in Unwritten
                 PROVE  Absent(r)'
      BY <1>1 DEF Untouched
    <3>1. Absent(r)
      BY <2>1, FreedIsAbsent
    <3> QED BY <3>1, <1>1, OdooStill
  <2>4. NotYet'
    BY <1>2 DEF NotYet
  <2> QED BY <2>2, <2>3, <2>4 DEF Local
<1> QED BY <1>3, <1>4 DEF Apart

LEMMA CrashApart ==
  ASSUME ~LateCalls, Typed, Apart, Crash
  PROVE  Apart'
<1>1. /\ UNCHANGED <<prepared, plan, review, fresh, flight, count, written, late, run, journal>>
      /\ reading' = {} /\ worker' = NoWorker
  BY DEF Crash, GiveUp, rowsVars
<1>2. worker'.pc = "off" /\ InFlight' = InFlight
  BY <1>1, NoWorkerTyped DEF InFlight, With
<1> QED BY <1>1, <1>2, ApartKept

(* A call carries the fields of its own rows only.                         *)
LEMMA CallOwnsFields ==
  ASSUME Accounted, worker.pc = "wait"
  PROVE  \A f \in call.fields : f.owner \in call.rows
<1>1. call.fields = UNION {Sent(r, call.phase) : r \in call.rows}
  BY DEF Accounted, CallCarries
<1>2. \A r : Sent(r, call.phase) \subseteq FieldsOf(plan, r)
  BY DEF Sent, Deferred, DeferredOf
<1>3. \A r : \A f \in FieldsOf(plan, r) : f.owner = r
  BY DEF FieldsOf
<1> QED BY <1>1, <1>2, <1>3

LEMMA CarriedOnce ==
  ASSUME Typed, Flows, Apart, call.rows # {}, call.answer = "none", Carry(call)
  PROVE  \A r \in Rows : count'[r] <= 1
<1>1. count \in [Rows -> Nat] /\ \A r \in Rows : count[r] <= 1
  BY TypeParts DEF Apart
<1>2. CASE call.phase # "CREATE"
  BY <1>1, <1>2 DEF Carry
<1>3. CASE call.phase = "CREATE"
  <2>1. count' = [r \in Rows |-> IF r \notin call.rows THEN count[r]
                                 ELSE IF Remote THEN 1 ELSE count[r] + 1]
    BY <1>3 DEF Carry
  <2>2. CASE Remote
    BY <2>1, <2>2, <1>1
  <2>3. CASE ~Remote
    <3>1. worker.pc = "wait"
      BY DEF Flows, CallsFollow
    <3>2. call.rows \subseteq plan.creates
      BY <3>1, <1>3 DEF Typed, Creating
    <3>3. \A r \in call.rows : count[r] = 0
      BY <3>1, <3>2, <2>3, <1>3 DEF Apart, Local, NotYet, Absent
    <3> QED BY <2>1, <3>3, <1>1
  <2> QED BY <2>2, <2>3
<1> QED BY <1>2, <1>3

LEMMA CarriedLocal ==
  ASSUME Typed, Flows, Accounted, Local, call.rows # {}, call.answer = "none",
         Carry(call), call' = [call EXCEPT !.answer = "accepted"],
         UNCHANGED <<prepared, plan, review, fresh, reading, flight, run, journal, worker>>
  PROVE  Local'
<1>1. /\ worker.pc = "wait" /\ run = "RUNNING" /\ InFlight = call.rows /\ flight = call.phase
  BY DEF Flows, CallsFollow
<1>2. count \in [Rows -> Nat] /\ journal \in Rowed /\ call.rows \subseteq Rows /\ call.phase \in Phases
  BY TypeParts DEF Calls
<1>3. /\ Grows
      /\ call.phase = "CREATE" => \A r \in call.rows : count'[r] > 0
  BY <1>2, CarryGrows
<1>4. written' = written \cup call.fields /\ \A f \in call.fields : f.owner \in call.rows
  BY <1>1, CallOwnsFields DEF Carry
<1>5. InFlight' = call.rows
  BY <1>1 DEF InFlight, With
<1>6. Owned'
  <2>1. \A r \in call.rows : count'[r] > 0
    <3>1. CASE call.phase = "CREATE"
      BY <3>1, <1>3
    <3>2. CASE call.phase = "UPDATE"
      <4>1. \A r \in call.rows : count[r] > 0
        BY <3>2, <1>1 DEF Accounted, FlightKnown, ViewsAge
      <4> QED BY <4>1, <1>2, <1>3 DEF Grows
    <3>3. CASE call.phase = "COMPLETION"
      <4>1. \A r \in call.rows : count[r] > 0
        BY <3>3, <1>1 DEF Accounted, FlightKnown, Placed
      <4> QED BY <4>1, <1>2, <1>3 DEF Grows
    <3> QED BY <3>1, <3>2, <3>3, <1>2 DEF Phases
  <2>2. \A f \in written : f.owner \in Rows /\ count[f.owner] > 0
    <3>1. \A f \in fields : f.owner \in Rows
      BY SituationsAssumption DEF Typed, fields
    <3> QED BY <3>1, TypeParts DEF Local, Owned
  <2>3. \A f \in written : count'[f.owner] > 0
    BY <2>2, <1>3 DEF Grows
  <2> QED BY <2>1, <2>3, <1>4 DEF Owned
<1>7. ViewsHold'
  BY <1>1 DEF Local, ViewsHold
<1>8. UpdatesWhole'
  <2> SUFFICES ASSUME call.phase = "UPDATE", NEW r \in call.rows
               PROVE  FieldsOf(plan, r) \subseteq written'
    BY <1>1, <1>5 DEF UpdatesWhole
  <2>1. r \in plan.updates
    BY <1>1 DEF Accounted, FlightKnown
  <2>2. FieldsOf(plan, r) \cap plan.deferred = {}
    BY <2>1 DEF Typed, PlanShape, Deferred, DeferredOf
  <2>3. Sent(r, call.phase) = FieldsOf(plan, r)
    BY <2>2 DEF Sent
  <2>4. Sent(r, call.phase) \subseteq call.fields
    <3>1. call.fields = UNION {Sent(q, call.phase) : q \in call.rows}
      BY <1>1 DEF Accounted, CallCarries
    <3> QED BY <3>1
  <2> QED BY <2>3, <2>4, <1>4
<1>9. NotYet'
  BY TypeParts DEF NotYet, Calls
<1>10. Untouched(journal)'
  <2> SUFFICES ASSUME NEW r \in Rows, journal[r] \in Unwritten
               PROVE  Absent(r)'
    BY DEF Untouched
  <2>1. r \notin call.rows
    <3>1. journal[r] # "IN_FLIGHT"
      BY DEF Unwritten, Unattempted
    <3> QED BY <3>1, <1>1, <1>2, RowSets DEF InFlight
  <2>2. Absent(r)
    BY DEF Local, Untouched
  <2>3. count'[r] = count[r]
    BY <2>1 DEF Carry
  <2>4. FieldsOf(plan, r) \cap call.fields = {}
    BY <2>1, <1>4 DEF FieldsOf
  <2>5. FieldsOf(plan, r) \cap written' = {}
    BY <2>2, <2>4, <1>4 DEF Absent
  <2> QED BY <2>2, <2>3, <2>5 DEF Absent, FieldsOf
<1> QED BY <1>1, <1>6, <1>7, <1>8, <1>9, <1>10 DEF Local

LEMMA HandleApart ==
  ASSUME Typed, Flows, Accounted, Apart, Handle
  PROVE  Apart'
<1>1. /\ UNCHANGED <<prepared, plan, review, fresh, reading, flight, run, journal, worker, late>>
      /\ call.rows # {} /\ call.answer = "none"
      /\ \/ Carry(call) /\ call' = [call EXCEPT !.answer = "accepted"]
         \/ \E a \in {"rejected", "refused"} :
              call' = [call EXCEPT !.answer = a] /\ UNCHANGED <<count, written>>
  BY DEF Handle, past, compared, rowsVars
<1>2. Remote' = Remote /\ late' = {}
  BY <1>1 DEF Remote, Apart
<1>3. CASE Carry(call) /\ call' = [call EXCEPT !.answer = "accepted"]
  BY <1>1, <1>2, <1>3, CarriedOnce, CarriedLocal DEF Apart
<1>4. CASE \E a \in {"rejected", "refused"} :
             call' = [call EXCEPT !.answer = a] /\ UNCHANGED <<count, written>>
  <2>1. \A r \in Rows : count'[r] <= 1
    BY <1>4 DEF Apart
  <2>2. call'.rows = call.rows /\ call'.phase = call.phase
    BY <1>4, TypeParts DEF Calls
  <2>3. ASSUME ~Remote
        PROVE  Local'
    <3>1. Local
      BY <2>3 DEF Apart
    <3>2. worker.pc = "wait" /\ InFlight' = InFlight
      BY <1>1 DEF Flows, CallsFollow, InFlight, With
    <3>3. Owned' /\ ViewsHold' /\ UpdatesWhole' /\ Untouched(journal)'
      BY <1>1, <1>4, <3>1, <3>2, OwnedStill, ViewsStill, UpdatesStill, UntouchedStill DEF Local
    <3>4. NotYet'
      BY <1>1, <1>4, <2>2, <3>1, <3>2, OdooStill DEF Local, NotYet
    <3> QED BY <3>2, <3>3, <3>4, <1>1 DEF Local
  <2> QED BY <1>2, <2>1, <2>3 DEF Apart
<1> QED BY <1>1, <1>3, <1>4

LEMMA CompareApart ==
  ASSUME Typed, Apart, Compare \/ Publish \/ Close
  PROVE  Apart'
<1>1. /\ UNCHANGED <<prepared, plan, flight, call, count, written, late, journal, worker, seen>>
  BY DEF Compare, Publish, Close, rowsVars, odoo
<1>2. Remote' = Remote /\ late' = {} /\ \A r \in Rows : count'[r] <= 1
  BY <1>1 DEF Remote, Apart
<1>3. ASSUME ~Remote
      PROVE  Local'
  <2>1. Local
    BY <1>3 DEF Apart
  <2>2. InFlight' = InFlight
    BY <1>1 DEF InFlight, With
  <2>3. Owned' /\ UpdatesWhole' /\ Untouched(journal)'
    BY <1>1, <2>1, <2>2, OwnedStill, UpdatesStill, UntouchedStill DEF Local
  <2>4. (worker'.pc = "recover" => Untouched(seen)') /\ NotYet'
    BY <1>1, <2>1, SeenStill, OdooStill DEF Local, NotYet
  <2>5. Compared' = Compared
    BY <1>1, ComparedStill
  <2>6. ViewsHold
    BY <2>1 DEF Local
  <2>7. CASE Compare
    <3>1. UNCHANGED <<review, fresh, run>> /\ reading' = {Compared} /\ run # "RUNNING"
      BY <2>7, <1>3 DEF Compare
    <3>2. ViewsHold'
      BY <3>1, <2>5, <2>6 DEF ViewsHold
    <3> QED BY <2>3, <2>4, <3>2 DEF Local
  <2>8. CASE Publish
    <3>1. run' = run /\ reading' = {} /\ \E view \in reading : review' = view
      BY <2>8 DEF Publish
    <3>2. ViewsHold'
      BY <3>1, <2>5, <2>6 DEF ViewsHold
    <3> QED BY <2>3, <2>4, <3>2 DEF Local
  <2>9. ~Close
    BY <1>3 DEF Close
  <2> QED BY <2>7, <2>8, <2>9
<1> QED BY <1>2, <1>3 DEF Apart

LEMMA StartApart ==
  ASSUME Typed, Typed', Apart, NEW p \in Policies, Start(p)
  PROVE  Apart'
<1>1. /\ UNCHANGED <<prepared, reading, review, count, written, late>>
      /\ journal' = [r \in Rows |-> IF r \in RowsOf(plan') THEN "PLANNED" ELSE "NONE"]
      /\ worker' = Transport /\ fresh /\ fresh' = FALSE /\ (Remote \/ reading = {})
  BY DEF Start, odoo, Loadable
<1>2. plan'.creates = review.creates /\ plan'.fields = review.fields
  BY StartTyped
<1>3. Remote' = Remote /\ late' = {} /\ \A r \in Rows : count'[r] <= 1
  BY <1>1 DEF Remote, Apart
<1>4. worker'.pc = "group"
  BY <1>1, TransportTyped
<1>5. InFlight' = {}
  <2>1. journal' \in Rowed
    BY DEF Typed, TypeOK, Rowed
  <2> QED BY <2>1, <1>1, RowSets DEF InFlight
<1>6. ASSUME ~Remote
      PROVE  Local'
  <2>1. Local /\ reading' = {} /\ review = Compared
    BY <1>1, <1>6 DEF Apart, Local, ViewsHold
  <2>2. Owned'
    BY <1>1, <2>1, OwnedStill DEF Local
  <2>3. ViewsHold'
    BY <1>1, <2>1 DEF ViewsHold
  <2>4. UpdatesWhole' /\ NotYet'
    BY <1>4, <1>5 DEF UpdatesWhole, NotYet
  <2>5. /\ \A r \in review.creates : count[r] = 0
        /\ \A f \in review.fields : count[f.owner] = 0 \/ f \notin written
    BY <2>1 DEF Compared
  <2>6. \A f \in plan'.fields : f \notin written
    BY <2>1, <2>5, <1>2 DEF Local, Owned
  <2>7. \A r : Absent(r)'
    BY <2>5, <2>6, <1>1, <1>2 DEF Absent, FieldsOf
  <2> QED BY <2>2, <2>3, <2>4, <2>7, <1>4 DEF Local, Untouched
<1> QED BY <1>3, <1>6 DEF Apart

LEMMA InitApart ==
  ASSUME Init
  PROVE  Apart
<1>1. /\ count = [r \in Rows |-> IF r \in prepared.existing THEN 1 ELSE 0]
      /\ written = {} /\ late = {} /\ reading = {} /\ review = Compared /\ run = "NONE"
      /\ journal = [r \in Rows |-> "NONE"] /\ worker = NoWorker
  BY DEF Init
<1>2. worker.pc = "off" /\ InFlight = {}
  BY <1>1, NoWorkerTyped DEF InFlight, With
<1>3. Owned /\ ViewsHold /\ UpdatesWhole /\ NotYet
  BY <1>1, <1>2 DEF Owned, ViewsHold, UpdatesWhole, NotYet
<1>4. Untouched(journal)
  BY <1>1 DEF Untouched, Unwritten, Unattempted
<1>5. \A r \in Rows : count[r] <= 1
  BY <1>1
<1> QED BY <1>1, <1>2, <1>3, <1>4, <1>5 DEF Apart, Local

LEMMA NextApart ==
  ASSUME ~LateCalls, Typed, Typed', Flows, Flows', Accounted, Apart, [Next]_vars
  PROVE  Apart'
<1>1. CASE UNCHANGED vars
  <2>1. /\ UNCHANGED <<prepared, plan, review, fresh, reading, flight, count, written, late>>
        /\ UNCHANGED <<call, run, journal, worker, seen>>
    BY <1>1 DEF vars, past, compared, rowsVars, odoo
  <2>2. InFlight' = InFlight
    BY <2>1 DEF InFlight, With
  <2> QED BY <2>1, <2>2, ApartKept
<1>2. CASE Work
  <2>1. CASE Begins
    BY <2>1, BeginShape, WalkApart, DepartsApart
  <2>2. CASE Finishes
    <3>1. PICK status \in RunStatuses \ {"NONE", "RUNNING", "CLOSED"} : FinishRun(status)
      BY <2>2 DEF Finishes
    <3> QED BY <2>2, <3>1, EndingApart DEF Finishes
  <2> QED BY <1>2, <2>1, <2>2, WorkShapes, WalkApart, BlocksApart, RecoverApart
<1>3. ~\E c \in late : HandleLate(c)
  BY DEF Apart
<1>4. CASE Next /\ ~Work
  BY <1>3, <1>4, StartApart, SettleApart, StopsApart, AssessApart, CrashApart,
     CompareApart, HandleApart DEF Next
<1> QED BY <1>1, <1>2, <1>4

LEMMA LoadParts ==
  ASSUME ~LateCalls
  PROVE  Spec => [](Typed /\ Flows /\ Accounted /\ Apart)
<1>1. Init => Typed /\ Flows /\ Accounted /\ Apart
  BY InitTyped, InitFlows, InitAccounted, InitApart
<1>2. Typed /\ Flows /\ Accounted /\ Apart /\ [Next]_vars => Typed' /\ Flows' /\ Accounted' /\ Apart'
  BY NextTyped, NextFlows, NextAccounted, NextApart
<1> QED BY <1>1, <1>2, PTL DEF Spec

(* With an Odoo that carries out no call after its caller has given up:    *)
(* what the journal calls written is in Odoo, and on a local target what   *)
(* it calls unwritten, rejected or set aside is not, whatever answers are  *)
(* lost, batches taken apart or loads resumed.                             *)
THEOREM JournalStaysTrue ==
  ASSUME ~LateCalls
  PROVE  Spec => []JournalIsTrue
<1>1. Typed /\ Flows /\ Accounted /\ Apart => JournalIsTrue
  <2> SUFFICES ASSUME Typed, Accounted, Apart
               PROVE  JournalIsTrue
    OBVIOUS
  <2>1. TypeOK /\ AcceptedIsWritten
    BY TruthIsWritten DEF Typed
  <2>2. UnwrittenIsAbsent
    BY DEF Apart, Local, Untouched, Unwritten, Absent, UnwrittenIsAbsent
  <2> QED BY <2>1, <2>2 DEF JournalIsTrue
<1> QED BY <1>1, LoadParts, PTL

(* And no row has two records, whatever is retried, resumed, compared and  *)
(* loaded again, whether or not creates carry External IDs.                *)
THEOREM RecordsStaySingle ==
  ASSUME ~LateCalls
  PROVE  Spec => []CreatedOnce
<1>1. Typed /\ Flows /\ Accounted /\ Apart => CreatedOnce
  BY DEF Apart, CreatedOnce
<1> QED BY <1>1, LoadParts, PTL

---------------------------------------------------------------------------
(* The plan of a load: a schedule, of which nothing is blocked once it is  *)
(* loaded, and whose rows that are not created are in Odoo.                *)
Scheduled ==
  /\ plan = Schedule(plan.creates, plan.fields)
  /\ run # "NONE" => plan.blocked = {} /\ \A r \in Rows \ plan.creates : count[r] > 0

LEMMA PlanFacts ==
  ASSUME Typed, plan = Schedule(plan.creates, plan.fields)
  PROVE  IsSchedule(plan) /\ Orderly(plan) /\ RowsOf(plan) \subseteq Rows
<1>1. plan.creates \subseteq Rows /\ plan.updates \subseteq Rows /\ plan.fields \subseteq fields
  BY DEF Typed, PlanShape
<1>2. \A f \in plan.fields : f.owner \in Rows
  BY <1>1, TypeParts, SituationsAssumption DEF fields
<1>3. /\ IsSchedule(Schedule(plan.creates, plan.fields))
      /\ Orderly(Schedule(plan.creates, plan.fields))
  BY <1>1, <1>2, RowsAssumption, SchedulesAreSound
<1> QED BY <1>1, <1>3 DEF RowsOf

(* What every step that starts no load leaves alone.                       *)
LEMMA PlanStays ==
  ASSUME Typed, [Next]_vars, ~ \E p \in Policies : Start(p)
  PROVE  UNCHANGED <<prepared, plan, loads>> /\ Grows /\ (run' # "NONE" => run # "NONE")
<1>1. CASE UNCHANGED vars
  BY <1>1, OdooSame DEF vars, past, odoo
<1>2. CASE Work
  <2>1. CASE Walk \/ Recover \/ Continue
    BY <2>1, OdooSame DEF Walk, Idle, Recover, Continue, past, odoo
  <2>2. CASE Blocks
    BY <2>2, OdooSame DEF Blocks, Block, past, odoo
  <2>3. CASE Begins
    BY <2>3, OdooSame DEF Begins, Begin, past, odoo
  <2>4. CASE Finishes
    BY <2>4, OdooSame DEF Finishes, FinishRun, MayFinish, past, odoo
  <2> QED BY <1>2, <2>1, <2>2, <2>3, <2>4, WorkShapes
<1>3. CASE Settle
  BY <1>3, OdooSame DEF Settle, past
<1>4. CASE Stopping \/ RequestStop
  BY <1>4, OdooSame
     DEF Stopping, StopRead, StopBlock, StopFinish, RequestStop, FinishRun, MayFinish, past, odoo
<1>5. CASE Assess \/ Crash \/ Compare \/ Publish \/ Close
  BY <1>5, OdooSame DEF Assess, Crash, Compare, Publish, Close, past, odoo, compared
<1>6. CASE Handle \/ \E c \in late : HandleLate(c)
  <2>1. UNCHANGED <<prepared, plan, loads, run>>
    BY <1>6 DEF Handle, HandleLate, past
  <2>2. UNCHANGED <<count, written>> \/ \E c : Carry(c)
    BY <1>6 DEF Handle, HandleLate
  <2> QED BY <2>1, <2>2, OdooSame, CarryGrows
<1> QED BY <1>1, <1>2, <1>3, <1>4, <1>5, <1>6 DEF Next

LEMMA NextScheduled ==
  ASSUME Typed, Accounted, Scheduled, [Next]_vars
  PROVE  Scheduled'
<1>1. CASE \E p \in Policies : Start(p)
  <2>1. plan' = Schedule(review.creates, review.fields) /\ plan'.blocked = {} /\ UNCHANGED count
    BY <1>1 DEF Start, Loadable, PlanOf, odoo
  <2>2. plan'.creates = review.creates /\ plan'.fields = review.fields
    BY <2>1, ScheduleShape
  <2>3. \A r \in Rows \ review.creates : count[r] > 0
    BY DEF Accounted, ViewsAge
  <2> QED BY <2>1, <2>2, <2>3 DEF Scheduled
<1>2. CASE ~ \E p \in Policies : Start(p)
  <2>1. UNCHANGED plan /\ Grows /\ (run' # "NONE" => run # "NONE")
    BY <1>2, PlanStays
  <2> QED BY <2>1 DEF Scheduled, Grows
<1> QED BY <1>1, <1>2

LEMMA InitScheduled ==
  ASSUME Init
  PROVE  Scheduled
<1>1. plan = Schedule({}, {}) /\ run = "NONE"
  BY DEF Init, PlanOf
<1>2. plan.creates = {} /\ plan.fields = {}
  BY <1>1, ScheduleShape
<1> QED BY <1>1, <1>2 DEF Scheduled

---------------------------------------------------------------------------
(* How far a load is.  The groups behind the worker's are attempted, unless *)
(* the load stops for a row that is rejected or unknown; the one it is at   *)
(* has its creates attempted before its updates; what is put off comes when *)
(* every group is behind.                                                   *)
Fallen == With(journal, {"FAILED", "OUTCOME_UNKNOWN"}) # {}
Stopped == control.state \in {"STOP_REQUESTED", "STOPPED"}
Loading == Sending \cup {"wait", "remaining", "rest"}
Passed ==
  \A i \in DOMAIN plan.groups : i < worker.group =>
    \A r \in plan.groups[i] : seen[r] \notin Unattempted

(* The worker is at the calls of a phase, or waits for one.                *)
Doing(phase) == worker.pc = After[phase] \/ (worker.pc = "wait" /\ call.phase = phase)

Behind ==
  worker.pc \in Loading =>
    /\ worker.group # 0
    /\ worker.stopping => Fallen \/ worker.group \notin DOMAIN plan.groups
    /\ (worker.stopping /\ Fallen) \/ Passed

Placing ==
  /\ Doing("CREATE") \/ Doing("UPDATE") => worker.group \in DOMAIN plan.groups
  /\ Doing("CREATE") => \A i \in DOMAIN worker.batches : worker.batches[i] \subseteq Group
  /\ Doing("UPDATE") => worker.stopping \/ Pending(Group \cap plan.creates) = {}
  /\ Doing("COMPLETION") => worker.todo \subseteq plan.creates
  /\ Doing("COMPLETION") \/ worker.pc \in {"remaining", "rest"} =>
       worker.group \notin DOMAIN plan.groups

Calling ==
  /\ worker.pc \in Sending =>
       /\ worker.stopping => Ceased(worker)
       /\ worker.batches # <<>> => worker.pc = "creates"
  /\ worker.pc = "wait" =>
       /\ call.rows # {} /\ ~worker.stopping
       /\ call.phase # "CREATE" => worker.batches = <<>>
       /\ call.phase # "COMPLETION" => call.rows \subseteq Group

Advances == Behind /\ Placing /\ Calling

(* Why rows are blocked: a row that is rejected or unknown, or a stop.     *)
Caused ==
  /\ worker.pc \in {"stopped", "finish stopped"} \/ stopper.pc # "off" => Stopped
  /\ worker.pc = "recover" => \A r \in Rows : seen[r] = "BLOCKED" => journal[r] = "BLOCKED"
  /\ With(journal, {"BLOCKED"}) # {} => Fallen \/ Stopped

LEMMA FallenRows ==
  ASSUME Typed
  PROVE  /\ Fallen <=> \E r \in Rows : journal[r] \in {"FAILED", "OUTCOME_UNKNOWN"}
         /\ With(journal, {"BLOCKED"}) # {} <=> \E r \in Rows : journal[r] = "BLOCKED"
<1>1. journal \in Rowed
  BY TypeParts
<1>2. /\ With(journal, {"FAILED", "OUTCOME_UNKNOWN"}) =
           {r \in Rows : journal[r] \in {"FAILED", "OUTCOME_UNKNOWN"}}
      /\ With(journal, {"BLOCKED"}) = {r \in Rows : journal[r] \in {"BLOCKED"}}
  <2> HIDE DEF Rowed
  <2> QED BY <1>1, WithRows
<1> QED BY <1>2 DEF Fallen

(* Within a load both last.                                                *)
LEMMA CausesLast ==
  ASSUME Typed, Typed', Flows, [Next]_vars, loads' = loads
  PROVE  /\ Fallen => Fallen'
         /\ Stopped => Stopped'
         /\ \A r \in Rows : journal[r] = "BLOCKED" => journal'[r] = "BLOCKED"
<1>1. SettledRowsStay /\ StopHolds
  BY NextKeeps DEF Keeps
<1>2. Fallen => Fallen'
  <2>1. Fallen <=> \E r \in Rows : journal[r] \in {"FAILED", "OUTCOME_UNKNOWN"}
    BY FallenRows
  <2>2. Fallen' <=> \E r \in Rows : journal'[r] \in {"FAILED", "OUTCOME_UNKNOWN"}
    <3>1. journal' \in Rowed
      BY DEF Typed, TypeOK, Rowed
    <3>2. With(journal', {"FAILED", "OUTCOME_UNKNOWN"}) =
             {r \in Rows : journal'[r] \in {"FAILED", "OUTCOME_UNKNOWN"}}
      <4> HIDE DEF Rowed
      <4> QED BY <3>1, WithRows
    <3> QED BY <3>2 DEF Fallen
  <2> QED BY <1>1, <2>1, <2>2 DEF SettledRowsStay
<1> QED BY <1>1, <1>2 DEF SettledRowsStay, StopHolds, Stopped

---------------------------------------------------------------------------
LEMMA PhasesAre ==
  /\ After["CREATE"] = "creates" /\ After["UPDATE"] = "updates" /\ After["COMPLETION"] = "completions"
  /\ \A phase \in Phases : Doing(phase) => worker.pc \in Sending \cup {"wait"}
<1>1. After["CREATE"] = "creates" /\ After["UPDATE"] = "updates" /\ After["COMPLETION"] = "completions"
  BY DEF After
<1> QED BY <1>1 DEF Phases, Doing, Sending

LEMMA GroupRows ==
  ASSUME Typed, Scheduled, run # "NONE"
  PROVE  /\ \A i \in DOMAIN plan.groups :
              i \in Nat \ {0} /\ plan.groups[i] \subseteq RowsOf(plan) /\ plan.groups[i] \subseteq Rows
         /\ \E n \in Nat : DOMAIN plan.groups = 1..n
         /\ \A i, j \in DOMAIN plan.groups : \A r \in plan.groups[i] : r \in plan.groups[j] => i = j
         /\ \A r \in RowsOf(plan) : \E i \in DOMAIN plan.groups : r \in plan.groups[i] /\ GroupOf(plan, r) = i
         /\ \A r \in RowsOf(plan) : \A p \in Needs(r) \cap plan.creates : GroupOf(plan, p) < GroupOf(plan, r)
<1>1. IsSchedule(plan) /\ Orderly(plan) /\ RowsOf(plan) \subseteq Rows /\ plan.blocked = {}
  BY PlanFacts DEF Scheduled
<1>2. RowsOf(plan) \ plan.blocked = RowsOf(plan)
  BY <1>1
<1>3. /\ Disjoint(plan.groups) /\ Members(plan.groups) = RowsOf(plan)
      /\ \E n \in Nat : DOMAIN plan.groups = 1..n
  BY <1>1, <1>2 DEF Orderly
<1>4. \A i \in DOMAIN plan.groups : i \in Nat \ {0} /\ plan.groups[i] \subseteq RowsOf(plan)
  BY <1>3 DEF Members
<1>5. \A i, j \in DOMAIN plan.groups : \A r \in plan.groups[i] : r \in plan.groups[j] => i = j
  BY <1>3 DEF Disjoint
<1>6. ASSUME NEW r \in RowsOf(plan)
      PROVE  \E i \in DOMAIN plan.groups : r \in plan.groups[i] /\ GroupOf(plan, r) = i
  <2>1. PICK i \in DOMAIN plan.groups : r \in plan.groups[i]
    BY <1>3 DEF Members
  <2> QED BY <1>3, <2>1, OneGroup DEF GroupOf
<1>7. \A r \in RowsOf(plan) : \A p \in Needs(r) \cap plan.creates : GroupOf(plan, p) < GroupOf(plan, r)
  BY <1>1, <1>2 DEF IsSchedule, Needs
<1> QED BY <1>1, <1>3, <1>4, <1>5, <1>6, <1>7

LEMMA PassedKept ==
  ASSUME Typed, Scheduled, run # "NONE", UNCHANGED plan, worker'.group = worker.group,
         \A r \in Rows : seen'[r] \in Unattempted =>
           seen[r] \in Unattempted \/ (worker.group \in DOMAIN plan.groups /\ r \in Group),
         Passed
  PROVE  Passed'
<1>1. SUFFICES ASSUME NEW i \in DOMAIN plan.groups, i < worker.group, NEW r \in plan.groups[i]
               PROVE  seen'[r] \notin Unattempted
  BY DEF Passed
<1>2. r \in Rows /\ i \in Nat /\ worker.group \in Nat
  BY <1>1, GroupRows, TypeParts DEF Worker
<1>3. worker.group \in DOMAIN plan.groups => r \notin Group
  <2>1. i # worker.group
    BY <1>1, <1>2
  <2> QED BY <1>1, <2>1, GroupRows DEF Group
<1> QED BY <1>1, <1>2, <1>3 DEF Passed

(* A row that lacks a receipt it needs has a reason.                       *)
LEMMA MissingReceipts ==
  ASSUME Typed, Flows, Scheduled, Behind, Caused, worker.pc \in Sending,
         worker.group \in DOMAIN plan.groups, NEW r \in Group, ~HasReceipts(r)
  PROVE  Fallen \/ Stopped
<1>1. run # "NONE" /\ worker.pc \in Loading /\ InFlight = {}
  BY DEF Flows, CopyFollows, CallsFollow, Loading, Sending
<1>2. PICK p \in Needs(r) \cap plan.creates : seen[p] \notin Created
  BY DEF HasReceipts
<1>3. SUFFICES ASSUME ~Fallen PROVE Fallen \/ Stopped
  OBVIOUS
<1>4. Passed
  BY <1>1, <1>3 DEF Behind
<1>5. p \in RowsOf(plan) /\ p \in Rows
  BY <1>2 DEF RowsOf, Typed, PlanShape
<1>6. seen[p] \notin Unattempted
  <2>1. r \in RowsOf(plan)
    BY <1>1, GroupRows DEF Group
  <2>2. GroupOf(plan, p) < GroupOf(plan, r) /\ GroupOf(plan, r) = worker.group
    <3>1. PICK j \in DOMAIN plan.groups : r \in plan.groups[j] /\ GroupOf(plan, r) = j
      BY <1>1, <2>1, GroupRows
    <3>2. j = worker.group
      BY <1>1, <3>1, GroupRows DEF Group
    <3> QED BY <1>1, <1>2, <2>1, <3>1, <3>2, GroupRows
  <2>3. PICK i \in DOMAIN plan.groups : p \in plan.groups[i] /\ GroupOf(plan, p) = i
    BY <1>1, <1>5, GroupRows
  <2> QED BY <1>4, <2>2, <2>3 DEF Passed
<1>7. seen[p] = journal[p] /\ journal[p] # "NONE" /\ journal[p] # "IN_FLIGHT"
  <2>1. seen[p] = journal[p] \/ seen[p] \in Unattempted
    BY <1>5 DEF Flows, CopyFollows, Sending
  <2>2. journal[p] # "NONE"
    BY <1>1, <1>5 DEF Flows, CopyFollows
  <2>3. journal[p] # "IN_FLIGHT"
    <3>1. InFlight = {q \in Rows : journal[q] = "IN_FLIGHT"}
      BY TypeParts, RowSets DEF InFlight
    <3> QED BY <1>1, <1>5, <3>1
  <2> QED BY <1>6, <2>1, <2>2, <2>3
<1>8. journal[p] \in Statuses \cup {"NONE"}
  BY <1>5, TypeParts DEF Rowed
<1>9. journal[p] = "BLOCKED"
  BY <1>2, <1>3, <1>5, <1>6, <1>7, <1>8, FallenRows DEF Statuses
<1> QED BY <1>5, <1>9, FallenRows DEF Caused

---------------------------------------------------------------------------
(* What a step of the worker does to how far the load is.                  *)
LEMMA OffAdvances ==
  ASSUME worker'.pc \notin Loading
  PROVE  Advances'
<1>1. worker'.pc \notin {"creates", "updates", "completions", "wait", "remaining", "rest"} \cup Sending
  BY DEF Loading, Sending
<1> QED BY <1>1 DEF Advances, Behind, Placing, Calling, Doing, After, Loading

LEMMA StillAdvances ==
  ASSUME Advances, UNCHANGED <<plan, worker, seen>>, Fallen => Fallen',
         worker.pc = "wait" => call'.rows = call.rows /\ call'.phase = call.phase
  PROVE  Advances'
<1>1. Behind' /\ Calling'
  BY DEF Advances, Behind, Calling, Passed, Group, Ceased
<1>2. \A phase : Doing(phase)' <=> Doing(phase)
  BY DEF Doing
<1>3. Placing'
  BY <1>2 DEF Advances, Placing, Pending, Group, With
<1> QED BY <1>1, <1>3 DEF Advances

LEMMA FirstGroupAdvances ==
  ASSUME worker' = Transport, \A i \in DOMAIN plan'.groups : i \in Nat \ {0}
  PROVE  Advances'
<1>1. /\ worker'.pc = "group" /\ worker'.group = 1 /\ ~worker'.stopping /\ worker'.batches = <<>>
  <2>1. NoWorker \in Worker /\ NoWorker.batches = <<>> /\ ~NoWorker.stopping
    BY NoWorkerTyped DEF Workers, NoWorker
  <2> QED BY <2>1 DEF Transport, Worker
<1>2. \A phase : ~Doing(phase)' \/ After[phase] = "group"
  BY <1>1 DEF Doing
<1>3. ~Doing("CREATE")' /\ ~Doing("UPDATE")' /\ ~Doing("COMPLETION")'
  BY <1>2, PhasesAre
<1>4. Placing' /\ Calling'
  BY <1>1, <1>3 DEF Placing, Calling
<1>5. Behind'
  <2>1. \A i \in DOMAIN plan'.groups : ~(i < 1)
    OBVIOUS
  <2> QED BY <1>1, <2>1 DEF Behind, Passed
<1> QED BY <1>4, <1>5 DEF Advances

LEMMA DepartureAdvances ==
  ASSUME Typed, Scheduled, run # "NONE", Advances, Fallen => Fallen', UNCHANGED plan,
         NEW S \in SUBSET Rows, S # {}, NEW phase \in Phases, worker.pc = After[phase],
         ~worker.stopping, phase # "COMPLETION" => S \subseteq Group,
         seen' = Marked(seen, S, "IN_FLIGHT"), call'.rows = S, call'.phase = phase,
         worker' = [worker EXCEPT !.pc = "wait"]
  PROVE  Advances'
<1>1. /\ worker'.pc = "wait" /\ worker'.group = worker.group /\ worker'.batches = worker.batches
      /\ worker'.stopping = worker.stopping /\ worker'.todo = worker.todo
  BY TypeParts DEF Worker
<1>2. Doing(phase) /\ worker.pc \in Sending /\ worker.pc \in Loading
  BY PhasesAre DEF Doing, Phases, Sending, Loading
<1>3. \A q \in Phases : Doing(q)' <=> q = phase
  <2>1. \A q \in Phases : After[q] # "wait"
    BY PhasesAre DEF Phases
  <2> QED BY <1>1, <2>1 DEF Doing
<1>4. \A r \in Rows : seen'[r] \in Unattempted => seen[r] \in Unattempted
  BY DEF Marked, Unattempted
<1>5. Group' = Group
  BY <1>1 DEF Group
<1>6. Behind'
  <2>1. worker.group # 0 /\ Passed
    BY <1>2 DEF Advances, Behind
  <2>2. Passed'
    BY <1>1, <1>4, <2>1, PassedKept
  <2> QED BY <1>1, <2>1, <2>2 DEF Behind
<1>7. Placing'
  <2>1. phase = "UPDATE" => Pending(Group \cap plan.creates)' = {}
    <3>1. phase = "UPDATE" => Pending(Group \cap plan.creates) = {}
      BY <1>2 DEF Advances, Placing
    <3>2. seen \in Rowed /\ DOMAIN seen' = Rows
      BY TypeParts DEF Marked
    <3> QED BY <1>4, <1>5, <3>1, <3>2 DEF Pending, With, Rowed
  <2>2. /\ phase \in {"CREATE", "UPDATE"} => worker.group \in DOMAIN plan.groups
        /\ phase = "CREATE" => \A i \in DOMAIN worker.batches : worker.batches[i] \subseteq Group
        /\ phase = "COMPLETION" => worker.todo \subseteq plan.creates /\ worker.group \notin DOMAIN plan.groups
    BY <1>2 DEF Advances, Placing
  <2>3. \A q \in {"CREATE", "UPDATE", "COMPLETION"} : Doing(q)' => q = phase
    BY <1>3 DEF Phases
  <2> QED BY <1>1, <1>5, <2>1, <2>2, <2>3 DEF Placing
<1>8. Calling'
  <2>1. phase # "CREATE" => worker.batches = <<>>
    <3>1. phase # "CREATE" => worker.pc # "creates"
      BY PhasesAre DEF Phases
    <3> QED BY <3>1, <1>2 DEF Advances, Calling
  <2> QED BY <1>1, <1>5, <2>1 DEF Calling, Sending
<1> QED BY <1>6, <1>7, <1>8 DEF Advances

LEMMA BeginAdvances ==
  ASSUME Typed, Scheduled, run # "NONE", Advances, Fallen => Fallen',
         NEW S \in SUBSET Rows, S # {}, NEW phase \in Phases, worker.pc = After[phase],
         ~worker.stopping, phase # "COMPLETION" => S \subseteq Group, Begin(S, phase)
  PROVE  Advances'
<1>1. UNCHANGED plan
  BY DEF Begin, past
<1>2. CASE worker'.pc \notin Loading
  BY <1>2, OffAdvances
<1>3. CASE /\ seen' = Marked(seen, S, "IN_FLIGHT") /\ worker' = [worker EXCEPT !.pc = "wait"]
           /\ call' = [rows |-> S, phase |-> phase, answer |-> "none",
                       fields |-> UNION {Sent(r, phase) : r \in S}]
  BY <1>1, <1>3, DepartureAdvances
<1>4. NoWorker.pc \notin Loading /\ [worker EXCEPT !.pc = "halted"].pc \notin Loading
  BY NoWorkerTyped, TypeParts DEF Worker, Loading, Sending
<1> QED BY <1>2, <1>3, <1>4 DEF Begin

(* A step that sends nothing, and leaves the copy but for what it blocks.  *)
Blocked(S) == seen' = seen \/ seen' = Marked(seen, S, "BLOCKED")

LEMMA LessPending ==
  ASSUME Typed, NEW S, Blocked(S)
  PROVE  \A r \in Rows : seen'[r] \in Unattempted => seen[r] \in Unattempted
BY DEF Blocked, Marked, Unattempted

LEMMA EnterAdvances ==
  ASSUME Typed, Scheduled, run # "NONE", Advances, Fallen => Fallen', EnterGroup
  PROVE  Advances'
<1>1. worker.pc = "group" /\ worker.pc \in Loading /\ worker.pc \in Sending /\ UNCHANGED plan
  BY DEF EnterGroup, Loading, Sending, Idle, Block, past
<1>2. worker \in Worker /\ seen \in Rowed /\ worker.group \in Nat
  BY TypeParts DEF Worker
<1>3. /\ worker.batches = <<>> /\ worker.group # 0 /\ (worker.stopping => Ceased(worker))
      /\ worker.stopping => Fallen \/ worker.group \notin DOMAIN plan.groups
      /\ (worker.stopping /\ Fallen) \/ Passed
  BY <1>1 DEF Advances, Calling, Behind
<1>4. CASE worker.group \in DOMAIN plan.groups /\ ~worker.stopping /\ Go("creates") /\ Idle
  <2>1. /\ worker'.pc = "creates" /\ worker'.group = worker.group /\ worker'.batches = worker.batches
        /\ worker'.stopping = worker.stopping /\ worker'.todo = worker.todo /\ UNCHANGED seen
    BY <1>2, <1>4 DEF Go, Worker, Idle
  <2>2. Passed'
    BY <1>1, <1>3, <1>4, <2>1 DEF Passed
  <2>3. ~Doing("UPDATE")' /\ ~Doing("COMPLETION")'
    BY <2>1, PhasesAre DEF Doing
  <2> QED BY <1>1, <1>3, <1>4, <2>1, <2>2, <2>3 DEF Advances, Behind, Placing, Calling, Ceased
<1>5. CASE worker.group \in DOMAIN plan.groups /\ worker.stopping /\ Block(Pending(Group), NextGroup)
  <2>1. CASE worker' = NoWorker
    BY <2>1, NoWorkerTyped, OffAdvances DEF Loading, Sending
  <2>2. CASE worker' = NextGroup
    <3>1. /\ worker'.pc = "group" /\ worker'.group = worker.group + 1 /\ worker'.batches = worker.batches
          /\ worker'.stopping = worker.stopping /\ worker'.todo = worker.todo
      BY <1>2, <2>2 DEF NextGroup, Worker
    <3>2. ~Doing("CREATE")' /\ ~Doing("UPDATE")' /\ ~Doing("COMPLETION")'
      BY <3>1, PhasesAre DEF Doing
    <3>3. Fallen' /\ Ceased(worker')
      BY <1>3, <1>5, <3>1 DEF Ceased
    <3>4. worker'.group # 0
      BY <1>2, <3>1
    <3> QED BY <1>3, <1>5, <3>1, <3>2, <3>3, <3>4 DEF Advances, Behind, Placing, Calling
  <2> QED BY <1>5, <2>1, <2>2 DEF Block
<1>6. CASE /\ worker.group \notin DOMAIN plan.groups /\ worker.stopping /\ Idle
           /\ worker' = [worker EXCEPT !.pc = "remaining"]
  <2>1. /\ worker'.pc = "remaining" /\ worker'.group = worker.group /\ worker'.batches = worker.batches
        /\ worker'.stopping = worker.stopping /\ worker'.todo = worker.todo /\ UNCHANGED seen
    BY <1>2, <1>6 DEF Worker, Idle
  <2>2. Passed => Passed'
    BY <1>1, <2>1 DEF Passed
  <2>3. ~Doing("CREATE")' /\ ~Doing("UPDATE")' /\ ~Doing("COMPLETION")'
    BY <2>1, PhasesAre DEF Doing
  <2> QED BY <1>1, <1>3, <1>6, <2>1, <2>2, <2>3 DEF Advances, Behind, Placing, Calling, Sending
<1>7. CASE /\ worker.group \notin DOMAIN plan.groups /\ ~worker.stopping /\ Idle
           /\ worker' = [worker EXCEPT !.pc = "completions",
                !.todo = {r \in With(seen, {"PARTIALLY_APPLIED"}) :
                            Deferred(r) # {} /\ ~(policy = "CONTINUE" /\ r \in diagnosed)}]
  <2> DEFINE todo == {r \in With(seen, {"PARTIALLY_APPLIED"}) :
                        Deferred(r) # {} /\ ~(policy = "CONTINUE" /\ r \in diagnosed)}
  <2>1. todo \subseteq plan.creates
    <3>1. With(seen, {"PARTIALLY_APPLIED"}) \subseteq Rows
      BY <1>2, WithRows
    <3> QED BY <3>1 DEF Typed, PlanShape
  <2> HIDE DEF todo
  <2>2. /\ worker'.pc = "completions" /\ worker'.group = worker.group /\ worker'.batches = worker.batches
        /\ worker'.stopping = worker.stopping /\ worker'.todo = todo /\ UNCHANGED seen
    BY <1>2, <1>7 DEF Worker, Idle, todo
  <2>3. Passed'
    BY <1>1, <1>3, <1>7, <2>2 DEF Passed
  <2>4. ~Doing("CREATE")' /\ ~Doing("UPDATE")'
    BY <2>2, PhasesAre DEF Doing
  <2> QED BY <1>1, <1>3, <1>7, <2>1, <2>2, <2>3, <2>4 DEF Advances, Behind, Placing, Calling
<1> QED BY <1>4, <1>5, <1>6, <1>7 DEF EnterGroup

(* Of the rows of a loaded plan one comes first.                           *)
LEMMA FirstIsOne ==
  ASSUME Typed, Scheduled, run # "NONE", NEW S, S \subseteq RowsOf(plan), S # {}
  PROVE  \E r \in S : First(S, 1) = {r}
<1> DEFINE place(r) == PlaceIn(plan.order, r)
<1>1. S \subseteq Rows /\ \A r \in S : place(r) \in Nat /\ plan.order[place(r)] = r
  BY PlanFacts DEF Scheduled, Orderly
<1>2. \A r, q \in S : place(r) = place(q) => r = q
  BY <1>1
<1>3. PICK n \in {place(r) : r \in S} : \A m \in {place(r) : r \in S} : n <= m
  <2> DEFINE T == {place(r) : r \in S}
  <2>1. T \subseteq Nat
    BY <1>1
  <2>2. T # {}
    <3>1. PICK r \in S : TRUE
      OBVIOUS
    <3>2. place(r) \in T
      OBVIOUS
    <3> QED BY <3>2
  <2> HIDE DEF T, place
  <2> QED BY <2>1, <2>2, LeastMember DEF T
<1>4. PICK r \in S : n = place(r)
  OBVIOUS
<1>5. \A q \in S : place(r) <= place(q)
  BY <1>3, <1>4
<1> HIDE DEF place
<1>6. \A q \in S : Cardinality({p \in S : place(p) < place(q)}) < 1 <=>
                     \A p \in S : place(q) <= place(p)
  <2> TAKE q \in S
  <2> DEFINE lower == {p \in S : place(p) < place(q)}
  <2>1. Cardinality(lower) \in Nat /\ (Cardinality(lower) = 0 <=> lower = {})
    <3>1. lower \in SUBSET Rows
      BY <1>1
    <3> HIDE DEF lower
    <3> QED BY <3>1, RowsAreCounted
  <2>2. lower = {} <=> \A p \in S : place(q) <= place(p)
    <3>1. \A p \in S : place(p) \in Nat
      BY <1>1 DEF place
    <3>2. \A p \in S : place(p) < place(q) <=> ~(place(q) <= place(p))
      BY <3>1
    <3> QED BY <3>2
  <2> HIDE DEF lower
  <2>3. Cardinality(lower) < 1 <=> \A p \in S : place(q) <= place(p)
    BY <2>1, <2>2
  <2> QED BY <2>3 DEF lower
<1>7. First(S, 1) = {q \in S : \A p \in S : place(q) <= place(p)}
  BY <1>6 DEF First, place
<1>8. {q \in S : \A p \in S : place(q) <= place(p)} = {r}
  BY <1>1, <1>2, <1>5
<1> QED BY <1>7, <1>8

LEMMA TakeAdvances ==
  ASSUME Typed, Scheduled, run # "NONE", Advances, Fallen => Fallen', TakeBatch
  PROVE  Advances'
<1> DEFINE creates == Pending(Group \cap plan.creates)
<1>1. /\ worker.pc = "creates" /\ worker.pc \in Loading /\ worker.pc \in Sending
      /\ UNCHANGED <<plan, seen>> /\ worker.batches = <<>>
  BY DEF TakeBatch, Loading, Sending, Idle, past
<1>2. worker \in Worker
  BY TypeParts
<1>3. /\ worker.group # 0 /\ (worker.stopping => Ceased(worker))
      /\ worker.stopping => Fallen \/ worker.group \notin DOMAIN plan.groups
      /\ (worker.stopping /\ Fallen) \/ Passed
      /\ Doing("CREATE") /\ worker.group \in DOMAIN plan.groups
  BY <1>1, PhasesAre DEF Advances, Calling, Behind, Placing, Doing
<1>4. CASE (creates = {} \/ worker.stopping) /\ worker' = [worker EXCEPT !.pc = "updates"]
  <2>1. /\ worker'.pc = "updates" /\ worker'.group = worker.group /\ worker'.batches = worker.batches
        /\ worker'.stopping = worker.stopping /\ worker'.todo = worker.todo
    BY <1>2, <1>4 DEF Worker
  <2>2. Passed => Passed'
    BY <1>1, <2>1 DEF Passed
  <2>3. ~Doing("CREATE")' /\ ~Doing("COMPLETION")'
    BY <2>1, PhasesAre DEF Doing
  <2>4. Pending(Group \cap plan.creates)' = creates
    BY <1>1, <2>1 DEF Pending, Group, With
  <2> HIDE DEF creates
  <2> QED BY <1>1, <1>3, <1>4, <2>1, <2>2, <2>3, <2>4 DEF Advances, Behind, Placing, Calling, Ceased
<1>5. CASE /\ ~worker.stopping
           /\ worker' = [worker EXCEPT !.batches = <<First(creates, BatchRows)>>]
  <2>1. /\ worker'.pc = "creates" /\ worker'.group = worker.group
        /\ worker'.batches = <<First(creates, BatchRows)>>
        /\ worker'.stopping = worker.stopping /\ worker'.todo = worker.todo
    BY <1>1, <1>2, <1>5 DEF Worker
  <2>2. Passed => Passed'
    BY <1>1, <2>1 DEF Passed
  <2>3. ~Doing("UPDATE")' /\ ~Doing("COMPLETION")'
    BY <2>1, PhasesAre DEF Doing
  <2>4. First(creates, BatchRows) \subseteq Group
    BY FirstRows DEF Pending
  <2>5. \A i \in DOMAIN worker'.batches : worker'.batches[i] \subseteq Group'
    <3>1. Group' = Group
      BY <1>1, <2>1 DEF Group
    <3> HIDE DEF creates
    <3>2. \A i \in DOMAIN worker'.batches : worker'.batches[i] = First(creates, BatchRows)
      BY <2>1
    <3> QED BY <2>4, <3>1, <3>2
  <2>6. Behind'
    BY <1>1, <1>3, <1>5, <2>1, <2>2 DEF Behind
  <2>7. Placing'
    BY <1>1, <1>3, <2>1, <2>3, <2>5 DEF Placing
  <2>8. Calling'
    BY <1>5, <2>1 DEF Calling
  <2> QED BY <2>6, <2>7, <2>8 DEF Advances
<1> QED BY <1>4, <1>5 DEF TakeBatch

LEMMA CreateAdvances ==
  ASSUME Typed, Scheduled, run # "NONE", Advances, Fallen => Fallen', Create
  PROVE  Advances'
<1> DEFINE batch == Head(worker.batches)
           without == {r \in batch : ~HasReceipts(r)}
           dropped == First(without, 1)
<1>1. /\ worker.pc = "creates" /\ worker.pc \in Loading /\ worker.pc \in Sending /\ worker.batches # <<>>
      /\ UNCHANGED plan
  BY DEF Create, Loading, Sending, Idle, Block, Begin, past
<1>2. worker \in Worker /\ worker.batches \in Seq(SUBSET Rows)
  BY TypeParts DEF Worker
<1>3. /\ worker.group # 0 /\ ~worker.stopping /\ Passed
      /\ Doing("CREATE") /\ worker.group \in DOMAIN plan.groups
      /\ \A i \in DOMAIN worker.batches : worker.batches[i] \subseteq Group
  <2>1. Doing("CREATE")
    BY <1>1, PhasesAre DEF Doing
  <2>2. ~worker.stopping
    BY <1>1 DEF Advances, Calling, Ceased
  <2> QED BY <1>1, <2>1, <2>2 DEF Advances, Behind, Placing
<1>4. batch = worker.batches[1] /\ 1 \in DOMAIN worker.batches /\ batch \subseteq Group /\ batch \in SUBSET Rows
  <2>1. batch = worker.batches[1] /\ 1 \in DOMAIN worker.batches /\ batch \in SUBSET Rows
    BY <1>1, <1>2
  <2> QED BY <2>1, <1>3
<1>5. ASSUME worker'.pc = "creates", worker'.group = worker.group, worker'.stopping = worker.stopping,
             \A i \in DOMAIN worker'.batches : worker'.batches[i] \subseteq Group,
             NEW S, Blocked(S)
      PROVE  Advances'
  <2>1. Passed'
    BY <1>1, <1>3, <1>5, LessPending, PassedKept
  <2>2. ~Doing("UPDATE")' /\ ~Doing("COMPLETION")'
    BY <1>5, PhasesAre DEF Doing
  <2>3. Group' = Group
    BY <1>1, <1>5 DEF Group
  <2> QED BY <1>1, <1>3, <1>5, <2>1, <2>2, <2>3 DEF Advances, Behind, Placing, Calling
<1>6. CASE worker' = [worker EXCEPT !.batches = Tail(@)] /\ Idle
  <2>1. /\ worker'.pc = "creates" /\ worker'.group = worker.group /\ worker'.stopping = worker.stopping
        /\ worker'.batches = Tail(worker.batches)
    BY <1>1, <1>2, <1>6 DEF Worker
  <2>2. \A i \in DOMAIN Tail(worker.batches) : \E j \in DOMAIN worker.batches :
          Tail(worker.batches)[i] = worker.batches[j]
    <3>1. PICK s \in Seq(SUBSET Rows) : s = worker.batches
      BY <1>2
    <3>2. \A i \in DOMAIN Tail(s) : i + 1 \in DOMAIN s /\ Tail(s)[i] = s[i + 1]
      BY <1>1, <3>1
    <3> QED BY <3>1, <3>2
  <2>3. Blocked({})
    BY <1>6 DEF Blocked, Idle
  <2> QED BY <1>3, <1>5, <2>1, <2>2, <2>3
<1>7. CASE Block(dropped, [worker EXCEPT !.batches[1] = @ \ dropped])
  <2>1. CASE worker' = NoWorker
    BY <2>1, NoWorkerTyped, OffAdvances DEF Loading, Sending
  <2>2. CASE worker' = [worker EXCEPT !.batches[1] = @ \ dropped]
    <3>1. /\ worker'.pc = "creates" /\ worker'.group = worker.group /\ worker'.stopping = worker.stopping
          /\ worker'.batches = [worker.batches EXCEPT ![1] = @ \ dropped]
      <4> HIDE DEF dropped
      <4> QED BY <1>1, <1>2, <2>2 DEF Worker
    <3>2. \A i \in DOMAIN worker'.batches : worker'.batches[i] \subseteq Group
      <4> HIDE DEF dropped
      <4> QED BY <1>2, <1>3, <1>4, <3>1
    <3>3. Blocked(dropped)
      BY <1>7 DEF Blocked, Block
    <3> HIDE DEF dropped
    <3> QED BY <1>5, <3>1, <3>2, <3>3
  <2> QED BY <1>7, <2>1, <2>2 DEF Block
<1>8. CASE batch # {} /\ Begin(batch, "CREATE")
  <2> HIDE DEF batch
  <2>1. "CREATE" \in Phases /\ After["CREATE"] = "creates"
    BY PhasesAre DEF Phases
  <2> QED BY <1>1, <1>3, <1>4, <1>8, <2>1, BeginAdvances
<1> QED BY <1>6, <1>7, <1>8 DEF Create

LEMMA UpdateAdvances ==
  ASSUME Typed, Scheduled, run # "NONE", Advances, Fallen => Fallen', Update
  PROVE  Advances'
<1> DEFINE updates == Pending(Group \cap plan.updates)
           one == First(updates, 1)
<1>1. /\ worker.pc = "updates" /\ worker.pc \in Loading /\ worker.pc \in Sending /\ UNCHANGED plan
  BY DEF Update, Loading, Sending, Idle, Block, Begin, past
<1>2. worker \in Worker /\ worker.group \in Nat /\ seen \in Rowed
  BY TypeParts DEF Worker
<1>3. /\ worker.group # 0 /\ (worker.stopping => Ceased(worker) /\ Fallen) /\ worker.batches = <<>>
      /\ worker.stopping \/ Passed
      /\ Doing("UPDATE") /\ worker.group \in DOMAIN plan.groups
      /\ worker.stopping \/ Pending(Group \cap plan.creates) = {}
  <2>1. Doing("UPDATE")
    BY <1>1, PhasesAre DEF Doing
  <2> QED BY <1>1, <2>1 DEF Advances, Behind, Placing, Calling
<1>4. Group \subseteq RowsOf(plan) /\ Group \subseteq Rows
  BY <1>3, GroupRows DEF Group
<1>5. one \subseteq updates /\ updates \subseteq Group /\ one \in SUBSET Rows
  BY <1>4, FirstRows DEF Pending
<1>6. updates # {} => one # {}
  <2>1. updates \subseteq RowsOf(plan)
    BY <1>4, <1>5
  <2> HIDE DEF updates
  <2> QED BY <2>1, FirstIsOne
<1>7. CASE updates = {} /\ worker' = NextGroup /\ Idle
  <2>1. /\ worker'.pc = "group" /\ worker'.group = worker.group + 1 /\ worker'.batches = worker.batches
        /\ worker'.stopping = worker.stopping /\ worker'.todo = worker.todo /\ UNCHANGED seen
    BY <1>2, <1>7 DEF NextGroup, Worker, Idle
  <2>2. ~Doing("CREATE")' /\ ~Doing("UPDATE")' /\ ~Doing("COMPLETION")'
    BY <2>1, PhasesAre DEF Doing
  <2>3. ASSUME ~worker.stopping PROVE Passed'
    <3>1. \A r \in Group : seen[r] \notin Unattempted
      <4>1. With(seen, Unattempted) = {r \in Rows : seen[r] \in Unattempted}
        BY <1>2, RowSets
      <4>2. Group \cap plan.creates \cap With(seen, Unattempted) = {}
        BY <1>3, <2>3 DEF Pending
      <4>3. Group \cap plan.updates \cap With(seen, Unattempted) = {}
        BY <1>7 DEF Pending
      <4> QED BY <1>4, <4>1, <4>2, <4>3 DEF RowsOf
    <3>2. \A i \in DOMAIN plan.groups : i \in Nat /\ (i < worker.group + 1 => i < worker.group \/ i = worker.group)
      <4>1. \A i \in DOMAIN plan.groups : i \in Nat
        BY GroupRows
      <4> QED BY <4>1, <1>2
    <3> QED BY <1>1, <1>3, <2>1, <2>3, <3>1, <3>2 DEF Passed, Group
  <2>4. worker'.group # 0
    BY <1>2, <2>1
  <2>5. Behind'
    BY <1>3, <2>1, <2>3, <2>4 DEF Behind
  <2>6. Placing' /\ Calling'
    BY <1>3, <2>1, <2>2 DEF Placing, Calling, Ceased
  <2> QED BY <2>5, <2>6 DEF Advances
<1>8. CASE Block(one, worker)
  <2>1. CASE worker' = NoWorker
    BY <2>1, NoWorkerTyped, OffAdvances DEF Loading, Sending
  <2>2. CASE worker' = worker
    <3>1. \A r \in Rows : seen'[r] \in Unattempted => seen[r] \in Unattempted
      <4>1. Blocked(one)
        BY <1>8 DEF Block, Blocked
      <4> HIDE DEF one
      <4> QED BY <4>1, LessPending
    <3>2. DOMAIN seen' = Rows
      BY <1>2, <1>8 DEF Block, Marked, Rowed
    <3>3. Pending(Group \cap plan.creates)' \subseteq Pending(Group \cap plan.creates)
      BY <1>1, <1>2, <2>2, <3>1, <3>2 DEF Pending, With, Group, Rowed
    <3>4. Passed => Passed'
      BY <1>1, <2>2, <3>1, PassedKept
    <3>5. ~Doing("CREATE")' /\ ~Doing("COMPLETION")'
      BY <1>1, <2>2, PhasesAre DEF Doing
    <3>6. Behind'
      BY <1>3, <2>2, <3>4 DEF Behind
    <3>7. Placing'
      BY <1>1, <1>3, <2>2, <3>3, <3>5 DEF Placing
    <3>8. Calling'
      BY <1>1, <1>3, <2>2 DEF Calling
    <3> QED BY <3>6, <3>7, <3>8 DEF Advances
  <2> QED BY <1>8, <2>1, <2>2 DEF Block
<1>9. CASE updates # {} /\ ~worker.stopping /\ Begin(one, "UPDATE")
  <2>1. "UPDATE" \in Phases /\ After["UPDATE"] = "updates" /\ one # {} /\ one \subseteq Group
    BY <1>5, <1>6, <1>9, PhasesAre DEF Phases
  <2> HIDE DEF one
  <2> QED BY <1>1, <1>5, <1>9, <2>1, BeginAdvances
<1>10. \/ updates = {} /\ worker' = NextGroup /\ Idle
       \/ Block(one, worker)
       \/ updates # {} /\ ~worker.stopping /\ Begin(one, "UPDATE")
  BY DEF Update
<1> QED BY <1>7, <1>8, <1>9, <1>10

LEMMA CompleteAdvances ==
  ASSUME Typed, Scheduled, run # "NONE", Advances, Fallen => Fallen', Complete \/ Remaining
  PROVE  Advances'
<1> DEFINE one == First(worker.todo, 1)
<1>1. /\ worker.pc \in {"completions", "remaining"} /\ worker.pc \in Loading /\ UNCHANGED plan
      /\ worker.pc = "completions" => worker.pc \in Sending /\ Doing("COMPLETION")
      /\ Remaining => worker.pc = "remaining"
      /\ Complete => worker.pc = "completions"
  BY PhasesAre DEF Complete, Remaining, Loading, Sending, Idle, Begin, past, Doing
<1>2. worker \in Worker /\ worker.todo \subseteq Rows
  BY TypeParts DEF Worker
<1>3. /\ worker.group # 0 /\ ((worker.stopping /\ Fallen) \/ Passed)
      /\ worker.group \notin DOMAIN plan.groups
      /\ worker.pc = "completions" =>
           /\ worker.todo \subseteq plan.creates /\ worker.batches = <<>>
           /\ worker.stopping => Ceased(worker)
  BY <1>1 DEF Advances, Behind, Placing, Calling
<1>4. one \subseteq worker.todo /\ one \in SUBSET Rows
  BY <1>2, FirstRows
<1>5. ASSUME NEW pc \in {"remaining", "rest", "finish", "halted"}, Go(pc), Idle
      PROVE  Advances'
  <2>1. /\ worker'.pc = pc /\ worker'.group = worker.group
        /\ worker'.stopping = worker.stopping /\ UNCHANGED seen
    BY <1>2, <1>5 DEF Go, Worker, Idle
  <2>2. CASE pc \in {"finish", "halted"}
    BY <2>1, <2>2, OffAdvances DEF Loading, Sending
  <2>3. CASE pc \in {"remaining", "rest"}
    <3>1. ~Doing("CREATE")' /\ ~Doing("UPDATE")' /\ ~Doing("COMPLETION")'
      BY <2>1, <2>3, PhasesAre DEF Doing
    <3>2. Passed => Passed'
      BY <1>1, <2>1 DEF Passed
    <3> QED BY <1>1, <1>3, <2>1, <2>3, <3>1, <3>2 DEF Advances, Behind, Placing, Calling, Sending
  <2> QED BY <2>2, <2>3
<1>6. CASE Complete /\ one # {} /\ worker' = [worker EXCEPT !.todo = @ \ one] /\ Idle
  <2>1. /\ worker'.pc = worker.pc /\ worker'.group = worker.group /\ worker'.todo = worker.todo \ one
        /\ worker'.batches = worker.batches /\ worker'.stopping = worker.stopping /\ UNCHANGED seen
    BY <1>2, <1>6 DEF Worker, Idle
  <2> HIDE DEF one
  <2>2. ~Doing("CREATE")' /\ ~Doing("UPDATE")'
    BY <1>1, <1>6, <2>1, PhasesAre DEF Doing
  <2>3. Passed => Passed'
    BY <1>1, <2>1 DEF Passed
  <2>4. Behind'
    BY <1>1, <1>3, <2>1, <2>3 DEF Behind
  <2>5. Placing'
    BY <1>1, <1>3, <1>6, <2>1, <2>2 DEF Placing
  <2>6. Calling'
    BY <1>1, <1>3, <1>6, <2>1 DEF Calling, Ceased
  <2> QED BY <2>4, <2>5, <2>6 DEF Advances
<1>7. CASE Complete /\ one # {} /\ Begin(one, "COMPLETION")
  <2>1. "COMPLETION" \in Phases /\ worker.pc = After["COMPLETION"]
    BY <1>1, <1>7, PhasesAre DEF Phases
  <2>2. ~worker.stopping
    BY <1>1, <1>3, <1>4, <1>7 DEF Ceased
  <2> HIDE DEF one
  <2> QED BY <1>1, <1>4, <1>7, <2>1, <2>2, BeginAdvances
<1>8. CASE worker' = NoWorker
  BY <1>8, NoWorkerTyped, OffAdvances DEF Loading, Sending
<1> QED BY <1>5, <1>6, <1>7, <1>8 DEF Complete, Remaining

(* The worker's copy after a call, and the rest of the pass.               *)
LEMMA OnAdvances ==
  ASSUME Typed, Scheduled, run # "NONE", Advances, UNCHANGED plan, worker.pc = "wait",
         \A r \in Rows : seen'[r] \in Unattempted =>
           seen[r] \in Unattempted \/ (call.phase = "CREATE" /\ r \in call.rows),
         DOMAIN seen' = Rows,
         worker'.pc = After[call.phase], worker'.group = worker.group, ~worker'.stopping,
         worker'.todo \subseteq worker.todo,
         call.phase # "CREATE" => worker'.batches = <<>>,
         call.phase = "CREATE" => \A i \in DOMAIN worker'.batches : worker'.batches[i] \subseteq Group
  PROVE  Advances'
<1>1. /\ call.phase \in Phases /\ worker.pc \in Loading /\ Doing(call.phase)
      /\ call.phase \in {"CREATE", "UPDATE", "COMPLETION"}
  BY TypeParts DEF Calls, Loading, Doing, Phases
<1>2. /\ ~worker.stopping /\ worker.group # 0 /\ Passed
      /\ call.phase # "COMPLETION" => call.rows \subseteq Group /\ worker.group \in DOMAIN plan.groups
      /\ call.phase = "COMPLETION" => worker.todo \subseteq plan.creates /\ worker.group \notin DOMAIN plan.groups
      /\ call.phase = "UPDATE" => Pending(Group \cap plan.creates) = {}
  BY <1>1 DEF Advances, Behind, Placing, Calling
<1>3. Passed'
  BY <1>2, PassedKept
<1>4. Group' = Group
  BY DEF Group
<1>5. \A q \in Phases : Doing(q)' <=> q = call.phase
  BY <1>1, PhasesAre DEF Doing, Phases
<1>6. \A q \in {"CREATE", "UPDATE", "COMPLETION"} : Doing(q)' => q = call.phase
  BY <1>5 DEF Phases
<1>7. call.phase = "UPDATE" => Pending(Group \cap plan.creates)' = {}
  <2>1. seen \in Rowed
    BY TypeParts
  <2> QED BY <1>2, <1>4, <2>1 DEF Pending, With, Rowed
<1>8. worker'.pc \in {"creates", "updates", "completions"} /\ (call.phase = "CREATE" => worker'.pc = "creates")
  BY <1>1, PhasesAre
<1>9. Behind'
  BY <1>2, <1>3 DEF Behind
<1>10. Placing'
  BY <1>2, <1>4, <1>6, <1>7, <1>8 DEF Placing
<1>11. Calling'
  BY <1>8 DEF Calling
<1> QED BY <1>9, <1>10, <1>11 DEF Advances

LEMMA StopAdvances ==
  ASSUME Typed, Advances, UNCHANGED plan, worker.pc = "wait",
         Fallen' \/ call.phase = "COMPLETION",
         UNCHANGED seen \/ Fallen' \/ \A r \in Rows : seen'[r] \in Unattempted => seen[r] \in Unattempted,
         \A i \in DOMAIN plan.groups : plan.groups[i] \subseteq Rows,
         worker' = [StopSending EXCEPT !.pc = After[call.phase]]
  PROVE  Advances'
<1>1. call.phase \in {"CREATE", "UPDATE", "COMPLETION"} /\ worker.pc \in Loading /\ Doing(call.phase)
  BY TypeParts DEF Calls, Loading, Doing, Phases
<1>2. /\ ~worker.stopping /\ worker.group # 0 /\ Passed
      /\ call.phase # "COMPLETION" => worker.group \in DOMAIN plan.groups
      /\ call.phase = "COMPLETION" => worker.group \notin DOMAIN plan.groups
  BY <1>1 DEF Advances, Behind, Placing, Calling
<1>3. /\ worker'.pc = After[call.phase] /\ worker'.group = worker.group /\ worker'.batches = <<>>
      /\ worker'.todo = {} /\ worker'.stopping
  <2>1. worker \in Worker
    BY TypeParts
  <2>2. /\ StopSending.group = worker.group /\ StopSending.batches = <<>> /\ StopSending.todo = {}
        /\ StopSending.stopping /\ worker' = [StopSending EXCEPT !.pc = After[call.phase]]
        /\ StopSending \in [pc : {worker.pc}, group : {worker.group}, batches : {<<>>}, todo : {{}}, stopping : {TRUE}]
    BY <2>1 DEF StopSending, Worker
  <2> QED BY <2>2
<1>4. \A q \in {"CREATE", "UPDATE", "COMPLETION"} : Doing(q)' => q = call.phase
  BY <1>1, <1>3, PhasesAre DEF Doing
<1>5. ~Fallen' => Passed'
  BY <1>2, <1>3 DEF Passed
<1>6. worker'.pc \in {"creates", "updates", "completions"}
  BY <1>1, <1>3, PhasesAre
<1>7. Behind'
  BY <1>2, <1>3, <1>5 DEF Behind
<1>8. Placing'
  BY <1>2, <1>3, <1>4, <1>6 DEF Placing
<1>9. Calling'
  BY <1>3, <1>6 DEF Calling, Ceased
<1> QED BY <1>7, <1>8, <1>9 DEF Advances

LEMMA RestIs ==
  ASSUME Typed, worker.pc = "wait", worker' = [Rest EXCEPT !.pc = After[call.phase]]
  PROVE  /\ worker'.pc = After[call.phase] /\ worker'.group = worker.group
         /\ worker'.stopping = worker.stopping /\ worker'.todo \subseteq worker.todo
         /\ call.phase # "CREATE" => worker'.batches = worker.batches
         /\ call.phase = "CREATE" =>
              /\ worker'.batches = Tail(worker.batches) /\ worker.batches # <<>>
              /\ \A i \in DOMAIN worker'.batches : \E j \in DOMAIN worker.batches :
                   worker'.batches[i] = worker.batches[j]
<1>1. worker \in Worker /\ worker.batches \in Seq(SUBSET Rows)
  BY TypeParts DEF Worker
<1>2. CASE call.phase # "CREATE"
  BY <1>1, <1>2 DEF Rest, Worker
<1>3. CASE call.phase = "CREATE"
  <2>1. worker.batches # <<>>
    BY <1>3 DEF Typed, Creating
  <2>2. /\ worker'.pc = After[call.phase] /\ worker'.group = worker.group
        /\ worker'.stopping = worker.stopping /\ worker'.todo = worker.todo
        /\ worker'.batches = Tail(worker.batches)
    BY <1>1, <1>3 DEF Rest, Worker
  <2>3. \A i \in DOMAIN Tail(worker.batches) : \E j \in DOMAIN worker.batches :
          Tail(worker.batches)[i] = worker.batches[j]
    <3>1. PICK s \in Seq(SUBSET Rows) : s = worker.batches
      BY <1>1
    <3>2. \A i \in DOMAIN Tail(s) : i + 1 \in DOMAIN s /\ Tail(s)[i] = s[i + 1]
      BY <2>1, <3>1
    <3> QED BY <3>1, <3>2
  <2> QED BY <1>3, <2>1, <2>2, <2>3
<1> QED BY <1>2, <1>3

LEMMA SettleAdvances ==
  ASSUME Typed, Typed', Flows, Scheduled, Advances, Settle
  PROVE  Advances'
<1>1. worker.pc = "wait" /\ UNCHANGED plan /\ run # "NONE"
  BY DEF Settle, past, Flows, CopyFollows
<1>2. /\ call.phase \in Phases /\ worker.pc \in Loading /\ Doing(call.phase)
      /\ call.phase \in {"CREATE", "UPDATE", "COMPLETION"} /\ call.rows \subseteq Rows /\ seen \in Rowed
  BY <1>1, TypeParts DEF Calls, Loading, Doing, Phases
<1>3. /\ ~worker.stopping /\ call.rows # {}
      /\ call.phase # "COMPLETION" => call.rows \subseteq Group
      /\ call.phase # "CREATE" => worker.batches = <<>>
      /\ call.phase = "CREATE" => \A i \in DOMAIN worker.batches : worker.batches[i] \subseteq Group
  BY <1>1, <1>2 DEF Advances, Placing, Calling
<1>4. \A i \in DOMAIN plan.groups : plan.groups[i] \subseteq Rows
  BY <1>1, GroupRows
<1>5. DOMAIN seen' = Rows /\ journal' \in Rowed
  BY DEF Typed, TypeOK, Rowed
<1>6. Fallen' <=> \E r \in Rows : journal'[r] \in {"FAILED", "OUTCOME_UNKNOWN"}
  <2>1. With(journal', {"FAILED", "OUTCOME_UNKNOWN"}) =
           {r \in Rows : journal'[r] \in {"FAILED", "OUTCOME_UNKNOWN"}}
    <3> HIDE DEF Rowed
    <3> QED BY <1>5, WithRows
  <2> QED BY <2>1 DEF Fallen
<1>7. CASE Accepted
  <2>1. worker' = [Rest EXCEPT !.pc = After[call.phase]]
    BY <1>7 DEF Accepted, Record
  <2>2. \A r \in Rows : seen'[r] \in Unattempted => seen[r] \in Unattempted
    BY <1>7 DEF Accepted, Record, Unattempted
  <2> QED BY <1>1, <1>3, <1>5, <2>1, <2>2, RestIs, OnAdvances
<1>8. CASE TakeApart
  <2> DEFINE left == First(call.rows, Cardinality(call.rows) \div 2)
             batches == <<left, call.rows \ left>> \o Tail(worker.batches)
  <2>1. call.phase = "CREATE" /\ worker' = [worker EXCEPT !.pc = "creates", !.batches = batches]
        /\ \A r \in Rows : seen'[r] \in Unattempted => seen[r] \in Unattempted \/ r \in call.rows
    BY <1>8 DEF TakeApart, Divisible, Marked
  <2>2. worker.batches # <<>> /\ worker \in Worker /\ worker.batches \in Seq(SUBSET Rows)
    BY <1>1, <2>1, TypeParts DEF Typed, Creating, Worker
  <2>3. left \subseteq Group /\ call.rows \ left \subseteq Group /\ left \in SUBSET Rows
    BY <1>2, <1>3, <2>1, FirstRows
  <2> HIDE DEF left
  <2>4. \A i \in DOMAIN batches : batches[i] \subseteq Group
    <3>1. worker.batches \in Seq(SUBSET Group)
      BY <1>3, <2>1, <2>2
    <3>2. Tail(worker.batches) \in Seq(SUBSET Group) /\ <<left, call.rows \ left>> \in Seq(SUBSET Group)
      BY <2>2, <2>3, <3>1, SequencesOf
    <3>3. batches \in Seq(SUBSET Group)
      BY <3>2, SequencesOf
    <3> HIDE DEF batches
    <3> QED BY <3>3
  <2> HIDE DEF batches
  <2>5. /\ worker'.pc = "creates" /\ worker'.group = worker.group /\ worker'.batches = batches
        /\ worker'.stopping = worker.stopping /\ worker'.todo = worker.todo
    BY <2>1, <2>2 DEF Worker
  <2>6. worker'.pc = After[call.phase]
    BY <2>1, <2>5, PhasesAre
  <2> QED BY <1>1, <1>3, <1>5, <2>1, <2>4, <2>5, <2>6, OnAdvances
<1>9. CASE Rejected
  <2> DEFINE goOn == call.answer = "rejected" /\ policy = "CONTINUE"
  <2>1. /\ \A r \in Rows : seen'[r] \in Unattempted => seen[r] \in Unattempted
        /\ worker' = [(IF goOn THEN Rest ELSE StopSending) EXCEPT !.pc = After[call.phase]]
        /\ call.phase # "COMPLETION" => \A r \in call.rows : journal'[r] = "FAILED"
    BY <1>2, <1>9 DEF Rejected, Record, Unattempted
  <2>2. CASE goOn
    BY <1>1, <1>3, <1>5, <2>1, <2>2, RestIs, OnAdvances
  <2>3. CASE ~goOn
    <3>1. call.phase # "COMPLETION" => Fallen'
      BY <1>2, <1>3, <1>6, <2>1
    <3> QED BY <1>1, <1>4, <2>1, <2>3, <3>1, StopAdvances
  <2> QED BY <2>2, <2>3
<1>10. CASE Unknown
  <2>1. worker' = [StopSending EXCEPT !.pc = After[call.phase]] /\ \A r \in call.rows : journal'[r] = "OUTCOME_UNKNOWN"
    BY <1>2, <1>10 DEF Unknown, Marked
  <2>2. Fallen'
    BY <1>2, <1>3, <1>6, <2>1
  <2> QED BY <1>1, <1>4, <2>1, <2>2, StopAdvances
<1> QED BY <1>7, <1>8, <1>9, <1>10 DEF Settle

(* Behind the last group nothing is left to attempt.                       *)
LEMMA AllPassed ==
  ASSUME Typed, Flows, Scheduled, worker.pc \in Loading \ {"wait"},
         worker.group # 0, worker.group \notin DOMAIN plan.groups, Passed
  PROVE  \A r \in Rows : seen[r] \notin Unattempted
<1>1. run # "NONE" /\ worker.pc \notin {"off", "recover"} /\ worker.group \in Nat
  BY TypeParts DEF Flows, CopyFollows, Loading, Sending, Worker
<1>2. PICK n \in Nat : DOMAIN plan.groups = 1..n
  BY <1>1, GroupRows
<1>3. \A i \in DOMAIN plan.groups : i < worker.group
  BY <1>1, <1>2
<1>4. \A r \in RowsOf(plan) : seen[r] \notin Unattempted
  <2> TAKE r \in RowsOf(plan)
  <2>1. PICK i \in DOMAIN plan.groups : r \in plan.groups[i]
    BY <1>1, GroupRows
  <2> QED BY <1>3, <2>1 DEF Passed
<1>5. \A r \in Rows \ RowsOf(plan) : seen[r] \notin Unattempted
  <2>1. \A r \in Rows \ RowsOf(plan) : journal[r] = "NONE"
    BY <1>1 DEF Flows, CopyFollows
  <2>2. \A r \in Rows : seen[r] = journal[r] \/ journal[r] = "BLOCKED"
    BY <1>1 DEF Flows, CopyFollows
  <2> QED BY <2>1, <2>2 DEF Unattempted
<1> QED BY <1>4, <1>5

LEMMA NextAdvances ==
  ASSUME Typed, Typed', Flows, Scheduled, Advances, [Next]_vars
  PROVE  Advances'
<1>1. CASE \E p \in Policies : Start(p)
  <2>1. plan' = Schedule(review.creates, review.fields) /\ worker' = Transport
    BY <1>1 DEF Start, PlanOf
  <2>2. /\ review.creates \subseteq Rows /\ \A f \in review.fields : f.owner \in Rows
    BY TypeParts, SituationsAssumption DEF Reviewed, fields
  <2>3. Orderly(plan')
    BY <2>1, <2>2, RowsAssumption, SchedulesAreSound
  <2>4. PICK n \in Nat : DOMAIN plan'.groups = 1..n
    BY <2>3 DEF Orderly
  <2> QED BY <2>1, <2>4, FirstGroupAdvances
<1>2. CASE ~ \E p \in Policies : Start(p)
  <2>1. loads' = loads /\ UNCHANGED plan
    BY <1>2, PlanStays
  <2>2. Fallen => Fallen'
    BY <2>1, CausesLast
  <2>3. CASE EnterGroup \/ TakeBatch \/ Create \/ Update \/ Complete \/ Remaining
    <3>1. run # "NONE"
      BY <2>3 DEF Flows, CopyFollows, EnterGroup, TakeBatch, Create, Update, Complete, Remaining
    <3> QED BY <2>2, <2>3, <3>1, EnterAdvances, TakeAdvances, CreateAdvances, UpdateAdvances, CompleteAdvances
  <2>4. CASE BlockRest \/ Finish \/ Halted \/ BlockStopped \/ FinishStopped \/ Assess \/ Crash
    <3>1. worker \in Worker
      BY TypeParts
    <3>2. /\ \A pc \in {"finish", "finish stopped"} : [worker EXCEPT !.pc = pc].pc \notin Loading
          /\ \A todo : [worker EXCEPT !.pc = "stopped", !.todo = todo].pc \notin Loading
          /\ NoWorker.pc \notin Loading /\ [NoWorker EXCEPT !.pc = "recover"].pc \notin Loading
      BY <3>1, NoWorkerTyped, TransportTyped DEF Worker, Loading, Sending
    <3>3. worker'.pc \notin Loading
      BY <2>4, <3>2 DEF BlockRest, Finish, Halted, BlockStopped, FinishStopped, Assess, Crash, Block
    <3> QED BY <3>3, OffAdvances
  <2>5. CASE Recover \/ Continue
    <3>1. run # "NONE"
      BY <2>5 DEF Flows, CopyFollows, Recover, Continue
    <3>2. \A i \in DOMAIN plan'.groups : i \in Nat \ {0}
      BY <2>1, <3>1, GroupRows
    <3>3. worker' = Transport \/ worker' = NoWorker \/ (worker.pc = "recover" /\ worker' = [worker EXCEPT !.pc = "continue"])
      BY <2>5 DEF Recover, Continue
    <3>4. worker' # Transport => worker'.pc \notin Loading
      BY <3>3, NoWorkerTyped, TypeParts DEF Worker, Loading, Sending
    <3> QED BY <3>2, <3>4, FirstGroupAdvances, OffAdvances
  <2>6. CASE Settle
    BY <2>6, SettleAdvances
  <2>7. CASE UNCHANGED vars \/ Stopping \/ RequestStop \/ Compare \/ Publish \/ Close \/ \E c \in late : HandleLate(c)
    <3>1. UNCHANGED <<worker, seen, call>>
      BY <2>7 DEF vars, Stopping, StopRead, StopBlock, StopFinish, RequestStop, Compare, Publish, Close, HandleLate
    <3> QED BY <2>1, <2>2, <3>1, StillAdvances
  <2>8. CASE Handle
    <3>1. UNCHANGED <<worker, seen>> /\ call'.rows = call.rows /\ call'.phase = call.phase
      BY <2>8, TypeParts DEF Handle, Calls
    <3> QED BY <2>1, <2>2, <3>1, StillAdvances
  <2> QED BY <1>2, <2>3, <2>4, <2>5, <2>6, <2>7, <2>8 DEF Next, Work
<1> QED BY <1>1, <1>2

LEMMA InitAdvances ==
  ASSUME Init
  PROVE  Advances /\ Caused
<1>1. worker.pc = "off" /\ stopper.pc = "off" /\ \A r \in Rows : journal[r] = "NONE"
  BY NoWorkerTyped DEF Init, NoStopper
<1>2. Advances
  BY <1>1 DEF Advances, Behind, Placing, Calling, Doing, After, Loading, Sending
<1>3. With(journal, {"BLOCKED"}) = {}
  BY <1>1 DEF With, Init
<1> QED BY <1>1, <1>2, <1>3 DEF Caused

---------------------------------------------------------------------------
(* Why rows are blocked.                                                   *)
LEMMA CausedKept ==
  ASSUME Typed, Typed', Caused, Fallen => Fallen', Stopped => Stopped',
         worker'.pc \in {"stopped", "finish stopped"} =>
           worker.pc \in {"stopped", "finish stopped"} \/ Stopped',
         stopper'.pc # "off" => stopper.pc # "off" \/ Stopped',
         worker'.pc = "recover" => \A r \in Rows : seen'[r] = "BLOCKED" => journal'[r] = "BLOCKED",
         \A r \in Rows : journal'[r] = "BLOCKED" => journal[r] = "BLOCKED" \/ Fallen \/ Stopped
  PROVE  Caused'
<1>1. With(journal', {"BLOCKED"}) # {} => \E r \in Rows : journal'[r] = "BLOCKED"
  BY DEF With, Typed, TypeOK
<1>2. (\E r \in Rows : journal[r] = "BLOCKED") => Fallen \/ Stopped
  BY FallenRows DEF Caused
<1>3. With(journal', {"BLOCKED"}) # {} => Fallen' \/ Stopped'
  BY <1>1, <1>2
<1> QED BY <1>3 DEF Caused

(* A step that blocks rows only with a reason, or none.                    *)
LEMMA BlocksCaused ==
  ASSUME Typed, Typed', Caused, Fallen => Fallen', Stopped => Stopped',
         NEW S \in SUBSET Rows, NEW then, Block(S, then),
         S # {} => Fallen \/ Stopped,
         then.pc # "recover", then.pc \in {"stopped", "finish stopped"} => Stopped
  PROVE  Caused'
<1>1. stopper' = stopper /\ (worker' = then \/ worker' = NoWorker)
  BY DEF Block
<1>2. \A r \in Rows : journal'[r] = "BLOCKED" => journal[r] = "BLOCKED" \/ r \in S
  BY DEF Block, Marked
<1> QED BY <1>1, <1>2, NoWorkerTyped, CausedKept

(* A step that blocks nothing.                                             *)
LEMMA OthersCaused ==
  ASSUME Typed, Typed', Caused, Fallen => Fallen', Stopped => Stopped',
         \A r \in Rows : journal[r] = "BLOCKED" => journal'[r] = "BLOCKED",
         \A r \in Rows : journal'[r] = "BLOCKED" => journal[r] = "BLOCKED",
         worker'.pc \in {"stopped", "finish stopped"} => worker' = worker \/ Stopped',
         stopper'.pc # "off" => stopper.pc # "off" \/ Stopped',
         worker'.pc = "recover" => worker' = worker /\ seen' = seen
  PROVE  Caused'
<1>1. worker'.pc = "recover" => \A r \in Rows : seen'[r] = "BLOCKED" => journal'[r] = "BLOCKED"
  BY DEF Caused
<1> QED BY <1>1, CausedKept

LEMMA WorkCaused ==
  ASSUME Typed, Typed', Flows, Scheduled, Advances, Caused, Fallen => Fallen', Stopped => Stopped',
         \A r \in Rows : journal[r] = "BLOCKED" => journal'[r] = "BLOCKED", Work
  PROVE  Caused'
<1>1. worker \in Worker /\ seen \in Rowed /\ journal \in Rowed
  BY TypeParts
<1>2. /\ \A pc \in {"creates", "updates", "completions", "remaining", "rest", "finish", "halted",
                    "wait", "continue", "finish stopped"} : [worker EXCEPT !.pc = pc].pc = pc
      /\ NextGroup.pc = "group"
  BY <1>1 DEF Worker, NextGroup
<1>3. CASE Idle /\ worker'.pc \notin {"stopped", "finish stopped", "recover"}
  BY <1>3, OthersCaused DEF Idle, rowsVars
<1>4. ASSUME NEW S \in SUBSET Rows, NEW phase \in Phases, Begin(S, phase),
             worker.pc \notin {"stopped", "finish stopped", "recover"}
      PROVE  Caused'
  <2>1. worker'.pc \notin {"stopped", "finish stopped", "recover"} /\ stopper' = stopper
    BY <1>2, <1>4, NoWorkerTyped DEF Begin
  <2>2. \A r \in Rows : journal'[r] = "BLOCKED" => journal[r] = "BLOCKED"
    BY <1>4 DEF Begin, Marked, rowsVars
  <2> QED BY <2>1, <2>2, OthersCaused
<1>5. CASE EnterGroup
  <2>1. CASE worker.stopping /\ worker.group \in DOMAIN plan.groups /\ Block(Pending(Group), NextGroup)
    <3>1. Fallen
      BY <1>5, <2>1 DEF EnterGroup, Advances, Behind, Loading, Sending
    <3>2. Pending(Group) \in SUBSET Rows
      BY <1>1, WithRows DEF Pending
    <3> QED BY <1>2, <2>1, <3>1, <3>2, BlocksCaused
  <2>2. CASE Idle /\ worker'.pc \in {"creates", "remaining", "completions"}
    BY <1>3, <2>2
  <2>3. \A todo : [worker EXCEPT !.pc = "completions", !.todo = todo].pc = "completions"
    BY <1>1 DEF Worker
  <2>4. CASE worker.group \in DOMAIN plan.groups /\ ~worker.stopping /\ Go("creates") /\ Idle
    BY <1>2, <2>2, <2>4 DEF Go
  <2>5. CASE ~(worker.group \in DOMAIN plan.groups) /\ Idle
    <3>1. /\ worker.stopping => worker' = [worker EXCEPT !.pc = "remaining"]
          /\ ~worker.stopping => \E todo : worker' = [worker EXCEPT !.pc = "completions", !.todo = todo]
      BY <1>5, <2>5 DEF EnterGroup
    <3>2. worker'.pc \in {"remaining", "completions"}
      BY <1>1, <3>1 DEF Worker
    <3> QED BY <2>2, <2>5, <3>2
  <2> QED BY <1>5, <2>1, <2>4, <2>5 DEF EnterGroup
<1>6. CASE TakeBatch
  <2>1. worker'.pc \in {"updates", "creates"}
    BY <1>1, <1>6 DEF TakeBatch, Worker
  <2> QED BY <1>3, <1>6, <2>1 DEF TakeBatch
<1>7. CASE Create
  <2> DEFINE batch == Head(worker.batches)
             without == {r \in batch : ~HasReceipts(r)}
             dropped == First(without, 1)
  <2>1. /\ worker.pc = "creates" /\ worker.batches # <<>> /\ worker.group \in DOMAIN plan.groups
        /\ \A i \in DOMAIN worker.batches : worker.batches[i] \subseteq Group
    BY <1>7, PhasesAre DEF Create, Advances, Placing, Doing
  <2>2. batch \in SUBSET Rows /\ batch \subseteq Group
    <3>1. worker.batches \in Seq(SUBSET Rows)
      BY <1>1 DEF Worker
    <3>2. batch = worker.batches[1] /\ 1 \in DOMAIN worker.batches /\ batch \in SUBSET Rows
      BY <2>1, <3>1
    <3> QED BY <2>1, <3>2
  <2>3. CASE Idle /\ worker' = [worker EXCEPT !.batches = Tail(@)]
    <3>1. worker'.pc = "creates"
      BY <1>1, <2>1, <2>3 DEF Worker
    <3> QED BY <1>3, <2>3, <3>1
  <2>4. CASE without # {} /\ Block(dropped, [worker EXCEPT !.batches[1] = @ \ dropped])
    <3>1. Fallen \/ Stopped
      BY <2>1, <2>2, <2>4, MissingReceipts DEF Advances, Sending
    <3>2. dropped \in SUBSET Rows
      BY <2>2, FirstRows
    <3>3. [worker EXCEPT !.batches[1] = @ \ dropped].pc = "creates"
      <4> HIDE DEF dropped
      <4> QED BY <1>1, <2>1 DEF Worker
    <3> HIDE DEF dropped
    <3> QED BY <2>4, <3>1, <3>2, <3>3, BlocksCaused
  <2>5. CASE Begin(batch, "CREATE")
    <3> HIDE DEF batch
    <3> QED BY <1>4, <2>1, <2>2, <2>5 DEF Phases
  <2> QED BY <1>7, <2>3, <2>4, <2>5 DEF Create
<1>8. CASE Update
  <2> DEFINE updates == Pending(Group \cap plan.updates)
             one == First(updates, 1)
             blocked == worker.stopping \/ \E r \in one : ~HasReceipts(r)
  <2>1. worker.pc = "updates" /\ worker.group \in DOMAIN plan.groups
    BY <1>8, PhasesAre DEF Update, Advances, Placing, Doing
  <2>2. one \in SUBSET Rows /\ one \subseteq Group
    <3>1. updates \in SUBSET Rows /\ updates \subseteq Group
      BY <1>1, WithRows DEF Pending
    <3> QED BY <3>1, FirstRows
  <2>3. CASE Idle /\ worker' = NextGroup
    BY <1>2, <1>3, <2>3
  <2>4. CASE blocked /\ Block(one, worker)
    <3>1. worker.stopping => Fallen
      BY <2>1 DEF Advances, Behind, Loading, Sending
    <3>2. (\E r \in one : ~HasReceipts(r)) => Fallen \/ Stopped
      BY <2>1, <2>2, MissingReceipts DEF Advances, Sending
    <3> HIDE DEF one
    <3> QED BY <2>1, <2>2, <2>4, <3>1, <3>2, BlocksCaused
  <2>5. CASE Begin(one, "UPDATE")
    <3> HIDE DEF one
    <3> QED BY <1>4, <2>1, <2>2, <2>5 DEF Phases
  <2> QED BY <1>8, <2>3, <2>4, <2>5 DEF Update
<1>9. CASE Complete
  <2> DEFINE one == First(worker.todo, 1)
  <2>1. worker.pc = "completions" /\ one \in SUBSET Rows
    BY <1>1, <1>9, FirstRows DEF Complete, Worker
  <2>2. CASE Idle /\ worker'.pc \in {"remaining", "completions", "off"}
    BY <1>3, <2>2
  <2>3. [worker EXCEPT !.todo = @ \ one].pc = "completions"
    <3> HIDE DEF one
    <3> QED BY <1>1, <2>1 DEF Worker
  <2>4. CASE Begin(one, "COMPLETION")
    <3> HIDE DEF one
    <3> QED BY <1>4, <2>1, <2>4 DEF Phases
  <2> QED BY <1>2, <1>9, <2>2, <2>3, <2>4, NoWorkerTyped DEF Complete, Go
<1>10. CASE Remaining
  <2>1. worker'.pc \in {"finish", "rest", "halted"}
    BY <1>2, <1>10 DEF Remaining, Go
  <2> QED BY <1>3, <1>10, <2>1 DEF Remaining
<1>11. CASE BlockRest
  <2>1. worker.pc = "rest" /\ Block(Pending(Rows), [worker EXCEPT !.pc = "finish"])
    BY <1>11 DEF BlockRest
  <2>2. Pending(Rows) = {r \in Rows : seen[r] \in Unattempted} /\ Pending(Rows) \in SUBSET Rows
    BY <1>1, WithRows DEF Pending
  <2>3. ~Fallen => Pending(Rows) = {}
    <3>1. /\ worker.pc \in Loading \ {"wait"} /\ worker.group # 0
          /\ worker.group \notin DOMAIN plan.groups /\ (~Fallen => Passed)
      BY <2>1 DEF Advances, Behind, Placing, Loading
    <3> QED BY <2>2, <3>1, AllPassed
  <2> QED BY <1>2, <2>1, <2>2, <2>3, BlocksCaused
<1>12. CASE Finish \/ FinishStopped
  BY <1>12, NoWorkerTyped, OthersCaused DEF Finish, FinishStopped, rowsVars
<1>13. CASE Halted
  <2>1. Idle /\ (worker' = NoWorker \/ Stopped)
    BY <1>13 DEF Halted, Stopped
  <2>2. CASE worker' = NoWorker
    BY <1>3, <2>1, <2>2, NoWorkerTyped
  <2>3. CASE Stopped
    <3>1. worker'.pc # "recover"
      BY <1>1, <1>13, NoWorkerTyped DEF Halted, Worker
    <3> QED BY <2>1, <2>3, <3>1, OthersCaused DEF Idle, rowsVars
  <2> QED BY <2>1, <2>2, <2>3
<1>14. CASE BlockStopped
  <2>1. worker.pc = "stopped" /\ Stopped /\ worker.todo \in SUBSET Rows
    BY <1>1, <1>14 DEF BlockStopped, Caused, Worker
  <2> QED BY <1>2, <1>14, <2>1, BlocksCaused DEF BlockStopped
<1>15. CASE Recover
  <2>1. \A r \in Rows : journal'[r] = "BLOCKED" => journal[r] = "BLOCKED"
    BY <1>15 DEF Recover, Caused
  <2>2. worker'.pc \in {"continue", "group", "off"} /\ stopper' = stopper
    BY <1>2, <1>15, NoWorkerTyped, TransportTyped DEF Recover
  <2> QED BY <2>1, <2>2, OthersCaused
<1>16. CASE Continue
  <2>1. worker'.pc \in {"group", "off"} /\ stopper' = stopper /\ journal' = journal
    BY <1>16, NoWorkerTyped, TransportTyped DEF Continue, rowsVars
  <2> QED BY <2>1, OthersCaused
<1> QED BY <1>5, <1>6, <1>7, <1>8, <1>9, <1>10, <1>11, <1>12, <1>13, <1>14, <1>15, <1>16 DEF Work

LEMMA NextCaused ==
  ASSUME Typed, Typed', Flows, Scheduled, Advances, Caused, [Next]_vars
  PROVE  Caused'
<1>1. CASE \E p \in Policies : Start(p)
  <2>1. /\ worker'.pc = "group" /\ stopper'.pc = "off"
        /\ journal' = [r \in Rows |-> IF r \in RowsOf(plan') THEN "PLANNED" ELSE "NONE"]
    BY <1>1, TransportTyped DEF Start, NoStopper
  <2>2. With(journal', {"BLOCKED"}) = {}
    BY <2>1 DEF With
  <2> QED BY <2>1, <2>2 DEF Caused
<1>2. CASE ~ \E p \in Policies : Start(p)
  <2>1. loads' = loads
    BY <1>2, PlanStays
  <2>2. /\ Fallen => Fallen'
        /\ Stopped => Stopped'
        /\ \A r \in Rows : journal[r] = "BLOCKED" => journal'[r] = "BLOCKED"
    BY <2>1, CausesLast
  <2>3. CASE Work
    BY <2>2, <2>3, WorkCaused
  <2>4. CASE Settle
    <3>1. worker.pc = "wait" /\ stopper' = stopper
      BY <2>4 DEF Settle
    <3>2. worker'.pc \in Sending
      BY <2>4, SettleShape DEF SettledWritten, SettledApart, SettledRejected, SettledUnknown, SettledAs
    <3>3. \A r \in Rows : journal'[r] = "BLOCKED" => journal[r] = "BLOCKED"
      BY <2>4, SettleShape
         DEF SettledWritten, SettledApart, SettledRejected, SettledUnknown, SettledAs,
             AsWritten, AsRejected, As
    <3> QED BY <2>2, <3>1, <3>2, <3>3, OthersCaused DEF Sending
  <2>5. CASE Stopping
    <3>1. worker' = worker /\ seen' = seen /\ stopper.pc # "off"
      BY <2>5 DEF Stopping, StopRead, StopBlock, StopFinish
    <3>2. Stopped
      BY <3>1 DEF Caused
    <3>3. worker'.pc = "recover" => \A r \in Rows : seen'[r] = "BLOCKED" => journal'[r] = "BLOCKED"
      BY <2>2, <3>1 DEF Caused
    <3> QED BY <2>2, <3>1, <3>2, <3>3, CausedKept
  <2>6. CASE RequestStop
    <3>1. control'.state = "STOP_REQUESTED"
      BY <2>6, TypeParts DEF RequestStop, Control
    <3> QED BY <2>2, <2>6, <3>1, OthersCaused DEF RequestStop, rowsVars, Stopped
  <2>7. CASE Assess
    <3>1. \A r \in Rows : Found(r) = "BLOCKED" => journal[r] = "BLOCKED"
      BY DEF Found, FoundCreate, FoundRecord
    <3>2. /\ \A r \in Rows : seen'[r] = Found(r)
          /\ worker'.pc = "recover" /\ UNCHANGED <<journal, stopper>>
      BY <2>7, TransportTyped DEF Assess, rowsVars
    <3> QED BY <2>2, <3>1, <3>2, CausedKept
  <2>8. CASE Crash
    BY <2>2, <2>8, NoWorkerTyped, OthersCaused DEF Crash, NoStopper, rowsVars
  <2>9. CASE UNCHANGED vars \/ Compare \/ Publish \/ Close \/ Handle \/ \E c \in late : HandleLate(c)
    <3>1. UNCHANGED <<worker, seen, journal, stopper>>
      BY <2>9 DEF vars, Compare, Publish, Close, Handle, HandleLate, rowsVars
    <3> QED BY <2>2, <3>1, OthersCaused
  <2> QED BY <1>2, <2>3, <2>4, <2>5, <2>6, <2>7, <2>8, <2>9 DEF Next
<1> QED BY <1>1, <1>2

---------------------------------------------------------------------------
(* What is set aside holds what was rejected and its consumers.            *)
LEMMA DependentsHold ==
  ASSUME Typed, NEW S \in SUBSET Rows, S # {}
  PROVE  S \cup Consumers(S) \subseteq Dependents(S)
<1> DEFINE V == SUBSET Rows
           body(g, n) == IF n = 0 THEN S ELSE LET near == g[n - 1] IN near \cup Consumers(near)
           further(T) == T \cup Consumers(T)
           step == [n \in Nat |-> [T \in V |-> further(T)]]
           reach == CHOOSE g : g = [n \in Nat |-> body(g, n)]
<1>1. ASSUME NEW T \in V PROVE further(T) \in V
  <2>1. plan.fields \subseteq fields /\ \A f \in fields : f.owner \in Rows
    BY TypeParts, SituationsAssumption DEF Typed, PlanShape, fields
  <2> QED BY <2>1 DEF Consumers
<1>2. step \in [Nat -> [V -> V]] /\ S \in V
  <2> HIDE DEF V, further
  <2> QED BY <1>1 DEF V
<1>3. PICK f : Iterated(f, V, S, step)
  <2> HIDE DEF V, step
  <2> QED BY <1>2, Iterates
<1>4. \A n \in Nat \ {0} : f[n] = further(f[n - 1])
  <2> TAKE n \in Nat \ {0}
  <2>1. n \in Nat /\ n - 1 \in Nat
    OBVIOUS
  <2> HIDE DEF V, further
  <2>2. f[n - 1] \in V
    BY <1>3, <2>1 DEF Iterated
  <2> QED BY <1>3, <2>1, <2>2 DEF Iterated
<1>5. f = [n \in Nat |-> body(f, n)]
  <2> HIDE DEF V
  <2> QED BY <1>3, <1>4 DEF Iterated
<1>6. reach = [n \in Nat |-> body(reach, n)]
  <2> HIDE DEF body
  <2> QED BY <1>5
<1>7. Dependents(S) = reach[Cardinality(Rows)]
  BY DEF Dependents
<1> HIDE DEF reach
<1>8. reach[0] = S /\ \A n \in Nat \ {0} : reach[n] = further(reach[n - 1])
  <2>1. reach[0] = S
    BY <1>6
  <2>2. ASSUME NEW n \in Nat \ {0} PROVE reach[n] = further(reach[n - 1])
    BY <1>6
  <2> QED BY <2>1, <2>2
<1> DEFINE Holding == {n \in Nat : n = 0 \/ further(S) \subseteq reach[n]}
<1>9. Nat \subseteq Holding
  <2>1. 0 \in Holding
    OBVIOUS
  <2>2. ASSUME NEW n \in Nat, n \in Holding PROVE n + 1 \in Holding
    <3>1. reach[n + 1] = further(reach[n])
      <4>1. n + 1 \in Nat \ {0} /\ (n + 1) - 1 = n
        OBVIOUS
      <4> QED BY <1>8, <4>1
    <3>2. further(S) \subseteq reach[n + 1]
      <4>1. CASE n = 0
        BY <1>8, <3>1, <4>1
      <4>2. CASE n # 0
        BY <2>2, <3>1, <4>2
      <4> QED BY <4>1, <4>2
    <3> QED BY <3>2
  <2> HIDE DEF Holding
  <2> QED BY <2>1, <2>2, SetInduction
<1>10. Cardinality(Rows) \in Nat \ {0}
  <2>1. Rows # {}
    OBVIOUS
  <2> QED BY <2>1, RowsAssumption, FS_EmptySet, FS_CardinalityType
<1> QED BY <1>7, <1>9, <1>10

---------------------------------------------------------------------------
(* Nothing that was sent, or is there, refers to a record that is not.     *)
Refers(fs) == \A f \in fs : \A p \in f.refs : count[p] > 0
Grounded == Refers(written) /\ Refers(call.fields) /\ \A c \in late : Refers(c.fields)
Met(r, phase) == Refers(Sent(r, phase))

LEMMA GroundedKept ==
  ASSUME Typed, Grounded, Grows,
         \A f \in written' : f \in written \/ f \in call.fields \/ \E c \in late : f \in c.fields,
         \A f \in call'.fields : f \in call.fields \/ (f \in fields /\ \A p \in f.refs : count[p] > 0),
         \A c \in late' : \A f \in c.fields : f \in call.fields \/ \E d \in late : f \in d.fields
  PROVE  Grounded'
<1> DEFINE Good(f) == f \in fields /\ \A p \in f.refs : count[p] > 0
<1>1. \A f \in fields : f.refs \subseteq Rows
  BY TypeParts, SituationsAssumption DEF fields
<1>2. ASSUME NEW f, Good(f) PROVE \A p \in f.refs : count'[p] > 0
  BY <1>1, <1>2 DEF Grows
<1>3. written \subseteq fields /\ call.fields \subseteq fields /\ \A c \in late : c.fields \subseteq fields
  BY TypeParts DEF Calls, Call
<1>4. /\ \A f \in written : Good(f)
      /\ \A f \in call.fields : Good(f)
      /\ \A c \in late : \A f \in c.fields : Good(f)
  BY <1>3 DEF Grounded, Refers
<1>5. /\ \A f \in written' : Good(f)
      /\ \A f \in call'.fields : Good(f)
      /\ \A c \in late' : \A f \in c.fields : Good(f)
  BY <1>4
<1> HIDE DEF Good
<1>6. /\ \A f \in written' : \A p \in f.refs : count'[p] > 0
      /\ \A f \in call'.fields : \A p \in f.refs : count'[p] > 0
      /\ \A c \in late' : \A f \in c.fields : \A p \in f.refs : count'[p] > 0
  BY <1>2, <1>5
<1> QED BY <1>6 DEF Grounded, Refers

(* A call that leaves sends what its rows send.                            *)
LEMMA BeginGrounded ==
  ASSUME Typed, Grounded, NEW S \in SUBSET Rows, NEW phase \in Phases, Begin(S, phase),
         run = "RUNNING" /\ control.state = "RUNNING" => \A r \in S : Met(r, phase)
  PROVE  Grounded'
<1>1. UNCHANGED odoo
  BY DEF Begin
<1>2. Grows /\ written' = written /\ late' = late
  BY <1>1, OdooSame DEF odoo
<1>3. CASE call' = call
  BY <1>2, <1>3, GroundedKept
<1>4. CASE call' # call
  <2>1. /\ run = "RUNNING" /\ control.state = "RUNNING"
        /\ call'.fields = UNION {Sent(r, phase) : r \in S}
    BY <1>4 DEF Begin
  <2>2. \A r \in S : Sent(r, phase) \subseteq fields
    BY DEF Typed, PlanShape, Sent, Deferred, DeferredOf, FieldsOf
  <2>3. \A f \in call'.fields : f \in fields /\ \A p \in f.refs : count[p] > 0
    BY <2>1, <2>2 DEF Met, Refers
  <2> QED BY <1>2, <2>3, GroundedKept
<1> QED BY <1>3, <1>4

(* A create or an update refers to records that are there already or have  *)
(* a receipt.                                                              *)
LEMMA ReceiptsMet ==
  ASSUME Typed, Flows, Accounted, Scheduled, worker.pc \in Sending,
         NEW r \in Rows, HasReceipts(r), NEW phase \in {"CREATE", "UPDATE"}
  PROVE  Met(r, phase)
<1> SUFFICES ASSUME NEW f \in FieldsOf(plan, r) \ plan.deferred, NEW p \in f.refs
             PROVE  count[p] > 0
  BY DEF Met, Refers, Sent
<1>1. p \in Needs(r) /\ p \in Rows
  <2>1. f \in fields
    BY DEF Typed, PlanShape, FieldsOf
  <2>2. f.refs \subseteq Rows
    BY <2>1, TypeParts, SituationsAssumption DEF fields
  <2> QED BY <2>2 DEF Needs, NeedsOf
<1>2. run # "NONE" /\ \A q \in Rows : seen[q] = journal[q] \/ seen[q] \in Unattempted
  BY DEF Flows, CopyFollows, Sending
<1>3. CASE p \in plan.creates
  <2>1. seen[p] \in Created
    BY <1>1, <1>3 DEF HasReceipts
  <2>2. journal[p] \in Created
    BY <1>1, <1>2, <2>1 DEF Created, Unattempted
  <2> QED BY <1>1, <2>2 DEF Accounted, Truthful, Whole, Placed, Created
<1>4. CASE p \notin plan.creates
  BY <1>1, <1>2, <1>4 DEF Scheduled
<1> QED BY <1>3, <1>4

(* A completion is sent once every group is behind: what it refers to is   *)
(* there, or was rejected, and then it is set aside or nothing is sent.    *)
LEMMA CompletionMet ==
  ASSUME Typed, Flows, Accounted, Scheduled, Advances, Caused, worker.pc = "completions",
         control.state = "RUNNING", NEW r \in worker.todo, r \notin SetAside
  PROVE  Met(r, "COMPLETION")
<1> SUFFICES ASSUME NEW f \in Deferred(r), NEW p \in f.refs
             PROVE  count[p] > 0
  BY DEF Met, Refers, Sent
<1>1. /\ f \in plan.fields /\ f.owner = r /\ p \in Rows /\ journal \in Rowed /\ seen \in Rowed
      /\ diagnosed \subseteq Rows /\ policy \in {"STOP", "CONTINUE"}
  <2>1. f \in plan.fields /\ f \in fields /\ f.owner = r
    BY DEF Typed, PlanShape, Deferred, DeferredOf, FieldsOf
  <2>2. f.refs \subseteq Rows
    BY <2>1, TypeParts, SituationsAssumption DEF fields
  <2> QED BY <2>1, <2>2, TypeParts
<1>2. /\ run # "NONE" /\ \A q \in Rows : seen[q] = journal[q] \/ seen[q] \in Unattempted
      /\ journal[p] = "NONE" <=> p \notin RowsOf(plan)
  BY <1>1 DEF Flows, CopyFollows
<1>3. ~Ceased(worker) /\ ~Bad
  BY DEF Ceased, Flows, StopsFollow, Sending
<1>4. CASE p \in plan.creates
  <2>1. worker.group # 0 /\ worker.group \notin DOMAIN plan.groups /\ Passed
    BY <1>3, PhasesAre DEF Advances, Behind, Placing, Calling, Doing, Loading, Sending
  <2>2. seen[p] \notin Unattempted
    BY <1>1, <2>1, AllPassed DEF Loading, Sending
  <2>3. seen[p] = journal[p] /\ journal[p] # "NONE" /\ journal[p] # "IN_FLIGHT"
    <3>1. InFlight = {}
      BY DEF Flows, CallsFollow
    <3> QED BY <1>1, <1>2, <1>4, <2>2, <3>1 DEF InFlight, With, RowsOf, Rowed
  <2>4. journal[p] # "OUTCOME_UNKNOWN" /\ (policy = "STOP" => journal[p] # "FAILED")
    BY <1>1, <1>3 DEF Bad, With, Rowed
  <2>5. policy = "STOP" => journal[p] # "BLOCKED"
    <3>1. With(journal, {"FAILED", "OUTCOME_UNKNOWN"}) # {} =>
            With(journal, {"FAILED"}) # {} \/ With(journal, {"OUTCOME_UNKNOWN"}) # {}
      BY DEF With
    <3>2. journal[p] = "BLOCKED" => Fallen
      BY <1>1, FallenRows DEF Caused, Stopped
    <3> QED BY <1>3, <3>1, <3>2 DEF Bad, Fallen
  <2>6. policy = "CONTINUE" => journal[p] \notin {"FAILED", "BLOCKED"}
    <3> DEFINE base == With(seen, {"FAILED", "BLOCKED"})
                       \cup (diagnosed \cap With(seen, {"PARTIALLY_APPLIED"}))
    <3>1. ASSUME policy = "CONTINUE", journal[p] \in {"FAILED", "BLOCKED"} PROVE FALSE
      <4>1. p \in base /\ base \in SUBSET Rows
        BY <1>1, <2>3, <3>1 DEF With, Rowed
      <4>2. r \in Consumers(base)
        <5> HIDE DEF base
        <5> QED BY <1>1, <4>1 DEF Consumers
      <4>3. Dependents(base) = SetAside
        BY <3>1 DEF SetAside
      <4> HIDE DEF base
      <4> QED BY <4>1, <4>2, <4>3, DependentsHold
    <3> QED BY <3>1
  <2>7. journal[p] \in Created
    BY <1>1, <2>2, <2>3, <2>4, <2>5, <2>6 DEF Rowed, Statuses, Unattempted, Created
  <2> QED BY <1>1, <2>7 DEF Accounted, Truthful, Whole, Placed, Created
<1>5. CASE p \notin plan.creates
  BY <1>1, <1>2, <1>5 DEF Scheduled
<1> QED BY <1>4, <1>5

LEMMA WorkGrounded ==
  ASSUME Typed, Flows, Accounted, Scheduled, Advances, Caused, Grounded, Work
  PROVE  Grounded'
<1>1. CASE UNCHANGED <<call, odoo>>
  BY <1>1, OdooSame, GroundedKept DEF odoo
<1>2. CASE Create
  <2> DEFINE batch == Head(worker.batches)
  <2>1. CASE UNCHANGED <<call, odoo>>
    BY <1>1, <2>1
  <2>2. CASE Begin(batch, "CREATE") /\ {r \in batch : ~HasReceipts(r)} = {}
    <3>1. worker.pc = "creates" /\ worker.batches # <<>> /\ worker.batches \in Seq(SUBSET Rows)
      BY <1>2, TypeParts DEF Create, Worker
    <3>2. batch \in SUBSET Rows
      BY <3>1
    <3>3. \A r \in batch : HasReceipts(r)
      BY <2>2
    <3> HIDE DEF batch
    <3>4. \A r \in batch : Met(r, "CREATE")
      BY <3>1, <3>2, <3>3, ReceiptsMet DEF Sending
    <3> QED BY <2>2, <3>2, <3>4, BeginGrounded DEF Phases
  <2> QED BY <1>2, <2>1, <2>2 DEF Create, Idle, Block
<1>3. CASE Update
  <2> DEFINE one == First(Pending(Group \cap plan.updates), 1)
  <2>1. CASE UNCHANGED <<call, odoo>>
    BY <1>1, <2>1
  <2>2. CASE Begin(one, "UPDATE") /\ ~ \E r \in one : ~HasReceipts(r)
    <3>1. one \in SUBSET Rows
      <4>1. Pending(Group \cap plan.updates) \in SUBSET Rows
        BY DEF Pending, Typed, PlanShape
      <4> QED BY <4>1, FirstRows
    <3> HIDE DEF one
    <3>2. \A r \in one : Met(r, "UPDATE")
      BY <1>3, <2>2, <3>1, ReceiptsMet DEF Update, Sending
    <3> QED BY <2>2, <3>1, <3>2, BeginGrounded DEF Phases
  <2> QED BY <1>3, <2>1, <2>2 DEF Update, Idle, Block
<1>4. CASE Complete
  <2> DEFINE one == First(worker.todo, 1)
  <2>1. CASE UNCHANGED <<call, odoo>>
    BY <1>1, <2>1
  <2>2. CASE one # {} /\ ~(one \subseteq SetAside) /\ Begin(one, "COMPLETION")
    <3>1. worker.pc = "completions" /\ worker.todo \subseteq plan.creates /\ run # "NONE"
      BY <1>4, PhasesAre DEF Complete, Advances, Placing, Doing, Flows, CopyFollows
    <3>2. one \subseteq worker.todo /\ worker.todo \in SUBSET Rows /\ one \in SUBSET Rows
      BY TypeParts, FirstRows DEF Worker
    <3>3. PICK r \in worker.todo : one = {r}
      <4>1. worker.todo \subseteq RowsOf(plan) /\ worker.todo # {}
        BY <2>2, <3>1, <3>2 DEF RowsOf
      <4> QED BY <3>1, <4>1, FirstIsOne
    <3> HIDE DEF one
    <3>4. control.state = "RUNNING" => Met(r, "COMPLETION")
      BY <2>2, <3>1, <3>3, CompletionMet
    <3> QED BY <2>2, <3>2, <3>3, <3>4, BeginGrounded DEF Phases
  <2> QED BY <1>4, <2>1, <2>2 DEF Complete, Idle
<1>5. CASE ~(Create \/ Update \/ Complete)
  <2>1. UNCHANGED <<call, odoo>>
    BY <1>5 DEF Work, EnterGroup, TakeBatch, Remaining, BlockRest, Finish, Halted, BlockStopped,
                FinishStopped, Recover, Continue, Idle, Block
  <2> QED BY <1>1, <2>1
<1> QED BY <1>2, <1>3, <1>4, <1>5

LEMMA NextGrounded ==
  ASSUME Typed, Flows, Accounted, Scheduled, Advances, Caused, Grounded, [Next]_vars
  PROVE  Grounded'
<1>1. CASE Work
  BY <1>1, WorkGrounded
<1>2. CASE Settle \/ Crash
  <2>1. /\ UNCHANGED <<count, written>> /\ call' = NoCall /\ (late' = late \/ GiveUp)
    BY <1>2 DEF Settle, Accepted, TakeApart, Rejected, Unknown, Record, Crash
  <2>2. \A c \in late' : c \in late \/ c.fields = call.fields
    BY <2>1 DEF GiveUp
  <2> QED BY <2>1, <2>2, OdooSame, GroundedKept DEF NoCall
<1>3. CASE Handle
  <2>1. call'.fields = call.fields /\ late' = late
    BY <1>3, TypeParts DEF Handle, Calls
  <2>2. UNCHANGED <<count, written>> \/ (Carry(call) /\ written' = written \cup call.fields)
    BY <1>3 DEF Handle, Carry
  <2> QED BY <2>1, <2>2, OdooSame, CarryGrows, GroundedKept
<1>4. CASE \E c \in late : HandleLate(c)
  <2>1. PICK c \in late : HandleLate(c)
    BY <1>4
  <2>2. Carry(c) /\ written' = written \cup c.fields /\ late' \subseteq late /\ call' = call
    BY <2>1 DEF HandleLate, Carry
  <2> QED BY <2>2, CarryGrows, GroundedKept
<1>5. CASE UNCHANGED <<call, odoo>>
  BY <1>5, OdooSame, GroundedKept DEF odoo
<1>6. CASE ~(Work \/ Settle \/ Crash \/ Handle \/ \E c \in late : HandleLate(c))
  <2>1. UNCHANGED <<call, odoo>>
    BY <1>6 DEF Next, vars, Start, Stopping, StopRead, StopBlock, StopFinish, RequestStop, Assess,
                Compare, Publish, Close
  <2> QED BY <1>5, <2>1
<1> QED BY <1>1, <1>2, <1>3, <1>4, <1>6

LEMMA InitGrounded ==
  ASSUME Init
  PROVE  Grounded
BY DEF Init, NoCall, Grounded, Refers

---------------------------------------------------------------------------
LEMMA LoadAdvances == Spec => [](Typed /\ Scheduled /\ Caused /\ Grounded)
<1> DEFINE IInv == /\ Typed /\ Flows /\ Accounted /\ Scheduled
                   /\ Advances /\ Caused /\ Grounded
<1>1. Init => IInv
  BY InitTyped, InitFlows, InitAccounted, InitScheduled, InitAdvances, InitGrounded
<1>2. IInv /\ [Next]_vars => IInv'
  <2> SUFFICES ASSUME IInv, [Next]_vars PROVE IInv'
    OBVIOUS
  <2>1. Typed' /\ Flows' /\ Accounted'
    BY NextTyped, NextFlows, NextAccounted
  <2>2. Scheduled' /\ Advances'
    BY <2>1, NextScheduled, NextAdvances
  <2>3. Caused' /\ Grounded'
    BY <2>1, NextCaused, NextGrounded
  <2> QED BY <2>1, <2>2, <2>3
<1>3. IInv => Typed /\ Scheduled /\ Caused /\ Grounded
  OBVIOUS
<1> QED BY <1>1, <1>2, <1>3, PTL DEF Spec

(* Whatever is compared and however often a load is started, each of its   *)
(* rows is in one group, behind the new records that its first write needs *)
(* (schedule_dependencies, _topological_order_with_levels); no field in    *)
(* Odoo refers to a record that is not there; and a row is blocked only    *)
(* for a rejection, an unknown outcome or a stop (_transport_run).         *)
THEOREM PlansCarry == Spec => []PlanCarries
<1>1. Typed /\ Scheduled /\ Caused /\ Grounded => PlanCarries
  <2> SUFFICES ASSUME Typed, Scheduled, Caused, Grounded PROVE PlanCarries
    OBVIOUS
  <2>1. IsSchedule(plan)
    BY PlanFacts DEF Scheduled
  <2>2. ParentsFirst
    BY DEF Grounded, Refers, ParentsFirst
  <2>3. BlockedForCause
    BY DEF Caused, Fallen, Stopped, BlockedForCause
  <2> QED BY <2>1, <2>2, <2>3 DEF PlanCarries
<1> QED BY <1>1, LoadAdvances, PTL

---------------------------------------------------------------------------
(* What a comparison, or the plan made from it, leaves out is in Odoo.     *)
Covers(fs) == \A f \in fields : f \in fs \/ f \in written
Covered ==
  /\ Covers(review.fields) /\ \A v \in reading : Covers(v.fields)
  /\ run # "NONE" => Covers(plan.fields)

LEMMA NextCovered ==
  ASSUME Typed, Covered, [Next]_vars
  PROVE  Covered'
<1>1. CASE \E p \in Policies : Start(p)
  <2>1. /\ plan' = Schedule(review.creates, review.fields)
        /\ UNCHANGED <<prepared, review, reading, written>>
    BY <1>1 DEF Start, PlanOf, odoo
  <2>2. plan'.fields = review.fields
    BY <2>1, ScheduleShape
  <2> QED BY <2>1, <2>2 DEF Covered, Covers, fields
<1>2. CASE ~ \E p \in Policies : Start(p)
  <2>1. UNCHANGED <<prepared, plan>> /\ written \subseteq written' /\ (run' # "NONE" => run # "NONE")
    BY <1>2, PlanStays DEF Grows
  <2>2. ASSUME NEW fs, Covers(fs) PROVE \A f \in fields' : f \in fs \/ f \in written'
    BY <2>1, <2>2 DEF Covers, fields
  <2>3. Covers(review'.fields) /\ \A v \in reading' : Covers(v.fields)
    <3>1. CASE Compare
      <4>1. Covers(Compared.fields)
        BY DEF Covers, Compared
      <4>2. review' = review /\ reading' = {Compared}
        BY <3>1 DEF Compare
      <4> QED BY <4>1, <4>2 DEF Covered
    <3>2. CASE Publish
      BY <3>2 DEF Publish, Covered
    <3>3. CASE ~(Compare \/ Publish)
      <4>1. review' = review /\ (reading' = reading \/ reading' = {})
        <5>1. CASE Work
          <6>1. UNCHANGED past
            BY <5>1 DEF Work, EnterGroup, TakeBatch, Create, Update, Complete, Remaining, BlockRest,
                    Finish, Halted, BlockStopped, FinishStopped, Recover, Continue, Idle, Block, Begin
          <6> QED BY <6>1 DEF past, compared
        <5>2. CASE ~Work
          BY <1>2, <3>3, <5>2
             DEF Next, vars, past, compared, Settle, Stopping, StopRead, StopBlock, StopFinish,
                 RequestStop, Assess, Crash, Close, Handle, HandleLate
        <5> QED BY <5>1, <5>2
      <4> QED BY <4>1 DEF Covered
    <3> QED BY <3>1, <3>2, <3>3
  <2>4. run' # "NONE" => Covers(plan'.fields)
    BY <2>1 DEF Covered
  <2> QED BY <2>2, <2>3, <2>4 DEF Covered, Covers
<1> QED BY <1>1, <1>2

LEMMA InitCovered ==
  ASSUME Init
  PROVE  Covered
BY DEF Init, Compared, Covered, Covers

LEMMA CoveredRows ==
  ASSUME Typed, Accounted, Scheduled, Covered, run # "NONE", NEW r \in Rows,
         r \notin RowsOf(plan) \/ journal[r] = "COMMITTED"
  PROVE  count[r] > 0 /\ FieldsOf(prepared, r) \subseteq written
<1>1. \A f \in FieldsOf(prepared, r) : f \in fields /\ f.owner = r
  BY DEF FieldsOf, fields
<1>2. CASE journal[r] = "COMMITTED"
  <2>1. count[r] > 0 /\ FieldsOf(plan, r) \subseteq written
    BY <1>2 DEF Accounted, Truthful, Whole
  <2> QED BY <1>1, <2>1 DEF Covered, Covers, FieldsOf
<1>3. CASE r \notin RowsOf(plan)
  <2>1. plan.updates = (plan.creates \cup {f.owner : f \in plan.fields}) \ plan.creates
    BY ScheduleShape DEF Scheduled
  <2>2. count[r] > 0
    BY <1>3 DEF Scheduled, RowsOf
  <2>3. \A f \in plan.fields : f.owner # r
    BY <1>3, <2>1 DEF RowsOf
  <2> QED BY <1>1, <2>2, <2>3 DEF Covered, Covers
<1> QED BY <1>2, <1>3

LEMMA CompletesWhole ==
  ASSUME Typed, Flows, Accounted, Scheduled, Covered
  PROVE  CompletedIsWhole
<1> SUFFICES ASSUME run = "COMPLETED", NEW r \in Rows
             PROVE  count[r] > 0 /\ FieldsOf(prepared, r) \subseteq written
  BY DEF CompletedIsWhole
<1>1. With(journal, {"COMMITTED"}) = RowsOf(plan)
  BY DEF Flows, FinishedIsSettled
<1>2. r \in RowsOf(plan) => journal[r] = "COMMITTED"
  BY <1>1 DEF With
<1> QED BY <1>2, CoveredRows

(* A run that has ended leaves no row open, whoever ended it: the worker,  *)
(* a stop request or a worker resumed after an exit.  It is called         *)
(* complete (finish_run) only if every row of the schedule is committed    *)
(* and all that is prepared is in Odoo, whatever was found there by its    *)
(* comparison, resumed, or compared again while it went on.                *)
THEOREM EndsStayTrue == Spec => []EndIsTrue
<1> DEFINE IInv == Typed /\ Flows /\ Accounted /\ Scheduled /\ Covered
<1>1. Init => IInv
  BY InitTyped, InitFlows, InitAccounted, InitScheduled, InitCovered
<1>2. IInv /\ [Next]_vars => IInv'
  BY NextTyped, NextFlows, NextAccounted, NextScheduled, NextCovered
<1>3. IInv => EndIsTrue
  BY CompletesWhole DEF EndIsTrue, Flows
<1> QED BY <1>1, <1>2, <1>3, PTL DEF Spec

---------------------------------------------------------------------------
(* Loads as they are seen from outside.                                    *)
Telling == [r \in Rows |-> Told(journal[r])]

LEMMA ToldIs ==
  ASSUME NEW status \in Statuses \cup {"NONE"}
  PROVE  /\ Told(status) = "none" <=> status = "NONE"
         /\ Told(status) = "written" <=> status = "COMMITTED"
         /\ Told(status) = "left" <=> status \in {"FAILED", "BLOCKED", "OUTCOME_UNKNOWN"}
         /\ Told(status) = "open" <=> status \in Unattempted \cup {"IN_FLIGHT", "PARTIALLY_APPLIED"}
BY DEF Told, Statuses, Unattempted, Created

LEMMA VerdictIs ==
  ASSUME run \in RunStatuses
  PROVE  /\ Verdict = "going" <=> run = "RUNNING"
         /\ Verdict = "whole" <=> run = "COMPLETED"
         /\ Verdict = "none" <=> run = "NONE"
         /\ Verdict \in {"none", "going", "whole", "released", "partly"}
BY DEF Verdict, RunStatuses

(* What a step that starts no load may do, when no call is out late.       *)
LEMMA StepsApart ==
  ASSUME Typed, Flows, Advances, late = {}, [Next]_vars, ~ \E p \in Policies : Start(p)
  PROVE  \/ Handle
         \/ /\ UNCHANGED <<count, written>>
            /\ \/ UNCHANGED <<journal, run>>
               \/ run = "RUNNING" /\ run' = run
               \/ run = "RUNNING" /\ run' \notin {"NONE", "RUNNING"} /\ journal' = journal
<1>1. CASE UNCHANGED vars
  BY <1>1 DEF vars, odoo, rowsVars
<1>2. \A status \in {"BLOCKED"} : Marked(journal, {}, status) = journal
  BY TypeParts DEF Marked, Rowed
<1>3. CASE Work
  <2>1. CASE Walk \/ Continue
    BY <2>1 DEF Walk, Idle, Continue, rowsVars, odoo
  <2>2. CASE Blocks
    BY <2>2, <1>2 DEF Blocks, Block, MayBlock, odoo
  <2>3. CASE Begins
    BY <2>3 DEF Begins, Begin, odoo, rowsVars
  <2>4. CASE Finishes
    BY <2>4 DEF Finishes, FinishRun, MayFinish, odoo, rowsVars
  <2>5. CASE Recover
    BY <2>5 DEF Recover, Resumable, odoo
  <2> QED BY <1>3, <2>1, <2>2, <2>3, <2>4, <2>5, WorkShapes
<1>4. CASE Settle
  <2>1. run = "RUNNING"
    BY <1>4 DEF Settle, Advances, Calling, Flows, CallsFollow
  <2> QED BY <1>4, <2>1 DEF Settle
<1>5. CASE Stopping \/ RequestStop
  BY <1>5, <1>2
     DEF Stopping, StopRead, StopBlock, StopFinish, RequestStop, FinishRun, MayFinish, MayBlock, rowsVars, odoo
<1>6. CASE Assess \/ Crash \/ Compare \/ Publish \/ Close
  BY <1>6 DEF Assess, Crash, Compare, Publish, Close, odoo, rowsVars
<1>7. ~ \E c \in late : HandleLate(c)
  OBVIOUS
<1> QED BY <1>1, <1>3, <1>4, <1>5, <1>6, <1>7 DEF Next

LEMMA StartPromised ==
  ASSUME Typed, Typed', Accounted, Covered, NEW p \in Policies, Start(p)
  PROVE  Promise!Begin
<1>1. /\ run # "RUNNING" /\ run' = "RUNNING" /\ UNCHANGED <<prepared, count, written>>
      /\ plan' = Schedule(review.creates, review.fields)
      /\ journal' = [r \in Rows |-> IF r \in RowsOf(plan') THEN "PLANNED" ELSE "NONE"]
  BY DEF Start, PlanOf, odoo
<1>2. \A r \in Rows : r \notin RowsOf(plan') => r \notin review.creates /\ \A f \in review.fields : f.owner # r
  <2>1. /\ plan'.creates = review.creates
        /\ plan'.updates = {f.owner : f \in review.fields} \ review.creates
    BY <1>1, ScheduleShape
  <2> QED BY <2>1 DEF RowsOf
<1>3. ASSUME NEW r \in Rows, r \notin RowsOf(plan')
      PROVE  count[r] > 0 /\ \A f \in fields : f.owner = r => f \in written
  BY <1>2, <1>3 DEF Accounted, ViewsAge, Covered, Covers
<1>4. /\ Verdict # "going" /\ Verdict' = "going" /\ fields' = fields
  BY <1>1, TypeParts, VerdictIs DEF Verdict, fields
<1>5. Telling' = [r \in Rows |-> IF r \in RowsOf(plan') THEN "open" ELSE "none"]
  BY <1>1, ToldIs DEF Telling, Told
<1> QED BY <1>1, <1>3, <1>4, <1>5 DEF Promise!Begin, Promise!Whole, Telling

LEMMA SettlePromised ==
  ASSUME Typed, Typed', Flows, Flows', Accounted', Covered, [Next]_vars, loads' = loads,
         UNCHANGED <<prepared, plan, count, written>>, run = "RUNNING", run' = run
  PROVE  Promise!Settle
<1>1. SettledRowsStay
  BY NextKeeps DEF Keeps
<1>2. fields' = fields /\ Verdict = "going" /\ Verdict' = Verdict
  BY TypeParts, VerdictIs DEF Verdict, fields
<1>3. ASSUME NEW r \in Rows, Told(journal'[r]) # Told(journal[r])
      PROVE  /\ Told(journal[r]) = "open"
             /\ \/ Told(journal'[r]) = "left"
                \/ /\ Told(journal'[r]) = "written"
                   /\ count[r] > 0 /\ \A f \in fields : f.owner = r => f \in written
  <2>1. journal[r] \in Statuses \cup {"NONE"} /\ journal'[r] \in Statuses \cup {"NONE"}
    BY TypeParts DEF Typed, TypeOK
  <2>2. (journal[r] = "NONE" <=> r \notin RowsOf(plan)) /\ (journal'[r] = "NONE" <=> r \notin RowsOf(plan))
    BY DEF Flows, CopyFollows
  <2>3. journal[r] \notin {"NONE", "COMMITTED", "FAILED", "BLOCKED", "OUTCOME_UNKNOWN"}
    BY <1>1, <1>3, <2>2 DEF SettledRowsStay
  <2>4. Told(journal[r]) = "open"
    BY <2>1, <2>3 DEF Statuses, Created, Told
  <2>5. journal'[r] \in {"COMMITTED", "FAILED", "BLOCKED", "OUTCOME_UNKNOWN"}
    BY <1>3, <2>1, <2>2, <2>3, <2>4 DEF Statuses, Created, Told
  <2>6. journal'[r] = "COMMITTED" => count[r] > 0 /\ FieldsOf(plan, r) \subseteq written
    BY DEF Accounted, Truthful, Whole
  <2>7. FieldsOf(plan, r) \subseteq written => \A f \in fields : f.owner = r => f \in written
    BY DEF Covered, Covers, FieldsOf
  <2> QED BY <2>4, <2>5, <2>6, <2>7 DEF Told
<1> QED BY <1>2, <1>3 DEF Promise!Settle, Promise!Whole

LEMMA EndPromised ==
  ASSUME Typed, Typed', Flows, Flows', UNCHANGED <<prepared, plan, count, written, journal>>,
         run = "RUNNING", run' \notin {"NONE", "RUNNING"}
  PROVE  Promise!End
<1>1. fields' = fields /\ Verdict = "going"
  BY VerdictIs, TypeParts DEF fields
<1>2. Verdict' \in {"whole", "partly", "released"} /\ (Verdict' = "whole" <=> run' = "COMPLETED")
  <2>1. run' \in RunStatuses
    BY DEF Typed, TypeOK
  <2> QED BY <2>1 DEF Verdict, RunStatuses
<1>3. ASSUME run' = "COMPLETED", NEW r \in Rows
      PROVE  Told(journal[r]) \in {"written", "none"}
  <2>1. With(journal, {"COMMITTED"}) = RowsOf(plan)
    BY <1>3 DEF Flows, FinishedIsSettled, With
  <2>2. journal[r] = "NONE" <=> r \notin RowsOf(plan)
    BY DEF Flows, CopyFollows
  <2> QED BY <2>1, <2>2 DEF With, Told
<1> QED BY <1>1, <1>2, <1>3 DEF Promise!End

LEMMA CarriedOwners ==
  ASSUME Typed, Flows, Accounted, call.rows # {}, Carry(call)
  PROVE  \A r \in call.rows : count'[r] > 0
<1>1. worker.pc = "wait" /\ InFlight = call.rows /\ flight = call.phase
  BY DEF Flows, CallsFollow
<1>2. call.rows \subseteq Rows /\ call.phase \in Phases
  BY TypeParts DEF Calls
<1>3. /\ Grows
      /\ call.phase = "CREATE" => \A r \in call.rows : count'[r] > 0
  BY <1>2, CarryGrows
<1>4. CASE call.phase = "UPDATE"
  BY <1>4, <1>1, <1>2, <1>3 DEF Accounted, FlightKnown, ViewsAge, Grows
<1>5. CASE call.phase = "COMPLETION"
  BY <1>5, <1>1, <1>2, <1>3 DEF Accounted, FlightKnown, Placed, Grows
<1> QED BY <1>2, <1>3, <1>4, <1>5 DEF Phases

LEMMA WritePromised ==
  ASSUME Typed, Flows, Accounted, Apart, Grounded, Handle, Carry(call)
  PROVE  Promise!Write
<1>1. /\ UNCHANGED <<prepared, run, journal>> /\ call.rows # {} /\ call.answer = "none"
  BY DEF Handle, past, rowsVars
<1>2. worker.pc = "wait" /\ run = "RUNNING" /\ InFlight = call.rows
  BY <1>1 DEF Flows, CallsFollow
<1>3. call.rows \subseteq Rows /\ call.fields \subseteq fields /\ count \in [Rows -> Nat]
  BY TypeParts DEF Calls
<1>4. fields' = fields /\ Verdict = "going" /\ Verdict' = Verdict /\ Telling' = Telling
  BY <1>1, <1>2, VerdictIs, TypeParts DEF Verdict, fields, Telling
<1>5. \A r \in call.rows : Told(journal[r]) = "open"
  BY <1>2 DEF InFlight, With, Told
<1>6. ASSUME NEW r \in Rows, count'[r] # count[r]
      PROVE  r \in call.rows /\ count[r] = 0 /\ count'[r] = 1
  <2>1. /\ call.phase = "CREATE" /\ r \in call.rows
        /\ count'[r] = IF Remote THEN 1 ELSE count[r] + 1
    BY <1>3, <1>6 DEF Carry
  <2>2. count[r] \in Nat /\ count[r] <= 1
    BY <1>3 DEF Apart
  <2>3. CASE Remote
    BY <1>6, <2>1, <2>2, <2>3
  <2>4. CASE ~Remote
    <3>1. r \in plan.creates
      BY <1>2, <2>1 DEF Typed, Creating
    <3>2. count[r] = 0
      BY <1>1, <1>2, <2>1, <2>4, <3>1 DEF Apart, Local, NotYet, Absent
    <3> QED BY <2>1, <2>4, <3>2
  <2> QED BY <2>3, <2>4
<1>7. written' = written \cup call.fields
  BY DEF Carry
<1>8. ASSUME NEW f \in written' \ written
      PROVE  /\ f \in fields /\ f.owner \in call.rows /\ count'[f.owner] > 0
             /\ \A p \in f.refs : count[p] > 0
  <2>1. f \in call.fields
    BY <1>7
  <2>2. f.owner \in call.rows
    BY <1>2, <2>1, CallOwnsFields
  <2>3. count'[f.owner] > 0
    BY <1>1, <2>2, CarriedOwners
  <2> QED BY <1>3, <2>1, <2>2, <2>3 DEF Grounded, Refers
<1> QED BY <1>3, <1>4, <1>5, <1>6, <1>7, <1>8 DEF Promise!Write, Telling

LEMMA InitPromised ==
  ASSUME Init
  PROVE  Promise!Init
<1>1. /\ count = [r \in Rows |-> IF r \in prepared.existing THEN 1 ELSE 0] /\ written = {}
      /\ run = "NONE" /\ journal = [r \in Rows |-> "NONE"]
  BY DEF Init
<1>2. count \in [Rows -> 0..1]
  BY <1>1
<1>3. [r \in Rows |-> Told(journal[r])] = [r \in Rows |-> "none"] /\ Verdict = "none"
  BY <1>1 DEF Told, Verdict
<1> QED BY <1>1, <1>2, <1>3 DEF Promise!Init

(* With an Odoo that carries out no call after its caller has given up,    *)
(* loads are what RowsOnce promises: every step of the service, of its     *)
(* operators and of Odoo is one of the four it knows, or is not seen.      *)
THEOREM LoadsWriteOnce ==
  ASSUME ~LateCalls
  PROVE  Spec => ImplementsRowsOnce
<1> DEFINE IInv == /\ Typed /\ Flows /\ Accounted /\ Apart /\ Scheduled
                   /\ Advances /\ Caused /\ Grounded /\ Covered
           Seen == <<fields, count, written, [r \in Rows |-> Told(journal[r])], Verdict>>
<1>1. Init => IInv /\ Promise!Init
  BY InitTyped, InitFlows, InitAccounted, InitApart, InitScheduled, InitAdvances, InitGrounded,
     InitCovered, InitPromised
<1>2. IInv /\ [Next]_vars => IInv'
  <2> SUFFICES ASSUME IInv, [Next]_vars PROVE IInv'
    OBVIOUS
  <2>1. Typed' /\ Flows' /\ Accounted' /\ Apart'
    BY NextTyped, NextFlows, NextAccounted, NextApart
  <2>2. Scheduled' /\ Advances' /\ Caused' /\ Grounded' /\ Covered'
    BY <2>1, NextScheduled, NextAdvances, NextCaused, NextGrounded, NextCovered
  <2> QED BY <2>1, <2>2
<1>3. IInv /\ IInv' /\ [Next]_vars => [Promise!Next]_Seen
  <2> SUFFICES ASSUME IInv, IInv', [Next]_vars PROVE Promise!Next \/ UNCHANGED Seen
    OBVIOUS
  <2>1. CASE \E p \in Policies : Start(p)
    BY <2>1, StartPromised DEF Promise!Next
  <2>2. CASE ~ \E p \in Policies : Start(p)
    <3>1. UNCHANGED <<prepared, plan, loads>> /\ late = {}
      BY <2>2, PlanStays DEF Apart
    <3>2. CASE Handle /\ Carry(call)
      BY <3>2, WritePromised DEF Promise!Next
    <3>3. CASE UNCHANGED <<count, written, journal, run>>
      BY <3>1, <3>3 DEF fields, Verdict
    <3>4. CASE UNCHANGED <<count, written>> /\ run = "RUNNING" /\ run' = run
      BY <3>1, <3>4, SettlePromised DEF Promise!Next
    <3>5. CASE UNCHANGED <<count, written, journal>> /\ run = "RUNNING" /\ run' \notin {"NONE", "RUNNING"}
      BY <3>1, <3>5, EndPromised DEF Promise!Next
    <3>6. Handle => Carry(call) \/ UNCHANGED <<count, written, journal, run>>
      BY DEF Handle, rowsVars
    <3> QED BY <2>2, <3>1, <3>2, <3>3, <3>4, <3>5, <3>6, StepsApart
  <2> QED BY <2>1, <2>2
<1> QED BY <1>1, <1>2, <1>3, PTL DEF Spec, ImplementsRowsOnce, Promise!Spec
=============================================================================
