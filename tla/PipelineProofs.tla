--------------------------- MODULE PipelineProofs ---------------------------
(***************************************************************************)
(* Proofs about the pipeline: that an order that passes validation holds   *)
(* every step after what it depends on, and that the walk of a run gives   *)
(* every step one fate, shows it what is upstream of it and leaves a true  *)
(* record.                                                                 *)
(***************************************************************************)
EXTENDS PipelineRun, FiniteSetTheorems, WellFoundedInduction, SequenceTheorems, TLAPS

-----------------------------------------------------------------------------
(* Induction over an interval, and functions defined by recursion on one.  *)

LEMMA LeastNumber ==
    ASSUME NEW S \in SUBSET Nat, S # {}
    PROVE  \E m \in S : \A n \in S : m <= n
<1>. DEFINE Less == {ss \in Nat \X Nat : ss[1] < ss[2]}
<1>1. IsWellFoundedOn(Less, Nat)
  BY NatLessThanWellFounded DEF OpToRel
<1>2. PICK m \in S : \A n \in S : ~ (<<n, m>> \in Less)
  <2>. HIDE DEF Less
  <2>. QED  BY <1>1, WFMin
<1>3. \A n \in S : ~(n < m)
  BY <1>2
<1>. QED  BY <1>3

\* What holds of 0 and of the successor of all it holds of holds up to M.
LEMMA UpTo ==
    ASSUME NEW M \in Nat, NEW S, 0 \in S, \A n \in 1..M : n - 1 \in S => n \in S
    PROVE  \A n \in 0..M : n \in S
<1>. DEFINE Rest == {n \in 0..M : n \notin S}
<1>. SUFFICES ASSUME Rest # {} PROVE FALSE
  OBVIOUS
<1>1. Rest \in SUBSET Nat
  OBVIOUS
<1>2. PICK m \in Rest : \A n \in Rest : m <= n
  <2>. HIDE DEF Rest
  <2>. QED  BY <1>1, LeastNumber
<1>3. m \in 1..M /\ m - 1 \in 0..M /\ m - 1 \notin Rest
  BY <1>2
<1>. QED  BY <1>3

Advances(M, T) == [T \X (1..M) -> T]
IsRecursion(f, M, T, first, F) ==
    f \in [0..M -> T] /\ f[0] = first /\ \A n \in 1..M : f[n] = F[<<f[n - 1], n>>]

\* A function may be defined by recursion from a first value and a step.
LEMMA Recursion ==
    ASSUME NEW M \in Nat, NEW T, NEW first \in T, NEW F \in Advances(M, T)
    PROVE  \E f : IsRecursion(f, M, T, first, F)
<1>. USE DEF Advances, IsRecursion
<1>. DEFINE Good(m, f) == f[0] = first /\ \A n \in 1..m : f[n] = F[<<f[n - 1], n>>]
            Reached == {m \in 0..M : \E f \in [0..m -> T] : Good(m, f)}
<1>1. 0 \in Reached
  <2>1. PICK f : f = [i \in 0..0 |-> first]
    OBVIOUS
  <2>2. f \in [0..0 -> T] /\ f[0] = first /\ 1..0 = {}
    BY <2>1
  <2>3. Good(0, f) /\ 0 \in 0..M
    BY <2>2
  <2>. QED  BY <2>2, <2>3
<1>2. ASSUME NEW m \in 1..M, m - 1 \in Reached PROVE m \in Reached
  <2>1. PICK f \in [0..(m - 1) -> T] : Good(m - 1, f)
    BY <1>2
  <2>2. F[<<f[m - 1], m>>] \in T
    OBVIOUS
  <2>3. PICK g : g = [i \in 0..m |-> IF i = m THEN F[<<f[m - 1], m>>] ELSE f[i]]
    OBVIOUS
  <2>4. g \in [0..m -> T] /\ g[m] = F[<<f[m - 1], m>>] /\ \A i \in 0..(m - 1) : g[i] = f[i]
    BY <2>2, <2>3
  <2>5. g[0] = first
    BY <2>1, <2>4
  <2>6. ASSUME NEW n \in 1..m PROVE g[n] = F[<<g[n - 1], n>>]
    <3>1. n - 1 \in 0..(m - 1) /\ g[n - 1] = f[n - 1]
      BY <2>4
    <3>2. CASE n = m
      BY <2>4, <3>1, <3>2
    <3>3. CASE n # m
      <4>1. n \in 1..(m - 1)
        BY <3>3
      <4>. QED  BY <2>1, <2>4, <3>1, <4>1
    <3>. QED  BY <3>2, <3>3
  <2>. QED  BY <2>4, <2>5, <2>6
<1>. HIDE DEF Reached
<1>3. M \in Reached
  BY <1>1, <1>2, UpTo
<1>. QED  BY <1>3 DEF Reached

\* The steps are finitely many.
LEMMA StepsFinite == IsFiniteSet(Steps) /\ Cardinality(Steps) = N /\ N \in Nat
<1>1. N \in Nat /\ 1 \in Int /\ N \in Int /\ ~(1 > N)
  BY NAssumption
<1>. QED  BY <1>1, FS_Interval DEF Steps

-----------------------------------------------------------------------------
(* downstream_of: the frontier is exhausted after as many rounds as there  *)
(* are steps, so what it returns is closed, and it holds only what depends *)
(* on the step.                                                            *)

LEMMA Frontier ==
    ASSUME NEW dep \in [Steps -> SUBSET Steps], NEW s \in Steps
    PROVE  \E R \in [0..N -> SUBSET Steps] :
              /\ downstream_of(dep, s) = R[N] /\ R[0] = dependents(dep, s)
              /\ \A n \in 1..N : R[n] = R[n - 1] \cup UNION {dependents(dep, t) : t \in R[n - 1]}
<1>. DEFINE next(C) == C \cup UNION {dependents(dep, t) : t \in C}
            F == [p \in (SUBSET Steps) \X (1..N) |-> next(p[1])]
            rule(R) == R = [n \in 0..N |-> IF n = 0 THEN dependents(dep, s)
                                           ELSE R[n - 1] \cup UNION {dependents(dep, t) : t \in R[n - 1]}]
            R == CHOOSE R : rule(R)
<1>1. \A C \in SUBSET Steps : next(C) \in SUBSET Steps
  BY DEF dependents
<1>2. dependents(dep, s) \in SUBSET Steps /\ F \in [(SUBSET Steps) \X (1..N) -> SUBSET Steps]
  BY <1>1 DEF dependents
<1>3. PICK f \in [0..N -> SUBSET Steps] :
          f[0] = dependents(dep, s) /\ \A n \in 1..N : f[n] = F[<<f[n - 1], n>>]
  <2>1. PICK T : T = SUBSET Steps
    OBVIOUS
  <2>2. PICK first : first = dependents(dep, s)
    OBVIOUS
  <2>3. first \in T /\ F \in Advances(N, T) /\ N \in Nat
    BY <1>2, <2>1, <2>2, StepsFinite DEF Advances
  <2>. HIDE DEF F
  <2>4. \E f : IsRecursion(f, N, T, first, F)
    BY <2>3, Recursion
  <2>. QED  BY <2>1, <2>2, <2>4 DEF IsRecursion
<1>4. ASSUME NEW n \in 1..N PROVE f[n] = next(f[n - 1])
  <2>1. n - 1 \in 0..N
    BY StepsFinite
  <2>2. <<f[n - 1], n>> \in (SUBSET Steps) \X (1..N)
    BY <2>1
  <2>3. F[<<f[n - 1], n>>] = next(f[n - 1])
    BY <2>2
  <2>. QED  BY <1>3, <2>3
<1>5. rule(f)
  <2>1. f = [n \in 0..N |-> f[n]]
    BY <1>3
  <2>2. \A n \in 0..N : n # 0 => n \in 1..N
    BY StepsFinite
  <2>. QED  BY <1>3, <1>4, <2>1, <2>2
<1>6. rule(R)
  BY <1>5
<1>7. downstream_of(dep, s) = R[N]
  BY DEF downstream_of
<1>. HIDE DEF R
<1>8. R[0] = dependents(dep, s) /\ \A n \in 1..N : R[n] = next(R[n - 1])
  <2>1. 0 \in 0..N /\ \A n \in 1..N : n \in 0..N /\ n # 0
    BY StepsFinite
  <2>. QED  BY <1>6, <2>1
<1>9. R \in [0..N -> SUBSET Steps]
  <2>. DEFINE S == {n \in 0..N : R[n] \in SUBSET Steps}
  <2>1. 0 \in S
    BY <1>2, <1>8, StepsFinite
  <2>2. \A n \in 1..N : n - 1 \in S => n \in S
    BY <1>1, <1>8
  <2>. HIDE DEF S
  <2>3. \A n \in 0..N : n \in S
    BY <2>1, <2>2, StepsFinite, UpTo
  <2>. QED  BY <1>6, <2>3 DEF S
<1>. QED  BY <1>7, <1>8, <1>9

\* What depends on the step, or on what downstream_of holds, is in it.
LEMMA DownstreamClosed ==
    ASSUME NEW dep \in [Steps -> SUBSET Steps], NEW s \in Steps
    PROVE  /\ downstream_of(dep, s) \in SUBSET Steps
           /\ dependents(dep, s) \subseteq downstream_of(dep, s)
           /\ \A t \in downstream_of(dep, s) : dependents(dep, t) \subseteq downstream_of(dep, s)
<1>1. PICK R \in [0..N -> SUBSET Steps] :
          /\ downstream_of(dep, s) = R[N] /\ R[0] = dependents(dep, s)
          /\ \A n \in 1..N : R[n] = R[n - 1] \cup UNION {dependents(dep, t) : t \in R[n - 1]}
  BY Frontier
<1>. DEFINE Closed(C) == \A t \in C : dependents(dep, t) \subseteq C
            Grown == {n \in 0..N : dependents(dep, s) \subseteq R[n] /\ (Closed(R[n]) \/ n < Cardinality(R[n]))}
<1>2. \A C \in SUBSET Steps : IsFiniteSet(C) /\ Cardinality(C) \in Nat /\ Cardinality(C) <= N
  BY StepsFinite, FS_Subset, FS_CardinalityType
<1>3. 0 \in Grown
  <2>1. R[0] \in SUBSET Steps /\ 0 \in 0..N
    BY <1>1, StepsFinite
  <2>2. CASE R[0] = {}
    BY <1>1, <2>1, <2>2
  <2>3. CASE R[0] # {}
    <3>1. Cardinality(R[0]) # 0 /\ Cardinality(R[0]) \in Nat
      BY <1>2, <2>1, <2>3, FS_EmptySet
    <3>. QED  BY <1>1, <2>1, <3>1
  <2>. QED  BY <2>2, <2>3
<1>4. ASSUME NEW n \in 1..N, n - 1 \in Grown PROVE n \in Grown
  <2>1. /\ R[n - 1] \in SUBSET Steps /\ R[n] \in SUBSET Steps /\ n \in Nat
        /\ R[n] = R[n - 1] \cup UNION {dependents(dep, t) : t \in R[n - 1]}
    BY <1>1, StepsFinite
  <2>2. CASE Closed(R[n - 1])
    <3>1. R[n] = R[n - 1]
      BY <2>1, <2>2
    <3>. QED  BY <1>4, <2>2, <3>1
  <2>3. CASE ~Closed(R[n - 1])
    <3>1. n - 1 < Cardinality(R[n - 1])
      BY <1>4, <2>3
    <3>2. R[n - 1] \subseteq R[n] /\ R[n - 1] # R[n]
      BY <2>1, <2>3
    <3>3. Cardinality(R[n - 1]) <= Cardinality(R[n]) /\ Cardinality(R[n - 1]) # Cardinality(R[n])
      BY <1>2, <2>1, <3>2, FS_Subset
    <3>4. n < Cardinality(R[n])
      BY <1>2, <2>1, <3>1, <3>3
    <3>. QED  BY <1>4, <3>2, <3>4
  <2>. QED  BY <2>2, <2>3
<1>. HIDE DEF Grown
<1>5. N \in Grown
  <2>1. N \in 0..N /\ \A n \in 1..N : n - 1 \in Grown => n \in Grown
    BY <1>4, StepsFinite
  <2>. QED  BY <1>3, <2>1, StepsFinite, UpTo
<1>6. ~(N < Cardinality(R[N])) /\ R[N] \in SUBSET Steps
  BY <1>1, <1>2, StepsFinite
<1>. QED  BY <1>1, <1>5, <1>6 DEF Grown

\* If s is downstream of t then t is in every set that holds what s depends on and
\* what its own elements depend on.
LEMMA DownstreamDepends ==
    ASSUME NEW dep \in [Steps -> SUBSET Steps], NEW t \in Steps, NEW s \in downstream_of(dep, t),
           NEW A \in SUBSET Steps, \A u \in A : dep[u] \subseteq A, dep[s] \subseteq A
    PROVE  t \in A
<1>1. PICK R \in [0..N -> SUBSET Steps] :
          /\ downstream_of(dep, t) = R[N] /\ R[0] = dependents(dep, t)
          /\ \A n \in 1..N : R[n] = R[n - 1] \cup UNION {dependents(dep, u) : u \in R[n - 1]}
  BY Frontier
<1>. DEFINE S == {n \in 0..N : \A v \in R[n] : dep[v] \subseteq A => t \in A}
<1>2. 0 \in S
  BY <1>1, StepsFinite DEF dependents
<1>3. ASSUME NEW n \in 1..N, n - 1 \in S PROVE n \in S
  <2>. SUFFICES ASSUME NEW v \in R[n], dep[v] \subseteq A PROVE t \in A
    OBVIOUS
  <2>1. CASE v \in R[n - 1]
    BY <1>3, <2>1
  <2>2. CASE v \notin R[n - 1]
    <3>1. PICK u \in R[n - 1] : v \in dependents(dep, u)
      BY <1>1, <2>2
    <3>2. u \in dep[v]
      BY <3>1 DEF dependents
    <3>3. u \in A /\ dep[u] \subseteq A
      BY <3>2
    <3>. QED  BY <1>3, <3>1, <3>3
  <2>. QED  BY <2>1, <2>2
<1>. HIDE DEF S
<1>4. N \in S
  <2>1. N \in 0..N /\ \A n \in 1..N : n - 1 \in S => n \in S
    BY <1>3, StepsFinite
  <2>. QED  BY <1>2, <2>1, StepsFinite, UpTo
<1>. QED  BY <1>1, <1>4 DEF S

-----------------------------------------------------------------------------
(* _compute_topological_order: what is in the queue or in the order is what *)
(* depends only on steps of the order, each once.                           *)

Distinct(q) == \A i, j \in 1..Len(q) : q[i] = q[j] => i = j
Ascending(q) == \A i, j \in 1..Len(q) : i < j => q[i] < q[j]

\* _insert_sorted puts one item into the queue.
LEMMA InsertOne ==
    ASSUME NEW q \in Seq(Steps), NEW x \in Steps
    PROVE  /\ _insert_sorted(q, x) \in Seq(Steps)
           /\ Elements(_insert_sorted(q, x)) = Elements(q) \cup {x}
           /\ Distinct(q) /\ x \notin Elements(q) => Distinct(_insert_sorted(q, x))
           /\ Ascending(q) /\ x \notin Elements(q) => Ascending(_insert_sorted(q, x))
<1>. DEFINE greater == {i \in 1..Len(q) : q[i] > x}
            place == IF greater = {} THEN Len(q) + 1
                     ELSE CHOOSE i \in greater : \A j \in greater : i <= j
<1>1. Len(q) \in Nat /\ DOMAIN q = 1..Len(q)
  OBVIOUS
<1>2. place \in 1..(Len(q) + 1)
  <2>1. CASE greater = {}
    BY <1>1, <2>1
  <2>2. CASE greater # {}
    <3>1. greater \in SUBSET Nat
      BY <1>1
    <3>2. \E i \in greater : \A j \in greater : i <= j
      <4>. HIDE DEF greater
      <4>. QED  BY <2>2, <3>1, LeastNumber
    <3>3. place \in greater
      BY <2>2, <3>2
    <3>. QED  BY <1>1, <3>3
  <2>. QED  BY <2>1, <2>2
<1>3. PICK n : n = Len(q)
  OBVIOUS
<1>4. PICK p : p = place
  OBVIOUS
<1>5. n \in Nat /\ p \in 1..(n + 1)
  BY <1>1, <1>2, <1>3, <1>4
<1>12. /\ \A i \in 1..(p - 1) : ~(q[i] > x)
       /\ p <= n => q[p] > x
  <2>1. greater \in SUBSET Nat /\ \A i \in greater : i \in 1..n /\ q[i] > x
    BY <1>1, <1>3
  <2>2. CASE greater = {}
    <3>1. p = n + 1
      BY <1>3, <1>4, <2>2
    <3>2. \A i \in 1..(p - 1) : i \in 1..Len(q)
      BY <1>3, <3>1, <1>5
    <3>. QED  BY <1>5, <2>2, <3>1, <3>2
  <2>3. CASE greater # {}
    <3>1. \E i \in greater : \A j \in greater : i <= j
      <4>. HIDE DEF greater
      <4>. QED  BY <2>1, <2>3, LeastNumber
    <3>2. p = CHOOSE i \in greater : \A j \in greater : i <= j
      BY <1>4, <2>3
    <3>3. p \in greater /\ \A j \in greater : p <= j
      <4>. HIDE DEF greater
      <4>. QED  BY <3>1, <3>2
    <3>4. ASSUME NEW i \in 1..(p - 1), q[i] > x PROVE FALSE
      <4>1. i \in 1..Len(q) /\ ~(p <= i)
        BY <1>3, <1>5
      <4>2. i \in greater
        BY <3>4, <4>1
      <4>. QED  BY <3>3, <4>1, <4>2
    <3>. QED  BY <2>1, <3>3, <3>4
  <2>. QED  BY <2>2, <2>3
<1>. DEFINE r == SubSeq(q, 1, p - 1) \o <<x>> \o SubSeq(q, p, n)
<1>6. _insert_sorted(q, x) = r
  BY <1>3, <1>4 DEF _insert_sorted
<1>. HIDE DEF place, greater
<1>7. /\ SubSeq(q, 1, p - 1) \in Seq(Steps) /\ Len(SubSeq(q, 1, p - 1)) = p - 1
      /\ \A i \in 1..(p - 1) : SubSeq(q, 1, p - 1)[i] = q[i]
  <2>1. \A i \in 1..(p - 1) : q[i] \in Steps
    BY <1>3, <1>5
  <2>2. 1 \in Int /\ p - 1 \in Int /\ (1 <= p - 1 => p - 1 - 1 + 1 = p - 1) /\ (~(1 <= p - 1) => p - 1 = 0)
        /\ p - 1 - 1 + 1 = p - 1 /\ \A i \in 1..(p - 1) : 1 + i - 1 = i
    BY <1>5
  <2>3. /\ SubSeq(q, 1, p - 1) \in Seq(Steps)
        /\ Len(SubSeq(q, 1, p - 1)) = IF 1 <= p - 1 THEN p - 1 - 1 + 1 ELSE 0
        /\ \A i \in 1..(p - 1 - 1 + 1) : SubSeq(q, 1, p - 1)[i] = q[1 + i - 1]
    BY <2>1, <2>2, SubSeqProperties
  <2>. QED  BY <2>2, <2>3
<1>8. /\ SubSeq(q, p, n) \in Seq(Steps) /\ Len(SubSeq(q, p, n)) = n - p + 1
      /\ \A i \in 1..(n - p + 1) : SubSeq(q, p, n)[i] = q[p + i - 1]
  <2>1. \A i \in p..n : q[i] \in Steps
    BY <1>3, <1>5
  <2>2. p \in Int /\ n \in Int /\ (~(p <= n) => n - p + 1 = 0)
    BY <1>5
  <2>3. /\ SubSeq(q, p, n) \in Seq(Steps)
        /\ Len(SubSeq(q, p, n)) = IF p <= n THEN n - p + 1 ELSE 0
        /\ \A i \in 1..(n - p + 1) : SubSeq(q, p, n)[i] = q[p + i - 1]
    BY <2>1, <2>2, SubSeqProperties
  <2>. QED  BY <2>2, <2>3
<1>9. /\ r \in Seq(Steps) /\ Len(r) = n + 1 /\ r[p] = x
      /\ \A i \in 1..(p - 1) : r[i] = q[i]
      /\ \A i \in (p + 1)..(n + 1) : r[i] = q[i - 1]
  <2>. DEFINE a == SubSeq(q, 1, p - 1)
              b == SubSeq(q, p, n)
              c == a \o <<x>>
  <2>1. /\ a \in Seq(Steps) /\ Len(a) = p - 1 /\ b \in Seq(Steps) /\ Len(b) = n - p + 1 /\ r = c \o b
        /\ \A i \in 1..(p - 1) : a[i] = q[i]
        /\ \A i \in 1..(n - p + 1) : b[i] = q[p + i - 1]
    BY <1>7, <1>8
  <2>. HIDE DEF a, b, r
  <2>2. <<x>> \in Seq(Steps) /\ Len(<<x>>) = 1 /\ <<x>>[1] = x
    OBVIOUS
  <2>3. /\ c \in Seq(Steps) /\ Len(c) = p
        /\ \A i \in 1..p : c[i] = IF i <= p - 1 THEN a[i] ELSE <<x>>[i - (p - 1)]
    <3>1. /\ c \in Seq(Steps) /\ Len(c) = Len(a) + Len(<<x>>)
          /\ \A i \in 1..(Len(a) + Len(<<x>>)) : c[i] = IF i <= Len(a) THEN a[i] ELSE <<x>>[i - Len(a)]
      BY <2>1, <2>2, ConcatProperties
    <3>2. (p - 1) + 1 = p
      BY <1>5
    <3>. QED  BY <2>1, <2>2, <3>1, <3>2
  <2>. HIDE DEF c
  <2>4. c[p] = x /\ \A i \in 1..(p - 1) : c[i] = q[i]
    <3>1. p \in 1..p /\ ~(p <= p - 1) /\ p - (p - 1) = 1 /\ \A i \in 1..(p - 1) : i \in 1..p /\ i <= p - 1
      BY <1>5
    <3>. QED  BY <2>1, <2>2, <2>3, <3>1
  <2>5. /\ r \in Seq(Steps) /\ Len(r) = n + 1
        /\ \A i \in 1..(n + 1) : r[i] = IF i <= p THEN c[i] ELSE b[i - p]
    <3>1. /\ r \in Seq(Steps) /\ Len(r) = Len(c) + Len(b)
          /\ \A i \in 1..(Len(c) + Len(b)) : r[i] = IF i <= Len(c) THEN c[i] ELSE b[i - Len(c)]
      BY <2>1, <2>3, ConcatProperties
    <3>2. p + (n - p + 1) = n + 1
      BY <1>5
    <3>. QED  BY <2>1, <2>3, <3>1, <3>2
  <2>6. \A i \in (p + 1)..(n + 1) : r[i] = q[i - 1]
    <3>. SUFFICES ASSUME NEW i \in (p + 1)..(n + 1) PROVE r[i] = q[i - 1]
      OBVIOUS
    <3>1. i - p \in 1..(n - p + 1) /\ p + (i - p) - 1 = i - 1 /\ ~(i <= p) /\ i \in 1..(n + 1)
      BY <1>5
    <3>2. b[i - p] = q[p + (i - p) - 1]
      BY <2>1, <3>1
    <3>. QED  BY <2>5, <3>1, <3>2
  <2>7. r[p] = x /\ \A i \in 1..(p - 1) : r[i] = q[i]
    <3>1. p \in 1..(n + 1) /\ p <= p /\ \A i \in 1..(p - 1) : i \in 1..(n + 1) /\ i <= p
      BY <1>5
    <3>. QED  BY <2>4, <2>5, <3>1
  <2>. QED  BY <2>5, <2>6, <2>7
<1>. HIDE DEF r
<1>10. Elements(r) = Elements(q) \cup {x}
  <2>1. ASSUME NEW i \in 1..(n + 1) PROVE r[i] \in Elements(q) \cup {x}
    <3>1. i \in 1..(p - 1) \/ i = p \/ (i \in (p + 1)..(n + 1) /\ i - 1 \in 1..n)
      BY <1>5
    <3>2. i \in 1..(p - 1) => i \in 1..n
      BY <1>5
    <3>. QED  BY <1>3, <1>9, <3>1, <3>2 DEF Elements
  <2>2. ASSUME NEW i \in 1..n PROVE q[i] \in Elements(r)
    <3>1. i \in 1..(n + 1) /\ i + 1 \in 1..(n + 1)
          /\ (i \in 1..(p - 1) \/ (i + 1 \in (p + 1)..(n + 1) /\ (i + 1) - 1 = i))
      BY <1>5
    <3>. QED  BY <1>9, <3>1 DEF Elements
  <2>3. x \in Elements(r)
    BY <1>5, <1>9 DEF Elements
  <2>. QED  BY <1>3, <1>9, <2>1, <2>2, <2>3 DEF Elements
<1>11. ASSUME Distinct(q), x \notin Elements(q) PROVE Distinct(r)
  <2>1. ASSUME NEW i \in 1..(n + 1), i # p PROVE \E k \in 1..n : r[i] = q[k] /\ k = (IF i < p THEN i ELSE i - 1)
    <3>1. CASE i < p
      <4>1. i \in 1..(p - 1) /\ i \in 1..n
        BY <1>5, <3>1
      <4>. QED  BY <1>9, <3>1, <4>1
    <3>2. CASE ~(i < p)
      <4>1. i \in (p + 1)..(n + 1) /\ i - 1 \in 1..n
        BY <1>5, <2>1, <3>2
      <4>. QED  BY <1>9, <3>2, <4>1
    <3>. QED  BY <3>1, <3>2
  <2>2. \A k \in 1..n : q[k] # x
    BY <1>3, <1>11 DEF Elements
  <2>3. ASSUME NEW i \in 1..(n + 1), NEW j \in 1..(n + 1), r[i] = r[j] PROVE i = j
    <3>1. CASE i = p
      BY <1>9, <2>1, <2>2, <2>3, <3>1
    <3>2. CASE j = p
      BY <1>9, <2>1, <2>2, <2>3, <3>2
    <3>3. CASE i # p /\ j # p
      <4>1. PICK k \in 1..n : r[i] = q[k] /\ k = (IF i < p THEN i ELSE i - 1)
        BY <2>1, <3>3
      <4>2. PICK l \in 1..n : r[j] = q[l] /\ l = (IF j < p THEN j ELSE j - 1)
        BY <2>1, <3>3
      <4>3. k = l
        BY <1>3, <1>11, <2>3, <4>1, <4>2 DEF Distinct
      <4>. QED  BY <1>5, <3>3, <4>1, <4>2, <4>3
    <3>. QED  BY <3>1, <3>2, <3>3
  <2>. QED  BY <1>9, <2>3 DEF Distinct
<1>13. ASSUME Ascending(q), x \notin Elements(q) PROVE Ascending(r)
  <2>1. \A k \in 1..n : q[k] # x /\ q[k] \in Nat /\ x \in Nat
    <3>1. \A k \in 1..n : q[k] # x /\ q[k] \in Steps
      BY <1>3, <1>13 DEF Elements
    <3>2. Steps \subseteq Nat
      BY StepsFinite DEF Steps
    <3>. QED  BY <3>1, <3>2
  <2>2. \A i \in 1..(p - 1) : i \in 1..n /\ r[i] = q[i] /\ q[i] < x
    <3>1. \A i \in 1..(p - 1) : i \in 1..n
      BY <1>5
    <3>. QED  BY <1>9, <1>12, <2>1, <3>1
  <2>3. \A k \in p..n : k \in 1..n /\ k + 1 \in (p + 1)..(n + 1) /\ (k + 1) - 1 = k
    BY <1>5
  <2>4. \A k \in p..n : x < q[k]
    <3>. SUFFICES ASSUME NEW k \in p..n PROVE x < q[k]
      OBVIOUS
    <3>1. p \in 1..n /\ p <= n /\ k \in 1..n /\ p <= k
      BY <1>5
    <3>2. q[p] > x /\ (k = p \/ q[p] < q[k])
      BY <1>3, <1>12, <1>13, <3>1 DEF Ascending
    <3>. QED  BY <2>1, <3>1, <3>2
  <2>5. ASSUME NEW i \in 1..(n + 1), NEW j \in 1..(n + 1), i < j PROVE r[i] < r[j]
    <3>1. CASE j < p
      <4>1. i \in 1..(p - 1) /\ j \in 1..(p - 1)
        BY <1>5, <2>5, <3>1
      <4>2. i \in 1..n /\ j \in 1..n /\ r[i] = q[i] /\ r[j] = q[j]
        BY <2>2, <4>1
      <4>. QED  BY <1>3, <1>13, <2>5, <4>2 DEF Ascending
    <3>2. CASE j = p
      <4>1. i \in 1..(p - 1)
        BY <1>5, <2>5, <3>2
      <4>. QED  BY <1>9, <2>2, <3>2, <4>1
    <3>3. CASE j > p
      <4>1. j - 1 \in p..n /\ j \in (p + 1)..(n + 1) /\ j - 1 \in 1..n
        BY <1>5, <3>3
      <4>2. r[j] = q[j - 1] /\ x < q[j - 1] /\ q[j - 1] \in Nat /\ x \in Nat
        BY <1>9, <2>1, <2>4, <4>1
      <4>3. CASE i < p
        <5>1. i \in 1..(p - 1)
          BY <1>5, <4>3
        <5>2. r[i] = q[i] /\ q[i] < x /\ q[i] \in Nat
          BY <2>1, <2>2, <5>1
        <5>. QED  BY <4>2, <5>2
      <4>4. CASE i = p
        BY <1>9, <4>2, <4>4
      <4>5. CASE i > p
        <5>1. i - 1 \in 1..n /\ i \in (p + 1)..(n + 1) /\ i - 1 < j - 1
          BY <1>5, <2>5, <4>5
        <5>. QED  BY <1>3, <1>9, <1>13, <4>1, <4>2, <5>1 DEF Ascending
      <4>. QED  BY <1>5, <4>3, <4>4, <4>5
    <3>. QED  BY <1>5, <3>1, <3>2, <3>3
  <2>. QED  BY <1>9, <2>5 DEF Ascending
<1>. QED  BY <1>6, <1>9, <1>10, <1>11, <1>13

\* InsertAll puts each item of a set into the queue.
LEMMA InsertMany ==
    ASSUME NEW q \in Seq(Steps), NEW S \in SUBSET Steps
    PROVE  /\ InsertAll(q, S) \in Seq(Steps)
           /\ Elements(InsertAll(q, S)) = Elements(q) \cup S
           /\ Distinct(q) /\ S \cap Elements(q) = {} => Distinct(InsertAll(q, S))
           /\ Ascending(q) /\ S \cap Elements(q) = {} => Ascending(InsertAll(q, S))
<1>. DEFINE next(p, k) == IF k \in S THEN _insert_sorted(p, k) ELSE p
            rule(I) == I = [k \in 0..N |-> IF k = 0 THEN q
                                           ELSE IF k \in S THEN _insert_sorted(I[k - 1], k) ELSE I[k - 1]]
            I == CHOOSE I : rule(I)
<1>0. N \in Nat /\ 0 \in 0..N /\ N \in 0..N /\ \A n \in 1..N : n \in Steps /\ n \in 0..N /\ n # 0 /\ n - 1 \in 0..N
  BY StepsFinite DEF Steps
<1>10. \A s \in S : s \in Nat /\ 1 <= s /\ s <= N
  BY <1>0 DEF Steps
<1>1. \A p \in Seq(Steps), k \in 1..N : next(p, k) \in Seq(Steps)
  BY <1>0, InsertOne
<1>2. \E f : rule(f)
  <2>. DEFINE F == [p \in Seq(Steps) \X (1..N) |-> next(p[1], p[2])]
  <2>1. PICK T : T = Seq(Steps)
    OBVIOUS
  <2>2. q \in T /\ F \in Advances(N, T)
    <3>. HIDE DEF next
    <3>. QED  BY <1>1, <2>1 DEF Advances
  <2>3. \A p \in T, k \in 1..N : F[<<p, k>>] = next(p, k)
    BY <2>1
  <2>. HIDE DEF F
  <2>4. PICK f : IsRecursion(f, N, T, q, F)
    BY <1>0, <2>2, Recursion
  <2>5. f \in [0..N -> T] /\ f[0] = q /\ \A n \in 1..N : f[n] = next(f[n - 1], n)
    BY <1>0, <2>3, <2>4 DEF IsRecursion
  <2>6. f = [k \in 0..N |-> f[k]] /\ \A n \in 0..N : n = 0 \/ n \in 1..N
    BY <1>0, <2>5
  <2>7. rule(f)
    BY <2>5, <2>6
  <2>. QED  BY <2>7
<1>3. rule(I)
  BY <1>2
<1>4. InsertAll(q, S) = I[N]
  BY DEF InsertAll
<1>. HIDE DEF I
<1>5. I[0] = q /\ \A n \in 1..N : I[n] = next(I[n - 1], n)
  BY <1>0, <1>3
<1>. DEFINE Good == {n \in 0..N : /\ I[n] \in Seq(Steps) /\ Elements(I[n]) = Elements(q) \cup {s \in S : s <= n}
                                  /\ Distinct(q) /\ S \cap Elements(q) = {} => Distinct(I[n])
                                  /\ Ascending(q) /\ S \cap Elements(q) = {} => Ascending(I[n])}
<1>6. 0 \in Good
  <2>1. {s \in S : s <= 0} = {}
    BY <1>10
  <2>. QED  BY <1>0, <1>5, <2>1
<1>7. ASSUME NEW n \in 1..N, n - 1 \in Good PROVE n \in Good
  <2>1. n \in Nat /\ \A s \in S : s <= n <=> s <= n - 1 \/ s = n
    BY <1>0, <1>10
  <2>0. ~(n <= n - 1)
    BY <1>0
  <2>2. CASE n \in S
    <3>1. I[n] = _insert_sorted(I[n - 1], n)
      BY <1>5, <2>2
    <3>2. {s \in S : s <= n} = {s \in S : s <= n - 1} \cup {n} /\ n \notin {s \in S : s <= n - 1}
      BY <2>0, <2>1, <2>2
    <3>3. S \cap Elements(q) = {} => n \notin Elements(I[n - 1])
      BY <1>7, <2>2, <3>2
    <3>4. I[n - 1] \in Seq(Steps) /\ n \in Steps /\ n \in 0..N
      BY <1>0, <1>7
    <3>5. /\ I[n] \in Seq(Steps) /\ Elements(I[n]) = Elements(I[n - 1]) \cup {n}
          /\ Distinct(I[n - 1]) /\ n \notin Elements(I[n - 1]) => Distinct(I[n])
          /\ Ascending(I[n - 1]) /\ n \notin Elements(I[n - 1]) => Ascending(I[n])
      BY <3>1, <3>4, InsertOne
    <3>6. Elements(I[n]) = Elements(q) \cup {s \in S : s <= n}
      BY <1>7, <3>2, <3>5
    <3>. QED  BY <1>7, <3>3, <3>4, <3>5, <3>6
  <2>3. CASE n \notin S
    <3>1. I[n] = I[n - 1] /\ {s \in S : s <= n} = {s \in S : s <= n - 1}
      BY <1>5, <2>1, <2>3
    <3>. QED  BY <1>0, <1>7, <3>1
  <2>. QED  BY <2>2, <2>3
<1>. HIDE DEF Good
<1>8. N \in Good
  <2>1. \A n \in 1..N : n - 1 \in Good => n \in Good
    BY <1>7
  <2>. QED  BY <1>0, <1>6, <2>1, UpTo
<1>9. {s \in S : s <= N} = S
  BY <1>10
<1>. QED  BY <1>4, <1>8, <1>9 DEF Good

\* Where Kahn's algorithm is after n rounds.
Kahn(dep) ==
    CHOOSE K : K = [n \in 0..N |->
            IF n = 0
            THEN [ready |-> InsertAll(<< >>, {s \in Steps : dep[s] = {}}), order |-> << >>]
            ELSE LET k == K[n - 1]
                     node == Head(k.ready)
                     popped == Elements(k.order) \cup {node}
                     newly == {t \in dependents(dep, node) : dep[t] \subseteq popped}
                 IN  IF k.ready = << >> THEN k
                     ELSE [ready |-> InsertAll(Tail(k.ready), newly),
                           order |-> Append(k.order, node)]]
Round(dep, k) ==
    LET node == Head(k.ready)
        popped == Elements(k.order) \cup {node}
        newly == {t \in dependents(dep, node) : dep[t] \subseteq popped}
    IN  IF k.ready = << >> THEN k
        ELSE [ready |-> InsertAll(Tail(k.ready), newly), order |-> Append(k.order, node)]
KahnStates == [ready : Seq(Steps), order : Seq(Steps)]

LEMMA RoundType ==
    ASSUME NEW dep \in [Steps -> SUBSET Steps], NEW k \in KahnStates
    PROVE  Round(dep, k) \in KahnStates
<1>1. k.ready \in Seq(Steps) /\ k.order \in Seq(Steps)
  BY DEF KahnStates
<1>2. CASE k.ready = << >>
  BY <1>2 DEF Round
<1>3. CASE k.ready # << >>
  <2>1. Head(k.ready) \in Steps /\ Tail(k.ready) \in Seq(Steps)
    BY <1>1, <1>3, HeadTailProperties
  <2>2. PICK newly : newly = {t \in dependents(dep, Head(k.ready)) :
                                dep[t] \subseteq Elements(k.order) \cup {Head(k.ready)}}
    OBVIOUS
  <2>3. newly \in SUBSET Steps
    BY <2>2 DEF dependents
  <2>4. InsertAll(Tail(k.ready), newly) \in Seq(Steps) /\ Append(k.order, Head(k.ready)) \in Seq(Steps)
    <3>1. PICK rest : rest = Tail(k.ready)
      OBVIOUS
    <3>2. InsertAll(rest, newly) \in Seq(Steps)
      BY <2>1, <2>3, <3>1, InsertMany
    <3>3. PICK head : head = Head(k.ready)
      OBVIOUS
    <3>4. PICK q : q = k.order
      OBVIOUS
    <3>5. q \in Seq(Steps) /\ head \in Steps
      BY <1>1, <2>1, <3>3, <3>4
    <3>6. Append(q, head) \in Seq(Steps)
      BY <3>5
    <3>. QED  BY <3>1, <3>2, <3>3, <3>4, <3>6
  <2>5. Round(dep, k) = [ready |-> InsertAll(Tail(k.ready), newly), order |-> Append(k.order, Head(k.ready))]
    BY <1>3, <2>2 DEF Round
  <2>. QED  BY <2>4, <2>5 DEF KahnStates
<1>. QED  BY <1>2, <1>3

LEMMA KahnRounds ==
    ASSUME NEW dep \in [Steps -> SUBSET Steps]
    PROVE  /\ Kahn(dep)[0] = [ready |-> InsertAll(<< >>, {s \in Steps : dep[s] = {}}), order |-> << >>]
           /\ Kahn(dep)[0] \in KahnStates
           /\ \A n \in 1..N : Kahn(dep)[n] = Round(dep, Kahn(dep)[n - 1])
<1>. DEFINE rule(K) == K = [n \in 0..N |->
                            IF n = 0
                            THEN [ready |-> InsertAll(<< >>, {s \in Steps : dep[s] = {}}), order |-> << >>]
                            ELSE Round(dep, K[n - 1])]
<1>0. N \in Nat /\ 0 \in 0..N /\ \A n \in 1..N : n \in 0..N /\ n # 0 /\ n - 1 \in 0..N
  BY StepsFinite
<1>1. PICK first : first = [ready |-> InsertAll(<< >>, {s \in Steps : dep[s] = {}}), order |-> << >>]
  OBVIOUS
<1>2. first \in KahnStates
  <2>1. << >> \in Seq(Steps) /\ {s \in Steps : dep[s] = {}} \in SUBSET Steps
    OBVIOUS
  <2>2. InsertAll(<< >>, {s \in Steps : dep[s] = {}}) \in Seq(Steps)
    BY <2>1, InsertMany
  <2>. QED  BY <1>1, <2>1, <2>2 DEF KahnStates
<1>3. \E f : rule(f)
  <2>. DEFINE F == [p \in KahnStates \X (1..N) |-> Round(dep, p[1])]
  <2>1. F \in Advances(N, KahnStates)
    BY RoundType DEF Advances
  <2>2. \A k \in KahnStates, n \in 1..N : F[<<k, n>>] = Round(dep, k)
    OBVIOUS
  <2>. HIDE DEF F
  <2>3. PICK f : IsRecursion(f, N, KahnStates, first, F)
    BY <1>0, <1>2, <2>1, Recursion
  <2>4. f \in [0..N -> KahnStates] /\ f[0] = first /\ \A n \in 1..N : f[n] = Round(dep, f[n - 1])
    BY <1>0, <2>2, <2>3 DEF IsRecursion
  <2>5. f = [n \in 0..N |-> f[n]] /\ \A n \in 0..N : n = 0 \/ n \in 1..N
    BY <1>0, <2>4
  <2>6. rule(f)
    BY <1>1, <2>4, <2>5
  <2>. QED  BY <2>6
<1>4. Kahn(dep) = CHOOSE K : rule(K)
  BY DEF Kahn, Round
<1>5. rule(Kahn(dep))
  <2>. HIDE DEF rule
  <2>. QED  BY <1>3, <1>4
<1>. QED  BY <1>0, <1>1, <1>2, <1>5

\* The queue and the order hold, each step once, what depends only on the order; the
\* queue is sorted; and the order respects the dependencies, and has at each place
\* the first of the steps that may come there.
FirstInLine(dep, q) ==
    \A i \in 1..Len(q) : \A t \in Steps :
        dep[t] \subseteq {q[j] : j \in 1..(i - 1)} /\ t \notin {q[j] : j \in 1..(i - 1)} => q[i] <= t
KahnOK(dep, k) ==
    /\ k \in KahnStates
    /\ Ascending(k.ready) /\ FirstInLine(dep, k.order)
    /\ Distinct(k.ready) /\ Elements(k.ready) \cap Elements(k.order) = {}
    /\ Cardinality(Elements(k.order)) = Len(k.order)
    /\ \A t \in Steps : t \in Elements(k.ready) \cup Elements(k.order) <=> dep[t] \subseteq Elements(k.order)
    /\ \A i \in 1..Len(k.order) : dep[k.order[i]] \subseteq {k.order[j] : j \in 1..(i - 1)}

LEMMA ElementsAre ==
    ASSUME NEW q \in Seq(Steps)
    PROVE  /\ Elements(q) \in SUBSET Steps /\ IsFiniteSet(Elements(q)) /\ Cardinality(Elements(q)) \in Nat
           /\ \A x : Elements(Append(q, x)) = Elements(q) \cup {x}
<1>1. Elements(q) \in SUBSET Steps
  BY DEF Elements
<1>2. ASSUME NEW x PROVE Elements(Append(q, x)) = Elements(q) \cup {x}
  <2>1. Len(Append(q, x)) = Len(q) + 1 /\ Append(q, x)[Len(q) + 1] = x /\ Len(q) \in Nat
        /\ \A i \in 1..Len(q) : Append(q, x)[i] = q[i]
    OBVIOUS
  <2>2. \A i \in 1..(Len(q) + 1) : i \in 1..Len(q) \/ i = Len(q) + 1
    BY <2>1
  <2>3. \A i \in 1..Len(q) : i \in 1..(Len(q) + 1)
    BY <2>1
  <2>4. Len(q) + 1 \in 1..(Len(q) + 1)
    BY <2>1
  <2>. QED  BY <2>1, <2>2, <2>3, <2>4 DEF Elements
<1>. QED  BY <1>1, <1>2, StepsFinite, FS_Subset, FS_CardinalityType

LEMMA TailOf ==
    ASSUME NEW q \in Seq(Steps), q # << >>, Distinct(q)
    PROVE  /\ Head(q) \in Steps /\ Head(q) \in Elements(q)
           /\ Tail(q) \in Seq(Steps) /\ Distinct(Tail(q))
           /\ Elements(Tail(q)) = Elements(q) \ {Head(q)}
           /\ Ascending(q) => Ascending(Tail(q)) /\ \A x \in Elements(q) : Head(q) <= x
<1>1. /\ Len(q) \in Nat \ {0} /\ Head(q) = q[1] /\ q[1] \in Steps
      /\ Tail(q) \in Seq(Steps) /\ Len(Tail(q)) = Len(q) - 1 /\ \A i \in 1..(Len(q) - 1) : Tail(q)[i] = q[i + 1]
  BY HeadTailProperties, EmptySeq
<1>2. PICK n : n = Len(q)
  OBVIOUS
<1>3. 1 \in 1..n /\ \A i \in 1..(n - 1) : i + 1 \in 1..n /\ i + 1 # 1
  BY <1>1, <1>2
<1>4. \A i \in 1..n : i = 1 \/ (i - 1 \in 1..(n - 1) /\ (i - 1) + 1 = i)
  BY <1>1, <1>2
<1>5. Head(q) \in Elements(q)
  BY <1>1, <1>2, <1>3 DEF Elements
<1>6. Elements(Tail(q)) = Elements(q) \ {Head(q)}
  <2>1. ASSUME NEW i \in 1..(n - 1) PROVE Tail(q)[i] \in Elements(q) \ {Head(q)}
    BY <1>1, <1>2, <1>3 DEF Elements, Distinct
  <2>2. ASSUME NEW x \in Elements(q) \ {Head(q)} PROVE \E i \in 1..(n - 1) : x = Tail(q)[i]
    <3>1. PICK i \in 1..n : x = q[i]
      BY <1>2 DEF Elements
    <3>2. i - 1 \in 1..(n - 1) /\ (i - 1) + 1 = i
      BY <1>1, <1>4, <2>2, <3>1
    <3>. QED  BY <1>1, <1>2, <3>1, <3>2
  <2>. QED  BY <1>1, <1>2, <2>1, <2>2 DEF Elements
<1>7. Distinct(Tail(q))
  <2>1. ASSUME NEW i \in 1..(n - 1), NEW j \in 1..(n - 1), Tail(q)[i] = Tail(q)[j] PROVE i = j
    <3>1. i + 1 = j + 1
      BY <1>1, <1>2, <1>3, <2>1 DEF Distinct
    <3>. QED  BY <3>1
  <2>. QED  BY <1>1, <1>2, <2>1 DEF Distinct
<1>8. ASSUME Ascending(q) PROVE Ascending(Tail(q)) /\ \A x \in Elements(q) : Head(q) <= x
  <2>1. ASSUME NEW i \in 1..(n - 1), NEW j \in 1..(n - 1), i < j PROVE Tail(q)[i] < Tail(q)[j]
    <3>1. i + 1 \in 1..n /\ j + 1 \in 1..n /\ i + 1 < j + 1
      BY <1>1, <1>2, <1>3, <2>1
    <3>. QED  BY <1>1, <1>2, <1>8, <3>1 DEF Ascending
  <2>2. ASSUME NEW i \in 1..n PROVE q[1] <= q[i]
    <3>1. i = 1 \/ 1 < i
      BY <1>1, <1>2
    <3>2. q[1] \in Nat /\ q[i] \in Nat
      <4>1. q[1] \in Steps /\ q[i] \in Steps
        BY <1>2, <1>3
      <4>2. Steps \subseteq Nat
        BY StepsFinite DEF Steps
      <4>. QED  BY <4>1, <4>2
    <3>. QED  BY <1>2, <1>3, <1>8, <3>1, <3>2 DEF Ascending
  <2>. QED  BY <1>1, <1>2, <2>1, <2>2 DEF Ascending, Elements
<1>. QED  BY <1>1, <1>5, <1>6, <1>7, <1>8

LEMMA FrontOf ==
    ASSUME NEW q \in Seq(Steps), q # << >>, Distinct(q)
    PROVE  /\ q[Len(q)] \in Steps /\ q[Len(q)] \in Elements(q)
           /\ SubSeq(q, 1, Len(q) - 1) \in Seq(Steps) /\ Distinct(SubSeq(q, 1, Len(q) - 1))
           /\ Len(SubSeq(q, 1, Len(q) - 1)) = Len(q) - 1
           /\ Elements(SubSeq(q, 1, Len(q) - 1)) = Elements(q) \ {q[Len(q)]}
<1>2. PICK n : n = Len(q)
  OBVIOUS
<1>1. n \in Nat /\ n # 0 /\ n \in 1..n /\ \A i \in 1..n : q[i] \in Steps
  BY <1>2, EmptySeq
<1>3. PICK f : f = SubSeq(q, 1, n - 1)
  OBVIOUS
<1>4. f \in Seq(Steps) /\ Len(f) = n - 1 /\ \A i \in 1..(n - 1) : f[i] = q[i]
  <2>1. \A i \in 1..(n - 1) : q[i] \in Steps
    BY <1>1
  <2>2. 1 \in Int /\ n - 1 \in Int /\ (1 <= n - 1 => n - 1 - 1 + 1 = n - 1) /\ (~(1 <= n - 1) => n - 1 = 0)
        /\ n - 1 - 1 + 1 = n - 1 /\ \A i \in 1..(n - 1) : 1 + i - 1 = i
    BY <1>1
  <2>3. /\ SubSeq(q, 1, n - 1) \in Seq(Steps)
        /\ Len(SubSeq(q, 1, n - 1)) = IF 1 <= n - 1 THEN n - 1 - 1 + 1 ELSE 0
        /\ \A i \in 1..(n - 1 - 1 + 1) : SubSeq(q, 1, n - 1)[i] = q[1 + i - 1]
    BY <2>1, <2>2, SubSeqProperties
  <2>. QED  BY <1>3, <2>2, <2>3
<1>5. \A i \in 1..(n - 1) : i \in 1..n /\ i # n
  BY <1>1
<1>6. \A i \in 1..n : i = n \/ i \in 1..(n - 1)
  BY <1>1
<1>7. Elements(f) = Elements(q) \ {q[n]}
  <2>1. ASSUME NEW i \in 1..(n - 1) PROVE f[i] \in Elements(q) \ {q[n]}
    BY <1>1, <1>2, <1>4, <1>5 DEF Elements, Distinct
  <2>2. ASSUME NEW x \in Elements(q) \ {q[n]} PROVE \E i \in 1..(n - 1) : x = f[i]
    BY <1>2, <1>4, <1>6, <2>2 DEF Elements
  <2>. QED  BY <1>2, <1>4, <2>1, <2>2 DEF Elements
<1>8. Distinct(f)
  BY <1>2, <1>4, <1>5 DEF Distinct
<1>9. q[n] \in Steps /\ q[n] \in Elements(q)
  BY <1>1, <1>2 DEF Elements
<1>. QED  BY <1>2, <1>3, <1>4, <1>7, <1>8, <1>9

LEMMA FirstQueue ==
    ASSUME NEW dep \in [Steps -> SUBSET Steps]
    PROVE  KahnOK(dep, Kahn(dep)[0])
<1>1. PICK S : S = {s \in Steps : dep[s] = {}}
  OBVIOUS
<1>2. PICK e : e = << >>
  OBVIOUS
<1>3. e \in Seq(Steps) /\ Len(e) = 0 /\ Elements(e) = {} /\ Distinct(e) /\ S \in SUBSET Steps
  BY <1>1, <1>2 DEF Elements, Distinct
<1>4. PICK q : q = InsertAll(e, S)
  OBVIOUS
<1>11. Ascending(e)
  BY <1>3 DEF Ascending
<1>5. q \in Seq(Steps) /\ Elements(q) = S /\ Distinct(q) /\ Ascending(q)
  <2>1. S \cap Elements(e) = {} /\ Elements(e) \cup S = S
    BY <1>3
  <2>. QED  BY <1>3, <1>4, <1>11, <2>1, InsertMany
<1>6. PICK k : k = Kahn(dep)[0]
  OBVIOUS
<1>7. k = [ready |-> q, order |-> e]
  BY <1>1, <1>2, <1>4, <1>6, KahnRounds
<1>8. Cardinality(Elements(k.order)) = Len(k.order)
  BY <1>3, <1>7, FS_EmptySet
<1>9. \A t \in Steps : t \in Elements(k.ready) \cup Elements(k.order) <=> dep[t] \subseteq Elements(k.order)
  BY <1>1, <1>3, <1>5, <1>7
<1>10. \A i \in 1..Len(k.order) : dep[k.order[i]] \subseteq {k.order[j] : j \in 1..(i - 1)}
  BY <1>3, <1>7
<1>12. FirstInLine(dep, k.order) /\ Ascending(k.ready)
  BY <1>3, <1>5, <1>7 DEF FirstInLine
<1>. QED  BY <1>3, <1>5, <1>6, <1>7, <1>8, <1>9, <1>10, <1>12 DEF KahnOK, KahnStates

\* A round keeps it, and lengthens the order while the queue holds a step.
LEMMA RoundKeeps ==
    ASSUME NEW dep \in [Steps -> SUBSET Steps], NEW k, KahnOK(dep, k)
    PROVE  /\ KahnOK(dep, Round(dep, k))
           /\ k.ready # << >> => Len(Round(dep, k).order) = Len(k.order) + 1
           /\ k.ready = << >> => Round(dep, k) = k
<1>1. CASE k.ready = << >>
  BY <1>1 DEF Round
<1>2. CASE k.ready # << >>
  <2>1. PICK q, o, node, rest :
            q = k.ready /\ o = k.order /\ node = Head(k.ready) /\ rest = Tail(k.ready)
    OBVIOUS
  <2>2. /\ q \in Seq(Steps) /\ o \in Seq(Steps) /\ Distinct(q) /\ q # << >>
        /\ Elements(q) \cap Elements(o) = {} /\ Cardinality(Elements(o)) = Len(o)
        /\ \A t \in Steps : t \in Elements(q) \cup Elements(o) <=> dep[t] \subseteq Elements(o)
        /\ \A i \in 1..Len(o) : dep[o[i]] \subseteq {o[j] : j \in 1..(i - 1)}
        /\ Ascending(q) /\ FirstInLine(dep, o)
    BY <1>2, <2>1 DEF KahnOK, KahnStates
  <2>3. /\ node \in Steps /\ node \in Elements(q) /\ rest \in Seq(Steps) /\ Distinct(rest)
        /\ Elements(rest) = Elements(q) \ {node}
        /\ Ascending(rest) /\ \A x \in Elements(q) : node <= x
    BY <2>1, <2>2, TailOf
  <2>4. PICK newly : newly = {t \in dependents(dep, node) : dep[t] \subseteq Elements(o) \cup {node}}
    OBVIOUS
  <2>5. PICK r, p : r = InsertAll(rest, newly) /\ p = Append(o, node)
    OBVIOUS
  <2>6. Round(dep, k) = [ready |-> r, order |-> p]
    BY <1>2, <2>1, <2>4, <2>5 DEF Round
  <2>7. node \notin Elements(o) /\ dep[node] \subseteq Elements(o)
    BY <2>2, <2>3
  <2>8. newly \in SUBSET Steps /\ newly \cap Elements(q) = {} /\ newly \cap Elements(o) = {}
    BY <2>2, <2>4, <2>7 DEF dependents
  <2>9. r \in Seq(Steps) /\ Elements(r) = (Elements(q) \ {node}) \cup newly /\ Distinct(r) /\ Ascending(r)
    <3>1. newly \cap Elements(rest) = {}
      BY <2>3, <2>8
    <3>. QED  BY <2>3, <2>5, <2>8, <3>1, InsertMany
  <2>10. /\ p \in Seq(Steps) /\ Len(p) = Len(o) + 1 /\ p[Len(o) + 1] = node /\ Len(o) \in Nat
         /\ \A i \in 1..Len(o) : p[i] = o[i]
    BY <2>2, <2>3, <2>5
  <2>11. Elements(p) = Elements(o) \cup {node}
    BY <2>2, <2>5, ElementsAre
  <2>12. Cardinality(Elements(p)) = Len(p)
    <3>1. PICK E : E = Elements(o)
      OBVIOUS
    <3>2. IsFiniteSet(E) /\ node \notin E
      BY <2>2, <2>7, <3>1, ElementsAre
    <3>3. Cardinality(E \cup {node}) = Cardinality(E) + 1
      BY <3>2, FS_AddElement
    <3>. QED  BY <2>2, <2>10, <2>11, <3>1, <3>3
  <2>13. node \notin newly /\ Elements(r) \cap Elements(p) = {}
    BY <2>2, <2>3, <2>8, <2>9, <2>11
  <2>14. ASSUME NEW t \in Steps
         PROVE  t \in Elements(r) \cup Elements(p) <=> dep[t] \subseteq Elements(p)
    <3>1. CASE t \in Elements(q) \cup Elements(o)
      BY <2>2, <2>3, <2>9, <2>11, <3>1
    <3>2. CASE t \notin Elements(q) \cup Elements(o)
      BY <2>2, <2>3, <2>4, <2>9, <2>11, <3>2 DEF dependents
    <3>. QED  BY <3>1, <3>2
  <2>15. ASSUME NEW i \in 1..Len(p) PROVE dep[p[i]] \subseteq {p[j] : j \in 1..(i - 1)}
    <3>1. CASE i \in 1..Len(o)
      <4>1. \A j \in 1..(i - 1) : j \in 1..Len(o)
        BY <2>10, <3>1
      <4>2. {p[j] : j \in 1..(i - 1)} = {o[j] : j \in 1..(i - 1)}
        BY <2>10, <4>1
      <4>. QED  BY <2>2, <2>10, <3>1, <4>2
    <3>2. CASE i \notin 1..Len(o)
      <4>1. i = Len(o) + 1 /\ i - 1 = Len(o)
        BY <2>10, <3>2
      <4>2. {p[j] : j \in 1..(i - 1)} = Elements(o)
        BY <2>10, <4>1 DEF Elements
      <4>. QED  BY <2>7, <2>10, <4>1, <4>2
    <3>. QED  BY <3>1, <3>2
  <2>16. PICK next : next = Round(dep, k)
    OBVIOUS
  <2>17. next \in KahnStates /\ next.ready = r /\ next.order = p
    BY <2>6, <2>9, <2>10, <2>16 DEF KahnStates
  <2>19. ASSUME NEW i \in 1..Len(p), NEW t \in Steps,
                dep[t] \subseteq {p[j] : j \in 1..(i - 1)}, t \notin {p[j] : j \in 1..(i - 1)}
         PROVE  p[i] <= t
    <3>1. CASE i \in 1..Len(o)
      <4>1. \A j \in 1..(i - 1) : j \in 1..Len(o)
        BY <2>10, <3>1
      <4>2. {p[j] : j \in 1..(i - 1)} = {o[j] : j \in 1..(i - 1)}
        BY <2>10, <4>1
      <4>. QED  BY <2>2, <2>10, <2>19, <3>1, <4>2 DEF FirstInLine
    <3>2. CASE i \notin 1..Len(o)
      <4>1. i = Len(o) + 1 /\ i - 1 = Len(o)
        BY <2>10, <3>2
      <4>2. {p[j] : j \in 1..(i - 1)} = Elements(o)
        BY <2>10, <4>1 DEF Elements
      <4>3. t \in Elements(q)
        BY <2>2, <2>19, <4>2
      <4>. QED  BY <2>3, <2>10, <4>1, <4>3
    <3>. QED  BY <3>1, <3>2
  <2>20. FirstInLine(dep, p)
    BY <2>19 DEF FirstInLine
  <2>18. KahnOK(dep, next)
    BY <2>9, <2>12, <2>13, <2>14, <2>15, <2>17, <2>20 DEF KahnOK
  <2>. QED  BY <1>2, <2>1, <2>10, <2>16, <2>17, <2>18
<1>. QED  BY <1>1, <1>2

\* The order holds every step that depends only on it, and what a step depends on
\* comes before it.
LEMMA OrderRespects ==
    ASSUME NEW dep \in [Steps -> SUBSET Steps], NEW ord, ord = _compute_topological_order(dep)
    PROVE  /\ ord \in Seq(Steps)
           /\ \A t \in Steps : t \in Elements(ord) <=> dep[t] \subseteq Elements(ord)
           /\ \A i \in 1..Len(ord) : dep[ord[i]] \subseteq {ord[j] : j \in 1..(i - 1)}
           /\ Cardinality(Elements(ord)) = Len(ord) /\ FirstInLine(dep, ord)
<1>1. ord = Kahn(dep)[N].order
  BY DEF _compute_topological_order, Kahn
<1>2. PICK K : K = Kahn(dep)
  OBVIOUS
<1>3. KahnOK(dep, K[0]) /\ \A n \in 1..N : K[n] = Round(dep, K[n - 1])
  BY <1>2, FirstQueue, KahnRounds
<1>4. N \in Nat /\ 0 \in 0..N /\ N \in 0..N /\ \A n \in 1..N : n \in 0..N /\ n - 1 \in 0..N /\ n \in Nat
  BY StepsFinite
<1>. DEFINE Good == {n \in 0..N : KahnOK(dep, K[n]) /\ (K[n].ready = << >> \/ Len(K[n].order) >= n)}
<1>5. 0 \in Good
  <2>1. Len(K[0].order) \in Nat
    BY <1>3 DEF KahnOK, KahnStates
  <2>. QED  BY <1>3, <1>4, <2>1
<1>6. ASSUME NEW n \in 1..N, n - 1 \in Good PROVE n \in Good
  <2>1. KahnOK(dep, K[n - 1]) /\ K[n] = Round(dep, K[n - 1])
    BY <1>3, <1>6
  <2>2. PICK k : k = K[n - 1]
    OBVIOUS
  <2>3. /\ KahnOK(dep, K[n])
        /\ k.ready # << >> => Len(K[n].order) = Len(k.order) + 1
        /\ k.ready = << >> => K[n] = k
    BY <2>1, <2>2, RoundKeeps
  <2>4. Len(k.order) \in Nat
    BY <2>1, <2>2 DEF KahnOK, KahnStates
  <2>. QED  BY <1>4, <1>6, <2>2, <2>3, <2>4
<1>. HIDE DEF Good
<1>7. N \in Good
  <2>1. \A n \in 1..N : n - 1 \in Good => n \in Good
    BY <1>6
  <2>. QED  BY <1>4, <1>5, <2>1, UpTo
<1>8. PICK k : k = K[N]
  OBVIOUS
<1>9. KahnOK(dep, k) /\ (k.ready = << >> \/ Len(k.order) >= N) /\ ord = k.order
  BY <1>1, <1>2, <1>7, <1>8 DEF Good
<1>10. ord \in Seq(Steps) /\ k.ready \in Seq(Steps) /\ Cardinality(Elements(ord)) = Len(ord)
  BY <1>9 DEF KahnOK, KahnStates
<1>11. Elements(k.ready) \subseteq Elements(ord)
  <2>1. CASE k.ready = << >>
    BY <2>1 DEF Elements
  <2>2. CASE Len(ord) >= N
    <3>1. Elements(ord) \in SUBSET Steps /\ Elements(k.ready) \in SUBSET Steps
      BY <1>10, ElementsAre
    <3>2. Cardinality(Elements(ord)) <= Cardinality(Steps)
          /\ (Cardinality(Elements(ord)) = Cardinality(Steps) => Elements(ord) = Steps)
      BY <3>1, StepsFinite, FS_Subset
    <3>3. Cardinality(Elements(ord)) = Cardinality(Steps)
      BY <1>4, <1>10, <2>2, <3>2, StepsFinite
    <3>. QED  BY <3>1, <3>2, <3>3
  <2>. QED  BY <1>9, <2>1, <2>2
<1>. QED  BY <1>9, <1>10, <1>11 DEF KahnOK

-----------------------------------------------------------------------------
(* _validate_no_cycles: no step of a set, each of which depends on another *)
(* of the set, is ever done; and the search is over after two moves a step.*)

LookAt(dep, d) ==
    IF d.raised THEN d
    ELSE IF d.stack # << >> THEN Visit(dep, d)
    ELSE IF d.done = Steps THEN d
    ELSE [d EXCEPT !.stack = <<CHOOSE s \in Steps \ d.done : \A t \in Steps \ d.done : s <= t>>]
SearchStates == [stack : Seq(Steps), done : SUBSET Steps, raised : BOOLEAN]
Begun == [stack |-> << >>, done |-> {}, raised |-> FALSE]

\* Where the search is after n moves.
Searched(dep) ==
    CHOOSE D : D = [n \in 0..(2 * N) |->
            IF n = 0 THEN [stack |-> << >>, done |-> {}, raised |-> FALSE]
            ELSE LET d == D[n - 1]
                 IN  IF d.raised THEN d
                     ELSE IF d.stack # << >> THEN Visit(dep, d)
                     ELSE IF d.done = Steps THEN d
                     ELSE [d EXCEPT !.stack = <<CHOOSE s \in Steps \ d.done :
                                                    \A t \in Steps \ d.done : s <= t>>]]

Moves(d) == 2 * Cardinality(d.done) + Len(d.stack)

\* Each step of Cyclic depends on another of it, or on what is no step.
Blocked(dep, Cyclic) == \A t \in Cyclic : dep[t] \cap Cyclic # {} \/ dep[t] \ Steps # {}
SearchOK(Cyclic, d) ==
    /\ d \in SearchStates
    /\ Distinct(d.stack) /\ Cardinality(Elements(d.stack)) = Len(d.stack)
    /\ Elements(d.stack) \cap d.done = {}
    /\ d.done \cap Cyclic = {}

\* The stack is a path, and the search raises nothing without a reason.
ChainOK(dep, d) ==
    IF d.raised THEN \E Cyclic \in SUBSET Steps : Cyclic # {} /\ Blocked(dep, Cyclic)
    ELSE \A i \in 1..(Len(d.stack) - 1) : d.stack[i + 1] \in dep[d.stack[i]]

LEMMA Push ==
    ASSUME NEW q \in Seq(Steps), NEW x \in Steps, x \notin Elements(q), Distinct(q),
           Cardinality(Elements(q)) = Len(q)
    PROVE  /\ Append(q, x) \in Seq(Steps) /\ Elements(Append(q, x)) = Elements(q) \cup {x}
           /\ Distinct(Append(q, x)) /\ Len(Append(q, x)) = Len(q) + 1
           /\ Cardinality(Elements(Append(q, x))) = Len(q) + 1
<1>1. PICK p : p = Append(q, x)
  OBVIOUS
<1>2. /\ p \in Seq(Steps) /\ Len(p) = Len(q) + 1 /\ p[Len(q) + 1] = x /\ Len(q) \in Nat
      /\ \A i \in 1..Len(q) : p[i] = q[i]
  BY <1>1
<1>3. Elements(p) = Elements(q) \cup {x}
  BY <1>1, ElementsAre
<1>4. PICK E : E = Elements(q)
  OBVIOUS
<1>5. Cardinality(E \cup {x}) = Cardinality(E) + 1
  BY <1>4, ElementsAre, FS_AddElement
<1>6. \A i \in 1..(Len(q) + 1) : i \in 1..Len(q) \/ i = Len(q) + 1
  BY <1>2
<1>7. \A i \in 1..Len(q) : q[i] # x
  BY DEF Elements
<1>8. Distinct(p)
  BY <1>2, <1>6, <1>7 DEF Distinct
<1>. QED  BY <1>1, <1>2, <1>3, <1>4, <1>5, <1>8

LEMMA Pop ==
    ASSUME NEW q \in Seq(Steps), q # << >>, Distinct(q), Cardinality(Elements(q)) = Len(q)
    PROVE  Cardinality(Elements(q) \ {q[Len(q)]}) = Len(q) - 1
<1>1. PICK E, x : E = Elements(q) /\ x = q[Len(q)]
  OBVIOUS
<1>2. IsFiniteSet(E) /\ x \in E
  BY <1>1, ElementsAre, FrontOf
<1>3. Cardinality(E \ {x}) = Cardinality(E) - 1
  BY <1>2, FS_RemoveElement
<1>. QED  BY <1>1, <1>3

LEMMA LookAtKeeps ==
    ASSUME NEW dep \in [Steps -> SUBSET Nat], NEW Cyclic \in SUBSET Steps,
           Blocked(dep, Cyclic), NEW d, SearchOK(Cyclic, d)
    PROVE  /\ SearchOK(Cyclic, LookAt(dep, d))
           /\ ChainOK(dep, d) => ChainOK(dep, LookAt(dep, d))
           /\ \/ LookAt(dep, d).raised
              \/ LookAt(dep, d) = d /\ d.done = Steps
              \/ Moves(LookAt(dep, d)) = Moves(d) + 1
<1>1. PICK q, B, z : q = d.stack /\ B = d.done /\ z = d.raised
  OBVIOUS
<1>2. /\ d = [stack |-> q, done |-> B, raised |-> z] /\ z \in BOOLEAN
      /\ q \in Seq(Steps) /\ B \in SUBSET Steps /\ Distinct(q) /\ Cardinality(Elements(q)) = Len(q)
      /\ Elements(q) \cap B = {} /\ B \cap Cyclic = {} /\ Len(q) \in Nat
  BY <1>1 DEF SearchOK, SearchStates
<1>3. PICK c, l : c = Cardinality(B) /\ l = Len(q)
  OBVIOUS
<1>9. c \in Nat /\ IsFiniteSet(B) /\ l \in Nat /\ Moves(d) = 2 * c + l
  BY <1>1, <1>2, <1>3, StepsFinite, FS_Subset, FS_CardinalityType DEF Moves
<1>4. PICK e : e = LookAt(dep, d)
  OBVIOUS
<1>5. CASE d.raised
  BY <1>5 DEF LookAt
<1>6. CASE ~d.raised /\ q # << >>
  <2>1. PICK top : top = q[Len(q)]
    OBVIOUS
  <2>2. top \in Steps /\ top \in Elements(q)
    BY <1>2, <1>6, <2>1, FrontOf
  <2>3. e = Visit(dep, d)
    BY <1>1, <1>4, <1>6 DEF LookAt
  <2>4. PICK white : white = {t \in dep[top] : t \notin B \cup Elements(q)}
    OBVIOUS
  <2>5. CASE dep[top] \ Steps # {} \/ dep[top] \cap Elements(q) # {}
    <3>1. e = [d EXCEPT !.raised = TRUE]
      BY <1>1, <2>1, <2>3, <2>5 DEF Visit
    <3>2. e = [stack |-> q, done |-> B, raised |-> TRUE]
      BY <1>2, <3>1
    <3>3. SearchOK(Cyclic, e)
      BY <1>2, <3>2 DEF SearchOK, SearchStates
    <3>4. ASSUME ChainOK(dep, d) PROVE ChainOK(dep, e)
      <4>1. CASE dep[top] \ Steps # {}
        <5>1. {top} \in SUBSET Steps /\ {top} # {} /\ Blocked(dep, {top})
          BY <2>2, <4>1 DEF Blocked
        <5>. QED  BY <3>2, <5>1 DEF ChainOK
      <4>2. CASE dep[top] \cap Elements(q) # {}
        <5>1. PICK E : E = Elements(q)
          OBVIOUS
        <5>2. E \in SUBSET Steps /\ E # {}
          BY <1>2, <2>2, <5>1, ElementsAre
        <5>3. \A i \in 1..(Len(q) - 1) : q[i + 1] \in dep[q[i]]
          BY <1>1, <1>6, <3>4 DEF ChainOK
        <5>4. ASSUME NEW t \in E PROVE dep[t] \cap E # {}
          <6>1. PICK i \in 1..Len(q) : t = q[i]
            BY <5>1 DEF Elements
          <6>2. CASE i = Len(q)
            BY <2>1, <4>2, <5>1, <6>1, <6>2
          <6>3. CASE i # Len(q)
            <7>1. i \in 1..(Len(q) - 1) /\ i + 1 \in 1..Len(q)
              BY <1>2, <6>3
            <7>2. q[i + 1] \in E
              BY <5>1, <7>1 DEF Elements
            <7>. QED  BY <5>3, <6>1, <7>1, <7>2
          <6>. QED  BY <6>2, <6>3
        <5>5. Blocked(dep, E)
          BY <5>4 DEF Blocked
        <5>. QED  BY <3>2, <5>2, <5>5 DEF ChainOK
      <4>. QED  BY <2>5, <4>1, <4>2
    <3>. QED  BY <1>4, <3>2, <3>3, <3>4
  <2>6. CASE dep[top] \subseteq Steps /\ dep[top] \cap Elements(q) = {} /\ white # {}
    <3>1. PICK x : x = CHOOSE t \in white : TRUE
      OBVIOUS
    <3>2. x \in white /\ x \in Steps /\ x \notin B /\ x \notin Elements(q)
      BY <2>2, <2>4, <2>6, <3>1
    <3>3. e = [d EXCEPT !.stack = Append(@, x)]
      BY <1>1, <2>1, <2>2, <2>3, <2>4, <2>6, <3>1 DEF Visit
    <3>4. PICK p : p = Append(q, x)
      OBVIOUS
    <3>5. e = [stack |-> p, done |-> B, raised |-> z]
      BY <1>1, <1>2, <3>3, <3>4
    <3>6. /\ p \in Seq(Steps) /\ Elements(p) = Elements(q) \cup {x} /\ Distinct(p) /\ Len(p) = Len(q) + 1
          /\ Cardinality(Elements(p)) = Len(p)
      BY <1>2, <3>2, <3>4, Push
    <3>7. SearchOK(Cyclic, e)
      <4>1. Elements(p) \cap B = {}
        BY <1>2, <3>2, <3>6
      <4>. QED  BY <1>2, <3>5, <3>6, <4>1 DEF SearchOK, SearchStates
    <3>8. Moves(e) = 2 * c + (l + 1)
      BY <1>3, <3>5, <3>6 DEF Moves
    <3>9. Moves(e) = Moves(d) + 1
      BY <1>9, <3>8
    <3>10. ASSUME ChainOK(dep, d) PROVE ChainOK(dep, e)
      <4>1. \A i \in 1..(Len(q) - 1) : q[i + 1] \in dep[q[i]]
        BY <1>1, <1>6, <3>10 DEF ChainOK
      <4>2. Len(p) - 1 = Len(q) /\ p[Len(q) + 1] = x /\ \A i \in 1..Len(q) : p[i] = q[i]
        BY <1>2, <3>2, <3>4, <3>6
      <4>3. ASSUME NEW i \in 1..Len(q) PROVE p[i + 1] \in dep[p[i]]
        <5>1. CASE i = Len(q)
          BY <2>1, <2>4, <3>2, <4>2, <5>1
        <5>2. CASE i # Len(q)
          <6>1. i \in 1..(Len(q) - 1) /\ i + 1 \in 1..Len(q)
            BY <1>2, <5>2
          <6>. QED  BY <4>1, <4>2, <6>1
        <5>. QED  BY <5>1, <5>2
      <4>. QED  BY <1>1, <1>6, <3>5, <4>2, <4>3 DEF ChainOK
    <3>. QED  BY <1>4, <3>7, <3>9, <3>10
  <2>7. CASE dep[top] \subseteq Steps /\ dep[top] \cap Elements(q) = {} /\ white = {}
    <3>1. PICK p : p = SubSeq(q, 1, Len(q) - 1)
      OBVIOUS
    <3>2. e = [d EXCEPT !.stack = SubSeq(@, 1, Len(@) - 1), !.done = @ \cup {top}]
      BY <1>1, <2>1, <2>2, <2>3, <2>4, <2>7 DEF Visit
    <3>3. e = [stack |-> p, done |-> B \cup {top}, raised |-> z]
      BY <1>1, <1>2, <3>1, <3>2
    <3>4. /\ p \in Seq(Steps) /\ Distinct(p) /\ Len(p) = Len(q) - 1
          /\ Elements(p) = Elements(q) \ {top} /\ Cardinality(Elements(p)) = Len(p)
      BY <1>2, <1>6, <2>1, <3>1, FrontOf, Pop
    <3>5. top \notin Cyclic
      BY <1>2, <2>4, <2>7 DEF Blocked
    <3>6. SearchOK(Cyclic, e)
      <4>1. Elements(p) \cap (B \cup {top}) = {} /\ B \cup {top} \in SUBSET Steps /\ (B \cup {top}) \cap Cyclic = {}
        BY <1>2, <2>2, <3>4, <3>5
      <4>. QED  BY <1>2, <3>3, <3>4, <4>1 DEF SearchOK, SearchStates
    <3>7. Cardinality(B \cup {top}) = Cardinality(B) + 1
      <4>1. top \notin B
        BY <1>2, <2>2
      <4>. QED  BY <1>9, <4>1, FS_AddElement
    <3>8. Moves(e) = 2 * (c + 1) + (l - 1)
      BY <1>3, <3>3, <3>4, <3>7 DEF Moves
    <3>9. Moves(e) = Moves(d) + 1
      BY <1>9, <3>8
    <3>10. ASSUME ChainOK(dep, d) PROVE ChainOK(dep, e)
      <4>1. \A i \in 1..(Len(q) - 1) : q[i + 1] \in dep[q[i]]
        BY <1>1, <1>6, <3>10 DEF ChainOK
      <4>2. PICK n : n = Len(q)
        OBVIOUS
      <4>3. n \in Nat /\ n # 0 /\ Len(p) = n - 1
        BY <1>2, <1>6, <3>4, <4>2
      <4>4. \A i \in 1..(n - 1) : p[i] = q[i]
        <5>1. 1 \in Int /\ n - 1 \in Int /\ n - 1 - 1 + 1 = n - 1 /\ \A i \in 1..(n - 1) : 1 + i - 1 = i /\ i \in 1..n
          BY <4>3
        <5>2. \A i \in 1..(n - 1) : q[i] \in Steps
          BY <1>2, <4>2, <5>1
        <5>3. \A i \in 1..(n - 1 - 1 + 1) : SubSeq(q, 1, n - 1)[i] = q[1 + i - 1]
          BY <5>1, <5>2, SubSeqProperties
        <5>. QED  BY <3>1, <4>2, <5>1, <5>3
      <4>5. ASSUME NEW i \in 1..(Len(p) - 1) PROVE p[i + 1] \in dep[p[i]]
        <5>1. i \in 1..(n - 1) /\ i + 1 \in 1..(n - 1)
          BY <4>3
        <5>. QED  BY <4>1, <4>2, <4>4, <5>1
      <4>. QED  BY <1>1, <1>6, <3>3, <4>5 DEF ChainOK
    <3>. QED  BY <1>4, <3>6, <3>9, <3>10
  <2>. QED  BY <2>5, <2>6, <2>7
<1>7. CASE ~d.raised /\ q = << >> /\ B = Steps
  BY <1>1, <1>7 DEF LookAt
<1>8. CASE ~d.raised /\ q = << >> /\ B # Steps
  <2>1. PICK White : White = Steps \ B
    OBVIOUS
  <2>2. White \in SUBSET Nat /\ White # {} /\ White \in SUBSET Steps /\ White \cap B = {}
    <3>1. Steps \in SUBSET Nat
      BY StepsFinite DEF Steps
    <3>. QED  BY <1>2, <1>8, <2>1, <3>1
  <2>3. PICK x : x = CHOOSE s \in White : \A t \in White : s <= t
    OBVIOUS
  <2>4. x \in White
    BY <2>2, <2>3, LeastNumber
  <2>5. PICK p : p = <<x>>
    OBVIOUS
  <2>6. e = [d EXCEPT !.stack = p]
    BY <1>1, <1>4, <1>8, <2>1, <2>3, <2>5 DEF LookAt
  <2>7. e = [stack |-> p, done |-> B, raised |-> z]
    BY <1>2, <2>6
  <2>8. p \in Seq(Steps) /\ Len(p) = 1 /\ p[1] = x
    BY <2>2, <2>4, <2>5
  <2>9. Elements(p) = {x} /\ Distinct(p) /\ Cardinality(Elements(p)) = Len(p)
    <3>1. \A i \in 1..1 : i = 1
      OBVIOUS
    <3>2. Elements(p) = {x} /\ Distinct(p)
      BY <2>8, <3>1 DEF Elements, Distinct
    <3>. QED  BY <2>8, <3>2, FS_Singleton
  <2>10. SearchOK(Cyclic, e)
    <3>1. Elements(p) \cap B = {}
      BY <2>2, <2>4, <2>9
    <3>. QED  BY <1>2, <2>7, <2>8, <2>9, <3>1 DEF SearchOK, SearchStates
  <2>11. Len(q) = 0
    BY <1>8
  <2>12. Moves(e) = 2 * c + 1
    BY <1>3, <2>7, <2>8 DEF Moves
  <2>13. Moves(e) = Moves(d) + 1
    BY <1>3, <1>9, <2>11, <2>12
  <2>14. ChainOK(dep, e)
    <3>1. 1..(Len(p) - 1) = {}
      BY <2>8
    <3>. QED  BY <1>1, <1>8, <2>7, <3>1 DEF ChainOK
  <2>. QED  BY <1>4, <2>10, <2>13, <2>14
<1>. QED  BY <1>5, <1>6, <1>7, <1>8

LEMMA SearchMoves ==
    ASSUME NEW dep \in [Steps -> SUBSET Nat]
    PROVE  /\ Searched(dep)[0] = Begun
           /\ \A n \in 1..(2 * N) : Searched(dep)[n] = LookAt(dep, Searched(dep)[n - 1])
<1>. DEFINE rule(D) == D = [n \in 0..(2 * N) |-> IF n = 0 THEN Begun ELSE LookAt(dep, D[n - 1])]
<1>0. PICK M : M = 2 * N
  OBVIOUS
<1>1. M \in Nat /\ 0 \in 0..M /\ \A n \in 1..M : n \in 0..M /\ n # 0 /\ n - 1 \in 0..M
  BY <1>0, StepsFinite
<1>2. \E f : rule(f)
  <2>1. PICK T : T = {d \in SearchStates : SearchOK({}, d)}
    OBVIOUS
  <2>2. Begun \in T
    <3>1. PICK e : e = << >>
      OBVIOUS
    <3>2. e \in Seq(Steps) /\ Len(e) = 0 /\ Elements(e) = {} /\ Distinct(e)
      BY <3>1 DEF Elements, Distinct
    <3>3. Begun \in SearchStates /\ Begun.stack = e /\ Begun.done = {}
      BY <3>1, <3>2 DEF Begun, SearchStates
    <3>. QED  BY <2>1, <3>2, <3>3, FS_EmptySet DEF SearchOK
  <2>3. \A d \in T : LookAt(dep, d) \in T
    <3>. SUFFICES ASSUME NEW d \in T PROVE LookAt(dep, d) \in T
      OBVIOUS
    <3>1. SearchOK({}, d)
      BY <2>1
    <3>2. SearchOK({}, LookAt(dep, d))
      BY <3>1, LookAtKeeps DEF Blocked
    <3>. QED  BY <2>1, <3>2 DEF SearchOK
  <2>. DEFINE F == [p \in T \X (1..M) |-> LookAt(dep, p[1])]
  <2>4. F \in Advances(M, T)
    BY <2>3 DEF Advances
  <2>5. \A d \in T, n \in 1..M : F[<<d, n>>] = LookAt(dep, d)
    OBVIOUS
  <2>. HIDE DEF F
  <2>6. PICK f : IsRecursion(f, M, T, Begun, F)
    BY <1>1, <2>2, <2>4, Recursion
  <2>7. f \in [0..M -> T] /\ f[0] = Begun /\ \A n \in 1..M : f[n] = LookAt(dep, f[n - 1])
    BY <1>1, <2>5, <2>6 DEF IsRecursion
  <2>8. f = [n \in 0..M |-> f[n]] /\ \A n \in 0..M : n = 0 \/ n \in 1..M
    BY <1>1, <2>7
  <2>9. rule(f)
    BY <1>0, <2>7, <2>8
  <2>. QED  BY <2>9
<1>3. Searched(dep) = CHOOSE D : rule(D)
  BY DEF Searched, LookAt, Begun
<1>4. rule(Searched(dep))
  <2>. HIDE DEF rule
  <2>. QED  BY <1>2, <1>3
<1>. QED  BY <1>0, <1>1, <1>4

\* If the search raises nothing then no set of steps is blocked.
LEMMA SearchFindsCycles ==
    ASSUME NEW dep \in [Steps -> SUBSET Nat], _validate_no_cycles(dep),
           NEW Cyclic \in SUBSET Steps, Blocked(dep, Cyclic)
    PROVE  Cyclic = {}
<1>1. PICK D, M : D = Searched(dep) /\ M = 2 * N
  OBVIOUS
<1>2. D[0] = Begun /\ \A n \in 1..M : D[n] = LookAt(dep, D[n - 1])
  BY <1>1, SearchMoves
<1>3. ~D[M].raised
  BY <1>1 DEF _validate_no_cycles, Search, Searched
<1>4. M \in Nat /\ N \in Nat /\ 0 \in 0..M /\ M \in 0..M
      /\ \A n \in 1..M : n \in 0..M /\ n - 1 \in 0..M /\ n \in Nat /\ n - 1 \in Nat
  BY <1>1, StepsFinite
<1>. DEFINE Good == {n \in 0..M : /\ SearchOK(Cyclic, D[n])
                                  /\ D[n].raised \/ D[n].done = Steps \/ Moves(D[n]) = n}
<1>5. 0 \in Good
  <2>1. PICK e : e = << >>
    OBVIOUS
  <2>2. e \in Seq(Steps) /\ Len(e) = 0 /\ Elements(e) = {} /\ Distinct(e)
    BY <2>1 DEF Elements, Distinct
  <2>3. Begun \in SearchStates /\ Begun.stack = e /\ Begun.done = {}
    BY <2>1, <2>2 DEF Begun, SearchStates
  <2>4. SearchOK(Cyclic, Begun)
    BY <2>2, <2>3, FS_EmptySet DEF SearchOK
  <2>5. Moves(Begun) = 2 * 0 + 0
    BY <2>2, <2>3, FS_EmptySet DEF Moves
  <2>. QED  BY <1>2, <1>4, <2>4, <2>5
<1>6. ASSUME NEW n \in 1..M, n - 1 \in Good PROVE n \in Good
  <2>1. PICK d : d = D[n - 1]
    OBVIOUS
  <2>2. SearchOK(Cyclic, d) /\ (d.raised \/ d.done = Steps \/ Moves(d) = n - 1) /\ D[n] = LookAt(dep, d)
    BY <1>2, <1>6, <2>1
  <2>3. /\ SearchOK(Cyclic, LookAt(dep, d))
        /\ \/ LookAt(dep, d).raised
           \/ LookAt(dep, d) = d /\ d.done = Steps
           \/ Moves(LookAt(dep, d)) = Moves(d) + 1
    BY <2>2, LookAtKeeps
  <2>4. d.raised => LookAt(dep, d).raised
    BY DEF LookAt
  <2>5. d.done = Steps => LookAt(dep, d).raised \/ LookAt(dep, d).done = Steps
    BY <2>2, <2>3 DEF LookAt, Visit, SearchOK, SearchStates
  <2>. QED  BY <1>4, <2>2, <2>3, <2>4, <2>5
<1>. HIDE DEF Good
<1>7. M \in Good
  <2>1. \A n \in 1..M : n - 1 \in Good => n \in Good
    BY <1>6
  <2>. QED  BY <1>4, <1>5, <2>1, UpTo
<1>8. PICK d : d = D[M]
  OBVIOUS
<1>9. SearchOK(Cyclic, d) /\ (d.done = Steps \/ Moves(d) = 2 * N)
  BY <1>1, <1>3, <1>7, <1>8 DEF Good
<1>10. CASE d.done = Steps
  BY <1>9, <1>10 DEF SearchOK
<1>11. CASE Moves(d) = 2 * N
  <2>1. PICK A, B : A = Elements(d.stack) /\ B = d.done
    OBVIOUS
  <2>2. A \in SUBSET Steps /\ B \in SUBSET Steps /\ A \cap B = {} /\ Cardinality(A) = Len(d.stack)
    BY <1>9, <2>1, ElementsAre DEF SearchOK, SearchStates
  <2>3. IsFiniteSet(A) /\ IsFiniteSet(B) /\ IsFiniteSet(A \cup B)
        /\ Cardinality(A) \in Nat /\ Cardinality(B) \in Nat /\ Cardinality(A \cup B) <= N
    <3>1. A \cup B \in SUBSET Steps
      BY <2>2
    <3>. QED  BY <2>2, <3>1, StepsFinite, FS_Subset, FS_CardinalityType
  <2>4. Cardinality(A \cup B) = Cardinality(A) + Cardinality(B)
    <3>1. Cardinality(A \cup B) = Cardinality(A) + Cardinality(B) - Cardinality(A \cap B)
      BY <2>3, FS_Union
    <3>2. Cardinality(A \cap B) = 0
      BY <2>2, FS_EmptySet
    <3>. QED  BY <2>3, <3>1, <3>2
  <2>5. 2 * Cardinality(B) + Cardinality(A) = 2 * N
    BY <1>11, <2>1, <2>2 DEF Moves
  <2>6. Cardinality(B) = N
    BY <1>4, <2>3, <2>4, <2>5
  <2>7. B = Steps
    BY <2>2, <2>6, StepsFinite, FS_Subset
  <2>. QED  BY <1>10, <2>1, <2>7
<1>. QED  BY <1>9, <1>10, <1>11

\* If it raises something then there is one.
LEMMA SearchIsRight ==
    ASSUME NEW dep \in [Steps -> SUBSET Nat], ~_validate_no_cycles(dep)
    PROVE  \E Cyclic \in SUBSET Steps : Cyclic # {} /\ Blocked(dep, Cyclic)
<1>1. PICK D, M : D = Searched(dep) /\ M = 2 * N
  OBVIOUS
<1>2. D[0] = Begun /\ \A n \in 1..M : D[n] = LookAt(dep, D[n - 1])
  BY <1>1, SearchMoves
<1>3. D[M].raised
  BY <1>1 DEF _validate_no_cycles, Search, Searched
<1>4. M \in Nat /\ N \in Nat /\ 0 \in 0..M /\ M \in 0..M
      /\ \A n \in 1..M : n \in 0..M /\ n - 1 \in 0..M
  BY <1>1, StepsFinite
<1>. DEFINE Good == {n \in 0..M : SearchOK({}, D[n]) /\ ChainOK(dep, D[n])}
<1>5. 0 \in Good
  <2>1. PICK e : e = << >>
    OBVIOUS
  <2>2. e \in Seq(Steps) /\ Len(e) = 0 /\ Elements(e) = {} /\ Distinct(e)
    BY <2>1 DEF Elements, Distinct
  <2>3. Begun \in SearchStates /\ Begun.stack = e /\ Begun.done = {} /\ ~Begun.raised
    BY <2>1, <2>2 DEF Begun, SearchStates
  <2>4. SearchOK({}, Begun)
    BY <2>2, <2>3, FS_EmptySet DEF SearchOK
  <2>5. 1..(0 - 1) = {}
    OBVIOUS
  <2>6. ChainOK(dep, Begun)
    BY <2>2, <2>3, <2>5 DEF ChainOK
  <2>. QED  BY <1>2, <1>4, <2>4, <2>6
<1>6. ASSUME NEW n \in 1..M, n - 1 \in Good PROVE n \in Good
  <2>1. PICK d : d = D[n - 1]
    OBVIOUS
  <2>2. SearchOK({}, d) /\ ChainOK(dep, d) /\ D[n] = LookAt(dep, d)
    BY <1>2, <1>6, <2>1
  <2>3. SearchOK({}, LookAt(dep, d)) /\ ChainOK(dep, LookAt(dep, d))
    BY <2>2, LookAtKeeps DEF Blocked
  <2>. QED  BY <1>4, <2>2, <2>3
<1>. HIDE DEF Good
<1>7. M \in Good
  <2>1. \A n \in 1..M : n - 1 \in Good => n \in Good
    BY <1>6
  <2>. QED  BY <1>4, <1>5, <2>1, UpTo
<1>. QED  BY <1>3, <1>7 DEF Good, ChainOK

\* What the validated order gives the walk.
Contract(dep, ord) ==
    /\ ord \in Seq(Steps) /\ Elements(ord) = Steps
    /\ \A i \in 1..Len(ord) : dep[ord[i]] \subseteq {ord[j] : j \in 1..(i - 1)}

\* An order computed for dependencies that passed the cycle check has every step in
\* it, each behind all that it depends on (pipeline_dag.py _validate_no_cycles,
\* _compute_topological_order).
THEOREM ValidatedOrder ==
    ASSUME NEW dep \in [Steps -> SUBSET Steps], _validate_no_cycles(dep),
           NEW ord, ord = _compute_topological_order(dep)
    PROVE  Contract(dep, ord)
<1>1. PICK U : U = Steps \ Elements(ord)
  OBVIOUS
<1>2. /\ ord \in Seq(Steps) /\ Elements(ord) \in SUBSET Steps
      /\ \A t \in Steps : t \in Elements(ord) <=> dep[t] \subseteq Elements(ord)
      /\ \A i \in 1..Len(ord) : dep[ord[i]] \subseteq {ord[j] : j \in 1..(i - 1)}
  BY OrderRespects, ElementsAre
<1>3. U \in SUBSET Steps /\ Blocked(dep, U)
  BY <1>1, <1>2 DEF Blocked
<1>4. U = {}
  <2>1. dep \in [Steps -> SUBSET Nat]
    BY StepsFinite DEF Steps
  <2>. QED  BY <1>3, <2>1, SearchFindsCycles
<1>. QED  BY <1>1, <1>2, <1>4 DEF Contract

-----------------------------------------------------------------------------
(* The walk.                                                               *)

WalkType == TypeOK

\* What the loader leaves: the order respects the dependencies of the steps.
OrderOK == deps \in [Steps -> SUBSET Steps] /\ mode \in [Steps -> AllModes] /\ Contract(deps, order)

\* What ran is in the wave or has its outcome; what ran depends only on what has
\* its outcome, and what is skipped takes what depends on it along.
FatesOK ==
    /\ completed \cap failed = {}
    /\ (completed \cup failed \cup skipped) \cap wave = {}
    /\ (completed \cup failed) \cap skipped = {}
    /\ \A s \in Steps : Ran(s) <=> s \in completed \cup failed \cup wave
    /\ \A s \in completed \cup failed \cup wave : deps[s] \subseteq completed \cup failed
    /\ \A s \in skipped : dependents(deps, s) \subseteq skipped
    /\ completed \cup failed \cup skipped \subseteq namespace
    /\ \A s \in completed : task[s].pc = "done" /\ task[s].result = "succeeded"
    /\ \A s \in failed : task[s].pc = "done" /\ task[s].result = "failed"

\* What RunState says of the failed steps, and why the walk returned.
OutcomeOK ==
    /\ halted <=> \E s \in failed : mode[s] \notin Tolerates
    /\ tolerated = {s \in failed : mode[s] \in Tolerates}
    /\ main \in {"loop", "returned"} => wave = {}
    /\ main = "returned" => halted \/ Ready = {}

\* The rows q a coroutine k has written of at most m attempts.
AllFailed(q, n) == \A i \in 1..n : q[i].status = "failed"
RowsOf(q, k, m) ==
    /\ k.pc = "none" => q = << >> /\ k.result = "none"
    /\ k.pc # "none" => k.attempt \in 1..m
    /\ k.pc \in {"render", "starting"} => AllFailed(q, Len(q)) /\ Len(q) < k.attempt
    /\ k.pc = "backoff" => AllFailed(q, Len(q)) /\ Len(q) <= k.attempt /\ k.attempt < m
    /\ k.pc \in {"executing", "finishing"} => Len(q) \in 1..k.attempt /\ AllFailed(q, Len(q) - 1)
    /\ k.pc = "finishing" => k.result # "none"
    /\ k.pc = "done" => /\ k.result # "none" /\ Len(q) <= k.attempt
                        /\ k.result = "failed" => AllFailed(q, Len(q))
                        /\ k.result = "succeeded" => /\ Len(q) # 0 /\ AllFailed(q, Len(q) - 1)
                                                     /\ q[Len(q)].status = "succeeded"
RowsOK == \A s \in Steps : RowsOf(rows[s], task[s], attempts(s))

WalkInv == WalkType /\ OrderOK /\ FatesOK /\ OutcomeOK /\ RowsOK

LEMMA AttemptsOf ==
    ASSUME NEW s \in Steps PROVE attempts(s) \in Nat /\ attempts(s) >= 1
BY SlotsAssumption DEF attempts

LEMMA WalkInit == Init => WalkInv
<1>. SUFFICES ASSUME Init PROVE WalkInv
  OBVIOUS
<1>1. deps \in [Steps -> SUBSET Steps] /\ _validate_no_cycles(deps) /\ order = _compute_topological_order(deps)
  BY DEF Init
<1>2. mode \in [Steps -> FailureModes] /\ mode \in [Steps -> AllModes]
  BY ModesAssumption DEF Init
<1>3. OrderOK
  BY <1>1, <1>2, ValidatedOrder DEF OrderOK
<1>4. \A s \in Steps : task[s] = NoTask /\ rows[s] = << >>
  BY DEF Init
<1>5. WalkType
  <2>1. NoTask \in Task
    BY DEF NoTask, Task
  <2>2. << >> \in Seq(StepRow)
    OBVIOUS
  <2>. QED  BY <1>1, <1>2, <2>1, <2>2 DEF WalkType, TypeOK, Init
<1>6. FatesOK
  BY <1>4 DEF FatesOK, Init, Ran, NoTask
<1>7. OutcomeOK
  BY DEF OutcomeOK, Init
<1>8. RowsOK
  BY <1>4 DEF RowsOK, RowsOf, NoTask
<1>. QED  BY <1>3, <1>5, <1>6, <1>7, <1>8 DEF WalkInv

\* A step of one coroutine changes that coroutine and the rows of its step alone.
LEMMA CoroutineMoves ==
    ASSUME WalkInv, NEW s \in Steps, Coroutine(s) \/ SinkRaises(s)
    PROVE  /\ task[s].pc \in Live
           /\ \E k \in Task : task' = [task EXCEPT ![s] = k] /\ k.pc # "none" /\ RowsOf(rows'[s], k, attempts(s))
           /\ \E q \in Seq(StepRow) : rows' = [rows EXCEPT ![s] = q]
           /\ UNCHANGED <<pipeline, main, wave, state, namespace>>
<1>1. PICK k, q, m : k = task[s] /\ q = rows[s] /\ m = attempts(s)
  OBVIOUS
<1>2. /\ k \in Task /\ q \in Seq(StepRow) /\ RowsOf(q, k, m) /\ m \in Nat /\ Len(q) \in Nat
      /\ task \in [Steps -> Task] /\ rows \in [Steps -> Seq(StepRow)]
  BY <1>1, AttemptsOf DEF WalkInv, WalkType, TypeOK, RowsOK
<1>12. PICK c, t, o : c = k.pc /\ t = k.attempt /\ o = k.result
  OBVIOUS
<1>13. k = [pc |-> c, attempt |-> t, result |-> o]
  BY <1>2, <1>12 DEF Task
<1>3. k.attempt \in Nat
  BY <1>2 DEF Task
<1>4. rows = [rows EXCEPT ![s] = q]
  BY <1>1, <1>2
<1>5. CASE rows' = rows /\ UNCHANGED <<pipeline, main, wave, state, namespace>>
           /\ \E n \in Task : task' = [task EXCEPT ![s] = n] /\ n.pc # "none" /\ RowsOf(q, n, m) /\ k.pc \in Live
  BY <1>1, <1>2, <1>4, <1>5
<1>6. CASE Render(s)
  <2>1. k.pc = "render" /\ AllFailed(q, Len(q)) /\ Len(q) < k.attempt /\ k.attempt \in 1..m
    BY <1>1, <1>2, <1>6 DEF Render, RowsOf
  <2>2. CASE task' = [task EXCEPT ![s].pc = "starting"]
    <3>1. PICK n : n = [pc |-> "starting", attempt |-> k.attempt, result |-> k.result]
      OBVIOUS
    <3>2. n \in Task /\ RowsOf(q, n, m)
      BY <1>2, <2>1, <3>1 DEF Task, Live, RowsOf
    <3>3. [k EXCEPT !.pc = "starting"] = n
      BY <1>12, <1>13, <3>1
    <3>4. task' = [task EXCEPT ![s] = n]
      BY <1>1, <1>2, <2>2, <3>3
    <3>. QED  BY <1>5, <1>6, <2>1, <3>1, <3>2, <3>4 DEF Render, Live
  <2>3. CASE task' = [task EXCEPT ![s] = AfterAttempt(s, "failed")]
    <3>1. PICK n : n = [pc |-> IF k.attempt = m THEN "done" ELSE "backoff", attempt |-> k.attempt, result |-> "failed"]
      OBVIOUS
    <3>2. n \in Task /\ RowsOf(q, n, m) /\ n.pc # "none"
      BY <1>2, <2>1, <3>1 DEF Task, Live, RowsOf
    <3>3. AfterAttempt(s, "failed") = n
      <4>1. AfterAttempt(s, "failed") = [k EXCEPT !.result = "failed", !.pc = IF t = m THEN "done" ELSE "backoff"]
        BY <1>1, <1>12 DEF AfterAttempt
      <4>. QED  BY <1>12, <1>13, <3>1, <4>1
    <3>. QED  BY <1>5, <1>6, <2>1, <2>3, <3>2, <3>3 DEF Render, Live
  <2>. QED  BY <1>6, <2>2, <2>3 DEF Render
<1>7. CASE step_started(s)
  <2>1. k.pc = "starting" /\ AllFailed(q, Len(q)) /\ Len(q) < k.attempt /\ k.attempt \in 1..m
    BY <1>1, <1>2, <1>7 DEF step_started, RowsOf
  <2>2. PICK n, r : /\ n = [pc |-> "executing", attempt |-> k.attempt, result |-> k.result]
                    /\ r = Append(q, [attempt |-> k.attempt, status |-> "running"])
    OBVIOUS
  <2>3. [attempt |-> k.attempt, status |-> "running"] \in StepRow
    BY <1>3 DEF StepRow
  <2>4. r \in Seq(StepRow) /\ Len(r) = Len(q) + 1 /\ \A i \in 1..Len(q) : r[i] = q[i]
    BY <1>2, <2>2, <2>3
  <2>5. n \in Task /\ RowsOf(r, n, m)
    <3>1. n \in Task
      BY <1>2, <2>2 DEF Task, Live
    <3>2. Len(r) \in 1..n.attempt /\ Len(r) - 1 = Len(q)
      BY <1>2, <1>3, <2>1, <2>2, <2>4
    <3>3. AllFailed(r, Len(r) - 1)
      BY <2>1, <2>4, <3>2 DEF AllFailed
    <3>. QED  BY <2>1, <2>2, <3>1, <3>2, <3>3 DEF RowsOf
  <2>6. task' = [task EXCEPT ![s] = n] /\ rows' = [rows EXCEPT ![s] = r]
    <3>1. [k EXCEPT !.pc = "executing"] = n
      BY <1>12, <1>13, <2>2
    <3>. QED  BY <1>1, <1>2, <1>7, <2>2, <3>1 DEF step_started
  <2>7. rows'[s] = r
    BY <1>2, <2>6
  <2>. QED  BY <1>1, <1>7, <2>1, <2>2, <2>4, <2>5, <2>6, <2>7 DEF step_started, Live
<1>8. CASE Execute(s)
  <2>1. k.pc = "executing" /\ Len(q) \in 1..k.attempt /\ AllFailed(q, Len(q) - 1) /\ k.attempt \in 1..m
    BY <1>1, <1>2, <1>8 DEF Execute, RowsOf
  <2>2. PICK r \in {"succeeded", "failed"} : task' = [task EXCEPT ![s].pc = "finishing", ![s].result = r]
    BY <1>8 DEF Execute
  <2>3. PICK n : n = [pc |-> "finishing", attempt |-> k.attempt, result |-> r]
    OBVIOUS
  <2>4. n \in Task /\ RowsOf(q, n, m)
    BY <1>2, <2>1, <2>2, <2>3 DEF Task, Live, RowsOf
  <2>5. task' = [task EXCEPT ![s] = n]
    <3>1. PICK T, v : T = [task EXCEPT ![s].pc = "finishing"] /\ v = [k EXCEPT !.pc = "finishing"]
      OBVIOUS
    <3>2. task' = [T EXCEPT ![s].result = r]
      BY <2>2, <3>1
    <3>3. v = [pc |-> "finishing", attempt |-> t, result |-> o]
      BY <1>12, <1>13, <3>1
    <3>4. T = [task EXCEPT ![s] = v] /\ T[s] = v /\ DOMAIN T = Steps
      BY <1>1, <1>2, <3>1
    <3>5. [v EXCEPT !.result = r] = n
      BY <1>12, <2>3, <3>3
    <3>6. task' = [T EXCEPT ![s] = n]
      BY <3>2, <3>4, <3>5
    <3>. QED  BY <1>2, <3>4, <3>6
  <2>. QED  BY <1>5, <1>8, <2>1, <2>3, <2>4, <2>5 DEF Execute, Live
<1>9. CASE step_finished(s)
  <2>1. /\ k.pc = "finishing" /\ Len(q) \in 1..k.attempt /\ AllFailed(q, Len(q) - 1)
        /\ k.attempt \in 1..m /\ k.result \in {"succeeded", "failed"}
    BY <1>1, <1>2, <1>9 DEF step_finished, RowsOf, Task
  <2>2. PICK n, r : /\ n = [pc |-> IF k.result = "succeeded" \/ k.attempt = m THEN "done" ELSE "backoff",
                            attempt |-> k.attempt, result |-> k.result]
                    /\ r = [q EXCEPT ![Len(q)].status = k.result]
    OBVIOUS
  <2>3. AfterAttempt(s, k.result) = n
    <3>1. AfterAttempt(s, k.result)
             = [k EXCEPT !.result = o, !.pc = IF o = "succeeded" \/ t = m THEN "done" ELSE "backoff"]
      BY <1>1, <1>12 DEF AfterAttempt
    <3>. QED  BY <1>12, <1>13, <2>2, <3>1
  <2>4. /\ r \in Seq(StepRow) /\ Len(r) = Len(q) /\ r[Len(q)].status = k.result
        /\ \A i \in 1..(Len(q) - 1) : r[i] = q[i]
    <3>0. PICK l : l = Len(q)
      OBVIOUS
    <3>1. PICK last : last = q[l]
      OBVIOUS
    <3>2. l \in Nat /\ l \in 1..l /\ last \in StepRow
      BY <1>2, <2>1, <3>0, <3>1
    <3>6. PICK x : x = [last EXCEPT !.status = k.result]
      OBVIOUS
    <3>3. x \in StepRow /\ x.status = k.result /\ r = [q EXCEPT ![l] = x]
      <4>1. x \in StepRow /\ x.status = k.result
        BY <2>1, <3>2, <3>6 DEF StepRow
      <4>2. r = [q EXCEPT ![l] = x]
        BY <2>2, <3>0, <3>1, <3>6
      <4>. QED  BY <4>1, <4>2
    <3>4. \A i \in 1..(l - 1) : i \in 1..l /\ i # l
      BY <3>2
    <3>5. r \in Seq(StepRow) /\ Len(r) = l /\ r[l] = x /\ \A i \in 1..(l - 1) : r[i] = q[i]
      BY <1>2, <3>0, <3>2, <3>3, <3>4
    <3>. QED  BY <3>0, <3>3, <3>5
  <2>5. n \in Task /\ RowsOf(r, n, m) /\ n.pc # "none"
    <3>1. n \in Task /\ n.pc # "none"
      BY <1>2, <2>1, <2>2 DEF Task, Live
    <3>2. AllFailed(r, Len(q) - 1) /\ Len(q) # 0 /\ Len(q) <= k.attempt
      BY <1>3, <2>1, <2>4 DEF AllFailed
    <3>3. k.result = "failed" => AllFailed(r, Len(q))
      <4>1. \A i \in 1..Len(q) : i \in 1..(Len(q) - 1) \/ i = Len(q)
        BY <1>2
      <4>. QED  BY <2>4, <3>2, <4>1 DEF AllFailed
    <3>4. k.attempt # m => k.attempt < m
      BY <1>2, <1>3, <2>1
    <3>. QED  BY <2>1, <2>2, <2>4, <3>1, <3>2, <3>3, <3>4 DEF RowsOf
  <2>6. task' = [task EXCEPT ![s] = n] /\ rows' = [rows EXCEPT ![s] = r]
    BY <1>1, <1>2, <1>9, <2>2, <2>3 DEF step_finished
  <2>7. rows'[s] = r
    BY <1>2, <2>6
  <2>. QED  BY <1>1, <1>9, <2>1, <2>4, <2>5, <2>6, <2>7 DEF step_finished, Live
<1>10. CASE Backoff(s)
  <2>1. k.pc = "backoff" /\ AllFailed(q, Len(q)) /\ Len(q) <= k.attempt /\ k.attempt < m
    BY <1>1, <1>2, <1>10 DEF Backoff, RowsOf
  <2>2. PICK n : n = [pc |-> "render", attempt |-> k.attempt + 1, result |-> k.result]
    OBVIOUS
  <2>3. n \in Task /\ RowsOf(q, n, m)
    <3>1. k.attempt + 1 \in 1..m /\ Len(q) < k.attempt + 1 /\ k.attempt + 1 \in Nat
      BY <1>2, <1>3, <2>1
    <3>2. n \in Task
      BY <1>2, <2>2, <3>1 DEF Task, Live
    <3>. QED  BY <2>1, <2>2, <3>1, <3>2 DEF RowsOf
  <2>4. task' = [task EXCEPT ![s] = n]
    <3>1. PICK T, v : T = [task EXCEPT ![s].pc = "render"] /\ v = [k EXCEPT !.pc = "render"]
      OBVIOUS
    <3>2. task' = [T EXCEPT ![s].attempt = @ + 1]
      BY <1>10, <3>1 DEF Backoff
    <3>3. v = [pc |-> "render", attempt |-> t, result |-> o]
      BY <1>12, <1>13, <3>1
    <3>4. T = [task EXCEPT ![s] = v] /\ T[s] = v /\ DOMAIN T = Steps
      BY <1>1, <1>2, <3>1
    <3>5. [v EXCEPT !.attempt = @ + 1] = n
      BY <1>12, <2>2, <3>3
    <3>6. task' = [T EXCEPT ![s] = n]
      BY <3>2, <3>4, <3>5
    <3>. QED  BY <1>2, <3>4, <3>6
  <2>. QED  BY <1>5, <1>10, <2>1, <2>2, <2>3, <2>4 DEF Backoff, Live
<1>11. CASE SinkRaises(s)
  <2>1. k.pc \in Live /\ k.attempt \in 1..m
    BY <1>1, <1>2, <1>11 DEF SinkRaises, RowsOf, Live
  <2>2. PICK n : n = [pc |-> "raised", attempt |-> k.attempt, result |-> k.result]
    OBVIOUS
  <2>3. n \in Task /\ RowsOf(q, n, m)
    BY <1>2, <2>1, <2>2 DEF Task, RowsOf
  <2>4. task' = [task EXCEPT ![s] = n]
    <3>1. [k EXCEPT !.pc = "raised"] = n
      BY <1>12, <1>13, <2>2
    <3>. QED  BY <1>1, <1>2, <1>11, <3>1 DEF SinkRaises
  <2>. QED  BY <1>5, <1>11, <2>1, <2>2, <2>3, <2>4 DEF SinkRaises
<1>. QED  BY <1>6, <1>7, <1>8, <1>9, <1>10, <1>11 DEF Coroutine

LEMMA CoroutineKeeps ==
    ASSUME WalkInv, NEW s \in Steps, Coroutine(s) \/ SinkRaises(s), sinkErrors' \in Nat
    PROVE  WalkInv'
<1>1. PICK k \in Task : task' = [task EXCEPT ![s] = k] /\ k.pc # "none" /\ RowsOf(rows'[s], k, attempts(s))
  BY CoroutineMoves
<1>2. PICK q \in Seq(StepRow) : rows' = [rows EXCEPT ![s] = q]
  BY CoroutineMoves
<1>3. UNCHANGED <<pipeline, main, wave, state, namespace>> /\ task[s].pc \in Live
  BY CoroutineMoves
<1>4. /\ deps' = deps /\ mode' = mode /\ order' = order /\ main' = main /\ wave' = wave
      /\ completed' = completed /\ failed' = failed /\ skipped' = skipped
      /\ halted' = halted /\ tolerated' = tolerated /\ namespace' = namespace
  BY <1>3 DEF pipeline, state
<1>5. task \in [Steps -> Task] /\ rows \in [Steps -> Seq(StepRow)]
  BY DEF WalkInv, WalkType, TypeOK
<1>6. WalkType'
  <2>1. task' \in [Steps -> Task] /\ rows' \in [Steps -> Seq(StepRow)]
    BY <1>1, <1>2, <1>5
  <2>. QED  BY <1>4, <2>1 DEF WalkInv, WalkType, TypeOK
<1>7. OrderOK'
  BY <1>4 DEF WalkInv, OrderOK, Contract
<1>8. FatesOK'
  <2>0. FatesOK
    BY DEF WalkInv
  <2>1. s \notin completed \cup failed
    BY <1>3, <2>0 DEF FatesOK, Live
  <2>2. \A t \in Steps : (task'[t].pc # "none") <=> (task[t].pc # "none")
    BY <1>1, <1>3, <1>5 DEF Live
  <2>3. \A t \in Steps : t # s => task'[t] = task[t]
    BY <1>1, <1>5
  <2>4. completed \subseteq Steps /\ failed \subseteq Steps
    BY DEF WalkInv, WalkType, TypeOK
  <2>5. \A t \in completed \cup failed : task'[t] = task[t]
    BY <2>1, <2>3, <2>4
  <2>. QED  BY <1>4, <2>0, <2>2, <2>5 DEF FatesOK, Ran, dependents
<1>9. OutcomeOK'
  BY <1>4 DEF WalkInv, OutcomeOK, Ready, ready_steps
<1>10. RowsOK'
  <2>1. ASSUME NEW t \in Steps PROVE RowsOf(rows'[t], task'[t], attempts(t)')
    <3>1. attempts(t)' = attempts(t)
      BY <1>4 DEF attempts
    <3>2. CASE t = s
      <4>1. task'[t] = k
        BY <1>1, <1>5, <3>2
      <4>. QED  BY <1>1, <3>1, <3>2, <4>1
    <3>3. CASE t # s
      <4>1. task'[t] = task[t] /\ rows'[t] = rows[t]
        BY <1>1, <1>2, <1>5, <3>3
      <4>. QED  BY <3>1, <4>1 DEF WalkInv, RowsOK
    <3>. QED  BY <3>2, <3>3
  <2>. QED  BY <2>1 DEF RowsOK
<1>. QED  BY <1>6, <1>7, <1>8, <1>9, <1>10 DEF WalkInv

\* A step that is launched is new and depends only on what completed or failed.
LEMMA LaunchedSteps ==
    ASSUME WalkInv, NEW s \in FirstSlots(Ready)
    PROVE  /\ s \in Steps /\ s \notin completed \cup failed \cup skipped
           /\ deps[s] \subseteq completed \cup failed
<1>1. PICK i \in Ready : s = order[i]
  BY DEF FirstSlots
<1>2. i \in DOMAIN order /\ s \notin completed \cup failed \cup skipped
      /\ deps[s] \subseteq completed \cup failed \cup skipped
  BY <1>1 DEF Ready, ready_steps
<1>3. s \in Steps
  BY <1>1, <1>2 DEF WalkInv, OrderOK, Contract
<1>4. deps[s] \cap skipped = {}
  BY <1>2, <1>3 DEF WalkInv, FatesOK, dependents
<1>. QED  BY <1>2, <1>3, <1>4

LEMMA LaunchKeeps == WalkInv /\ LaunchWave => WalkInv'
<1>. SUFFICES ASSUME WalkInv, LaunchWave PROVE WalkInv'
  OBVIOUS
<1>1. /\ main = "loop" /\ main' = "gather" /\ ~halted
      /\ deps' = deps /\ mode' = mode /\ order' = order
      /\ completed' = completed /\ failed' = failed /\ skipped' = skipped
      /\ halted' = halted /\ tolerated' = tolerated /\ namespace' = namespace
      /\ rows' = rows /\ sinkErrors' = sinkErrors
  BY DEF LaunchWave, pipeline, state
<1>2. PICK W : W = FirstSlots(Ready)
  OBVIOUS
<1>3. /\ wave' = W /\ W \in SUBSET Steps /\ W \cap (completed \cup failed \cup skipped) = {}
      /\ \A s \in W : deps[s] \subseteq completed \cup failed
  <2>1. wave' = W
    BY <1>2 DEF LaunchWave
  <2>2. \A s \in W : /\ s \in Steps /\ s \notin completed \cup failed \cup skipped
                     /\ deps[s] \subseteq completed \cup failed
    BY <1>2, LaunchedSteps
  <2>. QED  BY <2>1, <2>2
<1>4. PICK new : new = [pc |-> "render", attempt |-> 1, result |-> "none"]
  OBVIOUS
<1>5. task' = [s \in Steps |-> IF s \in W THEN new ELSE task[s]]
  BY <1>3, <1>4 DEF LaunchWave
<1>6. task \in [Steps -> Task] /\ rows \in [Steps -> Seq(StepRow)]
  BY DEF WalkInv, WalkType, TypeOK
<1>7. wave = {}
  BY <1>1 DEF WalkInv, OutcomeOK
<1>8. WalkType'
  <2>1. new \in Task
    BY <1>4 DEF Task, Live
  <2>2. task' \in [Steps -> Task]
    BY <1>5, <1>6, <2>1
  <2>. QED  BY <1>1, <1>3, <2>2 DEF WalkInv, WalkType, TypeOK
<1>9. OrderOK'
  BY <1>1 DEF WalkInv, OrderOK, Contract
<1>10. FatesOK'
  <2>0. FatesOK /\ completed \subseteq Steps /\ failed \subseteq Steps
    BY DEF WalkInv, WalkType, TypeOK
  <2>1. \A s \in Steps : (task'[s].pc # "none") <=> s \in W \/ task[s].pc # "none"
    BY <1>4, <1>5
  <2>2. \A s \in completed \cup failed : task'[s] = task[s]
    BY <1>3, <1>5, <2>0
  <2>. QED  BY <1>1, <1>3, <1>7, <2>0, <2>1, <2>2 DEF FatesOK, Ran, dependents
<1>11. OutcomeOK'
  BY <1>1 DEF WalkInv, OutcomeOK
<1>12. RowsOK'
  <2>1. ASSUME NEW t \in Steps PROVE RowsOf(rows'[t], task'[t], attempts(t)')
    <3>1. attempts(t)' = attempts(t)
      BY <1>1 DEF attempts
    <3>2. CASE t \in W
      <4>1. ~Ran(t)
        BY <1>3, <1>7, <3>2 DEF WalkInv, FatesOK
      <4>2. rows[t] = << >>
        BY <4>1 DEF WalkInv, RowsOK, RowsOf, Ran
      <4>3. task'[t] = new /\ rows'[t] = << >>
        BY <1>1, <1>5, <3>2, <4>2
      <4>4. PICK e, m : e = << >> /\ m = attempts(t)
        OBVIOUS
      <4>5. Len(e) = 0 /\ AllFailed(e, Len(e)) /\ m \in Nat /\ 1 \in 1..m
        BY <4>4, AttemptsOf DEF AllFailed
      <4>6. RowsOf(e, new, m)
        BY <1>4, <4>5 DEF RowsOf
      <4>. QED  BY <3>1, <4>3, <4>4, <4>6
    <3>3. CASE t \notin W
      <4>1. task'[t] = task[t] /\ rows'[t] = rows[t]
        BY <1>1, <1>5, <3>3
      <4>. QED  BY <3>1, <4>1 DEF WalkInv, RowsOK
    <3>. QED  BY <3>2, <3>3
  <2>. QED  BY <2>1 DEF RowsOK
<1>. QED  BY <1>8, <1>9, <1>10, <1>11, <1>12 DEF WalkInv

\* What is downstream of a step of the wave has not run.
LEMMA DownstreamIsNew ==
    ASSUME WalkInv, NEW t \in wave
    PROVE  /\ downstream_of(deps, t) \in SUBSET Steps
           /\ downstream_of(deps, t) \cap (completed \cup failed \cup wave) = {}
           /\ \A s \in downstream_of(deps, t) : dependents(deps, s) \subseteq downstream_of(deps, t)
<1>1. PICK A : A = completed \cup failed
  OBVIOUS
<1>2. /\ deps \in [Steps -> SUBSET Steps] /\ t \in Steps /\ t \notin A /\ A \in SUBSET Steps
      /\ \A u \in A : deps[u] \subseteq A
      /\ \A u \in A \cup wave : deps[u] \subseteq A
  BY <1>1 DEF WalkInv, WalkType, TypeOK, FatesOK
<1>3. /\ downstream_of(deps, t) \in SUBSET Steps
      /\ \A s \in downstream_of(deps, t) : dependents(deps, s) \subseteq downstream_of(deps, t)
  BY <1>2, DownstreamClosed
<1>4. ASSUME NEW s \in downstream_of(deps, t), s \in A \cup wave PROVE FALSE
  <2>1. t \in A
    BY <1>2, <1>4, DownstreamDepends
  <2>. QED  BY <1>2, <2>1
<1>. QED  BY <1>1, <1>3, <1>4

LEMMA GatherKeeps == WalkInv /\ GatherReturns => WalkInv'
<1>. SUFFICES ASSUME WalkInv, GatherReturns PROVE WalkInv'
  OBVIOUS
<1>1. PICK C, F, K, B : /\ C = completed' /\ F = failed' /\ K = skipped' /\ B = Bad
  OBVIOUS
<1>2. /\ main' = "loop" /\ wave' = {} /\ task' = task /\ rows' = rows /\ sinkErrors' = sinkErrors
      /\ deps' = deps /\ mode' = mode /\ order' = order /\ \A s \in wave : task[s].pc = "done"
  BY DEF GatherReturns, pipeline
<1>3. /\ C = completed \cup (wave \ B) /\ F = failed \cup B
      /\ halted' = (halted \/ \E s \in B : mode[s] \notin Tolerates)
      /\ tolerated' = tolerated \cup {s \in B : mode[s] \in Tolerates}
      /\ K = skipped \cup UNION {downstream_of(deps, s) : s \in Skips}
      /\ namespace' = namespace \cup wave \cup K
  BY <1>1 DEF GatherReturns, apply_failure_mode, Recorded
<1>4. PICK New : New = UNION {downstream_of(deps, s) : s \in Skips}
  OBVIOUS
<1>5. B \subseteq wave /\ Skips \subseteq wave /\ wave \subseteq Steps /\ \A s \in wave : s \in B <=> task[s].result = "failed"
  BY <1>1 DEF Bad, Skips, WalkInv, WalkType, TypeOK
<1>6. /\ New \in SUBSET Steps /\ New \cap (completed \cup failed \cup wave) = {}
      /\ \A s \in New : dependents(deps, s) \subseteq New
  <2>1. \A s \in Skips : /\ downstream_of(deps, s) \in SUBSET Steps
                         /\ downstream_of(deps, s) \cap (completed \cup failed \cup wave) = {}
                         /\ \A t \in downstream_of(deps, s) : dependents(deps, t) \subseteq downstream_of(deps, s)
    BY <1>5, DownstreamIsNew
  <2>. QED  BY <1>4, <2>1
<1>7. K = skipped \cup New
  BY <1>3, <1>4
<1>8. WalkType'
  BY <1>1, <1>2, <1>3, <1>5, <1>6, <1>7 DEF WalkInv, WalkType, TypeOK
<1>9. OrderOK'
  BY <1>2 DEF WalkInv, OrderOK, Contract
<1>10. FatesOK'
  <2>0. FatesOK
    BY DEF WalkInv
  <2>1. C \cup F = completed \cup failed \cup wave
    BY <1>3, <1>5
  <2>2. C \cap F = {} /\ (C \cup F) \cap K = {}
    BY <1>3, <1>5, <1>6, <1>7, <2>0, <2>1 DEF FatesOK
  <2>3. \A s \in Steps : (task'[s].pc # "none") <=> s \in C \cup F
    BY <1>2, <2>0, <2>1 DEF FatesOK, Ran
  <2>4. \A s \in C \cup F : deps[s] \subseteq C \cup F
    BY <2>0, <2>1 DEF FatesOK
  <2>5. \A s \in K : dependents(deps, s) \subseteq K
    BY <1>6, <1>7, <2>0 DEF FatesOK
  <2>6. C \cup F \cup K \subseteq namespace'
    BY <1>3, <1>7, <2>0, <2>1 DEF FatesOK
  <2>7. ASSUME NEW s \in wave PROVE task[s].result \in {"succeeded", "failed"}
    BY <1>2, <1>5 DEF WalkInv, RowsOK, RowsOf, WalkType, TypeOK, Task
  <2>8. \A s \in C : task[s].pc = "done" /\ task[s].result = "succeeded"
    BY <1>2, <1>3, <1>5, <2>0, <2>7 DEF FatesOK
  <2>9. \A s \in F : task[s].pc = "done" /\ task[s].result = "failed"
    BY <1>2, <1>3, <1>5, <2>0 DEF FatesOK
  <2>10. \A s \in K : dependents(deps, s)' = dependents(deps, s)
    BY <1>2 DEF dependents
  <2>. QED  BY <1>1, <1>2, <2>2, <2>3, <2>4, <2>5, <2>6, <2>8, <2>9, <2>10 DEF FatesOK, Ran
<1>11. OutcomeOK'
  <2>1. halted' <=> \E s \in F : mode[s] \notin Tolerates
    BY <1>3 DEF WalkInv, OutcomeOK
  <2>2. tolerated' = {s \in F : mode[s] \in Tolerates}
    BY <1>3 DEF WalkInv, OutcomeOK
  <2>. QED  BY <1>1, <1>2, <2>1, <2>2 DEF OutcomeOK
<1>12. RowsOK'
  <2>1. \A t \in Steps : attempts(t)' = attempts(t)
    BY <1>2 DEF attempts
  <2>. QED  BY <1>2, <2>1 DEF WalkInv, RowsOK
<1>. QED  BY <1>8, <1>9, <1>10, <1>11, <1>12 DEF WalkInv

LEMMA EndKeeps == WalkInv /\ (Return \/ GatherRaises \/ Cancel) => WalkInv'
<1>. SUFFICES ASSUME WalkInv, Return \/ GatherRaises \/ Cancel PROVE WalkInv'
  OBVIOUS
<1>1. /\ deps' = deps /\ mode' = mode /\ order' = order /\ wave' = wave
      /\ completed' = completed /\ failed' = failed /\ skipped' = skipped
      /\ halted' = halted /\ tolerated' = tolerated /\ namespace' = namespace
      /\ rows' = rows /\ sinkErrors' = sinkErrors
      /\ main' \in {"returned", "raised", "cancelled"}
      /\ main' = "returned" => main = "loop" /\ (halted \/ Ready = {})
  BY DEF Return, GatherRaises, Cancel, pipeline, state
<1>2. \A s \in Steps : \/ task'[s] = task[s]
                       \/ task[s].pc \in Live /\ task'[s] = [task[s] EXCEPT !.pc = "cancelled"]
  <2>1. task' = task \/ task' = [s \in Steps |-> IF task[s].pc \in Live
                                  THEN [task[s] EXCEPT !.pc = "cancelled"] ELSE task[s]]
    BY DEF Return, GatherRaises, Cancel
  <2>. QED  BY <2>1
<1>3. task \in [Steps -> Task] /\ DOMAIN task' = Steps
  BY DEF WalkInv, WalkType, TypeOK, Return, GatherRaises, Cancel
<1>4. ASSUME NEW s \in Steps
      PROVE  /\ task'[s] \in Task
             /\ (task'[s].pc # "none") <=> (task[s].pc # "none")
             /\ task[s].pc = "done" => task'[s] = task[s]
             /\ RowsOf(rows[s], task'[s], attempts(s))
  <2>1. PICK k, n : k = task[s] /\ n = task'[s]
    OBVIOUS
  <2>2. k \in Task /\ RowsOf(rows[s], k, attempts(s))
    BY <1>3, <2>1 DEF WalkInv, RowsOK
  <2>3. CASE n = k
    BY <2>1, <2>2, <2>3
  <2>4. CASE k.pc \in Live /\ n = [k EXCEPT !.pc = "cancelled"]
    <3>1. n \in Task /\ n.pc = "cancelled" /\ n.attempt = k.attempt
      BY <2>2, <2>4 DEF Task
    <3>2. k.attempt \in 1..attempts(s)
      BY <2>2, <2>4 DEF RowsOf, Live
    <3>3. RowsOf(rows[s], n, attempts(s))
      BY <3>1, <3>2 DEF RowsOf
    <3>. QED  BY <2>1, <2>4, <3>1, <3>3 DEF Live
  <2>. QED  BY <1>2, <2>1, <2>3, <2>4
<1>5. WalkType'
  <2>1. task' \in [Steps -> Task]
    <3>1. task' = [s \in Steps |-> task'[s]]
      <4>1. task' = task \/ task' = [s \in Steps |-> IF task[s].pc \in Live
                                      THEN [task[s] EXCEPT !.pc = "cancelled"] ELSE task[s]]
        BY DEF Return, GatherRaises, Cancel
      <4>2. CASE task' = task
        <5>1. task = [s \in Steps |-> task[s]]
          BY <1>3
        <5>. QED  BY <4>2, <5>1
      <4>3. CASE task' # task
        <5>1. PICK f : f = [s \in Steps |-> IF task[s].pc \in Live
                                          THEN [task[s] EXCEPT !.pc = "cancelled"] ELSE task[s]]
          OBVIOUS
        <5>2. f = [s \in Steps |-> f[s]] /\ task' = f
          BY <4>1, <4>3, <5>1
        <5>. QED  BY <5>2
      <4>. QED  BY <4>2, <4>3
    <3>. QED  BY <1>4, <3>1
  <2>. QED  BY <1>1, <2>1 DEF WalkInv, WalkType, TypeOK
<1>6. OrderOK'
  BY <1>1 DEF WalkInv, OrderOK, Contract
<1>7. FatesOK'
  <2>0. FatesOK /\ completed \subseteq Steps /\ failed \subseteq Steps
    BY DEF WalkInv, WalkType, TypeOK
  <2>1. \A s \in completed \cup failed : task'[s] = task[s]
    BY <1>4, <2>0 DEF FatesOK
  <2>2. \A s \in Steps : (task'[s].pc # "none") <=> s \in completed \cup failed \cup wave
    BY <1>4, <2>0 DEF FatesOK, Ran
  <2>3. \A s \in skipped : dependents(deps, s)' = dependents(deps, s)
    BY <1>1 DEF dependents
  <2>4. \A s \in completed : task'[s].pc = "done" /\ task'[s].result = "succeeded"
    BY <2>0, <2>1 DEF FatesOK
  <2>5. \A s \in failed : task'[s].pc = "done" /\ task'[s].result = "failed"
    BY <2>0, <2>1 DEF FatesOK
  <2>. QED  BY <1>1, <2>0, <2>2, <2>3, <2>4, <2>5 DEF FatesOK, Ran
<1>8. OutcomeOK'
  <2>1. Ready' = Ready
    BY <1>1 DEF Ready, ready_steps
  <2>. QED  BY <1>1, <2>1 DEF WalkInv, OutcomeOK
<1>9. RowsOK'
  <2>1. \A t \in Steps : attempts(t)' = attempts(t)
    BY <1>1 DEF attempts
  <2>. QED  BY <1>1, <1>4, <2>1 DEF RowsOK
<1>. QED  BY <1>5, <1>6, <1>7, <1>8, <1>9 DEF WalkInv

LEMMA WalkStep == WalkInv /\ sinkErrors \in Nat /\ [Next]_vars => (WalkInv /\ sinkErrors \in Nat)'
<1>. SUFFICES ASSUME WalkInv, sinkErrors \in Nat, [Next]_vars PROVE (WalkInv /\ sinkErrors \in Nat)'
  OBVIOUS
<1>1. CASE LaunchWave
  BY <1>1, LaunchKeeps DEF LaunchWave
<1>2. CASE GatherReturns
  BY <1>2, GatherKeeps DEF GatherReturns
<1>3. CASE Return \/ GatherRaises \/ Cancel
  BY <1>3, EndKeeps DEF Return, GatherRaises, Cancel
<1>4. ASSUME NEW s \in Steps, Coroutine(s) \/ SinkRaises(s) PROVE (WalkInv /\ sinkErrors \in Nat)'
  <2>1. sinkErrors' \in Nat
    BY <1>4 DEF Coroutine, Render, step_started, Execute, step_finished, Backoff, SinkRaises
  <2>. QED  BY <1>4, <2>1, CoroutineKeeps
<1>5. CASE UNCHANGED vars
  BY <1>5 DEF vars, pipeline, state, WalkInv, WalkType, TypeOK, OrderOK, Contract, FatesOK, OutcomeOK, RowsOK,
              Ran, dependents, Ready, ready_steps, attempts
<1>. QED  BY <1>1, <1>2, <1>3, <1>4, <1>5 DEF Next, Walk

LEMMA WalkInvariant == Spec => []WalkInv
<1>1. Init => WalkInv /\ sinkErrors \in Nat
  BY WalkInit DEF Init
<1>2. WalkInv /\ sinkErrors \in Nat /\ [Next]_vars => (WalkInv /\ sinkErrors \in Nat)'
  BY WalkStep
<1>. QED  BY <1>1, <1>2, PTL DEF Spec

\* The status of a run that returned normally: every step of an order that no step
\* is ready in has its outcome.
LEMMA NothingReady ==
    ASSUME WalkInv, Ready = {} PROVE resolved = Steps
<1>1. PICK R : R = completed \cup failed \cup skipped
  OBVIOUS
<1>2. R \in SUBSET Steps /\ order \in Seq(Steps) /\ Elements(order) = Steps
      /\ \A i \in 1..Len(order) : deps[order[i]] \subseteq {order[j] : j \in 1..(i - 1)}
  BY <1>1 DEF WalkInv, WalkType, TypeOK, OrderOK, Contract
<1>3. PICK Left : Left = {i \in 1..Len(order) : order[i] \notin R}
  OBVIOUS
<1>4. ASSUME Left # {} PROVE FALSE
  <2>1. Left \in SUBSET Nat
    BY <1>2, <1>3
  <2>2. PICK i \in Left : \A j \in Left : i <= j
    BY <1>4, <2>1, LeastNumber
  <2>3. \A j \in 1..(i - 1) : j \in 1..Len(order) /\ j \notin Left
    BY <1>2, <1>3, <2>2
  <2>4. deps[order[i]] \subseteq R
    BY <1>2, <1>3, <2>2, <2>3
  <2>5. i \in Ready
    BY <1>1, <1>2, <1>3, <2>2, <2>4 DEF Ready, ready_steps
  <2>. QED  BY <2>5
<1>5. \A s \in Steps : s \in R
  BY <1>2, <1>3, <1>4 DEF Elements
<1>. QED  BY <1>1, <1>2, <1>5 DEF resolved

\* What a step renders with: everything it depends on, directly or not, is in the
\* steps namespace.
THEOREM UpstreamIsVisible == Spec => []UpstreamVisible
<1>1. WalkInv => UpstreamVisible
  <2>. SUFFICES ASSUME WalkInv, NEW s \in Steps, task[s].pc = "render", NEW t \in Steps, s \in downstream_of(deps, t)
                PROVE  t \in namespace
    BY DEF UpstreamVisible
  <2>1. PICK A : A = completed \cup failed
    OBVIOUS
  <2>2. /\ deps \in [Steps -> SUBSET Steps] /\ A \in SUBSET Steps /\ A \subseteq namespace
        /\ \A u \in A : deps[u] \subseteq A
        /\ \A u \in wave : deps[u] \subseteq A
    BY <2>1 DEF WalkInv, WalkType, TypeOK, FatesOK
  <2>3. s \in A \cup wave
    BY <2>1 DEF WalkInv, FatesOK, Ran
  <2>4. deps[s] \subseteq A
    BY <2>2, <2>3
  <2>5. t \in A
    BY <2>2, <2>4, DownstreamDepends
  <2>. QED  BY <2>2, <2>5
<1>. QED  BY <1>1, WalkInvariant, PTL

\* What a run leaves behind: one fate a step, the status of failure_modes.py, and
\* step_runs rows that tell what each step did.
THEOREM WalkRecords == Spec => []RecordIsTrue
<1>1. WalkInv => OneFate
  BY DEF WalkInv, FatesOK, OneFate, WalkType, TypeOK
<1>2. WalkInv => StatusMatchesOutcome
  <2>. SUFFICES ASSUME WalkInv, main = "returned" PROVE StatusMatchesOutcome
    BY DEF StatusMatchesOutcome, Returned
  <2>1. wave = {} /\ (halted \/ Ready = {})
    BY DEF WalkInv, OutcomeOK
  <2>2. /\ \A s \in Steps : task[s].pc = "none" => task[s].result = "none"
        /\ \A s \in Steps : task[s].pc # "none" <=> s \in completed \cup failed
        /\ \A s \in completed : task[s].pc = "done" /\ task[s].result = "succeeded"
        /\ \A s \in failed : task[s].pc = "done" /\ task[s].result = "failed"
        /\ completed \subseteq Steps /\ failed \subseteq Steps /\ skipped \subseteq Steps
        /\ completed \cap failed = {} /\ (completed \cup failed) \cap skipped = {}
    BY <2>1 DEF WalkInv, WalkType, TypeOK, FatesOK, RowsOK, RowsOf, Ran
  <2>3. /\ halted <=> \E s \in failed : mode[s] \in {"fail", "retry"}
        /\ tolerated = {s \in failed : mode[s] \notin {"fail", "retry"}}
    BY <2>2 DEF WalkInv, OrderOK, OutcomeOK, AllModes, Tolerates
  <2>4. \A s \in Steps : s \in failed <=> task[s].result = "failed"
    BY <2>2
  <2>5. PICK fatal : fatal = \E s \in Steps : task[s].result = "failed" /\ mode[s] \in {"fail", "retry"}
    OBVIOUS
  <2>6. halted <=> fatal
    BY <2>2, <2>3, <2>4, <2>5
  <2>7. ~fatal => resolved = Steps
    BY <2>1, <2>6, NothingReady
  <2>8. derive_run_status = "failed" <=> fatal
    BY <2>6 DEF derive_run_status
  <2>9. derive_run_status = "succeeded" <=> ~halted /\ tolerated = {} /\ skipped = {}
    BY DEF derive_run_status
  <2>10. ~halted /\ tolerated = {} <=> failed = {}
    BY <2>3
  <2>11. failed = {} /\ skipped = {} <=> \A s \in Steps : task[s].pc = "done" /\ task[s].result = "succeeded"
    <3>1. ASSUME failed = {}, skipped = {} PROVE completed = Steps
      BY <2>6, <2>7, <2>10, <3>1 DEF resolved
    <3>2. ASSUME \A s \in Steps : task[s].pc = "done" /\ task[s].result = "succeeded" PROVE failed = {} /\ skipped = {}
      BY <2>2, <3>2
    <3>. QED  BY <2>2, <3>1, <3>2
  <2>12. derive_run_status = "succeeded" <=> \A s \in Steps : task[s].pc = "done" /\ task[s].result = "succeeded"
    BY <2>9, <2>10, <2>11
  <2>. QED  BY <2>5, <2>7, <2>8, <2>12 DEF StatusMatchesOutcome
<1>3. WalkInv => RowsTellTheRun
  <2>. SUFFICES ASSUME WalkInv, main = "returned", NEW s \in Steps, NEW q, q = rows[s]
                PROVE  /\ Len(q) <= attempts(s)
                       /\ \A i \in 1..Len(q) : /\ q[i].status # "running"
                                               /\ q[i].status = "succeeded" => i = Len(q) /\ s \in completed
                       /\ s \in completed => q # << >> /\ q[Len(q)].status = "succeeded"
                       /\ s \in skipped => q = << >>
    BY DEF RowsTellTheRun, Returned
  <2>1. wave = {}
    BY DEF WalkInv, OutcomeOK
  <2>2. PICK k, m : k = task[s] /\ m = attempts(s)
    OBVIOUS
  <2>3. k \in Task /\ q \in Seq(StepRow) /\ Len(q) \in Nat /\ RowsOf(q, k, m) /\ m \in Nat /\ k.attempt \in Nat
    BY <2>2, AttemptsOf DEF WalkInv, WalkType, TypeOK, RowsOK, Task
  <2>4. CASE s \notin completed \cup failed
    <3>1. k.pc = "none"
      BY <2>1, <2>2, <2>4 DEF WalkInv, FatesOK, Ran
    <3>2. q = << >> /\ Len(q) = 0
      BY <2>3, <3>1 DEF RowsOf
    <3>. QED  BY <2>2, <2>3, <2>4, <3>2
  <2>5. CASE s \in failed
    <3>1. k.pc = "done" /\ k.result = "failed" /\ s \notin completed /\ s \notin skipped
      BY <2>2, <2>5 DEF WalkInv, FatesOK
    <3>2. AllFailed(q, Len(q)) /\ Len(q) <= k.attempt /\ k.attempt <= m
      BY <2>3, <3>1 DEF RowsOf
    <3>. QED  BY <2>2, <2>3, <3>1, <3>2 DEF AllFailed
  <2>6. CASE s \in completed
    <3>1. k.pc = "done" /\ k.result = "succeeded" /\ s \notin skipped
      BY <2>2, <2>6 DEF WalkInv, FatesOK
    <3>2. /\ AllFailed(q, Len(q) - 1) /\ Len(q) <= k.attempt /\ k.attempt <= m /\ Len(q) # 0
          /\ q[Len(q)].status = "succeeded"
      BY <2>3, <3>1 DEF RowsOf
    <3>3. \A i \in 1..Len(q) : i = Len(q) \/ i \in 1..(Len(q) - 1)
      BY <2>3
    <3>4. q # << >>
      BY <3>2
    <3>. QED  BY <2>2, <2>3, <2>6, <3>1, <3>2, <3>3, <3>4 DEF AllFailed
  <2>. QED  BY <2>4, <2>5, <2>6
<1>4. WalkInv => RecordIsTrue
  BY <1>1, <1>2, <1>3 DEF RecordIsTrue
<1>. QED  BY <1>4, WalkInvariant, PTL
=============================================================================
