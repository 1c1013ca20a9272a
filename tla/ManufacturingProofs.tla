------------------------- MODULE ManufacturingProofs -------------------------
(***************************************************************************)
(* Proofs about the sheets of a design, about the design review package    *)
(* that carries them and about the CAM candidate made from it, for any     *)
(* calls, reviews, profiles and machines.                                  *)
(***************************************************************************)
EXTENDS CamCandidate, ReviewPackage, FiniteSums, FiniteSetTheorems, TLAPS

-----------------------------------------------------------------------------
(***************************************************************************)
(* Orders.  R, a set of pairs, orders S strictly and totally.              *)
(***************************************************************************)
StrictOrder(S, R) ==
    /\ \A a \in S : <<a, a>> \notin R
    /\ \A a, b, c \in S : <<a, b>> \in R /\ <<b, c>> \in R => <<a, c>> \in R
    /\ \A a, b \in S : a = b \/ <<a, b>> \in R \/ <<b, a>> \in R
Earlier(S, R, k) == {j \in S : <<j, k>> \in R}
Rank(S, R, k) == Cardinality(Earlier(S, R, k))

LEMMA RankGrows ==
    ASSUME NEW S, IsFiniteSet(S), NEW R, StrictOrder(S, R), NEW j \in S, NEW k \in S,
           <<j, k>> \in R
    PROVE  Rank(S, R, j) < Rank(S, R, k)
<1>1. IsFiniteSet(Earlier(S, R, k)) /\ IsFiniteSet(Earlier(S, R, j))
  BY FS_Subset DEF Earlier
<1>2. Earlier(S, R, j) \subseteq Earlier(S, R, k)
  BY DEF Earlier, StrictOrder
<1>3. j \in Earlier(S, R, k) /\ j \notin Earlier(S, R, j)
  BY DEF Earlier, StrictOrder
<1>4. Cardinality(Earlier(S, R, j)) <= Cardinality(Earlier(S, R, k))
        /\ Cardinality(Earlier(S, R, j)) # Cardinality(Earlier(S, R, k))
  BY <1>1, <1>2, <1>3, FS_Subset
<1> QED
  BY <1>1, <1>4, FS_CardinalityType DEF Rank

\* The ranks of the members of a finite set are the numbers up to its size.
LEMMA RankIsBijective ==
    ASSUME NEW S, IsFiniteSet(S), NEW R, StrictOrder(S, R)
    PROVE  /\ Cardinality(S) \in Nat
           /\ \A k \in S : Rank(S, R, k) \in 0 .. Cardinality(S) - 1
           /\ \A j, k \in S : Rank(S, R, j) = Rank(S, R, k) => j = k
           /\ \A n \in 0 .. Cardinality(S) - 1 : \E k \in S : Rank(S, R, k) = n
<1> DEFINE N == Cardinality(S)
           f == [k \in S |-> Rank(S, R, k)]
<1>1. N \in Nat
  BY FS_CardinalityType
<1>2. ASSUME NEW k \in S PROVE Rank(S, R, k) \in 0 .. N - 1
  <2>1. Earlier(S, R, k) \in SUBSET S /\ k \notin Earlier(S, R, k)
    BY DEF Earlier, StrictOrder
  <2>2. IsFiniteSet(Earlier(S, R, k)) /\ Cardinality(Earlier(S, R, k)) <= N
          /\ Cardinality(Earlier(S, R, k)) # N
    BY <2>1, FS_Subset
  <2>3. Cardinality(Earlier(S, R, k)) \in Nat
    BY <2>2, FS_CardinalityType
  <2> QED
    BY <1>1, <2>2, <2>3 DEF Rank
<1>3. ASSUME NEW j \in S, NEW k \in S, Rank(S, R, j) = Rank(S, R, k) PROVE j = k
  <2>1. CASE <<j, k>> \in R
    BY <2>1, <1>1, <1>2, <1>3, RankGrows
  <2>2. CASE <<k, j>> \in R
    BY <2>2, <1>1, <1>2, <1>3, RankGrows
  <2> QED
    BY <2>1, <2>2 DEF StrictOrder
<1>4. f \in Injection(S, 0 .. N - 1)
  BY <1>2, <1>3 DEF Injection, IsInjective
<1>5. IsFiniteSet(0 .. N - 1) /\ Cardinality(0 .. N - 1) = N
  BY <1>1, FS_Interval, SMTT(60)
<1>6. f \in Surjection(S, 0 .. N - 1)
  BY <1>4, <1>5, FS_Injection
<1>7. \A n \in 0 .. N - 1 : \E k \in S : f[k] = n
  BY <1>6 DEF Surjection
<1> QED
  BY <1>1, <1>2, <1>3, <1>7

\* Sorted by rank, every member is at exactly one place, and the places go up with R.
IsRanking(S, R, s) ==
    /\ DOMAIN s = 1 .. Cardinality(S)
    /\ \A n \in DOMAIN s : s[n] \in S /\ Rank(S, R, s[n]) = n - 1
Ascends(S, R, s) ==
    /\ \A k \in S : \E n \in DOMAIN s : s[n] = k
    /\ \A m, n \in DOMAIN s : m < n => <<s[m], s[n]>> \in R
LEMMA RankedInOrder ==
    ASSUME NEW S, IsFiniteSet(S), NEW R, StrictOrder(S, R), NEW s, IsRanking(S, R, s)
    PROVE  Ascends(S, R, s)
<1> DEFINE N == Cardinality(S)
<1>1. N \in Nat
  BY RankIsBijective
<1>0. DOMAIN s = 1 .. N /\ \A n \in 1 .. N : s[n] \in S /\ Rank(S, R, s[n]) = n - 1
  BY DEF IsRanking
<1>2. ASSUME NEW k \in S PROVE \E n \in 1 .. N : s[n] = k
  <2>1. Rank(S, R, k) + 1 \in 1 .. N /\ Rank(S, R, k) \in Nat
    BY <1>1, RankIsBijective
  <2>2. Rank(S, R, s[Rank(S, R, k) + 1]) = Rank(S, R, k)
    BY <1>0, <1>1, <2>1
  <2> QED
    BY <1>0, <2>1, <2>2, RankIsBijective
<1>3. ASSUME NEW m \in 1 .. N, NEW n \in 1 .. N, m < n PROVE <<s[m], s[n]>> \in R
  <2>1. Rank(S, R, s[m]) = m - 1 /\ Rank(S, R, s[n]) = n - 1 /\ s[m] \in S /\ s[n] \in S
    BY <1>0
  <2>2. ~(<<s[n], s[m]>> \in R)
    BY <2>1, <1>3, RankGrows
  <2>3. s[m] # s[n]
    BY <2>1, <1>3
  <2> QED
    BY <2>1, <2>2, <2>3 DEF StrictOrder
<1> QED
  BY <1>0, <1>2, <1>3 DEF Ascends

LEMMA LeastExists ==
    ASSUME NEW S, IsFiniteSet(S), S # {}, NEW R, StrictOrder(S, R)
    PROVE  \E x \in S : \A y \in S : y = x \/ <<x, y>> \in R
<1>1. Cardinality(S) \in Nat \ {0}
  BY FS_CardinalityType, FS_EmptySet
<1>2. PICK x \in S : Rank(S, R, x) = 0
  BY <1>1, RankIsBijective
<1>3. IsFiniteSet(Earlier(S, R, x))
  BY FS_Subset DEF Earlier
<1>4. Earlier(S, R, x) = {}
  BY <1>2, <1>3, FS_EmptySet DEF Rank
<1> QED
  BY <1>4 DEF Earlier, StrictOrder

LEMMA GreatestExists ==
    ASSUME NEW S, IsFiniteSet(S), S # {}, NEW R, StrictOrder(S, R)
    PROVE  \E x \in S : \A y \in S : y = x \/ <<y, x>> \in R
<1> DEFINE Q == {p \in S \X S : <<p[2], p[1]>> \in R}
<1>1. \A a, b \in S : <<a, b>> \in Q <=> <<b, a>> \in R
  OBVIOUS
<1> HIDE DEF Q
<1>2. StrictOrder(S, Q)
  BY <1>1 DEF StrictOrder
<1> QED
  BY <1>1, <1>2, LeastExists

-----------------------------------------------------------------------------
(***************************************************************************)
(* Before, the order of sort keys.                                         *)
(***************************************************************************)
\* A finite set of numbers that is not empty has a least one.
LEMMA LeastNumber ==
    ASSUME NEW D \in SUBSET Int, IsFiniteSet(D), D # {}
    PROVE  \E i \in D : \A j \in D : i <= j
<1> DEFINE R == {p \in D \X D : p[1] < p[2]}
<1>1. \A i, j \in D : <<i, j>> \in R <=> i < j
  OBVIOUS
<1> HIDE DEF R
<1>2. StrictOrder(D, R)
  BY <1>1 DEF StrictOrder
<1>3. PICK i \in D : \A j \in D : j = i \/ <<i, j>> \in R
  BY <1>2, LeastExists
<1>4. \A j \in D : j \in Int
  OBVIOUS
<1>5. ASSUME NEW j \in D PROVE i <= j
  <2>1. j = i \/ <<i, j>> \in R
    BY <1>3, Zenon
  <2>2. <<i, j>> \in R => i < j
    BY <1>1, Zenon
  <2>3. i \in Int /\ j \in Int
    BY <1>4
  <2> QED
    BY <2>1, <2>2, <2>3
<1> QED
  BY <1>5

LEMMA BeforeIsTotal ==
    ASSUME NEW a \in Seq(Int), NEW b \in Seq(Int), Len(a) = Len(b), a # b
    PROVE  Before(a, b) \/ Before(b, a)
<1> DEFINE D == {i \in 1 .. Len(a) : a[i] # b[i]}
<1>1. Len(a) \in Nat /\ IsFiniteSet(1 .. Len(a))
  BY FS_Interval
<1>2. a = [i \in 1 .. Len(a) |-> a[i]] /\ b = [i \in 1 .. Len(b) |-> b[i]]
  OBVIOUS
<1>3. IsFiniteSet(D) /\ D # {} /\ D \in SUBSET Int
  BY <1>1, <1>2, FS_Subset
<1>4. PICK i \in D : \A j \in D : i <= j
  BY <1>3, LeastNumber
<1>5. a[i] \in Int /\ b[i] \in Int /\ a[i] # b[i] /\ i \in 1 .. Len(a) /\ i \in 1 .. Len(b)
  OBVIOUS
<1>6. \A j \in 1 .. i - 1 : a[j] = b[j]
  BY <1>1, <1>4
<1>7. CASE a[i] < b[i]
  <2>1. Before(a, b)
    BY <1>5, <1>6, <1>7 DEF Before
  <2> QED
    BY <2>1
<1>8. CASE b[i] < a[i]
  <2>1. \A j \in 1 .. i - 1 : b[j] = a[j]
    BY <1>6
  <2>2. Before(b, a)
    BY <1>5, <1>8, <2>1 DEF Before
  <2> QED
    BY <2>2
<1> QED
  BY <1>5, <1>7, <1>8

LEMMA BeforeIsOrder ==
    ASSUME NEW a \in Seq(Int), NEW b \in Seq(Int), NEW c \in Seq(Int), Len(a) = Len(b), Len(b) = Len(c)
    PROVE  /\ ~Before(a, a)
           /\ Before(a, b) /\ Before(b, c) => Before(a, c)
<1>1. Len(a) \in Nat
  OBVIOUS
<1>2. ~Before(a, a)
  BY DEF Before
<1>3. ASSUME Before(a, b), Before(b, c) PROVE Before(a, c)
  <2>1. PICK i \in 1 .. Len(a) : a[i] < b[i] /\ \A k \in 1 .. i - 1 : a[k] = b[k]
    BY <1>3 DEF Before
  <2>2. PICK j \in 1 .. Len(a) : b[j] < c[j] /\ \A k \in 1 .. j - 1 : b[k] = c[k]
    BY <1>3 DEF Before
  <2> DEFINE m == IF i < j THEN i ELSE j
  <2>3. m \in 1 .. Len(a) /\ a[m] \in Int /\ b[m] \in Int /\ c[m] \in Int
    BY <1>1, SMTT(60)
  <2>4. \A k \in 1 .. m - 1 : k \in 1 .. i - 1 /\ k \in 1 .. j - 1
    <3>1. i \in Int /\ j \in Int /\ m \in Int /\ m <= i /\ m <= j
      BY <1>1
    <3> HIDE DEF m
    <3> QED
      BY <3>1
  <2>5. a[m] < c[m]
    <3>1. CASE i < j
      BY <3>1, <2>1, <2>2, <2>3
    <3>2. CASE j < i
      BY <3>2, <2>1, <2>2, <2>3, SMTT(60)
    <3>3. CASE i = j
      BY <3>3, <2>1, <2>2, <2>3
    <3> QED
      BY <1>1, <3>1, <3>2, <3>3
  <2>6. \A k \in 1 .. m - 1 : a[k] = c[k]
    BY <2>1, <2>2, <2>4
  <2> HIDE DEF m
  <2> QED
    BY <2>3, <2>5, <2>6 DEF Before
<1> QED
  BY <1>2, <1>3

\* Keys of one length that tell the members of a set apart order it.
ByKey(S, k) == {p \in S \X S : Before(k[p[1]], k[p[2]])}
LEMMA KeysOrder ==
    ASSUME NEW S, NEW k, NEW n,
           \A x \in S : k[x] \in Seq(Int) /\ Len(k[x]) = n,
           \A x, y \in S : k[x] = k[y] => x = y
    PROVE  StrictOrder(S, ByKey(S, k))
<1>1. \A x, y \in S : <<x, y>> \in ByKey(S, k) <=> Before(k[x], k[y])
  BY DEF ByKey
<1>2. \A x \in S : ~Before(k[x], k[x])
  BY BeforeIsOrder
<1>3. \A x, y, z \in S : Before(k[x], k[y]) /\ Before(k[y], k[z]) => Before(k[x], k[z])
  BY BeforeIsOrder
<1>4. \A x, y \in S : x = y \/ Before(k[x], k[y]) \/ Before(k[y], k[x])
  BY BeforeIsTotal
<1> QED
  BY <1>1, <1>2, <1>3, <1>4 DEF StrictOrder

\* A finite set whose members are told apart by such keys has a first.
LEMMA FirstByKey ==
    ASSUME NEW S, IsFiniteSet(S), S # {}, NEW k, NEW n,
           \A x \in S : k[x] \in Seq(Int) /\ Len(k[x]) = n,
           \A x, y \in S : k[x] = k[y] => x = y
    PROVE  \E x \in S : \A y \in S : y = x \/ Before(k[x], k[y])
<1>1. StrictOrder(S, ByKey(S, k))
  BY KeysOrder
<1>2. PICK x \in S : \A y \in S : y = x \/ <<x, y>> \in ByKey(S, k)
  BY <1>1, LeastExists
<1>3. \A y \in S : y = x \/ Before(k[x], k[y])
  BY <1>2 DEF ByKey
<1> QED
  BY <1>3

-----------------------------------------------------------------------------
(***************************************************************************)
(* The nester.  Its loop over the sorted instances is a recursion over the *)
(* sets of instances taken so far.                                         *)
(***************************************************************************)
SheetParts(parts) ==
    /\ IsFiniteSet(parts) /\ \A p \in parts : IsPart(p)
    /\ \A p, q \in parts : p.id = q.id => p = q

LEMMA FiniteImage ==
    ASSUME NEW S, IsFiniteSet(S), NEW f
    PROVE  IsFiniteSet({f[x] : x \in S})
<1> DEFINE g == [x \in S |-> f[x]]
<1>1. g \in Surjection(S, {f[x] : x \in S})
  BY DEF Surjection
<1> QED
  BY <1>1, FS_Surjection

LEMMA InstancesOfParts ==
    ASSUME NEW parts, SheetParts(parts)
    PROVE  /\ IsFiniteSet(Instances(parts))
           /\ \A i \in Instances(parts) :
                /\ i = [part |-> i.part, n |-> i.n]
                /\ i.part \in parts /\ i.n \in 1 .. i.part.quantity /\ i.n \in Int
           /\ \A p \in parts : \A n \in 1 .. p.quantity : [part |-> p, n |-> n] \in Instances(parts)
<1> DEFINE Of(p) == {[part |-> p, n |-> n] : n \in 1 .. p.quantity}
           of == [p \in parts |-> Of(p)]
<1>1. \A p \in parts : p.quantity \in Nat
  BY DEF SheetParts, IsPart
<1>2. ASSUME NEW p \in parts PROVE IsFiniteSet(Of(p))
  <2> DEFINE f == [n \in 1 .. p.quantity |-> [part |-> p, n |-> n]]
  <2>1. IsFiniteSet(1 .. p.quantity)
    BY <1>1, FS_Interval
  <2>2. IsFiniteSet({f[n] : n \in 1 .. p.quantity})
    BY <2>1, FiniteImage
  <2>3. {f[n] : n \in 1 .. p.quantity} = Of(p)
    OBVIOUS
  <2> QED
    BY <2>2, <2>3
<1>3. Instances(parts) = UNION {of[p] : p \in parts}
  BY DEF Instances
<1>4. IsFiniteSet({of[p] : p \in parts})
  <2> HIDE DEF of
  <2> QED
    BY FiniteImage DEF SheetParts
<1>5. IsFiniteSet(Instances(parts))
  <2> HIDE DEF Of
  <2> QED
    BY <1>2, <1>3, <1>4, FS_UNION
<1>6. ASSUME NEW i \in Instances(parts)
      PROVE  /\ i = [part |-> i.part, n |-> i.n]
             /\ i.part \in parts /\ i.n \in 1 .. i.part.quantity /\ i.n \in Int
  <2>1. PICK p \in parts : \E n \in 1 .. p.quantity : i = [part |-> p, n |-> n]
    BY <1>6 DEF Instances
  <2> QED
    BY <2>1, <1>1
<1>7. \A p \in parts : \A n \in 1 .. p.quantity : [part |-> p, n |-> n] \in Instances(parts)
  BY DEF Instances
<1> QED
  BY <1>5, <1>6, <1>7

LEMMA LastIsTaken ==
    ASSUME NEW parts, SheetParts(parts), NEW taken \in SUBSET Instances(parts), taken # {}
    PROVE  LastOf(taken) \in taken
<1> DEFINE k == [i \in taken |-> NestingKey(i)]
<1>1. IsFiniteSet(taken)
  BY InstancesOfParts, FS_Subset
<1>2. ASSUME NEW i \in taken PROVE k[i] \in Seq(Int) /\ Len(k[i]) = 5 /\ k[i][4] = i.part.id /\ k[i][5] = i.n
  <2>1. i.part \in parts /\ i.n \in Int
    BY InstancesOfParts
  <2>2. i.part.w \in Int /\ i.part.l \in Int /\ i.part.id \in Int
    BY <2>1 DEF SheetParts, IsPart
  <2>3. /\ -(i.part.w * i.part.l) \in Int /\ - Larger(i.part.w, i.part.l) \in Int
        /\ - Smaller(i.part.w, i.part.l) \in Int
    BY <2>2 DEF Larger, Smaller
  <2>4. k[i] = NestingKey(i)
    OBVIOUS
  <2> QED
    BY <2>1, <2>2, <2>3, <2>4 DEF NestingKey
<1>3. ASSUME NEW i \in taken, NEW j \in taken, k[i] = k[j] PROVE i = j
  <2>1. i.part.id = j.part.id /\ i.n = j.n
    BY <1>2, <1>3
  <2>2. i.part = j.part
    BY <2>1, InstancesOfParts DEF SheetParts
  <2> QED
    BY <2>1, <2>2, InstancesOfParts
<1>4. StrictOrder(taken, ByKey(taken, k))
  <2> HIDE DEF k
  <2> QED
    BY <1>2, <1>3, KeysOrder
<1>5. PICK x \in taken : \A y \in taken : y = x \/ <<y, x>> \in ByKey(taken, k)
  <2> HIDE DEF k
  <2> QED
    BY <1>1, <1>4, GreatestExists
<1>6. \A y \in taken : y = x \/ Before(NestingKey(y), NestingKey(x))
  BY <1>5 DEF ByKey
<1> QED
  BY <1>6 DEF LastOf

\* g is the layout of every set of instances taken from T.
NoLayout == [placed |-> {}, unplaced |-> {}]
Nests(stock, T, g) ==
    g = [taken \in SUBSET T |->
            IF taken = {} THEN NoLayout
            ELSE Extended(g[taken \ {LastOf(taken)}], LastOf(taken), stock)]

LEMMA NestIsItsRecursion ==
    ASSUME NEW parts, NEW stock
    PROVE  nest(parts, stock) = (CHOOSE g : Nests(stock, Instances(parts), g))[Instances(parts)]
BY DEF nest, Nests, NoLayout

LEMMA NestsAt ==
    ASSUME NEW stock, NEW T, NEW g, Nests(stock, T, g)
    PROVE  /\ g[{}] = NoLayout
           /\ \A taken \in SUBSET T : taken # {} =>
                g[taken] = Extended(g[taken \ {LastOf(taken)}], LastOf(taken), stock)
<1>1. \A taken \in SUBSET T :
        g[taken] = IF taken = {} THEN NoLayout
                   ELSE Extended(g[taken \ {LastOf(taken)}], LastOf(taken), stock)
  BY DEF Nests
<1>2. {} \in SUBSET T
  OBVIOUS
<1> QED
  BY <1>1, <1>2

LEMMA NestsAgree ==
    ASSUME NEW parts, SheetParts(parts), NEW stock, NEW T \in SUBSET Instances(parts),
           NEW S \in SUBSET T, NEW g, NEW h, Nests(stock, S, g), Nests(stock, T, h)
    PROVE  \A taken \in SUBSET S : g[taken] = h[taken]
<1> DEFINE B == {s \in SUBSET S : g[s] # h[s]}
<1> SUFFICES ASSUME B # {} PROVE FALSE
  OBVIOUS
<1>0. B \subseteq SUBSET S /\ IsFiniteSet(S)
  BY InstancesOfParts, FS_Subset
<1>1. PICK m \in B : \A u \in B : u \subseteq m => u = m
  <2> HIDE DEF B
  <2> QED
    BY <1>0, MinimalSubset
<1>2. m # {}
  BY NestsAt
<1>3. LastOf(m) \in m
  BY <1>2, LastIsTaken
<1>4. m \ {LastOf(m)} \in SUBSET S /\ m \ {LastOf(m)} \notin B
  BY <1>1, <1>3
<1>5. g[m \ {LastOf(m)}] = h[m \ {LastOf(m)}]
  BY <1>4
<1>6. /\ g[m] = Extended(g[m \ {LastOf(m)}], LastOf(m), stock)
      /\ h[m] = Extended(h[m \ {LastOf(m)}], LastOf(m), stock)
  BY <1>2, NestsAt
<1> QED
  BY <1>5, <1>6

LEMMA NestsExist ==
    ASSUME NEW parts, SheetParts(parts), NEW stock
    PROVE  \E g : Nests(stock, Instances(parts), g)
<1> DEFINE T == Instances(parts)
           B == {s \in SUBSET T : ~\E g : Nests(stock, s, g)}
           Of(u) == CHOOSE g : Nests(stock, u, g)
<1> SUFFICES ASSUME B # {} PROVE FALSE
  OBVIOUS
<1>0. B \subseteq SUBSET T /\ IsFiniteSet(T)
  BY InstancesOfParts
<1>1. PICK m \in B : \A u \in B : u \subseteq m => u = m
  <2> HIDE DEF B
  <2> QED
    BY <1>0, MinimalSubset
<1>2. \A u \in SUBSET m : u # m => Nests(stock, u, Of(u)) /\ u \in SUBSET T
  BY <1>1
<1> DEFINE Rest(s) == s \ {LastOf(s)}
           g == [s \in SUBSET m |->
                   IF s = {} THEN NoLayout
                   ELSE Extended(Of(Rest(s))[Rest(s)], LastOf(s), stock)]
<1>3. ASSUME NEW s \in SUBSET m, s # {}
      PROVE  Rest(s) \in SUBSET s /\ Rest(s) # s /\ Rest(s) \in SUBSET m /\ Rest(s) # m
  BY <1>3, LastIsTaken
<1> HIDE DEF Of, Rest
<1>4. ASSUME NEW u \in SUBSET m, u # m
      PROVE  g[u] = Of(u)[u]
  <2>1. CASE u = {}
    BY <1>2, <1>4, <2>1, NestsAt
  <2>2. CASE u # {}
    <3> DEFINE v == Rest(u)
    <3>1. v \in SUBSET u /\ v # u /\ v \in SUBSET m /\ v # m
      BY <1>3, <1>4, <2>2
    <3>2. Nests(stock, u, Of(u)) /\ Nests(stock, v, Of(v)) /\ u \in SUBSET T
      BY <1>2, <1>4, <3>1
    <3>3. Of(v)[v] = Of(u)[v]
      BY <3>1, <3>2, NestsAgree
    <3>4. Of(u)[u] = Extended(Of(u)[v], LastOf(u), stock)
      BY <2>2, <3>2, NestsAt DEF Rest
    <3>5. g[u] = Extended(Of(v)[v], LastOf(u), stock)
      BY <2>2
    <3> QED
      BY <3>3, <3>4, <3>5
  <2> QED
    BY <2>1, <2>2
<1>5. g = [s \in SUBSET m |-> IF s = {} THEN NoLayout
                              ELSE Extended(g[Rest(s)], LastOf(s), stock)]
  <2> DEFINE body(s) == Extended(Of(Rest(s))[Rest(s)], LastOf(s), stock)
  <2>1. \A s \in SUBSET m : s # {} => body(s) = Extended(g[Rest(s)], LastOf(s), stock)
    BY <1>3, <1>4
  <2>2. g = [s \in SUBSET m |-> IF s = {} THEN NoLayout ELSE body(s)]
    OBVIOUS
  <2> HIDE DEF body, g
  <2> QED
    BY <2>1, <2>2
<1>6. Nests(stock, m, g)
  BY <1>5 DEF Nests, Rest
<1> QED
  BY <1>1, <1>6

-----------------------------------------------------------------------------
\* The corners a part may be put at are finitely many, at whole micrometres.
LEMMA OriginsOnSheet ==
    ASSUME NEW stock, IsStock(stock), NEW occupied, IsFiniteSet(occupied),
           \A q \in occupied : IsRect(q.rect)
    PROVE  /\ IsFiniteSet(CandidateOrigins(stock, occupied))
           /\ \A xy \in CandidateOrigins(stock, occupied) : xy[1] \in Int /\ xy[2] \in Int
<1> DEFINE rects == {p.rect : p \in occupied}
           obstacles == rects \cup stock.defects \cup stock.clamps
           usable == UsableRect(stock)
           right == [o \in obstacles |-> Right(o) + stock.kerf]
           top == [o \in obstacles |-> Top(o) + stock.kerf]
           xs == {usable.x} \cup {right[o] : o \in obstacles}
           ys == {usable.y} \cup {top[o] : o \in obstacles}
<1>1. IsFiniteSet(rects)
  <2> DEFINE f == [p \in occupied |-> p.rect]
  <2>1. IsFiniteSet({f[p] : p \in occupied})
    <3> HIDE DEF f
    <3> QED
      BY FiniteImage
  <2>2. {f[p] : p \in occupied} = rects
    OBVIOUS
  <2> QED
    BY <2>1, <2>2
<1>2. IsFiniteSet(obstacles)
  <2> HIDE DEF rects
  <2>1. IsFiniteSet(rects \cup stock.defects)
    BY <1>1, FS_Union DEF IsStock
  <2> QED
    BY <2>1, FS_Union DEF IsStock
<1>3. \A o \in obstacles : {o.x, o.y, o.w, o.l} \subseteq Int
  BY DEF IsStock, IsRect
<1>4. usable.x \in Int /\ usable.y \in Int /\ stock.kerf \in Int
  BY DEF IsStock, UsableRect, Rect
<1>5. \A o \in obstacles : right[o] \in Int /\ top[o] \in Int
  BY <1>3, <1>4 DEF Right, Top
<1>6. IsFiniteSet(xs) /\ IsFiniteSet(ys)
  <2> HIDE DEF obstacles, right, top, usable
  <2>1. IsFiniteSet({right[o] : o \in obstacles}) /\ IsFiniteSet({top[o] : o \in obstacles})
    BY <1>2, FiniteImage
  <2>2. IsFiniteSet({usable.x}) /\ IsFiniteSet({usable.y})
    BY FS_Singleton
  <2> QED
    BY <2>1, <2>2, FS_Union
<1>7. IsFiniteSet(xs \X ys)
  <2> HIDE DEF xs, ys
  <2> QED
    BY <1>6, FS_Product
<1>8. CandidateOrigins(stock, occupied) =
        {o \in xs \X ys : o[1] < Right(usable) /\ o[2] < Top(usable)}
  BY DEF CandidateOrigins
<1>9. \A xy \in xs \X ys : xy[1] \in Int /\ xy[2] \in Int
  <2> HIDE DEF obstacles, right, top, usable
  <2> QED
    BY <1>4, <1>5
<1>10. IsFiniteSet(CandidateOrigins(stock, occupied))
  <2> HIDE DEF xs, ys
  <2> QED
    BY <1>7, <1>8, FS_Subset
<1> HIDE DEF xs, ys
<1> QED
  BY <1>8, <1>9, <1>10

LEMMA OrientationsOfPart ==
    ASSUME NEW part, NEW stock
    PROVE  /\ IsFiniteSet(Orientations(part, stock))
           /\ \A o \in Orientations(part, stock) :
                /\ o.rotated \in BOOLEAN /\ grain_allows(part, stock, o.rotated)
                /\ o.w = IF o.rotated THEN part.l ELSE part.w
                /\ o.l = IF o.rotated THEN part.w ELSE part.l
           /\ \A o, u \in Orientations(part, stock) : o.rotated = u.rotated => o = u
<1> DEFINE upright == [rotated |-> FALSE, w |-> part.w, l |-> part.l]
           turned == [rotated |-> TRUE, w |-> part.l, l |-> part.w]
<1>1. IsFiniteSet({upright} \cup {turned})
  BY FS_Singleton, FS_Union
<1>2. Orientations(part, stock) \in SUBSET ({upright} \cup {turned})
  BY DEF Orientations
<1>3. IsFiniteSet(Orientations(part, stock))
  BY <1>1, <1>2, FS_Subset
<1>4. \A o \in Orientations(part, stock) :
         /\ o.rotated \in BOOLEAN /\ grain_allows(part, stock, o.rotated)
         /\ o.w = IF o.rotated THEN part.l ELSE part.w
         /\ o.l = IF o.rotated THEN part.w ELSE part.l
  <2>1. \A o \in Orientations(part, stock) : grain_allows(part, stock, o.rotated)
    BY DEF Orientations
  <2>2. \A o \in {upright} \cup {turned} :
         /\ o.rotated \in BOOLEAN
         /\ o.w = IF o.rotated THEN part.l ELSE part.w
         /\ o.l = IF o.rotated THEN part.w ELSE part.l
    <3>1. /\ upright.rotated = FALSE /\ upright.w = part.w /\ upright.l = part.l
          /\ turned.rotated = TRUE /\ turned.w = part.l /\ turned.l = part.w
      OBVIOUS
    <3> HIDE DEF upright, turned
    <3> QED
      BY <3>1, Zenon
  <2> HIDE DEF upright, turned
  <2> QED
    BY <1>2, <2>1, <2>2
<1>5. \A o, u \in Orientations(part, stock) : o.rotated = u.rotated => o = u
  BY <1>2
<1> QED
  BY <1>3, <1>4, <1>5

On(placed, sheet) == {p \in placed : p.sheet = sheet}
At(i, stock, sheet, o, xy) ==
    [part |-> i.part.id, n |-> i.n, stock |-> stock.id, sheet |-> sheet,
     rotated |-> o.rotated, rect |-> Rect(xy[1], xy[2], o.w, o.l)]
PlacementOf(i, stock, p) ==
    \E sheet \in 0 .. stock.quantity - 1, o \in Orientations(i.part, stock) :
        \E x, y \in Int : p = At(i, stock, sheet, o, <<x, y>>)

\* What is among the placements of an instance.
LEMMA PlacementsOf ==
    ASSUME NEW i, NEW stock, IsStock(stock), NEW placed, IsFiniteSet(placed),
           \A q \in placed : IsRect(q.rect)
    PROVE  /\ IsFiniteSet(Placements(i, placed, stock))
           /\ \A p \in Placements(i, placed, stock) :
                /\ compatible(i.part, stock)
                /\ Fits(p.rect, On(placed, p.sheet), stock)
                /\ PlacementOf(i, stock, p)
<1> DEFINE Os == Orientations(i.part, stock)
           Origins(sheet) == CandidateOrigins(stock, On(placed, sheet))
           Here(sheet) == {At(i, stock, sheet, o, xy) : o \in Os, xy \in Origins(sheet)}
           here == [sheet \in 0 .. stock.quantity - 1 |-> Here(sheet)]
           sheets == 0 .. stock.quantity - 1
<1>1. IsFiniteSet(sheets)
  <2>1. stock.quantity - 1 \in Int
    BY DEF IsStock
  <2> QED
    BY <2>1, FS_Interval
<1>2. ASSUME NEW sheet \in sheets PROVE /\ IsFiniteSet(Origins(sheet))
                                        /\ \A xy \in Origins(sheet) : xy[1] \in Int /\ xy[2] \in Int
  <2>1. IsFiniteSet(On(placed, sheet)) /\ \A q \in On(placed, sheet) : IsRect(q.rect)
    BY FS_Subset DEF On
  <2> QED
    BY <2>1, OriginsOnSheet
<1>3. ASSUME NEW sheet \in sheets PROVE IsFiniteSet(Here(sheet))
  <2> DEFINE f == [t \in Os \X Origins(sheet) |-> At(i, stock, sheet, t[1], t[2])]
  <2>1. IsFiniteSet(Os \X Origins(sheet))
    BY <1>2, OrientationsOfPart, FS_Product
  <2>2. IsFiniteSet({f[t] : t \in Os \X Origins(sheet)})
    <3> HIDE DEF f, Os, Origins
    <3> QED
      BY <2>1, FiniteImage
  <2>3. {f[t] : t \in Os \X Origins(sheet)} = Here(sheet)
    <3> HIDE DEF Os, Origins
    <3>1. \A o \in Os, xy \in Origins(sheet) :
            <<o, xy>> \in Os \X Origins(sheet) /\ f[<<o, xy>>] = At(i, stock, sheet, o, xy)
      OBVIOUS
    <3>2. \A t \in Os \X Origins(sheet) :
            /\ t[1] \in Os /\ t[2] \in Origins(sheet)
            /\ f[t] = At(i, stock, sheet, t[1], t[2])
      OBVIOUS
    <3> HIDE DEF f
    <3>3. \A z : z \in Here(sheet) <=> \E o \in Os, xy \in Origins(sheet) : z = At(i, stock, sheet, o, xy)
      OBVIOUS
    <3> HIDE DEF Here
    <3>4. ASSUME NEW z \in Here(sheet) PROVE z \in {f[t] : t \in Os \X Origins(sheet)}
      <4>1. PICK o \in Os, xy \in Origins(sheet) : z = At(i, stock, sheet, o, xy)
        BY <3>3, <3>4
      <4>2. z = f[<<o, xy>>] /\ <<o, xy>> \in Os \X Origins(sheet)
        BY <3>1, <4>1
      <4> QED
        BY <4>2
    <3>5. \A z : z \in {f[t] : t \in Os \X Origins(sheet)} => z \in Here(sheet)
      BY <3>2, <3>3
    <3> QED
      BY <3>4, <3>5
  <2> QED
    BY <2>2, <2>3
<1>4. IsFiniteSet(UNION {here[sheet] : sheet \in sheets})
  <2>1. IsFiniteSet({here[sheet] : sheet \in sheets})
    <3> HIDE DEF here, sheets
    <3> QED
      BY <1>1, FiniteImage
  <2>2. \A sheet \in sheets : IsFiniteSet(here[sheet])
    <3> HIDE DEF Here
    <3> QED
      BY <1>3
  <2> HIDE DEF here, sheets
  <2> QED
    BY <2>1, <2>2, FS_UNION
<1>5. Placements(i, placed, stock) =
        IF ~compatible(i.part, stock) THEN {}
        ELSE {p \in UNION {Here(sheet) : sheet \in sheets} : Fits(p.rect, On(placed, p.sheet), stock)}
  BY DEF Placements, On, At
<1>6. UNION {Here(sheet) : sheet \in sheets} = UNION {here[sheet] : sheet \in sheets}
  <2> HIDE DEF Here
  <2> QED
    OBVIOUS
<1>7. IsFiniteSet(Placements(i, placed, stock))
  <2> HIDE DEF Here, here, sheets
  <2> QED
    BY <1>4, <1>5, <1>6, FS_Subset, FS_EmptySet
<1>8. ASSUME NEW p \in Placements(i, placed, stock)
      PROVE  /\ compatible(i.part, stock)
             /\ Fits(p.rect, On(placed, p.sheet), stock)
             /\ PlacementOf(i, stock, p)
  <2>1. compatible(i.part, stock) /\ Fits(p.rect, On(placed, p.sheet), stock)
    BY <1>5, <1>8
  <2>2. PICK sheet \in sheets : p \in Here(sheet)
    <3> HIDE DEF Here, sheets
    <3> QED
      BY <1>5, <1>8
  <2>3. PICK o \in Os, xy \in Origins(sheet) : p = At(i, stock, sheet, o, xy)
    BY <2>2
  <2>4. xy[1] \in Int /\ xy[2] \in Int
    BY <1>2
  <2>5. p = At(i, stock, sheet, o, <<xy[1], xy[2]>>)
    BY <2>3 DEF At
  <2> QED
    BY <2>1, <2>4, <2>5 DEF PlacementOf
<1> QED
  BY <1>7, <1>8

\* A placement has the place, the turn and the size of one of them.
LEMMA PlacementFields ==
    ASSUME NEW i, IsPart(i.part), NEW stock, IsStock(stock),
           NEW sheet \in 0 .. stock.quantity - 1, NEW o \in Orientations(i.part, stock),
           NEW x \in Int, NEW y \in Int, NEW p,
           p = At(i, stock, sheet, o, <<x, y>>)
    PROVE  /\ p.part = i.part.id /\ p.n = i.n /\ p.stock = stock.id /\ p.sheet = sheet
           /\ p.sheet \in Int /\ p.rotated = o.rotated /\ p.rotated \in BOOLEAN
           /\ p.rect = Rect(x, y, o.w, o.l) /\ p.rect.x = x /\ p.rect.y = y
           /\ p.rect.w = o.w /\ p.rect.l = o.l /\ IsRect(p.rect)
<1>1. o.w \in Int /\ o.l \in Int
  <2>1. i.part.w \in Int /\ i.part.l \in Int
    BY DEF IsPart
  <2>2. (o.w = i.part.w \/ o.w = i.part.l) /\ (o.l = i.part.w \/ o.l = i.part.l)
    BY OrientationsOfPart, Zenon
  <2> QED
    BY <2>1, <2>2
<1>2. /\ p.part = i.part.id /\ p.n = i.n /\ p.stock = stock.id /\ p.sheet = sheet
      /\ p.rotated = o.rotated /\ p.rect = Rect(x, y, o.w, o.l)
  BY DEF At
<1>3. /\ p.rect.x = x /\ p.rect.y = y /\ p.rect.w = o.w /\ p.rect.l = o.l
  BY <1>2 DEF Rect
<1>4. IsRect(p.rect)
  <2>1. p.rect = Rect(p.rect.x, p.rect.y, p.rect.w, p.rect.l)
    BY <1>2, <1>3
  <2> QED
    BY <1>1, <1>3, <2>1 DEF IsRect
<1>5. o.rotated \in BOOLEAN
  BY OrientationsOfPart
<1>6. sheet \in Int
  BY DEF IsStock
<1> QED
  BY <1>2, <1>3, <1>4, <1>5, <1>6

\* An instance that can be placed is placed.
LEMMA BestPlacement ==
    ASSUME NEW parts, SheetParts(parts), NEW i \in Instances(parts), NEW stock, IsStock(stock),
           NEW placed, IsFiniteSet(placed), \A q \in placed : IsRect(q.rect),
           Placements(i, placed, stock) # {}
    PROVE  Least(Placements(i, placed, stock), Score) \in Placements(i, placed, stock)
<1> DEFINE C == Placements(i, placed, stock)
           k == [p \in C |-> Score(p)]
           Turn(p) == IF p.rotated THEN 1 ELSE 0
<1>1. IsFiniteSet(C)
  BY PlacementsOf
<1>2. IsPart(i.part)
  BY InstancesOfParts DEF SheetParts
<1>3. ASSUME NEW p \in C PROVE PlacementOf(i, stock, p)
  BY <1>3, PlacementsOf
<1>4. ASSUME NEW p \in C
      PROVE  /\ k[p] \in Seq(Int) /\ Len(k[p]) = 5
             /\ k[p][1] = p.sheet /\ k[p][2] = p.rect.y /\ k[p][3] = p.rect.x
             /\ k[p][5] = Turn(p)
  <2>1. PICK sheet \in 0 .. stock.quantity - 1, o \in Orientations(i.part, stock) :
            \E x, y \in Int : p = At(i, stock, sheet, o, <<x, y>>)
    BY <1>3 DEF PlacementOf
  <2>2. p.sheet \in Int /\ IsRect(p.rect)
    BY <1>2, <2>1, PlacementFields
  <2>3. p.rect.y \in Int /\ p.rect.x \in Int /\ Top(p.rect) \in Int
    BY <2>2 DEF IsRect, Top
  <2>4. Turn(p) \in Int
    OBVIOUS
  <2>5. k[p] = <<p.sheet, p.rect.y, p.rect.x, Top(p.rect), Turn(p)>>
    BY DEF Score
  <2> HIDE DEF Turn, C, k
  <2> QED
    BY <2>2, <2>3, <2>4, <2>5
<1>5. ASSUME NEW p \in C, NEW q \in C, k[p] = k[q] PROVE p = q
  <2>1. PICK sp \in 0 .. stock.quantity - 1, op \in Orientations(i.part, stock) :
            \E x, y \in Int : p = At(i, stock, sp, op, <<x, y>>)
    BY <1>3 DEF PlacementOf
  <2>2. PICK xp \in Int, yp \in Int :
            p = At(i, stock, sp, op, <<xp, yp>>)
    BY <2>1
  <2>3. PICK sq \in 0 .. stock.quantity - 1, oq \in Orientations(i.part, stock) :
            \E x, y \in Int : q = At(i, stock, sq, oq, <<x, y>>)
    BY <1>3 DEF PlacementOf
  <2>4. PICK xq \in Int, yq \in Int :
            q = At(i, stock, sq, oq, <<xq, yq>>)
    BY <2>3
  <2>5. p.sheet = sp /\ p.rect.x = xp /\ p.rect.y = yp /\ p.rotated = op.rotated
    BY <1>2, <2>2, PlacementFields
  <2>6. q.sheet = sq /\ q.rect.x = xq /\ q.rect.y = yq /\ q.rotated = oq.rotated
    BY <1>2, <2>4, PlacementFields
  <2>7. p.sheet = q.sheet /\ p.rect.x = q.rect.x /\ p.rect.y = q.rect.y /\ Turn(p) = Turn(q)
    <3> HIDE DEF C, k, Turn
    <3> QED
      BY <1>4, <1>5
  <2>8. op.rotated \in BOOLEAN /\ oq.rotated \in BOOLEAN
    BY OrientationsOfPart
  <2>9. op.rotated = oq.rotated
    BY <2>5, <2>6, <2>7, <2>8
  <2>10. op = oq
    BY <2>9, OrientationsOfPart
  <2> QED
    BY <2>2, <2>4, <2>5, <2>6, <2>7, <2>10
<1>6. PICK x \in C : \A y \in C : y = x \/ Before(k[x], k[y])
  <2>1. C # {}
    OBVIOUS
  <2> HIDE DEF k, C
  <2>2. \A p \in C : k[p] \in Seq(Int) /\ Len(k[p]) = 5
    BY <1>4
  <2>3. \A p, q \in C : k[p] = k[q] => p = q
    BY <1>5
  <2> QED
    BY <1>1, <2>1, <2>2, <2>3, FirstByKey
<1>7. \A y \in C : y = x \/ Before(Score(x), Score(y))
  BY <1>6
<1> QED
  BY <1>7 DEF Least

-----------------------------------------------------------------------------
(***************************************************************************)
(* The layout of the instances taken: every placed one is one of them, on  *)
(* the usable sheet, a kerf away from defects, clamps and each other; the  *)
(* rest is unplaced.                                                       *)
(***************************************************************************)
InstanceIds(taken) == {<<i.part.id, i.n>> : i \in taken}
PlacedIds(placed) == {<<p.part, p.n>> : p \in placed}
Lies(p, taken, stock) ==
    \E i \in taken : PlacementOf(i, stock, p) /\ compatible(i.part, stock)
Clear(p, stock) ==
    /\ Within(p.rect, UsableRect(stock))
    /\ \A zone \in stock.defects \cup stock.clamps : ~Intersects(p.rect, zone, stock.kerf)
Apart(p, q, stock) ==
    /\ <<p.part, p.n>> # <<q.part, q.n>>
    /\ p.sheet = q.sheet => ~Intersects(p.rect, q.rect, stock.kerf)
SoundLayout(layout, taken, stock) ==
    /\ layout = [placed |-> layout.placed, unplaced |-> layout.unplaced]
    /\ IsFiniteSet(layout.placed)
    /\ \A p \in layout.placed : IsRect(p.rect) /\ Lies(p, taken, stock) /\ Clear(p, stock)
    /\ \A p, q \in layout.placed : p # q => Apart(p, q, stock)
    /\ layout.unplaced = InstanceIds(taken) \ PlacedIds(layout.placed)

LEMMA LiesFields ==
    ASSUME NEW parts, SheetParts(parts), NEW stock, IsStock(stock),
           NEW i \in Instances(parts), NEW p, PlacementOf(i, stock, p)
    PROVE  /\ p.part = i.part.id /\ p.n = i.n /\ p.stock = stock.id /\ IsRect(p.rect)
           /\ p.sheet \in 0 .. stock.quantity - 1 /\ p.rotated \in BOOLEAN
           /\ grain_allows(i.part, stock, p.rotated)
           /\ p.rect.w = (IF p.rotated THEN i.part.l ELSE i.part.w)
           /\ p.rect.l = (IF p.rotated THEN i.part.w ELSE i.part.l)
<1>1. IsPart(i.part)
  BY InstancesOfParts DEF SheetParts
<1>2. PICK sheet \in 0 .. stock.quantity - 1, o \in Orientations(i.part, stock) :
          \E x, y \in Int : p = At(i, stock, sheet, o, <<x, y>>)
  BY DEF PlacementOf
<1>3. /\ p.part = i.part.id /\ p.n = i.n /\ p.stock = stock.id /\ p.sheet = sheet
      /\ p.rotated = o.rotated /\ p.rotated \in BOOLEAN
      /\ p.rect.w = o.w /\ p.rect.l = o.l /\ IsRect(p.rect)
  BY <1>1, <1>2, PlacementFields
<1>4. /\ grain_allows(i.part, stock, o.rotated)
      /\ o.w = (IF o.rotated THEN i.part.l ELSE i.part.w)
      /\ o.l = (IF o.rotated THEN i.part.w ELSE i.part.l)
  BY OrientationsOfPart, Zenon
<1> QED
  BY <1>3, <1>4, Zenon

LEMMA ExtendedIsSound ==
    ASSUME NEW parts, SheetParts(parts), NEW stock, IsStock(stock),
           NEW taken \in SUBSET Instances(parts), NEW i \in taken, NEW layout,
           SoundLayout(layout, taken \ {i}, stock)
    PROVE  SoundLayout(Extended(layout, i, stock), taken, stock)
<1> DEFINE C == Placements(i, layout.placed, stock)
           best == Least(C, Score)
           next == Extended(layout, i, stock)
<1>0. /\ layout = [placed |-> layout.placed, unplaced |-> layout.unplaced]
      /\ IsFiniteSet(layout.placed)
      /\ \A p \in layout.placed : IsRect(p.rect)
      /\ \A p \in layout.placed : Lies(p, taken \ {i}, stock)
      /\ \A p \in layout.placed : Clear(p, stock)
      /\ \A p, q \in layout.placed : p # q => Apart(p, q, stock)
      /\ layout.unplaced = InstanceIds(taken \ {i}) \ PlacedIds(layout.placed)
  BY DEF SoundLayout
<1>1. \A p \in layout.placed : Lies(p, taken, stock)
  BY <1>0 DEF Lies
<1>2. \A p \in layout.placed : <<p.part, p.n>> # <<i.part.id, i.n>>
  <2> SUFFICES ASSUME NEW p \in layout.placed PROVE <<p.part, p.n>> # <<i.part.id, i.n>>
    OBVIOUS
  <2>1. PICK j \in taken \ {i} : PlacementOf(j, stock, p)
    BY <1>0 DEF Lies
  <2>2. p.part = j.part.id /\ p.n = j.n
    BY <2>1, LiesFields
  <2>3. i.part.id = j.part.id /\ i.n = j.n => i = j
    BY InstancesOfParts DEF SheetParts
  <2> QED
    BY <2>1, <2>2, <2>3
<1>3. InstanceIds(taken) = InstanceIds(taken \ {i}) \cup {<<i.part.id, i.n>>}
  BY DEF InstanceIds
<1>4. CASE C = {}
  <2>1. next = [layout EXCEPT !.unplaced = @ \cup {<<i.part.id, i.n>>}]
    BY <1>4 DEF Extended, WithInstance
  <2>2. next = [placed |-> layout.placed, unplaced |-> layout.unplaced \cup {<<i.part.id, i.n>>}]
    BY <1>0, <2>1
  <2>3. /\ next = [placed |-> next.placed, unplaced |-> next.unplaced]
        /\ next.placed = layout.placed /\ next.unplaced = layout.unplaced \cup {<<i.part.id, i.n>>}
    BY <2>2
  <2>4. <<i.part.id, i.n>> \notin PlacedIds(layout.placed)
    BY <1>2 DEF PlacedIds
  <2>5. next.unplaced = InstanceIds(taken) \ PlacedIds(next.placed)
    BY <1>0, <1>3, <2>3, <2>4
  <2> HIDE DEF next
  <2> QED
    BY <1>0, <1>1, <2>3, <2>5 DEF SoundLayout, next
<1>5. CASE C # {}
  <2>1. best \in C
    BY <1>0, <1>5, BestPlacement
  <2>2. next = [layout EXCEPT !.placed = @ \cup {best}]
    BY <1>5 DEF Extended, WithInstance
  <2>3. next = [placed |-> layout.placed \cup {best}, unplaced |-> layout.unplaced]
    BY <1>0, <2>2
  <2>4. /\ next = [placed |-> next.placed, unplaced |-> next.unplaced]
        /\ next.placed = layout.placed \cup {best} /\ next.unplaced = layout.unplaced
    BY <2>3
  <2>5. /\ compatible(i.part, stock) /\ PlacementOf(i, stock, best)
        /\ Fits(best.rect, On(layout.placed, best.sheet), stock)
    <3> HIDE DEF best
    <3> QED
      BY <1>0, <2>1, PlacementsOf
  <2>6. best.part = i.part.id /\ best.n = i.n /\ IsRect(best.rect)
    BY <2>5, LiesFields
  <2>7. Lies(best, taken, stock) /\ Clear(best, stock)
    BY <2>5 DEF Lies, Clear, Fits
  <2> HIDE DEF best, C, next
  <2>8. \A p \in layout.placed : Apart(p, best, stock) /\ Apart(best, p, stock)
    <3> SUFFICES ASSUME NEW p \in layout.placed PROVE Apart(p, best, stock) /\ Apart(best, p, stock)
      OBVIOUS
    <3>1. p.sheet = best.sheet => ~Intersects(best.rect, p.rect, stock.kerf)
      BY <2>5 DEF Fits, On
    <3>2. Intersects(best.rect, p.rect, stock.kerf) <=> Intersects(p.rect, best.rect, stock.kerf)
      BY DEF Intersects
    <3> QED
      BY <1>2, <2>6, <3>1, <3>2 DEF Apart
  <2>9. PlacedIds(next.placed) = PlacedIds(layout.placed) \cup {<<i.part.id, i.n>>}
    BY <2>4, <2>6 DEF PlacedIds
  <2>10. <<i.part.id, i.n>> \notin InstanceIds(taken \ {i})
    <3> SUFFICES ASSUME NEW j \in taken \ {i}, <<i.part.id, i.n>> = <<j.part.id, j.n>> PROVE FALSE
      BY DEF InstanceIds
    <3>1. i.part.id = j.part.id /\ i.n = j.n => i = j
      BY InstancesOfParts DEF SheetParts
    <3> QED
      BY <3>1
  <2>11. next.unplaced = InstanceIds(taken) \ PlacedIds(next.placed)
    BY <1>0, <1>3, <2>4, <2>9, <2>10
  <2>12. IsFiniteSet(next.placed)
    BY <1>0, <2>4, FS_AddElement
  <2>13. \A p \in next.placed : IsRect(p.rect) /\ Lies(p, taken, stock) /\ Clear(p, stock)
    BY <1>0, <1>1, <2>4, <2>6, <2>7
  <2>14. \A p, q \in next.placed : p # q => Apart(p, q, stock)
    BY <1>0, <2>4, <2>8
  <2> QED
    BY <2>4, <2>11, <2>12, <2>13, <2>14 DEF SoundLayout, next
<1> QED
  BY <1>4, <1>5

LEMMA NestIsSound ==
    ASSUME NEW parts, SheetParts(parts), NEW stock, IsStock(stock)
    PROVE  SoundLayout(nest(parts, stock), Instances(parts), stock)
<1> DEFINE T == Instances(parts)
           g == CHOOSE g : Nests(stock, T, g)
           B == {s \in SUBSET T : ~SoundLayout(g[s], s, stock)}
<1>1. Nests(stock, T, g)
  BY NestsExist
<1>2. nest(parts, stock) = g[T]
  BY NestIsItsRecursion
<1> HIDE DEF g
<1> SUFFICES ASSUME B # {} PROVE FALSE
  BY <1>2
<1>3. B \subseteq SUBSET T /\ IsFiniteSet(T)
  BY InstancesOfParts
<1>4. PICK m \in B : \A u \in B : u \subseteq m => u = m
  <2> HIDE DEF B
  <2> QED
    BY <1>3, MinimalSubset
<1>5. SoundLayout(NoLayout, {}, stock)
  BY FS_EmptySet DEF SoundLayout, NoLayout, InstanceIds
<1>6. m # {}
  BY <1>1, <1>5, NestsAt
<1>7. LastOf(m) \in m
  BY <1>6, LastIsTaken
<1>8. m \ {LastOf(m)} \in SUBSET T /\ m \ {LastOf(m)} \notin B
  BY <1>4, <1>7
<1>9. SoundLayout(g[m \ {LastOf(m)}], m \ {LastOf(m)}, stock)
  BY <1>8
<1>10. g[m] = Extended(g[m \ {LastOf(m)}], LastOf(m), stock)
  BY <1>1, <1>6, NestsAt
<1>11. SoundLayout(g[m], m, stock)
  BY <1>7, <1>9, <1>10, ExtendedIsSound
<1> QED
  BY <1>11

\* The nester's own check finds nothing but what could not be placed.
LEMMA NesterNeverRaises ==
    ASSUME NEW parts, SheetParts(parts), NEW stock, IsStock(stock)
    PROVE  ~NesterRaises(parts, stock)
<1> DEFINE layout == nest(parts, stock)
           placed == layout.placed
           Named(p) == {q \in parts : q.id = p.part /\ p.n \in 1 .. q.quantity}
           Again(p) == {q \in placed \ {p} : <<q.part, q.n>> = <<p.part, p.n>>}
           expected == {<<i.part.id, i.n>> : i \in Instances(parts)}
<1>1. SoundLayout(layout, Instances(parts), stock)
  BY NestIsSound
<1> HIDE DEF layout
<1>2. /\ \A p \in placed : Lies(p, Instances(parts), stock) /\ Clear(p, stock)
      /\ \A p, q \in placed : p # q => Apart(p, q, stock)
      /\ layout.unplaced = InstanceIds(Instances(parts)) \ PlacedIds(placed)
  BY <1>1 DEF SoundLayout
<1>3. ASSUME NEW p \in placed, NEW q \in Named(p) PROVE PlacementIssues(p, q, stock) = {}
  <2>1. PICK i \in Instances(parts) : PlacementOf(i, stock, p)
    BY <1>2 DEF Lies
  <2>2. /\ p.part = i.part.id /\ p.stock = stock.id
        /\ p.sheet \in 0 .. stock.quantity - 1 /\ p.rotated \in BOOLEAN
        /\ grain_allows(i.part, stock, p.rotated)
        /\ p.rect.w = (IF p.rotated THEN i.part.l ELSE i.part.w)
        /\ p.rect.l = (IF p.rotated THEN i.part.w ELSE i.part.l)
    BY <2>1, LiesFields
  <2>3. q = i.part
    BY <1>3, <2>2, InstancesOfParts DEF SheetParts
  <2>4. <<p.rect.w, p.rect.l>> = IF p.rotated THEN <<q.l, q.w>> ELSE <<q.w, q.l>>
    BY <2>2, <2>3
  <2>5. /\ grain_allows(q, stock, p.rotated) /\ Within(p.rect, UsableRect(stock))
        /\ ~(\E zone \in stock.defects : Intersects(p.rect, zone, stock.kerf))
        /\ ~(\E zone \in stock.clamps : Intersects(p.rect, zone, stock.kerf))
    BY <1>2, <2>2, <2>3 DEF Clear
  <2> QED
    BY <2>2, <2>4, <2>5 DEF PlacementIssues, When
<1>4. ASSUME NEW p \in placed PROVE Named(p) # {}
  <2>1. PICK i \in Instances(parts) : PlacementOf(i, stock, p)
    BY <1>2 DEF Lies
  <2>2. p.part = i.part.id /\ p.n = i.n
    BY <2>1, LiesFields
  <2>3. i.part \in Named(p)
    BY <2>2, InstancesOfParts
  <2> QED
    BY <2>3
<1>5. ASSUME NEW p \in placed PROVE Again(p) = {}
  BY <1>2 DEF Apart
<1>6. ~(\E p, q \in placed : p # q /\ p.sheet = q.sheet /\ Intersects(p.rect, q.rect, stock.kerf))
  BY <1>2 DEF Apart
<1>7. expected \ {<<p.part, p.n>> : p \in placed} = layout.unplaced
  BY <1>2 DEF InstanceIds, PlacedIds
<1>8. validate_layout(layout, parts, stock) =
        (UNION {UNION {PlacementIssues(p, q, stock) : q \in Named(p)} : p \in placed})
        \cup (UNION {When("NESTING_UNKNOWN_INSTANCE", p.part, Named(p) = {}) : p \in placed})
        \cup (UNION {When("NESTING_DUPLICATE_INSTANCE", p.part, Again(p) # {}) : p \in placed})
        \cup When("NESTING_OVERLAP", 0,
                  \E p, q \in placed : p # q /\ p.sheet = q.sheet
                                       /\ Intersects(p.rect, q.rect, stock.kerf))
        \cup When("NESTING_ACCOUNTING", 0,
                  expected \ {<<p.part, p.n>> : p \in placed} # layout.unplaced)
        \cup {Issue("NESTING_UNPLACED", u[1]) : u \in layout.unplaced}
  BY DEF validate_layout
<1> HIDE DEF Named, Again, expected, placed
<1>9. /\ (UNION {UNION {PlacementIssues(p, q, stock) : q \in Named(p)} : p \in placed}) = {}
      /\ (UNION {When("NESTING_UNKNOWN_INSTANCE", p.part, Named(p) = {}) : p \in placed}) = {}
      /\ (UNION {When("NESTING_DUPLICATE_INSTANCE", p.part, Again(p) # {}) : p \in placed}) = {}
      /\ When("NESTING_OVERLAP", 0,
                  \E p, q \in placed : p # q /\ p.sheet = q.sheet
                                       /\ Intersects(p.rect, q.rect, stock.kerf)) = {}
      /\ When("NESTING_ACCOUNTING", 0,
                  expected \ {<<p.part, p.n>> : p \in placed} # layout.unplaced) = {}
  <2>1. (UNION {UNION {PlacementIssues(p, q, stock) : q \in Named(p)} : p \in placed}) = {}
    BY <1>3
  <2>2. (UNION {When("NESTING_UNKNOWN_INSTANCE", p.part, Named(p) = {}) : p \in placed}) = {}
    BY <1>4 DEF When
  <2>3. (UNION {When("NESTING_DUPLICATE_INSTANCE", p.part, Again(p) # {}) : p \in placed}) = {}
    BY <1>5 DEF When
  <2>4. When("NESTING_OVERLAP", 0,
             \E p, q \in placed : p # q /\ p.sheet = q.sheet
                                  /\ Intersects(p.rect, q.rect, stock.kerf)) = {}
    BY <1>6 DEF When
  <2>5. When("NESTING_ACCOUNTING", 0,
             expected \ {<<p.part, p.n>> : p \in placed} # layout.unplaced) = {}
    BY <1>7 DEF When
  <2> QED
    BY <2>1, <2>2, <2>3, <2>4, <2>5
<1>10. validate_layout(layout, parts, stock) = {Issue("NESTING_UNPLACED", u[1]) : u \in layout.unplaced}
  BY <1>8, <1>9
<1>11. Codes(validate_layout(layout, parts, stock)) \subseteq {"NESTING_UNPLACED"}
  BY <1>10 DEF Codes, Issue
<1> QED
  BY <1>11 DEF NesterRaises, layout

-----------------------------------------------------------------------------
(***************************************************************************)
(* Cuts on the sheet.  A smaller rectangle meets less; flipping the sheet  *)
(* moves everything alike; a piece of a feature is cut inside the feature. *)
(***************************************************************************)
LEMMA RectFields ==
    ASSUME NEW x, NEW y, NEW w, NEW l
    PROVE  /\ Rect(x, y, w, l).x = x /\ Rect(x, y, w, l).y = y
           /\ Rect(x, y, w, l).w = w /\ Rect(x, y, w, l).l = l
BY DEF Rect

LEMMA IsRectFields ==
    ASSUME NEW r, IsRect(r)
    PROVE  r.x \in Int /\ r.y \in Int /\ r.w \in Int /\ r.l \in Int
BY DEF IsRect

LEMMA RectIsRect ==
    ASSUME NEW x \in Int, NEW y \in Int, NEW w \in Int, NEW l \in Int
    PROVE  IsRect(Rect(x, y, w, l))
BY DEF IsRect, Rect

LEMMA InnerMeetsLess ==
    ASSUME NEW a, IsRect(a), NEW b, IsRect(b), NEW z, IsRect(z), Within(a, b),
           NEW c \in Int, NEW d \in Int, d <= c, ~Intersects(b, z, c)
    PROVE  ~Intersects(a, z, d)
<1>1. /\ a.x \in Int /\ a.y \in Int /\ a.w \in Int /\ a.l \in Int
      /\ b.x \in Int /\ b.y \in Int /\ b.w \in Int /\ b.l \in Int
      /\ z.x \in Int /\ z.y \in Int /\ z.w \in Int /\ z.l \in Int
  BY IsRectFields
<1> QED
  BY <1>1 DEF Within, Intersects, Right, Top

LEMMA WithinIsTransitive ==
    ASSUME NEW a, IsRect(a), NEW b, IsRect(b), NEW c, IsRect(c), Within(a, b), Within(b, c)
    PROVE  Within(a, c)
<1>1. /\ a.x \in Int /\ a.y \in Int /\ a.w \in Int /\ a.l \in Int
      /\ b.x \in Int /\ b.y \in Int /\ b.w \in Int /\ b.l \in Int
      /\ c.x \in Int /\ c.y \in Int /\ c.w \in Int /\ c.l \in Int
  BY IsRectFields
<1> QED
  BY <1>1 DEF Within, Right, Top

LEMMA IntersectsIsSymmetric ==
    ASSUME NEW a, NEW b, NEW c
    PROVE  Intersects(a, b, c) <=> Intersects(b, a, c)
BY DEF Intersects

LEMMA Flipping ==
    ASSUME NEW a, IsRect(a), NEW b, IsRect(b), NEW stock, stock.l \in Int, NEW c \in Int
    PROVE  /\ IsRect(Flipped(a, stock))
           /\ Flipped(Flipped(a, stock), stock) = a
           /\ Within(a, b) => Within(Flipped(a, stock), Flipped(b, stock))
           /\ Intersects(Flipped(a, stock), Flipped(b, stock), c) <=> Intersects(a, b, c)
<1>1. /\ a.x \in Int /\ a.y \in Int /\ a.w \in Int /\ a.l \in Int
      /\ b.x \in Int /\ b.y \in Int /\ b.w \in Int /\ b.l \in Int
  BY IsRectFields
<1> DEFINE fa == Flipped(a, stock)
           fb == Flipped(b, stock)
<1>2. /\ fa.x = a.x /\ fa.y = stock.l - (a.y + a.l) /\ fa.w = a.w /\ fa.l = a.l
      /\ fb.x = b.x /\ fb.y = stock.l - (b.y + b.l) /\ fb.w = b.w /\ fb.l = b.l
  BY RectFields DEF Flipped, Top
<1>3. IsRect(fa)
  BY <1>1, RectIsRect DEF Flipped, Top
<1>4. Flipped(fa, stock) = a
  <2>1. stock.l - Top(fa) = a.y
    BY <1>1, <1>2 DEF Top
  <2>2. Flipped(fa, stock) = Rect(a.x, a.y, a.w, a.l)
    BY <1>2, <2>1 DEF Flipped
  <2> QED
    BY <2>2 DEF IsRect
<1> HIDE DEF fa, fb
<1>5. Within(a, b) => Within(fa, fb)
  BY <1>1, <1>2 DEF Within, Right, Top
<1>6. Intersects(fa, fb, c) <=> Intersects(a, b, c)
  BY <1>1, <1>2 DEF Intersects, Right, Top
<1> QED
  BY <1>3, <1>4, <1>5, <1>6 DEF fa, fb

LEMMA OnTheSheet ==
    ASSUME NEW a, IsRect(a), NEW b, IsRect(b), NEW p, IsRect(p.rect), p.rotated \in BOOLEAN
    PROVE  /\ IsRect(OnSheet(a, p))
           /\ Within(a, b) => Within(OnSheet(a, p), OnSheet(b, p))
           /\ Intersects(OnSheet(a, p), OnSheet(b, p), 0) <=> Intersects(a, b, 0)
<1>1. /\ a.x \in Int /\ a.y \in Int /\ a.w \in Int /\ a.l \in Int
      /\ b.x \in Int /\ b.y \in Int /\ b.w \in Int /\ b.l \in Int
      /\ p.rect.x \in Int /\ p.rect.y \in Int /\ p.rect.w \in Int /\ p.rect.l \in Int
  BY IsRectFields
<1> DEFINE sa == OnSheet(a, p)
           sb == OnSheet(b, p)
<1>2. CASE p.rotated
  <2>1. /\ sa = Rect(p.rect.x + p.rect.w - Top(a), p.rect.y + a.x, a.l, a.w)
        /\ sb = Rect(p.rect.x + p.rect.w - Top(b), p.rect.y + b.x, b.l, b.w)
    BY <1>2 DEF OnSheet
  <2>2. /\ sa.x = p.rect.x + p.rect.w - (a.y + a.l) /\ sa.y = p.rect.y + a.x /\ sa.w = a.l /\ sa.l = a.w
        /\ sb.x = p.rect.x + p.rect.w - (b.y + b.l) /\ sb.y = p.rect.y + b.x /\ sb.w = b.l /\ sb.l = b.w
    BY <2>1, RectFields DEF Top
  <2>3. IsRect(sa)
    BY <1>1, <2>1, RectIsRect, SMTT(60) DEF Top
  <2> HIDE DEF sa, sb
  <2>4. Within(a, b) => Within(sa, sb)
    BY <1>1, <2>2 DEF Within, Right, Top
  <2>5. Intersects(sa, sb, 0) <=> Intersects(a, b, 0)
    BY <1>1, <2>2 DEF Intersects, Right, Top
  <2> QED
    BY <2>3, <2>4, <2>5 DEF sa, sb
<1>3. CASE ~p.rotated
  <2>1. /\ sa = Rect(p.rect.x + a.x, p.rect.y + a.y, a.w, a.l)
        /\ sb = Rect(p.rect.x + b.x, p.rect.y + b.y, b.w, b.l)
    BY <1>3 DEF OnSheet
  <2>2. /\ sa.x = p.rect.x + a.x /\ sa.y = p.rect.y + a.y /\ sa.w = a.w /\ sa.l = a.l
        /\ sb.x = p.rect.x + b.x /\ sb.y = p.rect.y + b.y /\ sb.w = b.w /\ sb.l = b.l
    BY <2>1, RectFields
  <2>3. IsRect(sa)
    BY <1>1, <2>1, RectIsRect
  <2> HIDE DEF sa, sb
  <2>4. Within(a, b) => Within(sa, sb)
    BY <1>1, <2>2 DEF Within, Right, Top
  <2>5. Intersects(sa, sb, 0) <=> Intersects(a, b, 0)
    BY <1>1, <2>2 DEF Intersects, Right, Top
  <2> QED
    BY <2>3, <2>4, <2>5 DEF sa, sb
<1> QED
  BY <1>2, <1>3

\* A cut within the part is, on the sheet, within its placement.
LEMMA WithinPlacement ==
    ASSUME NEW a, IsRect(a), NEW p, IsRect(p.rect), p.rotated \in BOOLEAN,
           NEW part, part.w \in Int, part.l \in Int,
           p.rect.w = (IF p.rotated THEN part.l ELSE part.w),
           p.rect.l = (IF p.rotated THEN part.w ELSE part.l),
           a.x >= 0, a.y >= 0, Right(a) <= part.w, Top(a) <= part.l
    PROVE  Within(OnSheet(a, p), p.rect)
<1>1. /\ a.x \in Int /\ a.y \in Int /\ a.w \in Int /\ a.l \in Int
      /\ p.rect.x \in Int /\ p.rect.y \in Int
  BY IsRectFields
<1> DEFINE sa == OnSheet(a, p)
<1>2. CASE p.rotated
  <2>1. sa = Rect(p.rect.x + p.rect.w - Top(a), p.rect.y + a.x, a.l, a.w)
    BY <1>2 DEF OnSheet
  <2>2. /\ sa.x = p.rect.x + p.rect.w - (a.y + a.l) /\ sa.y = p.rect.y + a.x /\ sa.w = a.l /\ sa.l = a.w
    BY <2>1, RectFields DEF Top
  <2>3. p.rect.w = part.l /\ p.rect.l = part.w
    BY <1>2
  <2> HIDE DEF sa
  <2>4. Within(sa, p.rect)
    BY <1>1, <2>2, <2>3 DEF Within, Right, Top
  <2> QED
    BY <2>4 DEF sa
<1>3. CASE ~p.rotated
  <2>1. sa = Rect(p.rect.x + a.x, p.rect.y + a.y, a.w, a.l)
    BY <1>3 DEF OnSheet
  <2>2. /\ sa.x = p.rect.x + a.x /\ sa.y = p.rect.y + a.y /\ sa.w = a.w /\ sa.l = a.l
    BY <2>1, RectFields
  <2>3. p.rect.w = part.w /\ p.rect.l = part.l
    BY <1>3
  <2> HIDE DEF sa
  <2>4. Within(sa, p.rect)
    BY <1>1, <2>2, <2>3 DEF Within, Right, Top
  <2> QED
    BY <2>4 DEF sa
<1> QED
  BY <1>2, <1>3

\* On the machine, the other side is the sheet turned over.
LEMMA OnTheMachine ==
    ASSUME NEW a, IsRect(a), NEW b, IsRect(b), NEW p, IsRect(p.rect), p.rotated \in BOOLEAN,
           NEW stock, stock.l \in Int, NEW side
    PROVE  /\ IsRect(ToMachine(a, p, stock, side))
           /\ (IF side = "B" THEN Flipped(ToMachine(a, p, stock, side), stock)
                             ELSE ToMachine(a, p, stock, side)) = OnSheet(a, p)
           /\ Within(a, b) => Within(ToMachine(a, p, stock, side), ToMachine(b, p, stock, side))
<1>1. /\ IsRect(OnSheet(a, p)) /\ IsRect(OnSheet(b, p))
      /\ Within(a, b) => Within(OnSheet(a, p), OnSheet(b, p))
  BY OnTheSheet
<1> DEFINE sa == OnSheet(a, p)
           sb == OnSheet(b, p)
<1>2. CASE side = "B"
  <2>1. /\ ToMachine(a, p, stock, side) = Flipped(sa, stock)
        /\ ToMachine(b, p, stock, side) = Flipped(sb, stock)
    BY <1>2 DEF ToMachine
  <2> HIDE DEF sa, sb
  <2>2. /\ IsRect(Flipped(sa, stock)) /\ Flipped(Flipped(sa, stock), stock) = sa
        /\ Within(sa, sb) => Within(Flipped(sa, stock), Flipped(sb, stock))
    <3>1. 0 \in Int /\ IsRect(sa) /\ IsRect(sb)
      BY <1>1 DEF sa, sb
    <3> QED
      BY <3>1, Flipping
  <2> QED
    BY <1>1, <1>2, <2>1, <2>2 DEF sa, sb
<1>3. CASE side # "B"
  BY <1>1, <1>3 DEF ToMachine
<1> QED
  BY <1>2, <1>3

LEMMA MeetsOnMachine ==
    ASSUME NEW a, IsRect(a), NEW p, IsRect(p.rect), p.rotated \in BOOLEAN,
           NEW q, IsRect(q.rect), NEW stock, stock.l \in Int, NEW side
    PROVE  Intersects(ToMachine(a, p, stock, side), PlacementToMachine(q, stock, side), 0)
                <=> Intersects(OnSheet(a, p), q.rect, 0)
<1>1. IsRect(OnSheet(a, p)) /\ 0 \in Int
  BY OnTheSheet
<1>2. CASE side = "B"
  BY <1>1, <1>2, Flipping DEF ToMachine, PlacementToMachine
<1>3. CASE side # "B"
  BY <1>1, <1>3 DEF ToMachine, PlacementToMachine
<1> QED
  BY <1>2, <1>3

LEMMA ProductGrows ==
    ASSUME NEW a \in Nat, NEW b \in Nat, a <= b, NEW c \in Nat
    PROVE  a * c \in Nat /\ a * c <= b * c
<1>1. (b - a) * c >= 0 /\ (b - a) * c = b * c - a * c
  OBVIOUS
<1> QED
  BY <1>1

PieceAt(f, x) == [f EXCEPT !.x = x, !.count = 1]
LEMMA PieceFields ==
    ASSUME NEW f, IsFeature(f), NEW piece \in Pieces(f)
    PROVE  /\ piece.kind = f.kind /\ piece.rect = f.rect /\ piece.y = f.y /\ piece.dia = f.dia
           /\ piece.pitch = f.pitch /\ piece.open = f.open /\ piece.strategy = f.strategy
           /\ piece.relief = f.relief /\ piece.count = 1
           /\ piece = PieceAt(f, piece.x)
           /\ \E i \in 0 .. f.count - 1 : piece.x = f.x + i * f.pitch
<1>1. PICK hole \in Points(f) : piece = [f EXCEPT !.x = hole[1], !.count = 1]
  BY DEF Pieces
<1>2. PICK i \in 0 .. f.count - 1 : hole = <<f.x + i * f.pitch, f.y>>
  BY DEF Points
<1>3. hole[1] = f.x + i * f.pitch
  BY <1>2
<1>4. {"kind", "side", "rect", "x", "y", "dia", "count", "pitch", "open", "strategy", "relief"}
            \subseteq DOMAIN f
  BY DEF IsFeature
<1>5. piece.x = hole[1] /\ piece.count = 1
  BY <1>1, <1>4
<1>6. /\ piece.kind = f.kind /\ piece.rect = f.rect /\ piece.y = f.y /\ piece.dia = f.dia
      /\ piece.pitch = f.pitch /\ piece.open = f.open /\ piece.strategy = f.strategy
      /\ piece.relief = f.relief
  BY <1>1, <1>4
<1>7. piece = PieceAt(f, piece.x)
  BY <1>1, <1>5 DEF PieceAt
<1> QED
  BY <1>3, <1>5, <1>6, <1>7

\* The bounds of a piece lie within those of its feature.
LEMMA PieceBounds ==
    ASSUME NEW f, IsFeature(f), NEW piece \in Pieces(f)
    PROVE  IsRect(Bounds(f)) /\ IsRect(Bounds(piece)) /\ Within(Bounds(piece), Bounds(f))
<1>1. /\ f.x \in Int /\ f.y \in Int /\ IsRect(f.rect) /\ f.dia \in Nat /\ f.pitch \in Nat
      /\ f.count \in Nat /\ f.count > 0
  BY DEF IsFeature
<1>2. PICK i \in 0 .. f.count - 1 : piece.x = f.x + i * f.pitch
  BY PieceFields
<1>3. piece.kind = f.kind /\ piece.rect = f.rect /\ piece.y = f.y /\ piece.dia = f.dia
        /\ piece.pitch = f.pitch /\ piece.count = 1
  BY PieceFields
<1>4. CASE f.kind \notin Holes
  <2>1. Bounds(f) = f.rect /\ Bounds(piece) = f.rect
    BY <1>3, <1>4 DEF Bounds
  <2>2. f.rect.x \in Int /\ f.rect.y \in Int /\ f.rect.w \in Int /\ f.rect.l \in Int
    BY <1>1, IsRectFields
  <2> QED
    BY <1>1, <2>1, <2>2 DEF Within, Right, Top
<1>5. CASE f.kind \in Holes
  <2> DEFINE d == f.dia \div 2
             run == (f.count - 1) * f.pitch
             at == i * f.pitch
  <2>1. d \in Nat
    BY <1>1
  <2>2. at \in Nat /\ at <= run /\ run \in Nat
    BY <1>1, ProductGrows
  <2>3. Bounds(f) = Rect(f.x - d, f.y - d, run + 2 * d, 2 * d)
    BY <1>5 DEF Bounds
  <2>4. (piece.count - 1) * piece.pitch = 0
    BY <1>1, <1>3
  <2>5. Bounds(piece) = Rect(piece.x - d, f.y - d, 0 + 2 * d, 2 * d)
    BY <1>3, <1>5, <2>4 DEF Bounds
  <2>6. piece.x = f.x + at
    BY <1>2
  <2> HIDE DEF d, run, at
  <2>7. IsRect(Bounds(f)) /\ IsRect(Bounds(piece))
    BY <1>1, <2>1, <2>2, <2>3, <2>5, <2>6, RectIsRect
  <2>10. Bounds(piece).x = piece.x - d
    BY <2>5 DEF Rect
  <2>11. piece.x - d = f.x + at - d
    BY <1>1, <2>1, <2>2, <2>6
  <2>8. /\ Bounds(f).x = f.x - d /\ Bounds(f).y = f.y - d
        /\ Bounds(f).w = run + 2 * d /\ Bounds(f).l = 2 * d
        /\ Bounds(piece).x = f.x + at - d /\ Bounds(piece).y = f.y - d
        /\ Bounds(piece).w = 0 + 2 * d /\ Bounds(piece).l = 2 * d
    BY <2>3, <2>5, <2>10, <2>11 DEF Rect
  <2>9. Within(Bounds(piece), Bounds(f))
    BY <1>1, <2>1, <2>2, <2>8 DEF Within, Right, Top
  <2> QED
    BY <2>7, <2>9
<1> QED
  BY <1>4, <1>5

\* The ends the cutter leaves the bounds at.
CutEnds(f) ==
    (UNION {{c[1], c[2]} : c \in ReliefCorners(f)})
        \cup IF f.strategy \in Dogbones THEN f.open ELSE {}
Relieved(f, u, v) ==
    /\ f.strategy \in Dogbones /\ f.relief # 0
    /\ IF f.strategy = "dogbone-v1" THEN ~({u, v} \subseteq f.open) ELSE {u, v} \cap f.open = {}
LEMMA ReliefEnds ==
    ASSUME NEW f, NEW e
    PROVE  (\E c \in ReliefCorners(f) : e \in {c[1], c[2]}) <=>
           \E u \in {"u_min", "u_max"}, v \in {"v_min", "v_max"} : Relieved(f, u, v) /\ e \in {u, v}
<1> DEFINE r == Bounds(f)
           Edge(u) == IF u = "u_min" THEN r.x ELSE Right(r)
           Rim(v) == IF v = "v_min" THEN r.y ELSE Top(r)
<1>1. Corners(r) = {<<u, v, Edge(u), Rim(v)>> : u \in {"u_min", "u_max"}, v \in {"v_min", "v_max"}}
  <2>1. \A u \in {"u_min", "u_max"}, v \in {"v_min", "v_max"} : <<u, v, Edge(u), Rim(v)>> \in Corners(r)
    BY DEF Corners
  <2>2. ASSUME NEW c \in Corners(r)
        PROVE  \E u \in {"u_min", "u_max"}, v \in {"v_min", "v_max"} : c = <<u, v, Edge(u), Rim(v)>>
    BY DEF Corners
  <2> QED
    BY <2>1, <2>2
<1> HIDE DEF r, Edge, Rim
<1>2. ReliefCorners(f) = {c \in Corners(r) : Relieved(f, c[1], c[2])}
  BY DEF ReliefCorners, Relieved, r
<1>3. ASSUME NEW c \in ReliefCorners(f), e \in {c[1], c[2]}
      PROVE  \E u \in {"u_min", "u_max"}, v \in {"v_min", "v_max"} : Relieved(f, u, v) /\ e \in {u, v}
  <2>1. PICK u \in {"u_min", "u_max"}, v \in {"v_min", "v_max"} : c = <<u, v, Edge(u), Rim(v)>>
    BY <1>1, <1>2, <1>3
  <2>2. c[1] = u /\ c[2] = v
    BY <2>1
  <2>3. Relieved(f, u, v)
    BY <1>2, <1>3, <2>2
  <2> QED
    BY <1>3, <2>2, <2>3
<1>4. ASSUME NEW u \in {"u_min", "u_max"}, NEW v \in {"v_min", "v_max"}, Relieved(f, u, v), e \in {u, v}
      PROVE  \E c \in ReliefCorners(f) : e \in {c[1], c[2]}
  <2> DEFINE c == <<u, v, Edge(u), Rim(v)>>
  <2>1. c[1] = u /\ c[2] = v /\ c \in Corners(r)
    BY <1>1
  <2> HIDE DEF c
  <2>2. c \in ReliefCorners(f)
    BY <1>2, <1>4, <2>1
  <2> QED
    BY <1>4, <2>1, <2>2
<1> QED
  BY <1>3, <1>4

LEMMA PieceEnds ==
    ASSUME NEW f, IsFeature(f), NEW piece \in Pieces(f)
    PROVE  CutEnds(piece) = CutEnds(f)
<1>1. piece.open = f.open /\ piece.strategy = f.strategy /\ piece.relief = f.relief
  BY PieceFields
<1>2. \A u, v : Relieved(piece, u, v) <=> Relieved(f, u, v)
  BY <1>1 DEF Relieved
<1>3. \A e : (\E c \in ReliefCorners(piece) : e \in {c[1], c[2]}) <=>
             (\E c \in ReliefCorners(f) : e \in {c[1], c[2]})
  <2> SUFFICES ASSUME NEW e
               PROVE  (\E c \in ReliefCorners(piece) : e \in {c[1], c[2]}) <=>
                      (\E c \in ReliefCorners(f) : e \in {c[1], c[2]})
    OBVIOUS
  <2>1. (\E c \in ReliefCorners(piece) : e \in {c[1], c[2]}) <=>
        \E u \in {"u_min", "u_max"}, v \in {"v_min", "v_max"} : Relieved(piece, u, v) /\ e \in {u, v}
    BY ReliefEnds
  <2>2. (\E c \in ReliefCorners(f) : e \in {c[1], c[2]}) <=>
        \E u \in {"u_min", "u_max"}, v \in {"v_min", "v_max"} : Relieved(f, u, v) /\ e \in {u, v}
    BY ReliefEnds
  <2> QED
    BY <1>2, <2>1, <2>2, Zenon
<1>4. (UNION {{c[1], c[2]} : c \in ReliefCorners(piece)}) = UNION {{c[1], c[2]} : c \in ReliefCorners(f)}
  BY <1>3
<1> QED
  BY <1>1, <1>4 DEF CutEnds

LEMMA WidenedWithin ==
    ASSUME NEW a, IsRect(a), NEW b, IsRect(b), Within(a, b), NEW ends, NEW n \in Nat
    PROVE  /\ IsRect(Widened(a, ends, n)) /\ IsRect(Widened(b, ends, n))
           /\ Within(Widened(a, ends, n), Widened(b, ends, n))
<1> DEFINE Out(end) == IF end \in ends THEN n ELSE 0
           ul == Out("u_min")
           uh == Out("u_max")
           vl == Out("v_min")
           vh == Out("v_max")
           wa == Widened(a, ends, n)
           wb == Widened(b, ends, n)
<1>1. ul \in Int /\ uh \in Int /\ vl \in Int /\ vh \in Int
  OBVIOUS
<1>2. /\ wa = Rect(a.x - ul, a.y - vl, a.w + ul + uh, a.l + vl + vh)
      /\ wb = Rect(b.x - ul, b.y - vl, b.w + ul + uh, b.l + vl + vh)
  BY DEF Widened
<1>3. /\ a.x \in Int /\ a.y \in Int /\ a.w \in Int /\ a.l \in Int
      /\ b.x \in Int /\ b.y \in Int /\ b.w \in Int /\ b.l \in Int
  BY IsRectFields
<1> HIDE DEF ul, uh, vl, vh, wa, wb
<1>7. /\ a.x - ul \in Int /\ a.y - vl \in Int /\ a.w + ul + uh \in Int /\ a.l + vl + vh \in Int
      /\ b.x - ul \in Int /\ b.y - vl \in Int /\ b.w + ul + uh \in Int /\ b.l + vl + vh \in Int
  BY <1>1, <1>3
<1>4. IsRect(wa) /\ IsRect(wb)
  BY <1>2, <1>7, RectIsRect
<1>5. /\ wa.x = a.x - ul /\ wa.y = a.y - vl /\ wa.w = a.w + ul + uh /\ wa.l = a.l + vl + vh
      /\ wb.x = b.x - ul /\ wb.y = b.y - vl /\ wb.w = b.w + ul + uh /\ wb.l = b.l + vl + vh
  BY <1>2, RectFields
<1>6. Within(wa, wb)
  BY <1>1, <1>3, <1>5 DEF Within, Right, Top
<1> QED
  BY <1>4, <1>6 DEF wa, wb

LEMMA PieceIsCutWithin ==
    ASSUME NEW f, IsFeature(f), NEW piece \in Pieces(f)
    PROVE  /\ IsRect(MachiningBounds(f)) /\ IsRect(MachiningBounds(piece))
           /\ Within(MachiningBounds(piece), MachiningBounds(f))
<1>1. f.relief \in Nat /\ piece.relief = f.relief
  BY PieceFields DEF IsFeature
<1>2. /\ MachiningBounds(f) = Widened(Bounds(f), CutEnds(f), f.relief)
      /\ MachiningBounds(piece) = Widened(Bounds(piece), CutEnds(f), f.relief)
  BY <1>1, PieceEnds DEF MachiningBounds, CutEnds
<1> QED
  BY <1>1, <1>2, PieceBounds, WidenedWithin

-----------------------------------------------------------------------------
(***************************************************************************)
(* A sheet that the screen does not block, operation by operation.         *)
(***************************************************************************)
PartOf(p, parts) == CHOOSE q \in parts : q.id = p.part
CleanPart(part) ==
    /\ \A f \in part.features : EnvelopeDeclared(part, f)
    /\ \A f, g \in part.features :
        /\ f.side = "A" /\ g.side = "B" /\ ~f.through /\ ~g.through
        /\ Intersects(MachiningBounds(f), MachiningBounds(g), 0)
        => part.thickness - f.depth - g.depth >= MinRemainingWall
CleanCut(f, p, layout, stock, machine) ==
    LET cut == ToMachine(MachiningBounds(f), p, stock, f.side)
    IN  /\ \A zone \in machine.keepouts \cup stock.clamps : ~Intersects(cut, zone, 0)
        /\ f.open # {} => \A q \in layout.placed \ {p} : q.sheet = p.sheet =>
                ~Intersects(cut, PlacementToMachine(q, stock, f.side), 0)

LEMMA WhenBlocks ==
    ASSUME NEW code, NEW part, NEW holds, NEW S, When(code, part, holds) \subseteq S, Blocking(S) = {}
    PROVE  ~holds
<1> SUFFICES ASSUME holds PROVE FALSE
  OBVIOUS
<1>1. Issue(code, part) \in S /\ Issue(code, part).severity = "BLOCK"
  BY DEF When, Issue
<1> QED
  BY <1>1 DEF Blocking

LEMMA CleanScreen ==
    ASSUME NEW parts, SheetParts(parts), NEW layout, NEW stock, NEW machine,
           Blocking(Screen(parts, layout, stock, machine)) = {}
    PROVE  /\ \A part \in parts : CleanPart(part)
           /\ \A p \in layout.placed : \A f \in PartOf(p, parts).features :
                f.side # "EDGE" => CleanCut(f, p, layout, stock, machine)
<1> DEFINE S == Screen(parts, layout, stock, machine)
           OfPart(p) == (UNION {AccessIssues(p, f, machine) \cup DepthIssues(p, f)
                                 \cup ToolIssues(p, f, machine) : f \in p.features})
                         \cup OpposingWall(p) \cup FeatureCollisions(p)
                         \cup AdjacentReliefWarnings(p, machine)
           OfPlaced(q) == KeepOutIssues(PartOf(q, parts), q, layout, stock, machine)
<1>1. /\ (UNION {OfPart(p) : p \in parts}) \subseteq S
      /\ (UNION {OfPlaced(q) : q \in layout.placed}) \subseteq S
  BY DEF Screen, PartOf
<1>2. Blocking(S) = {}
  OBVIOUS
<1> HIDE DEF S
<1>3. ASSUME NEW part \in parts, NEW f \in part.features PROVE EnvelopeDeclared(part, f)
  <2> DEFINE b == MachiningBounds(f)
  <2>1. AccessIssues(part, f, machine) \subseteq S
    BY <1>1
  <2>2. IsFeature(f) /\ part.w \in Int
    BY DEF SheetParts, IsPart
  <2>3. IsRect(b)
    <3>1. f.count \in Nat /\ f.count > 0
      BY <2>2 DEF IsFeature
    <3>2. 0 \in 0 .. f.count - 1
      BY <3>1
    <3>3. [f EXCEPT !.x = <<f.x + 0 * f.pitch, f.y>>[1], !.count = 1] \in Pieces(f)
      BY <3>2 DEF Pieces, Points
    <3> QED
      BY <2>2, <3>3, PieceIsCutWithin
  <2>4. b.w \in Int /\ b.l \in Int
    BY <2>3, IsRectFields
  <2>5. /\ When("FEATURE_INVALID_GEOMETRY", part.id, b.w <= 0 \/ b.l <= 0) \subseteq S
        /\ When("FEATURE_OUTSIDE_PART", part.id,
                /\ b.w > 0 /\ b.l > 0 /\ ~EnvelopeDeclared(part, f)) \subseteq S
    BY <2>1 DEF AccessIssues
  <2> HIDE DEF b
  <2>6. ~(b.w <= 0 \/ b.l <= 0)
    BY <1>2, <2>5, WhenBlocks
  <2>7. ~(/\ b.w > 0 /\ b.l > 0 /\ ~EnvelopeDeclared(part, f))
    BY <1>2, <2>5, WhenBlocks
  <2> QED
    BY <2>4, <2>6, <2>7
<1>4. ASSUME NEW part \in parts, NEW f \in part.features, NEW g \in part.features,
             f.side = "A", g.side = "B", ~f.through, ~g.through,
             Intersects(MachiningBounds(f), MachiningBounds(g), 0)
      PROVE  part.thickness - f.depth - g.depth >= MinRemainingWall
  <2> DEFINE left == part.thickness - f.depth - g.depth
  <2>1. OpposingWall(part) \subseteq S
    BY <1>1
  <2>2. When("OPPOSING_FEATURE_WALL_TOO_THIN", part.id,
             /\ Intersects(MachiningBounds(f), MachiningBounds(g), 0)
             /\ left < MinRemainingWall) \subseteq OpposingWall(part)
    <3> DEFINE Cuts(side) == {h \in part.features : h.side = side /\ ~h.through}
               Of(a, b) == When("OPPOSING_FEATURE_WALL_TOO_THIN", part.id,
                                /\ Intersects(MachiningBounds(a), MachiningBounds(b), 0)
                                /\ part.thickness - a.depth - b.depth < MinRemainingWall)
    <3>1. OpposingWall(part) = UNION {Of(a, b) : a \in Cuts("A"), b \in Cuts("B")}
      BY DEF OpposingWall
    <3>2. f \in Cuts("A") /\ g \in Cuts("B")
      BY <1>4
    <3> HIDE DEF Of, Cuts
    <3>3. Of(f, g) \subseteq OpposingWall(part)
      BY <3>1, <3>2
    <3> QED
      BY <3>3 DEF Of
  <2>3. ~(/\ Intersects(MachiningBounds(f), MachiningBounds(g), 0)
          /\ left < MinRemainingWall)
    <3>1. When("OPPOSING_FEATURE_WALL_TOO_THIN", part.id,
             /\ Intersects(MachiningBounds(f), MachiningBounds(g), 0)
             /\ left < MinRemainingWall) \subseteq S
      BY <2>1, <2>2
    <3> QED
      BY <1>2, <3>1, WhenBlocks
  <2>4. IsFeature(f) /\ IsFeature(g) /\ part.thickness \in Int
    BY DEF SheetParts, IsPart
  <2>5. f.depth \in Int /\ g.depth \in Int
    BY <2>4 DEF IsFeature
  <2>6. left \in Int /\ MinRemainingWall \in Int
    BY <2>4, <2>5, SheetPlanBounds
  <2> HIDE DEF left
  <2>7. left >= MinRemainingWall
    BY <1>4, <2>3, <2>6
  <2> QED
    BY <2>7 DEF left
<1>5. ASSUME NEW p \in layout.placed, NEW f \in PartOf(p, parts).features, f.side # "EDGE"
      PROVE  CleanCut(f, p, layout, stock, machine)
  <2> DEFINE part == PartOf(p, parts)
             cut == ToMachine(MachiningBounds(f), p, stock, f.side)
             others == {q \in layout.placed \ {p} : q.sheet = p.sheet}
  <2>1. KeepOutIssues(part, p, layout, stock, machine) \subseteq S
    BY <1>1
  <2>2. f \in {g \in part.features : g.side # "EDGE"}
    BY <1>5
  <2>3. /\ When("FEATURE_KEEPOUT_COLLISION", part.id,
                \E zone \in machine.keepouts \cup stock.clamps : Intersects(cut, zone, 0))
                \subseteq KeepOutIssues(part, p, layout, stock, machine)
        /\ When("OPEN_END_RELIEF_PART_CLEARANCE", part.id,
                /\ f.open # {}
                /\ \E q \in others : Intersects(cut, PlacementToMachine(q, stock, f.side), 0))
                \subseteq KeepOutIssues(part, p, layout, stock, machine)
    <3> HIDE DEF part
    <3> DEFINE Cut(h) == ToMachine(MachiningBounds(h), p, stock, h.side)
               Of(h) == When("FEATURE_KEEPOUT_COLLISION", part.id,
                             \E zone \in machine.keepouts \cup stock.clamps : Intersects(Cut(h), zone, 0))
                        \cup When("OPEN_END_RELIEF_STOCK_CLEARANCE", part.id,
                                  h.open # {} /\ ~Within(Cut(h), StockRect(stock)))
                        \cup When("OPEN_END_RELIEF_PART_CLEARANCE", part.id,
                                  /\ h.open # {}
                                  /\ \E q \in others :
                                        Intersects(Cut(h), PlacementToMachine(q, stock, h.side), 0))
               cutters == {g \in part.features : g.side # "EDGE"}
    <3>1. KeepOutIssues(part, p, layout, stock, machine) = UNION {Of(h) : h \in cutters}
      BY DEF KeepOutIssues
    <3>2. Of(f) \subseteq UNION {Of(h) : h \in cutters}
      <4> HIDE DEF Of, cutters
      <4> QED
        BY <2>2 DEF cutters
    <3> HIDE DEF cutters
    <3> QED
      BY <3>1, <3>2
  <2> HIDE DEF part, cut
  <2>4. ~(\E zone \in machine.keepouts \cup stock.clamps : Intersects(cut, zone, 0))
    <3>1. When("FEATURE_KEEPOUT_COLLISION", part.id,
                \E zone \in machine.keepouts \cup stock.clamps : Intersects(cut, zone, 0)) \subseteq S
      BY <2>1, <2>3
    <3> QED
      BY <1>2, <3>1, WhenBlocks
  <2>5. ~(/\ f.open # {}
          /\ \E q \in others : Intersects(cut, PlacementToMachine(q, stock, f.side), 0))
    <3>1. When("OPEN_END_RELIEF_PART_CLEARANCE", part.id,
                /\ f.open # {}
                /\ \E q \in others : Intersects(cut, PlacementToMachine(q, stock, f.side), 0)) \subseteq S
      BY <2>1, <2>3
    <3> QED
      BY <1>2, <3>1, WhenBlocks
  <2> QED
    BY <2>4, <2>5 DEF CleanCut, cut
<1> QED
  BY <1>3, <1>4, <1>5 DEF CleanPart

OperationAt(p, f, piece, stock, machine) ==
    [stock |-> stock.id, sheet |-> p.sheet, part |-> p.part, n |-> p.n,
     feature |-> f.id, hole |-> piece.x, kind |-> OperationOf(f),
     side |-> f.side, tool |-> ToolOf(f, machine).id, depth |-> f.depth,
     through |-> f.through, release |-> IsRelease(f),
     nominal |-> ToMachine(Bounds(piece), p, stock, f.side),
     envelope |-> ToMachine(MachiningBounds(piece), p, stock, f.side)]
IsOperation(o, i, p, f, piece, layout, stock, machine) ==
    /\ p \in layout.placed /\ PlacementOf(i, stock, p) /\ compatible(i.part, stock)
    /\ f \in i.part.features /\ piece \in Pieces(f)
    /\ o = OperationAt(p, f, piece, stock, machine)

\* The part of a placed instance.
LEMMA PlacedPart ==
    ASSUME NEW parts, SheetParts(parts), NEW stock, IsStock(stock),
           NEW i \in Instances(parts), NEW p, PlacementOf(i, stock, p)
    PROVE  PartOf(p, parts) = i.part /\ i.part \in parts
<1>1. p.part = i.part.id
  BY LiesFields
<1>2. i.part \in parts
  BY InstancesOfParts
<1>3. \A q \in parts : q.id = p.part => q = i.part
  BY <1>1, <1>2 DEF SheetParts
<1> QED
  BY <1>1, <1>2, <1>3 DEF PartOf

LEMMA OperationsOfSheet ==
    ASSUME NEW parts, SheetParts(parts), NEW stock, IsStock(stock), NEW layout,
           SoundLayout(layout, Instances(parts), stock), NEW machine,
           NEW o \in OperationsFor(layout, parts, stock, machine)
    PROVE  \E i \in Instances(parts) : \E p, f, piece :
                IsOperation(o, i, p, f, piece, layout, stock, machine)
<1> DEFINE Of(p) == UNION {{OperationAt(p, f, piece, stock, machine) : piece \in Pieces(f)} :
                           f \in PartOf(p, parts).features}
<1>1. OperationsFor(layout, parts, stock, machine) = UNION {Of(p) : p \in layout.placed}
  BY DEF OperationsFor, PartOf, OperationAt
<1>2. PICK p \in layout.placed : o \in Of(p)
  <2> HIDE DEF Of
  <2> QED
    BY <1>1
<1>3. PICK f \in PartOf(p, parts).features :
            o \in {OperationAt(p, f, piece, stock, machine) : piece \in Pieces(f)}
  BY <1>2
<1>4. PICK piece \in Pieces(f) : o = OperationAt(p, f, piece, stock, machine)
  BY <1>3
<1>5. PICK i \in Instances(parts) : PlacementOf(i, stock, p) /\ compatible(i.part, stock)
  BY DEF SoundLayout, Lies
<1>6. PartOf(p, parts) = i.part
  BY <1>5, PlacedPart
<1>7. IsOperation(o, i, p, f, piece, layout, stock, machine)
  BY <1>3, <1>4, <1>5, <1>6 DEF IsOperation
<1> QED
  BY <1>7

LEMMA OperationFields ==
    ASSUME NEW p, NEW f, NEW piece, NEW stock, NEW machine, NEW o,
           o = OperationAt(p, f, piece, stock, machine)
    PROVE  /\ o.stock = stock.id /\ o.sheet = p.sheet /\ o.part = p.part /\ o.n = p.n
           /\ o.feature = f.id /\ o.hole = piece.x /\ o.kind = OperationOf(f) /\ o.side = f.side
           /\ o.tool = ToolOf(f, machine).id /\ o.depth = f.depth /\ o.through = f.through
           /\ o.release = IsRelease(f)
           /\ o.envelope = ToMachine(MachiningBounds(piece), p, stock, f.side)
BY DEF OperationAt

\* What a cut of a clean sheet keeps clear of.
KeepsClear(o, layout, stock, machine) ==
    /\ \A q \in layout.placed : q.sheet = o.sheet /\ <<q.part, q.n>> # <<o.part, o.n>> =>
            ~Intersects(SheetCut(o, stock), q.rect, IF o.release THEN stock.kerf ELSE 0)
    /\ \A zone \in stock.clamps \cup machine.keepouts : ~Intersects(o.envelope, zone, 0)
    /\ o.release => \A zone \in stock.clamps \cup stock.defects :
            ~Intersects(SheetCut(o, stock), zone, stock.kerf)

LEMMA CutKeepsClear ==
    ASSUME NEW parts, SheetParts(parts), NEW stock, IsStock(stock), NEW layout,
           SoundLayout(layout, Instances(parts), stock), NEW machine, IsMachine(machine),
           \A part \in parts : CleanPart(part),
           \A p \in layout.placed : \A f \in PartOf(p, parts).features :
                f.side # "EDGE" => CleanCut(f, p, layout, stock, machine),
           NEW i \in Instances(parts), NEW p, NEW f, NEW piece, NEW o, f.side # "EDGE",
           IsOperation(o, i, p, f, piece, layout, stock, machine)
    PROVE  KeepsClear(o, layout, stock, machine)
<1> DEFINE small == MachiningBounds(piece)
           big == MachiningBounds(f)
           part == i.part
<1>1. /\ p \in layout.placed /\ PlacementOf(i, stock, p) /\ f \in part.features /\ piece \in Pieces(f)
      /\ o = OperationAt(p, f, piece, stock, machine)
  BY DEF IsOperation
<1>2. /\ o.stock = stock.id /\ o.sheet = p.sheet /\ o.part = p.part /\ o.n = p.n /\ o.side = f.side
      /\ o.release = IsRelease(f) /\ o.envelope = ToMachine(small, p, stock, f.side)
  BY <1>1, OperationFields
<1>3. PartOf(p, parts) = part /\ part \in parts
  BY <1>1, PlacedPart
<1>4. IsFeature(f) /\ part.w \in Int /\ part.l \in Int
  BY <1>1, <1>3 DEF SheetParts, IsPart
<1>5. IsRect(small) /\ IsRect(big) /\ Within(small, big)
  BY <1>1, <1>4, PieceIsCutWithin
<1>6. /\ IsRect(p.rect) /\ p.rotated \in BOOLEAN
      /\ p.rect.w = (IF p.rotated THEN part.l ELSE part.w)
      /\ p.rect.l = (IF p.rotated THEN part.w ELSE part.l)
  BY <1>1, LiesFields
<1>7. EnvelopeDeclared(part, f) /\ CleanCut(f, p, layout, stock, machine)
  BY <1>1, <1>3 DEF CleanPart
<1>8. stock.kerf \in Int /\ 0 <= stock.kerf /\ stock.l \in Int
  BY DEF IsStock
<1>9. /\ \A q \in layout.placed : IsRect(q.rect)
      /\ \A q \in layout.placed : q # p => Apart(p, q, stock)
      /\ Clear(p, stock)
  BY <1>1 DEF SoundLayout
<1>10. \A zone \in stock.clamps \cup stock.defects \cup machine.keepouts : IsRect(zone)
  BY DEF IsStock, IsMachine
<1> DEFINE cut == ToMachine(big, p, stock, f.side)
<1>11. /\ IsRect(o.envelope) /\ SheetCut(o, stock) = OnSheet(small, p)
       /\ Within(o.envelope, cut) /\ IsRect(cut)
  <2>1. /\ IsRect(ToMachine(small, p, stock, f.side)) /\ IsRect(ToMachine(big, p, stock, f.side))
        /\ Within(ToMachine(small, p, stock, f.side), ToMachine(big, p, stock, f.side))
        /\ (IF f.side = "B" THEN Flipped(ToMachine(small, p, stock, f.side), stock)
                            ELSE ToMachine(small, p, stock, f.side)) = OnSheet(small, p)
    <3> HIDE DEF small, big
    <3> QED
      BY <1>5, <1>6, <1>8, OnTheMachine
  <2> QED
    BY <1>2, <2>1 DEF SheetCut
<1>12. IsRect(OnSheet(small, p)) /\ IsRect(OnSheet(big, p)) /\ Within(OnSheet(small, p), OnSheet(big, p))
  BY <1>5, <1>6, OnTheSheet
<1> HIDE DEF small, big, part, cut
<1>13. \A zone \in stock.clamps \cup machine.keepouts : ~Intersects(o.envelope, zone, 0)
  <2> SUFFICES ASSUME NEW zone \in stock.clamps \cup machine.keepouts
               PROVE  ~Intersects(o.envelope, zone, 0)
    OBVIOUS
  <2>1. ~Intersects(cut, zone, 0)
    BY <1>7 DEF CleanCut, cut, big
  <2> QED
    BY <1>10, <1>11, <2>1, InnerMeetsLess
<1>14. f.open = {} => Within(OnSheet(big, p), p.rect)
  <2> SUFFICES ASSUME f.open = {} PROVE Within(OnSheet(big, p), p.rect)
    OBVIOUS
  <2>1. big.x >= 0 /\ big.y >= 0 /\ Right(big) <= part.w /\ Top(big) <= part.l
    BY <1>7 DEF EnvelopeDeclared, big
  <2> QED
    BY <1>4, <1>5, <1>6, <2>1, WithinPlacement
<1>15. f.open = {} => Within(OnSheet(small, p), p.rect)
  BY <1>6, <1>12, <1>14, WithinIsTransitive
<1>16. o.release => f.open = {}
  BY <1>2, <1>4 DEF IsFeature
<1>17. ASSUME NEW q \in layout.placed, q.sheet = o.sheet, <<q.part, q.n>> # <<o.part, o.n>>
       PROVE  ~Intersects(SheetCut(o, stock), q.rect, IF o.release THEN stock.kerf ELSE 0)
  <2>1. q # p /\ q.sheet = p.sheet /\ IsRect(q.rect)
    BY <1>2, <1>9, <1>17
  <2>2. CASE f.open = {}
    <3>1. ~Intersects(p.rect, q.rect, stock.kerf)
      BY <1>9, <2>1 DEF Apart
    <3>2. ~Intersects(OnSheet(small, p), q.rect, stock.kerf)
      BY <1>6, <1>8, <1>12, <1>15, <2>1, <2>2, <3>1, InnerMeetsLess
    <3>3. ~Intersects(OnSheet(small, p), q.rect, 0)
      BY <1>6, <1>8, <1>12, <1>15, <2>1, <2>2, <3>1, InnerMeetsLess
    <3> QED
      BY <1>11, <3>2, <3>3
  <2>3. CASE f.open # {}
    <3>1. ~Intersects(cut, PlacementToMachine(q, stock, f.side), 0)
      BY <1>7, <2>1, <2>3, <1>17 DEF CleanCut, cut, big
    <3>2. ~Intersects(OnSheet(big, p), q.rect, 0)
      BY <1>5, <1>6, <1>8, <2>1, <3>1, MeetsOnMachine DEF cut
    <3>3. ~Intersects(OnSheet(small, p), q.rect, 0)
      BY <1>12, <2>1, <3>2, InnerMeetsLess
    <3>4. ~o.release
      BY <1>16, <2>3
    <3> QED
      BY <1>11, <3>3, <3>4
  <2> QED
    BY <2>2, <2>3
<1>18. ASSUME o.release, NEW zone \in stock.clamps \cup stock.defects
       PROVE  ~Intersects(SheetCut(o, stock), zone, stock.kerf)
  <2>1. ~Intersects(p.rect, zone, stock.kerf)
    BY <1>9 DEF Clear
  <2>2. Within(OnSheet(small, p), p.rect)
    BY <1>15, <1>16, <1>18
  <2> QED
    BY <1>6, <1>8, <1>10, <1>11, <1>12, <2>1, <2>2, InnerMeetsLess
<1> QED
  BY <1>13, <1>17, <1>18 DEF KeepsClear

\* Cuts of one part from both sides leave the wall between them.
LEMMA WallRemains ==
    ASSUME NEW parts, SheetParts(parts), NEW stock, IsStock(stock), NEW layout,
           SoundLayout(layout, Instances(parts), stock), NEW machine,
           \A part \in parts : CleanPart(part),
           NEW i \in Instances(parts), NEW p, NEW f, NEW piece, NEW a,
           IsOperation(a, i, p, f, piece, layout, stock, machine),
           NEW j \in Instances(parts), NEW q, NEW g, NEW other, NEW b,
           IsOperation(b, j, q, g, other, layout, stock, machine),
           <<a.part, a.n>> = <<b.part, b.n>>, a.side = "A", b.side = "B", ~a.through, ~b.through,
           Intersects(SheetCut(a, stock), SheetCut(b, stock), 0)
    PROVE  stock.thickness - a.depth - b.depth >= MinRemainingWall
<1>1. /\ p \in layout.placed /\ PlacementOf(i, stock, p) /\ compatible(i.part, stock)
      /\ f \in i.part.features /\ piece \in Pieces(f)
      /\ a = OperationAt(p, f, piece, stock, machine)
  BY DEF IsOperation
<1>2. /\ q \in layout.placed /\ PlacementOf(j, stock, q)
      /\ g \in j.part.features /\ other \in Pieces(g)
      /\ b = OperationAt(q, g, other, stock, machine)
  BY DEF IsOperation
<1>3. /\ a.part = p.part /\ a.n = p.n /\ a.side = f.side /\ a.depth = f.depth /\ a.through = f.through
      /\ a.envelope = ToMachine(MachiningBounds(piece), p, stock, f.side)
  BY <1>1, OperationFields
<1>4. /\ b.part = q.part /\ b.n = q.n /\ b.side = g.side /\ b.depth = g.depth /\ b.through = g.through
      /\ b.envelope = ToMachine(MachiningBounds(other), q, stock, g.side)
  BY <1>2, OperationFields
<1>5. p = q
  BY <1>1, <1>2, <1>3, <1>4 DEF SoundLayout, Apart
<1>6. PartOf(p, parts) = i.part /\ i.part \in parts
  BY <1>1, PlacedPart
<1>7. PartOf(q, parts) = j.part
  BY <1>2, PlacedPart
<1>8. i.part = j.part
  BY <1>5, <1>6, <1>7
<1>9. IsFeature(f) /\ IsFeature(g)
  BY <1>1, <1>2, <1>6, <1>8 DEF SheetParts, IsPart
<1>10. /\ IsRect(MachiningBounds(f)) /\ IsRect(MachiningBounds(piece))
       /\ Within(MachiningBounds(piece), MachiningBounds(f))
  BY <1>1, <1>9, PieceIsCutWithin
<1>11. /\ IsRect(MachiningBounds(g)) /\ IsRect(MachiningBounds(other))
       /\ Within(MachiningBounds(other), MachiningBounds(g))
  BY <1>2, <1>9, PieceIsCutWithin
<1>12. IsRect(p.rect) /\ p.rotated \in BOOLEAN
  BY <1>1, LiesFields
<1>13. stock.l \in Int
  BY DEF IsStock
<1>14. SheetCut(a, stock) = OnSheet(MachiningBounds(piece), p)
  BY <1>3, <1>10, <1>12, <1>13, OnTheMachine DEF SheetCut
<1>15. SheetCut(b, stock) = OnSheet(MachiningBounds(other), p)
  BY <1>4, <1>5, <1>11, <1>12, <1>13, OnTheMachine DEF SheetCut
<1>16. Intersects(MachiningBounds(piece), MachiningBounds(other), 0)
  BY <1>10, <1>11, <1>12, <1>14, <1>15, OnTheSheet
<1>17. Intersects(MachiningBounds(f), MachiningBounds(other), 0)
  BY <1>10, <1>11, <1>16, InnerMeetsLess
<1>18. Intersects(MachiningBounds(f), MachiningBounds(g), 0)
  BY <1>10, <1>11, <1>17, InnerMeetsLess, IntersectsIsSymmetric
<1>19. i.part.thickness - f.depth - g.depth >= MinRemainingWall
  BY <1>1, <1>2, <1>3, <1>4, <1>6, <1>8, <1>18 DEF CleanPart
<1> QED
  BY <1>1, <1>3, <1>4, <1>19 DEF compatible

-----------------------------------------------------------------------------
(***************************************************************************)
(* The order of the operations.                                            *)
(***************************************************************************)
LEMMA ToolIsFound ==
    ASSUME NEW f, NEW machine, IsMachine(machine), select_tool(f, machine) # {}
    PROVE  ToolOf(f, machine) \in machine.tools
<1> DEFINE T == select_tool(f, machine)
           k == [t \in T |-> ToolKey(t)]
<1>1. T \subseteq machine.tools
  BY DEF select_tool
<1>2. IsFiniteSet(T)
  BY <1>1, FS_Subset DEF IsMachine
<1>3. ASSUME NEW t \in T PROVE k[t] \in Seq(Int) /\ Len(k[t]) = 2 /\ k[t][2] = t.id
  <2>1. k[t] = <<t.dia, t.id>>
    BY DEF ToolKey
  <2>2. t.dia \in Int /\ t.id \in Int
    BY <1>1 DEF IsMachine
  <2> HIDE DEF T, k
  <2> QED
    BY <2>1, <2>2
<1>4. ASSUME NEW t \in T, NEW u \in T, k[t] = k[u] PROVE t = u
  <2>1. t.id = u.id
    <3> HIDE DEF T, k
    <3> QED
      BY <1>3, <1>4
  <2> QED
    BY <1>1, <2>1 DEF IsMachine
<1>5. PICK x \in T : \A y \in T : y = x \/ Before(k[x], k[y])
  <2>1. T # {}
    OBVIOUS
  <2> HIDE DEF k, T
  <2>2. \A t \in T : k[t] \in Seq(Int) /\ Len(k[t]) = 2
    BY <1>3
  <2>3. \A t, u \in T : k[t] = k[u] => t = u
    BY <1>4
  <2> QED
    BY <1>2, <2>1, <2>2, <2>3, FirstByKey
<1>6. \A y \in T : y = x \/ Before(ToolKey(x), ToolKey(y))
  BY <1>5
<1>7. ToolOf(f, machine) \in T
  BY <1>6 DEF ToolOf, Least
<1> QED
  BY <1>1, <1>7

\* The operations of a plan that is not blocked: of parts in design, stocks and tools.
PlainOperation(o) ==
    /\ {o.stock, o.sheet, o.tool, o.part, o.n, o.feature, o.hole} \subseteq Int
    /\ o.release \in BOOLEAN /\ o.side \in {"A", "B"} /\ o.kind \in DOMAIN KindOrder
OperationId(o) == <<o.stock, o.sheet, o.part, o.n, o.feature, o.hole>>

LEMMA OperationIsPlain ==
    ASSUME NEW parts, SheetParts(parts), NEW stock, IsStock(stock), NEW layout, NEW machine,
           IsMachine(machine), NEW i \in Instances(parts), NEW p, NEW f, NEW piece, NEW o,
           IsOperation(o, i, p, f, piece, layout, stock, machine),
           f.side # "EDGE", select_tool(f, machine) # {}
    PROVE  PlainOperation(o)
<1>1. /\ p \in layout.placed /\ PlacementOf(i, stock, p)
      /\ f \in i.part.features /\ piece \in Pieces(f)
      /\ o = OperationAt(p, f, piece, stock, machine)
  BY DEF IsOperation
<1>2. /\ o.stock = stock.id /\ o.sheet = p.sheet /\ o.part = p.part /\ o.n = p.n
      /\ o.feature = f.id /\ o.hole = piece.x /\ o.kind = OperationOf(f) /\ o.side = f.side
      /\ o.tool = ToolOf(f, machine).id /\ o.release = IsRelease(f)
  BY <1>1, OperationFields
<1>3. i.part \in parts /\ i.n \in Int
  BY InstancesOfParts
<1>4. IsFeature(f) /\ i.part.id \in Int
  BY <1>1, <1>3 DEF SheetParts, IsPart
<1>5. /\ f.side \in {"A", "B"} /\ f.id \in Int /\ f.kind \in FeatureKinds /\ f.through \in BOOLEAN
      /\ f.x \in Int /\ f.pitch \in Nat /\ f.count \in Nat
  BY <1>4 DEF IsFeature
<1>6. stock.id \in Int /\ stock.quantity \in Nat
  BY DEF IsStock
<1>7. p.sheet \in Int /\ p.part \in Int /\ p.n \in Int
  <2>1. p.part = i.part.id /\ p.n = i.n /\ p.sheet \in 0 .. stock.quantity - 1
    BY <1>1, LiesFields
  <2> QED
    BY <1>3, <1>4, <1>6, <2>1
<1>8. piece.x \in Int
  <2>1. PICK h \in 0 .. f.count - 1 : piece.x = f.x + h * f.pitch
    BY <1>1, <1>4, PieceFields
  <2> QED
    BY <1>5, <2>1
<1>9. ToolOf(f, machine).id \in Int
  BY ToolIsFound DEF IsMachine
<1>10. OperationOf(f) \in DOMAIN KindOrder
  BY <1>5 DEF OperationOf, KindOrder, FeatureKinds, Holes
<1>11. IsRelease(f) \in BOOLEAN
  BY <1>5 DEF IsRelease
<1> QED
  BY <1>2, <1>5, <1>6, <1>7, <1>8, <1>9, <1>10, <1>11 DEF PlainOperation

\* The identity of an operation on its stock names it.
LEMMA OperationIdNamesIt ==
    ASSUME NEW parts, SheetParts(parts), NEW stock, IsStock(stock), NEW layout,
           SoundLayout(layout, Instances(parts), stock), NEW machine,
           NEW i \in Instances(parts), NEW p, NEW f, NEW piece, NEW a,
           IsOperation(a, i, p, f, piece, layout, stock, machine),
           NEW j \in Instances(parts), NEW q, NEW g, NEW other, NEW b,
           IsOperation(b, j, q, g, other, layout, stock, machine),
           OperationId(a) = OperationId(b)
    PROVE  a = b
<1>1. /\ p \in layout.placed /\ PlacementOf(i, stock, p)
      /\ f \in i.part.features /\ piece \in Pieces(f)
      /\ a = OperationAt(p, f, piece, stock, machine)
  BY DEF IsOperation
<1>2. /\ q \in layout.placed /\ PlacementOf(j, stock, q)
      /\ g \in j.part.features /\ other \in Pieces(g)
      /\ b = OperationAt(q, g, other, stock, machine)
  BY DEF IsOperation
<1>3. a.part = p.part /\ a.n = p.n /\ a.feature = f.id /\ a.hole = piece.x
  BY <1>1, OperationFields
<1>4. b.part = q.part /\ b.n = q.n /\ b.feature = g.id /\ b.hole = other.x
  BY <1>2, OperationFields
<1>5. a.part = b.part /\ a.n = b.n /\ a.feature = b.feature /\ a.hole = b.hole
  BY DEF OperationId
<1>6. p = q
  BY <1>1, <1>2, <1>3, <1>4, <1>5 DEF SoundLayout, Apart
<1>7. i.part = j.part /\ i.part \in parts
  BY <1>1, <1>2, <1>6, PlacedPart
<1>8. f = g /\ IsFeature(f)
  <2>1. IsPart(i.part)
    BY <1>7 DEF SheetParts
  <2>2. f.id = g.id /\ g \in i.part.features
    BY <1>2, <1>3, <1>4, <1>5, <1>7
  <2> QED
    BY <1>1, <2>1, <2>2 DEF IsPart
<1>9. piece = PieceAt(f, piece.x) /\ other = PieceAt(f, other.x)
  <2>1. other \in Pieces(f)
    BY <1>2, <1>8
  <2>2. piece = PieceAt(f, piece.x)
    BY <1>1, <1>8, PieceFields
  <2>3. other = PieceAt(f, other.x)
    BY <2>1, <1>8, PieceFields
  <2> QED
    BY <2>2, <2>3
<1>10. piece = other
  BY <1>3, <1>4, <1>5, <1>8, <1>9
<1> QED
  BY <1>1, <1>2, <1>6, <1>8, <1>10

-----------------------------------------------------------------------------
(***************************************************************************)
(* A plan: the sheets of all stocks, screened and not blocked.             *)
(***************************************************************************)
SheetInputs(design, stocks, machine) ==
    /\ IsDesign(design) /\ IsMachine(machine) /\ IsFiniteSet(stocks)
    /\ \A s \in stocks : IsStock(s)
    /\ StockIdentitiesUnique(stocks)
Planned(design, stocks, machine, registrations) ==
    LET layouts == Layouts(design.parts, stocks)
    IN  /\ SheetInputs(design, stocks, machine)
        /\ Blocking(run_dfm_screen(design.parts, stocks, machine, layouts)) = {}
        /\ SetupBlocker(design, stocks, machine, registrations, layouts) = ""

\* What is true of the sheets of one stock in it.
SoundSheets(parts, stock, layout, machine) ==
    /\ SheetParts(parts) /\ IsStock(stock)
    /\ SoundLayout(layout, Instances(parts), stock)
    /\ \A part \in parts : CleanPart(part)
    /\ \A p \in layout.placed : \A f \in PartOf(p, parts).features :
            f.side # "EDGE" => CleanCut(f, p, layout, stock, machine)
    /\ \A part \in parts : \A f \in part.features :
            f.side # "EDGE" /\ select_tool(f, machine) # {}
    /\ \A p \in layout.placed :
            ~SequenceConflicts(p.sheet, OperationsFor(layout, parts, stock, machine))

LEMMA StockIsFound ==
    ASSUME NEW stocks, StockIdentitiesUnique(stocks), NEW s \in stocks
    PROVE  StockOf(s.id, stocks) = s
BY DEF StockOf, StockIdentitiesUnique

LEMMA PartsOnSheets ==
    ASSUME NEW design, IsDesign(design), NEW stocks, NEW s
    PROVE  SheetParts(PartsOn(s, design.parts, stocks))
<1>1. PartsOn(s, design.parts, stocks) \subseteq design.parts
  BY DEF PartsOn
<1>2. IsFiniteSet(PartsOn(s, design.parts, stocks))
  BY <1>1, FS_Subset DEF IsDesign
<1> QED
  BY <1>1, <1>2 DEF IsDesign, SheetParts

LEMMA LayoutOf ==
    ASSUME NEW design, NEW stocks, NEW machine, SheetInputs(design, stocks, machine),
           NEW s \in UsedStocks(design.parts, stocks)
    PROVE  /\ s \in stocks /\ IsStock(s)
           /\ Layouts(design.parts, stocks)[s.id] = nest(PartsOn(s, design.parts, stocks), s)
           /\ SoundLayout(Layouts(design.parts, stocks)[s.id],
                          Instances(PartsOn(s, design.parts, stocks)), s)
<1> DEFINE parts == PartsOn(s, design.parts, stocks)
<1>1. s \in stocks
  BY DEF UsedStocks
<1>2. IsStock(s) /\ StockOf(s.id, stocks) = s
  BY <1>1, StockIsFound DEF SheetInputs
<1>3. s.id \in {t.id : t \in UsedStocks(design.parts, stocks)}
  OBVIOUS
<1>4. Layouts(design.parts, stocks)[s.id] = nest(parts, s)
  BY <1>2, <1>3 DEF Layouts
<1>5. SheetParts(parts)
  BY PartsOnSheets DEF SheetInputs
<1> QED
  BY <1>1, <1>2, <1>4, <1>5, NestIsSound

LEMMA SingleKey ==
    ASSUME NEW n \in Int
    PROVE  <<n>> \in Seq(Int) /\ Len(<<n>>) = 1 /\ <<n>>[1] = n
OBVIOUS

LEMMA NoStockIsStuck ==
    ASSUME NEW design, NEW stocks, NEW machine, NEW registrations, NEW layouts,
           SheetInputs(design, stocks, machine),
           SetupBlocker(design, stocks, machine, registrations, layouts) = "",
           NEW s \in UsedStocks(design.parts, stocks)
    PROVE  PlanBlocker(layouts[s.id], PartsOn(s, design.parts, stocks), s, machine,
                       registrations) = ""
<1> DEFINE Of(t) == PlanBlocker(layouts[t.id], PartsOn(t, design.parts, stocks), t, machine,
                                registrations)
           stuck == {t \in UsedStocks(design.parts, stocks) : Of(t) # ""}
           k == [t \in stuck |-> <<t.id>>]
<1>1. SetupBlocker(design, stocks, machine, registrations, layouts) =
        IF stuck = {} THEN "" ELSE Of(Least(stuck, LAMBDA t : <<t.id>>))
  BY DEF SetupBlocker
<1>2. ASSUME stuck # {} PROVE FALSE
  <2>1. stuck \subseteq stocks
    BY DEF UsedStocks
  <2>2. IsFiniteSet(stuck)
    <3> HIDE DEF stuck
    <3> QED
      BY <2>1, FS_Subset DEF SheetInputs
  <2>3. \A t \in stuck : k[t] \in Seq(Int) /\ Len(k[t]) = 1 /\ k[t][1] = t.id
    <3>1. \A t \in stuck : t.id \in Int
      BY <2>1 DEF SheetInputs, IsStock
    <3> HIDE DEF stuck
    <3> SUFFICES ASSUME NEW t \in stuck PROVE k[t] \in Seq(Int) /\ Len(k[t]) = 1 /\ k[t][1] = t.id
      OBVIOUS
    <3>2. k[t] = <<t.id>> /\ t.id \in Int
      BY <3>1
    <3> HIDE DEF k
    <3> QED
      BY <3>2, SingleKey
  <2>4. \A t, u \in stuck : k[t] = k[u] => t = u
    <3>1. \A t, u \in stuck : t.id = u.id => t = u
      BY <2>1 DEF SheetInputs, StockIdentitiesUnique
    <3> HIDE DEF stuck, k
    <3> SUFFICES ASSUME NEW t \in stuck, NEW u \in stuck, k[t] = k[u] PROVE t = u
      OBVIOUS
    <3>2. k[t][1] = t.id /\ k[u][1] = u.id
      BY <2>3
    <3> QED
      BY <3>1, <3>2
  <2>5. PICK x \in stuck : \A y \in stuck : y = x \/ Before(k[x], k[y])
    <3> HIDE DEF stuck, k
    <3>1. \A t \in stuck : k[t] \in Seq(Int) /\ Len(k[t]) = 1
      BY <2>3
    <3> QED
      BY <1>2, <2>2, <2>4, <3>1, FirstByKey
  <2> HIDE DEF stuck
  <2>6. \A y \in stuck : y = x \/ Before(<<x.id>>, <<y.id>>)
    BY <2>5
  <2>7. Least(stuck, LAMBDA t : <<t.id>>) \in stuck
    BY <2>6 DEF Least
  <2>8. Of(Least(stuck, LAMBDA t : <<t.id>>)) = ""
    BY <1>1, <1>2
  <2> DEFINE l == Least(stuck, LAMBDA t : <<t.id>>)
  <2> HIDE DEF l, Of
  <2>9. Of(l) = "" /\ l \in stuck
    BY <2>7, <2>8 DEF l
  <2> QED
    BY <2>9 DEF stuck
<1> QED
  BY <1>2

LEMMA PlannedSheets ==
    ASSUME NEW design, NEW stocks, NEW machine, NEW registrations,
           Planned(design, stocks, machine, registrations),
           NEW s \in UsedStocks(design.parts, stocks)
    PROVE  SoundSheets(PartsOn(s, design.parts, stocks), s, Layouts(design.parts, stocks)[s.id], machine)
<1> DEFINE layouts == Layouts(design.parts, stocks)
           parts == PartsOn(s, design.parts, stocks)
           layout == layouts[s.id]
<1>1. /\ SheetInputs(design, stocks, machine)
      /\ Blocking(run_dfm_screen(design.parts, stocks, machine, layouts)) = {}
      /\ SetupBlocker(design, stocks, machine, registrations, layouts) = ""
  BY DEF Planned
<1>2. IsStock(s) /\ SoundLayout(layout, Instances(parts), s)
  BY <1>1, LayoutOf
<1>3. SheetParts(parts)
  BY <1>1, PartsOnSheets DEF SheetInputs
<1>4. PlanBlocker(layout, parts, s, machine, registrations) = ""
  <2> HIDE DEF layouts
  <2> QED
    BY <1>1, NoStockIsStuck
<1>5. Blocking(Screen(parts, layout, s, machine)) = {}
  <2> DEFINE Of(t) == Screen(PartsOn(t, design.parts, stocks), layouts[t.id], t, machine)
  <2>1. run_dfm_screen(design.parts, stocks, machine, layouts) =
            UNION {Of(t) : t \in UsedStocks(design.parts, stocks)}
    BY DEF run_dfm_screen
  <2> HIDE DEF Of
  <2>2. Of(s) \subseteq run_dfm_screen(design.parts, stocks, machine, layouts)
    BY <2>1
  <2>3. Blocking(Of(s)) = {}
    BY <1>1, <2>2 DEF Blocking
  <2> QED
    BY <2>3 DEF Of
<1> HIDE DEF layouts, parts, layout
<1>6. /\ \A part \in parts : CleanPart(part)
      /\ \A p \in layout.placed : \A f \in PartOf(p, parts).features :
            f.side # "EDGE" => CleanCut(f, p, layout, s, machine)
  BY <1>3, <1>5, CleanScreen
<1>7. /\ ~(\E p \in parts : \E f \in p.features : f.side = "EDGE" \/ select_tool(f, machine) = {})
      /\ ~(\E t \in {p.sheet : p \in layout.placed} :
                SequenceConflicts(t, OperationsFor(layout, parts, s, machine)))
  BY <1>4 DEF PlanBlocker
<1>8. /\ \A part \in parts : \A f \in part.features :
            f.side # "EDGE" /\ select_tool(f, machine) # {}
      /\ \A p \in layout.placed :
            ~SequenceConflicts(p.sheet, OperationsFor(layout, parts, s, machine))
  BY <1>7
<1>9. SoundSheets(parts, s, layout, machine)
  BY <1>2, <1>3, <1>6, <1>8 DEF SoundSheets, layout
<1> QED
  BY <1>9 DEF parts, layout, layouts

LEMMA FiniteUnion ==
    ASSUME NEW S, IsFiniteSet(S), NEW f, \A x \in S : IsFiniteSet(f[x])
    PROVE  IsFiniteSet(UNION {f[x] : x \in S})
<1>1. IsFiniteSet({f[x] : x \in S})
  BY FiniteImage
<1> QED
  BY <1>1, FS_UNION

LEMMA FinitePieces ==
    ASSUME NEW f, IsFeature(f)
    PROVE  IsFiniteSet(Pieces(f))
<1> DEFINE point == [i \in 0 .. f.count - 1 |-> <<f.x + i * f.pitch, f.y>>]
           piece == [h \in Points(f) |-> [f EXCEPT !.x = h[1], !.count = 1]]
<1>1. IsFiniteSet(0 .. f.count - 1)
  <2>1. f.count - 1 \in Int
    BY DEF IsFeature
  <2> QED
    BY <2>1, FS_Interval
<1>2. IsFiniteSet({point[i] : i \in 0 .. f.count - 1})
  <2> HIDE DEF point
  <2> QED
    BY <1>1, FiniteImage
<1>3. Points(f) = {point[i] : i \in 0 .. f.count - 1}
  BY DEF Points
<1>4. IsFiniteSet(Points(f))
  BY <1>2, <1>3
<1>5. IsFiniteSet({piece[h] : h \in Points(f)})
  <2> HIDE DEF piece
  <2> QED
    BY <1>4, FiniteImage
<1>6. Pieces(f) = {piece[h] : h \in Points(f)}
  BY DEF Pieces
<1> QED
  BY <1>5, <1>6

LEMMA FiniteOperations ==
    ASSUME NEW parts, NEW stock, NEW layout, NEW machine, SoundSheets(parts, stock, layout, machine)
    PROVE  IsFiniteSet(OperationsFor(layout, parts, stock, machine))
<1> DEFINE Cut(p, f) == {OperationAt(p, f, piece, stock, machine) : piece \in Pieces(f)}
           Of(p) == UNION {Cut(p, f) : f \in PartOf(p, parts).features}
           of == [p \in layout.placed |-> Of(p)]
<1>1. SheetParts(parts) /\ IsStock(stock) /\ SoundLayout(layout, Instances(parts), stock)
  BY DEF SoundSheets
<1>2. IsFiniteSet(layout.placed)
  BY <1>1 DEF SoundLayout
<1>3. ASSUME NEW f, IsFeature(f), NEW p PROVE IsFiniteSet(Cut(p, f))
  <2> DEFINE g == [piece \in Pieces(f) |-> OperationAt(p, f, piece, stock, machine)]
  <2>1. IsFiniteSet(Pieces(f))
    BY <1>3, FinitePieces
  <2>2. IsFiniteSet({g[piece] : piece \in Pieces(f)})
    <3> HIDE DEF g
    <3> QED
      BY <2>1, FiniteImage
  <2>3. {g[piece] : piece \in Pieces(f)} = Cut(p, f)
    OBVIOUS
  <2> QED
    BY <2>2, <2>3
<1>4. ASSUME NEW p \in layout.placed PROVE IsFiniteSet(Of(p))
  <2>1. PICK i \in Instances(parts) : PlacementOf(i, stock, p)
    BY <1>1 DEF SoundLayout, Lies
  <2>2. PartOf(p, parts) \in parts
    BY <1>1, <2>1, PlacedPart
  <2>3. IsPart(PartOf(p, parts))
    BY <1>1, <2>2 DEF SheetParts
  <2> DEFINE F == PartOf(p, parts).features
             h == [f \in F |-> Cut(p, f)]
  <2>4. IsFiniteSet(F) /\ \A f \in F : IsFeature(f)
    BY <2>3 DEF IsPart
  <2>5. \A f \in F : IsFiniteSet(h[f])
    <3> HIDE DEF F, Cut
    <3> QED
      BY <1>3, <2>4
  <2>6. IsFiniteSet(UNION {h[f] : f \in F})
    <3> HIDE DEF h, F
    <3> QED
      BY <2>4, <2>5, FiniteUnion
  <2>7. UNION {h[f] : f \in F} = Of(p)
    <3> HIDE DEF Cut
    <3> QED
      OBVIOUS
  <2> QED
    BY <2>6, <2>7
<1>5. IsFiniteSet(UNION {of[p] : p \in layout.placed})
  <2>1. \A p \in layout.placed : IsFiniteSet(of[p])
    <3> HIDE DEF Of
    <3> QED
      BY <1>4
  <2> HIDE DEF of
  <2> QED
    BY <1>2, <2>1, FiniteUnion
<1>6. OperationsFor(layout, parts, stock, machine) = UNION {Of(p) : p \in layout.placed}
  BY DEF OperationsFor, PartOf, OperationAt
<1>7. UNION {Of(p) : p \in layout.placed} = UNION {of[p] : p \in layout.placed}
  <2> HIDE DEF Of
  <2> QED
    OBVIOUS
<1> QED
  BY <1>5, <1>6, <1>7

\* All operations of a plan, and the stock of each.
PlanOperations(design, stocks, machine) ==
    UNION {OperationsFor(Layouts(design.parts, stocks)[s.id], PartsOn(s, design.parts, stocks), s, machine) :
           s \in UsedStocks(design.parts, stocks)}
IsOfPlan(o, s, i, p, f, piece, design, stocks, machine) ==
    /\ s \in UsedStocks(design.parts, stocks)
    /\ i \in Instances(PartsOn(s, design.parts, stocks))
    /\ o \in OperationsFor(Layouts(design.parts, stocks)[s.id], PartsOn(s, design.parts, stocks), s,
                           machine)
    /\ IsOperation(o, i, p, f, piece, Layouts(design.parts, stocks)[s.id], s, machine)

LEMMA OperationOfPlan ==
    ASSUME NEW design, NEW stocks, NEW machine, NEW registrations,
           Planned(design, stocks, machine, registrations),
           NEW o \in PlanOperations(design, stocks, machine)
    PROVE  \E s, i, p, f, piece : IsOfPlan(o, s, i, p, f, piece, design, stocks, machine)
<1> DEFINE layouts == Layouts(design.parts, stocks)
           Of(s) == OperationsFor(layouts[s.id], PartsOn(s, design.parts, stocks), s, machine)
<1>1. PlanOperations(design, stocks, machine) = UNION {Of(s) : s \in UsedStocks(design.parts, stocks)}
  BY DEF PlanOperations
<1>2. PICK s \in UsedStocks(design.parts, stocks) : o \in Of(s)
  <2> HIDE DEF Of
  <2> QED
    BY <1>1
<1>3. SoundSheets(PartsOn(s, design.parts, stocks), s, layouts[s.id], machine)
  BY PlannedSheets
<1>4. PICK i \in Instances(PartsOn(s, design.parts, stocks)) :
            \E p, f, piece : IsOperation(o, i, p, f, piece, layouts[s.id], s, machine)
  BY <1>2, <1>3, OperationsOfSheet DEF SoundSheets
<1>a. PICK p, f, piece : IsOperation(o, i, p, f, piece, layouts[s.id], s, machine)
  BY <1>4
<1>5. IsOfPlan(o, s, i, p, f, piece, design, stocks, machine)
  BY <1>2, <1>a DEF IsOfPlan
<1> QED
  BY <1>5

\* One operation of a plan: plain, clear of what it must not touch.
LEMMA PlannedOperation ==
    ASSUME NEW design, NEW stocks, NEW machine, NEW registrations,
           Planned(design, stocks, machine, registrations), NEW o, NEW s, NEW i, NEW p, NEW f, NEW piece,
           IsOfPlan(o, s, i, p, f, piece, design, stocks, machine)
    PROVE  /\ o.stock = s.id /\ StockOf(o.stock, stocks) = s /\ PlainOperation(o)
           /\ o.sheet = p.sheet /\ o.part = i.part.id /\ i.part \in PartsOn(s, design.parts, stocks)
           /\ p \in Layouts(design.parts, stocks)[s.id].placed
           /\ KeepsClear(o, Layouts(design.parts, stocks)[s.id], s, machine)
<1> DEFINE layout == Layouts(design.parts, stocks)[s.id]
           parts == PartsOn(s, design.parts, stocks)
<1>1. /\ s \in UsedStocks(design.parts, stocks) /\ i \in Instances(parts)
      /\ IsOperation(o, i, p, f, piece, layout, s, machine)
  BY DEF IsOfPlan
<1>2. SoundSheets(parts, s, layout, machine)
  BY <1>1, PlannedSheets
<1>3. SheetInputs(design, stocks, machine)
  BY DEF Planned
<1>4. s \in stocks
  BY <1>1 DEF UsedStocks
<1>5. StockOf(s.id, stocks) = s /\ IsMachine(machine)
  BY <1>3, <1>4, StockIsFound DEF SheetInputs
<1> HIDE DEF layout, parts
<1>6. /\ SheetParts(parts) /\ IsStock(s) /\ SoundLayout(layout, Instances(parts), s)
      /\ \A part \in parts : CleanPart(part)
      /\ \A q \in layout.placed : \A g \in PartOf(q, parts).features :
            g.side # "EDGE" => CleanCut(g, q, layout, s, machine)
      /\ \A part \in parts : \A g \in part.features :
            g.side # "EDGE" /\ select_tool(g, machine) # {}
  BY <1>2 DEF SoundSheets
<1>7. /\ p \in layout.placed /\ f \in i.part.features /\ PlacementOf(i, s, p)
      /\ o = OperationAt(p, f, piece, s, machine)
  BY <1>1 DEF IsOperation
<1>8. o.stock = s.id /\ o.sheet = p.sheet /\ o.part = p.part
  BY <1>7, OperationFields
<1>9. i.part \in parts
  BY <1>1, <1>6, InstancesOfParts
<1>10. f.side # "EDGE" /\ select_tool(f, machine) # {}
  BY <1>6, <1>7, <1>9
<1>11. PlainOperation(o)
  BY <1>1, <1>5, <1>6, <1>10, OperationIsPlain
<1>12. KeepsClear(o, layout, s, machine)
  BY <1>1, <1>5, <1>6, <1>10, CutKeepsClear
<1>13. p.part = i.part.id
  BY <1>1, <1>6, <1>7, LiesFields
<1> QED
  BY <1>5, <1>7, <1>8, <1>9, <1>11, <1>12, <1>13 DEF layout, parts

LEMMA KeyOfOperationIs ==
    ASSUME NEW o, PlainOperation(o)
    PROVE  /\ OperationKey(o) \in Seq(Int) /\ Len(OperationKey(o)) = 11
           /\ OperationKey(o)[1] = o.stock /\ OperationKey(o)[2] = o.sheet
           /\ OperationKey(o)[3] = (IF o.release THEN 1 ELSE 0)
           /\ OperationKey(o)[4] = (IF o.side = "B" THEN 0 ELSE 1)
           /\ OperationKey(o)[8] = o.part /\ OperationKey(o)[9] = o.n
           /\ OperationKey(o)[10] = o.feature /\ OperationKey(o)[11] = o.hole
<1> DEFINE r == IF o.release THEN 1 ELSE 0
           s == IF o.side = "B" THEN 0 ELSE 1
           c == IF o.kind = "CONTOUR" THEN 1 ELSE 0
           k == KindOrder[o.kind]
<1>1. /\ o.stock \in Int /\ o.sheet \in Int /\ o.tool \in Int /\ o.part \in Int /\ o.n \in Int
      /\ o.feature \in Int /\ o.hole \in Int
  BY DEF PlainOperation
<1>2. r \in Int /\ s \in Int /\ c \in Int
  OBVIOUS
<1>3. k \in Int
  BY DEF PlainOperation, KindOrder
<1>4. SideSequence(o.side) = s
  BY DEF SideSequence, PlainOperation
<1>5. OperationKey(o) = <<o.stock, o.sheet, r, s, c, o.tool, k, o.part, o.n, o.feature, o.hole>>
  BY <1>4 DEF OperationKey
<1> HIDE DEF r, s, c, k
<1>6. OperationKey(o) \in Seq(Int) /\ Len(OperationKey(o)) = 11
  BY <1>1, <1>2, <1>3, <1>5
<1>7. /\ OperationKey(o)[1] = o.stock /\ OperationKey(o)[2] = o.sheet
      /\ OperationKey(o)[3] = r /\ OperationKey(o)[4] = s
      /\ OperationKey(o)[8] = o.part /\ OperationKey(o)[9] = o.n
      /\ OperationKey(o)[10] = o.feature /\ OperationKey(o)[11] = o.hole
  BY <1>5
<1> QED
  BY <1>6, <1>7 DEF r, s

\* Operations of a plan with one key are one operation.
LEMMA KeysTellApart ==
    ASSUME NEW design, NEW stocks, NEW machine, NEW registrations,
           Planned(design, stocks, machine, registrations),
           NEW a \in PlanOperations(design, stocks, machine),
           NEW b \in PlanOperations(design, stocks, machine),
           OperationKey(a) = OperationKey(b)
    PROVE  a = b
<1>1. PICK s, i, p, f, piece : IsOfPlan(a, s, i, p, f, piece, design, stocks, machine)
  BY OperationOfPlan
<1>2. PICK t, j, q, g, other : IsOfPlan(b, t, j, q, g, other, design, stocks, machine)
  BY OperationOfPlan
<1>3. a.stock = s.id /\ StockOf(a.stock, stocks) = s /\ PlainOperation(a)
  BY <1>1, PlannedOperation
<1>4. b.stock = t.id /\ StockOf(b.stock, stocks) = t /\ PlainOperation(b)
  BY <1>2, PlannedOperation
<1>5. /\ OperationKey(a)[1] = a.stock /\ OperationKey(a)[2] = a.sheet
      /\ OperationKey(a)[8] = a.part /\ OperationKey(a)[9] = a.n
      /\ OperationKey(a)[10] = a.feature /\ OperationKey(a)[11] = a.hole
  BY <1>3, KeyOfOperationIs
<1>6. /\ OperationKey(b)[1] = b.stock /\ OperationKey(b)[2] = b.sheet
      /\ OperationKey(b)[8] = b.part /\ OperationKey(b)[9] = b.n
      /\ OperationKey(b)[10] = b.feature /\ OperationKey(b)[11] = b.hole
  BY <1>4, KeyOfOperationIs
<1>7. OperationId(a) = OperationId(b)
  BY <1>5, <1>6 DEF OperationId
<1>8. a.stock = b.stock
  BY <1>5, <1>6
<1>9. s = t
  BY <1>3, <1>4, <1>8
<1> DEFINE parts == PartsOn(s, design.parts, stocks)
           layout == Layouts(design.parts, stocks)[s.id]
<1>10. SoundSheets(parts, s, layout, machine)
  BY <1>1, PlannedSheets DEF IsOfPlan
<1>11. i \in Instances(parts) /\ IsOperation(a, i, p, f, piece, layout, s, machine)
  BY <1>1 DEF IsOfPlan
<1>12. j \in Instances(parts) /\ IsOperation(b, j, q, g, other, layout, s, machine)
  BY <1>2, <1>9 DEF IsOfPlan
<1> HIDE DEF parts, layout
<1> QED
  BY <1>7, <1>10, <1>11, <1>12, OperationIdNamesIt DEF SoundSheets

LEMMA FinitePlan ==
    ASSUME NEW design, NEW stocks, NEW machine, NEW registrations,
           Planned(design, stocks, machine, registrations)
    PROVE  IsFiniteSet(PlanOperations(design, stocks, machine))
<1> DEFINE U == UsedStocks(design.parts, stocks)
           Of(s) == OperationsFor(Layouts(design.parts, stocks)[s.id], PartsOn(s, design.parts, stocks), s,
                                  machine)
           of == [s \in U |-> Of(s)]
<1>1. IsFiniteSet(U)
  <2>1. U \subseteq stocks
    BY DEF UsedStocks
  <2>2. IsFiniteSet(stocks)
    BY DEF Planned, SheetInputs
  <2> HIDE DEF U
  <2> QED
    BY <2>1, <2>2, FS_Subset
<1>2. ASSUME NEW s \in U PROVE IsFiniteSet(Of(s))
  BY PlannedSheets, FiniteOperations
<1>3. IsFiniteSet(UNION {of[s] : s \in U})
  <2>1. \A s \in U : IsFiniteSet(of[s])
    <3> HIDE DEF Of, U
    <3> QED
      BY <1>2
  <2> HIDE DEF of, U
  <2> QED
    BY <1>1, <2>1, FiniteUnion
<1>4. PlanOperations(design, stocks, machine) = UNION {Of(s) : s \in U}
  BY DEF PlanOperations
<1>5. UNION {Of(s) : s \in U} = UNION {of[s] : s \in U}
  <2> HIDE DEF Of, U
  <2> QED
    OBVIOUS
<1> QED
  BY <1>3, <1>4, <1>5

\* The operations document lists the operations by key.
LEMMA SequencedInOrder ==
    ASSUME NEW design, NEW stocks, NEW machine, NEW registrations,
           Planned(design, stocks, machine, registrations), NEW seq,
           seq = Sequenced(PlanOperations(design, stocks, machine))
    PROVE  /\ \A n \in DOMAIN seq : seq[n] \in PlanOperations(design, stocks, machine)
           /\ \A m, n \in DOMAIN seq : m < n => Before(OperationKey(seq[m]), OperationKey(seq[n]))
<1> DEFINE ops == PlanOperations(design, stocks, machine)
           k == [o \in ops |-> OperationKey(o)]
           R == ByKey(ops, k)
           N == Cardinality(ops)
<1>1. IsFiniteSet(ops)
  BY FinitePlan
<1>2. ASSUME NEW o \in ops PROVE k[o] = OperationKey(o) /\ k[o] \in Seq(Int) /\ Len(k[o]) = 11
  <2>1. PICK s, i, p, f, piece : IsOfPlan(o, s, i, p, f, piece, design, stocks, machine)
    BY OperationOfPlan
  <2>2. PlainOperation(o)
    BY <2>1, PlannedOperation
  <2>3. k[o] = OperationKey(o)
    OBVIOUS
  <2> HIDE DEF k, ops
  <2> QED
    BY <2>2, <2>3, KeyOfOperationIs
<1>3. ASSUME NEW a \in ops, NEW b \in ops, k[a] = k[b] PROVE a = b
  BY <1>2, <1>3, KeysTellApart
<1>4. seq = [n \in 1 .. N |-> CHOOSE o \in ops :
                Cardinality({q \in ops : Before(OperationKey(q), OperationKey(o))}) = n - 1]
  BY DEF Sequenced
<1> HIDE DEF k, ops
<1>5. StrictOrder(ops, R)
  <2>1. \A o \in ops : k[o] \in Seq(Int) /\ Len(k[o]) = 11
    BY <1>2
  <2>2. \A a, b \in ops : k[a] = k[b] => a = b
    BY <1>3
  <2> QED
    BY <2>1, <2>2, KeysOrder
<1>6. \A a, b \in ops : <<a, b>> \in R <=> Before(OperationKey(a), OperationKey(b))
  BY <1>2 DEF ByKey
<1> HIDE DEF R
<1>7. ASSUME NEW o \in ops
      PROVE  {q \in ops : Before(OperationKey(q), OperationKey(o))} = Earlier(ops, R, o)
  BY <1>6 DEF Earlier
<1>8. N \in Nat
  BY <1>1, FS_CardinalityType
<1>9. ASSUME NEW n \in 1 .. N PROVE seq[n] \in ops /\ Rank(ops, R, seq[n]) = n - 1
  <2>1. n - 1 \in 0 .. N - 1
    BY <1>8
  <2>2. PICK x \in ops : Rank(ops, R, x) = n - 1
    BY <1>1, <1>5, <2>1, RankIsBijective
  <2>3. Cardinality({q \in ops : Before(OperationKey(q), OperationKey(x))}) = n - 1
    BY <1>7, <2>2 DEF Rank
  <2>4. seq[n] = CHOOSE o \in ops :
                Cardinality({q \in ops : Before(OperationKey(q), OperationKey(o))}) = n - 1
    BY <1>4
  <2>5. /\ seq[n] \in ops
        /\ Cardinality({q \in ops : Before(OperationKey(q), OperationKey(seq[n]))}) = n - 1
    BY <2>3, <2>4
  <2> QED
    BY <1>7, <2>5 DEF Rank
<1>10. DOMAIN seq = 1 .. N
  BY <1>4
<1>11. \A m, n \in DOMAIN seq : m < n => <<seq[m], seq[n]>> \in R
  <2>1. IsRanking(ops, R, seq)
    BY <1>9, <1>10 DEF IsRanking
  <2>2. Ascends(ops, R, seq)
    BY <1>1, <1>5, <2>1, RankedInOrder
  <2> QED
    BY <2>2 DEF Ascends
<1>12. \A n \in DOMAIN seq : seq[n] \in ops
  BY <1>9, <1>10
<1> QED
  BY <1>6, <1>11, <1>12 DEF ops

LEMMA KeyEntry ==
    ASSUME NEW x \in Seq(Int), NEW n \in 1 .. Len(x)
    PROVE  x[n] \in Int
OBVIOUS

LEMMA BeforeOnSheet ==
    ASSUME NEW x \in Seq(Int), NEW y \in Seq(Int), Len(x) = 11, Len(y) = 11, Before(x, y),
           x[1] = y[1], x[2] = y[2]
    PROVE  x[3] <= y[3] /\ (x[3] = y[3] => x[4] <= y[4])
<1>1. PICK i \in 1 .. Len(x) : x[i] < y[i] /\ \A j \in 1 .. i - 1 : x[j] = y[j]
  BY DEF Before
<1>2. (\A n \in 1 .. Len(x) : x[n] \in Int) /\ (\A n \in 1 .. Len(y) : y[n] \in Int)
  BY KeyEntry
<1>3. /\ x[1] \in Int /\ x[2] \in Int /\ x[3] \in Int /\ x[4] \in Int
      /\ y[1] \in Int /\ y[2] \in Int /\ y[3] \in Int /\ y[4] \in Int
  BY <1>2
<1>4. i # 1 /\ i # 2 /\ i \in Int /\ i >= 1
  <2>1. i = 1 => FALSE
    BY <1>1, <1>3
  <2>2. i = 2 => FALSE
    BY <1>1, <1>3
  <2> QED
    BY <2>1, <2>2
<1>5. CASE i = 3
  BY <1>1, <1>3, <1>5
<1>6. CASE i = 4
  <2>1. x[4] < y[4]
    BY <1>1, <1>6
  <2>2. 3 \in 1 .. i - 1
    BY <1>6
  <2>3. x[3] = y[3]
    BY <1>1, <2>2
  <2> QED
    BY <1>3, <2>1, <2>3
<1>7. CASE i > 4
  <2>1. 3 \in 1 .. i - 1 /\ 4 \in 1 .. i - 1
    BY <1>4, <1>7
  <2>2. x[3] = y[3] /\ x[4] = y[4]
    BY <1>1, <2>1
  <2> QED
    BY <1>3, <2>2
<1> QED
  BY <1>4, <1>5, <1>6, <1>7

\* On one sheet: releases last, and the sheet is turned once.
LEMMA SheetIsTurnedOnce ==
    ASSUME NEW design, NEW stocks, NEW machine, NEW registrations,
           Planned(design, stocks, machine, registrations),
           NEW a \in PlanOperations(design, stocks, machine),
           NEW b \in PlanOperations(design, stocks, machine),
           a.stock = b.stock, a.sheet = b.sheet, Before(OperationKey(a), OperationKey(b))
    PROVE  (a.release => b.release) /\ (a.side = "A" => b.side = "A")
<1>1. PICK s, i, p, f, piece : IsOfPlan(a, s, i, p, f, piece, design, stocks, machine)
  BY OperationOfPlan
<1>2. PICK t, j, q, g, other : IsOfPlan(b, t, j, q, g, other, design, stocks, machine)
  BY OperationOfPlan
<1> DEFINE parts == PartsOn(s, design.parts, stocks)
           layout == Layouts(design.parts, stocks)[s.id]
           ops == OperationsFor(layout, parts, s, machine)
<1>3. /\ a.stock = s.id /\ StockOf(a.stock, stocks) = s /\ PlainOperation(a)
      /\ a.sheet = p.sheet /\ p \in layout.placed
  BY <1>1, PlannedOperation
<1>4. b.stock = t.id /\ StockOf(b.stock, stocks) = t /\ PlainOperation(b)
  BY <1>2, PlannedOperation
<1>5. s = t
  BY <1>3, <1>4
<1>6. a \in ops /\ b \in ops
  BY <1>1, <1>2, <1>5 DEF IsOfPlan
<1>7. SoundSheets(parts, s, layout, machine)
  BY <1>1, PlannedSheets DEF IsOfPlan
<1>8. ~SequenceConflicts(a.sheet, ops)
  BY <1>3, <1>7 DEF SoundSheets
<1> HIDE DEF ops
<1>9. ~(b.side = "B" /\ b.release /\ a.side = "A" /\ ~a.release)
  BY <1>6, <1>8 DEF SequenceConflicts
<1> DEFINE x == OperationKey(a)
           y == OperationKey(b)
<1>10. /\ x \in Seq(Int) /\ Len(x) = 11 /\ x[1] = a.stock /\ x[2] = a.sheet
       /\ x[3] = (IF a.release THEN 1 ELSE 0) /\ x[4] = (IF a.side = "B" THEN 0 ELSE 1)
  BY <1>3, KeyOfOperationIs
<1>11. /\ y \in Seq(Int) /\ Len(y) = 11 /\ y[1] = b.stock /\ y[2] = b.sheet
       /\ y[3] = (IF b.release THEN 1 ELSE 0) /\ y[4] = (IF b.side = "B" THEN 0 ELSE 1)
  BY <1>4, KeyOfOperationIs
<1> HIDE DEF x, y
<1>12. x[3] <= y[3] /\ (x[3] = y[3] => x[4] <= y[4])
  BY <1>10, <1>11, BeforeOnSheet DEF x, y
<1>13. a.release \in BOOLEAN /\ b.release \in BOOLEAN /\ a.side \in {"A", "B"} /\ b.side \in {"A", "B"}
  BY <1>3, <1>4 DEF PlainOperation
<1>14. a.release => b.release
  BY <1>10, <1>11, <1>12, <1>13
<1>15. a.side = "A" => b.side = "A"
  <2> SUFFICES ASSUME a.side = "A", b.side = "B" PROVE FALSE
    BY <1>13
  <2>1. x[4] = 1 /\ y[4] = 0
    BY <1>10, <1>11
  <2>2. x[3] # y[3]
    BY <1>12, <2>1
  <2>3. b.release /\ ~a.release
    BY <1>10, <1>11, <1>13, <1>14, <2>2
  <2> QED
    BY <1>9, <2>3
<1> QED
  BY <1>14, <1>15

\* A part is made of one stock.
LEMMA OneStockOfPart ==
    ASSUME NEW design, IsDesign(design), NEW stocks, NEW s, NEW t,
           NEW p \in PartsOn(s, design.parts, stocks), NEW q \in PartsOn(t, design.parts, stocks),
           p.id = q.id
    PROVE  s = t
<1>1. p \in design.parts /\ q \in design.parts /\ SelectedStock(p, stocks) = s /\ SelectedStock(q, stocks) = t
  BY DEF PartsOn
<1>2. p = q
  BY <1>1 DEF IsDesign
<1> QED
  BY <1>1, <1>2

LEMMA PlanKeepsWalls ==
    ASSUME NEW design, NEW stocks, NEW machine, NEW registrations,
           Planned(design, stocks, machine, registrations),
           NEW a \in PlanOperations(design, stocks, machine),
           NEW b \in PlanOperations(design, stocks, machine),
           <<a.part, a.n>> = <<b.part, b.n>>, a.side = "A", b.side = "B", ~a.through, ~b.through,
           Intersects(SheetCut(a, StockOf(a.stock, stocks)), SheetCut(b, StockOf(b.stock, stocks)), 0)
    PROVE  StockOf(a.stock, stocks).thickness - a.depth - b.depth >= MinRemainingWall
<1>1. PICK s, i, p, f, piece : IsOfPlan(a, s, i, p, f, piece, design, stocks, machine)
  BY OperationOfPlan
<1>2. PICK t, j, q, g, other : IsOfPlan(b, t, j, q, g, other, design, stocks, machine)
  BY OperationOfPlan
<1> DEFINE parts == PartsOn(s, design.parts, stocks)
           layout == Layouts(design.parts, stocks)[s.id]
<1>3. StockOf(a.stock, stocks) = s /\ a.part = i.part.id /\ i.part \in parts
  BY <1>1, PlannedOperation
<1>4. StockOf(b.stock, stocks) = t /\ b.part = j.part.id /\ j.part \in PartsOn(t, design.parts, stocks)
  BY <1>2, PlannedOperation
<1>5. i.part.id = j.part.id
  BY <1>3, <1>4
<1>6. IsDesign(design)
  BY DEF Planned, SheetInputs
<1>7. s = t
  BY <1>3, <1>4, <1>5, <1>6, OneStockOfPart, SMTT(60)
<1>8. SoundSheets(parts, s, layout, machine)
  BY <1>1, PlannedSheets DEF IsOfPlan
<1>9. i \in Instances(parts) /\ IsOperation(a, i, p, f, piece, layout, s, machine)
  BY <1>1 DEF IsOfPlan
<1>10. j \in Instances(parts) /\ IsOperation(b, j, q, g, other, layout, s, machine)
  BY <1>2, <1>7 DEF IsOfPlan
<1>11. /\ SheetParts(parts) /\ IsStock(s) /\ SoundLayout(layout, Instances(parts), s)
       /\ \A part \in parts : CleanPart(part)
  BY <1>8 DEF SoundSheets
<1> HIDE DEF parts, layout
<1>12. Intersects(SheetCut(a, s), SheetCut(b, s), 0)
  BY <1>3, <1>4, <1>7
<1>13. s.thickness - a.depth - b.depth >= MinRemainingWall
  BY <1>9, <1>10, <1>11, <1>12, WallRemains
<1> QED
  BY <1>3, <1>13

\* The machining documents of a plan, as PlannedSheetIsSound reads them.
SoundCam(cam, stocks, machine) ==
    LET operations == cam.operations
        Stock(o) == StockOf(o.stock, stocks)
    IN  /\ \A n \in DOMAIN operations :
            KeepsClear(operations[n], cam.layouts[operations[n].stock], Stock(operations[n]), machine)
        /\ \A m, n \in DOMAIN operations :
            LET a == operations[m]
                b == operations[n]
            IN  /\ /\ <<a.part, a.n>> = <<b.part, b.n>> /\ a.side = "A" /\ b.side = "B"
                   /\ ~a.through /\ ~b.through
                   /\ Intersects(SheetCut(a, Stock(a)), SheetCut(b, Stock(b)), 0)
                   => Stock(a).thickness - a.depth - b.depth >= MinRemainingWall
                /\ a.stock = b.stock /\ a.sheet = b.sheet /\ m < n =>
                    (a.release => b.release) /\ (a.side = "A" => b.side = "A")

LEMMA PlanIsSound ==
    ASSUME NEW design, NEW stocks, NEW machine, NEW registrations,
           Planned(design, stocks, machine, registrations)
    PROVE  SoundCam(CamOf(design, stocks, machine, Layouts(design.parts, stocks)), stocks, machine)
<1> DEFINE layouts == Layouts(design.parts, stocks)
           cam == CamOf(design, stocks, machine, layouts)
           seq == cam.operations
           ops == PlanOperations(design, stocks, machine)
           Stock(o) == StockOf(o.stock, stocks)
<1>1. seq = Sequenced(ops) /\ cam.layouts = layouts
  BY DEF CamOf, PlanOperations
<1> HIDE DEF cam, ops, layouts
<1>2. /\ \A n \in DOMAIN seq : seq[n] \in ops
      /\ \A m, n \in DOMAIN seq : m < n => Before(OperationKey(seq[m]), OperationKey(seq[n]))
  BY <1>1, SequencedInOrder DEF ops
<1>3. ASSUME NEW o \in ops PROVE KeepsClear(o, layouts[o.stock], Stock(o), machine)
  <2>1. PICK s, i, p, f, piece : IsOfPlan(o, s, i, p, f, piece, design, stocks, machine)
    BY OperationOfPlan DEF ops
  <2> QED
    BY <2>1, PlannedOperation DEF layouts
<1>4. \A n \in DOMAIN seq : KeepsClear(seq[n], cam.layouts[seq[n].stock], Stock(seq[n]), machine)
  BY <1>1, <1>2, <1>3
<1>5. ASSUME NEW a \in ops, NEW b \in ops,
             <<a.part, a.n>> = <<b.part, b.n>>, a.side = "A", b.side = "B", ~a.through, ~b.through,
             Intersects(SheetCut(a, Stock(a)), SheetCut(b, Stock(b)), 0)
      PROVE  Stock(a).thickness - a.depth - b.depth >= MinRemainingWall
  BY <1>5, PlanKeepsWalls DEF ops
<1>6. ASSUME NEW m \in DOMAIN seq, NEW n \in DOMAIN seq, m < n,
             seq[m].stock = seq[n].stock, seq[m].sheet = seq[n].sheet
      PROVE  (seq[m].release => seq[n].release) /\ (seq[m].side = "A" => seq[n].side = "A")
  BY <1>2, <1>6, SheetIsTurnedOnce DEF ops
<1> HIDE DEF Stock
<1>7. \A m, n \in DOMAIN seq :
        /\ <<seq[m].part, seq[m].n>> = <<seq[n].part, seq[n].n>> /\ seq[m].side = "A" /\ seq[n].side = "B"
        /\ ~seq[m].through /\ ~seq[n].through
        /\ Intersects(SheetCut(seq[m], Stock(seq[m])), SheetCut(seq[n], Stock(seq[n])), 0)
        => Stock(seq[m]).thickness - seq[m].depth - seq[n].depth >= MinRemainingWall
  BY <1>2, <1>5
<1> QED
  BY <1>4, <1>6, <1>7 DEF SoundCam, cam, Stock, layouts

-----------------------------------------------------------------------------
(***************************************************************************)
(* The review package.  Where the documents of a package come from: every  *)
(* one is the document of some build among the calls R, the manifest's     *)
(* context included.                                                       *)
(***************************************************************************)
Documented(docs, R) ==
    /\ docs = [name \in Documents |-> docs[name]]
    /\ \A name \in Documents : \E r \in R : docs[name] = Built(r)[name]
Packed(p, R) ==
    /\ p = [manifest |-> p.manifest, docs |-> p.docs, handoff |-> p.handoff]
    /\ p.manifest = [context |-> p.manifest.context, contextHash |-> p.manifest.contextHash,
                     inventory |-> p.manifest.inventory, handoff |-> p.manifest.handoff]
    /\ \E r \in R : p.manifest.context = FrozenContext(r)
    /\ Documented(p.docs, R)

\* The calls whose documents can be in the package of this behaviour.
Origins == IF request \in Spliced THEN Spliced ELSE {request}

\* The inductive invariant: the package is packed of documents of builds that were
\* not refused, and what was accepted passed the verifier.
PackageInv ==
    /\ request \in Requests
    /\ verdict \in {"built", "received", "accepted"} =>
            Packed(parcel, Origins) /\ (request \notin Spliced => Blocker(request) = "")
    /\ verdict \in {"built", "accepted"} => Verifies(parcel)

\* A refusal is none of the words for a package.
LEMMA BlockerIsNoVerdict ==
    ASSUME NEW r
    PROVE  Blocker(r) \notin {"built", "received", "accepted"}
<1>1. SetupBlocker(r.design, Selected(r), r.machine, r.registrations,
                   Layouts(r.design.parts, Selected(r))) \notin {"built", "received", "accepted"}
  BY DEF SetupBlocker, PlanBlocker
<1>2. ReviewBlocker(r) \notin {"built", "received", "accepted"}
  BY <1>1 DEF ReviewBlocker, retention_evidence_blocker_code
<1> QED
  BY <1>2 DEF Blocker, BlockerOf

\* The documents of a build, one by one.
LEMMA BuiltDocuments ==
    ASSUME NEW r
    PROVE  LET code == ReviewBlocker(r)
               parts == r.design.parts
               stocks == Selected(r)
               d == Built(r)
           IN  /\ d = [name \in Documents |-> d[name]]
               /\ d.spec = r.design
               /\ d.core = review_core(r.design, FrozenContext(r))
               /\ d.caller = [statement |-> r.statement, provenance |-> r.provenance,
                              furniture |-> r.furniture]
               /\ d.enclosed = r.enclosed /\ d.fcstd = FreecadProject(r.design, r.freecad)
               /\ d.cad = CadOf(r.design, r.freecad)
               /\ d.stock = stock_selection(parts, stocks)
               /\ d.plan = generation_plan(r.machine, stocks, r.registrations, r.program)
               /\ d.status = IF code = "" THEN generated_design_review_package_status(r.program)
                                          ELSE blocked_design_review_package_status(code)
               /\ d.cam = IF code = ""
                          THEN CamOf(r.design, stocks, r.machine, Layouts(parts, stocks))
                          ELSE Nothing
BY DEF Built, BuiltUnder, DocumentsOf, Documents

LEMMA SealedIsPacked ==
    ASSUME NEW R, NEW q \in R, NEW docs, Documented(docs, R)
    PROVE  Packed(Sealed(FrozenContext(q), docs), R)
BY DEF Packed, Sealed, build_manifest

\* The bundles that are mixed are sealed builds.
LEMMA BundleIsSealed ==
    ASSUME NEW r \in Spliced
    PROVE  /\ Bundles[r].docs = Built(r)
           /\ Bundles[r].manifest.context = FrozenContext(r)
BY DEF Bundles, Sealed, build_manifest

LEMMA BuiltIsDocumented ==
    ASSUME NEW R, NEW r \in R
    PROVE  Documented(Built(r), R)
BY BuiltDocuments DEF Documented

LEMMA ReplacedIsDocumented ==
    ASSUME NEW R, NEW r \in R, NEW docs, NEW names, Documented(docs, R)
    PROVE  Documented(Replaced(docs, Built(r), names), R)
<1>1. DOMAIN docs = Documents
  BY DEF Documented
<1>2. \A name \in Documents :
        Replaced(docs, Built(r), names)[name] =
            IF name \in names THEN Built(r)[name] ELSE docs[name]
  BY <1>1 DEF Replaced
<1>3. Replaced(docs, Built(r), names) =
        [name \in Documents |-> Replaced(docs, Built(r), names)[name]]
  BY <1>1 DEF Replaced
<1> QED
  BY <1>2, <1>3 DEF Documented

LEMMA PackageInvInit == PackageInit => PackageInv
BY DEF PackageInit, PackageInv

\* PackageInv is inductive: a build puts in its own documents, whoever sends the
\* package on only those of the bundles that may be mixed, and the verifier's answer
\* is about the package it read.
LEMMA PackageInvStep ==
    PackageInv /\ [PackageNext]_packageVars => PackageInv'
<1> SUFFICES ASSUME PackageInv, [PackageNext]_packageVars PROVE PackageInv'
  OBVIOUS
<1>r. request \in Requests
  BY DEF PackageInv
<1>1. CASE build_production_bundle
  <2>1. request' = request /\ request' \in Requests
    BY <1>1, <1>r DEF build_production_bundle
  <2>2. CASE Blocker(request) # "" /\ verdict' = Blocker(request)
    BY <2>1, <2>2, BlockerIsNoVerdict DEF PackageInv
  <2>3. CASE /\ Blocker(request) = ""
             /\ parcel' = Sealed(FrozenContext(request), Built(request))
             /\ verdict' = IF Verifies(parcel') THEN "built" ELSE "unverifiable"
    <3>1. request \in Origins
      BY DEF Origins
    <3>2. Packed(parcel', Origins)
      BY <3>1, <2>3, SealedIsPacked, BuiltIsDocumented
    <3>3. Origins' = Origins
      BY <2>1 DEF Origins
    <3>4. Packed(parcel', Origins')
      BY <3>2, <3>3
    <3>5. verdict' \in {"built", "accepted"} => Verifies(parcel')
      BY <2>3
    <3> QED
      BY <2>1, <2>3, <3>4, <3>5 DEF PackageInv
  <2> QED
    BY <1>1, <2>2, <2>3 DEF build_production_bundle
<1>2. CASE receive_package
  <2>1. request \in Spliced /\ request' = request /\ verdict = "built" /\ verdict' = "received"
    BY <1>2 DEF receive_package
  <2>2. Origins = Spliced /\ Origins' = Spliced
    BY <2>1 DEF Origins
  <2>3. Packed(parcel, Spliced)
    BY <2>1, <2>2 DEF PackageInv
  <2>4. PICK q \in Spliced : parcel.manifest.context = FrozenContext(q)
    BY <2>3 DEF Packed
  <2>5. Documented(parcel.docs, Spliced)
    BY <2>3 DEF Packed
  <2>6. ASSUME NEW r \in Spliced, NEW names, NEW context \in BOOLEAN, Splice(r, names, context)
        PROVE  Packed(parcel', Spliced)
    <3>1. Documented(Replaced(parcel.docs, Bundles[r].docs, names), Spliced)
      BY <2>5, ReplacedIsDocumented, BundleIsSealed
    <3>2. CASE context
      BY <3>1, <3>2, <2>6, SealedIsPacked, BundleIsSealed DEF Splice
    <3>3. CASE ~context
      BY <3>1, <3>3, <2>4, <2>6, SealedIsPacked DEF Splice
    <3> QED
      BY <3>2, <3>3
  <2>7. ASSUME NEW r \in Spliced, NEW name \in Documents, Exchange(r, name)
        PROVE  Packed(parcel', Spliced)
    <3>1. Documented(Replaced(parcel.docs, Bundles[r].docs, {name}), Spliced)
      BY <2>5, ReplacedIsDocumented, BundleIsSealed
    <3>2. parcel' = [manifest |-> parcel.manifest,
                     docs |-> Replaced(parcel.docs, Bundles[r].docs, {name}),
                     handoff |-> parcel.handoff]
      BY <2>3, <2>7 DEF Exchange, Packed
    <3>3. /\ parcel'.manifest = parcel.manifest
          /\ parcel'.docs = Replaced(parcel.docs, Bundles[r].docs, {name})
          /\ parcel'.handoff = parcel.handoff
      BY <3>2
    <3> QED
      BY <3>1, <3>2, <3>3, <2>3 DEF Packed
  <2>8. Packed(parcel', Spliced)
    BY <1>2, <2>6, <2>7 DEF receive_package
  <2> QED
    BY <1>r, <2>1, <2>2, <2>8 DEF PackageInv
<1>3. CASE read_and_verify_package
  <2>1. UNCHANGED <<request, parcel>> /\ verdict = "received"
        /\ verdict' = IF Verifies(parcel) THEN "accepted" ELSE "refused"
    BY <1>3 DEF read_and_verify_package
  <2>2. Packed(parcel, Origins) /\ Origins' = Origins
    BY <2>1 DEF PackageInv, Origins
  <2>3. Packed(parcel', Origins')
    BY <2>1, <2>2
  <2>4. verdict' \in {"built", "accepted"} => Verifies(parcel')
    BY <2>1
  <2>5. request \notin Spliced => Blocker(request) = ""
    BY <2>1 DEF PackageInv
  <2> QED
    BY <1>r, <2>1, <2>3, <2>4, <2>5 DEF PackageInv
<1>4. CASE UNCHANGED packageVars
  <2>1. request' = request /\ parcel' = parcel /\ verdict' = verdict
    BY <1>4 DEF packageVars
  <2> QED
    BY <2>1 DEF PackageInv, Origins
<1> QED
  BY <1>1, <1>2, <1>3, <1>4 DEF PackageNext

-----------------------------------------------------------------------------
(***************************************************************************)
(* What the builder's refusals leave of a call.                            *)
(***************************************************************************)
LEMMA BuiltCall ==
    ASSUME NEW r, Blocker(r) = ""
    PROVE  /\ r.stocks # {}
           /\ ReviewBlocker(r) = "" => unsupported_joint_system_issues(r.design) = {}
           /\ ReviewBlocker(r) \in {"", "STOCK_PROFILE_MISSING", "DFM-GRAIN-001", "DADO_RETENTION",
                                    "BACK_PANEL_RETENTION", "TWO_SIDED_REGISTRATION_MISSING"}
<1> DEFINE parts == r.design.parts
           stocks == Selected(r)
           early == Unmatched(parts, stocks) # {} \/ GrainIssues(parts, stocks) # {}
<1>1. r.stocks # {}
  BY DEF Blocker, BlockerOf
<1>2. ReviewBlocker(r) = "" => ~early
  BY DEF ReviewBlocker
<1>3. ~early => unsupported_joint_system_issues(r.design) = {}
  BY DEF Blocker, BlockerOf
<1>4. early => ReviewBlocker(r) \in {"STOCK_PROFILE_MISSING", "DFM-GRAIN-001"}
  BY DEF ReviewBlocker
<1>5. ~early /\ RetentionCodes(r.design) # {} =>
        ReviewBlocker(r) \in {"DADO_RETENTION", "BACK_PANEL_RETENTION"}
  BY DEF ReviewBlocker, retention_evidence_blocker_code
<1>6. ~early /\ RetentionCodes(r.design) = {} =>
        ReviewBlocker(r) \in {"", "TWO_SIDED_REGISTRATION_MISSING"}
  BY DEF Blocker, BlockerOf
<1> QED
  BY <1>1, <1>2, <1>3, <1>4, <1>5, <1>6

(***************************************************************************)
(* The stocks of a package: the pins the builder added to the clamps are   *)
(* taken off again, and put back, without a trace.                         *)
(***************************************************************************)
WithoutPins(S, registrations) ==
    {[s EXCEPT !.clamps = @ \ PinsOn(s.id, registrations)] : s \in S}
StockRecord(s) ==
    /\ s = [x \in DOMAIN s |-> s[x]]
    /\ {"id", "w", "l", "quantity", "kerf", "defects", "clamps"} \subseteq DOMAIN s
    /\ s.kerf \in Int

LEMMA WithoutPinsFields ==
    ASSUME NEW s, StockRecord(s), NEW pins
    PROVE  LET t == [s EXCEPT !.clamps = @ \ pins]
           IN  /\ t.id = s.id /\ t.w = s.w /\ t.l = s.l /\ t.quantity = s.quantity
               /\ t.kerf = s.kerf /\ t.defects = s.defects /\ t.clamps = s.clamps \ pins
               /\ pins \subseteq s.clamps => [t EXCEPT !.clamps = @ \cup pins] = s
<1>1. {"id", "w", "l", "quantity", "kerf", "defects", "clamps"} \subseteq DOMAIN s
  BY DEF StockRecord
<1> DEFINE t == [s EXCEPT !.clamps = @ \ pins]
<1>2. /\ t.id = s.id /\ t.w = s.w /\ t.l = s.l /\ t.quantity = s.quantity
      /\ t.kerf = s.kerf /\ t.defects = s.defects /\ t.clamps = s.clamps \ pins
  BY <1>1
<1>3. ASSUME pins \subseteq s.clamps PROVE [t EXCEPT !.clamps = @ \cup pins] = s
  <2>1. (s.clamps \ pins) \cup pins = s.clamps
    BY <1>3
  <2>2. DOMAIN t = DOMAIN s /\ \A x \in DOMAIN s : x # "clamps" => t[x] = s[x]
    OBVIOUS
  <2>3. [t EXCEPT !.clamps = @ \cup pins] =
            [x \in DOMAIN s |-> IF x = "clamps" THEN t.clamps \cup pins ELSE t[x]]
    BY <2>2
  <2>4. \A x \in DOMAIN s : (IF x = "clamps" THEN t.clamps \cup pins ELSE t[x]) = s[x]
    BY <1>2, <2>1, <2>2
  <2> QED
    BY <2>3, <2>4 DEF StockRecord
<1> QED
  BY <1>2, <1>3

LEMMA PinsPutBack ==
    ASSUME NEW S, NEW registrations, StockIdentitiesUnique(S),
           \A s \in S : StockRecord(s),
           \A k \in DOMAIN registrations :
                PinFootprints(registrations[k]) \subseteq StockOf(k[1], S).clamps
    PROVE  WithPins(WithoutPins(S, registrations), registrations) = S
<1> DEFINE Off(s) == [s EXCEPT !.clamps = @ \ PinsOn(s.id, registrations)]
           Back(s) == [s EXCEPT !.clamps = @ \cup PinsOn(s.id, registrations)]
<1>1. ASSUME NEW s \in S PROVE PinsOn(s.id, registrations) \subseteq s.clamps
  BY <1>1, StockIsFound DEF PinsOn
<1>2. ASSUME NEW s \in S PROVE Back(Off(s)) = s
  <2>1. StockRecord(s) /\ PinsOn(s.id, registrations) \subseteq s.clamps
    BY <1>1
  <2> HIDE DEF StockRecord
  <2>2. Off(s).id = s.id
    BY <2>1, WithoutPinsFields
  <2>3. [Off(s) EXCEPT !.clamps = @ \cup PinsOn(s.id, registrations)] = s
    BY <2>1, WithoutPinsFields
  <2> QED
    BY <2>2, <2>3
<1>3. WithPins(WithoutPins(S, registrations), registrations) = {Back(Off(s)) : s \in S}
  <2> HIDE DEF Off, Back
  <2>1. WithoutPins(S, registrations) = {Off(s) : s \in S}
    BY DEF WithoutPins, Off
  <2>2. \A T : WithPins(T, registrations) = {Back(s) : s \in T}
    BY DEF WithPins, Back
  <2> QED
    BY <2>1, <2>2
<1> HIDE DEF Off, Back
<1> QED
  BY <1>2, <1>3

(***************************************************************************)
(* What is wrong with a layout blocks the screen, so that a screen without *)
(* blocking issues has layouts the nester did not raise on.                *)
(***************************************************************************)
LEMMA PlacementIssuesBlock ==
    ASSUME NEW p, NEW part, NEW stock, NEW i \in PlacementIssues(p, part, stock)
    PROVE  i.severity = "BLOCK"
<1>1. PICK code : i = Issue(code, part.id)
  BY DEF PlacementIssues, When
<1> QED
  BY <1>1 DEF Issue

LEMMA LayoutIssuesBlock ==
    ASSUME NEW layout, NEW parts, NEW stock, NEW i \in validate_layout(layout, parts, stock)
    PROVE  i.severity = "BLOCK"
<1> DEFINE placed == layout.placed
           Named(p) == {q \in parts : q.id = p.part /\ p.n \in 1 .. q.quantity}
           expected == {<<x.part.id, x.n>> : x \in Instances(parts)}
           Again(p) == {q \in placed \ {p} : <<q.part, q.n>> = <<p.part, p.n>>}
           misplaced == UNION {UNION {PlacementIssues(p, q, stock) : q \in Named(p)} : p \in placed}
           unknown == UNION {When("NESTING_UNKNOWN_INSTANCE", p.part, Named(p) = {}) : p \in placed}
           twice == UNION {When("NESTING_DUPLICATE_INSTANCE", p.part, Again(p) # {}) : p \in placed}
           overlap == When("NESTING_OVERLAP", 0,
                           \E p, q \in placed : p # q /\ p.sheet = q.sheet
                                                /\ Intersects(p.rect, q.rect, stock.kerf))
           missing == When("NESTING_ACCOUNTING", 0,
                           expected \ {<<p.part, p.n>> : p \in placed} # layout.unplaced)
           unplaced == {Issue("NESTING_UNPLACED", u[1]) : u \in layout.unplaced}
<1>1. validate_layout(layout, parts, stock) =
        misplaced \cup unknown \cup twice \cup overlap \cup missing \cup unplaced
  BY DEF validate_layout
<1>2. \A j \in misplaced : j.severity = "BLOCK"
  BY PlacementIssuesBlock
<1>3. \A j \in unknown : j.severity = "BLOCK"
  BY DEF When, Issue
<1>4. \A j \in twice : j.severity = "BLOCK"
  BY DEF When, Issue
<1>5. \A j \in overlap \cup missing \cup unplaced : j.severity = "BLOCK"
  BY DEF When, Issue
<1> HIDE DEF misplaced, unknown, twice, overlap, missing, unplaced
<1> QED
  BY <1>1, <1>2, <1>3, <1>4, <1>5

LEMMA CleanScreenNests ==
    ASSUME NEW parts, NEW stocks, NEW machine, StockIdentitiesUnique(stocks),
           Blocking(run_dfm_screen(parts, stocks, machine, Layouts(parts, stocks))) = {},
           NEW s \in UsedStocks(parts, stocks)
    PROVE  ~NesterRaises(PartsOn(s, parts, stocks), s)
<1> DEFINE layouts == Layouts(parts, stocks)
           mine == PartsOn(s, parts, stocks)
<1>1. s \in stocks
  BY DEF UsedStocks
<1>2. StockOf(s.id, stocks) = s
  BY <1>1, StockIsFound
<1>3. layouts[s.id] = nest(mine, s)
  BY <1>2 DEF Layouts
<1>4. validate_layout(nest(mine, s), mine, s) \subseteq Screen(mine, layouts[s.id], s, machine)
  BY <1>3 DEF Screen
<1>5. Screen(mine, layouts[s.id], s, machine) \subseteq run_dfm_screen(parts, stocks, machine, layouts)
  BY DEF run_dfm_screen
<1>6. validate_layout(nest(mine, s), mine, s) = {}
  BY <1>4, <1>5, LayoutIssuesBlock DEF Blocking
<1> QED
  BY <1>6 DEF NesterRaises, Codes

(***************************************************************************)
(* A verified package.  First the stocks: those of the call its frozen     *)
(* inputs name are, with the pins, the stocks the package lists.           *)
(***************************************************************************)
LEMMA SelectedStocksAreRecords ==
    ASSUME NEW r \in Requests, NEW s \in Selected(r)
    PROVE  StockRecord(s)
<1>1. PICK t \in r.stocks : s = [t EXCEPT !.clamps = @ \cup PinsOn(t.id, r.registrations)]
  BY DEF Selected, WithPins
<1>2. /\ {"id", "w", "l", "quantity", "kerf", "defects", "clamps"} \subseteq DOMAIN t
      /\ t.kerf \in Int
  BY CallsAreTyped DEF IsStock
<1>3. DOMAIN s = DOMAIN t /\ s.kerf = t.kerf
  BY <1>1, <1>2
<1>4. s = [x \in DOMAIN s |-> s[x]]
  BY <1>1
<1> QED
  BY <1>2, <1>3, <1>4 DEF StockRecord

\* The calls of a set of builds none of which was refused, among which a design's
\* id names one design.
Buildable(R) ==
    /\ R \subseteq Requests
    /\ \A r \in R : Blocker(r) = ""
    /\ \A q, r \in R : q.design.id = r.design.id => q.design = r.design

LEMMA PackedDocument ==
    ASSUME NEW p, NEW R, Packed(p, R), NEW name \in Documents
    PROVE  \E r \in R : p.docs[name] = Built(r)[name]
BY DEF Packed, Documented

LEMMA PackageStocks ==
    ASSUME NEW p, NEW R, Buildable(R), Packed(p, R), Verifies(p)
    PROVE  /\ p.docs.stock.stocks # {}
           /\ \A s \in p.docs.stock.stocks : StockRecord(s)
           /\ StockIdentitiesUnique(p.docs.stock.stocks)
           /\ p.docs.plan.stocks = p.docs.stock.stocks
           /\ Selected(FrozenRequest(p)) = p.docs.stock.stocks
<1> DEFINE stocks == p.docs.stock.stocks
           call == FrozenRequest(p)
<1>1. PICK r \in R : p.docs.stock = Built(r).stock
  <2>1. "stock" \in Documents
    BY DEF Documents
  <2> QED
    BY <2>1, PackedDocument
<1>2. r \in Requests /\ Blocker(r) = ""
  BY DEF Buildable
<1>3. stocks = Selected(r)
  <2>1. Built(r).stock = stock_selection(r.design.parts, Selected(r))
    BY BuiltDocuments
  <2>2. stock_selection(r.design.parts, Selected(r)).stocks = Selected(r)
    BY DEF stock_selection
  <2> QED
    BY <1>1, <2>1, <2>2
<1>4. stocks # {}
  <2>1. r.stocks # {}
    BY <1>2, BuiltCall
  <2> QED
    BY <1>3, <2>1 DEF Selected, WithPins
<1>5. \A s \in stocks : StockRecord(s)
  BY <1>2, <1>3, SelectedStocksAreRecords
<1>6. StockIdentitiesUnique(stocks)
  BY DEF Verifies, StockSelectionHolds
<1>7. /\ p.docs.plan.stocks = stocks
      /\ \A k \in DOMAIN p.docs.plan.registrations :
            PinFootprints(p.docs.plan.registrations[k]) \subseteq StockOf(k[1], stocks).clamps
  BY DEF Verifies, GenerationPlanHolds
<1>8. call.stocks = WithoutPins(stocks, p.docs.plan.registrations)
      /\ call.registrations = p.docs.plan.registrations
  BY DEF FrozenRequest, WithoutPins
<1>9. Selected(call) = stocks
  BY <1>5, <1>6, <1>7, <1>8, PinsPutBack DEF Selected
<1> QED
  BY <1>4, <1>5, <1>6, <1>7, <1>9

\* The status is that of some build: generated, or blocked for one of five reasons.
LEMMA PackageStatus ==
    ASSUME NEW p, NEW R, Buildable(R), Packed(p, R)
    PROVE  \/ p.docs.status = generated_design_review_package_status(p.docs.status.program)
           \/ \E code \in {"STOCK_PROFILE_MISSING", "DFM-GRAIN-001", "DADO_RETENTION",
                            "BACK_PANEL_RETENTION", "TWO_SIDED_REGISTRATION_MISSING"} :
                    p.docs.status = blocked_design_review_package_status(code)
<1>1. PICK r \in R : p.docs.status = Built(r).status
  <2>1. "status" \in Documents
    BY DEF Documents
  <2> QED
    BY <2>1, PackedDocument
<1>2. Built(r).status = IF ReviewBlocker(r) = ""
                        THEN generated_design_review_package_status(r.program)
                        ELSE blocked_design_review_package_status(ReviewBlocker(r))
  BY BuiltDocuments
<1>3. generated_design_review_package_status(r.program).program = r.program
  BY DEF generated_design_review_package_status
<1>4. ReviewBlocker(r) \in {"", "STOCK_PROFILE_MISSING", "DFM-GRAIN-001", "DADO_RETENTION",
                           "BACK_PANEL_RETENTION", "TWO_SIDED_REGISTRATION_MISSING"}
  BY BuiltCall DEF Buildable
<1> QED
  BY <1>1, <1>2, <1>3, <1>4

\* The retention codes and the blocker made of them.
LEMMA RetentionBlocker ==
    ASSUME NEW design
    PROVE  /\ retention_evidence_blocker_code(design) \in
                {"", "DADO_RETENTION", "BACK_PANEL_RETENTION"}
           /\ RetentionCodes(design) = {} <=> retention_evidence_blocker_code(design) = ""
BY DEF retention_evidence_blocker_code

\* What a verified package says of stock, grain and retention is what the builder
\* would find with the frozen inputs.
LEMMA PackageReview ==
    ASSUME NEW p, NEW R, Buildable(R), Packed(p, R), Verifies(p)
    PROVE  LET call == FrozenRequest(p)
               blockers == p.docs.status.blockers
               parts == p.docs.spec.parts
               stocks == p.docs.stock.stocks
           IN  /\ Unmatched(parts, stocks) # {} <=> blockers = {"STOCK_PROFILE_MISSING"}
               /\ Unmatched(parts, stocks) = {} =>
                    (GrainIssues(parts, stocks) # {} <=> blockers = {"DFM-GRAIN-001"})
               /\ ReviewBlocker(call) =
                    IF Unmatched(parts, stocks) # {} THEN "STOCK_PROFILE_MISSING"
                    ELSE IF GrainIssues(parts, stocks) # {} THEN "DFM-GRAIN-001"
                    ELSE IF RetentionCodes(p.docs.spec) # {}
                         THEN retention_evidence_blocker_code(p.docs.spec)
                    ELSE SetupBlocker(p.docs.spec, stocks, p.docs.plan.machine,
                                      p.docs.plan.registrations, Layouts(parts, stocks))
<1> DEFINE call == FrozenRequest(p)
           blockers == p.docs.status.blockers
           parts == p.docs.spec.parts
           stocks == p.docs.stock.stocks
<1>1. p.docs.stock = stock_selection(parts, stocks)
  BY DEF Verifies, StockSelectionHolds
<1>2. p.docs.stock.unmatched = {q.id : q \in Unmatched(parts, stocks)}
  <2>1. stock_selection(parts, stocks).unmatched = {q.id : q \in Unmatched(parts, stocks)}
    BY DEF stock_selection
  <2> QED
    BY <1>1, <2>1
<1>3. Unmatched(parts, stocks) = {} <=> p.docs.stock.unmatched = {}
  BY <1>2
<1>4. SelectionReportHolds(p)
  BY DEF Verifies, StatusInventoryHolds
<1>5. /\ blockers = {"STOCK_PROFILE_MISSING"} => p.docs.stock.unmatched # {}
      /\ blockers # {"STOCK_PROFILE_MISSING"} =>
            /\ p.docs.stock.unmatched = {}
            /\ GrainIssues(parts, stocks) # {} <=> blockers = {"DFM-GRAIN-001"}
  BY <1>4 DEF SelectionReportHolds
<1>6. Selected(call) = stocks
  BY PackageStocks
<1>7. call.design = p.docs.spec /\ call.machine = p.docs.plan.machine
      /\ call.registrations = p.docs.plan.registrations
  BY DEF FrozenRequest
<1>8. ReviewBlocker(call) =
        IF Unmatched(parts, stocks) # {} THEN "STOCK_PROFILE_MISSING"
        ELSE IF GrainIssues(parts, stocks) # {} THEN "DFM-GRAIN-001"
        ELSE IF RetentionCodes(p.docs.spec) # {} THEN retention_evidence_blocker_code(p.docs.spec)
        ELSE SetupBlocker(p.docs.spec, stocks, p.docs.plan.machine,
                          p.docs.plan.registrations, Layouts(parts, stocks))
  <2> HIDE DEF call
  <2> QED
    BY <1>6, <1>7 DEF ReviewBlocker
<1> QED
  BY <1>3, <1>5, <1>8

\* Without machining documents, the reason given is true.
LEMMA BlockedPackage ==
    ASSUME NEW p, NEW R, Buildable(R), Packed(p, R), Verifies(p),
           p.docs.status.cam # "VALIDATION_GENERATED"
    PROVE  /\ p.docs.cam = Nothing /\ p.docs.program = Nothing
           /\ \/ p.docs.status.blockers = {ReviewBlocker(FrozenRequest(p))}
              \/ p.docs.status.blockers = {"TWO_SIDED_REGISTRATION_MISSING"}
<1>1. PICK code \in {"STOCK_PROFILE_MISSING", "DFM-GRAIN-001", "DADO_RETENTION",
                     "BACK_PANEL_RETENTION", "TWO_SIDED_REGISTRATION_MISSING"} :
            p.docs.status = blocked_design_review_package_status(code)
  <2>1. ASSUME NEW program PROVE
            generated_design_review_package_status(program).cam = "VALIDATION_GENERATED"
    BY DEF generated_design_review_package_status
  <2> QED
    BY <2>1, PackageStatus
<1>2. p.docs.status.cam = "BLOCKED" /\ p.docs.status.blockers = {code}
  BY <1>1 DEF blocked_design_review_package_status
<1>3. p.docs.cam = Nothing /\ p.docs.program = Nothing
  BY <1>2 DEF Verifies, StatusInventoryHolds, InventoryHolds
<1>4. RetentionBindingHolds(p)
  BY DEF Verifies, StatusInventoryHolds
<1>5. code \in {"DADO_RETENTION", "BACK_PANEL_RETENTION"} =>
            code = retention_evidence_blocker_code(p.docs.spec)
  BY <1>2, <1>4 DEF RetentionBindingHolds
<1>6. code \in {"DADO_RETENTION", "BACK_PANEL_RETENTION"} => RetentionCodes(p.docs.spec) # {}
  BY <1>5, RetentionBlocker
<1>7. code # "TWO_SIDED_REGISTRATION_MISSING" => ReviewBlocker(FrozenRequest(p)) = code
  BY <1>2, <1>5, <1>6, PackageReview
<1> QED
  BY <1>2, <1>3, <1>7

\* With machining documents, nothing stands in the way of building the same.
LEMMA GeneratedPackageReviews ==
    ASSUME NEW p, NEW R, Buildable(R), Packed(p, R), Verifies(p),
           p.docs.status.cam = "VALIDATION_GENERATED"
    PROVE  LET parts == p.docs.spec.parts
               stocks == p.docs.stock.stocks
           IN  /\ p.docs.status.blockers = {}
               /\ p.docs.status = generated_design_review_package_status(p.docs.plan.program)
               /\ Unmatched(parts, stocks) = {} /\ GrainIssues(parts, stocks) = {}
               /\ ReviewBlocker(FrozenRequest(p)) = ""
               /\ p.docs.cam # Nothing
               /\ p.docs.dfm = run_dfm_screen(parts, stocks, p.docs.plan.machine,
                                              Layouts(parts, stocks))
               /\ Blocking(p.docs.dfm) = {}
<1> DEFINE parts == p.docs.spec.parts
           stocks == p.docs.stock.stocks
<1>1. p.docs.status = generated_design_review_package_status(p.docs.status.program)
  <2>1. ASSUME NEW code PROVE blocked_design_review_package_status(code).cam = "BLOCKED"
    BY DEF blocked_design_review_package_status
  <2> QED
    BY <2>1, PackageStatus
<1>2. p.docs.status.blockers = {}
  BY <1>1 DEF generated_design_review_package_status
<1>3. CamHolds(p)
  BY DEF Verifies
<1>4. /\ p.docs.status.program = p.docs.plan.program
      /\ SetupBlocker(p.docs.spec, stocks, p.docs.plan.machine, p.docs.plan.registrations,
                      Layouts(parts, stocks)) = ""
  BY <1>3 DEF CamHolds
<1>5. {} # {"STOCK_PROFILE_MISSING"} /\ {} # {"DFM-GRAIN-001"}
  OBVIOUS
<1>6. Unmatched(parts, stocks) = {} /\ GrainIssues(parts, stocks) = {}
  BY <1>2, <1>5, PackageReview
<1>7. RetentionBindingHolds(p) /\ InventoryHolds(p) /\ StatusAllowsReport(p) /\ ReportRebuilt(p)
  BY DEF Verifies, StatusInventoryHolds
<1>8. RetentionCodes(p.docs.spec) = {}
  BY <1>7, RetentionBlocker DEF RetentionBindingHolds
<1>9. ReviewBlocker(FrozenRequest(p)) = ""
  BY <1>4, <1>6, <1>8, PackageReview
<1>10. p.docs.cam # Nothing
  BY <1>7 DEF InventoryHolds, GeneratedInventoryHolds
<1>11. p.docs.dfm = run_dfm_screen(parts, stocks, p.docs.plan.machine, Layouts(parts, stocks))
  BY <1>2, <1>7 DEF ReportRebuilt
<1>12. Blocking(p.docs.dfm) = {}
  BY <1>2, <1>5, <1>7 DEF StatusAllowsReport
<1> QED
  BY <1>1, <1>2, <1>4, <1>6, <1>9, <1>10, <1>11, <1>12

\* The joints: the machining documents are of a build whose design had none that
\* are unsupported, and they name the design of this package.
LEMMA CamDesign ==
    ASSUME NEW design, NEW stocks, NEW machine, NEW layouts
    PROVE  CamOf(design, stocks, machine, layouts).design = design.id
BY DEF CamOf

LEMMA GeneratedPackageJoints ==
    ASSUME NEW p, NEW R, Buildable(R), Packed(p, R), Verifies(p),
           p.docs.status.cam = "VALIDATION_GENERATED"
    PROVE  unsupported_joint_system_issues(p.docs.spec) = {}
<1>1. PICK r \in R : p.docs.cam = Built(r).cam
  <2>1. "cam" \in Documents
    BY DEF Documents
  <2> QED
    BY <2>1, PackedDocument
<1>2. PICK q \in R : p.docs.spec = q.design
  <2>1. "spec" \in Documents
    BY DEF Documents
  <2>2. PICK q \in R : p.docs.spec = Built(q).spec
    BY <2>1, PackedDocument
  <2>3. Built(q).spec = q.design
    BY BuiltDocuments
  <2> QED
    BY <2>2, <2>3
<1>3. p.docs.cam # Nothing
  BY GeneratedPackageReviews
<1>4. Built(r).cam = IF ReviewBlocker(r) = ""
                     THEN CamOf(r.design, Selected(r), r.machine,
                                Layouts(r.design.parts, Selected(r)))
                     ELSE Nothing
  BY BuiltDocuments
<1>5. ReviewBlocker(r) = ""
  BY <1>1, <1>3, <1>4
<1>6. p.docs.cam.design = r.design.id
  <2>1. p.docs.cam = CamOf(r.design, Selected(r), r.machine,
                           Layouts(r.design.parts, Selected(r)))
    BY <1>1, <1>4, <1>5
  <2> QED
    BY <2>1, CamDesign
<1>7. p.docs.cam = CamOf(p.docs.spec, p.docs.stock.stocks, p.docs.plan.machine,
                         Layouts(p.docs.spec.parts, p.docs.stock.stocks))
  BY DEF Verifies, CamHolds
<1>8. p.docs.cam.design = p.docs.spec.id
  BY <1>7, CamDesign
<1>9. r.design = q.design
  BY <1>2, <1>6, <1>8 DEF Buildable
<1>10. unsupported_joint_system_issues(r.design) = {}
  BY <1>5, BuiltCall DEF Buildable
<1> QED
  BY <1>2, <1>9, <1>10

\* The frozen stocks, without the pins, are stocks build_production_bundle takes.
LEMMA FrozenStocksAreTaken ==
    ASSUME NEW p, NEW R, Buildable(R), Packed(p, R), Verifies(p)
    PROVE  LET call == FrozenRequest(p)
           IN  /\ call.stocks # {} /\ StockIdentitiesUnique(call.stocks)
               /\ \A s \in call.stocks : ~(s.kerf < MIN_VALIDATION_CONTOUR_KERF)
               /\ RegistrationsPlaceable(call.stocks, call.registrations)
<1> DEFINE stocks == p.docs.stock.stocks
           registrations == p.docs.plan.registrations
           Off(s) == [s EXCEPT !.clamps = @ \ PinsOn(s.id, registrations)]
<1>1. /\ FrozenRequest(p).stocks = {Off(s) : s \in stocks}
      /\ FrozenRequest(p).registrations = registrations
  BY DEF FrozenRequest
<1>2. /\ stocks # {} /\ StockIdentitiesUnique(stocks) /\ p.docs.plan.stocks = stocks
      /\ \A s \in stocks : StockRecord(s)
  BY PackageStocks
<1>3. \A s \in stocks :
        /\ Off(s).id = s.id /\ Off(s).w = s.w /\ Off(s).l = s.l /\ Off(s).quantity = s.quantity
        /\ Off(s).kerf = s.kerf /\ Off(s).defects = s.defects
        /\ Off(s).clamps = s.clamps \ PinsOn(s.id, registrations)
  <2> SUFFICES ASSUME NEW s \in stocks
               PROVE  /\ Off(s).id = s.id /\ Off(s).w = s.w /\ Off(s).l = s.l
                      /\ Off(s).quantity = s.quantity /\ Off(s).kerf = s.kerf
                      /\ Off(s).defects = s.defects
                      /\ Off(s).clamps = s.clamps \ PinsOn(s.id, registrations)
    OBVIOUS
  <2>1. {"id", "w", "l", "quantity", "kerf", "defects", "clamps"} \subseteq DOMAIN s
    BY <1>2 DEF StockRecord
  <2> QED
    BY <2>1
<1> HIDE DEF Off
<1>4. StockIdentitiesUnique({Off(s) : s \in stocks})
  BY <1>2, <1>3 DEF StockIdentitiesUnique
<1>5. \A s \in stocks : ~(s.kerf < MIN_VALIDATION_CONTOUR_KERF)
  <2>1. \A s \in stocks : s.kerf \in Int /\ s.kerf >= MIN_VALIDATION_CONTOUR_KERF
    BY <1>2 DEF Verifies, StockSelectionHolds, StockRecord
  <2>2. MIN_VALIDATION_CONTOUR_KERF \in Int
    BY SheetPlanBounds
  <2> QED
    BY <2>1, <2>2
<1>6. RegistrationsPlaceable({Off(s) : s \in stocks}, registrations)
  <2> SUFFICES ASSUME NEW k \in DOMAIN registrations
               PROVE  \E s \in {Off(t) : t \in stocks} :
                        /\ s.id = k[1] /\ k[2] \in 0 .. s.quantity - 1
                        /\ \A pin \in PinFootprints(registrations[k]) :
                                /\ Within(pin, StockRect(s))
                                /\ \A zone \in s.defects \cup s.clamps : ~Intersects(pin, zone, 0)
    BY DEF RegistrationsPlaceable
  <2>1. GenerationPlanHolds(p)
    BY DEF Verifies
  <2>2. PICK s \in stocks : s.id = k[1] /\ k[2] \in 0 .. s.quantity - 1
    BY <1>2, <2>1 DEF GenerationPlanHolds
  <2>3. StockOf(k[1], stocks) = s
    BY <1>2, <2>2, StockIsFound
  <2>4. \A pin \in PinFootprints(registrations[k]) :
            /\ Within(pin, StockRect(s))
            /\ \A zone \in s.defects \cup (s.clamps \ PinsOn(k[1], registrations)) :
                    ~Intersects(pin, zone, 0)
    BY <1>2, <2>1, <2>3 DEF GenerationPlanHolds
  <2>5. StockRect(Off(s)) = StockRect(s)
    BY <1>3 DEF StockRect
  <2>6. Off(s).clamps = s.clamps \ PinsOn(k[1], registrations)
    BY <1>3, <2>2
  <2>7. /\ Off(s).id = k[1] /\ k[2] \in 0 .. Off(s).quantity - 1
        /\ \A pin \in PinFootprints(registrations[k]) :
                /\ Within(pin, StockRect(Off(s)))
                /\ \A zone \in Off(s).defects \cup Off(s).clamps : ~Intersects(pin, zone, 0)
    <3>1. Off(s).id = k[1] /\ k[2] \in 0 .. Off(s).quantity - 1
      BY <1>3, <2>2
    <3>2. Off(s).defects = s.defects
      BY <1>3
    <3> QED
      BY <3>1, <3>2, <2>4, <2>5, <2>6
  <2> QED
    BY <2>7
<1> QED
  BY <1>1, <1>2, <1>3, <1>4, <1>5, <1>6

LEMMA GeneratedPackageIsBuildable ==
    ASSUME NEW p, NEW R, Buildable(R), Packed(p, R), Verifies(p),
           p.docs.status.cam = "VALIDATION_GENERATED"
    PROVE  Blocker(FrozenRequest(p)) = ""
<1> DEFINE call == FrozenRequest(p)
           parts == p.docs.spec.parts
           stocks == p.docs.stock.stocks
<1>1. /\ call.includeStep = TRUE /\ call.release = FALSE /\ call.enclosed = p.docs.enclosed
      /\ call.design = p.docs.spec /\ call.machine = p.docs.plan.machine
      /\ call.named = <<p.docs.spec.id, p.docs.plan.machine.id>>
  BY DEF FrozenRequest
<1>2. /\ call.stocks # {} /\ StockIdentitiesUnique(call.stocks)
      /\ \A s \in call.stocks : ~(s.kerf < MIN_VALIDATION_CONTOUR_KERF)
      /\ RegistrationsPlaceable(call.stocks, call.registrations)
  BY FrozenStocksAreTaken
<1>3. /\ Unmatched(parts, stocks) = {} /\ GrainIssues(parts, stocks) = {}
      /\ ReviewBlocker(call) = ""
      /\ Blocking(run_dfm_screen(parts, stocks, p.docs.plan.machine, Layouts(parts, stocks))) = {}
  BY GeneratedPackageReviews
<1>4. Selected(call) = stocks /\ StockIdentitiesUnique(stocks)
  BY PackageStocks
<1>5. unsupported_joint_system_issues(p.docs.spec) = {}
  BY GeneratedPackageJoints
<1>6. ~\E s \in UsedStocks(parts, stocks) : NesterRaises(PartsOn(s, parts, stocks), s)
  BY <1>3, <1>4, CleanScreenNests
<1>60. DOMAIN call.enclosed \subseteq SafeCallerArtifacts
  BY <1>1 DEF Verifies, ArtifactIdentitiesHold
<1> HIDE DEF call
<1>7. Blocker(call) = BlockerOf(call, parts, stocks, "")
  BY <1>1, <1>3, <1>4 DEF Blocker
<1>8. BlockerOf(call, parts, stocks, "") = ""
  BY <1>1, <1>2, <1>3, <1>5, <1>6, <1>60 DEF BlockerOf
<1> QED
  BY <1>7, <1>8 DEF call

\* The call a package names is one the workshop can be asked for.
LEMMA FrozenRequestInOrder ==
    ASSUME NEW p, Verifies(p)
    PROVE  InOrder(FrozenRequest(p))
<1> DEFINE call == FrozenRequest(p)
<1>1. /\ call.design = p.docs.spec /\ call.machine = p.docs.plan.machine
      /\ call.source = p.manifest.context.source
      /\ call.statement = p.docs.caller.statement /\ call.provenance = p.docs.caller.provenance
      /\ call.furniture = p.docs.caller.furniture
  BY DEF FrozenRequest
<1>2. ASSUME NEW s \in call.stocks, NEW zone \in s.defects \cup s.clamps
      PROVE  Within(zone, StockRect(s))
  <2>1. PICK t \in p.docs.stock.stocks :
            s = [t EXCEPT !.clamps = @ \ PinsOn(t.id, p.docs.plan.registrations)]
    BY DEF FrozenRequest
  <2>2. /\ s.defects = t.defects /\ s.clamps \subseteq t.clamps
        /\ s.w = t.w /\ s.l = t.l
    BY <2>1
  <2>3. Within(zone, StockRect(t))
    BY <2>2 DEF Verifies, StockSelectionHolds
  <2> QED
    BY <2>2, <2>3 DEF StockRect
<1>3. call.machine \in ReferenceMachines
  BY <1>1 DEF Verifies, GenerationPlanHolds
<1>4. /\ call.provenance = call.source /\ call.furniture \in {0, call.design.id}
  BY <1>1 DEF Verifies, SourcesHold
<1>5. call.statement = (IF call.design.contract = Nothing THEN 0
                                                       ELSE call.design.contract.statement)
  BY <1>1 DEF Verifies, StatementHolds
<1> QED
  BY <1>2, <1>3, <1>4, <1>5 DEF InOrder

\* All that is read in a package is the build of its frozen inputs.
LEMMA GeneratedPackageContext ==
    ASSUME NEW p, NEW R, Packed(p, R), Verifies(p)
    PROVE  FrozenContext(FrozenRequest(p)) = p.manifest.context
<1> DEFINE context == p.manifest.context
<1>1. PICK r \in R : context = FrozenContext(r)
  BY DEF Packed
<1>2. context = [project |-> context.project, revision |-> context.revision,
                 design |-> context.design, machine |-> context.machine,
                 evidence |-> context.evidence, source |-> context.source,
                 materials |-> context.materials]
  BY <1>1 DEF FrozenContext
<1>3. context.design = p.docs.spec.id /\ context.materials = Materials(p.docs.spec.parts)
  BY DEF Verifies, ReviewCoreHolds
<1>4. context.machine = p.docs.plan.machine.id
  BY DEF Verifies, GenerationPlanHolds
<1>5. FrozenContext(FrozenRequest(p)) =
        [project |-> context.project, revision |-> context.revision,
         design |-> p.docs.spec.id, machine |-> p.docs.plan.machine.id,
         evidence |-> context.evidence, source |-> context.source,
         materials |-> Materials(p.docs.spec.parts)]
  BY DEF FrozenContext, FrozenRequest
<1> QED
  BY <1>2, <1>3, <1>4, <1>5

LEMMA VerifiedIsSealed ==
    ASSUME NEW p, NEW R, Packed(p, R), Verifies(p)
    PROVE  p = Sealed(p.manifest.context, p.docs)
<1>1. /\ p = [manifest |-> p.manifest, docs |-> p.docs, handoff |-> p.handoff]
      /\ p.manifest = [context |-> p.manifest.context, contextHash |-> p.manifest.contextHash,
                       inventory |-> p.manifest.inventory, handoff |-> p.manifest.handoff]
  BY DEF Packed
<1>2. /\ p.manifest.inventory = p.docs /\ p.manifest.handoff = p.handoff
      /\ p.manifest.contextHash = p.manifest.context
      /\ p.handoff = supplier_handoff(p.manifest.context, p.docs)
  BY DEF Verifies, ManifestHolds, HandoffHolds
<1> QED
  BY <1>1, <1>2 DEF Sealed, build_manifest

LEMMA PackageInputDocuments ==
    ASSUME NEW p, NEW R, Packed(p, R), Verifies(p)
    PROVE  LET call == FrozenRequest(p)
           IN  /\ p.docs.core = review_core(p.docs.spec, p.manifest.context)
               /\ p.docs.caller = [statement |-> call.statement, provenance |-> call.provenance,
                                   furniture |-> call.furniture]
               /\ p.docs.cad = CadOf(p.docs.spec, call.freecad)
               /\ p.docs.plan = generation_plan(p.docs.plan.machine, p.docs.plan.stocks,
                                    p.docs.plan.registrations, p.docs.plan.program)
<1> DEFINE call == FrozenRequest(p)
<1>1. /\ call.statement = p.docs.caller.statement /\ call.provenance = p.docs.caller.provenance
      /\ call.furniture = p.docs.caller.furniture /\ call.freecad = p.docs.cad.requested
  BY DEF FrozenRequest
<1>2. p.docs.core = review_core(p.docs.spec, p.manifest.context)
  BY DEF Verifies, ReviewCoreHolds
<1>3. p.docs.caller = [statement |-> p.docs.caller.statement,
                       provenance |-> p.docs.caller.provenance,
                       furniture |-> p.docs.caller.furniture]
  <2>1. "caller" \in Documents
    BY DEF Documents
  <2>2. PICK r \in R : p.docs.caller = Built(r).caller
    BY <2>1, PackedDocument
  <2>3. p.docs.caller = [statement |-> r.statement, provenance |-> r.provenance,
                         furniture |-> r.furniture]
    BY <2>2, BuiltDocuments
  <2> QED
    BY <2>3
<1>4. p.docs.cad = CadOf(p.docs.spec, p.docs.cad.requested)
  <2>1. "cad" \in Documents
    BY DEF Documents
  <2>2. PICK r \in R : p.docs.cad = Built(r).cad
    BY <2>1, PackedDocument
  <2>3. p.docs.cad = CadOf(r.design, r.freecad)
    BY <2>2, BuiltDocuments
  <2>4. p.docs.cad.geometry = p.docs.spec.id
    BY DEF Verifies, CadHolds
  <2>5. r.design.id = p.docs.spec.id /\ p.docs.cad.requested = r.freecad
    BY <2>3, <2>4 DEF CadOf
  <2> QED
    BY <2>3, <2>5 DEF CadOf
<1>5. p.docs.plan = generation_plan(p.docs.plan.machine, p.docs.plan.stocks,
                                    p.docs.plan.registrations, p.docs.plan.program)
  <2>1. "plan" \in Documents
    BY DEF Documents
  <2>2. PICK r \in R : p.docs.plan = Built(r).plan
    BY <2>1, PackedDocument
  <2>3. p.docs.plan = generation_plan(r.machine, Selected(r), r.registrations, r.program)
    BY <2>2, BuiltDocuments
  <2> QED
    BY <2>3 DEF generation_plan
<1> QED
  BY <1>1, <1>2, <1>3, <1>4, <1>5

LEMMA GeneratedPackageIsBuilt ==
    ASSUME NEW p, NEW R, Buildable(R), Packed(p, R), Verifies(p),
           p.docs.status.cam = "VALIDATION_GENERATED"
    PROVE  p.docs = [Built(FrozenRequest(p)) EXCEPT !.fcstd = p.docs.fcstd]
<1> DEFINE call == FrozenRequest(p)
           parts == p.docs.spec.parts
           stocks == p.docs.stock.stocks
           machine == p.docs.plan.machine
           layouts == Layouts(parts, stocks)
<1>1. /\ call.design = p.docs.spec /\ call.machine = machine /\ call.enclosed = p.docs.enclosed
      /\ call.registrations = p.docs.plan.registrations /\ call.program = p.docs.plan.program
      /\ call.evidence = p.manifest.context.evidence
  BY DEF FrozenRequest
<1>2. FrozenContext(call) = p.manifest.context
  BY GeneratedPackageContext
<1>3. Selected(call) = stocks /\ p.docs.plan.stocks = stocks
  BY PackageStocks
<1>4. /\ ReviewBlocker(call) = "" /\ p.docs.cam # Nothing
      /\ p.docs.status = generated_design_review_package_status(p.docs.plan.program)
      /\ p.docs.dfm = run_dfm_screen(parts, stocks, machine, layouts)
  BY GeneratedPackageReviews
<1>5. /\ p.docs.core = review_core(p.docs.spec, p.manifest.context)
      /\ p.docs.caller = [statement |-> call.statement, provenance |-> call.provenance,
                          furniture |-> call.furniture]
      /\ p.docs.cad = CadOf(p.docs.spec, call.freecad)
      /\ p.docs.plan = generation_plan(machine, stocks, p.docs.plan.registrations,
                                       p.docs.plan.program)
  BY <1>3, PackageInputDocuments
<1>6. p.docs.stock = stock_selection(parts, stocks)
  BY DEF Verifies, StockSelectionHolds
<1>7. /\ p.docs.cam = CamOf(p.docs.spec, stocks, machine, layouts)
      /\ p.docs.program = IF p.docs.plan.program THEN [of |-> p.docs.cam] ELSE Nothing
  BY DEF Verifies, CamHolds
<1>8. p.docs.readiness = build_workshop_readiness_report(p.docs.spec, p.docs.dfm, p.docs.cam,
                            p.docs.cam # Nothing /\ p.docs.plan.program,
                            p.manifest.context.evidence)
  BY DEF Verifies, ReadinessHolds
<1>9. p.docs = [name \in Documents |-> p.docs[name]]
  BY DEF Packed, Documented
<1> HIDE DEF call, parts, stocks, machine, layouts
<1>10. Built(call) = DocumentsOf(call, parts, stocks, "",
                        run_dfm_screen(parts, stocks, machine, layouts),
                        CamOf(p.docs.spec, stocks, machine, layouts))
  <2>1. call.design.parts = parts
    BY <1>1 DEF parts
  <2>2. Built(call) = BuiltUnder(call, parts, stocks, "")
    BY <2>1, <1>3, <1>4 DEF Built
  <2>3. ReportOf(call, parts, stocks, "") = run_dfm_screen(parts, stocks, machine, layouts)
    BY <1>1 DEF ReportOf, layouts
  <2> QED
    BY <1>1, <2>2, <2>3 DEF BuiltUnder, layouts
<1>11. Built(call) = DocumentsOf(call, parts, stocks, "", p.docs.dfm, p.docs.cam)
  BY <1>4, <1>7, <1>10
<1> DEFINE built == DocumentsOf(call, parts, stocks, "", p.docs.dfm, p.docs.cam)
<1>12. built = [name \in Documents |-> built[name]]
  BY DEF DocumentsOf, Documents
<1>13. /\ built.spec = p.docs.spec /\ built.core = p.docs.core /\ built.caller = p.docs.caller
       /\ built.cad = p.docs.cad /\ built.enclosed = p.docs.enclosed
  BY <1>1, <1>2, <1>5 DEF DocumentsOf
<1>14. built.stock = p.docs.stock /\ built.plan = p.docs.plan
  BY <1>1, <1>5, <1>6 DEF DocumentsOf
<1>15. built.dfm = p.docs.dfm /\ built.status = p.docs.status /\ built.cam = p.docs.cam
  BY <1>1, <1>4 DEF DocumentsOf
<1>16. built.readiness = p.docs.readiness
  <2>1. built.readiness = build_workshop_readiness_report(p.docs.spec, p.docs.dfm, p.docs.cam,
                            "" = "" /\ p.docs.plan.program, p.manifest.context.evidence)
    BY <1>1 DEF DocumentsOf
  <2>2. (p.docs.cam # Nothing) = ("" = "")
    BY <1>4
  <2> QED
    BY <1>8, <2>1, <2>2
<1>17. built.program = p.docs.program
  BY <1>1, <1>7 DEF DocumentsOf
<1>18. \A name \in Documents \ {"fcstd"} : built[name] = p.docs[name]
  <2> HIDE DEF built
  <2> QED
    BY <1>13, <1>14, <1>15, <1>16, <1>17 DEF Documents
<1>19. [built EXCEPT !.fcstd = p.docs.fcstd] = p.docs
  <2> HIDE DEF built
  <2> QED
    BY <1>9, <1>12, <1>18
<1> QED
  BY <1>11, <1>19 DEF call

\* What the invariant says of the origins of the documents makes them buildable.
LEMMA OriginsAreBuildable ==
    ASSUME PackageInv, verdict \in {"built", "received", "accepted"}
    PROVE  Buildable(Origins)
BY SplicedAreBuilt, DesignIdNamesContent DEF PackageInv, Origins, Buildable

LEMMA PackageInvImplies == PackageInv => AcceptedIsOfOneBuild
<1> SUFFICES ASSUME PackageInv, verdict \in {"built", "accepted"}
             PROVE  LET status == parcel.docs.status
                        call == FrozenRequest(parcel)
                    IN  IF status.cam = "VALIDATION_GENERATED"
                        THEN /\ InOrder(call) /\ Blocker(call) = "" /\ ReviewBlocker(call) = ""
                             /\ call.freecad = (parcel.docs.fcstd # Nothing)
                             /\ parcel = Sealed(FrozenContext(call),
                                            [Built(call) EXCEPT !.fcstd = parcel.docs.fcstd])
                        ELSE /\ parcel.docs.cam = Nothing /\ parcel.docs.program = Nothing
                             /\ \/ status.blockers = {ReviewBlocker(call)}
                                \/ status.blockers = {"TWO_SIDED_REGISTRATION_MISSING"}
  BY DEF AcceptedIsOfOneBuild
<1>1. Buildable(Origins) /\ Packed(parcel, Origins) /\ Verifies(parcel)
  BY OriginsAreBuildable DEF PackageInv
<1>2. CASE parcel.docs.status.cam = "VALIDATION_GENERATED"
  <2>1. Blocker(FrozenRequest(parcel)) = ""
    BY <1>1, <1>2, GeneratedPackageIsBuildable
  <2>2. ReviewBlocker(FrozenRequest(parcel)) = ""
    BY <1>1, <1>2, GeneratedPackageReviews
  <2>3. parcel = Sealed(parcel.manifest.context, parcel.docs)
    BY <1>1, VerifiedIsSealed
  <2>4. parcel.docs = [Built(FrozenRequest(parcel)) EXCEPT !.fcstd = parcel.docs.fcstd]
    BY <1>1, <1>2, GeneratedPackageIsBuilt
  <2>5. parcel.manifest.context = FrozenContext(FrozenRequest(parcel))
    BY <1>1, GeneratedPackageContext
  <2>6. parcel = Sealed(FrozenContext(FrozenRequest(parcel)),
                        [Built(FrozenRequest(parcel)) EXCEPT !.fcstd = parcel.docs.fcstd])
    BY <2>3, <2>4, <2>5, Zenon
  <2>7. FrozenRequest(parcel).freecad = (parcel.docs.fcstd # Nothing)
    <3>1. FrozenRequest(parcel).freecad = parcel.docs.cad.requested
      BY DEF FrozenRequest
    <3>2. parcel.docs.cad.requested = (parcel.docs.fcstd # Nothing)
      BY <1>1, Zenon DEF Verifies, CadHolds
    <3> QED
      BY <3>1, <3>2, Zenon
  <2>8. InOrder(FrozenRequest(parcel))
    BY <1>1, FrozenRequestInOrder
  <2> QED
    BY <1>2, <2>1, <2>2, <2>6, <2>7, <2>8, Zenon
<1>3. CASE parcel.docs.status.cam # "VALIDATION_GENERATED"
  BY <1>1, <1>3, BlockedPackage
<1> QED
  BY <1>2, <1>3

\* Every package that build_production_bundle returns or read_and_verify_package
\* accepts, of whatever documents it was put together, is one package: all that is
\* read in it is the build of its own frozen inputs, a call that is in order and that
\* the builder accepts, or it is blocked for a reason that is true of them.  Of the
\* FreeCAD project it only holds that it is there when it was asked for.
THEOREM AcceptedPackages == PackageSpec => []AcceptedIsOfOneBuild
BY PackageInvInit, PackageInvStep, PackageInvImplies, PTL DEF PackageSpec

-----------------------------------------------------------------------------
(***************************************************************************)
(* The sheets of a package.  The pins the builder adds to the clamps leave *)
(* a stock a stock, so the machining documents of a verified package are   *)
(* the plan of a design, its stocks and a machine as the calls type them,  *)
(* and a plan is sound (PlanIsSound).                                      *)
(***************************************************************************)
LEMMA PinsAreRects ==
    ASSUME NEW g, IsRegistration(g)
    PROVE  IsFiniteSet(PinFootprints(g)) /\ \A pin \in PinFootprints(g) : IsRect(pin)
<1> DEFINE r == PinRadius(g)
           Pin(c) == Rect(c[1] - r, c[2] - r, 2 * r, 2 * r)
           pins == [c \in g.points |-> Pin(c)]
<1>1. r \in Int
  BY DEF IsRegistration, PinRadius
<1>2. PinFootprints(g) = {pins[c] : c \in g.points}
  BY DEF PinFootprints
<1>3. IsFiniteSet(g.points) /\ \A c \in g.points : c[1] \in Int /\ c[2] \in Int
  BY DEF IsRegistration
<1>4. \A c \in g.points : IsRect(Pin(c))
  <2> TAKE c \in g.points
  <2>1. c[1] - r \in Int /\ c[2] - r \in Int /\ 2 * r \in Int
    BY <1>1, <1>3
  <2> HIDE DEF r
  <2> QED
    BY <2>1, RectIsRect
<1> HIDE DEF Pin
<1>5. \A c \in g.points : pins[c] = Pin(c)
  OBVIOUS
<1> HIDE DEF pins
<1> QED
  BY <1>2, <1>3, <1>4, <1>5, FiniteImage

LEMMA PinsOnAreRects ==
    ASSUME NEW registrations, IsFiniteSet(DOMAIN registrations),
           \A k \in DOMAIN registrations : IsRegistration(registrations[k]), NEW id
    PROVE  /\ IsFiniteSet(PinsOn(id, registrations))
           /\ \A pin \in PinsOn(id, registrations) : IsRect(pin)
<1> DEFINE mine == {i \in DOMAIN registrations : i[1] = id}
           pins == [k \in mine |-> PinFootprints(registrations[k])]
<1>1. IsFiniteSet(mine) /\ mine \subseteq DOMAIN registrations
  BY FS_Subset
<1>2. \A k \in mine : IsFiniteSet(pins[k]) /\ \A pin \in pins[k] : IsRect(pin)
  BY PinsAreRects
<1>3. PinsOn(id, registrations) = UNION {pins[k] : k \in mine}
  BY DEF PinsOn
<1> HIDE DEF mine, pins
<1>4. IsFiniteSet(UNION {pins[k] : k \in mine})
  BY <1>1, <1>2, FiniteUnion
<1> QED
  BY <1>2, <1>3, <1>4

LEMMA StockWithPins ==
    ASSUME NEW s, IsStock(s), NEW pins, IsFiniteSet(pins), \A pin \in pins : IsRect(pin)
    PROVE  LET t == [s EXCEPT !.clamps = @ \cup pins]
           IN  /\ IsStock(t) /\ t.id = s.id /\ t.kerf = s.kerf /\ t.w = s.w /\ t.l = s.l
               /\ t.quantity = s.quantity /\ t.defects = s.defects /\ t.clamps = s.clamps \cup pins
<1> DEFINE t == [s EXCEPT !.clamps = @ \cup pins]
           fields == {"id", "w", "l", "quantity", "margin", "kerf", "material", "thickness",
                      "grain", "rotate", "defects", "clamps"}
<1>1. fields \subseteq DOMAIN s
  BY DEF IsStock
<1>2. /\ DOMAIN t = DOMAIN s /\ t.clamps = s.clamps \cup pins
      /\ t.id = s.id /\ t.w = s.w /\ t.l = s.l /\ t.quantity = s.quantity
      /\ t.margin = s.margin /\ t.kerf = s.kerf /\ t.defects = s.defects
  BY <1>1
<1> HIDE DEF t
<1>3. IsFiniteSet(s.clamps \cup pins)
  BY FS_Union DEF IsStock
<1>4. IsStock(t)
  BY <1>1, <1>2, <1>3 DEF IsStock
<1> QED
  BY <1>2, <1>4 DEF t

LEMMA SelectedAreStocks ==
    ASSUME NEW r \in Requests
    PROVE  IsFiniteSet(Selected(r)) /\ \A s \in Selected(r) : IsStock(s)
<1> DEFINE Pinned(s) == [s EXCEPT !.clamps = @ \cup PinsOn(s.id, r.registrations)]
           pinned == [s \in r.stocks |-> Pinned(s)]
<1>1. /\ IsFiniteSet(r.stocks) /\ \A s \in r.stocks : IsStock(s)
      /\ \A id : IsFiniteSet(PinsOn(id, r.registrations))
                    /\ \A pin \in PinsOn(id, r.registrations) : IsRect(pin)
  BY CallsAreTyped, PinsOnAreRects
<1>2. \A s \in r.stocks : IsStock(Pinned(s))
  BY <1>1, StockWithPins
<1>3. Selected(r) = {pinned[s] : s \in r.stocks} /\ \A s \in r.stocks : pinned[s] = Pinned(s)
  BY DEF Selected, WithPins
<1> HIDE DEF pinned, Pinned
<1> QED
  BY <1>1, <1>2, <1>3, FiniteImage

\* The typed inputs a package carries, whatever builds they come from.
LEMMA PackageInputs ==
    ASSUME NEW p, NEW R, Buildable(R), Packed(p, R), Verifies(p)
    PROVE  SheetInputs(p.docs.spec, p.docs.stock.stocks, p.docs.plan.machine)
<1>0. {"spec", "stock", "plan"} \subseteq Documents
  BY DEF Documents
<1>1. PICK q \in R : p.docs.spec = Built(q).spec
  BY <1>0, PackedDocument
<1>2. PICK r \in R : p.docs.stock = Built(r).stock
  BY <1>0, PackedDocument
<1>3. PICK t \in R : p.docs.plan = Built(t).plan
  BY <1>0, PackedDocument
<1>4. q \in Requests /\ r \in Requests /\ t \in Requests
  BY DEF Buildable
<1>5. p.docs.spec = q.design
  BY <1>1, BuiltDocuments
<1>6. p.docs.stock.stocks = Selected(r)
  <2>1. Built(r).stock = stock_selection(r.design.parts, Selected(r))
    BY BuiltDocuments
  <2> QED
    BY <1>2, <2>1 DEF stock_selection
<1>7. p.docs.plan.machine = t.machine
  <2>1. Built(t).plan = generation_plan(t.machine, Selected(t), t.registrations, t.program)
    BY BuiltDocuments
  <2> QED
    BY <1>3, <2>1 DEF generation_plan
<1>8. IsDesign(q.design) /\ IsMachine(t.machine)
  BY <1>4, CallsAreTyped
<1>9. IsFiniteSet(Selected(r)) /\ \A s \in Selected(r) : IsStock(s)
  BY <1>4, SelectedAreStocks
<1>10. StockIdentitiesUnique(p.docs.stock.stocks)
  BY PackageStocks
<1> QED
  BY <1>5, <1>6, <1>7, <1>8, <1>9, <1>10 DEF SheetInputs

\* The machining documents of a verified package are the plan of its frozen inputs.
LEMMA PackageIsPlanned ==
    ASSUME NEW p, NEW R, Buildable(R), Packed(p, R), Verifies(p), p.docs.cam # Nothing
    PROVE  LET docs == p.docs
               stocks == docs.stock.stocks
           IN  /\ Planned(docs.spec, stocks, docs.plan.machine, docs.plan.registrations)
               /\ docs.cam = CamOf(docs.spec, stocks, docs.plan.machine,
                                   Layouts(docs.spec.parts, stocks))
<1>1. p.docs.status.cam = "VALIDATION_GENERATED"
  BY BlockedPackage
<1>2. Blocking(run_dfm_screen(p.docs.spec.parts, p.docs.stock.stocks, p.docs.plan.machine,
                              Layouts(p.docs.spec.parts, p.docs.stock.stocks))) = {}
  BY <1>1, GeneratedPackageReviews
<1>3. /\ SetupBlocker(p.docs.spec, p.docs.stock.stocks, p.docs.plan.machine,
                      p.docs.plan.registrations,
                      Layouts(p.docs.spec.parts, p.docs.stock.stocks)) = ""
      /\ p.docs.cam = CamOf(p.docs.spec, p.docs.stock.stocks, p.docs.plan.machine,
                            Layouts(p.docs.spec.parts, p.docs.stock.stocks))
  BY <1>1 DEF Verifies, CamHolds
<1>4. SheetInputs(p.docs.spec, p.docs.stock.stocks, p.docs.plan.machine)
  BY PackageInputs
<1> QED
  BY <1>2, <1>3, <1>4 DEF Planned

LEMMA PackageInvSheets == PackageInv => PlannedSheetIsSound
<1> SUFFICES ASSUME PackageInv, verdict \in {"built", "accepted"}, parcel.docs.cam # Nothing
             PROVE  PlannedSheetIsSound
  BY DEF PlannedSheetIsSound
<1> DEFINE cam == parcel.docs.cam
           stocks == parcel.docs.stock.stocks
           machine == parcel.docs.plan.machine
           Stock(o) == StockOf(o.stock, stocks)
           Placed(o) == {p \in cam.layouts[o.stock].placed : p.sheet = o.sheet}
           Own(o) == {p \in Placed(o) : p.part = o.part /\ p.n = o.n}
           ops == cam.operations
<1>1. Buildable(Origins) /\ Packed(parcel, Origins) /\ Verifies(parcel)
  BY OriginsAreBuildable DEF PackageInv
<1>2. SoundCam(cam, stocks, machine)
  BY <1>1, PackageIsPlanned, PlanIsSound
<1> HIDE DEF cam, stocks, machine
<1>3. ASSUME NEW n \in DOMAIN ops
      PROVE  /\ \A p \in Placed(ops[n]) \ Own(ops[n]) :
                    ~Intersects(SheetCut(ops[n], Stock(ops[n])), p.rect,
                                IF ops[n].release THEN Stock(ops[n]).kerf ELSE 0)
             /\ \A zone \in Stock(ops[n]).clamps \cup machine.keepouts :
                    ~Intersects(ops[n].envelope, zone, 0)
             /\ ops[n].release => \A zone \in Stock(ops[n]).clamps \cup Stock(ops[n]).defects :
                    ~Intersects(SheetCut(ops[n], Stock(ops[n])), zone, Stock(ops[n]).kerf)
  <2>1. KeepsClear(ops[n], cam.layouts[ops[n].stock], Stock(ops[n]), machine)
    BY <1>2, <1>3 DEF SoundCam
  <2>2. \A p \in Placed(ops[n]) \ Own(ops[n]) :
            /\ p \in cam.layouts[ops[n].stock].placed /\ p.sheet = ops[n].sheet
            /\ <<p.part, p.n>> # <<ops[n].part, ops[n].n>>
    OBVIOUS
  <2> QED
    BY <2>1, <2>2 DEF KeepsClear
<1>4. ASSUME NEW m \in DOMAIN ops, NEW n \in DOMAIN ops
      PROVE  /\ /\ <<ops[m].part, ops[m].n>> = <<ops[n].part, ops[n].n>>
                /\ ops[m].side = "A" /\ ops[n].side = "B"
                /\ ~ops[m].through /\ ~ops[n].through
                /\ Intersects(SheetCut(ops[m], Stock(ops[m])), SheetCut(ops[n], Stock(ops[n])), 0)
                => Stock(ops[m]).thickness - ops[m].depth - ops[n].depth >= MinRemainingWall
             /\ <<ops[m].stock, ops[m].sheet>> = <<ops[n].stock, ops[n].sheet>> /\ m < n =>
                    /\ ops[m].release => ops[n].release
                    /\ ops[m].side = "A" => ops[n].side = "A"
  <2>1. <<ops[m].stock, ops[m].sheet>> = <<ops[n].stock, ops[n].sheet>> =>
            ops[m].stock = ops[n].stock /\ ops[m].sheet = ops[n].sheet
    OBVIOUS
  <2> QED
    BY <1>2, <1>4, <2>1 DEF SoundCam
<1> QED
  BY <1>3, <1>4 DEF PlannedSheetIsSound, cam, stocks, machine

\* Every sheet of a package that build_production_bundle returns or
\* read_and_verify_package accepts is sound as it lies on the machine, whatever the
\* parts, the stocks, the fixtures and the pins: no cut reaches into another part, a
\* fixture or a keep-out, opposite cuts of a part leave the wall, and the sheet is
\* turned at most once and releases its parts last.
THEOREM SheetsAreSound == PackageSpec => []PlannedSheetIsSound
BY PackageInvInit, PackageInvStep, PackageInvSheets, PTL DEF PackageSpec

-----------------------------------------------------------------------------
(***************************************************************************)
(* The builder and its verifier.  What build_production_bundle forms from  *)
(* a call in order passes every check of read_and_verify_package.  Written *)
(* down once: the answers of the setup plan, and what a build that was not *)
(* refused leaves true of its call.                                        *)
(***************************************************************************)
SetupCodes == {"", "TWO_SIDED_REGISTRATION_MISSING", "TWO_SIDED_REGISTRATION_INVALID",
               "UNSUPPORTED", "SETUP_SEQUENCE_CONFLICT"}
LEMMA SetupBlockerIsCode ==
    ASSUME NEW design, NEW stocks, NEW machine, NEW registrations, NEW layouts
    PROVE  SetupBlocker(design, stocks, machine, registrations, layouts) \in SetupCodes
<1>1. ASSUME NEW layout, NEW parts, NEW stock
      PROVE  PlanBlocker(layout, parts, stock, machine, registrations) \in SetupCodes
  BY DEF PlanBlocker, SetupCodes
<1>2. "" \in SetupCodes
  BY DEF SetupCodes
<1> QED
  BY <1>1, <1>2 DEF SetupBlocker

LEMMA ReviewBlockerCases ==
    ASSUME NEW r
    PROVE  LET code == ReviewBlocker(r)
               stocks == Selected(r)
               parts == r.design.parts
           IN  /\ code = "STOCK_PROFILE_MISSING" <=> Unmatched(parts, stocks) # {}
               /\ code = "DFM-GRAIN-001" <=>
                    Unmatched(parts, stocks) = {} /\ GrainIssues(parts, stocks) # {}
               /\ code \in {"DADO_RETENTION", "BACK_PANEL_RETENTION"} =>
                    code = retention_evidence_blocker_code(r.design)
               /\ code = "" =>
                    /\ retention_evidence_blocker_code(r.design) = ""
                    /\ SetupBlocker(r.design, stocks, r.machine, r.registrations,
                                    Layouts(parts, stocks)) = ""
               /\ code \in SetupCodes \cup {"STOCK_PROFILE_MISSING", "DFM-GRAIN-001",
                                            "DADO_RETENTION", "BACK_PANEL_RETENTION"}
<1> DEFINE setup == SetupBlocker(r.design, Selected(r), r.machine, r.registrations,
                                 Layouts(r.design.parts, Selected(r)))
           kept == retention_evidence_blocker_code(r.design)
           missing == Unmatched(r.design.parts, Selected(r)) # {}
           grain == GrainIssues(r.design.parts, Selected(r)) # {}
<1>1. setup \in SetupCodes
  BY SetupBlockerIsCode
<1>2. kept \in {"", "DADO_RETENTION", "BACK_PANEL_RETENTION"}
        /\ (RetentionCodes(r.design) = {} <=> kept = "")
  BY RetentionBlocker
<1>3. ReviewBlocker(r) = IF missing THEN "STOCK_PROFILE_MISSING"
                         ELSE IF grain THEN "DFM-GRAIN-001"
                         ELSE IF RetentionCodes(r.design) # {} THEN kept ELSE setup
  BY DEF ReviewBlocker
<1> HIDE DEF setup, kept, missing, grain
<1>4. /\ ReviewBlocker(r) = "STOCK_PROFILE_MISSING" <=> missing
      /\ ReviewBlocker(r) = "DFM-GRAIN-001" <=> ~missing /\ grain
      /\ ReviewBlocker(r) \in {"DADO_RETENTION", "BACK_PANEL_RETENTION"} => ReviewBlocker(r) = kept
      /\ ReviewBlocker(r) = "" => kept = "" /\ setup = ""
      /\ ReviewBlocker(r) \in SetupCodes \cup {"STOCK_PROFILE_MISSING", "DFM-GRAIN-001",
                                               "DADO_RETENTION", "BACK_PANEL_RETENTION"}
  BY <1>1, <1>2, <1>3 DEF SetupCodes
<1> QED
  BY <1>4 DEF setup, kept, missing, grain

\* The nester's own check never fails, so no refusal is the nester's.
LEMMA RefusalIsNamed ==
    ASSUME NEW r \in Requests
    PROVE  Blocker(r) \notin {"NESTER", "unverifiable"}
<1> DEFINE parts == r.design.parts
           stocks == Selected(r)
<1>1. ASSUME NEW s \in UsedStocks(parts, stocks) PROVE ~NesterRaises(PartsOn(s, parts, stocks), s)
  <2>1. IsDesign(r.design)
    BY CallsAreTyped
  <2>2. IsStock(s)
    BY SelectedAreStocks DEF UsedStocks
  <2> QED
    BY <2>1, <2>2, PartsOnSheets, NesterNeverRaises
<1>2. ReviewBlocker(r) \notin {"NESTER", "unverifiable"}
  BY ReviewBlockerCases DEF SetupCodes
<1> QED
  BY <1>1, <1>2 DEF Blocker, BlockerOf

Unrefused(r) ==
    /\ StockIdentitiesUnique(r.stocks)
    /\ \A s \in r.stocks : ~(s.kerf < MIN_VALIDATION_CONTOUR_KERF)
    /\ RegistrationsPlaceable(r.stocks, r.registrations)
    /\ ReviewBlocker(r) \notin {"STOCK_PROFILE_MISSING", "DFM-GRAIN-001"} =>
            Blocking(run_dfm_screen(r.design.parts, Selected(r), r.machine,
                                    Layouts(r.design.parts, Selected(r)))) = {}
LEMMA BuiltIsUnrefused ==
    ASSUME NEW r, Blocker(r) = ""
    PROVE  Unrefused(r)
<1> DEFINE parts == r.design.parts
           stocks == Selected(r)
           early == Unmatched(parts, stocks) # {} \/ GrainIssues(parts, stocks) # {}
           blocking == Blocking(run_dfm_screen(parts, stocks, r.machine, Layouts(parts, stocks)))
<1>1. /\ StockIdentitiesUnique(r.stocks)
      /\ ~(\E s \in r.stocks : s.kerf < MIN_VALIDATION_CONTOUR_KERF)
      /\ RegistrationsPlaceable(r.stocks, r.registrations)
  BY DEF Blocker, BlockerOf
<1>2. ~early => blocking = {}
  BY DEF Blocker, BlockerOf
<1>3. ReviewBlocker(r) \notin {"STOCK_PROFILE_MISSING", "DFM-GRAIN-001"} => ~early
  BY ReviewBlockerCases
<1> QED
  BY <1>1, <1>2, <1>3 DEF Unrefused

\* The documents the report decides.
LEMMA BuiltReports ==
    ASSUME NEW r
    PROVE  LET code == ReviewBlocker(r)
               d == Built(r)
           IN  /\ d.dfm = ReportOf(r, r.design.parts, Selected(r), code)
               /\ d.readiness = build_workshop_readiness_report(r.design, d.dfm, d.cam,
                                    code = "" /\ r.program, r.evidence)
               /\ d.program = IF code = "" /\ r.program THEN [of |-> d.cam] ELSE Nothing
BY DEF Built, BuiltUnder, DocumentsOf

Bundle(r) == Sealed(FrozenContext(r), Built(r))
LEMMA BundleParts ==
    ASSUME NEW r
    PROVE  /\ Bundle(r).docs = Built(r)
           /\ Bundle(r).manifest.context = FrozenContext(r)
           /\ Bundle(r).manifest.contextHash = FrozenContext(r)
           /\ Bundle(r).manifest.inventory = Built(r)
           /\ Bundle(r).manifest.handoff = Bundle(r).handoff
           /\ Bundle(r).handoff = supplier_handoff(FrozenContext(r), Built(r))
BY DEF Bundle, Sealed, build_manifest

\* The checks that compare what was written with what it was written from.
LEMMA BundleIsBound ==
    ASSUME NEW r \in Requests, InOrder(r)
    PROVE  /\ ManifestHolds(Bundle(r)) /\ ReviewCoreHolds(Bundle(r))
           /\ SourcesHold(Bundle(r)) /\ StatementHolds(Bundle(r))
           /\ CadHolds(Bundle(r)) /\ EvidenceBindingHolds(Bundle(r))
           /\ Bundle(r).handoff = supplier_handoff(Bundle(r).manifest.context, Bundle(r).docs)
<1> DEFINE d == Built(r)
           c == FrozenContext(r)
<1>1. /\ d.spec = r.design /\ d.core = review_core(r.design, c)
      /\ d.caller = [statement |-> r.statement, provenance |-> r.provenance,
                     furniture |-> r.furniture]
      /\ d.cad = CadOf(r.design, r.freecad) /\ d.fcstd = FreecadProject(r.design, r.freecad)
  BY BuiltDocuments
<1>2. c.design = r.design.id /\ c.source = r.source /\ c.evidence = r.evidence
        /\ c.materials = Materials(r.design.parts)
  BY DEF FrozenContext
<1>3. d.readiness.workshop = workshop_evidence(r.design, r.evidence)
  <2>0. \A dfm, cam, program :
            build_workshop_readiness_report(r.design, dfm, cam, program, r.evidence).workshop =
                workshop_evidence(r.design, r.evidence)
    BY DEF build_workshop_readiness_report
  <2>1. d.readiness = build_workshop_readiness_report(r.design, d.dfm, d.cam,
                            ReviewBlocker(r) = "" /\ r.program, r.evidence)
    BY BuiltReports
  <2> QED
    BY <2>0, <2>1, ZenonT(60)
<1> HIDE DEF d, c
<1>4. Bundle(r).docs = d /\ Bundle(r).manifest.context = c
  BY BundleParts DEF d, c
<1>5. ManifestHolds(Bundle(r))
  BY BundleParts DEF ManifestHolds
<1>6. ReviewCoreHolds(Bundle(r))
  BY <1>1, <1>2, <1>4 DEF ReviewCoreHolds
<1>7. SourcesHold(Bundle(r))
  BY <1>1, <1>2, <1>4 DEF SourcesHold, InOrder
<1>8. StatementHolds(Bundle(r))
  BY <1>1, <1>4 DEF StatementHolds, InOrder
<1>9. CadHolds(Bundle(r))
  <2>1. r.freecad \in BOOLEAN
    BY CallsAreTyped
  <2>2. FreecadProject(r.design, TRUE) # Nothing /\ FreecadProject(r.design, FALSE) = Nothing
    BY DEF FreecadProject, Nothing
  <2>3. r.freecad = (d.fcstd # Nothing)
    BY <2>1, <2>2, <1>1, Zenon
  <2>4. /\ d.cad.geometry = r.design.id /\ d.cad.requested = r.freecad
        /\ d.cad.step = IF r.freecad THEN r.design.id ELSE 0
    BY <1>1 DEF CadOf
  <2> QED
    BY <2>3, <2>4, <1>1, <1>4, Zenon DEF CadHolds
<1>10. EvidenceBindingHolds(Bundle(r))
  BY <1>1, <1>2, <1>3, <1>4 DEF EvidenceBindingHolds
<1>11. Bundle(r).handoff = supplier_handoff(Bundle(r).manifest.context, Bundle(r).docs)
  BY BundleParts
<1> QED
  BY <1>5, <1>6, <1>7, <1>8, <1>9, <1>10, <1>11
\* A stock of a package is a stock of its call with the pins of its registrations.
IsPinned(s, t, r) ==
    /\ t \in r.stocks /\ IsStock(t) /\ IsStock(s)
    /\ s = [t EXCEPT !.clamps = @ \cup PinsOn(t.id, r.registrations)]
    /\ s.id = t.id /\ s.kerf = t.kerf /\ s.quantity = t.quantity /\ s.defects = t.defects
    /\ s.clamps = t.clamps \cup PinsOn(t.id, r.registrations) /\ StockRect(s) = StockRect(t)
LEMMA PinnedStocks ==
    ASSUME NEW r \in Requests
    PROVE  /\ \A s \in Selected(r) : \E t : IsPinned(s, t, r)
           /\ \A t \in r.stocks : \E s \in Selected(r) : IsPinned(s, t, r)
<1> DEFINE Pinned(t) == [t EXCEPT !.clamps = @ \cup PinsOn(t.id, r.registrations)]
<1>1. ASSUME NEW t \in r.stocks PROVE IsPinned(Pinned(t), t, r)
  <2>1. /\ IsStock(t) /\ IsFiniteSet(PinsOn(t.id, r.registrations))
        /\ \A pin \in PinsOn(t.id, r.registrations) : IsRect(pin)
    BY CallsAreTyped, PinsOnAreRects
  <2>2. /\ IsStock(Pinned(t)) /\ Pinned(t).id = t.id /\ Pinned(t).kerf = t.kerf
        /\ Pinned(t).w = t.w /\ Pinned(t).l = t.l /\ Pinned(t).quantity = t.quantity
        /\ Pinned(t).defects = t.defects
        /\ Pinned(t).clamps = t.clamps \cup PinsOn(t.id, r.registrations)
    BY <2>1, StockWithPins
  <2> HIDE DEF Pinned
  <2>3. StockRect(Pinned(t)) = StockRect(t)
    BY <2>2 DEF StockRect
  <2> QED
    BY <2>1, <2>2, <2>3 DEF IsPinned, Pinned
<1>2. Selected(r) = {Pinned(t) : t \in r.stocks}
  BY DEF Selected, WithPins
<1> HIDE DEF Pinned
<1> QED
  BY <1>1, <1>2

LEMMA PinnedAreUnique ==
    ASSUME NEW r \in Requests, StockIdentitiesUnique(r.stocks)
    PROVE  StockIdentitiesUnique(Selected(r))
<1> SUFFICES ASSUME NEW s \in Selected(r), NEW q \in Selected(r), s.id = q.id PROVE s = q
  BY DEF StockIdentitiesUnique
<1>1. PICK t : IsPinned(s, t, r)
  BY PinnedStocks
<1>2. PICK u : IsPinned(q, u, r)
  BY PinnedStocks
<1>3. t = u
  BY <1>1, <1>2 DEF IsPinned, StockIdentitiesUnique
<1> QED
  BY <1>1, <1>2, <1>3 DEF IsPinned

\* A pin is on its sheet and clear of the defects and the clamps of the call.
LEMMA PinsArePlaced ==
    ASSUME NEW r, Unrefused(r), NEW t \in r.stocks, NEW pin \in PinsOn(t.id, r.registrations)
    PROVE  /\ Within(pin, StockRect(t))
           /\ \A zone \in t.defects \cup t.clamps : ~Intersects(pin, zone, 0)
<1>1. PICK k \in DOMAIN r.registrations : k[1] = t.id /\ pin \in PinFootprints(r.registrations[k])
  BY DEF PinsOn
<1>2. PICK u \in r.stocks :
        /\ u.id = k[1]
        /\ Within(pin, StockRect(u))
        /\ \A zone \in u.defects \cup u.clamps : ~Intersects(pin, zone, 0)
  BY <1>1 DEF Unrefused, RegistrationsPlaceable
<1>3. u = t
  BY <1>1, <1>2 DEF Unrefused, StockIdentitiesUnique
<1> QED
  BY <1>2, <1>3

LEMMA BundleStocks ==
    ASSUME NEW r \in Requests, InOrder(r), Unrefused(r)
    PROVE  StockSelectionHolds(Bundle(r))
<1>1. Bundle(r).docs.stock = stock_selection(r.design.parts, Selected(r))
        /\ Bundle(r).docs.spec = r.design
  <2>1. /\ Built(r).stock = stock_selection(r.design.parts, Selected(r))
        /\ Built(r).spec = r.design
    BY BuiltDocuments
  <2> QED
    BY <2>1, BundleParts
<1>2. Bundle(r).docs.stock.stocks = Selected(r)
  BY <1>1 DEF stock_selection
<1>3. ASSUME NEW s \in Selected(r)
      PROVE  /\ s.kerf >= MIN_VALIDATION_CONTOUR_KERF
             /\ \A zone \in s.defects \cup s.clamps : Within(zone, StockRect(s))
  <2>1. PICK t : IsPinned(s, t, r)
    BY PinnedStocks
  <2>2. t \in r.stocks /\ s.kerf = t.kerf /\ t.kerf \in Nat
    BY <2>1 DEF IsPinned, IsStock
  <2>3. s.kerf >= MIN_VALIDATION_CONTOUR_KERF
    BY <2>2, SheetPlanBounds DEF Unrefused
  <2>4. ASSUME NEW zone \in s.defects \cup s.clamps PROVE Within(zone, StockRect(t))
    <3>1. CASE zone \in t.defects \cup t.clamps
      BY <2>2, <3>1 DEF InOrder
    <3>2. CASE zone \in PinsOn(t.id, r.registrations)
      BY <2>2, <3>2, PinsArePlaced
    <3> QED
      BY <2>1, <2>4, <3>1, <3>2 DEF IsPinned
  <2>5. StockRect(s) = StockRect(t)
    BY <2>1 DEF IsPinned
  <2> QED
    BY <2>3, <2>4, <2>5
<1>4. StockIdentitiesUnique(Selected(r))
  BY PinnedAreUnique DEF Unrefused
<1> QED
  BY <1>1, <1>2, <1>3, <1>4 DEF StockSelectionHolds

LEMMA BundlePlan ==
    ASSUME NEW r \in Requests, InOrder(r), Unrefused(r)
    PROVE  GenerationPlanHolds(Bundle(r))
<1> DEFINE stocks == Selected(r)
           registrations == r.registrations
           Pins(k) == PinFootprints(registrations[k])
<1>1. /\ Bundle(r).docs.plan = generation_plan(r.machine, stocks, registrations, r.program)
      /\ Bundle(r).docs.stock = stock_selection(r.design.parts, stocks)
  <2>1. /\ Built(r).plan = generation_plan(r.machine, Selected(r), r.registrations, r.program)
        /\ Built(r).stock = stock_selection(r.design.parts, Selected(r))
    BY BuiltDocuments
  <2> QED
    BY <2>1, BundleParts
<1>a. Bundle(r).manifest.context.machine = r.machine.id
  <2>1. FrozenContext(r).machine = r.machine.id
    BY DEF FrozenContext
  <2> QED
    BY <2>1, BundleParts
<1>2. /\ Bundle(r).docs.plan.machine = r.machine /\ Bundle(r).docs.plan.stocks = stocks
      /\ Bundle(r).docs.plan.registrations = registrations
      /\ Bundle(r).docs.stock.stocks = stocks
  BY <1>1 DEF generation_plan, stock_selection
<1>3. r.machine \in ReferenceMachines
  BY DEF InOrder
<1>4. ASSUME NEW k \in DOMAIN registrations
      PROVE  /\ \E s \in stocks : s.id = k[1] /\ k[2] \in 0 .. s.quantity - 1
             /\ Pins(k) \subseteq StockOf(k[1], stocks).clamps
             /\ \A pin \in Pins(k) :
                    /\ Within(pin, StockRect(StockOf(k[1], stocks)))
                    /\ \A zone \in StockOf(k[1], stocks).defects
                                    \cup (StockOf(k[1], stocks).clamps \ PinsOn(k[1], registrations)) :
                            ~Intersects(pin, zone, 0)
  <2>1. PICK t \in r.stocks : t.id = k[1] /\ k[2] \in 0 .. t.quantity - 1
    BY <1>4 DEF Unrefused, RegistrationsPlaceable
  <2>2. PICK s \in stocks : IsPinned(s, t, r)
    BY <2>1, PinnedStocks
  <2>3. StockOf(k[1], stocks) = s
    <3>1. StockIdentitiesUnique(stocks)
      BY PinnedAreUnique DEF Unrefused
    <3>2. s.id = k[1]
      BY <2>1, <2>2 DEF IsPinned
    <3> QED
      BY <3>1, <3>2, StockIsFound
  <2>4. Pins(k) \subseteq PinsOn(t.id, registrations)
    BY <2>1, <1>4 DEF PinsOn
  <2>5. ASSUME NEW pin \in Pins(k)
        PROVE  Within(pin, StockRect(t)) /\ \A zone \in t.defects \cup t.clamps : ~Intersects(pin, zone, 0)
    BY <2>4, <2>5, PinsArePlaced
  <2>6. /\ s.id = k[1] /\ s.quantity = t.quantity /\ StockRect(s) = StockRect(t)
        /\ Pins(k) \subseteq s.clamps
        /\ s.defects \cup (s.clamps \ PinsOn(k[1], registrations)) \subseteq t.defects \cup t.clamps
    BY <2>1, <2>2, <2>4 DEF IsPinned
  <2> QED
    BY <2>1, <2>3, <2>5, <2>6
<1> QED
  BY <1>a, <1>2, <1>3, <1>4 DEF GenerationPlanHolds

\* The issues of the screen block, all but the warning about neighbouring dogbones.
LEMMA WhenIsBlock ==
    ASSUME NEW code, NEW part, NEW holds, NEW i \in When(code, part, holds)
    PROVE  i.severity = "BLOCK"
BY DEF When, Issue

LEMMA ScreenIssues ==
    ASSUME NEW parts, NEW layout, NEW stock, NEW machine,
           NEW i \in Screen(parts, layout, stock, machine)
    PROVE  i.severity = "BLOCK" \/ i.code = "ADJACENT_RELIEF_CLEARANCE"
<1> DEFINE OfFeature(p, f) == AccessIssues(p, f, machine) \cup DepthIssues(p, f)
                                \cup ToolIssues(p, f, machine)
           OfPart(p) == (UNION {OfFeature(p, f) : f \in p.features})
                         \cup OpposingWall(p) \cup FeatureCollisions(p)
                         \cup AdjacentReliefWarnings(p, machine)
           OfPlaced(q) == KeepOutIssues(CHOOSE p \in parts : p.id = q.part, q, layout, stock, machine)
<1>1. \/ i \in stock_grain_binding_issues(parts, stock)
      \/ i \in validate_layout(layout, parts, stock)
      \/ i \in MachineEnvelope(stock, machine)
      \/ \E p \in parts : i \in OfPart(p)
      \/ \E q \in layout.placed : i \in OfPlaced(q)
  BY DEF Screen
<1>2. ASSUME i \in stock_grain_binding_issues(parts, stock) PROVE i.severity = "BLOCK"
  BY <1>2 DEF stock_grain_binding_issues, GrainIssue
<1>3. ASSUME i \in validate_layout(layout, parts, stock) PROVE i.severity = "BLOCK"
  BY <1>3, LayoutIssuesBlock
<1>4. ASSUME i \in MachineEnvelope(stock, machine) PROVE i.severity = "BLOCK"
  BY <1>4, WhenIsBlock DEF MachineEnvelope
<1>5. ASSUME NEW p \in parts, i \in OfPart(p)
      PROVE  i.severity = "BLOCK" \/ i.code = "ADJACENT_RELIEF_CLEARANCE"
  <2>1. ASSUME NEW f \in p.features, i \in OfFeature(p, f) PROVE i.severity = "BLOCK"
    <3>1. CASE i \in AccessIssues(p, f, machine)
      BY <3>1, WhenIsBlock, ZenonT(60) DEF AccessIssues
    <3>2. CASE i \in DepthIssues(p, f)
      BY <3>2, WhenIsBlock DEF DepthIssues
    <3>3. CASE i \in ToolIssues(p, f, machine)
      BY <3>3, WhenIsBlock DEF ToolIssues
    <3> QED
      BY <2>1, <3>1, <3>2, <3>3
  <2>2. ASSUME i \in OpposingWall(p) PROVE i.severity = "BLOCK"
    BY <2>2 DEF OpposingWall, When, Issue
  <2>3. ASSUME i \in FeatureCollisions(p) PROVE i.severity = "BLOCK"
    BY <2>3 DEF FeatureCollisions, When, Issue
  <2>4. ASSUME i \in AdjacentReliefWarnings(p, machine) PROVE i.code = "ADJACENT_RELIEF_CLEARANCE"
    BY <2>4 DEF AdjacentReliefWarnings, Issue
  <2> HIDE DEF OfFeature
  <2> QED
    BY <1>5, <2>1, <2>2, <2>3, <2>4
<1>6. ASSUME NEW q \in layout.placed, i \in OfPlaced(q) PROVE i.severity = "BLOCK"
  BY <1>6 DEF KeepOutIssues, When, Issue
<1> HIDE DEF OfPart, OfPlaced
<1> QED
  BY <1>1, <1>2, <1>3, <1>4, <1>5, <1>6

\* What the reports of the stock selection hold.
LEMMA GrainIssuesBlock ==
    ASSUME NEW parts, NEW stocks, NEW i \in GrainIssues(parts, stocks)
    PROVE  /\ i.code = "DFM-GRAIN-001" /\ i.severity = "BLOCK"
           /\ \E s \in UsedStocks(parts, stocks) :
                /\ Directional(PartsOn(s, parts, stocks)) # {}
                /\ i = GrainIssue(s.material, s.id, Directional(PartsOn(s, parts, stocks)), "BLOCK")
<1>1. PICK s \in UsedStocks(parts, stocks) :
        i \in stock_grain_binding_issues(PartsOn(s, parts, stocks), s)
  BY DEF GrainIssues
<1>2. /\ Directional(PartsOn(s, parts, stocks)) # {}
      /\ i = GrainIssue(s.material, s.id, Directional(PartsOn(s, parts, stocks)), "BLOCK")
  BY <1>1 DEF stock_grain_binding_issues
<1> QED
  BY <1>1, <1>2 DEF GrainIssue

LEMMA WarningsOfGrain ==
    ASSUME NEW parts, NEW i \in GrainWarnings(parts)
    PROVE  /\ i.code = "DFM-GRAIN-001" /\ i.severity = "WARNING"
           /\ \E m \in {p.material : p \in Directional(parts)} :
                i = GrainIssue(m, 0, {p \in Directional(parts) : p.material = m}, "WARNING")
<1>1. PICK m \in {p.material : p \in Directional(parts)} :
        i = GrainIssue(m, 0, {p \in Directional(parts) : p.material = m}, "WARNING")
  BY DEF GrainWarnings
<1> QED
  BY <1>1 DEF GrainIssue

LEMMA SelectionReport ==
    ASSUME NEW parts, NEW stocks, NEW i \in SelectionIssues(parts, stocks)
    PROVE  \/ i.code = "STOCK_PROFILE_MISSING" /\ i.severity = "BLOCK"
           \/ i \in GrainWarnings(parts) /\ i.code = "DFM-GRAIN-001" /\ i.severity = "WARNING"
<1>1. CASE \E p \in Unmatched(parts, stocks) : i = StockMissing(p)
  BY <1>1 DEF StockMissing
<1>2. CASE i \in GrainWarnings(parts)
  BY <1>2, WarningsOfGrain
<1> QED
  BY <1>1, <1>2 DEF SelectionIssues

\* The screen's report once nothing in it blocks.
LEMMA CleanReport ==
    ASSUME NEW parts, NEW stocks, NEW machine, NEW layouts,
           Blocking(run_dfm_screen(parts, stocks, machine, layouts)) = {},
           NEW i \in run_dfm_screen(parts, stocks, machine, layouts)
    PROVE  i.code = "ADJACENT_RELIEF_CLEARANCE"
<1>1. PICK s \in UsedStocks(parts, stocks) :
        i \in Screen(PartsOn(s, parts, stocks), layouts[s.id], s, machine)
  BY DEF run_dfm_screen
<1>2. i.severity # "BLOCK"
  BY DEF Blocking
<1> QED
  BY <1>1, <1>2, ScreenIssues

\* Status and report of a bundle.
LEMMA BundleStatus ==
    ASSUME NEW r
    PROVE  LET code == ReviewBlocker(r)
               status == Bundle(r).docs.status
           IN  /\ code = "" => /\ status.cam = "VALIDATION_GENERATED" /\ status.blockers = {}
                               /\ status.program = r.program
               /\ code # "" => /\ status.cam = "BLOCKED" /\ status.blockers = {code}
                               /\ status.program = FALSE
<1>1. Built(r).status = IF ReviewBlocker(r) = ""
                        THEN generated_design_review_package_status(r.program)
                        ELSE blocked_design_review_package_status(ReviewBlocker(r))
  BY BuiltDocuments
<1>2. Bundle(r).docs.status = Built(r).status
  BY BundleParts
<1>3. LET g == generated_design_review_package_status(r.program)
      IN  g.cam = "VALIDATION_GENERATED" /\ g.blockers = {} /\ g.program = r.program
  BY DEF generated_design_review_package_status
<1>4. LET b == blocked_design_review_package_status(ReviewBlocker(r))
      IN  b.cam = "BLOCKED" /\ b.blockers = {ReviewBlocker(r)} /\ b.program = FALSE
  BY Zenon DEF blocked_design_review_package_status
<1>5. CASE ReviewBlocker(r) = ""
  BY <1>1, <1>2, <1>3, <1>5
<1>6. CASE ReviewBlocker(r) # ""
  BY <1>1, <1>2, <1>4, <1>6
<1> QED
  BY <1>5, <1>6

LEMMA BundleReport ==
    ASSUME NEW r
    PROVE  LET parts == r.design.parts
               stocks == Selected(r)
               code == ReviewBlocker(r)
               dfm == Bundle(r).docs.dfm
           IN  /\ code = "STOCK_PROFILE_MISSING" => dfm = SelectionIssues(parts, stocks)
               /\ code = "DFM-GRAIN-001" => dfm = GrainIssues(parts, stocks)
               /\ code \notin {"STOCK_PROFILE_MISSING", "DFM-GRAIN-001"} =>
                    dfm = run_dfm_screen(parts, stocks, r.machine, Layouts(parts, stocks))
<1>1. Bundle(r).docs.dfm = ReportOf(r, r.design.parts, Selected(r), ReviewBlocker(r))
  <2>1. Built(r).dfm = ReportOf(r, r.design.parts, Selected(r), ReviewBlocker(r))
    BY BuiltReports
  <2> QED
    BY <2>1, BundleParts
<1>2. CASE ReviewBlocker(r) = "STOCK_PROFILE_MISSING"
  BY <1>1, <1>2 DEF ReportOf
<1>3. CASE ReviewBlocker(r) = "DFM-GRAIN-001"
  BY <1>1, <1>3 DEF ReportOf
<1>4. CASE ReviewBlocker(r) \notin {"STOCK_PROFILE_MISSING", "DFM-GRAIN-001"}
  BY <1>1, <1>4 DEF ReportOf
<1> QED
  BY <1>2, <1>3, <1>4

LEMMA BundleInputs ==
    ASSUME NEW r
    PROVE  LET docs == Bundle(r).docs
           IN  /\ docs.spec = r.design /\ docs.core.parts = r.design.parts
               /\ docs.stock.stocks = Selected(r)
               /\ docs.stock.unmatched = {p.id : p \in Unmatched(r.design.parts, Selected(r))}
               /\ docs.plan.machine = r.machine /\ docs.plan.registrations = r.registrations
               /\ docs.plan.program = r.program
<1>1. /\ Built(r).spec = r.design /\ Built(r).core = review_core(r.design, FrozenContext(r))
      /\ Built(r).stock = stock_selection(r.design.parts, Selected(r))
      /\ Built(r).plan = generation_plan(r.machine, Selected(r), r.registrations, r.program)
  BY BuiltDocuments
<1>2. Bundle(r).docs = Built(r)
  BY BundleParts
<1>3. Built(r).core.parts = r.design.parts
  BY <1>1 DEF review_core
<1>4. /\ Built(r).stock.stocks = Selected(r)
      /\ Built(r).stock.unmatched = {p.id : p \in Unmatched(r.design.parts, Selected(r))}
  BY <1>1 DEF stock_selection
<1>5. /\ Built(r).plan.machine = r.machine /\ Built(r).plan.registrations = r.registrations
      /\ Built(r).plan.program = r.program
  BY <1>1 DEF generation_plan
<1> QED
  BY <1>1, <1>2, <1>3, <1>4, <1>5

\* The report holds what the status says, stock missing, grain unbound, or neither.
LEMMA BundleReportIsAllowed ==
    ASSUME NEW r, Unrefused(r)
    PROVE  /\ StatusAllowsReport(Bundle(r))
           /\ Blocking(Bundle(r).docs.dfm) = {} <=>
                ReviewBlocker(r) \notin {"STOCK_PROFILE_MISSING", "DFM-GRAIN-001"}
<1> DEFINE code == ReviewBlocker(r)
           parts == r.design.parts
           stocks == Selected(r)
           dfm == Bundle(r).docs.dfm
           blockers == Bundle(r).docs.status.blockers
<1>1. blockers = IF code = "" THEN {} ELSE {code}
  BY BundleStatus
<1>2. CASE code = "STOCK_PROFILE_MISSING"
  <2>1. dfm = SelectionIssues(parts, stocks) /\ blockers = {"STOCK_PROFILE_MISSING"}
    BY <1>1, <1>2, BundleReport
  <2>2. PICK p \in Unmatched(parts, stocks) : TRUE
    BY <1>2, ReviewBlockerCases
  <2>3. StockMissing(p) \in dfm /\ StockMissing(p).code = "STOCK_PROFILE_MISSING"
          /\ StockMissing(p).severity = "BLOCK"
    BY <2>1 DEF SelectionIssues, StockMissing
  <2>4. \A i \in dfm : \/ i.code = "STOCK_PROFILE_MISSING" /\ i.severity = "BLOCK"
                       \/ i.code = "DFM-GRAIN-001" /\ i.severity = "WARNING"
    BY <2>1, SelectionReport
  <2> HIDE DEF dfm, blockers
  <2>5. StockMissing(p) \in Blocking(dfm)
    BY <2>3 DEF Blocking
  <2>6. Codes(Blocking(dfm)) = {"STOCK_PROFILE_MISSING"}
    BY <2>3, <2>4, <2>5 DEF Blocking, Codes
  <2>7. "STOCK_PROFILE_MISSING" \in Codes(dfm)
    BY <2>3 DEF Codes
  <2>8. Codes(dfm) \subseteq {"STOCK_PROFILE_MISSING", "DFM-GRAIN-001"}
    BY <2>4 DEF Codes
  <2> QED
    BY <1>2, <2>1, <2>5, <2>6, <2>7, <2>8 DEF StatusAllowsReport, dfm, blockers
<1>3. CASE code = "DFM-GRAIN-001"
  <2>1. dfm = GrainIssues(parts, stocks) /\ blockers = {"DFM-GRAIN-001"}
    BY <1>1, <1>3, BundleReport
  <2>2. PICK i \in dfm : TRUE
    BY <1>3, <2>1, ReviewBlockerCases
  <2>3. \A j \in dfm : j.code = "DFM-GRAIN-001" /\ j.severity = "BLOCK"
    BY <2>1, GrainIssuesBlock
  <2> HIDE DEF dfm, blockers
  <2>4. Blocking(dfm) = dfm
    BY <2>3 DEF Blocking
  <2>5. Codes(dfm) = {"DFM-GRAIN-001"}
    BY <2>2, <2>3 DEF Codes
  <2>6. {"DFM-GRAIN-001"} # {"STOCK_PROFILE_MISSING"}
    OBVIOUS
  <2> QED
    BY <1>3, <2>1, <2>2, <2>4, <2>5, <2>6 DEF StatusAllowsReport, dfm, blockers
<1>4. CASE code \notin {"STOCK_PROFILE_MISSING", "DFM-GRAIN-001"}
  <2>1. Blocking(dfm) = {}
    BY <1>4, BundleReport DEF Unrefused
  <2>2. blockers # {"STOCK_PROFILE_MISSING"} /\ blockers # {"DFM-GRAIN-001"}
    BY <1>1, <1>4
  <2> HIDE DEF dfm, blockers
  <2> QED
    BY <1>4, <2>1, <2>2 DEF StatusAllowsReport, dfm, blockers
<1> QED
  BY <1>2, <1>3, <1>4

LEMMA BundleSelectionReport ==
    ASSUME NEW r, Unrefused(r)
    PROVE  SelectionReportHolds(Bundle(r)) /\ ReportRebuilt(Bundle(r))
<1> DEFINE code == ReviewBlocker(r)
           parts == r.design.parts
           stocks == Selected(r)
           docs == Bundle(r).docs
<1>1. docs.status.blockers = IF code = "" THEN {} ELSE {code}
  BY BundleStatus
<1>2. /\ docs.spec.parts = parts /\ docs.stock.stocks = stocks /\ docs.plan.machine = r.machine
      /\ docs.stock.unmatched = {p.id : p \in Unmatched(parts, stocks)}
  BY BundleInputs
<1>3. /\ code = "STOCK_PROFILE_MISSING" <=> Unmatched(parts, stocks) # {}
      /\ code = "DFM-GRAIN-001" <=> Unmatched(parts, stocks) = {} /\ GrainIssues(parts, stocks) # {}
  BY ReviewBlockerCases
<1>4. CASE code = "STOCK_PROFILE_MISSING"
  <2>1. docs.dfm = SelectionIssues(parts, stocks)
    BY <1>4, BundleReport
  <2>2. docs.status.blockers = {"STOCK_PROFILE_MISSING"} /\ docs.stock.unmatched # {}
    BY <1>1, <1>2, <1>3, <1>4
  <2> HIDE DEF docs, parts, stocks
  <2> QED
    BY <1>2, <2>1, <2>2 DEF SelectionReportHolds, ReportRebuilt, docs
<1>5. CASE code = "DFM-GRAIN-001"
  <2>1. docs.dfm = GrainIssues(parts, stocks) /\ GrainIssues(parts, stocks) # {}
    BY <1>3, <1>5, BundleReport
  <2>2. docs.status.blockers = {"DFM-GRAIN-001"} /\ docs.stock.unmatched = {}
    BY <1>1, <1>2, <1>3, <1>5
  <2>3. {"DFM-GRAIN-001"} # {"STOCK_PROFILE_MISSING"}
    OBVIOUS
  <2> HIDE DEF docs, parts, stocks
  <2> QED
    BY <1>2, <2>1, <2>2, <2>3 DEF SelectionReportHolds, ReportRebuilt, docs
<1>6. CASE code \notin {"STOCK_PROFILE_MISSING", "DFM-GRAIN-001"}
  <2>1. docs.dfm = run_dfm_screen(parts, stocks, r.machine, Layouts(parts, stocks))
    BY <1>6, BundleReport
  <2>2. /\ docs.status.blockers # {"STOCK_PROFILE_MISSING"}
        /\ docs.status.blockers # {"DFM-GRAIN-001"}
        /\ docs.stock.unmatched = {} /\ GrainIssues(parts, stocks) = {}
    BY <1>1, <1>2, <1>3, <1>6
  <2>3. \A i \in docs.dfm : i.code = "ADJACENT_RELIEF_CLEARANCE"
    BY <1>6, <2>1, CleanReport DEF Unrefused
  <2> HIDE DEF docs, parts, stocks
  <2>4. Codes(docs.dfm) \cap {"STOCK_PROFILE_MISSING", "DFM-GRAIN-001"} = {}
    BY <2>3 DEF Codes
  <2> QED
    BY <1>2, <2>1, <2>2, <2>4 DEF SelectionReportHolds, ReportRebuilt, docs
<1> QED
  BY <1>4, <1>5, <1>6

\* A part lies on a stock it is compatible with: the least of the stocks that fit.
LEMMA PairKey ==
    ASSUME NEW m \in Int, NEW n \in Int
    PROVE  <<m, n>> \in Seq(Int) /\ Len(<<m, n>>) = 2 /\ <<m, n>>[2] = n
OBVIOUS

LEMMA PartFitsItsStock ==
    ASSUME NEW parts, NEW stocks, IsFiniteSet(stocks), \A s \in stocks : IsStock(s),
           StockIdentitiesUnique(stocks), NEW s, NEW p \in PartsOn(s, parts, stocks)
    PROVE  s \in stocks /\ compatible(p, s)
<1> DEFINE S == {t \in stocks : StockFits(p, t)}
           k == [t \in S |-> <<t.w * t.l, t.id>>]
<1>1. p \in parts /\ p \notin Unmatched(parts, stocks)
        /\ s = Least(S, LAMBDA t : <<t.w * t.l, t.id>>)
  BY DEF PartsOn, SelectedStock
<1>2. S # {} /\ S \subseteq stocks
  BY <1>1 DEF Unmatched
<1>3. \A t \in S : t.w * t.l \in Int /\ t.id \in Int
  BY <1>2 DEF IsStock
<1>4. \A t, u \in S : t.id = u.id => t = u
  BY <1>2 DEF StockIdentitiesUnique
<1>5. IsFiniteSet(S)
  <2> HIDE DEF S
  <2> QED
    BY <1>2, FS_Subset
<1>6. ASSUME NEW t \in S PROVE compatible(p, t)
  BY <1>6 DEF StockFits
<1> HIDE DEF S
<1>7. ASSUME NEW t \in S PROVE k[t] \in Seq(Int) /\ Len(k[t]) = 2 /\ k[t][2] = t.id
  <2>1. k[t] = <<t.w * t.l, t.id>>
    BY <1>7
  <2> DEFINE m == t.w * t.l
  <2>2. m \in Int /\ t.id \in Int /\ k[t] = <<m, t.id>>
    BY <1>3, <1>7, <2>1
  <2> HIDE DEF k, m
  <2> QED
    BY <2>2, PairKey
<1>8. PICK x \in S : \A y \in S : y = x \/ Before(k[x], k[y])
  <2> HIDE DEF k
  <2>1. \A t \in S : k[t] \in Seq(Int) /\ Len(k[t]) = 2
    BY <1>7
  <2>2. \A t, u \in S : k[t] = k[u] => t = u
    BY <1>4, <1>7
  <2> QED
    BY <1>2, <1>5, <2>1, <2>2, FirstByKey
<1>9. \A y \in S : y = x \/ Before(<<x.w * x.l, x.id>>, <<y.w * y.l, y.id>>)
  BY <1>8
<1>10. s \in S
  BY <1>1, <1>9 DEF Least
<1> QED
  BY <1>2, <1>6, <1>10

\* Which stocks take a part does not depend on which part of its BOM group it is.
LEMMA SingleNest ==
    ASSUME NEW x, IsPart(x), x.quantity = 1, NEW stock
    PROVE  nest({x}, stock).unplaced = {} <=> Placements([part |-> x, n |-> 1], {}, stock) # {}
<1> DEFINE i == [part |-> x, n |-> 1]
           T == Instances({x})
           g == CHOOSE g : Nests(stock, T, g)
           choices == Placements(i, {}, stock)
<1>1. SheetParts({x})
  BY FS_Singleton DEF SheetParts
<1>2. T = {i}
  BY DEF Instances
<1>3. Nests(stock, T, g)
  BY <1>1, NestsExist
<1>4. nest({x}, stock) = g[T]
  BY NestIsItsRecursion
<1>5. LastOf(T) = i
  BY <1>1, <1>2, LastIsTaken
<1> HIDE DEF g, T
<1>6. g[T] = Extended(g[T \ {LastOf(T)}], LastOf(T), stock) /\ g[{}] = NoLayout
  <2>1. T \in SUBSET T /\ T # {}
    BY <1>2
  <2> QED
    BY <1>3, <2>1, NestsAt, Zenon
<1>7. T \ {LastOf(T)} = {}
  BY <1>2, <1>5
<1>8. nest({x}, stock) = Extended(NoLayout, i, stock)
  BY <1>4, <1>5, <1>6, <1>7
<1>9. Extended(NoLayout, i, stock) = WithInstance(NoLayout, i, choices)
  BY DEF Extended, NoLayout
<1> HIDE DEF choices
<1>10. WithInstance(NoLayout, i, choices).unplaced = {} <=> choices # {}
  BY DEF WithInstance, NoLayout
<1> QED
  BY <1>8, <1>9, <1>10 DEF choices

Takes(w, l, rotate, stock) ==
    \E sheet \in 0 .. stock.quantity - 1, xy \in CandidateOrigins(stock, {}) :
        \/ Fits(Rect(xy[1], xy[2], w, l), {}, stock)
        \/ rotate /\ stock.rotate /\ Fits(Rect(xy[1], xy[2], l, w), {}, stock)

LEMMA SinglePlacement ==
    ASSUME NEW x, x.grain = "NONE", NEW stock
    PROVE  Placements([part |-> x, n |-> 1], {}, stock) # {}
             <=> compatible(x, stock) /\ Takes(x.w, x.l, x.rotate, stock)
<1> DEFINE i == [part |-> x, n |-> 1]
           PutAt(sheet, o, xy) ==
               [part |-> x.id, n |-> 1, stock |-> stock.id, sheet |-> sheet,
                rotated |-> o.rotated, rect |-> Rect(xy[1], xy[2], o.w, o.l)]
           straight == [rotated |-> FALSE, w |-> x.w, l |-> x.l]
           turned == [rotated |-> TRUE, w |-> x.l, l |-> x.w]
           sheets == 0 .. stock.quantity - 1
           origins == CandidateOrigins(stock, {})
<1>1. \A o : o \in Orientations(x, stock)
            <=> o = straight \/ (x.rotate /\ stock.rotate /\ o = turned)
  BY DEF Orientations, grain_allows
<1>2. \A sheet : {p \in {} : p.sheet = sheet} = {}
  OBVIOUS
<1>3. \A p : p \in Placements(i, {}, stock) <=>
        /\ compatible(x, stock)
        /\ \E sheet \in sheets : \E o \in Orientations(x, stock) : \E xy \in origins :
              p = PutAt(sheet, o, xy)
        /\ Fits(p.rect, {}, stock)
  BY <1>2 DEF Placements
<1>4. \A sheet, o, xy : PutAt(sheet, o, xy).rect = Rect(xy[1], xy[2], o.w, o.l)
  OBVIOUS
<1>5. /\ straight.w = x.w /\ straight.l = x.l
      /\ turned.w = x.l /\ turned.l = x.w
  OBVIOUS
<1> HIDE DEF At, straight, turned, sheets, origins
<1>6. Placements(i, {}, stock) # {} <=>
        /\ compatible(x, stock)
        /\ \E sheet \in sheets : \E o \in Orientations(x, stock) : \E xy \in origins :
              Fits(Rect(xy[1], xy[2], o.w, o.l), {}, stock)
  BY <1>3, <1>4
<1>7. (\E sheet \in sheets : \E o \in Orientations(x, stock) : \E xy \in origins :
            Fits(Rect(xy[1], xy[2], o.w, o.l), {}, stock))
        <=> Takes(x.w, x.l, x.rotate, stock)
  BY <1>1, <1>5 DEF Takes, sheets, origins
<1> QED
  BY <1>6, <1>7

LEMMA GroupFitsAlike ==
    ASSUME NEW p, IsPart(p), NEW q, IsPart(q), BomSignature(p) = BomSignature(q),
           p.rotate = q.rotate, NEW stock
    PROVE  StockFits(p, stock) <=> StockFits(q, stock)
<1>1. /\ p.w = q.w /\ p.l = q.l /\ p.thickness = q.thickness /\ p.material = q.material
  BY DEF BomSignature
<1>2. ASSUME NEW u, IsPart(u)
      PROVE  StockFits(u, stock) <=> compatible(u, stock) /\ Takes(u.w, u.l, u.rotate, stock)
  <2> DEFINE x == [u EXCEPT !.quantity = 1, !.grain = "NONE"]
  <2>1. /\ x.id = u.id /\ x.name = u.name /\ x.material = u.material /\ x.w = u.w /\ x.l = u.l
        /\ x.thickness = u.thickness /\ x.rotate = u.rotate /\ x.features = u.features
        /\ x.quantity = 1 /\ x.grain = "NONE" /\ DOMAIN x = DOMAIN u
    BY <1>2 DEF IsPart
  <2>2. StockFits(u, stock) <=> compatible(u, stock) /\ nest({x}, stock).unplaced = {}
    BY DEF StockFits
  <2> HIDE DEF x
  <2>3. IsPart(x)
    BY <1>2, <2>1 DEF IsPart
  <2>4. compatible(x, stock) <=> compatible(u, stock)
    BY <2>1 DEF compatible
  <2>5. nest({x}, stock).unplaced = {} <=> Placements([part |-> x, n |-> 1], {}, stock) # {}
    BY <2>1, <2>3, SingleNest
  <2>6. Placements([part |-> x, n |-> 1], {}, stock) # {}
          <=> compatible(x, stock) /\ Takes(x.w, x.l, x.rotate, stock)
    BY <2>1, SinglePlacement
  <2> QED
    BY <2>1, <2>2, <2>4, <2>5, <2>6
<1> QED
  BY <1>1, <1>2 DEF compatible

LEMMA GroupTakesOneStock ==
    ASSUME NEW parts, \A p \in parts : IsPart(p), GroupsTurnAlike(parts), NEW stocks, NEW s,
           NEW p \in PartsOn(s, parts, stocks), NEW q \in parts, BomSignature(q) = BomSignature(p)
    PROVE  q \in PartsOn(s, parts, stocks)
<1>1. p \in parts /\ p \notin Unmatched(parts, stocks) /\ SelectedStock(p, stocks) = s
  BY DEF PartsOn
<1>2. \A t : StockFits(p, t) <=> StockFits(q, t)
  BY <1>1, GroupFitsAlike DEF GroupsTurnAlike
<1>3. {t \in stocks : StockFits(p, t)} = {t \in stocks : StockFits(q, t)}
  BY <1>2
<1>4. SelectedStock(q, stocks) = s
  BY <1>1, <1>3 DEF SelectedStock
<1>5. q \notin Unmatched(parts, stocks)
  BY <1>1, <1>2 DEF Unmatched
<1> QED
  BY <1>4, <1>5 DEF PartsOn

\* An issue of the grain rule about the parts A of the material m.
IsGrainIssue(i, A, m, parts) ==
    /\ A \subseteq parts /\ A # {}
    /\ \A p \in A : p.material = m /\ p.grain # "NONE"
    /\ GroupedWith(A, parts) \subseteq A
    /\ i.affected = {p.id : p \in A} /\ i.axes = {p.grain : p \in A} /\ i.material = m
    /\ i.stock = 0 => A = {q \in parts : q.material = m /\ q.grain # "NONE"}
MatchesBOM(i, parts) ==
    LET Affected == {q \in parts : q.id \in i.affected}
    IN  /\ {q.id : q \in Affected} = i.affected
        /\ GroupedWith(Affected, parts) \subseteq Affected
        /\ {q.grain : q \in Affected} = i.axes /\ "NONE" \notin i.axes
        /\ {q.material : q \in Affected} = {i.material}
        /\ i.stock = 0 => Affected = {q \in parts : q.material = i.material /\ q.grain # "NONE"}
LEMMA GrainIssueMatches ==
    ASSUME NEW parts, \A p, q \in parts : p.id = q.id => p = q,
           NEW i, NEW A, NEW m, IsGrainIssue(i, A, m, parts)
    PROVE  MatchesBOM(i, parts)
<1>1. {q \in parts : q.id \in i.affected} = A
  BY DEF IsGrainIssue
<1>2. {q.material : q \in A} = {m}
  BY DEF IsGrainIssue
<1> QED
  BY <1>1, <1>2 DEF IsGrainIssue, MatchesBOM

LEMMA GrainIssueFields ==
    ASSUME NEW material, NEW stock, NEW A, NEW severity
    PROVE  LET i == GrainIssue(material, stock, A, severity)
           IN  /\ i.affected = {p.id : p \in A} /\ i.axes = {p.grain : p \in A}
               /\ i.material = material /\ i.stock = stock
BY DEF GrainIssue

LEMMA WarningIsGrainIssue ==
    ASSUME NEW parts, NEW m \in {p.material : p \in Directional(parts)}, NEW A, NEW i,
           A = {p \in Directional(parts) : p.material = m}, i = GrainIssue(m, 0, A, "WARNING")
    PROVE  IsGrainIssue(i, A, m, parts)
<1>1. i.affected = {p.id : p \in A} /\ i.axes = {p.grain : p \in A} /\ i.material = m
  BY GrainIssueFields
<1>2. A \subseteq parts /\ A # {} /\ A = {q \in parts : q.material = m /\ q.grain # "NONE"}
  BY DEF Directional
<1>3. GroupedWith(A, parts) \subseteq A
  BY <1>2 DEF GroupedWith, BomSignature
<1> QED
  BY <1>1, <1>2, <1>3 DEF IsGrainIssue

LEMMA UnboundIsGrainIssue ==
    ASSUME NEW parts, NEW stocks, IsFiniteSet(stocks), \A s \in stocks : IsStock(s),
           StockIdentitiesUnique(stocks), \A p \in parts : IsPart(p), GroupsTurnAlike(parts),
           NEW s \in UsedStocks(parts, stocks), NEW A, NEW i,
           A = Directional(PartsOn(s, parts, stocks)), A # {},
           i = GrainIssue(s.material, s.id, A, "BLOCK")
    PROVE  IsGrainIssue(i, A, s.material, parts)
<1>1. i.affected = {p.id : p \in A} /\ i.axes = {p.grain : p \in A} /\ i.material = s.material
        /\ i.stock = s.id
  BY GrainIssueFields
<1>2. s \in stocks /\ s.id # 0
  BY DEF UsedStocks, IsStock
<1>3. \A p \in A : p \in PartsOn(s, parts, stocks) /\ p.grain # "NONE"
  BY DEF Directional
<1>4. \A p \in A : p \in parts /\ p.material = s.material
  BY <1>3, PartFitsItsStock DEF compatible, PartsOn
<1>5. ASSUME NEW q \in parts, NEW p \in A, BomSignature(q) = BomSignature(p) PROVE q \in A
  <2>1. q \in PartsOn(s, parts, stocks)
    BY <1>3, <1>5, GroupTakesOneStock
  <2>2. q.grain = p.grain
    BY <1>5 DEF BomSignature
  <2> QED
    BY <1>3, <2>1, <2>2 DEF Directional
<1>6. GroupedWith(A, parts) \subseteq A
  BY <1>5 DEF GroupedWith
<1> QED
  BY <1>1, <1>2, <1>3, <1>4, <1>6 DEF IsGrainIssue

LEMMA BundleGrain ==
    ASSUME NEW r \in Requests, Unrefused(r), GroupsTurnAlike(r.design.parts)
    PROVE  GrainIssuesMatchBOM(Bundle(r))
<1> DEFINE code == ReviewBlocker(r)
           parts == r.design.parts
           stocks == Selected(r)
           dfm == Bundle(r).docs.dfm
           grain == {i \in dfm : i.code = "DFM-GRAIN-001"}
<1>1. Bundle(r).docs.core.parts = parts
  BY BundleInputs
<1>2. /\ IsDesign(r.design) /\ \A p, q \in parts : p.id = q.id => p = q
      /\ \A p \in parts : IsPart(p)
  BY CallsAreTyped DEF IsDesign
<1>3. IsFiniteSet(stocks) /\ (\A s \in stocks : IsStock(s)) /\ StockIdentitiesUnique(stocks)
  BY SelectedAreStocks, PinnedAreUnique DEF Unrefused
<1>4. /\ \A i \in grain : \E A, m : IsGrainIssue(i, A, m, parts)
      /\ \A i, k \in grain : i # k => i.affected \cap k.affected = {}
  <2>1. CASE code = "STOCK_PROFILE_MISSING"
    <3>1. \A i \in grain : i \in GrainWarnings(parts)
      <4>1. \A i \in dfm : i.code = "STOCK_PROFILE_MISSING" \/ i \in GrainWarnings(parts)
        BY <2>1, BundleReport, SelectionReport
      <4> QED
        BY <4>1
    <3> HIDE DEF grain, parts
    <3>2. ASSUME NEW i \in grain
          PROVE  \E m : /\ i = GrainIssue(m, 0, {p \in Directional(parts) : p.material = m}, "WARNING")
                        /\ IsGrainIssue(i, {p \in Directional(parts) : p.material = m}, m, parts)
      <4>1. PICK m \in {p.material : p \in Directional(parts)} :
                i = GrainIssue(m, 0, {p \in Directional(parts) : p.material = m}, "WARNING")
        BY <3>1, <3>2, WarningsOfGrain
      <4>2. IsGrainIssue(i, {p \in Directional(parts) : p.material = m}, m, parts)
        BY <4>1, WarningIsGrainIssue
      <4> QED
        BY <4>1, <4>2, Zenon
    <3>3. ASSUME NEW i \in grain, NEW k \in grain, i # k PROVE i.affected \cap k.affected = {}
      <4>1. PICK m : /\ i = GrainIssue(m, 0, {p \in Directional(parts) : p.material = m}, "WARNING")
                     /\ IsGrainIssue(i, {p \in Directional(parts) : p.material = m}, m, parts)
        BY <3>2, <3>3
      <4>2. PICK n : /\ k = GrainIssue(n, 0, {p \in Directional(parts) : p.material = n}, "WARNING")
                     /\ IsGrainIssue(k, {p \in Directional(parts) : p.material = n}, n, parts)
        BY <3>2, <3>3
      <4>3. m # n
        BY <3>3, <4>1, <4>2
      <4>4. /\ \A x \in i.affected : \E p \in parts : p.id = x /\ p.material = m
            /\ \A x \in k.affected : \E p \in parts : p.id = x /\ p.material = n
        BY <4>1, <4>2 DEF IsGrainIssue
      <4>5. ASSUME NEW x \in i.affected, x \in k.affected PROVE FALSE
        <5>1. PICK p \in parts : p.id = x /\ p.material = m
          BY <4>4
        <5>2. PICK q \in parts : q.id = x /\ q.material = n
          BY <4>4, <4>5
        <5>3. p = q
          BY <1>2, <5>1, <5>2
        <5> QED
          BY <4>3, <5>1, <5>2, <5>3
      <4> QED
        BY <4>5
    <3> QED
      BY <3>2, <3>3
  <2>2. CASE code = "DFM-GRAIN-001"
    <3>1. \A i \in grain : i \in GrainIssues(parts, stocks)
      BY <2>2, BundleReport
    <3> HIDE DEF grain
    <3>2. ASSUME NEW i \in grain
          PROVE  \E s : LET A == Directional(PartsOn(s, parts, stocks))
                        IN  /\ i = GrainIssue(s.material, s.id, A, "BLOCK")
                            /\ IsGrainIssue(i, A, s.material, parts)
      <4>1. PICK s \in UsedStocks(parts, stocks) :
                /\ Directional(PartsOn(s, parts, stocks)) # {}
                /\ i = GrainIssue(s.material, s.id, Directional(PartsOn(s, parts, stocks)), "BLOCK")
        BY <3>1, <3>2, GrainIssuesBlock
      <4>2. IsGrainIssue(i, Directional(PartsOn(s, parts, stocks)), s.material, parts)
        BY <1>2, <1>3, <4>1, UnboundIsGrainIssue
      <4> QED
        BY <4>1, <4>2
    <3>3. ASSUME NEW i \in grain, NEW k \in grain, i # k PROVE i.affected \cap k.affected = {}
      <4>1. PICK s : LET A == Directional(PartsOn(s, parts, stocks))
                     IN  /\ i = GrainIssue(s.material, s.id, A, "BLOCK")
                         /\ IsGrainIssue(i, A, s.material, parts)
        BY <3>2, <3>3
      <4>2. PICK t : LET A == Directional(PartsOn(t, parts, stocks))
                     IN  /\ k = GrainIssue(t.material, t.id, A, "BLOCK")
                         /\ IsGrainIssue(k, A, t.material, parts)
        BY <3>2, <3>3
      <4>3. s # t
        BY <3>3, <4>1, <4>2
      <4>4. /\ \A x \in i.affected : \E p \in PartsOn(s, parts, stocks) : p.id = x
            /\ \A x \in k.affected : \E p \in PartsOn(t, parts, stocks) : p.id = x
        BY <4>1, <4>2 DEF IsGrainIssue, Directional
      <4>5. ASSUME NEW x \in i.affected, x \in k.affected PROVE FALSE
        <5>1. PICK p \in PartsOn(s, parts, stocks) : p.id = x
          BY <4>4
        <5>2. PICK q \in PartsOn(t, parts, stocks) : q.id = x
          BY <4>4, <4>5
        <5>3. s = t
          BY <1>2, <5>1, <5>2, OneStockOfPart
        <5> QED
          BY <4>3, <5>3
      <4> QED
        BY <4>5
    <3>4. \A i \in grain : \E A, m : IsGrainIssue(i, A, m, parts)
      BY <3>2
    <3> QED
      BY <3>3, <3>4
  <2>3. CASE code \notin {"STOCK_PROFILE_MISSING", "DFM-GRAIN-001"}
    <3>1. \A i \in dfm : i.code = "ADJACENT_RELIEF_CLEARANCE"
      BY <2>3, BundleReport, CleanReport DEF Unrefused
    <3> QED
      BY <3>1
  <2> QED
    BY <2>1, <2>2, <2>3
<1> HIDE DEF parts, stocks, dfm
<1>5. ASSUME NEW i \in grain PROVE MatchesBOM(i, parts)
  <2>1. PICK A, m : IsGrainIssue(i, A, m, parts)
    BY <1>4, <1>5
  <2>2. \A p, q \in parts : p.id = q.id => p = q
    BY <1>2
  <2> HIDE DEF grain
  <2> QED
    BY <2>1, <2>2, GrainIssueMatches
<1> QED
  BY <1>1, <1>4, <1>5 DEF MatchesBOM, GrainIssuesMatchBOM, dfm

\* A plan without unmatched parts has operations: the screen leaves no instance
\* unplaced and every part has an outline.
LEMMA SheetHasOperations ==
    ASSUME NEW parts, SheetParts(parts), NEW stock, IsStock(stock), NEW layout, NEW machine,
           SoundLayout(layout, Instances(parts), stock), layout.unplaced = {}, NEW part \in parts
    PROVE  OperationsFor(layout, parts, stock, machine) # {}
<1>1. IsPart(part) /\ 1 \in 1 .. part.quantity
  BY DEF SheetParts, IsPart
<1> DEFINE first == [part |-> part, n |-> 1]
<1>2. first \in Instances(parts) /\ first.part.id = part.id /\ first.n = 1
  BY <1>1 DEF Instances
<1>3. <<part.id, 1>> \in InstanceIds(Instances(parts))
  BY <1>2 DEF InstanceIds
<1>4. <<part.id, 1>> \in PlacedIds(layout.placed)
  BY <1>3 DEF SoundLayout
<1>5. PICK p \in layout.placed : TRUE
  BY <1>4 DEF PlacedIds
<1>6. PICK i \in Instances(parts) : PlacementOf(i, stock, p)
  BY <1>5 DEF SoundLayout, Lies
<1>7. PartOf(p, parts) = i.part /\ i.part \in parts
  BY <1>6, PlacedPart
<1>8. PICK f \in i.part.features : IsFeature(f)
  BY <1>7 DEF SheetParts, IsPart
<1>9. <<f.x + 0 * f.pitch, f.y>> \in Points(f)
  BY <1>8 DEF Points, IsFeature
<1>10. PICK piece \in Pieces(f) : TRUE
  BY <1>9 DEF Pieces
<1>11. OperationAt(p, f, piece, stock, machine) \in OperationsFor(layout, parts, stock, machine)
  <2> DEFINE Of(q, g) == {OperationAt(q, g, x, stock, machine) : x \in Pieces(g)}
  <2>1. OperationsFor(layout, parts, stock, machine) =
            UNION {UNION {Of(q, g) : g \in PartOf(q, parts).features} : q \in layout.placed}
    BY DEF OperationsFor, PartOf, OperationAt
  <2>2. OperationAt(p, f, piece, stock, machine) \in Of(p, f)
    BY <1>10
  <2>3. f \in PartOf(p, parts).features
    BY <1>7, <1>8
  <2> HIDE DEF Of
  <2> QED
    BY <2>1, <2>2, <2>3, <1>5
<1> QED
  BY <1>11

LEMMA PlanHasOperations ==
    ASSUME NEW design, NEW stocks, NEW machine, NEW registrations,
           Planned(design, stocks, machine, registrations), Unmatched(design.parts, stocks) = {}
    PROVE  PlanOperations(design, stocks, machine) # {}
<1> DEFINE layouts == Layouts(design.parts, stocks)
<1>1. /\ SheetInputs(design, stocks, machine)
      /\ Blocking(run_dfm_screen(design.parts, stocks, machine, layouts)) = {}
  BY DEF Planned
<1>2. PICK part \in design.parts : TRUE
  BY <1>1 DEF SheetInputs, IsDesign
<1> DEFINE s == SelectedStock(part, stocks)
           mine == PartsOn(s, design.parts, stocks)
<1>3. part \in mine
  BY DEF PartsOn
<1> HIDE DEF s
<1>4. s \in stocks
  BY <1>1, <1>3, PartFitsItsStock DEF SheetInputs
<1>5. s \in UsedStocks(design.parts, stocks)
  BY <1>3, <1>4 DEF UsedStocks
<1>6. SoundSheets(mine, s, layouts[s.id], machine)
  BY <1>5, PlannedSheets
<1>7. layouts[s.id].unplaced = {}
  <2>1. validate_layout(layouts[s.id], mine, s) \subseteq run_dfm_screen(design.parts, stocks, machine, layouts)
    <3> HIDE DEF layouts, mine
    <3>1. validate_layout(layouts[s.id], mine, s) \subseteq Screen(mine, layouts[s.id], s, machine)
      BY DEF Screen
    <3>2. Screen(mine, layouts[s.id], s, machine) \subseteq run_dfm_screen(design.parts, stocks, machine, layouts)
      BY <1>5 DEF run_dfm_screen, mine
    <3> QED
      BY <3>1, <3>2
  <2> HIDE DEF layouts, mine
  <2>2. validate_layout(layouts[s.id], mine, s) = {}
    BY <1>1, <2>1, LayoutIssuesBlock DEF Blocking
  <2>3. {Issue("NESTING_UNPLACED", u[1]) : u \in layouts[s.id].unplaced}
            \subseteq validate_layout(layouts[s.id], mine, s)
    BY DEF validate_layout
  <2> QED
    BY <2>2, <2>3
<1>8. OperationsFor(layouts[s.id], mine, s, machine) # {}
  <2> HIDE DEF layouts, mine
  <2> QED
    BY <1>3, <1>6, <1>7, SheetHasOperations DEF SoundSheets
<1> QED
  BY <1>5, <1>8 DEF PlanOperations

\* A sequence given as a function has the length of its domain.
LEMMA LenOfFunction ==
    ASSUME NEW f, NEW N \in Nat, DOMAIN f = 1 .. N, f = [n \in 1 .. N |-> f[n]]
    PROVE  Len(f) = N
<1> DEFINE S == {f[n] : n \in 1 .. N}
<1>1. f \in [1 .. N -> S]
  OBVIOUS
<1> HIDE DEF S
<1>2. f \in Seq(S)
  BY <1>1
<1>3. DOMAIN f = 1 .. Len(f) /\ Len(f) \in Nat
  BY <1>2
<1> QED
  BY <1>3

\* The machining documents count at least one operation and one setup.
LEMMA CamHasOperations ==
    ASSUME NEW design, NEW stocks, NEW machine, NEW registrations,
           Planned(design, stocks, machine, registrations), Unmatched(design.parts, stocks) = {}
    PROVE  LET cam == CamOf(design, stocks, machine, Layouts(design.parts, stocks))
           IN  cam # Nothing /\ Len(cam.operations) \in Nat \ {0} /\ Cardinality(cam.setups) \in Nat \ {0}
<1> DEFINE cam == CamOf(design, stocks, machine, Layouts(design.parts, stocks))
           ops == PlanOperations(design, stocks, machine)
           setup == [o \in ops |-> <<o.stock, o.sheet, o.side>>]
<1>1. /\ cam.operations = Sequenced(ops)
      /\ cam.setups = {<<o.stock, o.sheet, o.side>> : o \in ops}
      /\ "operations" \in DOMAIN cam /\ "operations" \notin DOMAIN Nothing
  BY DEF CamOf, PlanOperations, Nothing
<1>2. IsFiniteSet(ops) /\ ops # {}
  BY FinitePlan, PlanHasOperations
<1> HIDE DEF cam, ops
<1>3. Cardinality(ops) \in Nat /\ Cardinality(ops) > 0
  BY <1>2, FS_CardinalityType, FS_EmptySet
<1>4. Len(Sequenced(ops)) = Cardinality(ops)
  <2> DEFINE N == Cardinality(ops)
             seq == Sequenced(ops)
  <2>1. DOMAIN seq = 1 .. N /\ seq = [n \in 1 .. N |-> seq[n]]
    BY DEF Sequenced
  <2>2. N \in Nat
    BY <1>3
  <2> HIDE DEF N, seq
  <2>3. Len(seq) = N
    BY <2>1, <2>2, LenOfFunction
  <2> QED
    BY <2>3 DEF N, seq
<1>5. cam.setups = {setup[o] : o \in ops} /\ cam.setups # {}
  BY <1>1, <1>2
<1> HIDE DEF setup
<1>6. IsFiniteSet(cam.setups)
  BY <1>2, <1>5, FiniteImage
<1>7. Cardinality(cam.setups) \in Nat /\ Cardinality(cam.setups) > 0
  BY <1>5, <1>6, FS_CardinalityType, FS_EmptySet
<1>8. cam # Nothing
  BY <1>1
<1> QED
  BY <1>1, <1>3, <1>4, <1>7, <1>8 DEF cam

\* The machining documents of a bundle.
LEMMA BundleCam ==
    ASSUME NEW r \in Requests, Unrefused(r)
    PROVE  LET docs == Bundle(r).docs
               code == ReviewBlocker(r)
           IN  /\ code # "" => docs.cam = Nothing
               /\ code = "" =>
                    /\ docs.cam = CamOf(r.design, Selected(r), r.machine,
                                        Layouts(r.design.parts, Selected(r)))
                    /\ docs.cam # Nothing
                    /\ Len(docs.cam.operations) \in Nat \ {0} /\ Cardinality(docs.cam.setups) \in Nat \ {0}
               /\ docs.program = IF code = "" /\ r.program THEN [of |-> docs.cam] ELSE Nothing
<1> DEFINE docs == Bundle(r).docs
           code == ReviewBlocker(r)
           stocks == Selected(r)
           layouts == Layouts(r.design.parts, stocks)
           cam == CamOf(r.design, stocks, r.machine, layouts)
<1>1. docs = Built(r)
  BY BundleParts
<1>2. docs.cam = IF code = "" THEN cam ELSE Nothing
  BY <1>1, BuiltDocuments, ZenonT(60)
<1>3. docs.program = IF code = "" /\ r.program THEN [of |-> docs.cam] ELSE Nothing
  BY <1>1, BuiltReports
<1>4. ASSUME code = ""
      PROVE  cam # Nothing /\ Len(cam.operations) \in Nat \ {0} /\ Cardinality(cam.setups) \in Nat \ {0}
  <2>1. /\ Unmatched(r.design.parts, stocks) = {}
        /\ SetupBlocker(r.design, stocks, r.machine, r.registrations, layouts) = ""
    BY <1>4, ReviewBlockerCases
  <2>2. Blocking(run_dfm_screen(r.design.parts, stocks, r.machine, layouts)) = {}
    BY <1>4 DEF Unrefused
  <2>3. SheetInputs(r.design, stocks, r.machine)
    BY SelectedAreStocks, PinnedAreUnique, CallsAreTyped DEF SheetInputs, Unrefused
  <2>4. Planned(r.design, stocks, r.machine, r.registrations)
    BY <2>1, <2>2, <2>3 DEF Planned
  <2> QED
    BY <2>1, <2>4, CamHasOperations
<1> HIDE DEF cam, docs
<1>5. CASE code = ""
  BY <1>2, <1>3, <1>4, <1>5 DEF cam, docs
<1>6. CASE code # ""
  BY <1>2, <1>3, <1>6 DEF docs
<1> QED
  BY <1>5, <1>6

LEMMA BundleReadiness ==
    ASSUME NEW r \in Requests, Unrefused(r)
    PROVE  LET software == Bundle(r).docs.readiness.software
           IN  /\ software.dfm = (ReviewBlocker(r) \notin {"STOCK_PROFILE_MISSING", "DFM-GRAIN-001"})
               /\ (software.operations > 0) = (ReviewBlocker(r) = "")
               /\ (software.setups > 0) = (ReviewBlocker(r) = "")
               /\ software.backplot = (ReviewBlocker(r) = "")
               /\ software.program = (ReviewBlocker(r) = "" /\ r.program)
<1> DEFINE docs == Bundle(r).docs
           code == ReviewBlocker(r)
           program == (code = "" /\ r.program)
<1>1. docs.readiness = build_workshop_readiness_report(r.design, docs.dfm, docs.cam, program, r.evidence)
  BY BundleParts, BuiltReports
<1>2. docs.readiness.software = software_evidence(docs.dfm, docs.cam, program)
  <2>1. \A dfm, cam, x : build_workshop_readiness_report(r.design, dfm, cam, x, r.evidence).software =
                                software_evidence(dfm, cam, x)
    BY DEF build_workshop_readiness_report
  <2> HIDE DEF program, docs
  <2> QED
    BY <1>1, <2>1
<1>3. Blocking(docs.dfm) = {} <=> code \notin {"STOCK_PROFILE_MISSING", "DFM-GRAIN-001"}
  BY BundleReportIsAllowed
<1>4. /\ code # "" => docs.cam = Nothing
      /\ code = "" => /\ docs.cam # Nothing
                      /\ Len(docs.cam.operations) \in Nat \ {0} /\ Cardinality(docs.cam.setups) \in Nat \ {0}
  BY BundleCam
<1> HIDE DEF docs, code, program
<1>5. /\ software_evidence(docs.dfm, docs.cam, program).dfm = (Blocking(docs.dfm) = {})
      /\ software_evidence(docs.dfm, docs.cam, program).operations =
            IF docs.cam = Nothing THEN 0 ELSE Len(docs.cam.operations)
      /\ software_evidence(docs.dfm, docs.cam, program).setups =
            IF docs.cam = Nothing THEN 0 ELSE Cardinality(docs.cam.setups)
      /\ software_evidence(docs.dfm, docs.cam, program).backplot = (docs.cam # Nothing)
      /\ software_evidence(docs.dfm, docs.cam, program).program = program
  BY DEF software_evidence
<1> DEFINE software == docs.readiness.software
<1>7. software.dfm = (code \notin {"STOCK_PROFILE_MISSING", "DFM-GRAIN-001"})
  BY <1>2, <1>3, <1>5
<1>8. (software.operations > 0) = (code = "")
  <2> DEFINE x == software.operations
  <2>1. x = IF code = "" THEN Len(docs.cam.operations) ELSE 0
    BY <1>2, <1>4, <1>5
  <2> HIDE DEF x
  <2>2. (x > 0) = (code = "")
    <3>1. CASE code = ""
      <4>1. x \in Nat \ {0}
        BY <1>4, <2>1, <3>1
      <4>2. x > 0
        BY <4>1
      <4> QED
        BY <3>1, <4>1, <4>2
    <3>2. CASE code # ""
      <4>1. x = 0
        BY <2>1, <3>2
      <4>2. (x > 0) = FALSE
        BY <4>1
      <4>3. (code = "") = FALSE
        BY <3>2
      <4> QED
        BY <4>2, <4>3
    <3> QED
      BY <3>1, <3>2
  <2> QED
    BY <2>2 DEF x
<1>9. (software.setups > 0) = (code = "")
  <2> DEFINE x == software.setups
  <2>1. x = IF code = "" THEN Cardinality(docs.cam.setups) ELSE 0
    BY <1>2, <1>4, <1>5
  <2> HIDE DEF x
  <2>2. (x > 0) = (code = "")
    <3>1. CASE code = ""
      <4>1. x \in Nat \ {0}
        BY <1>4, <2>1, <3>1
      <4>2. x > 0
        BY <4>1
      <4> QED
        BY <3>1, <4>1, <4>2
    <3>2. CASE code # ""
      <4>1. x = 0
        BY <2>1, <3>2
      <4>2. (x > 0) = FALSE
        BY <4>1
      <4>3. (code = "") = FALSE
        BY <3>2
      <4> QED
        BY <4>2, <4>3
    <3> QED
      BY <3>1, <3>2
  <2> QED
    BY <2>2 DEF x
<1>10. software.backplot = (code = "")
  BY <1>2, <1>4, <1>5
<1>11. software.program = program
  BY <1>2, <1>5
<1> QED
  BY <1>7, <1>8, <1>9, <1>10, <1>11 DEF docs, code, program

LEMMA BundleInventory ==
    ASSUME NEW r \in Requests, Unrefused(r)
    PROVE  RetentionBindingHolds(Bundle(r)) /\ InventoryHolds(Bundle(r))
<1> DEFINE docs == Bundle(r).docs
           code == ReviewBlocker(r)
           kept == retention_evidence_blocker_code(r.design)
<1>1. /\ code = "" => /\ docs.status.cam = "VALIDATION_GENERATED" /\ docs.status.blockers = {}
                      /\ docs.status.program = r.program
      /\ code # "" => docs.status.cam = "BLOCKED" /\ docs.status.blockers = {code}
  BY BundleStatus
<1>2. /\ code \in {"DADO_RETENTION", "BACK_PANEL_RETENTION"} => code = kept
      /\ code = "" => kept = ""
  BY ReviewBlockerCases
<1>3. docs.spec = r.design
  BY BundleInputs
<1>4. /\ code # "" => docs.cam = Nothing
      /\ code = "" => docs.cam # Nothing
      /\ docs.program = IF code = "" /\ r.program THEN [of |-> docs.cam] ELSE Nothing
  BY BundleCam
<1>5. r.program \in BOOLEAN
  BY CallsAreTyped
<1> HIDE DEF docs, code, kept
<1>6. RetentionBindingHolds(Bundle(r))
  BY <1>1, <1>2, <1>3 DEF RetentionBindingHolds, docs, kept
<1>7. CASE code = ""
  <2>1. [of |-> docs.cam] # Nothing
    <3>1. "none" \in DOMAIN Nothing /\ "none" \notin DOMAIN [of |-> docs.cam]
      BY DEF Nothing
    <3> QED
      BY <3>1
  <2>2. docs.program # Nothing <=> r.program
    BY <1>4, <1>7, <2>1
  <2>3. docs.status.program = (docs.program # Nothing)
    <3>1. docs.status.program = r.program
      BY <1>1, <1>7
    <3> QED
      BY <1>5, <2>2, <3>1
  <2>4. docs.status.cam # "BLOCKED"
    BY <1>1, <1>7
  <2> QED
    BY <1>4, <1>6, <1>7, <2>3, <2>4 DEF InventoryHolds, GeneratedInventoryHolds, docs
<1>8. CASE code # ""
  BY <1>1, <1>4, <1>6, <1>8 DEF InventoryHolds, docs
<1> QED
  BY <1>7, <1>8, <1>6

LEMMA BundleStatusReadiness ==
    ASSUME NEW r \in Requests, Unrefused(r)
    PROVE  StatusReadinessHolds(Bundle(r))
<1> DEFINE status == Bundle(r).docs.status
           software == Bundle(r).docs.readiness.software
           code == ReviewBlocker(r)
<1>1. /\ code = "" => /\ status.cam = "VALIDATION_GENERATED" /\ status.blockers = {}
                      /\ status.program = r.program
      /\ code # "" => /\ status.cam = "BLOCKED" /\ status.blockers = {code}
                      /\ status.program = FALSE
  BY BundleStatus
<1>2. /\ software.dfm = (code \notin {"STOCK_PROFILE_MISSING", "DFM-GRAIN-001"})
      /\ (software.operations > 0) = (code = "")
      /\ (software.setups > 0) = (code = "")
      /\ software.backplot = (code = "")
      /\ software.program = (code = "" /\ r.program)
  BY BundleReadiness
<1>3. r.program \in BOOLEAN
  BY CallsAreTyped
<1> HIDE DEF status, software, code
<1>4. status.cam = "VALIDATION_GENERATED" <=> code = ""
  BY <1>1
<1>5. status.blockers \cap {"STOCK_PROFILE_MISSING", "DFM-GRAIN-001"} = {} <=>
        code \notin {"STOCK_PROFILE_MISSING", "DFM-GRAIN-001"}
  BY <1>1
<1>6. software.dfm = (status.blockers \cap {"STOCK_PROFILE_MISSING", "DFM-GRAIN-001"} = {})
  BY <1>2, <1>5
<1>7. /\ (software.operations > 0) = (status.cam = "VALIDATION_GENERATED")
      /\ (software.setups > 0) = (status.cam = "VALIDATION_GENERATED")
      /\ software.backplot = (status.cam = "VALIDATION_GENERATED")
  <2>1. (software.operations > 0) = (status.cam = "VALIDATION_GENERATED")
    BY <1>2, <1>4, Zenon
  <2>2. (software.setups > 0) = (status.cam = "VALIDATION_GENERATED")
    BY <1>2, <1>4, Zenon
  <2>3. software.backplot = (status.cam = "VALIDATION_GENERATED")
    BY <1>2, <1>4
  <2> QED
    BY <2>1, <2>2, <2>3
<1>8. software.program = status.program
  <2>1. CASE code = "" /\ r.program = TRUE
    BY <1>1, <1>2, <2>1
  <2>2. CASE code = "" /\ r.program = FALSE
    BY <1>1, <1>2, <2>2
  <2>3. CASE code # ""
    BY <1>1, <1>2, <2>3
  <2> QED
    BY <1>3, <2>1, <2>2, <2>3
<1> QED
  BY <1>6, <1>7, <1>8 DEF StatusReadinessHolds, status, software

LEMMA BundleMachining ==
    ASSUME NEW r \in Requests, Unrefused(r)
    PROVE  CamHolds(Bundle(r)) /\ ReadinessHolds(Bundle(r))
<1> DEFINE docs == Bundle(r).docs
           code == ReviewBlocker(r)
           stocks == Selected(r)
           layouts == Layouts(r.design.parts, stocks)
<1>1. /\ code = "" => docs.status.cam = "VALIDATION_GENERATED" /\ docs.status.program = r.program
      /\ code # "" => docs.status.cam = "BLOCKED"
  BY BundleStatus
<1>2. /\ docs.spec = r.design /\ docs.stock.stocks = stocks /\ docs.plan.machine = r.machine
      /\ docs.plan.registrations = r.registrations /\ docs.plan.program = r.program
  BY BundleInputs
<1>3. code = "" => SetupBlocker(r.design, stocks, r.machine, r.registrations, layouts) = ""
  BY ReviewBlockerCases
<1>4. /\ code # "" => docs.cam = Nothing
      /\ code = "" => /\ docs.cam = CamOf(r.design, stocks, r.machine, layouts)
                      /\ docs.cam # Nothing
      /\ docs.program = IF code = "" /\ r.program THEN [of |-> docs.cam] ELSE Nothing
  BY BundleCam
<1>5. docs.readiness = build_workshop_readiness_report(r.design, docs.dfm, docs.cam,
                            code = "" /\ r.program, r.evidence)
  BY BundleParts, BuiltReports
<1>6. Bundle(r).manifest.context.evidence = r.evidence
  <2>1. FrozenContext(r).evidence = r.evidence
    BY DEF FrozenContext
  <2> QED
    BY <2>1, BundleParts
<1> HIDE DEF docs, code, stocks
<1>7. CamHolds(Bundle(r))
  <2>1. CASE code = ""
    BY <1>1, <1>2, <1>3, <1>4, <2>1 DEF CamHolds, docs
  <2>2. CASE code # ""
    BY <1>1, <2>2 DEF CamHolds, docs
  <2> QED
    BY <2>1, <2>2
<1>8. (code = "" /\ r.program) = (docs.cam # Nothing /\ docs.plan.program)
  BY <1>2, <1>4
<1>9. ReadinessHolds(Bundle(r))
  <2>1. docs.readiness = build_workshop_readiness_report(r.design, docs.dfm, docs.cam,
                            docs.cam # Nothing /\ docs.plan.program, r.evidence)
    BY <1>5, <1>8
  <2> QED
    BY <1>2, <1>6, <2>1 DEF ReadinessHolds, docs
<1> QED
  BY <1>7, <1>9

LEMMA BuiltVerifies ==
    ASSUME NEW r \in Requests, Blocker(r) = "", InOrder(r), GroupsTurnAlike(r.design.parts)
    PROVE  Verifies(Sealed(FrozenContext(r), Built(r)))
<1>1. Unrefused(r)
  BY BuiltIsUnrefused
<1>2. StatusInventoryHolds(Bundle(r))
  BY <1>1, BundleInventory, BundleReportIsAllowed, BundleSelectionReport, BundleGrain,
     BundleStatusReadiness DEF StatusInventoryHolds
<1>3. ArtifactIdentitiesHold(Bundle(r))
  <2>1. DOMAIN r.enclosed \subseteq SafeCallerArtifacts
    BY DEF Blocker, BlockerOf
  <2>2. Bundle(r).docs = Built(r)
    BY BundleParts
  <2>3. Built(r).enclosed = r.enclosed
    BY BuiltDocuments
  <2> QED
    BY <2>1, <2>2, <2>3, Zenon DEF ArtifactIdentitiesHold
<1>4. Verifies(Bundle(r))
  BY <1>1, <1>2, <1>3, BundleIsBound, BundleStocks, BundlePlan, BundleMachining DEF Verifies, HandoffHolds
<1> QED
  BY <1>4 DEF Bundle

\* The invariant of the builder needs no more than that the call is one of the calls.
BuilderInv == request \in Requests /\ BuilderMeetsVerifier
LEMMA BuilderInvInit == PackageInit => BuilderInv
BY DEF PackageInit, BuilderInv, BuilderMeetsVerifier

LEMMA BuilderInvStep == BuilderInv /\ [PackageNext]_packageVars => BuilderInv'
<1> SUFFICES ASSUME BuilderInv, [PackageNext]_packageVars PROVE BuilderInv'
  OBVIOUS
<1>1. request \in Requests
  BY DEF BuilderInv
<1>2. CASE build_production_bundle
  <2>1. request' = request
    BY <1>2 DEF build_production_bundle
  <2>2. CASE Blocker(request) # "" /\ verdict' = Blocker(request)
    <3>1. verdict' \notin {"NESTER", "unverifiable"}
      BY <1>1, <2>2, RefusalIsNamed
    <3> QED
      BY <1>1, <2>1, <3>1 DEF BuilderInv, BuilderMeetsVerifier
  <2>3. CASE /\ Blocker(request) = "" /\ parcel' = Sealed(FrozenContext(request), Built(request))
             /\ verdict' = IF Verifies(parcel') THEN "built" ELSE "unverifiable"
    <3>1. InOrder(request) /\ GroupsTurnAlike(request.design.parts) => verdict' = "built"
      BY <1>1, <2>3, BuiltVerifies
    <3>2. verdict' # "NESTER"
      BY <2>3
    <3>3. (verdict = "unverifiable"
              => ~InOrder(request) \/ ~GroupsTurnAlike(request.design.parts))'
      BY <2>1, <3>1
    <3> QED
      BY <1>1, <2>1, <3>2, <3>3 DEF BuilderInv, BuilderMeetsVerifier
  <2> QED
    BY <1>2, <2>2, <2>3 DEF build_production_bundle
<1>3. CASE receive_package
  BY <1>1, <1>3 DEF receive_package, BuilderInv, BuilderMeetsVerifier
<1>4. CASE read_and_verify_package
  BY <1>1, <1>4 DEF read_and_verify_package, BuilderInv, BuilderMeetsVerifier
<1>5. CASE UNCHANGED packageVars
  BY <1>5 DEF packageVars, BuilderInv, BuilderMeetsVerifier, InOrder, StockRect, GroupsTurnAlike, BomSignature
<1> QED
  BY <1>2, <1>3, <1>4, <1>5 DEF PackageNext

\* What build_production_bundle forms from any call in order, of a design in which
\* the parts of a BOM group may be turned alike, passes
\* read_and_verify_package, check by check, and the nester never raises on its own
\* layouts, whatever the parts and the stocks.
THEOREM BuilderPasses == PackageSpec => []BuilderMeetsVerifier
<1>1. BuilderInv => BuilderMeetsVerifier
  BY DEF BuilderInv
<1> QED
  BY <1>1, BuilderInvInit, BuilderInvStep, PTL DEF PackageSpec

-----------------------------------------------------------------------------
(***************************************************************************)
(* The plan of a CAM candidate.  The programs are the distinct keys of the *)
(* operations, sorted: a key's place is the number of keys before it, so   *)
(* every key has one place and the places of a setup follow one another.   *)
(***************************************************************************)
Keys == Int \X Int \X Int \X Int

\* KeyBefore compares the four parts one after the other.
LEMMA KeyBeforeUnfolds ==
    ASSUME NEW a \in Keys, NEW b \in Keys
    PROVE  KeyBefore(a, b) <=>
              \/ a[1] < b[1]
              \/ a[1] = b[1] /\ a[2] < b[2]
              \/ a[1] = b[1] /\ a[2] = b[2] /\ a[3] < b[3]
              \/ a[1] = b[1] /\ a[2] = b[2] /\ a[3] = b[3] /\ a[4] < b[4]
<1>1. 1 .. 4 = {1, 2, 3, 4} /\ 1 .. 1 - 1 = {} /\ 1 .. 2 - 1 = {1} /\ 1 .. 3 - 1 = {1, 2}
        /\ 1 .. 4 - 1 = {1, 2, 3}
  OBVIOUS
<1> QED
  BY <1>1 DEF KeyBefore

LEMMA KeyBeforeIsOrder ==
    ASSUME NEW a \in Keys, NEW b \in Keys, NEW c \in Keys
    PROVE  /\ ~KeyBefore(a, a)
           /\ KeyBefore(a, b) /\ KeyBefore(b, c) => KeyBefore(a, c)
           /\ a # b => KeyBefore(a, b) \/ KeyBefore(b, a)
<1>1. a[1] \in Int /\ a[2] \in Int /\ a[3] \in Int /\ a[4] \in Int
        /\ b[1] \in Int /\ b[2] \in Int /\ b[3] \in Int /\ b[4] \in Int
        /\ c[1] \in Int /\ c[2] \in Int /\ c[3] \in Int /\ c[4] \in Int
  BY DEF Keys
<1>2. ~KeyBefore(a, a)
  BY <1>1, KeyBeforeUnfolds
<1>3. KeyBefore(a, b) /\ KeyBefore(b, c) => KeyBefore(a, c)
  BY <1>1, KeyBeforeUnfolds
<1>4. a # b => a[1] # b[1] \/ a[2] # b[2] \/ a[3] # b[3] \/ a[4] # b[4]
  BY DEF Keys
<1>5. a # b => KeyBefore(a, b) \/ KeyBefore(b, a)
  BY <1>1, <1>4, KeyBeforeUnfolds
<1> QED
  BY <1>2, <1>3, <1>5

KeyOrder == {p \in Keys \X Keys : KeyBefore(p[1], p[2])}
Ranked(keys) ==
    [n \in 1 .. Cardinality(keys) |->
        CHOOSE k \in keys : Cardinality({j \in keys : KeyBefore(j, k)}) = n - 1]

LEMMA KeyOrderIsStrict ==
    ASSUME NEW keys \in SUBSET Keys
    PROVE  /\ StrictOrder(keys, KeyOrder)
           /\ \A j, k \in keys : <<j, k>> \in KeyOrder <=> KeyBefore(j, k)
<1>1. \A j, k \in keys : <<j, k>> \in KeyOrder <=> KeyBefore(j, k)
  BY DEF KeyOrder
<1> QED
  BY <1>1, KeyBeforeIsOrder DEF StrictOrder

\* Sorted by rank, every key is at exactly one place, and the places go up with the keys.
LEMMA RankedKeysInOrder ==
    ASSUME NEW keys \in SUBSET Keys, IsFiniteSet(keys)
    PROVE  IsRanking(keys, KeyOrder, Ranked(keys)) /\ Ascends(keys, KeyOrder, Ranked(keys))
<1>0. StrictOrder(keys, KeyOrder) /\ \A j, k \in keys : <<j, k>> \in KeyOrder <=> KeyBefore(j, k)
  BY KeyOrderIsStrict
<1>1. Cardinality(keys) \in Nat
  BY FS_CardinalityType
<1>2. ASSUME NEW n \in 1 .. Cardinality(keys)
      PROVE  Ranked(keys)[n] \in keys /\ Rank(keys, KeyOrder, Ranked(keys)[n]) = n - 1
  <2>1. PICK k \in keys : Rank(keys, KeyOrder, k) = n - 1
    BY <1>0, <1>1, RankIsBijective
  <2>2. \A x \in keys : Rank(keys, KeyOrder, x) = Cardinality({j \in keys : KeyBefore(j, x)})
    <3> TAKE x \in keys
    <3>1. Earlier(keys, KeyOrder, x) = {j \in keys : KeyBefore(j, x)}
      BY <1>0 DEF Earlier
    <3> QED
      BY <3>1 DEF Rank
  <2>3. Ranked(keys)[n] = CHOOSE x \in keys : Cardinality({j \in keys : KeyBefore(j, x)}) = n - 1
    BY DEF Ranked
  <2> QED
    BY <2>1, <2>2, <2>3
<1>3. IsRanking(keys, KeyOrder, Ranked(keys))
  <2>1. DOMAIN Ranked(keys) = 1 .. Cardinality(keys)
    BY DEF Ranked
  <2> QED
    BY <1>2, <2>1 DEF IsRanking
<1> QED
  BY <1>0, <1>3, RankedInOrder

-----------------------------------------------------------------------------
\* What the profile's reader and the plan's checks leave for the planner.
Plannable(review, context) ==
    /\ review \in Reviews /\ review.cam
    /\ CanGenerate(review, context) /\ ContextAgrees(context)
    /\ context.rpm[1] \in Int /\ context.rpm[2] \in Int
PlanKeys(context, review) == {RecipeGroup(context, review, o) : o \in review.operations}

SetupIndex(review, id) == CHOOSE n \in DOMAIN review.setups : review.setups[n].id = id

\* The key of an operation names its setup, its phase, its tool and the speed of a
\* recipe of its kind.
LEMMA KeyOfOperation ==
    ASSUME NEW review, NEW context, Plannable(review, context), NEW o \in review.operations
    PROVE  LET k == RecipeGroup(context, review, o)
           IN  /\ k \in Keys
               /\ k[1] = SetupIndex(review, o.setup)
               /\ k[1] \in DOMAIN review.setups /\ review.setups[k[1]].id = o.setup
               /\ k[3] = o.tool
               /\ \E r \in context.recipes : r.kind = o.kind /\ k[4] = r.rpm
<1> DEFINE i == SetupIndex(review, o.setup)
           rec == RecipeFor(context, review, o)
           k == RecipeGroup(context, review, o)
<1>1. k = <<i, IF o.release THEN 1 ELSE 0, o.tool, rec.rpm>>
  BY DEF RecipeGroup, SetupIndex
<1>2. i \in DOMAIN review.setups /\ review.setups[i].id = o.setup
  <2>1. o.setup \in {s.id : s \in Rows(review.setups)}
    BY ReviewsArePlans DEF Plannable
  <2>2. \E n \in DOMAIN review.setups : review.setups[n].id = o.setup
    BY <2>1 DEF Rows
  <2> QED
    BY <2>2 DEF SetupIndex
<1>3. rec \in RecipesFor(context, review, o)
  BY DEF Plannable, CanGenerate, OperationsDescribed, RecipeFor
<1>4. rec \in context.recipes /\ rec.kind = o.kind
  BY <1>3 DEF RecipesFor
<1>5. rec.rpm \in Int
  <2>1. rec.rpm \in context.rpm[1] .. context.rpm[2]
    BY <1>4 DEF Plannable, ContextAgrees
  <2>2. context.rpm[1] \in Int /\ context.rpm[2] \in Int
    BY DEF Plannable
  <2> QED
    BY <2>1, <2>2
<1>6. i \in Int /\ o.tool \in Int
  <2>1. DOMAIN review.setups \subseteq Nat /\ o.tool \in Nat
    BY ReviewsArePlans DEF Plannable
  <2> QED
    BY <2>1, <1>2
<1>7. PICK phase \in Int : k = <<i, phase, o.tool, rec.rpm>>
  BY <1>1
<1> HIDE DEF i, rec, k
<1>8. k \in Keys
  BY <1>5, <1>6, <1>7 DEF Keys
<1>9. k[1] = i /\ k[3] = o.tool /\ k[4] = rec.rpm
  BY <1>7
<1> QED
  BY <1>8, <1>9, <1>2, <1>4 DEF k, i

LEMMA PlanKeysAreKeys ==
    ASSUME NEW review, NEW context, Plannable(review, context)
    PROVE  /\ PlanKeys(context, review) \in SUBSET Keys
           /\ IsFiniteSet(PlanKeys(context, review))
<1> DEFINE f == [o \in review.operations |-> RecipeGroup(context, review, o)]
<1>1. PlanKeys(context, review) \in SUBSET Keys
  BY KeyOfOperation DEF PlanKeys
<1>2. f \in Surjection(review.operations, PlanKeys(context, review))
  BY DEF Surjection, PlanKeys
<1>3. IsFiniteSet(review.operations)
  BY ReviewsArePlans DEF Plannable
<1>4. IsFiniteSet(PlanKeys(context, review))
  BY <1>2, <1>3, FS_Surjection
<1> QED
  BY <1>1, <1>4

\* The groups are the keys of the operations, in order.
LEMMA GroupsAreRankedKeys ==
    ASSUME NEW review, NEW context
    PROVE  Groups(context, review) = Ranked(PlanKeys(context, review))
BY DEF Groups, Ranked, PlanKeys

LEMMA PlannedProgram ==
    ASSUME NEW review, NEW context, NEW n \in DOMAIN PlannedPrograms(context, review)
    PROVE  LET p == PlannedPrograms(context, review)[n]
               k == Groups(context, review)[n]
           IN  /\ p = [order |-> n, setup |-> review.setups[k[1]].id,
                       tool |-> BoundTool(context, k[3]).id, rpm |-> k[4],
                       operations |-> p.operations, release |-> k[2] = 1]
               /\ p.operations = {o.id : o \in {q \in review.operations :
                                                 RecipeGroup(context, review, q) = k}}
BY DEF PlannedPrograms

LEMMA PlannedDomain ==
    ASSUME NEW review, NEW context
    PROVE  DOMAIN PlannedPrograms(context, review) = 1 .. Cardinality(PlanKeys(context, review))
BY DEF PlannedPrograms, Groups, PlanKeys

\* An operation is in exactly one program, that of its key.
LEMMA PlannedOnce ==
    ASSUME NEW review, NEW context, Plannable(review, context), NEW o \in review.operations
    PROVE  \E n \in DOMAIN PlannedPrograms(context, review) :
              /\ Groups(context, review)[n] = RecipeGroup(context, review, o)
              /\ \A m \in DOMAIN PlannedPrograms(context, review) :
                    o.id \in PlannedPrograms(context, review)[m].operations <=> m = n
<1> DEFINE keys == PlanKeys(context, review)
           P == PlannedPrograms(context, review)
           k == RecipeGroup(context, review, o)
<1> HIDE DEF keys, P, k
<1>1. keys \in SUBSET Keys /\ IsFiniteSet(keys) /\ k \in keys
  BY PlanKeysAreKeys DEF keys, k, PlanKeys
<1>2. DOMAIN P = 1 .. Cardinality(keys) /\ Groups(context, review) = Ranked(keys)
  BY PlannedDomain, GroupsAreRankedKeys DEF P, keys
<1>a. IsRanking(keys, KeyOrder, Ranked(keys)) /\ Ascends(keys, KeyOrder, Ranked(keys))
  BY <1>1, RankedKeysInOrder
<1>3. PICK n \in DOMAIN P : Ranked(keys)[n] = k
  BY <1>1, <1>2, <1>a DEF IsRanking, Ascends
<1>4. ASSUME NEW m \in DOMAIN P PROVE o.id \in P[m].operations <=> Ranked(keys)[m] = k
  <2>1. P[m].operations = {q.id : q \in {p \in review.operations :
                                    RecipeGroup(context, review, p) = Groups(context, review)[m]}}
    BY PlannedProgram DEF P
  <2>2. ASSUME NEW q \in review.operations, q.id = o.id PROVE q = o
    BY <2>2, ReviewsArePlans DEF Plannable, Unique
  <2> QED
    BY <2>1, <2>2, <1>2 DEF k
<1>5. ASSUME NEW m \in DOMAIN P, Ranked(keys)[m] = k PROVE m = n
  <2>1. Rank(keys, KeyOrder, k) = m - 1 /\ Rank(keys, KeyOrder, k) = n - 1
    BY <1>a, <1>2, <1>3, <1>5 DEF IsRanking
  <2>2. Cardinality(keys) \in Nat
    BY <1>1, FS_CardinalityType
  <2>3. m \in Int /\ n \in Int
    BY <1>2, <2>2
  <2> QED
    BY <2>1, <2>3
<1> QED
  BY <1>2, <1>3, <1>4, <1>5 DEF P, k

-----------------------------------------------------------------------------
(***************************************************************************)
(* What the toolpaths of any candidate say, whoever drew or redrew them:   *)
(* every operation of their review is in one program, on its setup, with   *)
(* its tool and the speed of a recipe of its kind.                         *)
(***************************************************************************)
CutsOnce(toolpaths, o) ==
    \E n \in DOMAIN toolpaths.programs :
        /\ \A m \in DOMAIN toolpaths.programs :
                o.id \in toolpaths.programs[m].operations <=> m = n
        /\ toolpaths.programs[n].setup = o.setup
        /\ \E t \in toolpaths.context.tools :
                t.source = o.tool /\ toolpaths.programs[n].tool = t.id
        /\ \E r \in toolpaths.context.recipes :
                r.kind = o.kind /\ toolpaths.programs[n].rpm = r.rpm
Drawn(toolpaths) ==
    /\ {"operations", "context", "programs"} \subseteq DOMAIN toolpaths
    /\ {"setups", "tools", "recipes"} \subseteq DOMAIN toolpaths.context
    /\ \A s \in toolpaths.context.setups : s.hash = SetupNamed(toolpaths.operations, s.id)
    /\ \A o \in toolpaths.operations.operations :
            o.setup \in {s.id : s \in toolpaths.context.setups} /\ CutsOnce(toolpaths, o)

\* The inductive invariant.
CandidateInv ==
    /\ candidate # NoFile =>
            "toolpaths" \in DOMAIN candidate.docs /\ Drawn(candidate.docs.toolpaths)
    /\ answer.accepted =>
        /\ candidate # NoFile
        /\ \E review \in Reviews, producer \in Identities :
                /\ answer.by = review.sha
                /\ read_and_verify_cam_candidate_package(candidate, review, producer.source,
                                                         answer.test)

LEMMA GeneratedIsDrawn ==
    ASSUME NEW review, NEW context, Plannable(review, context),
           {"setups", "tools", "recipes"} \subseteq DOMAIN context
    PROVE  Drawn(toolpaths_generate(review, context))
<1> DEFINE tp == toolpaths_generate(review, context)
<1>1. /\ {"operations", "context", "programs"} \subseteq DOMAIN tp
      /\ tp.operations = OperationsDocument(review) /\ tp.context = context
      /\ tp.programs = PlannedPrograms(context, review)
  BY DEF toolpaths_generate
<1>2. tp.operations.setups = review.setups /\ tp.operations.operations = review.operations
  BY <1>1 DEF OperationsDocument
<1> HIDE DEF tp
<1>3. \A id : SetupNamed(tp.operations, id) = SetupNamed(review, id)
  BY <1>2 DEF SetupNamed
<1>4. ReviewBound(review, context)
  BY DEF Plannable, CanGenerate
<1>5. \A s \in context.setups : s.hash = SetupNamed(tp.operations, s.id)
  BY <1>3, <1>4 DEF ReviewBound
<1>6. ASSUME NEW o \in review.operations
      PROVE  o.setup \in {s.id : s \in context.setups} /\ CutsOnce(tp, o)
  <2>1. o.setup \in {s.id : s \in Rows(review.setups)}
    BY ReviewsArePlans DEF Plannable
  <2>2. o.setup \in {s.id : s \in context.setups}
    BY <2>1, <1>4 DEF ReviewBound
  <2> DEFINE k == RecipeGroup(context, review, o)
  <2>3. /\ k[1] \in DOMAIN review.setups /\ review.setups[k[1]].id = o.setup
        /\ k[3] = o.tool
        /\ \E r \in context.recipes : r.kind = o.kind /\ k[4] = r.rpm
    BY KeyOfOperation
  <2>4. PICK n \in DOMAIN tp.programs :
          /\ Groups(context, review)[n] = k
          /\ \A m \in DOMAIN tp.programs : o.id \in tp.programs[m].operations <=> m = n
    BY <1>1, PlannedOnce
  <2> HIDE DEF k
  <2>5. /\ tp.programs[n].setup = review.setups[k[1]].id
        /\ tp.programs[n].tool = BoundTool(context, k[3]).id /\ tp.programs[n].rpm = k[4]
    BY <2>4, <1>1, PlannedProgram
  <2>6. BoundTool(context, o.tool) \in context.tools
          /\ BoundTool(context, o.tool).source = o.tool
    <3>1. o.tool \in {t.source : t \in context.tools}
      BY <1>4 DEF ReviewBound, OperationTools
    <3> QED
      BY <3>1 DEF BoundTool
  <2>7. CutsOnce(tp, o)
    BY <2>3, <2>4, <2>5, <2>6, <1>1 DEF CutsOnce
  <2> QED
    BY <2>2, <2>7
<1>7. Drawn(tp)
  BY <1>1, <1>2, <1>5, <1>6 DEF Drawn
<1> QED
  BY <1>7 DEF tp

\* Drawing again changes neither the operations nor the programs, and of the context
\* neither the setups nor the tools nor the recipes.
LEMMA RedrawnIsDrawn ==
    ASSUME NEW toolpaths, Drawn(toolpaths), NEW t \in Redrawings(toolpaths)
    PROVE  Drawn(t)
<1>1. {"operations", "context", "programs"} \subseteq DOMAIN toolpaths
        /\ {"setups", "tools", "recipes"} \subseteq DOMAIN toolpaths.context
  BY DEF Drawn
<1>2. /\ {"operations", "context", "programs"} \subseteq DOMAIN t
      /\ {"setups", "tools", "recipes"} \subseteq DOMAIN t.context
      /\ t.operations = toolpaths.operations /\ t.programs = toolpaths.programs
      /\ t.context.setups = toolpaths.context.setups
      /\ t.context.tools = toolpaths.context.tools
      /\ t.context.recipes = toolpaths.context.recipes
  BY <1>1 DEF Redrawings
<1> QED
  BY <1>2 DEF Drawn, CutsOnce

LEMMA LoadedIsPlannable ==
    ASSUME NEW review \in Reviews, NEW profile, NEW test,
           review.cam, load_production_machine_profile(profile, test), Generates(review, profile)
    PROVE  Plannable(review, build_execution_context(profile.payload))
<1> DEFINE context == build_execution_context(profile.payload)
<1>1. ContextAgrees(context) /\ MachineParses(profile.payload.machine)
  BY DEF load_production_machine_profile, ExecutionContextHolds, PayloadParses
<1>2. CanGenerate(review, context)
  BY DEF Generates
<1>3. context.rpm = profile.payload.machine.rpm
  BY DEF build_execution_context
<1>4. context.rpm[1] \in Int /\ context.rpm[2] \in Int
  BY <1>1, <1>3 DEF MachineParses
<1> QED
  BY <1>1, <1>2, <1>4 DEF Plannable

LEMMA BuildIsDrawn ==
    ASSUME NEW review \in Reviews, NEW profile, NEW test, NEW identity,
           review.cam, load_production_machine_profile(profile, test), Generates(review, profile)
    PROVE  /\ "toolpaths" \in DOMAIN BuildOf(review, profile, identity).docs
           /\ Drawn(BuildOf(review, profile, identity).docs.toolpaths)
<1>1. Drawn(ToolpathsFor(review, profile))
  <2>1. {"setups", "tools", "recipes"} \subseteq DOMAIN build_execution_context(profile.payload)
    BY DEF build_execution_context
  <2> QED
    BY <2>1, LoadedIsPlannable, GeneratedIsDrawn DEF ToolpathsFor
<1>2. /\ "toolpaths" \in DOMAIN BuildOf(review, profile, identity).docs
      /\ BuildOf(review, profile, identity).docs.toolpaths = ToolpathsFor(review, profile)
  BY DEF BuildOf, Assembled, Derived
<1> QED
  BY <1>1, <1>2

LEMMA SiblingIsDrawn ==
    ASSUME NEW s \in Siblings
    PROVE  Drawn(SiblingBuild[s].docs.toolpaths)
<1> DEFINE review == ReviewNamed(s.review)
<1>1. review \in Reviews /\ Generates(review, s.profile) /\ review.cam
  BY SiblingsWereBuilt DEF CanBuild, VerifiedBase
<1>2. load_production_machine_profile(s.profile, s.profile.payload.class = "TEST_ONLY")
  BY SiblingsWereBuilt DEF CanBuild, ProfileBound
<1>3. SiblingBuild[s] = BuildOf(review, s.profile, s.identity)
  BY DEF SiblingBuild
<1> HIDE DEF review
<1> QED
  BY <1>1, <1>2, <1>3, BuildIsDrawn

LEMMA CandidateInvInit == CandidateInit => CandidateInv
BY DEF CandidateInit, CandidateInv, Unjudged

LEMMA CandidateInvStep ==
    CandidateInv /\ [CandidateNext]_candidateVars => CandidateInv'
<1> SUFFICES ASSUME CandidateInv, [CandidateNext]_candidateVars PROVE CandidateInv'
  OBVIOUS
<1>0. ~Unjudged.accepted
  BY DEF Unjudged
<1>1. CASE UNCHANGED <<candidate, answer>>
  BY <1>1 DEF CandidateInv
<1>2. ASSUME NEW r \in Reviews, NEW i, NEW t, Compile(r, i, t) PROVE CandidateInv'
  <2>1. candidate = NoFile /\ answer' = answer /\ candidate' = BuildOf(r, deployed, i)
          /\ CanCompile(r, deployed, i, t)
    BY <1>2 DEF Compile, WritesNewFile
  <2>2. "toolpaths" \in DOMAIN candidate'.docs /\ Drawn(candidate'.docs.toolpaths)
    BY <2>1, BuildIsDrawn DEF CanCompile, VerifiedBase
  <2> QED
    BY <2>1, <2>2 DEF CandidateInv
<1>3. ASSUME NEW r \in Reviews, NEW engine, WorkerBuild(r, engine) PROVE CandidateInv'
  <2>1. candidate = NoFile /\ answer' = answer
          /\ candidate' = BuildOf(r, deployed, IdentityOfEngine(engine))
          /\ load_production_machine_profile(deployed, FALSE)
          /\ r.cam /\ Generates(r, deployed)
    BY <1>3 DEF WorkerBuild, CanWorkerBuild, WorkerBase
  <2>2. "toolpaths" \in DOMAIN candidate'.docs /\ Drawn(candidate'.docs.toolpaths)
    BY <2>1, BuildIsDrawn
  <2> QED
    BY <2>1, <2>2 DEF CandidateInv
<1>4. ASSUME NEW part, NEW s \in Siblings, Substitute(part, s) PROVE CandidateInv'
  <2>1. candidate # NoFile /\ answer = Unjudged /\ answer' = answer
    BY <1>4 DEF Substitute
  <2>2. candidate'.docs = [candidate.docs EXCEPT ![part] = SiblingBuild[s].docs[part]]
    BY <1>4 DEF Substitute, SealedCandidate
  <2>3. "toolpaths" \in DOMAIN candidate.docs /\ Drawn(candidate.docs.toolpaths)
    BY <2>1 DEF CandidateInv
  <2>4. CASE part = "toolpaths"
    BY <2>1, <2>2, <2>3, <2>4, <1>0, SiblingIsDrawn DEF CandidateInv
  <2>5. CASE part # "toolpaths"
    BY <2>1, <2>2, <2>3, <2>5, <1>0 DEF CandidateInv
  <2> QED
    BY <2>4, <2>5
<1>5. ASSUME NEW r, Rederive(r) PROVE CandidateInv'
  <2>1. candidate # NoFile /\ answer = Unjudged /\ answer' = answer
    BY <1>5 DEF Rederive
  <2>2. "toolpaths" \in DOMAIN candidate'.docs
          /\ candidate'.docs.toolpaths = candidate.docs.toolpaths
    BY <1>5 DEF Rederive, SealedCandidate, Derived
  <2> QED
    BY <2>1, <2>2, <1>0 DEF CandidateInv
<1>6. ASSUME candidate # NoFile, NEW toolpaths \in Redrawings(candidate.docs.toolpaths),
             Redraw(toolpaths)
      PROVE  CandidateInv'
  <2>1. answer = Unjudged /\ answer' = answer
    BY <1>6 DEF Redraw
  <2>2. "toolpaths" \in DOMAIN candidate'.docs /\ candidate'.docs.toolpaths = toolpaths
    BY <1>6 DEF Redraw, SealedCandidate, Derived
  <2>3. Drawn(toolpaths)
    BY <1>6, RedrawnIsDrawn DEF CandidateInv
  <2> QED
    BY <2>1, <2>2, <2>3, <1>0 DEF CandidateInv
<1>7. ASSUME NEW r \in Reviews, NEW i \in Identities, NEW v, NEW t,
             Accept(r, i.source, v, t)
      PROVE  CandidateInv'
  <2>1. /\ candidate # NoFile /\ candidate' = candidate
        /\ read_and_verify_cam_candidate_package(candidate, r, i.source, t)
        /\ answer' = [by |-> r.sha, test |-> t, accepted |-> TRUE]
    BY <1>7 DEF Accept, verify_cam_candidate
  <2>2. answer'.by = r.sha /\ answer'.test = t
    BY <2>1
  <2> QED
    BY <2>1, <2>2 DEF CandidateInv
<1>8. ASSUME NEW r \in Reviews, InitDraft(r) \/ FinalizeCommand(r) \/ ValidateCommand(r)
      PROVE  CandidateInv'
  BY <1>1, <1>8 DEF InitDraft, FinalizeCommand, ValidateCommand
<1>9. ASSUME NEW section, NEW option, Edit(section, option) PROVE CandidateInv'
  BY <1>1, <1>9 DEF Edit
<1>10. ASSUME NEW d, PlaceProfile(d) PROVE CandidateInv'
  BY <1>1, <1>10 DEF PlaceProfile
<1>11. CASE UNCHANGED candidateVars
  BY <1>1, <1>11 DEF candidateVars
<1> QED
  BY <1>2, <1>3, <1>4, <1>5, <1>6, <1>7, <1>8, <1>9, <1>10, <1>11 DEF CandidateNext

\* What a verified package says of its own parts.
LEMMA VerifiedCandidate ==
    ASSUME NEW c, NEW review, NEW source, NEW test,
           read_and_verify_cam_candidate_package(c, review, source, test)
    PROVE  LET d == c.docs
           IN  /\ d.toolpaths.operations = OperationsDocument(review)
               /\ d.programs = postprocess(d.post, d.toolpaths)
               /\ \A n \in DOMAIN d.programs : d.programs[n].order = n
               /\ d.instructions = SetupInstructions(d.toolpaths, d.programs, d.profile, d.post)
               /\ d.toolpaths.context = build_execution_context(d.profile.payload)
               /\ MachineProfileBound(d.toolpaths, d.post)
               /\ ContextAgrees(d.toolpaths.context)
               /\ AcceptanceHolds(d.profile.payload, test)
<1> DEFINE d == c.docs
           programs == ProgramsFromIndex(c)
<1>1. d.toolpaths.operations = OperationsDocument(review)
  BY DEF read_and_verify_cam_candidate_package, CandidateSourcesHold, ToolpathsBound
<1>2. ProgramsHold(d.toolpaths, programs, d.post)
  BY DEF read_and_verify_cam_candidate_package, MembersHold
<1>3. d = Derived(review, d.toolpaths, programs, d.profile, d.post)
  BY DEF read_and_verify_cam_candidate_package, ProjectionsHold
<1>4. ProfilesHold(c, test)
  BY DEF read_and_verify_cam_candidate_package
<1> HIDE DEF d, programs
<1>5. d.programs = programs
        /\ d.instructions = SetupInstructions(d.toolpaths, programs, d.profile, d.post)
  BY <1>3 DEF Derived
<1>6. programs = postprocess(d.post, d.toolpaths)
        /\ \A n \in DOMAIN programs : programs[n].order = n
  BY <1>2 DEF ProgramsHold
<1>7. /\ d.toolpaths.context = build_execution_context(d.profile.payload)
      /\ MachineProfileBound(d.toolpaths, d.post)
      /\ load_production_machine_profile(d.profile, test)
  BY <1>4 DEF ProfilesHold, ProfileBound, d
<1>8. ContextAgrees(d.toolpaths.context) /\ AcceptanceHolds(d.profile.payload, test)
  BY <1>7 DEF load_production_machine_profile, ExecutionContextHolds
<1> QED
  BY <1>1, <1>5, <1>6, <1>7, <1>8 DEF d

\* A machine program names the rows of the plan's context.
LEMMA ProgramRows ==
    ASSUME NEW post, NEW document, NEW n \in DOMAIN document.programs,
           MachineProfileBound(document, post), ContextAgrees(document.context),
           NEW s \in document.context.setups, s.id = document.programs[n].setup,
           NEW t \in document.context.tools, t.id = document.programs[n].tool
    PROVE  LET p == postprocess(post, document)[n]
           IN  /\ p.setup = s.id /\ p.rpm = document.programs[n].rpm
               /\ p.operations = document.programs[n].operations
               /\ p.wcs = s.wcs /\ p.origin = s.origin
               /\ p.number = t.number /\ p.offset = t.offset
<1> DEFINE p == postprocess(post, document)[n]
           bs == BoundSetup(document.context, document.programs[n].setup)
           bt == CHOOSE tool \in document.context.tools : tool.id = document.programs[n].tool
<1>1. \A a, b \in document.context.setups : a.id = b.id => a = b
  BY DEF ContextAgrees, Unique
<1>2. \A a, b \in document.context.tools : a.id = b.id => a = b
  BY DEF ContextAgrees, Unique
<1>3. bs \in document.context.setups /\ bs.id = s.id
  BY DEF BoundSetup
<1>4. bt \in document.context.tools /\ bt.id = t.id
  OBVIOUS
<1>5. bs = s /\ bt = t
  BY <1>1, <1>2, <1>3, <1>4
<1>6. p = [order |-> document.programs[n].order, setup |-> document.programs[n].setup,
           tool |-> document.programs[n].tool, source |-> document, post |-> post,
           wcs |-> bs.wcs, origin |-> post.offsets[bs.wcs], number |-> bt.number,
           offset |-> bt.offset, rpm |-> document.programs[n].rpm,
           operations |-> document.programs[n].operations]
  BY DEF postprocess
<1>7. post.offsets[s.wcs] = s.origin
  BY DEF MachineProfileBound
<1> HIDE DEF p, bs, bt
<1>8. /\ p.setup = s.id /\ p.rpm = document.programs[n].rpm
      /\ p.operations = document.programs[n].operations
      /\ p.wcs = s.wcs /\ p.origin = s.origin
      /\ p.number = t.number /\ p.offset = t.offset
  BY <1>5, <1>6, <1>7
<1> QED
  BY <1>8 DEF p

LEMMA CandidateInvImplies == CandidateInv => WorkshopRunsWhatWasReviewed
<1> SUFFICES ASSUME CandidateInv, answer.accepted PROVE WorkshopRunsWhatWasReviewed
  BY DEF WorkshopRunsWhatWasReviewed
<1>1. PICK review \in Reviews, producer \in Identities :
        /\ answer.by = review.sha
        /\ read_and_verify_cam_candidate_package(candidate, review, producer.source, answer.test)
  BY DEF CandidateInv
<1>2. ReviewNamed(answer.by) = review
  BY <1>1, ReviewsArePlans DEF ReviewNamed, Unique
<1> DEFINE d == candidate.docs
           tp == d.toolpaths
           facts == d.profile.payload
<1>3. Drawn(tp)
  BY DEF CandidateInv
<1>4. /\ tp.operations = OperationsDocument(review)
      /\ d.programs = postprocess(d.post, tp)
      /\ \A n \in DOMAIN d.programs : d.programs[n].order = n
      /\ d.instructions = SetupInstructions(tp, d.programs, d.profile, d.post)
      /\ tp.context = build_execution_context(facts)
      /\ MachineProfileBound(tp, d.post)
      /\ ContextAgrees(tp.context)
      /\ AcceptanceHolds(facts, answer.test)
  BY <1>1, VerifiedCandidate
<1> HIDE DEF d, tp, facts
<1>5. tp.context.setups = facts.setups /\ tp.context.tools = facts.tools
        /\ tp.context.recipes = facts.recipes
  BY <1>4 DEF build_execution_context
<1>6. tp.operations.operations = review.operations
        /\ \A id : SetupNamed(tp.operations, id) = SetupNamed(review, id)
  BY <1>4 DEF OperationsDocument, SetupNamed
<1>7. DOMAIN d.programs = DOMAIN tp.programs
  BY <1>4 DEF postprocess
<1>8. ASSUME NEW o \in review.operations
      PROVE  CutAsReviewed(review, d, o)
  <2>1. PICK n \in DOMAIN tp.programs :
          /\ \A m \in DOMAIN tp.programs : o.id \in tp.programs[m].operations <=> m = n
          /\ tp.programs[n].setup = o.setup
          /\ \E t \in tp.context.tools : t.source = o.tool /\ tp.programs[n].tool = t.id
          /\ \E r \in tp.context.recipes : r.kind = o.kind /\ tp.programs[n].rpm = r.rpm
    BY <1>3, <1>6 DEF Drawn, CutsOnce
  <2>2. PICK t \in tp.context.tools : t.source = o.tool /\ tp.programs[n].tool = t.id
    BY <2>1
  <2>3. PICK s \in tp.context.setups : s.id = o.setup
    BY <1>3, <1>6 DEF Drawn
  <2> DEFINE p == d.programs[n]
  <2>4. /\ p.setup = s.id /\ p.rpm = tp.programs[n].rpm
        /\ p.operations = tp.programs[n].operations
        /\ p.wcs = s.wcs /\ p.origin = s.origin
        /\ p.number = t.number /\ p.offset = t.offset
    BY <2>1, <2>2, <2>3, <1>4, ProgramRows
  <2>5. \A m \in DOMAIN d.programs : d.programs[m].operations = tp.programs[m].operations
    BY <1>4, <1>7, SMTT(60) DEF postprocess
  <2> HIDE DEF p
  <2>6. {q \in Rows(d.programs) : o.id \in q.operations} = {p}
    BY <2>1, <2>5, <1>7 DEF Rows, p
  <2>7. Cardinality({p}) = 1
    BY FS_Singleton
  <2>8. s.hash = SetupNamed(review, o.setup)
    BY <2>3, <1>3, <1>6 DEF Drawn
  <2> QED
    BY <2>1, <2>2, <2>3, <2>4, <2>6, <2>7, <2>8, <1>5, ZenonT(60) DEF CutAsReviewed, facts
<1>9. ASSUME NEW s \in facts.setups
      PROVE  OperatorIsTold(d, s)
  <2>1. SetupRow(s, d.programs) \in d.instructions.setups
    BY <1>4, <1>5 DEF SetupInstructions
  <2>2. /\ SetupRow(s, d.programs).setup = s.id /\ SetupRow(s, d.programs).origin = s.origin
        /\ SetupRow(s, d.programs).material = MaterialBinding(s)
        /\ SetupRow(s, d.programs).orders = ProgramsOfSetup(d.programs, s.id)
    BY DEF SetupRow
  <2>3. ProgramsOfSetup(d.programs, s.id) =
          {p.order : p \in {q \in Rows(d.programs) : q.setup = s.id}}
    BY <1>4 DEF ProgramsOfSetup, Rows
  <2> QED
    BY <2>1, <2>2, <2>3 DEF OperatorIsTold
<1>10. answer.test \/ facts.acceptance.status = "WORKSHOP_ACCEPTED"
  BY <1>4 DEF AcceptanceHolds
<1> QED
  BY <1>2, <1>8, <1>9, <1>10 DEF WorkshopRunsWhatWasReviewed, d, facts

\* Whatever is put into a candidate on its way, a package that
\* read_and_verify_cam_candidate_package accepts cuts each reviewed operation once, on
\* its setup, where the profile says the sheet lies, with the mapped tool, at the speed
\* of a recipe of its kind, and its instructions say the same.
THEOREM WorkshopRuns == CandidateSpec => []WorkshopRunsWhatWasReviewed
BY CandidateInvInit, CandidateInvStep, CandidateInvImplies, PTL DEF CandidateSpec

-----------------------------------------------------------------------------
(***************************************************************************)
(* What the authoring tool declares ready, the compiler builds: the dry    *)
(* run, the generator, the builder and the verifier agree on a profile     *)
(* although each checks it in its own way.                                 *)
(***************************************************************************)

\* The programs cut the operations of the review and nothing else.
LEMMA PlanCutsAll ==
    ASSUME NEW review, NEW context, Plannable(review, context)
    PROVE  UNION {p.operations : p \in Rows(PlannedPrograms(context, review))}
              = {o.id : o \in review.operations}
<1> DEFINE P == PlannedPrograms(context, review)
<1>1. \A n \in DOMAIN P : P[n].operations \subseteq {o.id : o \in review.operations}
  BY PlannedProgram
<1>2. \A o \in review.operations : \E n \in DOMAIN P : o.id \in P[n].operations
  BY PlannedOnce
<1> HIDE DEF P
<1>3. UNION {p.operations : p \in Rows(P)} = {o.id : o \in review.operations}
  BY <1>1, <1>2 DEF Rows
<1> QED
  BY <1>3 DEF P

\* A program is of the setup its key names, and so is one between two of a setup.
LEMMA PlannedSetup ==
    ASSUME NEW review, NEW context, Plannable(review, context),
           NEW n \in DOMAIN PlannedPrograms(context, review)
    PROVE  LET k == Groups(context, review)[n]
           IN  /\ k \in Keys
               /\ k[1] = SetupIndex(review, PlannedPrograms(context, review)[n].setup)
               /\ PlannedPrograms(context, review)[n].setup = review.setups[k[1]].id
<1> DEFINE keys == PlanKeys(context, review)
           k == Groups(context, review)[n]
           p == PlannedPrograms(context, review)[n]
<1>a. keys \in SUBSET Keys /\ IsFiniteSet(keys)
  BY PlanKeysAreKeys
<1>1. k \in keys
  BY <1>a, PlannedDomain, GroupsAreRankedKeys, RankedKeysInOrder DEF IsRanking
<1>2. PICK o \in review.operations : k = RecipeGroup(context, review, o)
  BY <1>1 DEF PlanKeys
<1>3. k \in Keys /\ k[1] = SetupIndex(review, o.setup) /\ review.setups[k[1]].id = o.setup
  BY <1>2, KeyOfOperation
<1>4. p.setup = review.setups[k[1]].id
  BY PlannedProgram
<1> QED
  BY <1>3, <1>4

LEMMA GroupsGoUp ==
    ASSUME NEW review, NEW context, Plannable(review, context),
           NEW m \in DOMAIN PlannedPrograms(context, review),
           NEW n \in DOMAIN PlannedPrograms(context, review), m <= n
    PROVE  Groups(context, review)[m][1] <= Groups(context, review)[n][1]
<1> DEFINE keys == PlanKeys(context, review)
           G == Groups(context, review)
<1>1. keys \in SUBSET Keys /\ IsFiniteSet(keys) /\ Cardinality(keys) \in Nat
  BY PlanKeysAreKeys, FS_CardinalityType
<1>2. G = Ranked(keys) /\ DOMAIN G = DOMAIN PlannedPrograms(context, review)
  BY <1>1, PlannedDomain, GroupsAreRankedKeys, RankedKeysInOrder DEF IsRanking
<1> HIDE DEF keys, G
<1>3. G[m] \in keys /\ G[n] \in keys /\ (m < n => <<G[m], G[n]>> \in KeyOrder)
  BY <1>1, <1>2, RankedKeysInOrder DEF IsRanking, Ascends
<1>4. G[m][1] <= G[n][1]
  <2>1. G[m] \in Keys /\ G[n] \in Keys
    BY <1>1, <1>3
  <2>2. G[m][1] \in Int /\ G[n][1] \in Int
    BY <2>1 DEF Keys
  <2>3. CASE m = n
    BY <2>2, <2>3
  <2>4. CASE m < n
    <3>1. KeyBefore(G[m], G[n])
      BY <1>1, <1>3, <2>4, KeyOrderIsStrict
    <3> QED
      BY <2>1, <2>2, <3>1, KeyBeforeUnfolds
  <2>5. m \in Int /\ n \in Int
    BY <1>1, PlannedDomain DEF keys
  <2> QED
    BY <2>3, <2>4, <2>5
<1> QED
  BY <1>4 DEF G

LEMMA PlannedInOneVisit ==
    ASSUME NEW review, NEW context, Plannable(review, context), NEW post
    PROVE  SetupsInOneVisit(toolpaths_generate(review, context),
                            postprocess(post, toolpaths_generate(review, context)))
<1> DEFINE tp == toolpaths_generate(review, context)
           P == PlannedPrograms(context, review)
           programs == postprocess(post, tp)
           G == Groups(context, review)
<1>1. tp.programs = P /\ tp.context = context
  BY DEF toolpaths_generate
<1>2. DOMAIN programs = DOMAIN P /\ \A n \in DOMAIN P : programs[n].setup = P[n].setup
  BY <1>1 DEF postprocess
<1>3. DOMAIN P = 1 .. Cardinality(PlanKeys(context, review))
        /\ Cardinality(PlanKeys(context, review)) \in Nat
  BY PlannedDomain, PlanKeysAreKeys, FS_CardinalityType
<1>4. \A n \in DOMAIN P : G[n][1] \in Int /\ G[n][1] = SetupIndex(review, P[n].setup)
                            /\ P[n].setup = review.setups[G[n][1]].id
  BY PlannedSetup DEF Keys
<1>5. \A m, n \in DOMAIN P : m <= n => G[m][1] <= G[n][1]
  BY GroupsGoUp
<1>6. ASSUME NEW s \in context.setups PROVE ProgramsOfSetup(programs, s.id) # {}
  <2>1. s.id \in {q.id : q \in Rows(review.setups)}
    BY DEF Plannable, CanGenerate, ReviewBound
  <2>2. PICK o \in review.operations : o.setup = s.id
    BY <2>1, ReviewsArePlans DEF Plannable
  <2>3. PICK n \in DOMAIN P : G[n] = RecipeGroup(context, review, o)
    BY PlannedOnce
  <2>4. P[n].setup = s.id
    BY <2>2, <2>3, <1>4, KeyOfOperation
  <2> QED
    BY <2>4, <1>2 DEF ProgramsOfSetup
<1> HIDE DEF tp, P, programs, G
<1>7. ASSUME NEW s \in context.setups, NEW i \in ProgramsOfSetup(programs, s.id),
             NEW j \in ProgramsOfSetup(programs, s.id), NEW n \in i .. j
      PROVE  n \in ProgramsOfSetup(programs, s.id)
  <2>1. i \in DOMAIN P /\ j \in DOMAIN P /\ P[i].setup = s.id /\ P[j].setup = s.id
    BY <1>2 DEF ProgramsOfSetup
  <2>2. i \in Nat /\ j \in Nat /\ n \in DOMAIN P /\ i <= n /\ n <= j
    BY <2>1, <1>3
  <2>3. G[i][1] <= G[n][1] /\ G[n][1] <= G[j][1] /\ G[i][1] = G[j][1]
    BY <2>1, <2>2, <1>4, <1>5
  <2>4. G[n][1] = G[i][1]
    BY <2>1, <2>2, <2>3, <1>4
  <2>5. P[n].setup = s.id
    BY <2>1, <2>2, <2>4, <1>4
  <2> QED
    BY <2>2, <2>5, <1>2 DEF ProgramsOfSetup
<1>8. SetupsInOneVisit(tp, programs)
  BY <1>1, <1>6, <1>7 DEF SetupsInOneVisit
<1> QED
  BY <1>8 DEF tp, programs

\* What a document says that passed validation against a review.
Validated(review, profile) == review \in Reviews /\ validate_profile_bytes(review, profile)

LEMMA ValidatedIsLoaded ==
    ASSUME NEW review, NEW profile, Validated(review, profile)
    PROVE  /\ VerifiedBase(review) /\ TrustedMachine(review)
           /\ \A test \in BOOLEAN : load_production_machine_profile(profile, test)
           /\ profile.payload.class # "TEST_ONLY"
           /\ Generates(review, profile)
           /\ Plannable(review, build_execution_context(profile.payload))
           /\ profile.payload.machine.source = review.machine
           /\ MachineProfileBound(ToolpathsFor(review, profile), profile.payload.post)
<1> DEFINE context == build_execution_context(profile.payload)
<1>1. review \in Reviews /\ VerifiedBase(review) /\ DryRun(review, profile)
  BY DEF Validated, validate_profile_bytes
<1>2. load_production_machine_profile(profile, FALSE) /\ Generates(review, profile)
  BY <1>1 DEF DryRun, Generates, ToolpathsFor
<1>3. profile.payload.class = "SERVER_OWNED"
        /\ \A test \in BOOLEAN : AcceptanceHolds(profile.payload, test)
  BY <1>2 DEF load_production_machine_profile, AcceptanceHolds
<1>4. \A test \in BOOLEAN : load_production_machine_profile(profile, test)
  BY <1>2, <1>3 DEF load_production_machine_profile
<1>5. Plannable(review, context)
  BY <1>1, <1>2, LoadedIsPlannable DEF VerifiedBase
<1>6. TrustedMachine(review) /\ context.source = review.machine
  BY <1>5 DEF Plannable, CanGenerate, ReviewBound
<1>7. context.source = profile.payload.machine.source
  BY DEF build_execution_context
<1>8. CrossChecked(profile.payload)
  BY <1>2 DEF load_production_machine_profile, ExecutionContextHolds
<1>9. ToolpathsFor(review, profile).context = context
  BY DEF ToolpathsFor, toolpaths_generate
<1>10. MachineProfileBound(ToolpathsFor(review, profile), profile.payload.post)
  BY <1>8, <1>9 DEF CrossChecked, MachineProfileBound, build_execution_context
<1> QED
  BY <1>1, <1>2, <1>3, <1>4, <1>5, <1>6, <1>7, <1>10

LEMMA ValidatedProgramsHold ==
    ASSUME NEW review, NEW profile, Validated(review, profile)
    PROVE  LET tp == ToolpathsFor(review, profile)
               programs == ProgramsFor(review, profile)
           IN  /\ ToolpathsBound(tp, review)
               /\ CuttingVerified(tp, OperationsDocument(review))
               /\ ProfileBound(tp, profile)
               /\ ProgramsHold(tp, programs, profile.payload.post)
               /\ SetupsInOneVisit(tp, programs)
<1> DEFINE context == build_execution_context(profile.payload)
           tp == ToolpathsFor(review, profile)
           post == profile.payload.post
           programs == ProgramsFor(review, profile)
           N == Cardinality(PlanKeys(context, review))
<1>0. Plannable(review, context)
  BY ValidatedIsLoaded
<1>1. /\ tp = toolpaths_generate(review, context) /\ programs = postprocess(post, tp)
      /\ tp.design = review.design /\ tp.operations = OperationsDocument(review)
      /\ tp.context = context /\ tp.programs = PlannedPrograms(context, review)
      /\ tp.motion = "planned"
  BY DEF ToolpathsFor, toolpaths_generate, ProgramsFor
<1>2. ToolpathsBound(tp, review)
  <2>1. context.source = review.machine
    BY ValidatedIsLoaded DEF build_execution_context
  <2> QED
    BY <1>1, <2>1 DEF ToolpathsBound
<1>3. CuttingVerified(tp, OperationsDocument(review))
  <2>1. OperationsDocument(review).operations = review.operations
    BY DEF OperationsDocument
  <2> QED
    BY <2>1, <1>0, <1>1, PlanCutsAll DEF CuttingVerified
<1>4. ProfileBound(tp, profile)
  BY <1>1, ValidatedIsLoaded DEF ProfileBound
<1>5. SetupsInOneVisit(tp, programs)
  BY <1>0, <1>1, PlannedInOneVisit
<1>6. /\ DOMAIN tp.programs = 1 .. N /\ DOMAIN programs = 1 .. N
      /\ tp.programs = [n \in 1 .. N |-> tp.programs[n]]
      /\ programs = [n \in 1 .. N |-> programs[n]]
      /\ \A n \in 1 .. N : programs[n].order = tp.programs[n].order
  <2>1. DOMAIN tp.programs = 1 .. N
    BY <1>1, PlannedDomain
  <2>2. tp.programs = [n \in DOMAIN tp.programs |-> tp.programs[n]]
    BY <1>1 DEF PlannedPrograms
  <2>3. /\ DOMAIN programs = DOMAIN tp.programs
        /\ programs = [n \in DOMAIN tp.programs |-> programs[n]]
        /\ \A n \in DOMAIN tp.programs : programs[n].order = tp.programs[n].order
    BY <1>1, SMTT(60) DEF postprocess
  <2> QED
    BY <2>1, <2>2, <2>3
<1>7. N \in Nat /\ N # 0
  <2>1. IsFiniteSet(PlanKeys(context, review))
    BY <1>0, PlanKeysAreKeys
  <2>2. PlanKeys(context, review) # {}
    <3>1. context.tools # {} /\ {t.source : t \in context.tools} = OperationTools(review)
      BY <1>0 DEF Plannable, ContextAgrees, CanGenerate, ReviewBound
    <3>2. review.operations # {}
      BY <3>1 DEF OperationTools
    <3> QED
      BY <3>2 DEF PlanKeys
  <2> QED
    BY <2>1, <2>2, FS_CardinalityType, FS_EmptySet
<1>8. \A n \in 1 .. N : tp.programs[n].order = n
  <2>1. \A n \in DOMAIN PlannedPrograms(context, review) :
            PlannedPrograms(context, review)[n].order = n
    BY PlannedProgram
  <2> HIDE DEF N, context, tp, programs, post
  <2> QED
    BY <2>1, <1>1, <1>6
<1> HIDE DEF N, context, tp, programs, post
<1>9. ProgramsHold(tp, programs, post)
  <2>1. Len(programs) = N /\ Len(tp.programs) = N
    BY <1>6, <1>7, LenOfFunction
  <2>2. programs # <<>>
    BY <1>6, <1>7
  <2>3. MachineProfileBound(tp, post)
    BY ValidatedIsLoaded DEF tp, post
  <2> QED
    BY <2>1, <2>2, <2>3, <1>1, <1>6, <1>8 DEF ProgramsHold
<1> QED
  BY <1>2, <1>3, <1>4, <1>5, <1>9 DEF tp, programs, post

\* The programs are read back from the index as they were written.
LEMMA IndexReadsBack ==
    ASSUME NEW c, NEW review, NEW tp, NEW post, NEW profile,
           c.docs = Derived(review, tp, postprocess(post, tp), profile, post)
    PROVE  ProgramsFromIndex(c) = postprocess(post, tp)
<1> DEFINE programs == postprocess(post, tp)
           index == c.docs.index.programs
<1>1. index = [n \in DOMAIN programs |-> IndexEntry(programs[n], tp)]
  BY DEF Derived, ProgramIndex
<1>2. ProgramsFromIndex(c) = [n \in DOMAIN index |->
                                [index[n].program EXCEPT !.order = index[n].order]]
  BY DEF ProgramsFromIndex
<1>3. ASSUME NEW n \in DOMAIN programs
      PROVE  [index[n].program EXCEPT !.order = index[n].order] = programs[n]
  <2>1. index[n].program = programs[n] /\ index[n].order = programs[n].order
    BY <1>1 DEF IndexEntry
  <2>2. DOMAIN programs = DOMAIN tp.programs
    BY DEF postprocess
  <2>3. PICK setup, wcs, origin, number, offset, tool, rpm, operations, order :
          programs[n] = [order |-> order, setup |-> setup, tool |-> tool, source |-> tp,
                         post |-> post, wcs |-> wcs, origin |-> origin, number |-> number,
                         offset |-> offset, rpm |-> rpm, operations |-> operations]
    BY <2>2 DEF postprocess
  <2> HIDE DEF programs, index
  <2>4. [programs[n] EXCEPT !.order = programs[n].order] = programs[n]
    BY <2>3
  <2> QED
    BY <2>1, <2>4
<1>4. programs = [n \in DOMAIN programs |-> programs[n]]
  BY DEF postprocess
<1> HIDE DEF programs, index
<1>5. DOMAIN index = DOMAIN programs
  BY <1>1
<1>6. ProgramsFromIndex(c) = programs
  BY <1>2, <1>3, <1>4, <1>5
<1> QED
  BY <1>6 DEF programs

LEMMA ValidatedBuildVerifies ==
    ASSUME NEW review, NEW profile, Validated(review, profile),
           NEW identity, identity # NoIdentity, identity.vcs = "digest", NEW test \in BOOLEAN
    PROVE  read_and_verify_cam_candidate_package(BuildOf(review, profile, identity), review,
                                                 ResolvedProducer(identity).source, test)
<1> DEFINE c == BuildOf(review, profile, identity)
           tp == ToolpathsFor(review, profile)
           post == profile.payload.post
           programs == ProgramsFor(review, profile)
           context == build_execution_context(profile.payload)
           d == Derived(review, tp, programs, profile, post)
<1>1. /\ c.docs = d
      /\ c.manifest = Manifest(review, d, BuildProvenance(ResolvedProducer(identity)))
      /\ programs = postprocess(post, tp)
  BY DEF BuildOf, Assembled, ProgramsFor
<1>2. /\ d.operations = OperationsDocument(review) /\ d.source = SourceMachineProfile(review)
      /\ d.toolpaths = tp /\ d.programs = programs /\ d.profile = profile /\ d.post = post
  BY DEF Derived
<1>3. /\ c.manifest.base = BaseBinding(review) /\ c.manifest.artifacts = d
      /\ c.manifest.provenance = BuildProvenance(ResolvedProducer(identity))
  BY <1>1 DEF Manifest
<1>4. ProgramsFromIndex(c) = programs
  BY <1>1, IndexReadsBack
<1>5. ResolvedProducer(identity) = identity
  BY DEF ResolvedProducer
<1>6. /\ ToolpathsBound(tp, review) /\ CuttingVerified(tp, OperationsDocument(review))
      /\ ProfileBound(tp, profile) /\ ProgramsHold(tp, programs, post)
      /\ SetupsInOneVisit(tp, programs)
  BY ValidatedProgramsHold
<1>7. /\ VerifiedBase(review) /\ TrustedMachine(review) /\ review \in Reviews
      /\ load_production_machine_profile(profile, test)
      /\ MachineProfileBound(tp, post)
  BY ValidatedIsLoaded DEF Validated
<1>8. DocumentsParse(c)
  <2>1. OperationsParse(d.operations)
    BY <1>2, <1>7, ReviewsParse DEF VerifiedBase
  <2>2. tp = [design |-> review.design, operations |-> OperationsDocument(review),
              context |-> context, programs |-> PlannedPrograms(context, review),
              motion |-> "planned"]
    BY DEF ToolpathsFor, toolpaths_generate
  <2>3. DOMAIN tp = {"design", "operations", "context", "programs", "motion"}
          /\ tp.context = context /\ tp.programs = PlannedPrograms(context, review)
    BY <2>2
  <2>4. ExecutionContextParses(context)
    <3>1. DOMAIN context = {"source", "machine", "controller", "travel", "rpm", "setups",
                            "tools", "recipes"}
            /\ context.setups = profile.payload.setups /\ context.tools = profile.payload.tools
            /\ context.recipes = profile.payload.recipes
      BY DEF build_execution_context
    <3>2. PayloadParses(profile.payload) /\ ContextAgrees(context)
      BY <1>7 DEF load_production_machine_profile, ExecutionContextHolds
    <3> HIDE DEF context
    <3>3. /\ \A s \in context.setups : BoundSetupParses(s)
          /\ \A t \in context.tools : ToolBindingParses(t)
          /\ \A r \in context.recipes : RecipeRowParses(r)
      BY <3>1, <3>2 DEF PayloadParses, BoundSetupParses, ToolBindingParses, RecipeRowParses
    <3> QED
      BY <3>1, <3>2, <3>3 DEF ExecutionContextParses
  <2>5. ASSUME NEW n \in DOMAIN tp.programs PROVE ProductionProgramParses(tp.programs[n])
    <3> DEFINE k == Groups(context, review)[n]
    <3>1. PlannedPrograms(context, review)[n] =
            [order |-> n, setup |-> review.setups[k[1]].id,
             tool |-> BoundTool(context, k[3]).id, rpm |-> k[4],
             operations |-> PlannedPrograms(context, review)[n].operations,
             release |-> k[2] = 1]
      BY <2>3, PlannedProgram
    <3> HIDE DEF k, tp, context
    <3> QED
      BY <3>1, <2>3 DEF ProductionProgramParses
  <2> HIDE DEF c, d, tp, context
  <2> QED
    BY <1>1, <1>2, <2>1, <2>3, <2>4, <2>5 DEF DocumentsParse, ToolpathsParse
<1> HIDE DEF c, tp, post, programs, d
<1>9. EnvelopeHolds(c)
  BY <1>1, <1>3 DEF EnvelopeHolds
<1>10. ProvenanceAccepted(c, identity.source, test, TRUE) /\ ManifestShape(c.manifest)
  <2>1. /\ c.manifest.provenance.implementation = CurrentImplementation
        /\ c.manifest.provenance.producer = identity
        /\ c.manifest.provenance.root = identity.source
    BY <1>3, <1>5 DEF BuildProvenance
  <2>2. CurrentImplementation \in SupportedImplementations
          /\ CurrentImplementation \in DOMAIN VerificationDispatch
    BY DEF SupportedImplementations, VerificationDispatch
  <2> QED
    BY <2>1, <2>2 DEF ProvenanceAccepted, ProvenanceHolds, IdentityParses, ManifestShape
<1>11. CandidateSourcesHold(c, review)
  BY <1>1, <1>2, <1>3, <1>6, <1>7 DEF CandidateSourcesHold
<1>12. ProfilesHold(c, test)
  BY <1>1, <1>2, <1>6, <1>7 DEF ProfilesHold, post
<1>13. MembersHold(c)
  BY <1>1, <1>2, <1>4, <1>6 DEF MembersHold
<1>14. ProjectionsHold(c, review)
  <2>1. d = Derived(review, tp, programs, profile, post)
    BY DEF d
  <2> QED
    BY <2>1, <1>1, <1>2, <1>4, <1>6 DEF ProjectionsHold
<1>15. ManifestRebuilds(c, review)
  BY <1>1, <1>3 DEF ManifestRebuilds
<1> QED
  BY <1>5, <1>7, <1>8, <1>9, <1>10, <1>11, <1>12, <1>13, <1>14, <1>15
     DEF read_and_verify_cam_candidate_package, c

LEMMA ValidatedCompiles ==
    ASSUME NEW review, NEW profile, Validated(review, profile),
           NEW i, i # NoIdentity, i.vcs = "digest", IsLocalSource(i)
    PROVE  CanCompile(review, profile, i, FALSE)
<1>1. /\ VerifiedBase(review) /\ TrustedMachine(review)
      /\ load_production_machine_profile(profile, FALSE)
      /\ profile.payload.class # "TEST_ONLY" /\ Generates(review, profile)
  BY ValidatedIsLoaded
<1>2. CompilerAccepts(profile, i, FALSE) /\ ProducerResolves(i, FALSE)
  BY DEF CompilerAccepts, ProducerResolves, IdentityParses
<1>3. read_and_verify_cam_candidate_package(BuildOf(review, profile, i), review,
                                            ResolvedProducer(i).source, FALSE)
  BY ValidatedBuildVerifies
<1>4. (profile.payload.class = "TEST_ONLY") = FALSE
  BY <1>1
<1>5. CanBuild(review, ToolpathsFor(review, profile), ProgramsFor(review, profile), profile, i)
  BY <1>1, <1>2, <1>3, <1>4, ValidatedProgramsHold DEF CanBuild, BuildOf
<1> QED
  BY <1>1, <1>2, <1>3, <1>5 DEF CanCompile

\* Every receipt is of a document that passed validation against its review.
ReceiptsInv ==
    \A ready \in receipts : \E review \in Reviews :
        ready[1] = review.sha /\ Validated(review, ready[2])

LEMMA ReceiptsInvStep ==
    ReceiptsInv /\ [CandidateNext]_candidateVars => ReceiptsInv'
<1> SUFFICES ASSUME ReceiptsInv, [CandidateNext]_candidateVars PROVE ReceiptsInv'
  OBVIOUS
<1>1. CASE UNCHANGED receipts
  BY <1>1 DEF ReceiptsInv
<1>2. ASSUME NEW r \in Reviews, FinalizeCommand(r) PROVE ReceiptsInv'
  <2>1. Validated(r, deployed') /\ receipts' = receipts \cup {<<r.sha, deployed'>>}
    BY <1>2 DEF FinalizeCommand, CanFinalize, Validated
  <2> QED
    BY <2>1 DEF ReceiptsInv
<1>3. ASSUME NEW r \in Reviews, ValidateCommand(r) PROVE ReceiptsInv'
  <2>1. Validated(r, deployed) /\ receipts' = receipts \cup {<<r.sha, deployed>>}
    BY <1>3 DEF ValidateCommand, Validated
  <2> QED
    BY <2>1 DEF ReceiptsInv
<1>4. CASE ~(\E r \in Reviews : FinalizeCommand(r) \/ ValidateCommand(r))
  BY <1>4, <1>1 DEF CandidateNext, candidateVars, InitDraft, Compile, WorkerBuild, Accept, Edit,
                    PlaceProfile, Substitute, Rederive, Redraw
<1> QED
  BY <1>2, <1>3, <1>4

LEMMA ReceiptsInvImplies == ReceiptsInv => ReadyProfilesCompile
<1> SUFFICES ASSUME ReceiptsInv, NEW ready \in receipts
             PROVE  \E i \in Identities : CanCompile(ReviewNamed(ready[1]), ready[2], i, FALSE)
  BY DEF ReadyProfilesCompile
<1>1. PICK review \in Reviews : ready[1] = review.sha /\ Validated(review, ready[2])
  BY DEF ReceiptsInv
<1>2. ReviewNamed(ready[1]) = review
  BY <1>1, ReviewsArePlans DEF ReviewNamed, Unique
<1>3. PICK i \in Identities : i # NoIdentity /\ i.vcs = "digest" /\ IsLocalSource(i)
  BY LocalIdentity
<1> QED
  BY <1>1, <1>2, <1>3, ValidatedCompiles

\* Every profile that finalize or validate_profile_bytes declares ready for a review is
\* one the compiler turns into a candidate for it.
THEOREM ReadyCompiles == CandidateSpec => []ReadyProfilesCompile
<1>1. CandidateInit => ReceiptsInv
  BY DEF CandidateInit, ReceiptsInv
<1> QED
  BY <1>1, ReceiptsInvStep, ReceiptsInvImplies, PTL DEF CandidateSpec
=============================================================================
