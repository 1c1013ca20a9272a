------------------------------ MODULE FiniteSums ------------------------------
(***************************************************************************)
(* Sums over finite sets, as the ledger and the transient byte budget take *)
(* them (SumFunctionOnSet and MapThenSumSet of the community modules).     *)
(* Induction over a finite set is an argument about a minimal              *)
(* counterexample: strict inclusion is well-founded on its subsets.        *)
(***************************************************************************)
EXTENDS Integers, FiniteSets, FiniteSetsExt, Functions, FiniteSetTheorems,
        WellFoundedInduction, TLAPS

\* The recursion the sum over S is defined by: g is the sum over each subset of S.
Pick(s) == CHOOSE x \in s : TRUE
Sums(f, S, g) ==
    g = [s \in SUBSET S |-> IF s = {} THEN 0 ELSE f[Pick(s)] + g[s \ {Pick(s)}]]

\* A set of subsets of a finite set has a member minimal for inclusion.
LEMMA MinimalSubset ==
    ASSUME NEW S, IsFiniteSet(S), NEW B, B \subseteq SUBSET S, B # {}
    PROVE  \E m \in B : \A u \in B : u \subseteq m => u = m
<1>1. IsWellFoundedOn(StrictSubsetOrdering(S), SUBSET S)
  BY FS_StrictSubsetOrderingWellFounded, FS_FiniteSubsetsOfFinite
<1>2. PICK m \in B : \A u \in B : ~(<<u, m>> \in StrictSubsetOrdering(S))
  BY <1>1, WFMin
<1>3. QED
  BY <1>2 DEF StrictSubsetOrdering

\* The sum is what a function satisfying that recursion gives for S.
LEMMA SumIsItsRecursion ==
    ASSUME NEW f, NEW S
    PROVE  SumFunctionOnSet(f, S) = (CHOOSE g : Sums(f, S, g))[S]
BY DEF SumFunctionOnSet, FoldFunctionOnSet, MapThenFoldSet, Sums, Pick

\* The sum of projections is the sum of the function that projects.
LEMMA MappedSum ==
    ASSUME NEW f, NEW S
    PROVE  MapThenSumSet(LAMBDA x : f[x], S) = SumFunctionOnSet(f, S)
BY DEF MapThenSumSet, SumFunctionOnSet, FoldFunctionOnSet

\* A non-empty set holds what is picked from it.
LEMMA PickedFrom ==
    ASSUME NEW s, s # {}
    PROVE  Pick(s) \in s
BY DEF Pick

\* What the recursion says of one subset.
LEMMA SumsAt ==
    ASSUME NEW f, NEW S, NEW g, Sums(f, S, g)
    PROVE  /\ g[{}] = 0
           /\ \A s \in SUBSET S : s # {} => g[s] = f[Pick(s)] + g[s \ {Pick(s)}]
<1>1. g = [s \in SUBSET S |-> IF s = {} THEN 0 ELSE f[Pick(s)] + g[s \ {Pick(s)}]]
  BY DEF Sums
<1>2. \A s \in SUBSET S : g[s] = IF s = {} THEN 0 ELSE f[Pick(s)] + g[s \ {Pick(s)}]
  BY <1>1
<1>3. {} \in SUBSET S
  OBVIOUS
<1>4. QED
  BY <1>2, <1>3

\* The recursion has one solution, whatever set it is started on.
LEMMA SumsAgree ==
    ASSUME NEW f, NEW S, NEW T, NEW g, NEW h, IsFiniteSet(S), S \subseteq T,
           Sums(f, S, g), Sums(f, T, h)
    PROVE  \A s \in SUBSET S : g[s] = h[s]
<1> DEFINE B == {s \in SUBSET S : g[s] # h[s]}
<1> SUFFICES ASSUME B # {} PROVE FALSE
  OBVIOUS
<1>0. B \subseteq SUBSET S
  OBVIOUS
<1>1. PICK m \in B : \A u \in B : u \subseteq m => u = m
  <2> HIDE DEF B
  <2> QED
    BY <1>0, MinimalSubset
<1>2. m # {}
  BY SumsAt
<1>3. Pick(m) \in m
  BY <1>2, PickedFrom
<1>4. m \ {Pick(m)} \in SUBSET S /\ m \ {Pick(m)} \notin B
  BY <1>1, <1>3
<1>5. g[m \ {Pick(m)}] = h[m \ {Pick(m)}]
  BY <1>4
<1>6. g[m] = f[Pick(m)] + g[m \ {Pick(m)}] /\ h[m] = f[Pick(m)] + h[m \ {Pick(m)}]
  BY <1>2, SumsAt
<1>7. QED
  BY <1>5, <1>6

\* The recursion has a solution on every finite set.
LEMMA SumsExist ==
    ASSUME NEW f, NEW T, IsFiniteSet(T)
    PROVE  \E g : Sums(f, T, g)
<1> DEFINE B == {s \in SUBSET T : ~\E g : Sums(f, s, g)}
           Of(u) == CHOOSE g : Sums(f, u, g)
<1> SUFFICES ASSUME B # {} PROVE FALSE
  OBVIOUS
<1>0. B \subseteq SUBSET T
  OBVIOUS
<1>1. PICK m \in B : \A u \in B : u \subseteq m => u = m
  <2> HIDE DEF B
  <2> QED
    BY <1>0, MinimalSubset
<1>2. \A u \in SUBSET m : u # m => Sums(f, u, Of(u)) /\ IsFiniteSet(u)
  BY <1>1, FS_Subset
<1> DEFINE g == [s \in SUBSET m |->
                   IF s = {} THEN 0 ELSE f[Pick(s)] + Of(s \ {Pick(s)})[s \ {Pick(s)}]]
<1>3. ASSUME NEW u \in SUBSET m, u # m
      PROVE  g[u] = Of(u)[u]
  <2>1. CASE u = {}
    BY <1>2, <1>3, <2>1, SumsAt
  <2>2. CASE u # {}
    <3> DEFINE v == u \ {Pick(u)}
    <3>1. v \in SUBSET u /\ v # u /\ v \in SUBSET m /\ v # m
      BY <1>3, <2>2, PickedFrom
    <3>2. Sums(f, u, Of(u)) /\ Sums(f, v, Of(v)) /\ IsFiniteSet(v)
      BY <1>2, <1>3, <3>1
    <3>3. Of(v)[v] = Of(u)[v]
      BY <3>1, <3>2, SumsAgree
    <3>4. Of(u)[u] = f[Pick(u)] + Of(u)[v]
      BY <2>2, <3>2, SumsAt
    <3>5. g[u] = f[Pick(u)] + Of(v)[v]
      BY <2>2
    <3>6. QED
      BY <3>3, <3>4, <3>5
  <2>3. QED
    BY <2>1, <2>2
<1>4. ASSUME NEW s \in SUBSET m, s # {}
      PROVE  g[s \ {Pick(s)}] = Of(s \ {Pick(s)})[s \ {Pick(s)}]
  <2>1. s \ {Pick(s)} \in SUBSET m /\ s \ {Pick(s)} # m
    BY <1>4, PickedFrom
  <2>2. QED
    BY <1>3, <2>1
<1>5. g = [s \in SUBSET m |-> IF s = {} THEN 0 ELSE f[Pick(s)] + g[s \ {Pick(s)}]]
  <2> DEFINE body(s) == f[Pick(s)] + Of(s \ {Pick(s)})[s \ {Pick(s)}]
  <2>1. \A s \in SUBSET m : s # {} => body(s) = f[Pick(s)] + g[s \ {Pick(s)}]
    BY <1>4
  <2>2. g = [s \in SUBSET m |-> IF s = {} THEN 0 ELSE body(s)]
    OBVIOUS
  <2> HIDE DEF body, g
  <2>3. QED
    BY <2>1, <2>2
<1>6. Sums(f, m, g)
  BY <1>5 DEF Sums
<1>7. QED
  BY <1>1, <1>6

\* The sum over nothing is zero.
LEMMA SumOfNone ==
    ASSUME NEW f
    PROVE  SumFunctionOnSet(f, {}) = 0
<1>1. Sums(f, {}, CHOOSE g : Sums(f, {}, g))
  BY SumsExist, FS_EmptySet
<1>2. QED
  BY <1>1, SumsAt, SumIsItsRecursion

\* The sum takes the picked element, and what remains.
LEMMA SumPicks ==
    ASSUME NEW f, NEW S, IsFiniteSet(S), S # {}
    PROVE  SumFunctionOnSet(f, S) = f[Pick(S)] + SumFunctionOnSet(f, S \ {Pick(S)})
<1> DEFINE Of(u) == CHOOSE g : Sums(f, u, g)
           R == S \ {Pick(S)}
<1>1. IsFiniteSet(R)
  BY FS_RemoveElement
<1>2. Sums(f, S, Of(S)) /\ Sums(f, R, Of(R))
  BY <1>1, SumsExist
<1>3. Of(R)[R] = Of(S)[R]
  BY <1>1, <1>2, SumsAgree
<1>4. Of(S)[S] = f[Pick(S)] + Of(S)[R]
  BY <1>2, SumsAt
<1>5. SumFunctionOnSet(f, S) = Of(S)[S] /\ SumFunctionOnSet(f, R) = Of(R)[R]
  BY SumIsItsRecursion
<1>6. QED
  BY <1>3, <1>4, <1>5

\* A sum of integers is an integer.
LEMMA SumIsInt ==
    ASSUME NEW f, NEW S, IsFiniteSet(S), \A x \in S : f[x] \in Int
    PROVE  SumFunctionOnSet(f, S) \in Int
<1> DEFINE B == {s \in SUBSET S : SumFunctionOnSet(f, s) \notin Int}
<1> SUFFICES ASSUME B # {} PROVE FALSE
  OBVIOUS
<1>0. B \subseteq SUBSET S
  OBVIOUS
<1>1. PICK m \in B : \A u \in B : u \subseteq m => u = m
  <2> HIDE DEF B
  <2> QED
    BY <1>0, MinimalSubset
<1>2. m # {}
  BY SumOfNone
<1>3. Pick(m) \in m
  BY <1>2, PickedFrom
<1>4. SumFunctionOnSet(f, m \ {Pick(m)}) \in Int
  BY <1>1, <1>3
<1>5. IsFiniteSet(m)
  BY FS_Subset
<1>6. SumFunctionOnSet(f, m) = f[Pick(m)] + SumFunctionOnSet(f, m \ {Pick(m)})
  BY <1>2, <1>5, SumPicks
<1>7. f[Pick(m)] \in Int
  BY <1>3
<1>8. QED
  BY <1>4, <1>6, <1>7

\* A sum of natural numbers is one.
LEMMA SumIsNat ==
    ASSUME NEW f, NEW S, IsFiniteSet(S), \A x \in S : f[x] \in Nat
    PROVE  SumFunctionOnSet(f, S) \in Nat
<1> DEFINE B == {s \in SUBSET S : SumFunctionOnSet(f, s) \notin Nat}
<1> SUFFICES ASSUME B # {} PROVE FALSE
  OBVIOUS
<1>0. B \subseteq SUBSET S
  OBVIOUS
<1>1. PICK m \in B : \A u \in B : u \subseteq m => u = m
  <2> HIDE DEF B
  <2> QED
    BY <1>0, MinimalSubset
<1>2. m # {}
  BY SumOfNone
<1>3. Pick(m) \in m
  BY <1>2, PickedFrom
<1>4. SumFunctionOnSet(f, m \ {Pick(m)}) \in Nat
  BY <1>1, <1>3
<1>5. IsFiniteSet(m)
  BY FS_Subset
<1>6. SumFunctionOnSet(f, m) = f[Pick(m)] + SumFunctionOnSet(f, m \ {Pick(m)})
  BY <1>2, <1>5, SumPicks
<1>7. f[Pick(m)] \in Nat
  BY <1>3
<1>8. QED
  BY <1>4, <1>6, <1>7

\* The order of summation does not matter: any element may be taken first.
LEMMA SumTakes ==
    ASSUME NEW f, NEW S, IsFiniteSet(S), \A x \in S : f[x] \in Int, NEW a \in S
    PROVE  SumFunctionOnSet(f, S) = f[a] + SumFunctionOnSet(f, S \ {a})
<1> DEFINE Sum(s) == SumFunctionOnSet(f, s)
           B == {s \in SUBSET S : \E x \in s : Sum(s) # f[x] + Sum(s \ {x})}
<1> SUFFICES ASSUME B # {} PROVE FALSE
  OBVIOUS
<1>0. B \subseteq SUBSET S
  OBVIOUS
<1>1. PICK m \in B : \A u \in B : u \subseteq m => u = m
  <2> HIDE DEF B
  <2> QED
    BY <1>0, MinimalSubset
<1>2. PICK x \in m : Sum(m) # f[x] + Sum(m \ {x})
  OBVIOUS
<1> DEFINE c == Pick(m)
<1>3. c \in m /\ IsFiniteSet(m)
  BY <1>2, PickedFrom, FS_Subset
<1>4. Sum(m) = f[c] + Sum(m \ {c})
  BY <1>2, <1>3, SumPicks
<1>5. c # x
  BY <1>2, <1>4
<1>6. m \ {c} \notin B /\ m \ {x} \notin B
  BY <1>1, <1>2, <1>3
<1>7. Sum(m \ {c}) = f[x] + Sum((m \ {c}) \ {x})
  BY <1>2, <1>5, <1>6
<1>8. Sum(m \ {x}) = f[c] + Sum((m \ {x}) \ {c})
  BY <1>3, <1>5, <1>6
<1>9. Sum((m \ {c}) \ {x}) = Sum((m \ {x}) \ {c})
  <2>1. (m \ {c}) \ {x} = (m \ {x}) \ {c}
    OBVIOUS
  <2>2. QED
    BY <2>1
<1>10. f[c] \in Int /\ f[x] \in Int
  BY <1>2, <1>3
<1>11. Sum((m \ {x}) \ {c}) \in Int
  <2>1. (m \ {x}) \ {c} \in SUBSET S
    OBVIOUS
  <2>2. IsFiniteSet((m \ {x}) \ {c})
    BY <2>1, FS_Subset
  <2>3. QED
    BY <2>1, <2>2, SumIsInt
<1>12. \A i, j, k \in Int : i + (j + k) = j + (i + k)
  OBVIOUS
<1>13. f[c] + (f[x] + Sum((m \ {x}) \ {c})) = f[x] + (f[c] + Sum((m \ {x}) \ {c}))
  BY <1>10, <1>11, <1>12
<1> HIDE DEF Sum, c
<1>14. QED
  BY <1>2, <1>4, <1>7, <1>8, <1>9, <1>13

\* Functions that agree on a set have the same sum over it.
LEMMA SumsEqual ==
    ASSUME NEW f, NEW g, NEW S, IsFiniteSet(S), \A x \in S : f[x] = g[x]
    PROVE  SumFunctionOnSet(f, S) = SumFunctionOnSet(g, S)
<1> DEFINE B == {s \in SUBSET S : SumFunctionOnSet(f, s) # SumFunctionOnSet(g, s)}
<1> SUFFICES ASSUME B # {} PROVE FALSE
  OBVIOUS
<1>0. B \subseteq SUBSET S
  OBVIOUS
<1>1. PICK m \in B : \A u \in B : u \subseteq m => u = m
  <2> HIDE DEF B
  <2> QED
    BY <1>0, MinimalSubset
<1>2. m # {}
  BY SumOfNone
<1>3. Pick(m) \in m /\ IsFiniteSet(m)
  BY <1>2, PickedFrom, FS_Subset
<1>4. SumFunctionOnSet(f, m \ {Pick(m)}) = SumFunctionOnSet(g, m \ {Pick(m)})
  BY <1>1, <1>3
<1>5. f[Pick(m)] = g[Pick(m)]
  BY <1>3
<1>6. QED
  BY <1>2, <1>3, <1>4, <1>5, SumPicks

\* A sum of zeros is zero.
LEMMA SumOfZeros ==
    ASSUME NEW f, NEW S, IsFiniteSet(S), \A x \in S : f[x] = 0
    PROVE  SumFunctionOnSet(f, S) = 0
<1> DEFINE B == {s \in SUBSET S : SumFunctionOnSet(f, s) # 0}
<1> SUFFICES ASSUME B # {} PROVE FALSE
  OBVIOUS
<1>0. B \subseteq SUBSET S
  OBVIOUS
<1>1. PICK m \in B : \A u \in B : u \subseteq m => u = m
  <2> HIDE DEF B
  <2> QED
    BY <1>0, MinimalSubset
<1>2. m # {}
  BY SumOfNone
<1>3. Pick(m) \in m /\ IsFiniteSet(m)
  BY <1>2, PickedFrom, FS_Subset
<1>4. SumFunctionOnSet(f, m \ {Pick(m)}) = 0 /\ f[Pick(m)] = 0
  BY <1>1, <1>3
<1>5. QED
  BY <1>2, <1>3, <1>4, SumPicks

\* A sum in which one term changes.
LEMMA SumChanges ==
    ASSUME NEW f, NEW g, NEW S, IsFiniteSet(S), NEW a \in S,
           \A x \in S : f[x] \in Int /\ g[x] \in Int,
           \A x \in S \ {a} : f[x] = g[x]
    PROVE  SumFunctionOnSet(g, S) = SumFunctionOnSet(f, S) - f[a] + g[a]
<1>1. IsFiniteSet(S \ {a})
  BY FS_RemoveElement
<1>2. SumFunctionOnSet(g, S \ {a}) = SumFunctionOnSet(f, S \ {a})
  BY <1>1, SumsEqual
<1>3. /\ SumFunctionOnSet(f, S) = f[a] + SumFunctionOnSet(f, S \ {a})
      /\ SumFunctionOnSet(g, S) = g[a] + SumFunctionOnSet(g, S \ {a})
  BY SumTakes
<1>4. SumFunctionOnSet(f, S \ {a}) \in Int
  BY <1>1, SumIsInt
<1>5. f[a] \in Int /\ g[a] \in Int
  OBVIOUS
<1>6. QED
  BY <1>2, <1>3, <1>4, <1>5

\* The sum over two disjoint sets is the sum of theirs.
LEMMA SumsAdd ==
    ASSUME NEW f, NEW S, NEW T, IsFiniteSet(S), IsFiniteSet(T), S \cap T = {},
           \A x \in S \cup T : f[x] \in Int
    PROVE  SumFunctionOnSet(f, S \cup T) = SumFunctionOnSet(f, S) + SumFunctionOnSet(f, T)
<1> DEFINE Sum(s) == SumFunctionOnSet(f, s)
           B == {s \in SUBSET T : Sum(S \cup s) # Sum(S) + Sum(s)}
<1> SUFFICES ASSUME B # {} PROVE FALSE
  OBVIOUS
<1>0. B \subseteq SUBSET T
  OBVIOUS
<1>1. PICK m \in B : \A u \in B : u \subseteq m => u = m
  <2> HIDE DEF B
  <2> QED
    BY <1>0, MinimalSubset
<1>2. Sum(S) \in Int
  BY SumIsInt
<1>3. m # {}
  <2>1. Sum(S) + 0 = Sum(S)
    BY <1>2
  <2>2. Sum({}) = 0 /\ S \cup {} = S
    BY SumOfNone
  <2>3. {} \notin B
    BY <2>1, <2>2
  <2>4. QED
    BY <2>3
<1>4. PICK x \in m : TRUE
  BY <1>3
<1>5. m \ {x} \notin B
  BY <1>1
<1>6. Sum(S \cup (m \ {x})) = Sum(S) + Sum(m \ {x})
  BY <1>5
<1>7. IsFiniteSet(m) /\ IsFiniteSet(S \cup m) /\ IsFiniteSet(m \ {x})
  BY FS_Subset, FS_Union, FS_RemoveElement
<1>8. x \in S \cup m /\ x \notin S /\ \A y \in S \cup m : f[y] \in Int
  OBVIOUS
<1>9. Sum(m) = f[x] + Sum(m \ {x})
  BY <1>7, <1>8, SumTakes
<1>10. (S \cup m) \ {x} = S \cup (m \ {x})
  BY <1>8
<1>11. Sum(S \cup m) = f[x] + Sum(S \cup (m \ {x}))
  BY <1>7, <1>8, <1>10, SumTakes
<1>12. Sum(m \ {x}) \in Int /\ f[x] \in Int
  BY <1>7, <1>8, SumIsInt
<1>13. Sum(S \cup m) # Sum(S) + Sum(m)
  OBVIOUS
<1> HIDE DEF Sum
<1>14. QED
  BY <1>2, <1>6, <1>9, <1>11, <1>12, <1>13

\* What is taken out of a set is taken off its sum.
LEMMA SumsSubtract ==
    ASSUME NEW f, NEW S, NEW T, IsFiniteSet(S), T \subseteq S,
           \A x \in S : f[x] \in Int
    PROVE  SumFunctionOnSet(f, S \ T) = SumFunctionOnSet(f, S) - SumFunctionOnSet(f, T)
<1>1. IsFiniteSet(T) /\ IsFiniteSet(S \ T)
  BY FS_Subset
<1>2. (S \ T) \cup T = S /\ (S \ T) \cap T = {}
  OBVIOUS
<1>3. SumFunctionOnSet(f, S) = SumFunctionOnSet(f, S \ T) + SumFunctionOnSet(f, T)
  BY <1>1, <1>2, SumsAdd
<1>4. SumFunctionOnSet(f, S \ T) \in Int /\ SumFunctionOnSet(f, T) \in Int
  BY <1>1, SumIsInt
<1>5. QED
  BY <1>3, <1>4
=============================================================================
