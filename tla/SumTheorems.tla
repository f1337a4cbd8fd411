----------------------------- MODULE SumTheorems -----------------------------
(* Sums of natural numbers over finite sets, as SumFunctionOnSet takes them. *)
(* Its recursion chooses an element at every step; these facts do not depend *)
(* on which.  Induction is over the subsets of a finite set: a set of those  *)
(* for which a statement fails would have a minimal element (Minimal).       *)
EXTENDS Integers, Functions, FiniteSetTheorems, WellFoundedInduction, TLAPS

Some(s) == CHOOSE x \in s : TRUE

\* The recursion of SumFunctionOnSet(f, S), as an equation for a function g.
Recurs(g, f, S) ==
    g = [s \in SUBSET S |-> IF s = {} THEN 0 ELSE f[Some(s)] + g[s \ {Some(s)}]]

LEMMA SumUnfolds ==
    ASSUME NEW f, NEW S
    PROVE  SumFunctionOnSet(f, S) = (CHOOSE g : Recurs(g, f, S))[S]
BY DEF SumFunctionOnSet, FoldFunctionOnSet, MapThenFoldSet, Recurs, Some

LEMMA Minimal ==
    ASSUME NEW S, IsFiniteSet(S), NEW B, B \subseteq SUBSET S, B # {}
    PROVE  \E T \in B : \A R \in SUBSET T : R # T => R \notin B
<1>1. IsWellFoundedOn(StrictSubsetOrdering(S), SUBSET S)
  BY FS_FiniteSubsetsOfFinite, FS_StrictSubsetOrderingWellFounded
<1>2. PICK T \in B : \A R \in B : <<R, T>> \notin StrictSubsetOrdering(S)
  BY <1>1, WFMin
<1>3. ASSUME NEW R \in SUBSET T, R # T, R \in B PROVE FALSE
  BY <1>2, <1>3 DEF StrictSubsetOrdering
<1> QED BY <1>3

LEMMA SomeIsIn == \A s : s # {} => Some(s) \in s
BY DEF Some

\* Functions that satisfy the recursion agree where both are defined.
LEMMA RecursAgree ==
    ASSUME NEW f, NEW R, NEW S, IsFiniteSet(S), NEW g, NEW h,
           Recurs(g, f, R), Recurs(h, f, S), NEW s \in SUBSET (R \cap S)
    PROVE  g[s] = h[s]
<1> DEFINE B == {r \in SUBSET (R \cap S) : g[r] # h[r]}
<1> SUFFICES ASSUME B # {} PROVE FALSE
  OBVIOUS
<1>1. IsFiniteSet(R \cap S)
  BY FS_Subset
<1>2. PICK T \in B : \A r \in SUBSET T : r # T => r \notin B
  <2>1. B \subseteq SUBSET (R \cap S)
    OBVIOUS
  <2> HIDE DEF B
  <2> QED BY <1>1, <2>1, Minimal
<1>3. T # {}
  BY <1>2 DEF Recurs
<1>4. T \ {Some(T)} \in SUBSET T /\ T \ {Some(T)} # T
  BY <1>3, SomeIsIn
<1>5. g[T \ {Some(T)}] = h[T \ {Some(T)}]
  BY <1>2, <1>4
<1> QED BY <1>2, <1>3, <1>5 DEF Recurs

LEMMA RecursExists ==
    ASSUME NEW f, NEW S, IsFiniteSet(S)
    PROVE  \E g : Recurs(g, f, S)
<1> DEFINE B == {T \in SUBSET S : ~ \E g : Recurs(g, f, T)}
           H(r) == CHOOSE g : Recurs(g, f, r)
<1> SUFFICES ASSUME B # {} PROVE FALSE
  OBVIOUS
<1>1. PICK T \in B : \A r \in SUBSET T : r # T => r \notin B
  <2>1. B \subseteq SUBSET S
    OBVIOUS
  <2> HIDE DEF B
  <2> QED BY <2>1, Minimal
<1>2. \A r \in SUBSET T : r # T => Recurs(H(r), f, r)
  BY <1>1
<1> DEFINE G == [s \in SUBSET T |-> IF s = {} THEN 0
                    ELSE f[Some(s)] + H(s \ {Some(s)})[s \ {Some(s)}]]
<1>3. ASSUME NEW r \in SUBSET T, r # T PROVE G[r] = H(r)[r]
  <2>1. Recurs(H(r), f, r)
    BY <1>2, <1>3
  <2> DEFINE q == r \ {Some(r)}
  <2>2. CASE r = {}
    BY <2>1, <2>2 DEF Recurs
  <2>3. CASE r # {}
    <3>1. q \in SUBSET T /\ q # T /\ q \in SUBSET (r \cap q)
      BY <2>3, SomeIsIn
    <3>2. Recurs(H(q), f, q)
      BY <1>2, <3>1
    <3>3. IsFiniteSet(q)
      BY <1>1, <3>1, FS_Subset
    <3> HIDE DEF H
    <3>4. H(r)[q] = H(q)[q]
      BY <2>1, <3>1, <3>2, <3>3, RecursAgree
    <3>5. H(r)[r] = f[Some(r)] + H(r)[q]
      BY <2>1, <2>3 DEF Recurs
    <3>6. G[r] = f[Some(r)] + H(q)[q]
      BY <2>3
    <3> QED BY <3>4, <3>5, <3>6
  <2> QED BY <2>2, <2>3
<1>4. Recurs(G, f, T)
  <2>1. ASSUME NEW s \in SUBSET T, s # {}
        PROVE  G[s] = f[Some(s)] + G[s \ {Some(s)}]
    <3>1. s \ {Some(s)} \in SUBSET T /\ s \ {Some(s)} # T
      BY <2>1, SomeIsIn
    <3> QED BY <1>3, <2>1, <3>1
  <2>2. G = [s \in SUBSET T |-> G[s]] /\ G[{}] = 0
    OBVIOUS
  <2> HIDE DEF G
  <2> QED BY <2>1, <2>2 DEF Recurs
<1> QED BY <1>1, <1>4

LEMMA SumEmpty ==
    ASSUME NEW f
    PROVE  SumFunctionOnSet(f, {}) = 0
<1>1. PICK g : Recurs(g, f, {})
  BY RecursExists, FS_EmptySet
<1>2. Recurs(CHOOSE h : Recurs(h, f, {}), f, {})
  BY <1>1
<1> QED BY <1>2, SumUnfolds DEF Recurs

\* The recursion itself: the chosen element and the sum of the others.
LEMMA SumStep ==
    ASSUME NEW f, NEW S, IsFiniteSet(S), S # {}
    PROVE  SumFunctionOnSet(f, S) = f[Some(S)] + SumFunctionOnSet(f, S \ {Some(S)})
<1> DEFINE R == S \ {Some(S)}
           H(r) == CHOOSE g : Recurs(g, f, r)
<1>1. IsFiniteSet(R) /\ R \in SUBSET (S \cap R) /\ R \in SUBSET S
  BY FS_Subset
<1>2. Recurs(H(S), f, S) /\ Recurs(H(R), f, R)
  BY <1>1, RecursExists
<1>3. SumFunctionOnSet(f, S) = H(S)[S] /\ SumFunctionOnSet(f, R) = H(R)[R]
  BY SumUnfolds
<1> HIDE DEF H
<1>4. H(S)[R] = H(R)[R]
  BY <1>1, <1>2, RecursAgree
<1>5. H(S)[S] = f[Some(S)] + H(S)[R]
  BY <1>2 DEF Recurs
<1> QED BY <1>3, <1>4, <1>5

LEMMA SumType ==
    ASSUME NEW f, NEW S, IsFiniteSet(S), \A x \in S : f[x] \in Nat
    PROVE  SumFunctionOnSet(f, S) \in Nat
<1> DEFINE B == {T \in SUBSET S : SumFunctionOnSet(f, T) \notin Nat}
<1> SUFFICES ASSUME B # {} PROVE FALSE
  OBVIOUS
<1>1. PICK T \in B : \A r \in SUBSET T : r # T => r \notin B
  <2>1. B \subseteq SUBSET S
    OBVIOUS
  <2> HIDE DEF B
  <2> QED BY <2>1, Minimal
<1>2. T # {}
  <2>1. SumFunctionOnSet(f, {}) = 0 /\ 0 \in Nat
    BY SumEmpty
  <2> QED BY <1>1, <2>1
<1>3. Some(T) \in T /\ IsFiniteSet(T)
  BY <1>2, SomeIsIn, FS_Subset
<1>4. SumFunctionOnSet(f, T \ {Some(T)}) \in Nat
  BY <1>1, <1>3
<1> QED BY <1>1, <1>2, <1>3, <1>4, SumStep

\* Any element may be taken out of a sum.
LEMMA SumWithout ==
    ASSUME NEW f, NEW S, IsFiniteSet(S), \A x \in S : f[x] \in Nat, NEW a \in S
    PROVE  SumFunctionOnSet(f, S) = f[a] + SumFunctionOnSet(f, S \ {a})
<1> DEFINE Fails(T) == \E x \in T :
               SumFunctionOnSet(f, T) # f[x] + SumFunctionOnSet(f, T \ {x})
           B == {T \in SUBSET S : Fails(T)}
<1> SUFFICES ASSUME B # {} PROVE FALSE
  OBVIOUS
<1>1. PICK T \in B : \A r \in SUBSET T : r # T => r \notin B
  <2>1. B \subseteq SUBSET S
    OBVIOUS
  <2> HIDE DEF B
  <2> QED BY <2>1, Minimal
<1>2. PICK x \in T : SumFunctionOnSet(f, T) # f[x] + SumFunctionOnSet(f, T \ {x})
  BY <1>1
<1> DEFINE c == Some(T)
<1>3. c \in T /\ IsFiniteSet(T)
  BY <1>2, SomeIsIn, FS_Subset
<1>4. SumFunctionOnSet(f, T) = f[c] + SumFunctionOnSet(f, T \ {c})
  BY <1>2, <1>3, SumStep
<1> HIDE DEF c
<1>5. c # x
  BY <1>2, <1>4
<1>6. /\ SumFunctionOnSet(f, T \ {c}) = f[x] + SumFunctionOnSet(f, (T \ {c}) \ {x})
      /\ SumFunctionOnSet(f, T \ {x}) = f[c] + SumFunctionOnSet(f, (T \ {x}) \ {c})
  <2>1. T \ {c} \notin B /\ T \ {x} \notin B
    BY <1>1, <1>2, <1>3
  <2>2. ~ Fails(T \ {c}) /\ ~ Fails(T \ {x})
    BY <2>1, <1>1
  <2> QED BY <1>2, <1>3, <1>5, <2>2
<1>7. (T \ {c}) \ {x} = (T \ {x}) \ {c}
  OBVIOUS
<1>8. SumFunctionOnSet(f, (T \ {x}) \ {c}) \in Nat /\ f[x] \in Nat /\ f[c] \in Nat
  <2>1. IsFiniteSet((T \ {x}) \ {c})
    BY <1>3, FS_Subset
  <2> QED BY <1>1, <1>2, <1>3, <2>1, SumType
<1> QED BY <1>2, <1>4, <1>6, <1>7, <1>8

\* A sum depends on the summands only.
LEMMA SumAgrees ==
    ASSUME NEW f, NEW g, NEW S, IsFiniteSet(S), \A x \in S : f[x] = g[x]
    PROVE  SumFunctionOnSet(f, S) = SumFunctionOnSet(g, S)
<1> DEFINE B == {T \in SUBSET S : SumFunctionOnSet(f, T) # SumFunctionOnSet(g, T)}
<1> SUFFICES ASSUME B # {} PROVE FALSE
  OBVIOUS
<1>1. PICK T \in B : \A r \in SUBSET T : r # T => r \notin B
  <2>1. B \subseteq SUBSET S
    OBVIOUS
  <2> HIDE DEF B
  <2> QED BY <2>1, Minimal
<1>2. T # {}
  BY <1>1, SumEmpty
<1>3. Some(T) \in T /\ IsFiniteSet(T)
  BY <1>2, SomeIsIn, FS_Subset
<1>4. SumFunctionOnSet(f, T \ {Some(T)}) = SumFunctionOnSet(g, T \ {Some(T)})
  BY <1>1, <1>3
<1> QED BY <1>1, <1>2, <1>3, <1>4, SumStep

LEMMA SumZero ==
    ASSUME NEW f, NEW S, IsFiniteSet(S), \A x \in S : f[x] = 0
    PROVE  SumFunctionOnSet(f, S) = 0
<1> DEFINE B == {T \in SUBSET S : SumFunctionOnSet(f, T) # 0}
<1> SUFFICES ASSUME B # {} PROVE FALSE
  OBVIOUS
<1>1. PICK T \in B : \A r \in SUBSET T : r # T => r \notin B
  <2>1. B \subseteq SUBSET S
    OBVIOUS
  <2> HIDE DEF B
  <2> QED BY <2>1, Minimal
<1>2. T # {}
  BY <1>1, SumEmpty
<1>3. Some(T) \in T /\ IsFiniteSet(T)
  BY <1>2, SomeIsIn, FS_Subset
<1>4. SumFunctionOnSet(f, T \ {Some(T)}) = 0
  BY <1>1, <1>3
<1> QED BY <1>1, <1>2, <1>3, <1>4, SumStep

\* One more element, and one summand that grows.
LEMMA SumWith ==
    ASSUME NEW f, NEW S, IsFiniteSet(S), NEW a, a \notin S,
           \A x \in S \cup {a} : f[x] \in Nat
    PROVE  SumFunctionOnSet(f, S \cup {a}) = f[a] + SumFunctionOnSet(f, S)
<1>1. IsFiniteSet(S \cup {a}) /\ (S \cup {a}) \ {a} = S
  BY FS_AddElement
<1> QED BY <1>1, SumWithout

LEMMA SumMonotone ==
    ASSUME NEW f, NEW S, IsFiniteSet(S), \A x \in S : f[x] \in Nat,
           NEW T \in SUBSET S
    PROVE  SumFunctionOnSet(f, T) <= SumFunctionOnSet(f, S)
<1> DEFINE B == {R \in SUBSET S : /\ T \subseteq R
                                  /\ ~ SumFunctionOnSet(f, T) <= SumFunctionOnSet(f, R)}
<1> SUFFICES ASSUME B # {} PROVE FALSE
  OBVIOUS
<1>1. PICK R \in B : \A r \in SUBSET R : r # R => r \notin B
  <2>1. B \subseteq SUBSET S
    OBVIOUS
  <2> HIDE DEF B
  <2> QED BY <2>1, Minimal
<1>2. IsFiniteSet(T) /\ IsFiniteSet(R) /\ SumFunctionOnSet(f, T) \in Nat
  BY <1>1, FS_Subset, SumType
<1>3. PICK a \in R : a \notin T
  <2>1. R # T
    BY <1>1, <1>2
  <2> QED BY <1>1, <2>1
<1>4. SumFunctionOnSet(f, T) <= SumFunctionOnSet(f, R \ {a})
  BY <1>1, <1>3
<1>5. IsFiniteSet(R \ {a}) /\ SumFunctionOnSet(f, R \ {a}) \in Nat /\ f[a] \in Nat
  BY <1>1, <1>2, <1>3, FS_Subset, SumType
<1>6. SumFunctionOnSet(f, R) = f[a] + SumFunctionOnSet(f, R \ {a})
  BY <1>1, <1>2, <1>3, SumWithout
<1> QED BY <1>1, <1>2, <1>4, <1>5, <1>6

\* No sum exceeds what its summands are at most, times how many they are.
LEMMA SumBound ==
    ASSUME NEW f, NEW S, IsFiniteSet(S), NEW m \in Nat, \A x \in S : f[x] \in 0..m
    PROVE  SumFunctionOnSet(f, S) <= Cardinality(S) * m
<1> DEFINE B == {T \in SUBSET S : ~ SumFunctionOnSet(f, T) <= Cardinality(T) * m}
<1> SUFFICES ASSUME B # {} PROVE FALSE
  OBVIOUS
<1>1. PICK T \in B : \A r \in SUBSET T : r # T => r \notin B
  <2>1. B \subseteq SUBSET S
    OBVIOUS
  <2> HIDE DEF B
  <2> QED BY <2>1, Minimal
<1>2. T # {}
  <2>1. SumFunctionOnSet(f, {}) = 0 /\ Cardinality({}) = 0 /\ 0 * m = 0
    BY SumEmpty, FS_EmptySet
  <2>2. 0 <= Cardinality({}) * m
    BY <2>1
  <2> QED BY <1>1, <2>1, <2>2
<1> DEFINE c == Some(T)
           R == T \ {c}
<1>3. c \in T /\ IsFiniteSet(T) /\ IsFiniteSet(R)
  BY <1>2, SomeIsIn, FS_Subset
<1>4. SumFunctionOnSet(f, R) <= Cardinality(R) * m
  BY <1>1, <1>3
<1>5. Cardinality(R) = Cardinality(T) - 1 /\ Cardinality(T) \in Nat /\ Cardinality(R) \in Nat
  BY <1>3, FS_RemoveElement, FS_CardinalityType
<1>6. SumFunctionOnSet(f, R) \in Nat
  BY <1>1, <1>3, SumType
<1>7. SumFunctionOnSet(f, T) = f[c] + SumFunctionOnSet(f, R) /\ f[c] \in 0..m
  BY <1>1, <1>2, <1>3, SumStep
<1>8. ~ SumFunctionOnSet(f, T) <= Cardinality(T) * m
  BY <1>1
<1> HIDE DEF c, R
<1> PICK n \in Nat : n = Cardinality(R)
  BY <1>5
<1>9. (n + 1) * m = n * m + m /\ n * m \in Nat /\ Cardinality(T) = n + 1
  BY <1>5
<1>10. SumFunctionOnSet(f, R) <= n * m
  BY <1>4
<1>11. SumFunctionOnSet(f, T) <= n * m + m
  BY <1>6, <1>7, <1>9, <1>10
<1> QED BY <1>8, <1>9, <1>11

\* A sum over a set is that over a part of it and that over the rest.
LEMMA SumSplit ==
    ASSUME NEW f, NEW S, IsFiniteSet(S), \A x \in S : f[x] \in Nat,
           NEW T \in SUBSET S
    PROVE  SumFunctionOnSet(f, S) = SumFunctionOnSet(f, T) + SumFunctionOnSet(f, S \ T)
<1> DEFINE Holds(R) == SumFunctionOnSet(f, S) =
                       SumFunctionOnSet(f, R) + SumFunctionOnSet(f, S \ R)
           B == {R \in SUBSET S : ~ Holds(R)}
<1> SUFFICES ASSUME B # {} PROVE FALSE
  OBVIOUS
<1>1. PICK R \in B : \A r \in SUBSET R : r # R => r \notin B
  <2>1. B \subseteq SUBSET S
    OBVIOUS
  <2> HIDE DEF B
  <2> QED BY <2>1, Minimal
<1>2. R # {}
  <2>1. SumFunctionOnSet(f, {}) = 0 /\ SumFunctionOnSet(f, S) \in Nat /\ S \ {} = S
    BY SumEmpty, SumType
  <2>2. Holds({})
    BY <2>1
  <2> QED BY <1>1, <2>2
<1>3. PICK a \in R : TRUE
  BY <1>2
<1> DEFINE Q == R \ {a}
<1>4. /\ IsFiniteSet(R) /\ IsFiniteSet(Q) /\ IsFiniteSet(S \ R) /\ IsFiniteSet(S \ Q)
      /\ a \in S \ Q /\ (S \ Q) \ {a} = S \ R
  BY <1>1, <1>3, FS_Subset
<1>5. Holds(Q)
  BY <1>1, <1>3
<1>6. /\ SumFunctionOnSet(f, R) = f[a] + SumFunctionOnSet(f, Q)
      /\ SumFunctionOnSet(f, S \ Q) = f[a] + SumFunctionOnSet(f, S \ R)
  BY <1>1, <1>3, <1>4, SumWithout
<1>7. /\ SumFunctionOnSet(f, Q) \in Nat /\ SumFunctionOnSet(f, S \ R) \in Nat
      /\ f[a] \in Nat
  BY <1>1, <1>4, SumType
<1>8. Holds(R)
  BY <1>5, <1>6, <1>7
<1> QED BY <1>1, <1>8

LEMMA SumPointwise ==
    ASSUME NEW f, NEW g, NEW S, IsFiniteSet(S),
           \A x \in S : f[x] \in Nat /\ g[x] \in Nat /\ f[x] <= g[x]
    PROVE  SumFunctionOnSet(f, S) <= SumFunctionOnSet(g, S)
<1> DEFINE B == {T \in SUBSET S : ~ SumFunctionOnSet(f, T) <= SumFunctionOnSet(g, T)}
<1> SUFFICES ASSUME B # {} PROVE FALSE
  OBVIOUS
<1>1. PICK T \in B : \A r \in SUBSET T : r # T => r \notin B
  <2>1. B \subseteq SUBSET S
    OBVIOUS
  <2> HIDE DEF B
  <2> QED BY <2>1, Minimal
<1>2. T # {}
  <2>1. SumFunctionOnSet(f, {}) = 0 /\ SumFunctionOnSet(g, {}) = 0 /\ 0 <= 0
    BY SumEmpty
  <2> QED BY <1>1, <2>1
<1> DEFINE c == Some(T)
           R == T \ {c}
<1>3. c \in T /\ c \in S /\ IsFiniteSet(T) /\ IsFiniteSet(R)
  BY <1>1, <1>2, SomeIsIn, FS_Subset
<1>4. SumFunctionOnSet(f, R) <= SumFunctionOnSet(g, R)
  BY <1>1, <1>3
<1>5. SumFunctionOnSet(f, R) \in Nat /\ SumFunctionOnSet(g, R) \in Nat
  BY <1>1, <1>3, SumType
<1>6. /\ SumFunctionOnSet(f, T) = f[c] + SumFunctionOnSet(f, R)
      /\ SumFunctionOnSet(g, T) = g[c] + SumFunctionOnSet(g, R)
  BY <1>2, <1>3, SumStep
<1>7. ~ SumFunctionOnSet(f, T) <= SumFunctionOnSet(g, T)
  BY <1>1
<1> HIDE DEF c, R
<1> QED BY <1>3, <1>4, <1>5, <1>6, <1>7

\* Adding n to one summand adds n to the sums it is in.
LEMMA SumAdds ==
    ASSUME NEW D, IsFiniteSet(D), NEW f \in [D -> Nat], NEW a \in D, NEW n \in Nat,
           NEW g, g[a] = f[a] + n, \A x \in D \ {a} : g[x] = f[x], NEW S \in SUBSET D
    PROVE  SumFunctionOnSet(g, S) =
               IF a \in S THEN SumFunctionOnSet(f, S) + n ELSE SumFunctionOnSet(f, S)
<1>1. g[a] = f[a] + n /\ g[a] \in Nat /\ f[a] \in Nat
  OBVIOUS
<1>2. \A x \in D : (x # a => g[x] = f[x]) /\ g[x] \in Nat /\ f[x] \in Nat
  BY <1>1
<1>3. IsFiniteSet(S) /\ IsFiniteSet(S \ {a})
  BY FS_Subset
<1>4. SumFunctionOnSet(g, S \ {a}) = SumFunctionOnSet(f, S \ {a})
  BY <1>2, <1>3, SumAgrees
<1>5. CASE a \in S
  <2>1. /\ SumFunctionOnSet(g, S) = g[a] + SumFunctionOnSet(g, S \ {a})
        /\ SumFunctionOnSet(f, S) = f[a] + SumFunctionOnSet(f, S \ {a})
    BY <1>2, <1>3, <1>5, SumWithout
  <2>2. SumFunctionOnSet(f, S \ {a}) \in Nat
    BY <1>2, <1>3, SumType
  <2> QED BY <1>1, <1>4, <1>5, <2>1, <2>2
<1>6. CASE a \notin S
  <2>1. S \ {a} = S
    BY <1>6
  <2> QED BY <1>4, <1>6, <2>1
<1> QED BY <1>5, <1>6
=============================================================================
