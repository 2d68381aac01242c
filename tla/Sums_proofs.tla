---------------------------- MODULE Sums_proofs ----------------------------
(***************************************************************************)
(* What SumOver computes, for every finite set and whatever order the fold *)
(* takes its elements in.                                                  *)
(*                                                                         *)
(* Induction over a set is argued by a smallest counterexample: the        *)
(* subsets of S of which a claim fails, if there are any, have a smallest  *)
(* one (SmallestSubset), of which the claim then holds with an element     *)
(* taken out.                                                              *)
(***************************************************************************)
EXTENDS Sums, FiniteSetTheorems, TLAPS

\* A nonempty collection of subsets of a finite set has a smallest member.
LEMMA SmallestSubset ==
    ASSUME NEW S, IsFiniteSet(S), NEW C \in SUBSET (SUBSET S), C # {}
    PROVE  \E T \in C : \A U \in C : U \subseteq T => U = T
<1>1. IsWellFoundedOn(StrictSubsetOrdering(S), SUBSET S)
  BY FS_StrictSubsetOrderingWellFounded, FS_FiniteSubsetsOfFinite, Zenon
<1>2. C \subseteq SUBSET S
  OBVIOUS
<1>3. \E T \in C : \A U \in C : ~ (<<U, T>> \in StrictSubsetOrdering(S))
  BY <1>1, <1>2, WFMin, Zenon
<1>4. QED
  BY <1>3 DEF StrictSubsetOrdering

\* The element the fold takes next.
Pick(s) == CHOOSE x \in s : TRUE

\* iter is the recursive function of the fold.
IsSum(iter, f, S) ==
    iter = [s \in SUBSET S |-> IF s = {} THEN 0 ELSE f[Pick(s)] + iter[s \ {Pick(s)}]]

\* SumOver is the value of that function at S.
LEMMA Unfold ==
    ASSUME NEW f, NEW S
    PROVE  SumOver(f, S) = (CHOOSE iter : IsSum(iter, f, S))[S]
BY Zenon DEF SumOver, MapThenSumSet, MapThenFoldSet, IsSum, Pick

\* It is an element of the set.
LEMMA PickIn == ASSUME NEW s, s # {} PROVE Pick(s) \in s
BY DEF Pick

\* Two functions that follow the recursion agree where both are defined: they
\* cannot differ first on some smallest set.
LEMMA SumUnique ==
    ASSUME NEW f, NEW S, IsFiniteSet(S), NEW T \in SUBSET S, NEW g, NEW h,
           IsSum(g, f, S), IsSum(h, f, T)
    PROVE  \A U \in SUBSET T : g[U] = h[U]
<1> DEFINE C == {s \in SUBSET T : g[s] # h[s]}
<1>1. SUFFICES ASSUME C # {} PROVE FALSE
  OBVIOUS
<1>2. IsFiniteSet(T)
  BY FS_Subset
<1>3. PICK s \in C : \A U \in C : U \subseteq s => U = s
  <2>1. C \in SUBSET (SUBSET T)
    OBVIOUS
  <2> HIDE DEF C
  <2>2. QED
    BY <1>1, <1>2, <2>1, SmallestSubset
<1>4. /\ g[s] = IF s = {} THEN 0 ELSE f[Pick(s)] + g[s \ {Pick(s)}]
      /\ h[s] = IF s = {} THEN 0 ELSE f[Pick(s)] + h[s \ {Pick(s)}]
  BY DEF IsSum
<1>5. s # {} => Pick(s) \in s
  BY PickIn
<1>6. s # {} => g[s \ {Pick(s)}] = h[s \ {Pick(s)}]
  BY <1>3, <1>5
<1>7. QED
  BY <1>4, <1>6

\* The recursion holds for SumOver wherever such functions exist.
Recurses(f, T) ==
    SumOver(f, T) = IF T = {} THEN 0 ELSE f[Pick(T)] + SumOver(f, T \ {Pick(T)})

\* Where both functions exist, the sum over T takes one step of the recursion.
LEMMA SumRecurses ==
    ASSUME NEW f, NEW T, IsFiniteSet(T),
           \E iter : IsSum(iter, f, T),
           \E iter : IsSum(iter, f, T \ {Pick(T)})
    PROVE  Recurses(f, T)
<1> DEFINE U == T \ {Pick(T)}
           g == CHOOSE iter : IsSum(iter, f, T)
           h == CHOOSE iter : IsSum(iter, f, U)
<1>1. IsSum(g, f, T) /\ IsSum(h, f, U)
  BY Zenon
<1>2. SumOver(f, T) = g[T] /\ SumOver(f, U) = h[U]
  BY Unfold, Zenon
<1> HIDE DEF g, h
<1>3. g[T] = IF T = {} THEN 0 ELSE f[Pick(T)] + g[U]
  BY <1>1 DEF IsSum
<1>4. U \in SUBSET T
  OBVIOUS
<1>5. g[U] = h[U]
  <2> HIDE DEF U
  <2>1. QED
    BY <1>1, <1>4, SumUnique
<1>6. QED
  BY <1>2, <1>3, <1>5 DEF Recurses

\* A recursive function on the subsets of S exists: some function follows the
\* recursion on the subsets of each subset of S, since a smallest set without
\* one could be given one.
LEMMA SumExists ==
    ASSUME NEW f, NEW S, IsFiniteSet(S)
    PROVE  \E iter : IsSum(iter, f, S)
<1> DEFINE C == {T \in SUBSET S : ~ \E iter : IsSum(iter, f, T)}
<1>1. SUFFICES ASSUME C # {} PROVE FALSE
  OBVIOUS
<1>2. PICK T \in C : \A U \in C : U \subseteq T => U = T
  <2>1. C \in SUBSET (SUBSET S)
    OBVIOUS
  <2> HIDE DEF C
  <2>2. QED
    BY <1>1, <2>1, SmallestSubset
<1>3. \A U \in SUBSET T : U # T => \E iter : IsSum(iter, f, U)
  BY <1>2
<1>4. \A U \in SUBSET T : U # T => Recurses(f, U)
  <2> SUFFICES ASSUME NEW U \in SUBSET T, U # T PROVE Recurses(f, U)
    OBVIOUS
  <2>1. IsFiniteSet(U)
    BY FS_Subset
  <2>2. U \ {Pick(U)} \in SUBSET T /\ U \ {Pick(U)} # T
    OBVIOUS
  <2>3. QED
    BY <1>3, <2>1, <2>2, SumRecurses
<1> DEFINE iter == [s \in SUBSET T |-> IF s = {} THEN 0
                                       ELSE f[Pick(s)] + SumOver(f, s \ {Pick(s)})]
<1>5. \A s \in SUBSET T : s # T => SumOver(f, s) = iter[s]
  BY <1>4 DEF Recurses
<1>6. \A s \in SUBSET T : s # {} => s \ {Pick(s)} \in SUBSET T /\ s \ {Pick(s)} # T
  BY PickIn
<1>7. IsSum(iter, f, T)
  BY <1>5, <1>6 DEF IsSum
<1>8. QED
  BY <1>2, <1>7

\* What SumOver computes on every finite set.
LEMMA SumRecursion ==
    ASSUME NEW f, NEW T, IsFiniteSet(T)
    PROVE  Recurses(f, T)
<1>1. IsFiniteSet(T \ {Pick(T)})
  BY FS_RemoveElement
<1>2. QED
  BY <1>1, SumExists, SumRecurses

-----------------------------------------------------------------------------
\* The sum of no numbers is 0.
LEMMA SumEmpty == \A f : SumOver(f, {}) = 0
BY SumRecursion, FS_EmptySet DEF Recurses

\* A sum of integers is an integer.
LEMMA SumType ==
    ASSUME NEW f, NEW S, IsFiniteSet(S), \A x \in S : f[x] \in Int
    PROVE  SumOver(f, S) \in Int
<1> DEFINE C == {T \in SUBSET S : SumOver(f, T) \notin Int}
<1>1. SUFFICES ASSUME C # {} PROVE FALSE
  OBVIOUS
<1>2. PICK T \in C : \A U \in C : U \subseteq T => U = T
  <2>1. C \in SUBSET (SUBSET S)
    OBVIOUS
  <2> HIDE DEF C
  <2>2. QED
    BY <1>1, <2>1, SmallestSubset
<1>3. Recurses(f, T)
  BY FS_Subset, SumRecursion
<1>4. T # {} /\ Pick(T) \in T
  BY <1>3, PickIn DEF Recurses
<1>5. SumOver(f, T \ {Pick(T)}) \in Int
  BY <1>2, <1>4
<1>6. QED
  BY <1>3, <1>4, <1>5 DEF Recurses

\* Any term may be taken out of a sum, in whatever order the fold adds them.
LEMMA SumTakes ==
    ASSUME NEW f, NEW S, IsFiniteSet(S), \A x \in S : f[x] \in Int, NEW x \in S
    PROVE  SumOver(f, S) = f[x] + SumOver(f, S \ {x})
<1> DEFINE Takes(T, y) == SumOver(f, T) = f[y] + SumOver(f, T \ {y})
           C == {T \in SUBSET S : \E y \in T : ~ Takes(T, y)}
<1>1. SUFFICES ASSUME C # {} PROVE FALSE
  OBVIOUS
<1>2. PICK T \in C : \A U \in C : U \subseteq T => U = T
  <2>1. C \in SUBSET (SUBSET S)
    OBVIOUS
  <2> HIDE DEF C
  <2>2. QED
    BY <1>1, <2>1, SmallestSubset
<1>3. PICK y \in T : ~ Takes(T, y)
  OBVIOUS
<1> DEFINE c == Pick(T)
           rest == (T \ {c}) \ {y}
<1>4. Recurses(f, T) /\ c \in T
  BY FS_Subset, SumRecursion, PickIn
<1>5. SumOver(f, T) = f[c] + SumOver(f, T \ {c})
  BY <1>4 DEF Recurses
<1>6. c # y
  BY <1>3, <1>5
<1>7. \A U \in SUBSET T : U # T => \A z \in U : Takes(U, z)
  <2> HIDE DEF Takes
  <2>1. QED
    BY <1>2
<1>8. /\ SumOver(f, T \ {c}) = f[y] + SumOver(f, rest)
      /\ SumOver(f, T \ {y}) = f[c] + SumOver(f, rest)
  <2>1. Takes(T \ {c}, y) /\ Takes(T \ {y}, c)
    <3> HIDE DEF Takes, c
    <3>1. QED
      BY <1>4, <1>6, <1>7
  <2>2. (T \ {y}) \ {c} = rest
    OBVIOUS
  <2>3. QED
    BY <2>1, <2>2
<1>9. SumOver(f, rest) \in Int /\ f[c] \in Int /\ f[y] \in Int
  <2>1. IsFiniteSet(rest)
    BY FS_Subset
  <2>2. QED
    BY <1>4, <2>1, SumType
<1>10. QED
  <2> HIDE DEF rest, c
  <2>1. QED
    BY <1>3, <1>5, <1>8, <1>9

\* A term may be added to a sum.
LEMMA SumAdds ==
    ASSUME NEW f, NEW S, IsFiniteSet(S), NEW x, x \notin S,
           \A y \in S \cup {x} : f[y] \in Int
    PROVE  SumOver(f, S \cup {x}) = f[x] + SumOver(f, S)
<1>1. IsFiniteSet(S \cup {x})
  BY FS_AddElement
<1>2. SumOver(f, S \cup {x}) = f[x] + SumOver(f, (S \cup {x}) \ {x})
  BY <1>1, SumTakes
<1>3. (S \cup {x}) \ {x} = S
  OBVIOUS
<1>4. QED
  BY <1>2, <1>3

\* Functions with the same values have the same sum.
LEMMA SumSame ==
    ASSUME NEW f, NEW g, NEW S, IsFiniteSet(S), \A x \in S : f[x] = g[x]
    PROVE  SumOver(f, S) = SumOver(g, S)
<1> DEFINE C == {T \in SUBSET S : SumOver(f, T) # SumOver(g, T)}
<1>1. SUFFICES ASSUME C # {} PROVE FALSE
  OBVIOUS
<1>2. PICK T \in C : \A U \in C : U \subseteq T => U = T
  <2>1. C \in SUBSET (SUBSET S)
    OBVIOUS
  <2> HIDE DEF C
  <2>2. QED
    BY <1>1, <2>1, SmallestSubset
<1>3. Recurses(f, T) /\ Recurses(g, T)
  BY FS_Subset, SumRecursion
<1>4. T # {} => Pick(T) \in T /\ f[Pick(T)] = g[Pick(T)]
  BY PickIn
<1>5. T # {} => SumOver(f, T \ {Pick(T)}) = SumOver(g, T \ {Pick(T)})
  BY <1>2, <1>4
<1>6. QED
  BY <1>3, <1>4, <1>5 DEF Recurses

\* Changing one term changes the sum by as much.
LEMMA SumChanges ==
    ASSUME NEW f, NEW g, NEW S, IsFiniteSet(S), NEW x \in S,
           \A y \in S : f[y] \in Int /\ g[y] \in Int,
           \A y \in S : y # x => g[y] = f[y]
    PROVE  SumOver(g, S) = SumOver(f, S) + (g[x] - f[x])
<1> DEFINE rest == S \ {x}
<1>1. IsFiniteSet(rest)
  BY FS_Subset
<1>2. SumOver(f, rest) = SumOver(g, rest)
  <2>1. \A y \in rest : f[y] = g[y]
    OBVIOUS
  <2> HIDE DEF rest
  <2>2. QED
    BY <1>1, <2>1, SumSame
<1>3. /\ SumOver(f, S) = f[x] + SumOver(f, rest)
      /\ SumOver(g, S) = g[x] + SumOver(g, rest)
  BY SumTakes
<1>4. SumOver(f, rest) \in Int
  BY <1>1, SumType
<1>5. QED
  BY <1>2, <1>3, <1>4

\* A sum of natural numbers is one.
LEMMA SumNat ==
    ASSUME NEW f, NEW S, IsFiniteSet(S), \A x \in S : f[x] \in Nat
    PROVE  SumOver(f, S) \in Nat
<1> DEFINE C == {T \in SUBSET S : SumOver(f, T) \notin Nat}
<1>1. SUFFICES ASSUME C # {} PROVE FALSE
  OBVIOUS
<1>2. PICK T \in C : \A U \in C : U \subseteq T => U = T
  <2>1. C \in SUBSET (SUBSET S)
    OBVIOUS
  <2> HIDE DEF C
  <2>2. QED
    BY <1>1, <2>1, SmallestSubset
<1>3. Recurses(f, T)
  BY FS_Subset, SumRecursion
<1>4. T # {} /\ Pick(T) \in T
  BY <1>3, PickIn DEF Recurses
<1>5. SumOver(f, T \ {Pick(T)}) \in Nat
  BY <1>2, <1>4
<1>6. QED
  BY <1>3, <1>4, <1>5 DEF Recurses

\* A sum of natural numbers is at least each of its terms.
LEMMA TermOfSum ==
    ASSUME NEW f, NEW S, IsFiniteSet(S), \A x \in S : f[x] \in Nat, NEW x \in S
    PROVE  f[x] <= SumOver(f, S)
<1>1. SumOver(f, S) = f[x] + SumOver(f, S \ {x})
  BY SumTakes
<1>2. SumOver(f, S \ {x}) \in Nat
  <2>1. IsFiniteSet(S \ {x})
    BY FS_Subset
  <2>2. QED
    BY <2>1, SumNat
<1>3. QED
  BY <1>1, <1>2

\* Larger terms make a larger sum.
LEMMA SumMonotone ==
    ASSUME NEW f, NEW g, NEW S, IsFiniteSet(S),
           \A x \in S : f[x] \in Int /\ g[x] \in Int /\ f[x] <= g[x]
    PROVE  SumOver(f, S) <= SumOver(g, S)
<1> DEFINE C == {T \in SUBSET S : ~ (SumOver(f, T) <= SumOver(g, T))}
<1>1. SUFFICES ASSUME C # {} PROVE FALSE
  OBVIOUS
<1>2. PICK T \in C : \A U \in C : U \subseteq T => U = T
  <2>1. C \in SUBSET (SUBSET S)
    OBVIOUS
  <2> HIDE DEF C
  <2>2. QED
    BY <1>1, <2>1, SmallestSubset
<1>3. Recurses(f, T) /\ Recurses(g, T)
  BY FS_Subset, SumRecursion
<1>4. T # {} /\ Pick(T) \in T
  BY <1>3, PickIn DEF Recurses
<1> DEFINE rest == T \ {Pick(T)}
<1>5. SumOver(f, rest) <= SumOver(g, rest)
  BY <1>2, <1>4
<1>6. SumOver(f, rest) \in Int /\ SumOver(g, rest) \in Int
  <2>1. IsFiniteSet(rest)
    BY FS_Subset
  <2>2. QED
    BY <2>1, SumType
<1>7. QED
  BY <1>3, <1>4, <1>5, <1>6 DEF Recurses

\* Equal terms add up to a multiple.
LEMMA SumConstant ==
    ASSUME NEW f, NEW S, IsFiniteSet(S), NEW c \in Int, \A x \in S : f[x] = c
    PROVE  SumOver(f, S) = c * Cardinality(S)
<1> DEFINE C == {T \in SUBSET S : SumOver(f, T) # c * Cardinality(T)}
<1>1. SUFFICES ASSUME C # {} PROVE FALSE
  OBVIOUS
<1>2. PICK T \in C : \A U \in C : U \subseteq T => U = T
  <2>1. C \in SUBSET (SUBSET S)
    OBVIOUS
  <2> HIDE DEF C
  <2>2. QED
    BY <1>1, <2>1, SmallestSubset
<1>3. IsFiniteSet(T) /\ Recurses(f, T)
  BY FS_Subset, SumRecursion
<1>4. T # {} /\ Pick(T) \in T
  BY <1>3, PickIn, FS_EmptySet DEF Recurses
<1> DEFINE rest == T \ {Pick(T)}
<1>5. SumOver(f, rest) = c * Cardinality(rest)
  BY <1>2, <1>4
<1>6. Cardinality(rest) = Cardinality(T) - 1 /\ Cardinality(T) \in Nat
  BY <1>3, <1>4, FS_RemoveElement, FS_CardinalityType
<1>7. SumOver(f, T) = c + SumOver(f, rest)
  BY <1>3, <1>4 DEF Recurses
<1>8. c * (Cardinality(T) - 1) = c * Cardinality(T) - c
  <2> HIDE DEF C
  <2>1. QED
    BY <1>6
<1>9. c * Cardinality(T) \in Int
  BY <1>6
<1>10. QED
  <2> HIDE DEF rest
  <2>1. QED
    BY <1>5, <1>6, <1>7, <1>8, <1>9

\* The sum over two disjoint sets.
LEMMA SumUnion ==
    ASSUME NEW f, NEW S, IsFiniteSet(S), NEW T, IsFiniteSet(T), S \cap T = {},
           \A x \in S \cup T : f[x] \in Int
    PROVE  SumOver(f, S \cup T) = SumOver(f, S) + SumOver(f, T)
<1> DEFINE C == {U \in SUBSET T : SumOver(f, S \cup U) # SumOver(f, S) + SumOver(f, U)}
<1>1. SUFFICES ASSUME C # {} PROVE FALSE
  OBVIOUS
<1>2. PICK U \in C : \A V \in C : V \subseteq U => V = U
  <2>1. C \in SUBSET (SUBSET T)
    OBVIOUS
  <2> HIDE DEF C
  <2>2. QED
    BY <1>1, <2>1, SmallestSubset
<1>3. /\ U \subseteq T
      /\ SumOver(f, S \cup U) # SumOver(f, S) + SumOver(f, U)
      /\ IsFiniteSet(U) /\ IsFiniteSet(S \cup U)
  BY <1>2, FS_Subset, FS_Union
<1>4. SumOver(f, S) \in Int
  BY SumType
<1>5. U # {}
  <2> SUFFICES ASSUME U = {} PROVE FALSE
    OBVIOUS
  <2>1. SumOver(f, U) = 0 /\ S \cup U = S
    BY SumEmpty
  <2>2. SumOver(f, S \cup U) = SumOver(f, S)
    BY <2>1
  <2>3. SumOver(f, S \cup U) # SumOver(f, S) + SumOver(f, U)
    BY <1>3
  <2>4. QED
    BY <1>4, <2>1, <2>2, <2>3
<1>6. PICK x : x \in U
  BY <1>5
<1> DEFINE rest == U \ {x}
<1>7. SumOver(f, S \cup rest) = SumOver(f, S) + SumOver(f, rest)
  BY <1>2, <1>6
<1>8. SumOver(f, U) = f[x] + SumOver(f, rest)
  BY <1>3, <1>6, SumTakes
<1>9. SumOver(f, S \cup U) = f[x] + SumOver(f, S \cup rest)
  <2>1. (S \cup U) \ {x} = S \cup rest
    BY <1>3, <1>6
  <2>2. SumOver(f, S \cup U) = f[x] + SumOver(f, (S \cup U) \ {x})
    BY <1>3, <1>6, SumTakes
  <2>3. QED
    BY <2>1, <2>2
<1>10. SumOver(f, rest) \in Int /\ f[x] \in Int
  <2>1. IsFiniteSet(rest) /\ \A y \in rest : f[y] \in Int
    BY <1>3, FS_Subset
  <2>2. QED
    BY <1>3, <1>6, <2>1, SumType
<1>11. QED
  <2> HIDE DEF rest
  <2>1. QED
    BY <1>3, <1>4, <1>7, <1>8, <1>9, <1>10

\* Fewer terms that are natural numbers make a smaller sum.
LEMMA SumSubset ==
    ASSUME NEW f, NEW T, IsFiniteSet(T), \A x \in T : f[x] \in Nat, NEW S \in SUBSET T
    PROVE  SumOver(f, S) <= SumOver(f, T)
<1> DEFINE rest == T \ S
<1>1. IsFiniteSet(S) /\ IsFiniteSet(rest)
  BY FS_Subset
<1>2. S \cap rest = {} /\ S \cup rest = T /\ \A x \in S \cup rest : f[x] \in Int
  OBVIOUS
<1>3. SumOver(f, S) \in Nat
  BY <1>1, SumNat
<1>4. SumOver(f, rest) \in Nat
  BY <1>1, SumNat
<1> HIDE DEF rest
<1>5. SumOver(f, S \cup rest) = SumOver(f, S) + SumOver(f, rest)
  BY <1>1, <1>2, SumUnion
<1>6. SumOver(f, T) = SumOver(f, S) + SumOver(f, rest)
  BY <1>2, <1>5
<1>7. QED
  BY <1>3, <1>4, <1>6

\* A nonempty finite set of numbers has a largest one.
LEMMA LargestOfSet ==
    ASSUME NEW S, IsFiniteSet(S), S # {}, \A x \in S : x \in Int
    PROVE  Max(S) \in S /\ \A x \in S : x <= Max(S)
<1> DEFINE From(x) == {y \in S : y >= x}
           C == {From(x) : x \in S}
<1>1. PICK T \in C : \A U \in C : U \subseteq T => U = T
  <2>1. C \in SUBSET (SUBSET S)
    OBVIOUS
  <2>2. C # {}
    OBVIOUS
  <2> HIDE DEF C
  <2>3. QED
    BY <2>1, <2>2, SmallestSubset
<1>2. PICK x \in S : T = From(x)
  BY <1>1
<1>3. \A y \in S : y <= x
  <2> SUFFICES ASSUME NEW y \in S, y > x PROVE FALSE
    OBVIOUS
  <2>1. From(y) \subseteq From(x) /\ x \in From(x) /\ x \notin From(y)
    <3>1. \A z \in S : z \in Int
      OBVIOUS
    <3>2. \A z \in S : z >= y => z >= x
      BY <3>1
    <3>3. x >= x /\ ~ (x >= y)
      BY <3>1
    <3>4. QED
      BY <3>2, <3>3
  <2>2. From(y) \in C
    OBVIOUS
  <2>3. QED
    BY <1>1, <1>2, <2>1, <2>2
<1>4. \E z \in S : \A y \in S : z >= y
  BY <1>3
<1>5. QED
  BY <1>4 DEF Max
=============================================================================
