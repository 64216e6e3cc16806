---------------------------- MODULE FoldTheorems ----------------------------
(***************************************************************************)
(* What the sums of the community modules compute over a finite set, for   *)
(* any set and any function. They are recursive functions: that one exists *)
(* and is the only one is shown here without induction, by a least set for *)
(* which it would fail.                                                    *)
(***************************************************************************)
EXTENDS Integers, FiniteSets, Functions, FiniteSetTheorems, WellFoundedInduction, TLAPS

-----------------------------------------------------------------------------
(* Least elements. *)

\* A set of natural numbers that is not empty has a least element.
LEMMA LeastOfNat ==
  ASSUME NEW S \in SUBSET Nat, S # {}
  PROVE  \E m \in S : \A n \in S : ~(n < m)
<1>1. PICK R : IsWellFoundedOn(R, Nat) /\ \A j, k \in Nat : j < k => <<j, k>> \in R
  <2>1. \A j, k \in Nat : j < k => <<j, k>> \in OpToRel(<, Nat)
    BY DEF OpToRel
  <2> QED BY <2>1, NatLessThanWellFounded, Zenon
<1>2. PICK m \in S : \A n \in S : ~(<<n, m>> \in R)
  <2>1. \A N : S \subseteq N /\ IsWellFoundedOn(R, N) =>
               \E m \in S : \A n \in S : ~(<<n, m>> \in R)
    BY WFMin
  <2> QED BY <1>1, <2>1
<1> QED BY <1>1, <1>2

\* A set of subsets of a finite set that is not empty has a least one.
LEMMA LeastSubset ==
  ASSUME NEW S, IsFiniteSet(S), NEW B \in SUBSET (SUBSET S), B # {}
  PROVE  \E T \in B : \A U \in B : U \subseteq T => U = T
<1>1. FiniteSubsetsOf(S) = SUBSET S
  BY FS_FiniteSubsetsOfFinite
<1>2. PICK R : IsWellFoundedOn(R, SUBSET S) /\ R = StrictSubsetOrdering(S)
  BY <1>1, FS_StrictSubsetOrderingWellFounded
<1>3. PICK T \in B : \A U \in B : ~(<<U, T>> \in R)
  <2>1. \A N : B \subseteq N /\ IsWellFoundedOn(R, N) =>
               \E T \in B : \A U \in B : ~(<<U, T>> \in R)
    BY WFMin
  <2> QED BY <1>2, <2>1
<1>4. \A U \in B : U \subseteq T => U = T
  BY <1>2, <1>3 DEF StrictSubsetOrdering
<1> QED BY <1>4

-----------------------------------------------------------------------------
(* Sums. *)

\* The element that a fold takes first.
AnyOf(T) == CHOOSE x \in T : TRUE

\* The recursion of SumFunctionOnSet.
Adding(h, f, S) ==
  h = [T \in SUBSET S |-> IF T = {} THEN 0 ELSE f[AnyOf(T)] + h[T \ {AnyOf(T)}]]

TheSum(f, S) == CHOOSE h : Adding(h, f, S)

LEMMA SumIs ==
  ASSUME NEW f, NEW S
  PROVE  SumFunctionOnSet(f, S) = TheSum(f, S)[S]
BY DEF SumFunctionOnSet, FoldFunctionOnSet, MapThenFoldSet, Adding, AnyOf, TheSum

LEMMA AddingAgree ==
  ASSUME NEW f, NEW g, NEW R, NEW S, NEW a, NEW b, Adding(a, f, R), Adding(b, g, S),
         NEW T, T \subseteq R, T \subseteq S, IsFiniteSet(T), \A x \in T : f[x] = g[x]
  PROVE  a[T] = b[T]
<1> DEFINE B == {U \in SUBSET T : a[U] # b[U]}
<1> SUFFICES ASSUME T \in B PROVE FALSE
  OBVIOUS
<1>1. PICK U \in B : \A V \in B : V \subseteq U => V = U
  <2>1. B \in SUBSET (SUBSET T) /\ B # {}
    OBVIOUS
  <2> HIDE DEF B
  <2> QED BY <2>1, LeastSubset
<1>2. U \subseteq T /\ a[U] # b[U]
  BY <1>1
<1>3. /\ a[U] = IF U = {} THEN 0 ELSE f[AnyOf(U)] + a[U \ {AnyOf(U)}]
      /\ b[U] = IF U = {} THEN 0 ELSE g[AnyOf(U)] + b[U \ {AnyOf(U)}]
  BY <1>2 DEF Adding
<1>4. U # {}
  BY <1>2, <1>3
<1>5. AnyOf(U) \in U
  BY <1>4 DEF AnyOf
<1>6. U \ {AnyOf(U)} \subseteq U /\ U \ {AnyOf(U)} # U /\ U \ {AnyOf(U)} \in SUBSET T
  BY <1>2, <1>5
<1>7. a[U \ {AnyOf(U)}] = b[U \ {AnyOf(U)}]
  BY <1>1, <1>6
<1>8. f[AnyOf(U)] = g[AnyOf(U)]
  BY <1>2, <1>5
<1> QED BY <1>2, <1>3, <1>4, <1>7, <1>8

\* Every finite set has its sums.
LEMMA AddingExists ==
  ASSUME NEW f, NEW S, IsFiniteSet(S)
  PROVE  Adding(TheSum(f, S), f, S)
<1> DEFINE B == {T \in SUBSET S : ~Adding(TheSum(f, T), f, T)}
<1> SUFFICES ASSUME S \in B PROVE FALSE
  OBVIOUS
<1>1. PICK T \in B : \A V \in B : V \subseteq T => V = T
  <2>1. B \in SUBSET (SUBSET S) /\ B # {}
    OBVIOUS
  <2> HIDE DEF B
  <2> QED BY <2>1, LeastSubset
<1>2. T \subseteq S /\ ~Adding(TheSum(f, T), f, T)
  BY <1>1
<1>3. ASSUME NEW U \in SUBSET T, U # T
      PROVE  TheSum(f, U)[U] = IF U = {} THEN 0
                               ELSE f[AnyOf(U)] + TheSum(f, U \ {AnyOf(U)})[U \ {AnyOf(U)}]
  <2>1. Adding(TheSum(f, U), f, U)
    BY <1>1, <1>2, <1>3
  <2>2. TheSum(f, U)[U] = IF U = {} THEN 0 ELSE f[AnyOf(U)] + TheSum(f, U)[U \ {AnyOf(U)}]
    BY <2>1 DEF Adding
  <2>3. ASSUME U # {}
        PROVE  TheSum(f, U)[U \ {AnyOf(U)}] = TheSum(f, U \ {AnyOf(U)})[U \ {AnyOf(U)}]
    <3> DEFINE V == U \ {AnyOf(U)}
    <3>1. V \in SUBSET U /\ V # T /\ V \subseteq T
      BY <1>3
    <3>2. Adding(TheSum(f, V), f, V)
      BY <1>1, <1>2, <3>1
    <3>3. IsFiniteSet(V)
      BY <1>2, <3>1, FS_Subset
    <3> HIDE DEF V
    <3>4. TheSum(f, U)[V] = TheSum(f, V)[V]
      BY <2>1, <3>1, <3>2, <3>3, AddingAgree
    <3> QED BY <3>4 DEF V
  <2> QED BY <2>2, <2>3
<1> DEFINE h == [U \in SUBSET T |-> IF U = {} THEN 0
                                    ELSE f[AnyOf(U)] + TheSum(f, U \ {AnyOf(U)})[U \ {AnyOf(U)}]]
<1>4. ASSUME NEW U \in SUBSET T, U # {}
      PROVE  h[U \ {AnyOf(U)}] = TheSum(f, U \ {AnyOf(U)})[U \ {AnyOf(U)}]
  <2> DEFINE V == U \ {AnyOf(U)}
  <2>1. AnyOf(U) \in U
    BY <1>4 DEF AnyOf
  <2>2. V \in SUBSET T /\ V # T
    BY <2>1
  <2> HIDE DEF V
  <2>3. h[V] = TheSum(f, V)[V]
    BY <1>3, <2>2
  <2> QED BY <2>3 DEF V
<1>5. Adding(h, f, T)
  <2> SUFFICES ASSUME NEW U \in SUBSET T
               PROVE  h[U] = IF U = {} THEN 0 ELSE f[AnyOf(U)] + h[U \ {AnyOf(U)}]
    BY Zenon DEF Adding
  <2>1. h[U] = IF U = {} THEN 0 ELSE f[AnyOf(U)] + TheSum(f, U \ {AnyOf(U)})[U \ {AnyOf(U)}]
    OBVIOUS
  <2> HIDE DEF h
  <2> QED BY <1>4, <2>1
<1>6. Adding(TheSum(f, T), f, T)
  <2> HIDE DEF h
  <2> QED BY <1>5 DEF TheSum
<1> QED BY <1>2, <1>6

\* The sum over the empty set is 0, and over another one in whatever order.
LEMMA SumRec ==
  ASSUME NEW f, NEW S, IsFiniteSet(S)
  PROVE  SumFunctionOnSet(f, S) =
           IF S = {} THEN 0 ELSE f[AnyOf(S)] + SumFunctionOnSet(f, S \ {AnyOf(S)})
<1> DEFINE R == S \ {AnyOf(S)}
<1>1. Adding(TheSum(f, S), f, S)
  BY AddingExists
<1>2. TheSum(f, S)[S] = IF S = {} THEN 0 ELSE f[AnyOf(S)] + TheSum(f, S)[S \ {AnyOf(S)}]
  BY <1>1 DEF Adding
<1>3. R \subseteq S /\ IsFiniteSet(R)
  BY FS_Subset
<1>4. Adding(TheSum(f, R), f, R)
  BY <1>3, AddingExists
<1>5. TheSum(f, S)[R] = TheSum(f, R)[R]
  <2> HIDE DEF R
  <2> QED BY <1>1, <1>3, <1>4, AddingAgree
<1> QED BY <1>2, <1>5, SumIs

LEMMA SumSame ==
  ASSUME NEW f, NEW g, NEW S, IsFiniteSet(S), \A x \in S : f[x] = g[x]
  PROVE  SumFunctionOnSet(f, S) = SumFunctionOnSet(g, S)
<1>1. Adding(TheSum(f, S), f, S) /\ Adding(TheSum(g, S), g, S)
  BY AddingExists
<1>2. TheSum(f, S)[S] = TheSum(g, S)[S]
  BY <1>1, AddingAgree
<1> QED BY <1>2, SumIs

LEMMA SumType ==
  ASSUME NEW f, NEW S, IsFiniteSet(S)
  PROVE  /\ (\A x \in S : f[x] \in Int) => SumFunctionOnSet(f, S) \in Int
         /\ (\A x \in S : f[x] \in Nat) => SumFunctionOnSet(f, S) \in Nat
<1>1. ASSUME NEW N, N = Int \/ N = Nat, \A x \in S : f[x] \in N
      PROVE  SumFunctionOnSet(f, S) \in N
  <2> DEFINE B == {T \in SUBSET S : SumFunctionOnSet(f, T) \notin N}
  <2> SUFFICES ASSUME S \in B PROVE FALSE
    OBVIOUS
  <2>1. PICK T \in B : \A V \in B : V \subseteq T => V = T
    <3>1. B \in SUBSET (SUBSET S) /\ B # {}
      OBVIOUS
    <3> HIDE DEF B
    <3> QED BY <3>1, LeastSubset
  <2>2. T \subseteq S /\ IsFiniteSet(T) /\ SumFunctionOnSet(f, T) \notin N
    BY <2>1, FS_Subset
  <2>3. SumFunctionOnSet(f, T) =
          IF T = {} THEN 0 ELSE f[AnyOf(T)] + SumFunctionOnSet(f, T \ {AnyOf(T)})
    BY <2>2, SumRec
  <2>4. CASE T = {}
    BY <1>1, <2>2, <2>3, <2>4
  <2>5. CASE T # {}
    <3> DEFINE V == T \ {AnyOf(T)}
    <3>1. AnyOf(T) \in T
      BY <2>5 DEF AnyOf
    <3>2. V \subseteq T /\ V # T /\ V \in SUBSET S
      BY <2>2, <3>1
    <3>3. SumFunctionOnSet(f, V) \in N
      BY <2>1, <3>2
    <3>4. f[AnyOf(T)] \in N
      BY <1>1, <2>2, <3>1
    <3>5. f[AnyOf(T)] + SumFunctionOnSet(f, V) \in N
      BY <1>1, <3>3, <3>4
    <3> QED BY <2>2, <2>3, <2>5, <3>5
  <2> QED BY <2>4, <2>5
<1> QED BY <1>1

\* Any element may be counted first.
LEMMA SumRemove ==
  ASSUME NEW f, NEW S, IsFiniteSet(S), \A y \in S : f[y] \in Int, NEW x \in S
  PROVE  SumFunctionOnSet(f, S) = f[x] + SumFunctionOnSet(f, S \ {x})
<1> DEFINE Any(T) == \A y \in T : SumFunctionOnSet(f, T) = f[y] + SumFunctionOnSet(f, T \ {y})
           B == {T \in SUBSET S : ~Any(T)}
<1> SUFFICES ASSUME S \in B PROVE FALSE
  OBVIOUS
<1>1. PICK T \in B : \A V \in B : V \subseteq T => V = T
  <2>1. B \in SUBSET (SUBSET S) /\ B # {}
    OBVIOUS
  <2> HIDE DEF B
  <2> QED BY <2>1, LeastSubset
<1>2. T \subseteq S /\ ~Any(T) /\ \A V \in SUBSET T : V # T => Any(V)
  <2>1. \A V \in SUBSET T : V \in SUBSET S
    OBVIOUS
  <2> HIDE DEF Any
  <2> QED BY <1>1, <2>1
<1>3. PICK y \in T : SumFunctionOnSet(f, T) # f[y] + SumFunctionOnSet(f, T \ {y})
  BY <1>2
<1> DEFINE p == AnyOf(T)
<1>4. p \in T /\ SumFunctionOnSet(f, T) = f[p] + SumFunctionOnSet(f, T \ {p})
  <2>1. p \in T
    BY <1>3 DEF AnyOf
  <2>2. IsFiniteSet(T)
    BY <1>2, FS_Subset
  <2> QED BY <2>1, <2>2, SumRec
<1> HIDE DEF p
<1>5. p # y
  BY <1>3, <1>4
<1>6. /\ SumFunctionOnSet(f, T \ {p}) = f[y] + SumFunctionOnSet(f, (T \ {p}) \ {y})
      /\ SumFunctionOnSet(f, T \ {y}) = f[p] + SumFunctionOnSet(f, (T \ {y}) \ {p})
  <2>1. T \ {p} \in SUBSET T /\ T \ {p} # T /\ y \in T \ {p}
    BY <1>3, <1>4, <1>5
  <2>2. T \ {y} \in SUBSET T /\ T \ {y} # T /\ p \in T \ {y}
    BY <1>3, <1>4, <1>5
  <2> QED BY <1>2, <2>1, <2>2
<1>7. (T \ {p}) \ {y} = (T \ {y}) \ {p}
  OBVIOUS
<1>8. SumFunctionOnSet(f, (T \ {p}) \ {y}) \in Int /\ f[p] \in Int /\ f[y] \in Int
  <2>1. (T \ {p}) \ {y} \in SUBSET S /\ \A z \in (T \ {p}) \ {y} : f[z] \in Int
    BY <1>2
  <2>2. IsFiniteSet((T \ {p}) \ {y})
    BY <2>1, FS_Subset
  <2> QED BY <1>2, <1>3, <1>4, <2>1, <2>2, SumType
<1> DEFINE rest == SumFunctionOnSet(f, (T \ {p}) \ {y})
<1>9. /\ SumFunctionOnSet(f, T \ {p}) = f[y] + rest
      /\ SumFunctionOnSet(f, T \ {y}) = f[p] + rest /\ rest \in Int
  BY <1>6, <1>7, <1>8, Zenon
<1> HIDE DEF rest
<1> QED BY <1>3, <1>4, <1>8, <1>9

LEMMA SumAdd ==
  ASSUME NEW f, NEW S, IsFiniteSet(S), NEW x, x \notin S, \A y \in S \cup {x} : f[y] \in Int
  PROVE  SumFunctionOnSet(f, S \cup {x}) = f[x] + SumFunctionOnSet(f, S)
<1>1. IsFiniteSet(S \cup {x}) /\ x \in S \cup {x} /\ (S \cup {x}) \ {x} = S
  BY FS_AddElement
<1> QED BY <1>1, SumRemove

\* The sum over a part is the sum less that over the rest.
LEMMA SumPart ==
  ASSUME NEW f, NEW S, IsFiniteSet(S), \A y \in S : f[y] \in Int, NEW R \in SUBSET S
  PROVE  SumFunctionOnSet(f, S \ R) = SumFunctionOnSet(f, S) - SumFunctionOnSet(f, R)
<1> DEFINE Less(T) == SumFunctionOnSet(f, S \ T) = SumFunctionOnSet(f, S) - SumFunctionOnSet(f, T)
           B == {T \in SUBSET S : ~Less(T)}
<1> SUFFICES ASSUME R \in B PROVE FALSE
  OBVIOUS
<1>1. PICK T \in B : \A V \in B : V \subseteq T => V = T
  <2>1. B \in SUBSET (SUBSET S) /\ B # {}
    OBVIOUS
  <2> HIDE DEF B
  <2> QED BY <2>1, LeastSubset
<1>2. T \subseteq S /\ ~Less(T) /\ IsFiniteSet(T) /\ \A V \in SUBSET T : V # T => Less(V)
  <2>1. \A V \in SUBSET T : V \in SUBSET S
    OBVIOUS
  <2>2. T \in SUBSET S /\ ~Less(T)
    OBVIOUS
  <2> HIDE DEF Less
  <2> QED BY <1>1, <2>1, <2>2, FS_Subset
<1>3. SumFunctionOnSet(f, S) \in Int
  BY SumType
<1>4. CASE T = {}
  <2>1. SumFunctionOnSet(f, {}) = 0
    BY SumRec, FS_EmptySet
  <2>2. S \ T = S
    BY <1>4
  <2> QED BY <1>2, <1>3, <1>4, <2>1, <2>2
<1>5. CASE T # {}
  <2>1. PICK x \in T : TRUE
    BY <1>5
  <2> DEFINE V == T \ {x}
  <2>2. SumFunctionOnSet(f, S \ V) = SumFunctionOnSet(f, S) - SumFunctionOnSet(f, V)
    <3>1. V \in SUBSET T /\ V # T
      OBVIOUS
    <3> HIDE DEF V
    <3> QED BY <1>2, <3>1
  <2>3. SumFunctionOnSet(f, T) = f[x] + SumFunctionOnSet(f, V)
    BY <1>2, SumRemove
  <2>4. SumFunctionOnSet(f, S \ V) = f[x] + SumFunctionOnSet(f, S \ T)
    <3>1. S \ V \subseteq S /\ x \in S \ V /\ (S \ V) \ {x} = S \ T
      BY <1>2
    <3>2. IsFiniteSet(S \ V)
      BY <3>1, FS_Subset
    <3> HIDE DEF V
    <3>3. \A y \in S \ V : f[y] \in Int
      BY <3>1
    <3>4. SumFunctionOnSet(f, S \ V) = f[x] + SumFunctionOnSet(f, (S \ V) \ {x})
      BY <3>1, <3>2, <3>3, SumRemove
    <3> QED BY <3>1, <3>4
  <2>5. SumFunctionOnSet(f, V) \in Int /\ SumFunctionOnSet(f, S \ T) \in Int /\ f[x] \in Int
    <3>1. IsFiniteSet(V) /\ IsFiniteSet(S \ T)
      BY <1>2, FS_Subset
    <3> QED BY <1>2, <3>1, SumType
  <2> HIDE DEF V
  <2> QED BY <1>2, <1>3, <2>2, <2>3, <2>4, <2>5
<1> QED BY <1>4, <1>5


\* The sum over two sets that have nothing in common.
LEMMA SumUnion ==
  ASSUME NEW f, NEW R, NEW S, IsFiniteSet(R), IsFiniteSet(S), R \cap S = {},
         \A x \in R \cup S : f[x] \in Int
  PROVE  SumFunctionOnSet(f, R \cup S) = SumFunctionOnSet(f, R) + SumFunctionOnSet(f, S)
<1> DEFINE T == R \cup S
<1>1. IsFiniteSet(T) /\ R \in SUBSET T /\ T \ R = S
  BY FS_Union
<1> HIDE DEF T
<1>2. \A x \in T : f[x] \in Int
  BY DEF T
<1>3. SumFunctionOnSet(f, T \ R) = SumFunctionOnSet(f, T) - SumFunctionOnSet(f, R)
  BY <1>1, <1>2, SumPart
<1>4. SumFunctionOnSet(f, T) \in Int /\ SumFunctionOnSet(f, R) \in Int
  BY <1>1, <1>2, SumType
<1>5. SumFunctionOnSet(f, S) = SumFunctionOnSet(f, T) - SumFunctionOnSet(f, R)
  BY <1>1, <1>3
<1>6. SumFunctionOnSet(f, T) = SumFunctionOnSet(f, R) + SumFunctionOnSet(f, S)
  BY <1>4, <1>5
<1> QED BY <1>6 DEF T

\* The sum of the sums of groups that have nothing in common is the sum over all.
LEMMA SumGroups ==
  ASSUME NEW f, NEW I, NEW G, NEW g, IsFiniteSet(I),
         \A i \in I : IsFiniteSet(G[i]) /\ \A x \in G[i] : f[x] \in Int,
         \A i, j \in I : i # j => G[i] \cap G[j] = {},
         \A i \in I : g[i] = SumFunctionOnSet(f, G[i])
  PROVE  /\ IsFiniteSet(UNION {G[i] : i \in I})
         /\ SumFunctionOnSet(g, I) = SumFunctionOnSet(f, UNION {G[i] : i \in I})
<1> DEFINE All(J) == UNION {G[i] : i \in J}
           Whole(J) == /\ IsFiniteSet(All(J))
                       /\ SumFunctionOnSet(g, J) = SumFunctionOnSet(f, All(J))
           B == {J \in SUBSET I : ~Whole(J)}
<1> SUFFICES ASSUME I \in B PROVE FALSE
  OBVIOUS
<1>1. PICK J \in B : \A V \in B : V \subseteq J => V = J
  <2>1. B \in SUBSET (SUBSET I) /\ B # {}
    OBVIOUS
  <2> HIDE DEF B
  <2> QED BY <2>1, LeastSubset
<1>2. J \subseteq I /\ ~Whole(J) /\ IsFiniteSet(J) /\ \A V \in SUBSET J : V # J => Whole(V)
  <2>1. \A V \in SUBSET J : V \in SUBSET I
    OBVIOUS
  <2>2. J \in SUBSET I /\ ~Whole(J)
    OBVIOUS
  <2> HIDE DEF Whole
  <2> QED BY <1>1, <2>1, <2>2, FS_Subset
<1>3. CASE J = {}
  <2>1. All(J) = {}
    BY <1>3
  <2>2. SumFunctionOnSet(g, {}) = 0 /\ SumFunctionOnSet(f, {}) = 0 /\ IsFiniteSet({})
    BY SumRec, FS_EmptySet
  <2> HIDE DEF All
  <2> QED BY <1>2, <1>3, <2>1, <2>2
<1>4. CASE J # {}
  <2>1. PICK i \in J : TRUE
    BY <1>4
  <2> DEFINE V == J \ {i}
  <2>2. V \in SUBSET J /\ V # J
    OBVIOUS
  <2>3. All(J) = G[i] \cup All(V)
    OBVIOUS
  <2>4. G[i] \cap All(V) = {}
    BY <1>2
  <2>5. IsFiniteSet(G[i]) /\ \A x \in G[i] \cup All(V) : f[x] \in Int
    BY <1>2
  <2>6. \A j \in J : g[j] \in Int
    <3> SUFFICES ASSUME NEW j \in J PROVE g[j] \in Int
      OBVIOUS
    <3>1. IsFiniteSet(G[j]) /\ (\A x \in G[j] : f[x] \in Int) /\ g[j] = SumFunctionOnSet(f, G[j])
      BY <1>2
    <3> QED BY <3>1, SumType
  <2> HIDE DEF V
  <2>7. Whole(V)
    BY <1>2, <2>2
  <2>8. IsFiniteSet(All(V)) /\ SumFunctionOnSet(g, V) = SumFunctionOnSet(f, All(V))
    BY <2>7
  <2> HIDE DEF All
  <2>9. IsFiniteSet(All(J)) /\ SumFunctionOnSet(f, All(J))
                                 = SumFunctionOnSet(f, G[i]) + SumFunctionOnSet(f, All(V))
    <3>1. IsFiniteSet(G[i] \cup All(V))
      BY <2>5, <2>8, FS_Union
    <3>2. SumFunctionOnSet(f, G[i] \cup All(V))
            = SumFunctionOnSet(f, G[i]) + SumFunctionOnSet(f, All(V))
      BY <2>4, <2>5, <2>8, SumUnion
    <3> QED BY <2>3, <3>1, <3>2
  <2>10. SumFunctionOnSet(g, J) = g[i] + SumFunctionOnSet(g, V)
    BY <1>2, <2>6, SumRemove DEF V
  <2>11. g[i] = SumFunctionOnSet(f, G[i])
    BY <1>2
  <2> QED BY <1>2, <2>8, <2>9, <2>10, <2>11
<1> QED BY <1>3, <1>4
=============================================================================
