---------------------------- MODULE SharedLemmas ----------------------------
(***************************************************************************)
(* Lemmas about operators that several components are built from: finite   *)
(* sums (SumFunctionOnSet of the community module Functions), updates of   *)
(* the maps of BpfMaps and the buckets of Bits.                            *)
(*                                                                         *)
(* The library states induction for an operator P(_), which the provers    *)
(* cannot be given.  Here it is stated for a set instead: a set of numbers *)
(* that is not empty has a least one (from the theorems about well-founded *)
(* relations), and so a set of finite sets has one of least cardinality.   *)
(* From these follow the laws of sums, for whatever order of the elements  *)
(* the definition of the fold chooses.                                     *)
(***************************************************************************)
EXTENDS BpfMaps, Sequences, Bits, FiniteSetTheorems, TLAPS

LEMMA LeastNumber ==
    ASSUME NEW N \in SUBSET Nat, N # {}
    PROVE  \E n \in N : \A m \in N : n <= m
<1>1. PICK n \in N : \A m \in N : ~(<<m, n>> \in OpToRel(<, Nat))
  BY NatLessThanWellFounded, WFMin, Zenon
<1>2. \A m \in N : ~(m < n)
  BY <1>1 DEF OpToRel
<1> QED
  BY <1>2

LEMMA NumberInduction ==
    ASSUME NEW N \in SUBSET Nat, 0 \in N, \A n \in N : n + 1 \in N
    PROVE  N = Nat
<1> SUFFICES ASSUME Nat \ N # {} PROVE FALSE
  OBVIOUS
<1>1. PICK n \in Nat \ N : \A m \in Nat \ N : n <= m
  BY LeastNumber
<1>2. n - 1 \in Nat
  BY <1>1
<1>3. n - 1 \in N
  BY <1>1, <1>2
<1> QED
  BY <1>1, <1>3

LEMMA SmallestSet ==
    ASSUME NEW F, F # {}, \A S \in F : IsFiniteSet(S)
    PROVE  \E S \in F : \A x \in S : S \ {x} \notin F
<1> DEFINE N == {Cardinality(S) : S \in F}
<1>1. N \in SUBSET Nat /\ N # {}
  BY FS_CardinalityType
<1>2. PICK n \in N : \A m \in N : n <= m
  <2> HIDE DEF N
  <2> QED
    BY <1>1, LeastNumber
<1>3. PICK S \in F : \A T \in F : Cardinality(S) <= Cardinality(T)
  BY <1>2
<1>4. ASSUME NEW x \in S PROVE Cardinality(S \ {x}) < Cardinality(S)
  <2>1. IsFiniteSet(S) /\ Cardinality(S) \in Nat
    BY FS_CardinalityType
  <2>2. Cardinality(S \ {x}) = Cardinality(S) - 1
    BY <2>1, FS_RemoveElement
  <2> QED
    BY <2>1, <2>2
<1>5. ASSUME NEW x \in S PROVE S \ {x} \notin F
  <2> SUFFICES ASSUME S \ {x} \in F PROVE FALSE
    OBVIOUS
  <2>1. Cardinality(S) <= Cardinality(S \ {x})
    BY <1>3
  <2>2. Cardinality(S) \in Nat /\ Cardinality(S \ {x}) \in Nat
    BY FS_CardinalityType
  <2> QED
    BY <1>4, <2>1, <2>2
<1> QED
  BY <1>5

LEMMA SetInduction ==
    ASSUME NEW S, IsFiniteSet(S), NEW F, {} \in F,
           \A T \in SUBSET S : \A x \in S \ T : T \in F => T \cup {x} \in F
    PROVE  S \in F
<1> DEFINE G == (SUBSET S) \ F
<1> SUFFICES ASSUME G # {} PROVE FALSE
  OBVIOUS
<1>1. \A T \in G : IsFiniteSet(T)
  BY FS_Subset
<1>2. PICK T \in G : \A x \in T : T \ {x} \notin G
  <2> HIDE DEF G
  <2> QED
    BY <1>1, SmallestSet
<1>3. PICK x \in T : TRUE
  OBVIOUS
<1>4. T \ {x} \in F /\ T \ {x} \in SUBSET S /\ x \in S \ (T \ {x})
  BY <1>2
<1>5. (T \ {x}) \cup {x} = T
  OBVIOUS
<1> QED
  BY <1>4, <1>5

-----------------------------------------------------------------------------
\* The function the definition of a sum chooses: h adds up f over each subset
\* of S, one chosen element after the other.
Chosen(T) == CHOOSE x \in T : TRUE

Adds(h, f, S) ==
    h = [T \in SUBSET S |-> IF T = {} THEN 0 ELSE f[Chosen(T)] + h[T \ {Chosen(T)}]]

LEMMA SumUnfold ==
    ASSUME NEW f, NEW S
    PROVE  SumFunctionOnSet(f, S) = (CHOOSE h : Adds(h, f, S))[S]
  BY DEF SumFunctionOnSet, FoldFunctionOnSet, MapThenFoldSet, Adds, Chosen

\* There is such a function: one that is right for the sets of at most n
\* elements can be made right for those of n + 1.
LEMMA AddsExists ==
    ASSUME NEW f, NEW S, IsFiniteSet(S)
    PROVE  \E h : Adds(h, f, S)
<1> DEFINE Step(h, T) == IF T = {} THEN 0 ELSE f[Chosen(T)] + h[T \ {Chosen(T)}]
           Right(h, n) ==
               /\ h = [T \in SUBSET S |-> h[T]]
               /\ \A T \in SUBSET S : Cardinality(T) <= n => h[T] = Step(h, T)
           N == {n \in Nat : \E h : Right(h, n)}
<1>0. \A T \in SUBSET S : IsFiniteSet(T) /\ Cardinality(T) \in Nat
  BY FS_Subset, FS_CardinalityType
<1>1. 0 \in N
  <2> DEFINE h == [T \in SUBSET S |-> 0]
  <2>1. \A T \in SUBSET S : Cardinality(T) <= 0 => T = {}
    BY <1>0, FS_EmptySet
  <2>2. h = [T \in SUBSET S |-> h[T]] /\ \A T \in SUBSET S : T = {} => h[T] = 0
    OBVIOUS
  <2> HIDE DEF h
  <2>3. Right(h, 0)
    BY <2>1, <2>2
  <2> QED
    BY <2>3
<1>2. ASSUME NEW n \in N PROVE n + 1 \in N
  <2>0. n \in Nat
    OBVIOUS
  <2>1. PICK h : Right(h, n)
    OBVIOUS
  <2> DEFINE g == [T \in SUBSET S |-> IF Cardinality(T) <= n THEN h[T]
                                      ELSE f[Chosen(T)] + h[T \ {Chosen(T)}]]
  <2>2. ASSUME NEW T \in SUBSET S, Cardinality(T) <= n + 1, T # {}
        PROVE  g[T] = f[Chosen(T)] + g[T \ {Chosen(T)}]
    <3>1. Chosen(T) \in T
      BY <2>2 DEF Chosen
    <3>2. T \ {Chosen(T)} \in SUBSET S /\ Cardinality(T \ {Chosen(T)}) = Cardinality(T) - 1
      BY <3>1, <1>0, FS_RemoveElement
    <3>3. Cardinality(T \ {Chosen(T)}) <= n
      BY <2>0, <3>2, <1>0, <2>2
    <3>4. g[T \ {Chosen(T)}] = h[T \ {Chosen(T)}]
      BY <3>3, <3>2
    <3>5. CASE Cardinality(T) <= n
      BY <3>5, <3>4, <2>1, <2>2
    <3>6. CASE ~(Cardinality(T) <= n)
      BY <3>6, <3>4
    <3> QED
      BY <3>5, <3>6
  <2>3. g[{}] = 0
    <3>1. {} \in SUBSET S /\ Cardinality({}) = 0 /\ 0 <= n
      BY <2>0, FS_EmptySet
    <3>2. h[{}] = 0
      BY <2>1, <3>1
    <3> QED
      BY <3>1, <3>2
  <2>4. g = [T \in SUBSET S |-> g[T]]
    OBVIOUS
  <2> HIDE DEF g
  <2>5. Right(g, n + 1)
    BY <2>2, <2>3, <2>4
  <2>6. \E k : Right(k, n + 1)
    BY <2>5
  <2> HIDE DEF Right
  <2> QED
    BY <2>0, <2>6
<1>3. Cardinality(S) \in N
  <2>1. N \in SUBSET Nat
    OBVIOUS
  <2> HIDE DEF N
  <2> QED
    BY <1>0, <1>1, <1>2, <2>1, NumberInduction
<1>4. PICK h : Right(h, Cardinality(S))
  BY <1>3
<1>5. \A T \in SUBSET S : Cardinality(T) <= Cardinality(S)
  BY FS_Subset
<1>6. Adds(h, f, S)
  BY <1>4, <1>5 DEF Adds
<1> QED
  BY <1>6

\* The functions for a set and for a part of it agree on the part.
LEMMA AddsUnique ==
    ASSUME NEW f, NEW S, IsFiniteSet(S), NEW T \in SUBSET S,
           NEW h, Adds(h, f, S), NEW g, Adds(g, f, T)
    PROVE  h[T] = g[T]
<1> DEFINE F == {U \in SUBSET T : h[U] # g[U]}
<1> SUFFICES ASSUME F # {} PROVE FALSE
  OBVIOUS
<1>1. \A U \in F : IsFiniteSet(U)
  BY FS_Subset
<1>2. PICK U \in F : \A x \in U : U \ {x} \notin F
  <2> HIDE DEF F
  <2> QED
    BY <1>1, SmallestSet
<1>3. U \in SUBSET S /\ U \in SUBSET T /\ U # {}
  BY <1>2 DEF Adds
<1>4. h[U \ {Chosen(U)}] = g[U \ {Chosen(U)}]
  BY <1>2, <1>3 DEF Chosen
<1>5. /\ h[U] = f[Chosen(U)] + h[U \ {Chosen(U)}]
      /\ g[U] = f[Chosen(U)] + g[U \ {Chosen(U)}]
  BY <1>3 DEF Adds
<1> QED
  BY <1>4, <1>5

-----------------------------------------------------------------------------
LEMMA SumEmpty ==
    ASSUME NEW f
    PROVE  SumFunctionOnSet(f, {}) = 0
<1>1. Adds(CHOOSE h : Adds(h, f, {}), f, {})
  BY AddsExists, FS_EmptySet
<1> QED
  BY <1>1, SumUnfold DEF Adds

LEMMA SumChosen ==
    ASSUME NEW f, NEW S, IsFiniteSet(S), S # {}
    PROVE  SumFunctionOnSet(f, S) = f[Chosen(S)] + SumFunctionOnSet(f, S \ {Chosen(S)})
<1> DEFINE T == S \ {Chosen(S)}
           h == CHOOSE k : Adds(k, f, S)
           g == CHOOSE k : Adds(k, f, T)
<1>1. T \in SUBSET S /\ IsFiniteSet(T)
  BY FS_Subset
<1>2. Adds(h, f, S)
  BY AddsExists
<1>3. Adds(g, f, T)
  BY <1>1, AddsExists
<1>4. SumFunctionOnSet(f, S) = h[S] /\ SumFunctionOnSet(f, T) = g[T]
  BY SumUnfold
<1>5. h[T] = g[T]
  <2> HIDE DEF T, h, g
  <2> QED
    BY <1>1, <1>2, <1>3, AddsUnique
<1>6. h[S] = f[Chosen(S)] + h[T]
  <2> HIDE DEF h
  <2> QED
    BY <1>2 DEF Adds
<1> QED
  BY <1>4, <1>5, <1>6

LEMMA SumInt ==
    ASSUME NEW S, IsFiniteSet(S), NEW f, \A x \in S : f[x] \in Int
    PROVE  SumFunctionOnSet(f, S) \in Int
<1> DEFINE F == {T \in SUBSET S : SumFunctionOnSet(f, T) \notin Int}
<1> SUFFICES ASSUME F # {} PROVE FALSE
  OBVIOUS
<1>1. \A U \in F : IsFiniteSet(U)
  BY FS_Subset
<1>2. PICK U \in F : \A x \in U : U \ {x} \notin F
  <2> HIDE DEF F
  <2> QED
    BY <1>1, SmallestSet
<1>3. U # {}
  BY SumEmpty
<1>4. Chosen(U) \in U /\ SumFunctionOnSet(f, U \ {Chosen(U)}) \in Int
  BY <1>2, <1>3 DEF Chosen
<1>5. SumFunctionOnSet(f, U) = f[Chosen(U)] + SumFunctionOnSet(f, U \ {Chosen(U)})
  BY <1>1, <1>3, SumChosen
<1> QED
  BY <1>4, <1>5

\* Any element may be added first, not only the chosen one.
LEMMA SumRemove ==
    ASSUME NEW S, IsFiniteSet(S), NEW f, \A x \in S : f[x] \in Int, NEW e \in S
    PROVE  SumFunctionOnSet(f, S) = f[e] + SumFunctionOnSet(f, S \ {e})
<1> DEFINE Sum(T) == SumFunctionOnSet(f, T)
           F == {T \in SUBSET S : \E x \in T : Sum(T) # f[x] + Sum(T \ {x})}
<1> SUFFICES ASSUME F # {} PROVE FALSE
  OBVIOUS
<1>1. \A U \in F : IsFiniteSet(U)
  BY FS_Subset
<1>2. PICK U \in F : \A x \in U : U \ {x} \notin F
  <2> HIDE DEF F
  <2> QED
    BY <1>1, SmallestSet
<1>3. PICK y \in U : Sum(U) # f[y] + Sum(U \ {y})
  OBVIOUS
<1> DEFINE z == Chosen(U)
           V == (U \ {y}) \ {z}
<1>4. z \in U /\ Sum(U) = f[z] + Sum(U \ {z})
  BY <1>1, SumChosen DEF Chosen
<1>5. z # y
  BY <1>3, <1>4
<1> HIDE DEF z
<1>6. /\ Sum(U \ {z}) = f[y] + Sum((U \ {z}) \ {y})
      /\ Sum(U \ {y}) = f[z] + Sum((U \ {y}) \ {z})
  BY <1>2, <1>4, <1>5
<1>7. (U \ {z}) \ {y} = V
  OBVIOUS
<1>8. f[y] \in Int /\ f[z] \in Int /\ Sum(V) \in Int
  <2>1. IsFiniteSet(V) /\ V \subseteq S
    BY FS_Subset
  <2> QED
    BY <1>4, <2>1, SumInt
<1>9. Sum(U) = f[z] + (f[y] + Sum(V)) /\ Sum(U \ {y}) = f[z] + Sum(V)
  BY <1>4, <1>6, <1>7, Zenon
<1> HIDE DEF V, Sum
<1> QED
  BY <1>3, <1>8, <1>9

LEMMA SumAdd ==
    ASSUME NEW S, IsFiniteSet(S), NEW f, NEW e, e \notin S,
           \A x \in S \cup {e} : f[x] \in Int
    PROVE  SumFunctionOnSet(f, S \cup {e}) = f[e] + SumFunctionOnSet(f, S)
<1>1. IsFiniteSet(S \cup {e}) /\ (S \cup {e}) \ {e} = S
  BY FS_AddElement
<1>2. SumFunctionOnSet(f, S \cup {e}) = f[e] + SumFunctionOnSet(f, (S \cup {e}) \ {e})
  BY <1>1, SumRemove
<1> QED
  BY <1>1, <1>2

\* A sum depends on nothing but the values that are added.
LEMMA SumSame ==
    ASSUME NEW S, IsFiniteSet(S), NEW f, NEW g,
           \A x \in S : f[x] \in Int /\ g[x] = f[x]
    PROVE  SumFunctionOnSet(g, S) = SumFunctionOnSet(f, S)
<1> DEFINE F == {T \in SUBSET S : SumFunctionOnSet(g, T) = SumFunctionOnSet(f, T)}
<1>1. {} \in F
  BY SumEmpty
<1>2. ASSUME NEW T \in SUBSET S, NEW x \in S \ T, T \in F PROVE T \cup {x} \in F
  <2>1. IsFiniteSet(T)
    BY FS_Subset
  <2>2. /\ SumFunctionOnSet(f, T \cup {x}) = f[x] + SumFunctionOnSet(f, T)
        /\ SumFunctionOnSet(g, T \cup {x}) = g[x] + SumFunctionOnSet(g, T)
    BY <2>1, SumAdd
  <2> QED
    BY <1>2, <2>2
<1>3. S \in F
  <2> HIDE DEF F
  <2> QED
    BY <1>1, <1>2, SetInduction
<1> QED
  BY <1>3

\* One value changes.
LEMMA SumUpdate ==
    ASSUME NEW S, IsFiniteSet(S), NEW f, NEW g, NEW e \in S,
           \A x \in S : f[x] \in Int /\ g[x] \in Int,
           \A x \in S \ {e} : g[x] = f[x]
    PROVE  SumFunctionOnSet(g, S) = SumFunctionOnSet(f, S) - f[e] + g[e]
<1>1. IsFiniteSet(S \ {e})
  BY FS_RemoveElement
<1>2. /\ SumFunctionOnSet(f, S) = f[e] + SumFunctionOnSet(f, S \ {e})
      /\ SumFunctionOnSet(g, S) = g[e] + SumFunctionOnSet(g, S \ {e})
  BY SumRemove
<1>3. SumFunctionOnSet(g, S \ {e}) = SumFunctionOnSet(f, S \ {e})
  BY <1>1, SumSame
<1>4. SumFunctionOnSet(f, S \ {e}) \in Int
  BY <1>1, SumInt
<1> QED
  BY <1>2, <1>3, <1>4

LEMMA SumMonotone ==
    ASSUME NEW S, IsFiniteSet(S), NEW f, NEW g,
           \A x \in S : f[x] \in Int /\ g[x] \in Int /\ f[x] <= g[x]
    PROVE  SumFunctionOnSet(f, S) <= SumFunctionOnSet(g, S)
<1> DEFINE F == {T \in SUBSET S : SumFunctionOnSet(f, T) <= SumFunctionOnSet(g, T)}
<1>1. {} \in F
  BY SumEmpty
<1>2. ASSUME NEW T \in SUBSET S, NEW x \in S \ T, T \in F PROVE T \cup {x} \in F
  <2>1. IsFiniteSet(T)
    BY FS_Subset
  <2>2. /\ SumFunctionOnSet(f, T \cup {x}) = f[x] + SumFunctionOnSet(f, T)
        /\ SumFunctionOnSet(g, T \cup {x}) = g[x] + SumFunctionOnSet(g, T)
    BY <2>1, SumAdd
  <2>3. SumFunctionOnSet(f, T) \in Int /\ SumFunctionOnSet(g, T) \in Int
    BY <2>1, SumInt
  <2> QED
    BY <1>2, <2>2, <2>3
<1>3. S \in F
  <2> HIDE DEF F
  <2> QED
    BY <1>1, <1>2, SetInduction
<1> QED
  BY <1>3

LEMMA SumZero ==
    ASSUME NEW S, IsFiniteSet(S), NEW f, \A x \in S : f[x] = 0
    PROVE  SumFunctionOnSet(f, S) = 0
<1> DEFINE F == {T \in SUBSET S : SumFunctionOnSet(f, T) = 0}
<1>1. {} \in F
  BY SumEmpty
<1>2. ASSUME NEW T \in SUBSET S, NEW x \in S \ T, T \in F PROVE T \cup {x} \in F
  <2>1. IsFiniteSet(T)
    BY FS_Subset
  <2>2. \A y \in T \cup {x} : f[y] \in Int
    OBVIOUS
  <2>3. SumFunctionOnSet(f, T \cup {x}) = f[x] + SumFunctionOnSet(f, T)
    BY <2>1, <2>2, SumAdd
  <2> QED
    BY <1>2, <2>3
<1>3. S \in F
  <2> HIDE DEF F
  <2> QED
    BY <1>1, <1>2, SetInduction
<1> QED
  BY <1>3

\* Sums of natural numbers are natural numbers, and no part of the elements adds
\* up to more than all of them.
LEMMA SumNat ==
    ASSUME NEW S, IsFiniteSet(S), NEW f, \A x \in S : f[x] \in Nat
    PROVE  SumFunctionOnSet(f, S) \in Nat
<1> DEFINE zero == [x \in S |-> 0]
<1>1. SumFunctionOnSet(zero, S) = 0
  BY SumZero
<1>2. SumFunctionOnSet(zero, S) <= SumFunctionOnSet(f, S)
  BY SumMonotone
<1>3. SumFunctionOnSet(f, S) \in Int
  BY SumInt
<1> QED
  BY <1>1, <1>2, <1>3

\* Elements that add nothing may be left out.
LEMMA SumSupport ==
    ASSUME NEW S, IsFiniteSet(S), NEW T \in SUBSET S, NEW f, NEW g,
           \A x \in T : f[x] \in Int /\ g[x] = f[x],
           \A x \in S \ T : g[x] = 0
    PROVE  SumFunctionOnSet(g, S) = SumFunctionOnSet(f, T)
<1> DEFINE Rest == S \ T
           F == {U \in SUBSET Rest : SumFunctionOnSet(g, T \cup U) = SumFunctionOnSet(f, T)}
<1>0. IsFiniteSet(T) /\ IsFiniteSet(Rest) /\ \A x \in S : g[x] \in Int
  BY FS_Subset
<1>1. {} \in F
  <2>1. T \cup {} = T /\ SumFunctionOnSet(g, T) = SumFunctionOnSet(f, T)
    BY <1>0, SumSame
  <2> QED
    BY <2>1
<1>2. ASSUME NEW U \in SUBSET Rest, NEW x \in Rest \ U, U \in F PROVE U \cup {x} \in F
  <2>1. /\ IsFiniteSet(T \cup U) /\ T \cup U \subseteq S
        /\ T \cup (U \cup {x}) = (T \cup U) \cup {x} /\ x \notin T \cup U
        /\ \A y \in (T \cup U) \cup {x} : g[y] \in Int
    BY <1>0, FS_Subset
  <2>2. SumFunctionOnSet(g, (T \cup U) \cup {x}) = g[x] + SumFunctionOnSet(g, T \cup U)
    BY <2>1, SumAdd
  <2>3. SumFunctionOnSet(f, T) \in Int /\ g[x] = 0
    BY <1>0, SumInt
  <2>4. SumFunctionOnSet(g, T \cup (U \cup {x})) = g[x] + SumFunctionOnSet(g, T \cup U)
    BY <2>1, <2>2, Zenon
  <2>5. SumFunctionOnSet(g, T \cup (U \cup {x})) = SumFunctionOnSet(f, T)
    BY <1>2, <2>3, <2>4
  <2> QED
    BY <2>5
<1>3. Rest \in F
  <2> HIDE DEF F, Rest
  <2> QED
    BY <1>0, <1>1, <1>2, SetInduction
<1>4. T \cup Rest = S
  OBVIOUS
<1> QED
  BY <1>3, <1>4

LEMMA SumOfPart ==
    ASSUME NEW S, IsFiniteSet(S), NEW f, \A x \in S : f[x] \in Nat, NEW T \in SUBSET S
    PROVE  SumFunctionOnSet(f, T) <= SumFunctionOnSet(f, S)
<1> DEFINE g == [x \in S |-> IF x \in T THEN f[x] ELSE 0]
<1>1. SumFunctionOnSet(g, S) = SumFunctionOnSet(f, T)
  BY SumSupport
<1>2. SumFunctionOnSet(g, S) <= SumFunctionOnSet(f, S)
  BY SumMonotone
<1> QED
  BY <1>1, <1>2

\* Values that are zero outside a set add up to no more than that set's.
LEMMA SumWithin ==
    ASSUME NEW S, IsFiniteSet(S), NEW f, \A x \in S : f[x] \in Nat,
           NEW A \in SUBSET S, NEW B \in SUBSET S, \A x \in A \ B : f[x] = 0
    PROVE  SumFunctionOnSet(f, A) <= SumFunctionOnSet(f, B)
<1>1. IsFiniteSet(A) /\ IsFiniteSet(B)
  BY FS_Subset
<1>2. SumFunctionOnSet(f, A) = SumFunctionOnSet(f, A \cap B)
  <2>1. A \cap B \in SUBSET A
    OBVIOUS
  <2>2. \A x \in A \cap B : f[x] \in Int
    OBVIOUS
  <2>3. \A x \in A \ (A \cap B) : f[x] = 0
    OBVIOUS
  <2> QED
    BY <1>1, <2>1, <2>2, <2>3, SumSupport
<1>3. SumFunctionOnSet(f, A \cap B) <= SumFunctionOnSet(f, B)
  BY <1>1, SumOfPart
<1> QED
  BY <1>2, <1>3

\* No value is more than the sum.
LEMMA SumOfOne ==
    ASSUME NEW S, IsFiniteSet(S), NEW f, \A x \in S : f[x] \in Nat, NEW e \in S
    PROVE  f[e] <= SumFunctionOnSet(f, S)
<1>1. SumFunctionOnSet(f, S) = f[e] + SumFunctionOnSet(f, S \ {e})
  BY SumRemove
<1>2. SumFunctionOnSet(f, S \ {e}) \in Nat
  BY SumNat, FS_RemoveElement
<1> QED
  BY <1>1, <1>2

\* The sum over two sets that have nothing in common, and over many.
LEMMA SumUnion ==
    ASSUME NEW A, IsFiniteSet(A), NEW B, IsFiniteSet(B), A \cap B = {},
           NEW f, \A x \in A \cup B : f[x] \in Int
    PROVE  SumFunctionOnSet(f, A \cup B) = SumFunctionOnSet(f, A) + SumFunctionOnSet(f, B)
<1> DEFINE F == {T \in SUBSET B : SumFunctionOnSet(f, A \cup T)
                                     = SumFunctionOnSet(f, A) + SumFunctionOnSet(f, T)}
<1>0. SumFunctionOnSet(f, A) \in Int
  BY SumInt
<1>1. {} \in F
  <2>1. A \cup {} = A
    OBVIOUS
  <2> QED
    BY <1>0, <2>1, SumEmpty
<1>2. ASSUME NEW T \in SUBSET B, NEW x \in B \ T, T \in F PROVE T \cup {x} \in F
  <2>1. /\ IsFiniteSet(T) /\ IsFiniteSet(A \cup T) /\ x \notin A \cup T
        /\ A \cup (T \cup {x}) = (A \cup T) \cup {x}
        /\ \A y \in (A \cup T) \cup {x} : f[y] \in Int
        /\ \A y \in T \cup {x} : f[y] \in Int
    BY FS_Subset, FS_Union
  <2>2. SumFunctionOnSet(f, (A \cup T) \cup {x}) = f[x] + SumFunctionOnSet(f, A \cup T)
    BY <2>1, SumAdd
  <2>3. SumFunctionOnSet(f, T \cup {x}) = f[x] + SumFunctionOnSet(f, T)
    BY <2>1, SumAdd
  <2>4. f[x] \in Int /\ SumFunctionOnSet(f, T) \in Int
    BY <2>1, SumInt
  <2>5. SumFunctionOnSet(f, A \cup T) = SumFunctionOnSet(f, A) + SumFunctionOnSet(f, T)
    BY <1>2
  <2>6. SumFunctionOnSet(f, A \cup (T \cup {x})) = SumFunctionOnSet(f, (A \cup T) \cup {x})
    BY <2>1, Zenon
  <2> QED
    BY <1>0, <2>2, <2>3, <2>4, <2>5, <2>6
<1>3. B \in F
  <2> HIDE DEF F
  <2> QED
    BY <1>1, <1>2, SetInduction
<1> QED
  BY <1>3

LEMMA SumOfParts ==
    ASSUME NEW I, IsFiniteSet(I), NEW S, IsFiniteSet(S), NEW f, \A x \in S : f[x] \in Int,
           NEW P \in [I -> SUBSET S], \A i, j \in I : i # j => P[i] \cap P[j] = {},
           NEW g, \A i \in I : g[i] = SumFunctionOnSet(f, P[i])
    PROVE  SumFunctionOnSet(g, I) = SumFunctionOnSet(f, UNION {P[i] : i \in I})
<1> DEFINE Part(J) == UNION {P[i] : i \in J}
           F == {J \in SUBSET I : SumFunctionOnSet(g, J) = SumFunctionOnSet(f, Part(J))}
<1>0. \A i \in I : P[i] \subseteq S /\ IsFiniteSet(P[i]) /\ g[i] \in Int
  <2>1. \A i \in I : P[i] \subseteq S
    OBVIOUS
  <2>2. \A i \in I : IsFiniteSet(P[i]) /\ \A x \in P[i] : f[x] \in Int
    BY <2>1, FS_Subset
  <2> QED
    BY <2>1, <2>2, SumInt
<1>1. {} \in F
  <2>1. Part({}) = {}
    OBVIOUS
  <2> QED
    BY <2>1, SumEmpty
<1>2. ASSUME NEW J \in SUBSET I, NEW k \in I \ J, J \in F PROVE J \cup {k} \in F
  <2>1. IsFiniteSet(J) /\ Part(J) \subseteq S /\ Part(J \cup {k}) = Part(J) \cup P[k]
    BY FS_Subset
  <2>2. Part(J) \cap P[k] = {}
    OBVIOUS
  <2> HIDE DEF Part
  <2>3. IsFiniteSet(Part(J)) /\ \A x \in Part(J) \cup P[k] : f[x] \in Int
    BY <1>0, <2>1, FS_Subset
  <2>4. SumFunctionOnSet(f, Part(J) \cup P[k]) = SumFunctionOnSet(f, Part(J)) + g[k]
    BY <1>0, <2>2, <2>3, SumUnion
  <2>5. SumFunctionOnSet(g, J \cup {k}) = g[k] + SumFunctionOnSet(g, J)
    BY <1>0, <2>1, SumAdd
  <2>6. SumFunctionOnSet(g, J) \in Int
    BY <1>0, <2>1, SumInt
  <2>7. SumFunctionOnSet(f, Part(J \cup {k})) = SumFunctionOnSet(f, Part(J) \cup P[k])
    BY <2>1, Zenon
  <2>8. SumFunctionOnSet(g, J) = SumFunctionOnSet(f, Part(J))
    BY <1>2
  <2> QED
    BY <1>0, <2>4, <2>5, <2>6, <2>7, <2>8
<1>3. I \in F
  <2> HIDE DEF F
  <2> QED
    BY <1>1, <1>2, SetInduction
<1> QED
  BY <1>3

\* The sum of a function that has an argument more.
LEMMA SumExtend ==
    ASSUME NEW f, NEW g, NEW e, e \notin DOMAIN f, DOMAIN g = DOMAIN f \cup {e},
           IsFiniteSet(DOMAIN f), \A x \in DOMAIN g : g[x] \in Int,
           \A x \in DOMAIN f : g[x] = f[x]
    PROVE  SumFunction(g) = SumFunction(f) + g[e]
<1> DEFINE S == DOMAIN f
<1>1. SumFunctionOnSet(g, S \cup {e}) = g[e] + SumFunctionOnSet(g, S)
  BY SumAdd
<1>2. SumFunctionOnSet(g, S) = SumFunctionOnSet(f, S)
  BY SumSame
<1>3. SumFunctionOnSet(g, S) \in Int
  BY SumInt
<1>4. SumFunction(g) = SumFunctionOnSet(g, S \cup {e}) /\ SumFunction(f) = SumFunctionOnSet(f, S)
  BY DEF SumFunction
<1> HIDE DEF S
<1>5. g[e] \in Int
  BY DEF S
<1> QED
  BY <1>1, <1>2, <1>3, <1>4, <1>5

LEMMA IntervalFacts ==
    ASSUME NEW n \in Nat
    PROVE  /\ IsFiniteSet(1..n) /\ n + 1 \notin 1..n
           /\ 1..n + 1 = (1..n) \cup {n + 1}
<1>1. IsFiniteSet(1..n)
  BY FS_Interval
<1> QED
  BY <1>1

\* The sum of a sequence, with an element more at its end or less at its head.
LEMMA SumAppend ==
    ASSUME NEW s \in Seq(Int), NEW x \in Int
    PROVE  SumFunction(Append(s, x)) = SumFunction(s) + x
<1> DEFINE t == Append(s, x)
           n == Len(s)
<1>1. /\ n \in Nat /\ DOMAIN s = 1..n /\ DOMAIN t = 1..n + 1
      /\ t[n + 1] = x /\ \A i \in 1..n : s[i] \in Int /\ t[i] = s[i]
  OBVIOUS
<1> HIDE DEF t, n
<1>2. SumFunctionOnSet(t, (1..n) \cup {n + 1}) = t[n + 1] + SumFunctionOnSet(t, 1..n)
  BY <1>1, IntervalFacts, SumAdd
<1>3. SumFunctionOnSet(t, 1..n) = SumFunctionOnSet(s, 1..n)
  BY <1>1, IntervalFacts, SumSame
<1>4. SumFunctionOnSet(s, 1..n) \in Int
  BY <1>1, IntervalFacts, SumInt
<1>5. SumFunction(t) = SumFunctionOnSet(t, (1..n) \cup {n + 1})
  BY <1>1, IntervalFacts DEF SumFunction
<1>6. SumFunction(s) = SumFunctionOnSet(s, 1..n)
  BY <1>1 DEF SumFunction
<1>7. SumFunction(t) = SumFunction(s) + x
  BY <1>1, <1>2, <1>3, <1>4, <1>5, <1>6
<1> QED
  BY <1>7 DEF t

LEMMA SumTail ==
    ASSUME NEW s \in Seq(Int), s # <<>>
    PROVE  SumFunction(s) = Head(s) + SumFunction(Tail(s))
<1> DEFINE t == Tail(s)
           n == Len(t)
           N == {m \in Nat : m <= n => SumFunctionOnSet(s, 1..m + 1)
                                         = s[1] + SumFunctionOnSet(t, 1..m)}
<1>1. /\ n \in Nat /\ DOMAIN s = 1..n + 1 /\ DOMAIN t = 1..n
      /\ \A i \in 1..n + 1 : s[i] \in Int
      /\ \A i \in 1..n : t[i] \in Int /\ t[i] = s[i + 1]
  OBVIOUS
<1> HIDE DEF t, n
<1>2. 0 \in N
  <2>1. 1..0 = {} /\ 1..0 + 1 = {} \cup {1}
    OBVIOUS
  <2>2. SumFunctionOnSet(s, {} \cup {1}) = s[1] + SumFunctionOnSet(s, {})
    <3>1. IsFiniteSet({}) /\ 1 \notin {} /\ \A x \in {} \cup {1} : s[x] \in Int
      BY <1>1, FS_EmptySet
    <3> QED
      BY <3>1, SumAdd
  <2>3. SumFunctionOnSet(s, {}) = SumFunctionOnSet(t, {})
    BY SumEmpty
  <2> QED
    BY <2>1, <2>2, <2>3
<1>3. ASSUME NEW m \in N PROVE m + 1 \in N
  <2>1. m \in Nat
    OBVIOUS
  <2> SUFFICES ASSUME m + 1 <= n
               PROVE  SumFunctionOnSet(s, 1..(m + 1) + 1)
                        = s[1] + SumFunctionOnSet(t, 1..m + 1)
    BY <2>1
  <2>2. SumFunctionOnSet(s, 1..m + 1) = s[1] + SumFunctionOnSet(t, 1..m)
    BY <1>1, <2>1
  <2>3. /\ 1..m \subseteq 1..n /\ 1..m + 1 \subseteq 1..n
        /\ 1..(m + 1) + 1 \subseteq 1..n + 1
    BY <1>1, <2>1
  <2>4. SumFunctionOnSet(t, (1..m) \cup {m + 1}) = t[m + 1] + SumFunctionOnSet(t, 1..m)
    BY <1>1, <2>1, <2>3, IntervalFacts, SumAdd
  <2>5. SumFunctionOnSet(s, (1..m + 1) \cup {(m + 1) + 1})
          = s[(m + 1) + 1] + SumFunctionOnSet(s, 1..m + 1)
    <3>1. m + 1 \in Nat
      BY <2>1
    <3>2. /\ IsFiniteSet(1..m + 1) /\ (m + 1) + 1 \notin 1..m + 1
          /\ (1..m + 1) \cup {(m + 1) + 1} \subseteq 1..n + 1
      BY <2>3, <3>1, IntervalFacts
    <3> QED
      BY <1>1, <3>2, SumAdd
  <2>6. t[m + 1] = s[(m + 1) + 1] /\ t[m + 1] \in Int /\ s[1] \in Int
    BY <1>1, <2>1
  <2>7. SumFunctionOnSet(t, 1..m) \in Int
    BY <1>1, <2>1, <2>3, IntervalFacts, SumInt
  <2>8. /\ 1..(m + 1) + 1 = (1..m + 1) \cup {(m + 1) + 1}
        /\ 1..m + 1 = (1..m) \cup {m + 1}
    BY <2>1
  <2>9. /\ SumFunctionOnSet(s, 1..(m + 1) + 1) = s[(m + 1) + 1] + SumFunctionOnSet(s, 1..m + 1)
        /\ SumFunctionOnSet(t, 1..m + 1) = t[m + 1] + SumFunctionOnSet(t, 1..m)
    BY <2>4, <2>5, <2>8
  <2> QED
    BY <2>2, <2>6, <2>7, <2>9
<1>4. n \in N
  <2>1. N \in SUBSET Nat
    OBVIOUS
  <2> HIDE DEF N
  <2> QED
    BY <1>1, <1>2, <1>3, <2>1, NumberInduction
<1>5. SumFunctionOnSet(s, 1..n + 1) = s[1] + SumFunctionOnSet(t, 1..n)
  BY <1>1, <1>4
<1>6. SumFunction(s) = Head(s) + SumFunction(t)
  BY <1>1, <1>5 DEF SumFunction
<1> QED
  BY <1>6 DEF t

-----------------------------------------------------------------------------
\* An update with BPF_NOEXIST adds at most one key and keeps every counter.
LEMMA UpdateNoExistFacts ==
    ASSUME NEW map, NEW k, NEW v, NEW capacity \in Nat,
           IsFiniteSet(DOMAIN map), Cardinality(DOMAIN map) <= capacity,
           NEW new, new = UpdateNoExist(map, k, v, capacity)
    PROVE  /\ IsFiniteSet(DOMAIN new)
           /\ Cardinality(DOMAIN new) <= capacity
           /\ DOMAIN map \subseteq DOMAIN new
           /\ DOMAIN new \subseteq DOMAIN map \cup {k}
           /\ \A x \in DOMAIN map : new[x] = map[x]
           /\ k \in DOMAIN new \/ Cardinality(DOMAIN new) >= capacity
           /\ k \in DOMAIN new /\ k \notin DOMAIN map => new[k] = v
           /\ DOMAIN new # DOMAIN map => Cardinality(DOMAIN map) < capacity
           /\ DOMAIN new = DOMAIN map => new = map
<1>0. Cardinality(DOMAIN map) \in Nat
  BY FS_CardinalityType
<1>1. CASE k \in DOMAIN map \/ ~(Cardinality(DOMAIN map) < capacity)
  <2>1. new = map
    BY <1>1 DEF UpdateNoExist, UpdateAny, HasRoom
  <2>2. k \in DOMAIN map \/ Cardinality(DOMAIN map) >= capacity
    BY <1>0, <1>1
  <2> QED
    BY <2>1, <2>2
<1>2. CASE k \notin DOMAIN map /\ Cardinality(DOMAIN map) < capacity
  <2>1. new = [x \in DOMAIN map \cup {k} |-> IF x = k THEN v ELSE map[x]]
    BY <1>2 DEF UpdateNoExist, UpdateAny, HasRoom, Put
  <2>2. DOMAIN new = DOMAIN map \cup {k}
    BY <2>1
  <2>3. /\ IsFiniteSet(DOMAIN map \cup {k})
        /\ Cardinality(DOMAIN map \cup {k}) = Cardinality(DOMAIN map) + 1
    BY <1>2, FS_AddElement
  <2>4. Cardinality(DOMAIN new) <= capacity
    BY <1>0, <1>2, <2>2, <2>3
  <2> QED
    BY <1>2, <2>1, <2>2, <2>3, <2>4
<1> QED
  BY <1>1, <1>2

\* An update of a map leaves it within its capacity and changes one key.
LEMMA UpdateAnyFacts ==
    ASSUME NEW map, NEW k, NEW v, NEW capacity \in Nat,
           IsFiniteSet(DOMAIN map), Cardinality(DOMAIN map) <= capacity
    PROVE  LET new == UpdateAny(map, k, v, capacity)
           IN  /\ IsFiniteSet(DOMAIN new)
               /\ Cardinality(DOMAIN new) <= capacity
               /\ DOMAIN map \subseteq DOMAIN new
               /\ DOMAIN new \subseteq DOMAIN map \cup {k}
               /\ k \in DOMAIN new => new[k] = v
               /\ \A x \in DOMAIN map : x # k => new[x] = map[x]
<1> DEFINE new == UpdateAny(map, k, v, capacity)
<1>0. Cardinality(DOMAIN map) \in Nat
  BY FS_CardinalityType
<1>1. CASE ~HasRoom(map, k, capacity)
  BY <1>1 DEF UpdateAny, HasRoom
<1>2. CASE HasRoom(map, k, capacity)
  <2>1. new = [x \in DOMAIN map \cup {k} |-> IF x = k THEN v ELSE map[x]]
    BY <1>2 DEF UpdateAny, Put
  <2>2. IsFiniteSet(DOMAIN new) /\ Cardinality(DOMAIN new) <= capacity
    <3>1. CASE k \in DOMAIN map
      <4>1. DOMAIN new = DOMAIN map
        BY <2>1, <3>1
      <4> QED
        BY <4>1
    <3>2. CASE k \notin DOMAIN map
      <4>1. Cardinality(DOMAIN map) < capacity
        BY <1>2, <3>2 DEF HasRoom
      <4>2. /\ IsFiniteSet(DOMAIN map \cup {k})
            /\ Cardinality(DOMAIN map \cup {k}) = Cardinality(DOMAIN map) + 1
        BY <3>2, FS_AddElement
      <4> QED
        BY <1>0, <2>1, <4>1, <4>2
    <3> QED
      BY <3>1, <3>2
  <2> QED
    BY <2>1, <2>2
<1> QED
  BY <1>1, <1>2

\* Forgetting a key leaves the others as they were.
LEMMA DeleteElemFacts ==
    ASSUME NEW map, NEW k, NEW capacity \in Nat,
           IsFiniteSet(DOMAIN map), Cardinality(DOMAIN map) <= capacity
    PROVE  LET new == DeleteElem(map, k)
           IN  /\ IsFiniteSet(DOMAIN new)
               /\ Cardinality(DOMAIN new) <= capacity
               /\ DOMAIN new = DOMAIN map \ {k}
               /\ \A x \in DOMAIN new : new[x] = map[x]
<1> DEFINE new == DeleteElem(map, k)
<1>1. new = [x \in DOMAIN map \ {k} |-> map[x]]
  BY DEF DeleteElem, Restrict
<1>2. DOMAIN new = DOMAIN map \ {k}
  BY <1>1
<1>3. DOMAIN new \subseteq DOMAIN map
  BY <1>2
<1>4. IsFiniteSet(DOMAIN new) /\ Cardinality(DOMAIN new) <= Cardinality(DOMAIN map)
  BY <1>3, FS_Subset
<1>5. Cardinality(DOMAIN map) \in Nat /\ Cardinality(DOMAIN new) \in Nat
  BY <1>4, FS_CardinalityType
<1> QED
  BY <1>1, <1>2, <1>4, <1>5

-----------------------------------------------------------------------------
\* The bucket of a value (Bits).  The provers do not know 2^k, except for a given
\* k, so its laws are stated up to the largest slot of a program, 27.
LEMMA Log2Type ==
    ASSUME NEW v \in Nat
    PROVE  Log2OfU64(v) \in Nat
<1>1. \A n \in Nat : Log2(n) \in Nat
  BY SMT DEF Log2
<1>2. (v \div 65536) \div 65536 \in Nat
  OBVIOUS
<1> QED
  BY <1>1, <1>2 DEF Log2OfU64, Log2l

\* A value is in the slots from k on if it is not below 2^k.
LEMMA Powers ==
    ASSUME NEW k \in 1..27
    PROVE  /\ 2^k \in Nat \ {0, 1}
           /\ \A v \in Nat : k <= Log2OfU64(v) <=> 2^k <= v
           /\ \A j \in 1..27 : j < k => 2^j < 2^k
<1> DEFINE Power(n) == 2^n
<1>1. /\ Power(1) = 2 /\ Power(2) = 4 /\ Power(3) = 8 /\ Power(4) = 16 /\ Power(5) = 32
      /\ Power(6) = 64 /\ Power(7) = 128 /\ Power(8) = 256 /\ Power(9) = 512
      /\ Power(10) = 1024 /\ Power(11) = 2048 /\ Power(12) = 4096 /\ Power(13) = 8192
      /\ Power(14) = 16384 /\ Power(15) = 32768 /\ Power(16) = 65536
      /\ Power(17) = 131072 /\ Power(18) = 262144 /\ Power(19) = 524288
      /\ Power(20) = 1048576 /\ Power(21) = 2097152 /\ Power(22) = 4194304
      /\ Power(23) = 8388608 /\ Power(24) = 16777216 /\ Power(25) = 33554432
      /\ Power(26) = 67108864 /\ Power(27) = 134217728
  OBVIOUS
<1> HIDE DEF Power
<1>2. Power(k) \in Nat \ {0, 1} /\ Power(k) <= 134217728
  BY <1>1
<1>3. ASSUME NEW v \in Nat PROVE k <= Log2OfU64(v) <=> Power(k) <= v
  <2>1. CASE (v \div 65536) \div 65536 # 0
    <3>1. v >= 134217728
      BY <2>1
    <3>2. PICK hi \in Nat : hi = (v \div 65536) \div 65536
      OBVIOUS
    <3>3. Log2OfU64(v) = Log2(hi) + 32 /\ Log2(hi) \in Nat
      <4>1. Log2OfU64(v) = Log2l(hi, v)
        BY <3>2, SMT DEF Log2OfU64
      <4>2. Log2l(hi, v) = Log2(hi) + 32
        BY <2>1, <3>2, SMT DEF Log2l
      <4>3. Log2(hi) \in Nat
        BY SMT DEF Log2
      <4> QED
        BY <4>1, <4>2, <4>3
    <3> QED
      BY <1>2, <3>1, <3>3
  <2>2. CASE (v \div 65536) \div 65536 = 0
    <3>1. Log2OfU64(v) = Log2(v)
      BY <2>2 DEF Log2OfU64, Log2l
    <3>2. k <= Log2(v) => Power(k) <= v
      BY <1>1, SMT DEF Log2
    <3>3. Power(k) <= v => k <= Log2(v)
      <4>1. CASE k \in 1..4
        BY <1>1, <2>2, <4>1, SMTT(60) DEF Log2
      <4>2. CASE k \in 5..8
        BY <1>1, <2>2, <4>2, SMTT(60) DEF Log2
      <4>3. CASE k \in 9..12
        BY <1>1, <2>2, <4>3, SMTT(60) DEF Log2
      <4>4. CASE k \in 13..16
        BY <1>1, <2>2, <4>4, SMTT(60) DEF Log2
      <4>5. CASE k \in 17..27
        BY <1>1, <2>2, <4>5, SMTT(60) DEF Log2
      <4> QED
        BY <4>1, <4>2, <4>3, <4>4, <4>5
    <3> QED
      BY <3>1, <3>2, <3>3
  <2> QED
    BY <2>1, <2>2
<1>4. \A j \in 1..27 : j < k => Power(j) < Power(k)
  BY <1>1
<1> QED
  BY <1>2, <1>3, <1>4 DEF Power

=============================================================================
