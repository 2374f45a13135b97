----------------------------- MODULE FiniteSums -----------------------------
(***************************************************************************)
(* What sums over finite sets do, such as the points that are paid to a    *)
(* user for his wallets: they are numbers, take their terms in any order   *)
(* and grow with them.  The library's induction theorems take an operator  *)
(* as parameter, so induction is by a smallest counterexample, a set       *)
(* (SubsetInduction).                                                      *)
(***************************************************************************)
EXTENDS Integers, FiniteSets, FiniteSetsExt, FiniteSetTheorems, WellFoundedInduction,
        TLAPS

\* The sum of f over S, as SumFunctionOnSet has it.
SumOver(f, S) == MapThenSumSet(LAMBDA w : f[w], S)

\* The function by which MapThenSumSet defines the sum over a set.
Summand(f, g, T) ==
  IF T = {} THEN 0 ELSE f[CHOOSE x \in T : TRUE] + g[T \ {CHOOSE x \in T : TRUE}]

\* g gives the sum of f over each subset of S.
Sums(f, g, S) == g = [T \in SUBSET S |-> Summand(f, g, T)]

\* A sum is what such a function gives.
LEMMA SumIs == ASSUME NEW f, NEW S PROVE SumOver(f, S) = (CHOOSE g : Sums(f, g, S))[S]
BY DEF SumOver, MapThenSumSet, MapThenFoldSet, Sums, Summand

\* Of some numbers one is the smallest.
LEMMA SmallestIn ==
  ASSUME NEW S \in SUBSET Nat, S # {}
  PROVE  \E n \in S : \A m \in S : n <= m
<1> DEFINE R == OpToRel(<, Nat)
<1>1. IsWellFoundedOn(R, Nat)
  BY NatLessThanWellFounded
<1>2. \A m, n \in Nat : m < n => <<m, n>> \in R
  BY DEF OpToRel
<1> HIDE DEF R
<1>3. PICK n \in S : \A m \in S : ~(<<m, n>> \in R)
  BY <1>1, WFMin
<1>4. ASSUME NEW m \in S
      PROVE  n <= m
  <2>1. m \in Nat /\ n \in Nat /\ ~(<<m, n>> \in R)
    BY <1>3
  <2>2. ~(m < n)
    BY <1>2, <2>1
  <2>3. QED  BY ONLY <2>1, <2>2
<1>5. QED  BY <1>4

\* Of a set of subsets of a finite set, one has no smaller one in it.
LEMMA SmallestSubset ==
  ASSUME NEW S, IsFiniteSet(S), NEW B \in SUBSET (SUBSET S), B # {}
  PROVE  \E T \in B : \A U \in B : ~(U \subseteq T /\ U # T)
<1> DEFINE N == {Cardinality(T) : T \in B}
<1>1. \A T \in B : IsFiniteSet(T) /\ Cardinality(T) \in Nat
  BY FS_Subset, FS_CardinalityType
<1>2. N \in SUBSET Nat /\ N # {}
  BY <1>1
<1>3. PICK n \in N : \A m \in N : n <= m
  <2> HIDE DEF N
  <2>1. QED  BY <1>2, SmallestIn
<1>4. PICK T \in B : n = Cardinality(T)
  OBVIOUS
<1>5. ASSUME NEW U \in B, U \subseteq T, U # T
      PROVE  FALSE
  <2>1. IsFiniteSet(T) /\ Cardinality(U) <= Cardinality(T)
    BY <1>1, <1>5, FS_Subset
  <2>2. Cardinality(U) # Cardinality(T)
    BY <1>5, <2>1, FS_Subset
  <2>3. Cardinality(T) <= Cardinality(U)
    BY <1>3, <1>4
  <2>4. QED  BY <1>1, <2>1, <2>2, <2>3
<1>6. QED  BY <1>5

\* The functions by which sums over different sets are defined agree on what
\* they have in common.
LEMMA SumsAgree ==
  ASSUME NEW f, NEW S, NEW g, NEW T, NEW h, IsFiniteSet(S), Sums(f, g, S), Sums(f, h, T),
         NEW U, U \subseteq S, U \subseteq T
  PROVE  g[U] = h[U]
<1> DEFINE Bad == {V \in SUBSET U : g[V] # h[V]}
<1> SUFFICES ASSUME Bad # {}
             PROVE  FALSE
  OBVIOUS
<1>1. IsFiniteSet(U)
  BY FS_Subset
<1>2. PICK V \in Bad : \A W \in Bad : ~(W \subseteq V /\ W # V)
  <2>1. Bad \in SUBSET (SUBSET U) /\ Bad # {}
    OBVIOUS
  <2> HIDE DEF Bad
  <2>2. QED  BY <1>1, <2>1, SmallestSubset
<1>3. g[V] = Summand(f, g, V) /\ h[V] = Summand(f, h, V)
  BY DEF Sums
<1>4. V # {}
  BY <1>3 DEF Summand
<1> DEFINE x == CHOOSE y \in V : TRUE
<1>5. x \in V
  BY <1>4
<1>6. g[V \ {x}] = h[V \ {x}]
  BY <1>2, <1>5
<1>7. QED  BY <1>3, <1>4, <1>6 DEF Summand

\* There is one for each finite set.
LEMMA SumsExist ==
  ASSUME NEW f, NEW S, IsFiniteSet(S)
  PROVE  \E g : Sums(f, g, S)
<1> DEFINE Bad == {T \in SUBSET S : ~ \E g : Sums(f, g, T)}
<1> SUFFICES ASSUME Bad # {}
             PROVE  FALSE
  OBVIOUS
<1>1. PICK T \in Bad : \A U \in Bad : ~(U \subseteq T /\ U # T)
  <2>1. Bad \in SUBSET (SUBSET S) /\ Bad # {}
    OBVIOUS
  <2> HIDE DEF Bad
  <2>2. QED  BY <2>1, SmallestSubset
<1> DEFINE G(U) == CHOOSE g : Sums(f, g, U)
<1>2. \A U \in SUBSET T : U # T => Sums(f, G(U), U)
  BY <1>1
<1> DEFINE x == CHOOSE y \in T : TRUE
           at(U) == IF U # T THEN G(U)[U] ELSE Summand(f, G(T \ {x}), T)
           g == [U \in SUBSET T |-> at(U)]
<1>3. ASSUME NEW U \in SUBSET T
      PROVE  g[U] = Summand(f, g, U)
  <2> HIDE DEF G
  <2> DEFINE y == CHOOSE z \in U : TRUE
  <2>1. CASE U # T /\ U = {}
    <3>1. G(U)[U] = Summand(f, G(U), U)
      BY <1>2, <2>1 DEF Sums
    <3>2. QED  BY <2>1, <3>1 DEF Summand
  <2>2. CASE U # T /\ U # {}
    <3>1. G(U)[U] = Summand(f, G(U), U) /\ Sums(f, G(U), U)
      BY <1>2, <2>2 DEF Sums
    <3>2. y \in U /\ U \ {y} \in SUBSET T /\ U \ {y} # T
      BY <2>2
    <3>3. Sums(f, G(U \ {y}), U \ {y})
      BY <1>2, <3>2
    <3>4. IsFiniteSet(U)
      BY FS_Subset
    <3>5. G(U)[U \ {y}] = G(U \ {y})[U \ {y}]
      <4> HIDE DEF y
      <4>1. QED BY <3>1, <3>3, <3>4, SumsAgree
    <3>6. g[U \ {y}] = G(U \ {y})[U \ {y}] /\ g[U] = G(U)[U]
      BY <2>2, <3>2
    <3> HIDE DEF g
    <3>7. QED  BY <2>2, <3>1, <3>5, <3>6 DEF Summand
  <2>3. CASE U = T /\ T = {}
    BY <2>3 DEF Summand
  <2>4. CASE U = T /\ T # {}
    <3>1. x \in T /\ T \ {x} \in SUBSET T /\ T \ {x} # T
      BY <2>4
    <3>2. g[T \ {x}] = G(T \ {x})[T \ {x}] /\ g[U] = Summand(f, G(T \ {x}), T)
      BY <2>4, <3>1
    <3> HIDE DEF g
    <3>3. QED  BY <2>4, <3>2 DEF Summand
  <2>5. QED  BY <2>1, <2>2, <2>3, <2>4
<1>4. Sums(f, g, T)
  <2>1. \A U \in SUBSET T : at(U) = Summand(f, g, U)
    BY <1>3
  <2> HIDE DEF at
  <2>2. QED  BY <2>1 DEF Sums
<1>5. QED  BY <1>1, <1>4

\* The recursion by which sums are meant.
LEMMA SumIsRecursive ==
  ASSUME NEW f, NEW S, IsFiniteSet(S)
  PROVE  /\ SumOver(f, {}) = 0
         /\ S # {} => \E x \in S : SumOver(f, S) = f[x] + SumOver(f, S \ {x})
<1> DEFINE G(T) == CHOOSE g : Sums(f, g, T)
<1>1. \A T : SumOver(f, T) = G(T)[T]
  BY SumIs
<1>2. \A T \in SUBSET S : Sums(f, G(T), T)
  BY SumsExist, FS_Subset
<1> HIDE DEF G
<1>3. \A T \in SUBSET S : G(T)[T] = Summand(f, G(T), T)
  BY <1>2 DEF Sums
<1>4. SumOver(f, {}) = 0
  BY <1>1, <1>3 DEF Summand
<1>5. ASSUME S # {}
      PROVE  \E x \in S : SumOver(f, S) = f[x] + SumOver(f, S \ {x})
  <2> DEFINE x == CHOOSE y \in S : TRUE
  <2>1. x \in S /\ S \ {x} \in SUBSET S
    BY <1>5
  <2>2. G(S)[S] = f[x] + G(S)[S \ {x}]
    BY <1>3, <1>5 DEF Summand
  <2>3. G(S)[S \ {x}] = G(S \ {x})[S \ {x}]
    <3> HIDE DEF x
    <3>1. Sums(f, G(S), S) /\ Sums(f, G(S \ {x}), S \ {x})
      BY <1>2, <2>1
    <3>2. QED  BY <3>1, SumsAgree
  <2> HIDE DEF x
  <2>4. QED  BY <1>1, <2>1, <2>2, <2>3
<1>6. QED  BY <1>4, <1>5

\* Induction over the subsets of a finite set.
LEMMA SubsetInduction ==
  ASSUME NEW S, IsFiniteSet(S), NEW Good,
         \A T \in SUBSET S : (\A U \in SUBSET T : U # T => U \in Good) => T \in Good
  PROVE  S \in Good
<1> DEFINE Bad == {T \in SUBSET S : T \notin Good}
<1> SUFFICES ASSUME Bad # {}
             PROVE  FALSE
  OBVIOUS
<1>1. PICK T \in Bad : \A U \in Bad : ~(U \subseteq T /\ U # T)
  <2>1. Bad \in SUBSET (SUBSET S) /\ Bad # {}
    OBVIOUS
  <2> HIDE DEF Bad
  <2>2. QED  BY <2>1, SmallestSubset
<1>2. QED  BY <1>1

\* A set of numbers that is closed under addition holds the sums of its members.
LEMMA SumIsIn ==
  ASSUME NEW N, 0 \in N, \A a, b \in N : a + b \in N,
         NEW f, NEW S, IsFiniteSet(S), \A w \in S : f[w] \in N
  PROVE  SumOver(f, S) \in N
<1> DEFINE Good == {T \in SUBSET S : SumOver(f, T) \in N}
<1>1. ASSUME NEW T \in SUBSET S, \A U \in SUBSET T : U # T => U \in Good
      PROVE  SumOver(f, T) \in N
  <2>1. IsFiniteSet(T)
    BY FS_Subset
  <2>2. CASE T = {}
    BY <2>1, <2>2, SumIsRecursive
  <2>3. CASE T # {}
    <3>1. PICK x \in T : SumOver(f, T) = f[x] + SumOver(f, T \ {x})
      BY <2>1, <2>3, SumIsRecursive
    <3>2. SumOver(f, T \ {x}) \in N /\ f[x] \in N
      BY <1>1
    <3>3. QED  BY <3>1, <3>2
  <2>4. QED  BY <2>2, <2>3
<1>2. S \in Good
  <2>1. \A T \in SUBSET S : (\A U \in SUBSET T : U # T => U \in Good) => T \in Good
    BY <1>1
  <2> HIDE DEF Good
  <2>2. QED  BY <2>1, SubsetInduction
<1>3. QED  BY <1>2

\* Sums of integers are integers, sums of naturals naturals.
LEMMA SumIsInt ==
  ASSUME NEW f, NEW S, IsFiniteSet(S)
  PROVE  /\ (\A w \in S : f[w] \in Int) => SumOver(f, S) \in Int
         /\ (\A w \in S : f[w] \in Nat) => SumOver(f, S) \in Nat
<1>1. /\ 0 \in Int /\ \A a, b \in Int : a + b \in Int
      /\ 0 \in Nat /\ \A a, b \in Nat : a + b \in Nat
  OBVIOUS
<1>2. ASSUME \A w \in S : f[w] \in Int
      PROVE  SumOver(f, S) \in Int
  BY ONLY <1>1, <1>2, SumIsIn, IsFiniteSet(S)
<1>3. ASSUME \A w \in S : f[w] \in Nat
      PROVE  SumOver(f, S) \in Nat
  BY ONLY <1>1, <1>3, SumIsIn, IsFiniteSet(S)
<1>4. QED  BY <1>2, <1>3

\* Any element may be taken first.
LEMMA SumTakes ==
  ASSUME NEW f, NEW S, IsFiniteSet(S), \A w \in S : f[w] \in Int, NEW x \in S
  PROVE  SumOver(f, S) = f[x] + SumOver(f, S \ {x})
<1> DEFINE Good == {T \in SUBSET S : \A y \in T : SumOver(f, T) = f[y] + SumOver(f, T \ {y})}
<1>1. ASSUME NEW T \in SUBSET S, \A U \in SUBSET T : U # T => U \in Good, NEW y \in T
      PROVE  SumOver(f, T) = f[y] + SumOver(f, T \ {y})
  <2>1. IsFiniteSet(T) /\ T # {}
    BY FS_Subset
  <2>2. PICK z \in T : SumOver(f, T) = f[z] + SumOver(f, T \ {z})
    BY <2>1, SumIsRecursive
  <2>3. CASE z # y
    <3>1. SumOver(f, T \ {z}) = f[y] + SumOver(f, (T \ {z}) \ {y})
      BY <1>1, <2>3
    <3>2. SumOver(f, T \ {y}) = f[z] + SumOver(f, (T \ {y}) \ {z})
      BY <1>1, <2>3
    <3>3. (T \ {y}) \ {z} = (T \ {z}) \ {y}
      OBVIOUS
    <3>4. SumOver(f, (T \ {z}) \ {y}) \in Int
      BY <2>1, FS_Subset, SumIsInt
    <3>5. f[y] \in Int /\ f[z] \in Int
      OBVIOUS
    <3> DEFINE r == SumOver(f, (T \ {z}) \ {y})
    <3>6. SumOver(f, T \ {z}) = f[y] + r /\ SumOver(f, T \ {y}) = f[z] + r /\ r \in Int
      BY <3>1, <3>2, <3>3, <3>4
    <3> HIDE DEF r
    <3>7. QED  BY ONLY <2>2, <3>5, <3>6
  <2>4. QED  BY <2>2, <2>3
<1>2. S \in Good
  <2>1. \A T \in SUBSET S : (\A U \in SUBSET T : U # T => U \in Good) => T \in Good
    BY <1>1
  <2> HIDE DEF Good
  <2>2. QED  BY <2>1, SubsetInduction
<1>3. QED  BY <1>2

\* On S, h is f and over D also g.
Adds(h, f, g, D, S) ==
  /\ \A w \in S : f[w] \in Int
  /\ \A w \in S : h[w] = f[w] + IF w \in D THEN g[w] ELSE 0
  /\ \A w \in S \cap D : g[w] \in Int

\* What is added to some of the elements adds to the sum.
LEMMA SumGrows ==
  ASSUME NEW f, NEW g, NEW h, NEW D, NEW S, IsFiniteSet(S), Adds(h, f, g, D, S)
  PROVE  SumOver(h, S) = SumOver(f, S) + SumOver(g, S \cap D)
<1> USE DEF Adds
<1> DEFINE Good == {T \in SUBSET S : SumOver(h, T) = SumOver(f, T) + SumOver(g, T \cap D)}
<1>1. ASSUME NEW T \in SUBSET S, \A U \in SUBSET T : U # T => U \in Good
      PROVE  SumOver(h, T) = SumOver(f, T) + SumOver(g, T \cap D)
  <2>1. IsFiniteSet(T) /\ IsFiniteSet(T \cap D)
    BY FS_Subset
  <2>2. CASE T = {}
    <3>1. SumOver(f, {}) = 0 /\ SumOver(g, {}) = 0 /\ SumOver(h, {}) = 0 /\ T \cap D = {}
      BY <2>1, <2>2, SumIsRecursive
    <3>2. QED  BY <2>2, <3>1
  <2>3. CASE T # {}
    <3>1. PICK x \in T : SumOver(h, T) = h[x] + SumOver(h, T \ {x})
      BY <2>1, <2>3, SumIsRecursive
    <3>2. SumOver(h, T \ {x}) = SumOver(f, T \ {x}) + SumOver(g, (T \ {x}) \cap D)
      BY <1>1
    <3>3. SumOver(f, T) = f[x] + SumOver(f, T \ {x}) /\ SumOver(f, T \ {x}) \in Int
      <4>1. IsFiniteSet(T \ {x}) /\ \A w \in T : f[w] \in Int
        BY <2>1, FS_Subset
      <4>2. QED  BY <2>1, <4>1, SumTakes, SumIsInt
    <3>4. SumOver(g, (T \ {x}) \cap D) \in Int
      <4>1. IsFiniteSet((T \ {x}) \cap D) /\ \A w \in (T \ {x}) \cap D : g[w] \in Int
        BY <2>1, FS_Subset
      <4>2. QED  BY <4>1, SumIsInt
    <3>5. f[x] \in Int
      OBVIOUS
    <3>6. CASE x \in D
      <4>1. SumOver(g, T \cap D) = g[x] + SumOver(g, (T \cap D) \ {x})
        BY <2>1, <3>6, SumTakes
      <4>2. (T \cap D) \ {x} = (T \ {x}) \cap D
        OBVIOUS
      <4>3. h[x] = f[x] + g[x] /\ g[x] \in Int
        BY <3>6
      <4> DEFINE p == SumOver(f, T \ {x})
                 q == SumOver(g, (T \ {x}) \cap D)
      <4>4. /\ SumOver(h, T) = (f[x] + g[x]) + (p + q) /\ SumOver(f, T) = f[x] + p
            /\ SumOver(g, T \cap D) = g[x] + q /\ p \in Int /\ q \in Int
        BY <3>1, <3>2, <3>3, <3>4, <4>1, <4>2, <4>3
      <4> HIDE DEF p, q
      <4>5. QED  BY ONLY <3>5, <4>3, <4>4
    <3>7. CASE x \notin D
      <4>1. (T \ {x}) \cap D = T \cap D /\ h[x] = f[x]
        BY <3>5, <3>7
      <4> DEFINE p == SumOver(f, T \ {x})
                 q == SumOver(g, T \cap D)
      <4>2. /\ SumOver(h, T) = f[x] + (p + q) /\ SumOver(f, T) = f[x] + p
            /\ SumOver(g, T \cap D) = q /\ p \in Int /\ q \in Int
        BY <3>1, <3>2, <3>3, <3>4, <4>1
      <4> HIDE DEF p, q
      <4>3. QED  BY ONLY <3>5, <4>2
    <3>8. QED  BY <3>6, <3>7
  <2>4. QED  BY <2>2, <2>3
<1>2. S \in Good
  <2>1. \A T \in SUBSET S : (\A U \in SUBSET T : U # T => U \in Good) => T \in Good
    BY <1>1
  <2> HIDE DEF Good
  <2>2. QED  BY <2>1, SubsetInduction
<1>3. QED  BY <1>2

\* A sum of which one term falls, falls.
LEMMA SumShrinks ==
  ASSUME NEW S, IsFiniteSet(S), NEW f \in [S -> Nat], NEW g \in [S -> Nat],
         NEW x \in S, g[x] < f[x], \A w \in S \ {x} : g[w] = f[w]
  PROVE  SumOver(g, S) < SumOver(f, S)
<1> DEFINE fall == [w \in {x} |-> f[x] - g[x]]
<1>1. fall[x] = f[x] - g[x] /\ fall[x] \in Nat \ {0}
  BY SMT
<1> HIDE DEF fall
<1>2. Adds(f, g, fall, {x}, S)
  BY <1>1 DEF Adds
<1>3. SumOver(f, S) = SumOver(g, S) + SumOver(fall, S \cap {x})
  BY <1>2, SumGrows
<1>4. SumOver(fall, S \cap {x}) = fall[x]
  <2>1. IsFiniteSet({x}) /\ S \cap {x} = {x} /\ {x} \ {x} = {}
    BY FS_Singleton
  <2>2. SumOver(fall, {x}) = fall[x] + SumOver(fall, {x} \ {x})
    BY <1>1, <2>1, SumTakes
  <2>3. SumOver(fall, {}) = 0
    BY <2>1, SumIsRecursive
  <2>4. QED  BY <1>1, <2>1, <2>2, <2>3
<1>5. SumOver(g, S) \in Nat
  BY SumIsInt
<1>6. QED  BY <1>1, <1>3, <1>4, <1>5
=============================================================================
