-------------------------------- MODULE Sums --------------------------------
(***************************************************************************)
(* Facts about least elements, about recursive functions and about sums    *)
(* over finite sets, which the proofs about the reports rest on.           *)
(***************************************************************************)
EXTENDS Integers, FiniteSetsExt, Functions, FiniteSetTheorems, WellFoundedInduction, TLAPS

-----------------------------------------------------------------------------
(* Least elements *)

\* A nonempty set of natural numbers has a least element.
LEMMA LeastNat ==
  ASSUME NEW S \in SUBSET Nat, S # {}
  PROVE  \E x \in S : \A y \in S : x <= y
<1>0. S \subseteq Nat
  OBVIOUS
<1>1. PICK x \in S : \A y \in S : <<y, x>> \notin OpToRel(<, Nat)
  BY <1>0, NatLessThanWellFounded, WFMin, Zenon
<1>2. ASSUME NEW y \in S PROVE ~(y < x)
<2>1. /\ x \in Nat /\ y \in Nat
      /\ <<y, x>> \in Nat \X Nat
      /\ <<y, x>>[1] = y /\ <<y, x>>[2] = x
  BY <1>0
<2>2. OpToRel(<, Nat) = {ss \in Nat \X Nat : ss[1] < ss[2]}
  BY Zenon DEF OpToRel
<2>3. <<y, x>> \notin {ss \in Nat \X Nat : ss[1] < ss[2]}
  BY <1>1, <2>2, Zenon
<2> QED
  BY <2>1, <2>3
<1>3. \A y \in S : x <= y
  BY <1>0, <1>2
<1> QED
  BY <1>3

\* The larger of two numbers.
LEMMA MaxOfTwo ==
  ASSUME NEW a \in Int, NEW b \in Int
  PROVE  /\ Max({a, b}) \in Int
         /\ Max({a, b}) >= a /\ Max({a, b}) >= b
         /\ Max({a, b}) = a \/ Max({a, b}) = b
<1>1. \E x \in {a, b} : \A y \in {a, b} : x >= y
  OBVIOUS
<1> QED
  BY <1>1 DEF Max

\* The largest of a nonempty set of numbers up to n.
LEMMA MaxUpTo ==
  ASSUME NEW n \in Nat, NEW S \in SUBSET (0 .. n), S # {}
  PROVE  Max(S) \in S /\ \A x \in S : x <= Max(S)
<1> DEFINE D == {n - x : x \in S}
<1>1. D \in SUBSET Nat /\ D # {}
<2>1. PICK y \in S : TRUE
  OBVIOUS
<2>2. n - y \in D
  OBVIOUS
<2>3. \A x \in S : n - x \in Nat
  OBVIOUS
<2> QED
  BY <2>2, <2>3
<1>2. PICK d \in D : \A e \in D : d <= e
  BY <1>1, LeastNat
<1>3. PICK y \in S : d = n - y
  OBVIOUS
<1>4. ASSUME NEW x \in S PROVE x <= y
<2>1. n - x \in D /\ x \in 0 .. n /\ y \in 0 .. n
  OBVIOUS
<2>2. d <= n - x
  BY <1>2, <2>1
<2> QED
  BY <1>3, <2>1, <2>2
<1>5. \E m \in S : \A x \in S : m >= x
<2>1. \A x \in S : y >= x
  BY <1>4
<2> QED
  BY <2>1
<1>6. Max(S) \in S /\ \A x \in S : Max(S) >= x
  BY <1>5 DEF Max
<1>7. \A x \in S : x \in Int
  OBVIOUS
<1> QED
  BY <1>6, <1>7

\* The least element of a set of natural numbers.
LEMMA MinNat ==
  ASSUME NEW S \in SUBSET Nat, S # {}
  PROVE  Min(S) \in S /\ \A x \in S : Min(S) <= x
<1>1. \E x \in S : \A y \in S : x <= y
  BY LeastNat
<1> QED
  BY <1>1, Zenon DEF Min

\* The smaller of two numbers.
LEMMA MinOfTwo ==
  ASSUME NEW a \in Int, NEW b \in Int
  PROVE  /\ Min({a, b}) \in Int
         /\ Min({a, b}) <= a /\ Min({a, b}) <= b
         /\ Min({a, b}) = a \/ Min({a, b}) = b
<1>1. \E x \in {a, b} : \A y \in {a, b} : x <= y
  OBVIOUS
<1> QED
  BY <1>1 DEF Min

\* A set that holds 0, and every number up to N after one that it holds, holds all of them.
LEMMA Upward ==
  ASSUME NEW N \in Nat, NEW S, 0 \in S, \A n \in 1 .. N : n - 1 \in S => n \in S
  PROVE  \A n \in 0 .. N : n \in S
<1> DEFINE Bad == {n \in 0 .. N : n \notin S}
<1>1. SUFFICES ASSUME Bad # {} PROVE FALSE
  OBVIOUS
<1>2. PICK n \in Bad : \A k \in Bad : n <= k
<2>1. Bad \in SUBSET Nat
  OBVIOUS
<2> HIDE DEF Bad
<2> QED
  BY <1>1, <2>1, LeastNat
<1>3. n \in 0 .. N /\ n \notin S
  BY <1>2
<1>4. n \in 1 .. N /\ n - 1 \in 0 .. N /\ ~(n <= n - 1)
<2>1. n # 0
  BY <1>3
<2> QED
  BY <1>3, <2>1
<1>5. n - 1 \notin Bad
<2> HIDE DEF Bad
<2> QED
  BY <1>2, <1>4
<1> QED
  BY <1>3, <1>4, <1>5

\* Products grow with their factor.
LEMMA Multiples ==
  ASSUME NEW a \in Int, NEW b \in Int, NEW n \in Nat \ {0}
  PROVE  /\ a * n \in Int /\ b * n \in Int /\ (a + 1) * n = a * n + n
         /\ a <= b => a * n <= b * n
         /\ a < b => a * n + n <= b * n
<1>1. /\ a * n \in Int /\ b * n \in Int /\ (b - a) * n = b * n - a * n
      /\ (a + 1) * n = a * n + n /\ (b - a - 1) * n = b * n - a * n - n
  OBVIOUS
<1>2. ASSUME a <= b PROVE a * n <= b * n
<2>1. b - a \in Nat /\ (b - a) * n \in Nat
  BY <1>2
<2> QED
  BY <1>1, <2>1
<1>3. ASSUME a < b PROVE a * n + n <= b * n
<2>1. b - a - 1 \in Nat /\ (b - a - 1) * n \in Nat
  BY <1>3
<2> QED
  BY <1>1, <2>1
<1> QED
  BY <1>1, <1>2, <1>3

-----------------------------------------------------------------------------
(* Recursion *)

\* What G gives at d, from the values of a function, depends only on those of a smaller
\* measure m, which is at most N.
LooksBelow(D, X, m, G) ==
  \A d \in D, f, g \in [D -> X] :
    (\A e \in D : m[e] < m[d] => f[e] = g[e]) => G[d][f] = G[d][g]

WellFounded(D, X, N, m, G) ==
  /\ X # {} /\ N \in Nat /\ m \in [D -> 0 .. N]
  /\ G \in [D -> [[D -> X] -> X]] /\ LooksBelow(D, X, m, G)

Solves(f, D, X, G) == f \in [D -> X] /\ \A d \in D : f[d] = G[d][f]

\* Such a recursion defines a function.
LEMMA Recursion ==
  ASSUME NEW D, NEW X, NEW N, NEW m, NEW G, WellFounded(D, X, N, m, G)
  PROVE  \E f : Solves(f, D, X, G)
<1>0. /\ X # {} /\ N \in Nat /\ m \in [D -> 0 .. N]
      /\ G \in [D -> [[D -> X] -> X]] /\ LooksBelow(D, X, m, G)
  BY DEF WellFounded
<1> DEFINE UpTo(k, f) == \A d \in D : m[d] < k => f[d] = G[d][f]
           S == {k \in 0 .. N + 1 : \E f \in [D -> X] : UpTo(k, f)}
<1>1. 0 \in S
<2>1. PICK x \in X : TRUE
  BY <1>0
<2>2. [d \in D |-> x] \in [D -> X] /\ \A d \in D : m[d] \in 0 .. N
  BY <1>0
<2>3. \A d \in D : ~(m[d] < 0)
  BY <2>2
<2>4. UpTo(0, [d \in D |-> x])
  BY <2>3
<2>5. 0 \in 0 .. N + 1
  BY <1>0
<2> HIDE DEF UpTo
<2> QED
  BY <2>2, <2>4, <2>5
<1>2. ASSUME NEW k \in 1 .. N + 1, k - 1 \in S PROVE k \in S
<2>1. PICK f \in [D -> X] : UpTo(k - 1, f)
  BY <1>2
<2> DEFINE h == [d \in D |-> IF m[d] < k - 1 THEN f[d] ELSE G[d][f]]
<2>2. h \in [D -> X]
  BY <1>0
<2>3. ASSUME NEW d \in D, m[d] < k PROVE h[d] = G[d][h]
<3>1. \A e \in D : m[e] < m[d] => h[e] = f[e]
<4>1. \A e \in D : m[e] \in Int /\ m[d] \in Int /\ k \in Int
  BY <1>0
<4>2. \A e \in D : m[e] < m[d] => m[e] < k - 1
  BY <2>3, <4>1
<4> QED
  BY <4>2
<3>2. G[d][h] = G[d][f]
<4> HIDE DEF h
<4> QED
  BY <1>0, <2>2, <3>1 DEF LooksBelow
<3>3. h[d] = G[d][f]
<4>1. m[d] < k - 1 => f[d] = G[d][f]
  BY <2>1
<4> QED
  BY <4>1
<3> QED
  BY <3>2, <3>3
<2>4. UpTo(k, h)
  BY <2>3
<2> HIDE DEF UpTo, h
<2> QED
  BY <2>2, <2>4
<1>3. N + 1 \in S
<2>1. N + 1 \in Nat /\ N + 1 \in 0 .. N + 1
  BY <1>0
<2> HIDE DEF S
<2> QED
  BY <1>1, <1>2, <2>1, Upward
<1>4. PICK f \in [D -> X] : UpTo(N + 1, f)
  BY <1>3
<1>5. \A d \in D : m[d] < N + 1
<2>1. \A d \in D : m[d] \in 0 .. N
  BY <1>0
<2>3. N \in Nat
  BY <1>0
<2> QED
  BY <2>1, <2>3
<1>6. \A d \in D : f[d] = G[d][f]
  BY <1>4, <1>5
<1> QED
  BY <1>4, <1>6 DEF Solves

-----------------------------------------------------------------------------
(* Sums over finite sets *)

\* One step of the fold that SumFunctionOnSet is, over a set and over all of its subsets.
Fold(f, S, h) ==
  [s \in SUBSET S |-> IF s = {} THEN 0
     ELSE f[CHOOSE x \in s : TRUE] + h[s \ {CHOOSE x \in s : TRUE}]]

\* g[s] is the sum over s, whichever element is added last; of the values R.
SumsOf(g, f, S, R) ==
  /\ g \in [SUBSET S -> R]
  /\ g[{}] = 0
  /\ \A s \in SUBSET S : \A x \in s : g[s] = f[x] + g[s \ {x}]

\* One more element.
LEMMA SumsExtend ==
  ASSUME NEW R \in {Nat, Int}, NEW S, NEW f, NEW x \in S, f[x] \in R,
         \A y \in S : f[y] \in R,
         NEW g, SumsOf(g, f, S \ {x}, R)
  PROVE  \E h : SumsOf(h, f, S, R)
<1> DEFINE h == [s \in SUBSET S |-> g[s \ {x}] + IF x \in s THEN f[x] ELSE 0]
<1>1. ASSUME NEW s \in SUBSET S PROVE s \ {x} \in SUBSET (S \ {x}) /\ g[s \ {x}] \in R
  BY DEF SumsOf
<1>2. h \in [SUBSET S -> R]
<2>1. ASSUME NEW s \in SUBSET S PROVE g[s \ {x}] + (IF x \in s THEN f[x] ELSE 0) \in R
<3> DEFINE a == g[s \ {x}]
           b == IF x \in s THEN f[x] ELSE 0
<3>1. a \in R /\ b \in R
  BY <1>1
<3> HIDE DEF a, b
<3>2. a + b \in R
<4>1. CASE R = Nat
  BY <3>1, <4>1
<4>2. CASE R = Int
  BY <3>1, <4>2
<4> QED
  BY <4>1, <4>2
<3> QED
  BY <3>2 DEF a, b
<2> QED
  BY <2>1
<1>3. h[{}] = 0
<2>1. {} \in SUBSET S /\ {} \ {x} = {} /\ x \notin {}
  OBVIOUS
<2>2. h[{}] = g[{}] + 0
  BY <2>1
<2> QED
  BY <2>2 DEF SumsOf
<1>4. ASSUME NEW s \in SUBSET S, NEW y \in s PROVE h[s] = f[y] + h[s \ {y}]
<2>0. s \ {y} \in SUBSET S /\ y \in S
  OBVIOUS
<2>1. /\ h[s] = g[s \ {x}] + IF x \in s THEN f[x] ELSE 0
      /\ h[s \ {y}] = g[(s \ {y}) \ {x}] + IF x \in s \ {y} THEN f[x] ELSE 0
  BY <2>0
<2>2. g[s \ {x}] \in Int /\ g[(s \ {y}) \ {x}] \in Int /\ f[y] \in Int /\ f[x] \in Int
<3>1. R \subseteq Int
  OBVIOUS
<3> QED
  BY <1>1, <2>0, <3>1
<2> HIDE DEF h
<2>3. CASE y = x
<3>1. (s \ {y}) \ {x} = s \ {x} /\ x \in s /\ x \notin s \ {y}
  BY <2>3
<3>2. h[s] = g[s \ {x}] + f[x] /\ h[s \ {y}] = g[s \ {x}] + 0
  BY <2>1, <3>1, Zenon
<3> QED
  BY <2>2, <2>3, <3>2
<2>4. CASE y # x
<3> DEFINE a == IF x \in s THEN f[x] ELSE 0
<3>1. /\ (s \ {y}) \ {x} = (s \ {x}) \ {y} /\ y \in s \ {x}
      /\ (x \in s \ {y}) = (x \in s)
  BY <2>4
<3>2. g[s \ {x}] = f[y] + g[(s \ {y}) \ {x}]
<4>1. s \ {x} \in SUBSET (S \ {x}) /\ y \in s \ {x}
  BY <1>1, <3>1
<4>2. g[s \ {x}] = f[y] + g[(s \ {x}) \ {y}]
  BY <4>1, Zenon DEF SumsOf
<4> QED
  BY <3>1, <4>2
<3>3. h[s] = g[s \ {x}] + a /\ h[s \ {y}] = g[(s \ {y}) \ {x}] + a
  BY <2>1, <3>1, Zenon
<3>4. a \in Int
  BY <2>2
<3> HIDE DEF a
<3> QED
  BY <2>2, <3>2, <3>3, <3>4
<2> QED
  BY <2>3, <2>4
<1> HIDE DEF h
<1> QED
  BY <1>2, <1>3, <1>4 DEF SumsOf

\* Every finite set has its sums: otherwise a smallest one has none.
LEMMA SumsExist ==
  ASSUME NEW R \in {Nat, Int}, NEW S, IsFiniteSet(S), NEW f, \A x \in S : f[x] \in R
  PROVE  \E g : SumsOf(g, f, S, R)
<1> DEFINE Has(T) == \E g : SumsOf(g, f, T, R)
           Bad == {n \in Nat : \E T \in SUBSET S : Cardinality(T) = n /\ ~Has(T)}
<1>1. ASSUME NEW T \in SUBSET S PROVE IsFiniteSet(T) /\ Cardinality(T) \in Nat
  BY FS_Subset, FS_CardinalityType
<1>2. Bad = {}
<2>1. SUFFICES ASSUME Bad # {} PROVE FALSE
  OBVIOUS
<2>2. PICK n \in Bad : \A k \in Bad : n <= k
<3>1. Bad \in SUBSET Nat
  OBVIOUS
<3> HIDE DEF Bad
<3> QED
  BY <2>1, <3>1, LeastNat
<2>3. PICK T \in SUBSET S : Cardinality(T) = n /\ ~Has(T)
  OBVIOUS
<2>4. CASE T = {}
<3> DEFINE g == [s \in SUBSET T |-> 0]
<3>1. SumsOf(g, f, T, R)
  BY <2>4 DEF SumsOf
<3> HIDE DEF g
<3> QED
  BY <2>3, <3>1
<2>5. CASE T # {}
<3>1. PICK x \in T : TRUE
  BY <2>5
<3>2. Cardinality(T \ {x}) = n - 1 /\ n - 1 \in Nat /\ T \ {x} \in SUBSET S
<4>1. IsFiniteSet(T) /\ IsFiniteSet(T \ {x}) /\ Cardinality(T \ {x}) \in Nat
  BY <1>1
<4>2. Cardinality(T \ {x}) = Cardinality(T) - 1
  BY <4>1, FS_RemoveElement
<4> QED
  BY <2>3, <4>1, <4>2
<3>3. n - 1 \notin Bad
  BY <2>2, <3>2
<3>4. Has(T \ {x})
  BY <3>2, <3>3
<3>5. PICK g : SumsOf(g, f, T \ {x}, R)
  BY <3>4
<3>6. f[x] \in R /\ \A y \in T : f[y] \in R
  OBVIOUS
<3>7. \E h : SumsOf(h, f, T, R)
  BY <3>5, <3>6, SumsExtend
<3> QED
  BY <2>3, <3>7
<2> QED
  BY <2>4, <2>5
<1>3. Cardinality(S) \notin Bad /\ Cardinality(S) \in Nat /\ S \in SUBSET S
  BY <1>1, <1>2
<1> QED
  BY <1>3

\* The fold gives the sums, in whatever order CHOOSE takes the elements.
LEMMA FoldIsSum ==
  ASSUME NEW S, IsFiniteSet(S), NEW f, NEW g, SumsOf(g, f, S, Int),
         NEW h, h = Fold(f, S, h), NEW s \in SUBSET S
  PROVE  h[s] = g[s]
<1> DEFINE Bad == {n \in Nat : \E T \in SUBSET S : Cardinality(T) = n /\ h[T] # g[T]}
<1>1. ASSUME NEW T \in SUBSET S PROVE IsFiniteSet(T) /\ Cardinality(T) \in Nat
  BY FS_Subset, FS_CardinalityType
<1>2. Bad = {}
<2>1. SUFFICES ASSUME Bad # {} PROVE FALSE
  OBVIOUS
<2>2. PICK n \in Bad : \A k \in Bad : n <= k
<3>1. Bad \in SUBSET Nat
  OBVIOUS
<3> HIDE DEF Bad
<3> QED
  BY <2>1, <3>1, LeastNat
<2>3. PICK T \in SUBSET S : Cardinality(T) = n /\ h[T] # g[T]
  OBVIOUS
<2>4. CASE T = {}
<3>1. h[T] = 0
  BY <2>4 DEF Fold
<3> QED
  BY <2>3, <2>4, <3>1 DEF SumsOf
<2>5. CASE T # {}
<3> DEFINE x == CHOOSE x \in T : TRUE
<3>1. x \in T
  BY <2>5
<3>2. h[T] = f[x] + h[T \ {x}]
  BY <2>5 DEF Fold
<3> HIDE DEF x
<3>3. Cardinality(T \ {x}) = n - 1 /\ n - 1 \in Nat /\ T \ {x} \in SUBSET S
<4>1. IsFiniteSet(T) /\ IsFiniteSet(T \ {x}) /\ Cardinality(T \ {x}) \in Nat
  BY <1>1
<4>2. Cardinality(T \ {x}) = Cardinality(T) - 1
  BY <3>1, <4>1, FS_RemoveElement
<4> QED
  BY <2>3, <4>1, <4>2
<3>4. n - 1 \notin Bad
  BY <2>2, <3>3
<3>5. h[T \ {x}] = g[T \ {x}]
  BY <3>3, <3>4
<3>6. g[T] = f[x] + g[T \ {x}]
  BY <3>1 DEF SumsOf
<3> QED
  BY <2>3, <3>2, <3>5, <3>6
<2> QED
  BY <2>4, <2>5
<1>3. Cardinality(s) \notin Bad /\ Cardinality(s) \in Nat
  BY <1>1, <1>2
<1> QED
  BY <1>3

\* The sums make a fold.
LEMMA SumsFold ==
  ASSUME NEW S, NEW f, NEW g, SumsOf(g, f, S, Int)
  PROVE  g = Fold(f, S, g)
<1>1. ASSUME NEW s \in SUBSET S
      PROVE  g[s] = IF s = {} THEN 0
               ELSE f[CHOOSE x \in s : TRUE] + g[s \ {CHOOSE x \in s : TRUE}]
  BY DEF SumsOf
<1> QED
  BY <1>1 DEF SumsOf, Fold

\* SumFunctionOnSet gives the sums of a set and of all of its subsets.
LEMMA SumIsSum ==
  ASSUME NEW S, IsFiniteSet(S), NEW f, NEW g, SumsOf(g, f, S, Int), NEW T \in SUBSET S
  PROVE  SumFunctionOnSet(f, T) = g[T]
<1> DEFINE k == [s \in SUBSET T |-> g[s]]
           h == CHOOSE h : h = Fold(f, T, h)
<1>1. SumsOf(k, f, T, Int)
  BY DEF SumsOf
<1>2. IsFiniteSet(T)
  BY FS_Subset
<1>3. h = Fold(f, T, h)
<2> HIDE DEF k
<2>1. k = Fold(f, T, k)
  BY <1>1, SumsFold
<2> QED
  BY <2>1
<1>4. SumFunctionOnSet(f, T) = h[T]
  BY Zenon DEF SumFunctionOnSet, FoldFunctionOnSet, MapThenFoldSet, Fold
<1>5. k[T] = g[T]
  OBVIOUS
<1>6. h[T] = k[T]
<2>1. T \in SUBSET T
  OBVIOUS
<2> HIDE DEF h, k
<2> QED
  BY <1>1, <1>2, <1>3, <2>1, FoldIsSum
<1> QED
  BY <1>4, <1>5, <1>6

\* What sums are, with no mention of the fold.
LEMMA SumFacts ==
  ASSUME NEW R \in {Nat, Int}, NEW S, IsFiniteSet(S), NEW f, \A x \in S : f[x] \in R
  PROVE  /\ SumFunctionOnSet(f, S) \in R
         /\ SumFunctionOnSet(f, {}) = 0
         /\ \A x \in S : SumFunctionOnSet(f, S) = f[x] + SumFunctionOnSet(f, S \ {x})
<1>1. PICK g : SumsOf(g, f, S, R)
  BY SumsExist
<1>2. SumsOf(g, f, S, Int)
  BY <1>1 DEF SumsOf
<1>3. ASSUME NEW T \in SUBSET S PROVE SumFunctionOnSet(f, T) = g[T]
  BY <1>2, SumIsSum
<1>4. S \in SUBSET S /\ {} \in SUBSET S
  OBVIOUS
<1>5. SumFunctionOnSet(f, S) = g[S] /\ SumFunctionOnSet(f, {}) = g[{}]
  BY <1>3, <1>4
<1>6. ASSUME NEW x \in S PROVE SumFunctionOnSet(f, S) = f[x] + SumFunctionOnSet(f, S \ {x})
<2>1. SumFunctionOnSet(f, S \ {x}) = g[S \ {x}]
  BY <1>3
<2> QED
  BY <1>4, <1>5, <1>1, <2>1 DEF SumsOf
<1> QED
  BY <1>1, <1>4, <1>5, <1>6 DEF SumsOf

\* Sums differ by what the values of some elements differ by.
LEMMA SumLess ==
  ASSUME NEW S, IsFiniteSet(S), NEW T \in SUBSET S,
         NEW f, NEW g, NEW d,
         \A x \in S : f[x] \in Int /\ g[x] \in Int,
         \A x \in T : d[x] \in Int /\ g[x] = f[x] - d[x],
         \A x \in S \ T : g[x] = f[x]
  PROVE  SumFunctionOnSet(g, S) = SumFunctionOnSet(f, S) - SumFunctionOnSet(d, T)
<1>1. IsFiniteSet(T)
  BY FS_Subset
<1>2. PICK a : SumsOf(a, f, S, Int)
  BY SumsExist
<1>3. PICK b : SumsOf(b, d, T, Int)
  BY <1>1, SumsExist
<1> DEFINE c == [s \in SUBSET S |-> a[s] - b[s \cap T]]
<1>4. ASSUME NEW s \in SUBSET S
      PROVE  s \cap T \in SUBSET T /\ a[s] \in Int /\ b[s \cap T] \in Int
  BY <1>2, <1>3 DEF SumsOf
<1>5. c \in [SUBSET S -> Int]
<2>1. ASSUME NEW s \in SUBSET S PROVE a[s] - b[s \cap T] \in Int
<3>1. a[s] \in Int /\ b[s \cap T] \in Int
  BY <1>4
<3> QED
  BY <3>1
<2> QED
  BY <2>1
<1>6. c[{}] = 0
<2>1. {} \in SUBSET S /\ {} \cap T = {}
  OBVIOUS
<2>2. a[{}] = 0 /\ b[{}] = 0
  BY <1>2, <1>3 DEF SumsOf
<2>3. c[{}] = a[{}] - b[{} \cap T]
  BY <2>1
<2> QED
  BY <2>1, <2>2, <2>3
<1>7. ASSUME NEW s \in SUBSET S, NEW x \in s PROVE c[s] = g[x] + c[s \ {x}]
<2>1. s \ {x} \in SUBSET S /\ x \in S
  OBVIOUS
<2>2. c[s] = a[s] - b[s \cap T] /\ c[s \ {x}] = a[s \ {x}] - b[(s \ {x}) \cap T]
  BY <2>1
<2> HIDE DEF c
<2>3. a[s] = f[x] + a[s \ {x}]
  BY <1>2 DEF SumsOf
<2>4. /\ a[s] \in Int /\ b[s \cap T] \in Int /\ a[s \ {x}] \in Int
      /\ b[(s \ {x}) \cap T] \in Int /\ f[x] \in Int /\ g[x] \in Int
  BY <1>4, <2>1
<2>5. CASE x \in T
<3>1. (s \ {x}) \cap T = (s \cap T) \ {x} /\ s \cap T \in SUBSET T /\ x \in s \cap T
  BY <2>5
<3>2. b[s \cap T] = d[x] + b[(s \cap T) \ {x}]
  BY <1>3, <3>1 DEF SumsOf
<3>3. g[x] = f[x] - d[x] /\ d[x] \in Int
  BY <2>5
<3>4. b[s \cap T] = d[x] + b[(s \ {x}) \cap T]
  BY <3>1, <3>2
<3> QED
  BY <2>2, <2>3, <2>4, <3>3, <3>4
<2>6. CASE x \notin T
<3>1. (s \ {x}) \cap T = s \cap T
  BY <2>6
<3>2. g[x] = f[x]
  BY <2>1, <2>6
<3>3. c[s \ {x}] = a[s \ {x}] - b[s \cap T]
  BY <2>2, <3>1, Zenon
<3> QED
  BY <2>2, <2>3, <2>4, <3>2, <3>3
<2> QED
  BY <2>5, <2>6
<1>8. c[S] = a[S] - b[T] /\ S \in SUBSET S /\ T \in SUBSET T /\ S \cap T = T
  OBVIOUS
<1> HIDE DEF c
<1>9. SumsOf(c, g, S, Int)
  BY <1>5, <1>6, <1>7 DEF SumsOf
<1>10. /\ SumFunctionOnSet(g, S) = c[S] /\ SumFunctionOnSet(f, S) = a[S]
       /\ SumFunctionOnSet(d, T) = b[T]
  BY <1>1, <1>2, <1>3, <1>8, <1>9, SumIsSum
<1> QED
  BY <1>8, <1>10

\* The sum of one value.
LEMMA SumOfOne ==
  ASSUME NEW x, NEW f, f[x] \in Int
  PROVE  SumFunctionOnSet(f, {x}) = f[x]
<1>1. IsFiniteSet({x}) /\ {x} \ {x} = {} /\ \A y \in {x} : f[y] \in Int
  BY FS_Singleton
<1>2. /\ SumFunctionOnSet(f, {}) = 0
      /\ SumFunctionOnSet(f, {x}) = f[x] + SumFunctionOnSet(f, {x} \ {x})
  BY <1>1, SumFacts
<1> QED
  BY <1>1, <1>2

\* One element at most has less, by b.
LEMMA SumLessOne ==
  ASSUME NEW S, IsFiniteSet(S), NEW T \in SUBSET S, \A x, y \in T : x = y,
         NEW b \in Int, NEW f, NEW g,
         \A x \in S : f[x] \in Int /\ g[x] = f[x] - IF x \in T THEN b ELSE 0
  PROVE  /\ SumFunctionOnSet(f, S) \in Int
         /\ SumFunctionOnSet(g, S) = SumFunctionOnSet(f, S) - IF T # {} THEN b ELSE 0
<1> DEFINE d == [x \in T |-> b]
<1>1. SumFunctionOnSet(f, S) \in Int
  BY SumFacts
<1>2. SumFunctionOnSet(g, S) = SumFunctionOnSet(f, S) - SumFunctionOnSet(d, T)
<2>1. \A x \in T : d[x] = b /\ d[x] \in Int /\ g[x] = f[x] - d[x]
  OBVIOUS
<2>2. \A x \in S \ T : g[x] = f[x]
  OBVIOUS
<2>3. \A x \in S : f[x] \in Int /\ g[x] \in Int
  OBVIOUS
<2> HIDE DEF d
<2> QED
  BY <2>1, <2>2, <2>3, SumLess
<1>3. SumFunctionOnSet(d, T) = IF T # {} THEN b ELSE 0
<2>1. CASE T # {}
<3>1. PICK x \in T : T = {x}
  BY <2>1
<3>2. d[x] = b
  OBVIOUS
<3> HIDE DEF d
<3> QED
  BY <2>1, <3>1, <3>2, SumOfOne
<2>2. CASE T = {}
<3>1. IsFiniteSet({}) /\ \A x \in {} : d[x] \in Int
  BY FS_EmptySet
<3> HIDE DEF d
<3> QED
  BY <2>2, <3>1, SumFacts
<2> QED
  BY <2>1, <2>2
<1> QED
  BY <1>1, <1>2, <1>3

\* Only the values in the set matter.
LEMMA SumSame ==
  ASSUME NEW S, IsFiniteSet(S), NEW f, NEW g, \A x \in S : f[x] \in Int /\ g[x] = f[x]
  PROVE  SumFunctionOnSet(g, S) = SumFunctionOnSet(f, S)
<1>1. IsFiniteSet({}) /\ {} \in SUBSET S /\ \A x \in {} : f[x] \in Int
  BY FS_EmptySet
<1>2. SumFunctionOnSet(f, {}) = 0
  BY <1>1, SumFacts
<1>3. SumFunctionOnSet(g, S) = SumFunctionOnSet(f, S) - SumFunctionOnSet(f, {})
<2>1. \A x \in S : f[x] \in Int /\ g[x] \in Int
  OBVIOUS
<2>2. \A x \in {} : f[x] \in Int /\ g[x] = f[x] - f[x]
  OBVIOUS
<2>3. \A x \in S \ {} : g[x] = f[x]
  OBVIOUS
<2> QED
  BY <1>1, <2>1, <2>2, <2>3, SumLess
<1>4. SumFunctionOnSet(f, S) \in Int
  BY SumFacts
<1> QED
  BY <1>2, <1>3, <1>4

\* The sum up to a number is that up to the one before and its own value.
LEMMA SumUpTo ==
  ASSUME NEW n \in Nat, NEW f, \A x \in 0 .. n : f[x] \in Int
  PROVE  /\ SumFunctionOnSet(f, 0 .. n - 1) \in Int
         /\ SumFunctionOnSet(f, 0 .. n) = SumFunctionOnSet(f, 0 .. n - 1) + f[n]
<1>1. IsFiniteSet(0 .. n) /\ IsFiniteSet(0 .. n - 1)
  BY FS_Interval
<1>2. (0 .. n) \ {n} = 0 .. n - 1 /\ n \in 0 .. n
  OBVIOUS
<1>3. SumFunctionOnSet(f, 0 .. n) = f[n] + SumFunctionOnSet(f, (0 .. n) \ {n})
  BY <1>1, <1>2, SumFacts
<1>4. SumFunctionOnSet(f, 0 .. n - 1) \in Int
<2>1. \A x \in 0 .. n - 1 : f[x] \in Int
  OBVIOUS
<2> QED
  BY <1>1, <2>1, SumFacts
<1>5. SumFunctionOnSet(f, 0 .. n) = f[n] + SumFunctionOnSet(f, 0 .. n - 1) /\ f[n] \in Int
  BY <1>2, <1>3
<1> QED
  BY <1>4, <1>5

\* A sum of natural numbers is zero only if all of them are.
LEMMA SumOfNats ==
  ASSUME NEW S, IsFiniteSet(S), NEW f, \A x \in S : f[x] \in Nat
  PROVE  /\ SumFunctionOnSet(f, S) \in Nat
         /\ \A x \in S : f[x] <= SumFunctionOnSet(f, S)
         /\ SumFunctionOnSet(f, S) # 0 => \E x \in S : f[x] # 0
<1>1. SumFunctionOnSet(f, S) \in Nat
  BY SumFacts
<1>2. ASSUME NEW x \in S PROVE f[x] <= SumFunctionOnSet(f, S)
<2>1. SumFunctionOnSet(f, S) = f[x] + SumFunctionOnSet(f, S \ {x})
  BY SumFacts
<2>2. SumFunctionOnSet(f, S \ {x}) \in Nat
<3>1. IsFiniteSet(S \ {x}) /\ \A y \in S \ {x} : f[y] \in Nat
  BY FS_Subset
<3> QED
  BY <3>1, SumFacts
<2>3. f[x] \in Nat
  OBVIOUS
<2> QED
  BY <2>1, <2>2, <2>3
<1>3. ASSUME \A x \in S : f[x] = 0 PROVE SumFunctionOnSet(f, S) = 0
<2> DEFINE Bad == {n \in Nat : \E T \in SUBSET S : Cardinality(T) = n /\ SumFunctionOnSet(f, T) # 0}
<2>1. ASSUME NEW T \in SUBSET S
      PROVE  IsFiniteSet(T) /\ Cardinality(T) \in Nat /\ \A x \in T : f[x] \in Nat
  BY FS_Subset, FS_CardinalityType
<2>2. SUFFICES ASSUME SumFunctionOnSet(f, S) # 0 PROVE FALSE
  OBVIOUS
<2>3. Cardinality(S) \in Bad /\ Bad \in SUBSET Nat
  BY <2>1, <2>2
<2>4. PICK n \in Bad : \A m \in Bad : n <= m
<3> HIDE DEF Bad
<3> QED
  BY <2>3, LeastNat
<2>5. PICK T \in SUBSET S : Cardinality(T) = n /\ SumFunctionOnSet(f, T) # 0
  OBVIOUS
<2>6. T # {}
<3>1. SumFunctionOnSet(f, {}) = 0
  BY SumFacts
<3> QED
  BY <2>5, <3>1
<2>7. PICK x \in T : TRUE
  BY <2>6
<2>8. SumFunctionOnSet(f, T) = f[x] + SumFunctionOnSet(f, T \ {x})
<3>1. IsFiniteSet(T) /\ \A y \in T : f[y] \in Nat
  BY <2>1
<3> QED
  BY <3>1, SumFacts
<2>9. SumFunctionOnSet(f, T \ {x}) # 0
<3>1. SumFunctionOnSet(f, T \ {x}) \in Nat
<4>1. T \ {x} \in SUBSET S
  OBVIOUS
<4> QED
  BY <2>1, <4>1, SumFacts
<3> QED
  BY <1>3, <2>5, <2>8, <3>1
<2>10. Cardinality(T \ {x}) = n - 1 /\ n - 1 \in Nat /\ T \ {x} \in SUBSET S
<3>1. IsFiniteSet(T) /\ Cardinality(T \ {x}) \in Nat
  BY <2>1
<3>2. Cardinality(T \ {x}) = Cardinality(T) - 1
  BY <3>1, FS_RemoveElement
<3> QED
  BY <2>3, <2>5, <3>1, <3>2
<2>11. n - 1 \in Bad
  BY <2>9, <2>10
<2> QED
  BY <2>3, <2>4, <2>11
<1> QED
  BY <1>1, <1>2, <1>3

\* Sums of values moved by one place.
LEMMA SumShift ==
  ASSUME NEW n \in Nat, NEW S \in SUBSET (1 .. n), NEW f, NEW g,
         \A x \in S : f[x] \in Int /\ g[x - 1] = f[x]
  PROVE  SumFunctionOnSet(g, {x - 1 : x \in S}) = SumFunctionOnSet(f, S)
<1> DEFINE Down(T) == {x - 1 : x \in T}
           Bad == {c \in Nat : \E T \in SUBSET S : Cardinality(T) = c
                                 /\ SumFunctionOnSet(g, Down(T)) # SumFunctionOnSet(f, T)}
<1>1. ASSUME NEW T \in SUBSET S
      PROVE  /\ IsFiniteSet(T) /\ Cardinality(T) \in Nat /\ \A x \in T : f[x] \in Int
             /\ IsFiniteSet(Down(T)) /\ \A y \in Down(T) : g[y] \in Int
<2>1. IsFiniteSet(T) /\ Cardinality(T) \in Nat
<3>1. IsFiniteSet(1 .. n) /\ T \in SUBSET (1 .. n)
  BY FS_Interval
<3> QED
  BY <3>1, FS_Subset, FS_CardinalityType
<2>2. IsFiniteSet(Down(T))
<3>1. Down(T) \in SUBSET (0 .. n)
<4>1. \A x \in T : x \in 1 .. n /\ x - 1 \in 0 .. n
  OBVIOUS
<4> QED
  BY <4>1
<3>2. IsFiniteSet(0 .. n)
  BY FS_Interval
<3> QED
  BY <3>1, <3>2, FS_Subset
<2> QED
  BY <2>1, <2>2
<1>2. Bad = {}
<2>1. SUFFICES ASSUME Bad # {} PROVE FALSE
  OBVIOUS
<2>2. PICK c \in Bad : \A k \in Bad : c <= k
<3>1. Bad \in SUBSET Nat
  OBVIOUS
<3> HIDE DEF Bad
<3> QED
  BY <2>1, <3>1, LeastNat
<2>3. PICK T \in SUBSET S : Cardinality(T) = c /\ SumFunctionOnSet(g, Down(T)) # SumFunctionOnSet(f, T)
  OBVIOUS
<2>4. CASE T = {}
<3>1. Down(T) = {}
  BY <2>4
<3>2. SumFunctionOnSet(f, {}) = 0 /\ SumFunctionOnSet(g, {}) = 0
<4>1. IsFiniteSet({}) /\ (\A x \in {} : f[x] \in Int) /\ (\A x \in {} : g[x] \in Int)
  BY FS_EmptySet
<4> QED
  BY <4>1, SumFacts
<3> QED
  BY <2>3, <2>4, <3>1, <3>2
<2>5. CASE T # {}
<3>1. PICK x \in T : TRUE
  BY <2>5
<3> DEFINE U == T \ {x}
<3>2. U \in SUBSET S /\ Cardinality(U) = c - 1 /\ c - 1 \in Nat
<4>1. IsFiniteSet(T) /\ U \in SUBSET S
  BY <1>1
<4>2. Cardinality(U) = Cardinality(T) - 1
  BY <4>1, FS_RemoveElement
<4>3. Cardinality(U) \in Nat
  BY <1>1, <4>1
<4> QED
  BY <2>3, <4>1, <4>2, <4>3
<3>3. SumFunctionOnSet(g, Down(U)) = SumFunctionOnSet(f, U)
<4>1. c - 1 \notin Bad
<5>1. c \in Int /\ c - 1 \in Int
  BY <3>2
<5> HIDE DEF Bad
<5> QED
  BY <2>2, <5>1
<4> QED
  BY <3>2, <4>1
<3>4. Down(U) = Down(T) \ {x - 1} /\ x - 1 \in Down(T)
<4>1. \A y \in T : y \in Int
  OBVIOUS
<4> QED
  BY <4>1
<3>5. SumFunctionOnSet(f, T) = f[x] + SumFunctionOnSet(f, U)
<4>1. IsFiniteSet(T) /\ \A y \in T : f[y] \in Int
  BY <1>1
<4>2. \A y \in T : SumFunctionOnSet(f, T) = f[y] + SumFunctionOnSet(f, T \ {y})
  BY ONLY <4>1, SumFacts
<4> QED
  BY <4>2
<3>6. SumFunctionOnSet(g, Down(T)) = g[x - 1] + SumFunctionOnSet(g, Down(T) \ {x - 1})
<4>1. IsFiniteSet(Down(T)) /\ \A y \in Down(T) : g[y] \in Int
  BY <1>1
<4> HIDE DEF Down
<4> QED
  BY <3>4, <4>1, SumFacts
<3>7. g[x - 1] = f[x]
  OBVIOUS
<3> HIDE DEF U, Down
<3> QED
  BY <2>3, <3>3, <3>4, <3>5, <3>6, <3>7
<2> QED
  BY <2>4, <2>5
<1>3. Cardinality(S) \notin Bad /\ Cardinality(S) \in Nat /\ S \in SUBSET S
  BY <1>1, <1>2
<1> QED
  BY <1>3

\* Larger values make a larger sum.
LEMMA SumGrows ==
  ASSUME NEW S, IsFiniteSet(S), NEW f, NEW g,
         \A x \in S : f[x] \in Int /\ g[x] \in Int /\ f[x] <= g[x]
  PROVE  /\ SumFunctionOnSet(f, S) \in Int /\ SumFunctionOnSet(g, S) \in Int
         /\ SumFunctionOnSet(f, S) <= SumFunctionOnSet(g, S)
<1> DEFINE d == [x \in S |-> g[x] - f[x]]
<1>1. \A x \in S : d[x] \in Nat
  OBVIOUS
<1>2. \A x \in S : d[x] \in Int /\ f[x] = g[x] - d[x]
  OBVIOUS
<1> HIDE DEF d
<1>3. SumFunctionOnSet(f, S) = SumFunctionOnSet(g, S) - SumFunctionOnSet(d, S)
<2>1. S \in SUBSET S /\ \A x \in S \ S : f[x] = g[x]
  OBVIOUS
<2>2. \A x \in S : g[x] \in Int /\ f[x] \in Int
  OBVIOUS
<2> QED
  BY <1>2, <2>1, <2>2, SumLess
<1>4. SumFunctionOnSet(d, S) \in Nat
  BY <1>1, SumFacts
<1>5. SumFunctionOnSet(f, S) \in Int /\ SumFunctionOnSet(g, S) \in Int
  BY SumFacts
<1> QED
  BY <1>3, <1>4, <1>5

\* One value at most falls, by no more than b.
LEMMA SumFalls ==
  ASSUME NEW S, IsFiniteSet(S), NEW e \in S, NEW b \in Int, NEW f, NEW g,
         \A x \in S : f[x] \in Int /\ g[x] \in Int /\ g[x] >= f[x] - IF x = e THEN b ELSE 0
  PROVE  /\ SumFunctionOnSet(f, S) \in Int /\ SumFunctionOnSet(g, S) \in Int
         /\ SumFunctionOnSet(g, S) >= SumFunctionOnSet(f, S) - b
<1> DEFINE h == [x \in S |-> f[x] - IF x = e THEN b ELSE 0]
<1>1. \A x \in S : f[x] \in Int /\ h[x] = f[x] - IF x \in {e} THEN b ELSE 0
  OBVIOUS
<1>2. \A x \in S : h[x] \in Int /\ g[x] \in Int /\ h[x] <= g[x]
  OBVIOUS
<1> HIDE DEF h
<1>3. SumFunctionOnSet(f, S) \in Int
      /\ SumFunctionOnSet(h, S) = SumFunctionOnSet(f, S) - b
<2> DEFINE d == [x \in {e} |-> b]
<2>1. {e} \in SUBSET S /\ d[e] = b
  OBVIOUS
<2>2. \A x \in {e} : d[x] \in Int /\ h[x] = f[x] - d[x]
  BY <1>1, <2>1
<2>3. \A x \in S \ {e} : h[x] = f[x]
  BY <1>1
<2>4. \A x \in S : f[x] \in Int /\ h[x] \in Int
  BY <1>1, <1>2
<2> HIDE DEF d
<2>5. SumFunctionOnSet(h, S) = SumFunctionOnSet(f, S) - SumFunctionOnSet(d, {e})
  BY <2>1, <2>2, <2>3, <2>4, SumLess
<2>6. SumFunctionOnSet(d, {e}) = b
  BY <2>1, SumOfOne
<2>7. SumFunctionOnSet(f, S) \in Int
  BY <2>4, SumFacts
<2> QED
  BY <2>5, <2>6, <2>7
<1>4. /\ SumFunctionOnSet(h, S) \in Int /\ SumFunctionOnSet(g, S) \in Int
      /\ SumFunctionOnSet(h, S) <= SumFunctionOnSet(g, S)
  BY <1>2, SumGrows
<1> QED
  BY <1>3, <1>4

\* The sums over two parts of a set are one sum over the set.
LEMMA SumOfParts ==
  ASSUME NEW S, IsFiniteSet(S), NEW A \in SUBSET S, NEW B \in SUBSET S, A \cap B = {},
         NEW f, NEW g, \A x \in A : f[x] \in Int, \A x \in B : g[x] \in Int,
         NEW h, \A x \in S : h[x] = IF x \in A THEN f[x] ELSE IF x \in B THEN g[x] ELSE 0
  PROVE  SumFunctionOnSet(f, A) + SumFunctionOnSet(g, B) = SumFunctionOnSet(h, S)
<1> DEFINE m == [x \in S |-> IF x \in B THEN g[x] ELSE 0]
           z == [x \in S |-> 0]
<1>1. /\ \A x \in S : h[x] \in Int /\ m[x] \in Int /\ z[x] \in Int
      /\ \A x \in A : f[x] \in Int /\ m[x] = h[x] - f[x]
      /\ \A x \in S \ A : m[x] = h[x]
      /\ \A x \in B : g[x] \in Int /\ z[x] = m[x] - g[x]
      /\ \A x \in S \ B : z[x] = m[x]
      /\ \A x \in S : z[x] \in Nat /\ z[x] = 0
  OBVIOUS
<1> HIDE DEF m, z
<1>2. SumFunctionOnSet(m, S) = SumFunctionOnSet(h, S) - SumFunctionOnSet(f, A)
  BY <1>1, SumLess
<1>3. SumFunctionOnSet(z, S) = SumFunctionOnSet(m, S) - SumFunctionOnSet(g, B)
  BY <1>1, SumLess
<1>4. SumFunctionOnSet(z, S) = 0
  BY <1>1, SumOfNats
<1>5. SumFunctionOnSet(h, S) \in Int /\ SumFunctionOnSet(m, S) \in Int
  BY <1>1, SumFacts
<1>6. SumFunctionOnSet(f, A) \in Int /\ SumFunctionOnSet(g, B) \in Int
<2>1. IsFiniteSet(A) /\ IsFiniteSet(B)
  BY FS_Subset
<2> QED
  BY <2>1, SumFacts
<1> QED
  BY <1>2, <1>3, <1>4, <1>5, <1>6

\* Sums in another unit.
LEMMA SumScaled ==
  ASSUME NEW S, IsFiniteSet(S), NEW n \in Int, NEW f, NEW g,
         \A x \in S : f[x] \in Int /\ g[x] = n * f[x]
  PROVE  SumFunctionOnSet(g, S) = n * SumFunctionOnSet(f, S)
<1>1. PICK a : SumsOf(a, f, S, Int)
  BY SumsExist
<1> DEFINE c == [s \in SUBSET S |-> n * a[s]]
<1>2. \A s \in SUBSET S : a[s] \in Int
  BY <1>1 DEF SumsOf
<1>3. c \in [SUBSET S -> Int] /\ c[{}] = 0
<2>1. a[{}] = 0 /\ {} \in SUBSET S
  BY <1>1 DEF SumsOf
<2>2. c[{}] = n * a[{}]
  BY <2>1
<2> QED
  BY <1>2, <2>1, <2>2
<1>4. ASSUME NEW s \in SUBSET S, NEW x \in s PROVE c[s] = g[x] + c[s \ {x}]
<2>1. s \ {x} \in SUBSET S /\ x \in S
  OBVIOUS
<2>2. c[s] = n * a[s] /\ c[s \ {x}] = n * a[s \ {x}]
  BY <2>1
<2> HIDE DEF c
<2>3. a[s] = f[x] + a[s \ {x}]
  BY <1>1 DEF SumsOf
<2>4. f[x] \in Int /\ a[s \ {x}] \in Int /\ g[x] = n * f[x]
  BY <1>2, <2>1
<2> QED
  BY <2>2, <2>3, <2>4
<1>5. c[S] = n * a[S] /\ S \in SUBSET S
  OBVIOUS
<1> HIDE DEF c
<1>6. SumsOf(c, g, S, Int)
  BY <1>3, <1>4 DEF SumsOf
<1>7. SumFunctionOnSet(g, S) = c[S] /\ SumFunctionOnSet(f, S) = a[S]
  BY <1>1, <1>5, <1>6, SumIsSum
<1> QED
  BY <1>5, <1>7
=============================================================================
