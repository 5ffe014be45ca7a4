---------------------------- MODULE ScoringProofs ----------------------------
(***************************************************************************)
(* What holds of Scoring for every set of workloads and files: how sums    *)
(* over finite sets of rules and of pillars behave, what follows for the   *)
(* scores, for what they lead to, and for every state of an evaluation.    *)
(***************************************************************************)
EXTENDS Scoring, FiniteSetTheorems, WellFoundedInduction, TLAPS

----------------------------------------------------------------------------
(* Sums and products over finite sets *)

\* h folds g with o over each part of S, and it does not matter in which order.
Folding(o, e, g, S, h) ==
    /\ h[{}] = e
    /\ \A T \in SUBSET S : \A x \in T : h[T] = o[g[x]][h[T \ {x}]]

\* Of sets of parts of a finite set, one that is not empty has an element from which
\* nothing can be taken away: the induction that the sums below rest on.
LEMMA LeastSubset ==
  ASSUME NEW S, IsFiniteSet(S), NEW Bad \in SUBSET SUBSET S, Bad # {}
  PROVE  \E T \in Bad : \A x \in T : T \ {x} \notin Bad
<1>1. Bad \subseteq FiniteSubsetsOf(S)
  BY FS_Subset DEF FiniteSubsetsOf
<1>2. PICK T \in Bad : \A U \in Bad : <<U, T>> \notin StrictSubsetOrdering(S)
  BY <1>1, WFMin, FS_StrictSubsetOrderingWellFounded
<1>3. \A x \in T : <<T \ {x}, T>> \in StrictSubsetOrdering(S)
  BY DEF StrictSubsetOrdering
<1> QED BY <1>2, <1>3

\* A function on a finite set can be folded with an operation whose arguments may change
\* places, so that the fold of each part follows from that of the part less any one
\* element.
LEMMA FoldExists ==
  ASSUME NEW V, NEW e \in V, NEW o \in [V -> [V -> V]],
         \A x, y, z \in V : o[x][o[y][z]] = o[y][o[x][z]],
         NEW S, IsFiniteSet(S), NEW g \in [S -> V]
  PROVE  \E h \in [SUBSET S -> V] : Folding(o, e, g, S, h)
<1> DEFINE Bad == {R \in SUBSET S : ~ \E h \in [SUBSET R -> V] : Folding(o, e, g, R, h)}
<1>1. SUFFICES ASSUME S \in Bad PROVE FALSE
  OBVIOUS
<1>2. PICK R \in Bad : \A x \in R : R \ {x} \notin Bad
  BY <1>1, LeastSubset
<1>3. CASE R = {}
  <2>1. [T \in SUBSET R |-> e] \in [SUBSET R -> V]
    OBVIOUS
  <2>2. Folding(o, e, g, R, [T \in SUBSET R |-> e])
    BY <1>3 DEF Folding
  <2> QED BY <1>2, <2>1, <2>2
<1>4. ASSUME NEW c \in R PROVE FALSE
  <2>1. PICK h \in [SUBSET (R \ {c}) -> V] : Folding(o, e, g, R \ {c}, h)
    BY <1>2, <1>4
  <2> DEFINE k == [T \in SUBSET R |-> IF c \in T THEN o[g[c]][h[T \ {c}]] ELSE h[T]]
  <2>2. k \in [SUBSET R -> V]
    <3>1. \A T \in SUBSET R : T \ {c} \in SUBSET (R \ {c}) /\ (c \notin T => T \in SUBSET (R \ {c}))
      OBVIOUS
    <3>2. g[c] \in V
      BY <1>2
    <3>3. o[g[c]] \in [V -> V]
      BY <3>2
    <3>4. \A v \in V : o[g[c]][v] \in V
      BY <3>3
    <3>5. \A T \in SUBSET R :
             /\ c \in T => o[g[c]][h[T \ {c}]] \in V
             /\ c \notin T => h[T] \in V
      BY <3>1, <3>4
    <3> QED BY <3>5
  <2>3. k[{}] = e
    BY <2>1 DEF Folding
  <2>4. ASSUME NEW T \in SUBSET R, NEW x \in T
        PROVE  k[T] = o[g[x]][k[T \ {x}]]
    <3>1. CASE c \notin T
      <4>1. T \in SUBSET (R \ {c})
        BY <3>1
      <4> QED BY <2>1, <3>1, <4>1 DEF Folding
    <3>2. CASE x = c
      BY <3>2
    <3>3. CASE c \in T /\ x # c
      <4>1. T \ {c} \in SUBSET (R \ {c}) /\ x \in T \ {c}
        BY <3>3
      <4>2. h[T \ {c}] = o[g[x]][h[(T \ {c}) \ {x}]]
        BY <2>1, <4>1 DEF Folding
      <4>3. (T \ {c}) \ {x} = (T \ {x}) \ {c} /\ (T \ {x}) \ {c} \in SUBSET (R \ {c})
        OBVIOUS
      <4>4. k[T \ {x}] = o[g[c]][h[(T \ {x}) \ {c}]]
        BY <3>3
      <4>5. g[c] \in V /\ g[x] \in V /\ h[(T \ {x}) \ {c}] \in V
        BY <1>2, <4>3
      <4>6. k[T] = o[g[c]][h[T \ {c}]]
        BY <3>3
      <4>7. h[T \ {c}] = o[g[x]][h[(T \ {x}) \ {c}]]
        BY <4>2, <4>3
      <4>8. o[g[c]][o[g[x]][h[(T \ {x}) \ {c}]]] = o[g[x]][o[g[c]][h[(T \ {x}) \ {c}]]]
        <5>1. \A w \in V : o[g[c]][o[g[x]][w]] = o[g[x]][o[g[c]][w]]
          BY <4>5
        <5> QED BY <4>5, <5>1
      <4> HIDE DEF k
      <4> QED BY <4>4, <4>6, <4>7, <4>8
    <3> QED BY <3>1, <3>2, <3>3
  <2>5. Folding(o, e, g, R, k)
    BY <2>3, <2>4 DEF Folding
  <2> HIDE DEF k
  <2> QED BY <1>2, <2>2, <2>5
<1> QED BY <1>3, <1>4

\* The element that the folds of the community modules take first.
Chosen(T) == CHOOSE x \in T : TRUE

\* Two folds agree if what they make of a set follows from what they make of the rest.
LEMMA SameFold ==
  ASSUME NEW R, IsFiniteSet(R), NEW it, NEW h, it[{}] = h[{}],
         \A T \in SUBSET R : T # {} /\ it[T \ {Chosen(T)}] = h[T \ {Chosen(T)}] => it[T] = h[T]
  PROVE  it[R] = h[R]
<1> DEFINE Bad == {T \in SUBSET R : it[T] # h[T]}
<1>1. SUFFICES ASSUME R \in Bad PROVE FALSE
  OBVIOUS
<1>2. PICK T \in Bad : \A x \in T : T \ {x} \notin Bad
  BY <1>1, LeastSubset
<1>3. CASE T # {}
  BY <1>2, <1>3 DEF Chosen
<1> QED BY <1>2, <1>3

\* + and *, as functions.
Plus == [a \in Int |-> [b \in Int |-> a + b]]

Positive == Nat \ {0}
Times == [a \in Positive |-> [b \in Positive |-> a * b]]

\* Integers can be added up in any order.
LEMMA SumExists ==
  ASSUME NEW S, IsFiniteSet(S), NEW g \in [S -> Int]
  PROVE  \E h \in [SUBSET S -> Int] : Folding(Plus, 0, g, S, h)
<1>1. Plus \in [Int -> [Int -> Int]]
  BY DEF Plus
<1>2. \A a, b, c \in Int : Plus[a][Plus[b][c]] = Plus[b][Plus[a][c]]
  BY DEF Plus
<1> HIDE DEF Plus
<1> QED BY <1>1, <1>2, 0 \in Int, FoldExists

\* Positive numbers can be multiplied in any order.
LEMMA ProductExists ==
  ASSUME NEW S, IsFiniteSet(S), NEW g \in [S -> Positive]
  PROVE  \E h \in [SUBSET S -> Positive] : Folding(Times, 1, g, S, h)
<1>1. Times \in [Positive -> [Positive -> Positive]]
  <2>1. \A a, b \in Positive : a * b \in Positive
    BY DEF Positive
  <2> QED BY <2>1 DEF Times
<1>2. \A a, b, c \in Positive : Times[a][Times[b][c]] = Times[b][Times[a][c]]
  <2>1. \A a, b \in Positive : a * b \in Positive /\ Times[a][b] = a * b
    BY DEF Positive, Times
  <2>2. \A a, b, c \in Positive : a * (b * c) = b * (a * c)
    BY DEF Positive
  <2> TAKE a, b, c \in Positive
  <2>3. Times[a][Times[b][c]] = a * (b * c) /\ Times[b][Times[a][c]] = b * (a * c)
    BY <2>1
  <2> QED BY <2>2, <2>3
<1> HIDE DEF Times, Positive
<1>3. 1 \in Positive
  BY DEF Positive
<1> QED BY <1>1, <1>2, <1>3, FoldExists

\* SumFunction, which chooses an order, finds the sum that any order gives.
LEMMA SumIs ==
  ASSUME NEW S, IsFiniteSet(S), NEW g \in [S -> Int],
         NEW h \in [SUBSET S -> Int], Folding(Plus, 0, g, S, h)
  PROVE  SumFunction(g) = h[S]
<1> DEFINE Step(f) == [s \in SUBSET S |-> IF s = {} THEN 0
                                         ELSE LET x == CHOOSE x \in s : TRUE IN g[x] + f[s \ {x}]]
           it == CHOOSE f : f = Step(f)
<1>1. h[{}] = 0 /\ \A T \in SUBSET S : T # {} => h[T] = g[Chosen(T)] + h[T \ {Chosen(T)}]
  <2>1. ASSUME NEW T \in SUBSET S, T # {} PROVE h[T] = g[Chosen(T)] + h[T \ {Chosen(T)}]
    <3>1. Chosen(T) \in T
      BY <2>1 DEF Chosen
    <3>2. h[T] = Plus[g[Chosen(T)]][h[T \ {Chosen(T)}]]
      BY <3>1 DEF Folding
    <3> QED BY <3>1, <3>2 DEF Plus
  <2>2. h[{}] = 0
    BY DEF Folding
  <2> QED BY <2>1, <2>2
<1>2. h = Step(h)
  BY <1>1 DEF Chosen
<1>3. it = Step(it)
  <2> HIDE DEF Step
  <2> QED BY <1>2
<1>4. it[{}] = 0 /\ \A T \in SUBSET S : T # {} => it[T] = g[Chosen(T)] + it[T \ {Chosen(T)}]
  <2> HIDE DEF it
  <2> QED BY <1>3 DEF Chosen
<1>5. SumFunction(g) = it[S]
  <2>1. DOMAIN g = S
    OBVIOUS
  <2> QED BY <2>1 DEF SumFunction, SumFunctionOnSet, FoldFunctionOnSet, MapThenFoldSet
<1> HIDE DEF it
<1>6. it[S] = h[S]
  <2>1. IsFiniteSet(S) /\ it[{}] = h[{}]
    BY <1>1, <1>4
  <2>2. \A T \in SUBSET S :
           T # {} /\ it[T \ {Chosen(T)}] = h[T \ {Chosen(T)}] => it[T] = h[T]
    BY <1>1, <1>4
  <2> QED BY <2>1, <2>2, SameFold
<1> QED BY <1>5, <1>6

\* The same of Product.
LEMMA ProductIs ==
  ASSUME NEW S, IsFiniteSet(S), NEW g \in [S -> Positive],
         NEW h \in [SUBSET S -> Positive], Folding(Times, 1, g, S, h)
  PROVE  Product(g) = h[S]
<1> DEFINE Step(f) == [s \in SUBSET S |-> IF s = {} THEN 1
                                         ELSE LET x == CHOOSE x \in s : TRUE IN g[x] * f[s \ {x}]]
           it == CHOOSE f : f = Step(f)
<1>1. h[{}] = 1 /\ \A T \in SUBSET S : T # {} => h[T] = g[Chosen(T)] * h[T \ {Chosen(T)}]
  <2>1. ASSUME NEW T \in SUBSET S, T # {} PROVE h[T] = g[Chosen(T)] * h[T \ {Chosen(T)}]
    <3>1. Chosen(T) \in T
      BY <2>1 DEF Chosen
    <3>2. h[T] = Times[g[Chosen(T)]][h[T \ {Chosen(T)}]]
      BY <3>1 DEF Folding
    <3> QED BY <3>1, <3>2 DEF Times
  <2>2. h[{}] = 1
    BY DEF Folding
  <2> QED BY <2>1, <2>2
<1>2. h = Step(h)
  BY <1>1 DEF Chosen
<1>3. it = Step(it)
  <2> HIDE DEF Step
  <2> QED BY <1>2
<1>4. it[{}] = 1 /\ \A T \in SUBSET S : T # {} => it[T] = g[Chosen(T)] * it[T \ {Chosen(T)}]
  <2> HIDE DEF it
  <2> QED BY <1>3 DEF Chosen
<1>5. Product(g) = it[S]
  <2>1. DOMAIN g = S
    OBVIOUS
  <2> QED BY <2>1 DEF Product, FoldFunction, FoldFunctionOnSet, MapThenFoldSet
<1> HIDE DEF it
<1>6. it[S] = h[S]
  <2>1. IsFiniteSet(S) /\ it[{}] = h[{}]
    BY <1>1, <1>4
  <2>2. \A T \in SUBSET S :
           T # {} /\ it[T \ {Chosen(T)}] = h[T \ {Chosen(T)}] => it[T] = h[T]
    BY <1>1, <1>4
  <2> QED BY <2>1, <2>2, SameFold
<1> QED BY <1>5, <1>6

\* h holds the sum of g over every part of S.
Sums(g, S, h) ==
    /\ h \in [SUBSET S -> Int]
    /\ h[{}] = 0
    /\ \A R \in SUBSET S : \A x \in R : h[R] = g[x] + h[R \ {x}]
    /\ SumFunction(g) = h[S]
    /\ \A T \in SUBSET S : SumFunction([x \in T |-> g[x]]) = h[T]

\* For a function on a finite set there is one table of the sums over all of its parts.
LEMMA SumTable ==
  ASSUME NEW S, IsFiniteSet(S), NEW g \in [S -> Int]
  PROVE  \E h : Sums(g, S, h)
<1>1. PICK h \in [SUBSET S -> Int] : Folding(Plus, 0, g, S, h)
  BY SumExists
<1>2. ASSUME NEW R \in SUBSET S, NEW x \in R PROVE h[R] = g[x] + h[R \ {x}]
  <2>1. h[R] = Plus[g[x]][h[R \ {x}]]
    BY <1>1 DEF Folding
  <2>2. g[x] \in Int /\ h[R \ {x}] \in Int
    BY <1>1
  <2> QED BY <2>1, <2>2 DEF Plus
<1>3. h[{}] = 0
  BY <1>1 DEF Folding
<1>4. SumFunction(g) = h[S]
  BY <1>1, SumIs
<1>5. ASSUME NEW T \in SUBSET S PROVE SumFunction([x \in T |-> g[x]]) = h[T]
  <2> DEFINE gT == [x \in T |-> g[x]]
             hT == [R \in SUBSET T |-> h[R]]
  <2>1. gT \in [T -> Int] /\ hT \in [SUBSET T -> Int] /\ IsFiniteSet(T)
    BY <1>1, FS_Subset
  <2>2. Folding(Plus, 0, gT, T, hT)
    BY <1>1 DEF Folding
  <2>3. hT[T] = h[T]
    OBVIOUS
  <2> HIDE DEF gT, hT
  <2>4. SumFunction(gT) = hT[T]
    BY <2>1, <2>2, SumIs
  <2> QED BY <2>3, <2>4 DEF gT
<1> QED BY <1>1, <1>2, <1>3, <1>4, <1>5 DEF Sums

\* Part of a sum of naturals is at most the sum, and the sum itself only if what is left
\* out is zero.
LEMMA SumOfPart ==
  ASSUME NEW S, IsFiniteSet(S), NEW g \in [S -> Nat], NEW T \in SUBSET S
  PROVE  LET part == SumFunction([x \in T |-> g[x]])
         IN  /\ part \in Nat /\ SumFunction(g) \in Nat
             /\ part <= SumFunction(g)
             /\ part = SumFunction(g) <=> \A x \in S \ T : g[x] = 0
<1>0. g \in [S -> Int]
  OBVIOUS
<1>2. PICK h : Sums(g, S, h)
  BY <1>0, SumTable
<1>1. /\ h \in [SUBSET S -> Int]
      /\ h[{}] = 0
      /\ \A R \in SUBSET S : \A x \in R : h[R] = g[x] + h[R \ {x}]
      /\ SumFunction(g) = h[S]
      /\ SumFunction([x \in T |-> g[x]]) = h[T]
  BY <1>2 DEF Sums
<1> DEFINE Good(R) == /\ h[R \cap T] \in Nat /\ h[R] \in Nat
                      /\ h[R \cap T] <= h[R]
                      /\ h[R \cap T] = h[R] <=> \A x \in R \ T : g[x] = 0
           Bad == {R \in SUBSET S : ~Good(R)}
<1>5. S \notin Bad
  <2>1. SUFFICES ASSUME S \in Bad PROVE FALSE
    OBVIOUS
  <2>2. PICK R \in Bad : \A x \in R : R \ {x} \notin Bad
    <3> HIDE DEF Bad
    <3>1. Bad \in SUBSET SUBSET S /\ Bad # {}
      BY <2>1 DEF Bad
    <3> QED BY <3>1, LeastSubset
  <2>3. CASE R = {}
    <3>1. Good({})
      BY <1>1
    <3> QED BY <2>2, <2>3, <3>1
  <2>4. ASSUME NEW x \in R PROVE FALSE
    <3>1. R \in SUBSET S /\ g[x] \in Nat /\ Good(R \ {x})
      BY <2>2
    <3>2. h[R] = g[x] + h[R \ {x}]
      BY <1>1, <3>1
    <3>3. CASE x \in T
      <4>1. (R \ {x}) \cap T = (R \cap T) \ {x} /\ x \in R \cap T /\ R \cap T \in SUBSET S
        BY <3>1, <3>3
      <4>2. h[R \cap T] = g[x] + h[(R \cap T) \ {x}]
        BY <1>1, <4>1
      <4>3. (R \ {x}) \ T = R \ T
        BY <3>3
      <4> DEFINE a == h[(R \ {x}) \cap T]
                 b == h[R \ {x}]
      <4>5. /\ a \in Nat /\ b \in Nat /\ a <= b
            /\ a = b <=> \A y \in R \ T : g[y] = 0
        BY <3>1, <4>3
      <4>6. h[R \cap T] = g[x] + a /\ h[R] = g[x] + b
        BY <3>2, <4>1, <4>2
      <4>4. Good(R)
        <5> HIDE DEF a, b
        <5> QED BY <3>1, <4>5, <4>6
      <4> QED BY <2>2, <4>4
    <3>4. CASE x \notin T
      <4>1. (R \ {x}) \cap T = R \cap T /\ (R \ {x}) \ T = (R \ T) \ {x} /\ x \in R \ T
        BY <3>4
      <4> DEFINE a == h[R \cap T]
                 b == h[R \ {x}]
      <4>3. /\ a \in Nat /\ b \in Nat /\ a <= b
            /\ a = b <=> \A y \in (R \ T) \ {x} : g[y] = 0
        BY <3>1, <4>1
      <4>4. h[R] = g[x] + b
        BY <3>2
      <4>2. Good(R)
        <5> HIDE DEF b
        <5>1. a \in Nat /\ h[R] \in Nat /\ a <= h[R]
          BY <3>1, <4>3, <4>4
        <5>2. a = h[R] <=> a = b /\ g[x] = 0
          BY <3>1, <4>3, <4>4
        <5> HIDE DEF a
        <5>3. a = h[R] <=> \A y \in R \ T : g[y] = 0
          BY <4>1, <4>3, <5>2
        <5> QED BY <5>1, <5>3 DEF a
      <4> QED BY <2>2, <4>2
    <3> QED BY <3>3, <3>4
  <2> QED BY <2>3, <2>4
<1>6. Good(S)
  BY <1>5
<1>7. S \cap T = T
  OBVIOUS
<1> QED BY <1>1, <1>6, <1>7

\* Terms that are at most k times those of another sum give a sum that is at most k
\* times the other, and equal to that only if each of them is.
LEMMA SumBelow ==
  ASSUME NEW S, IsFiniteSet(S), NEW f \in [S -> Nat], NEW g \in [S -> Nat], NEW k \in Nat,
         \A x \in S : f[x] <= g[x] * k
  PROVE  /\ SumFunction(f) \in Nat /\ SumFunction(g) \in Nat
         /\ SumFunction(f) <= SumFunction(g) * k
         /\ SumFunction(f) = SumFunction(g) * k <=> \A x \in S : f[x] = g[x] * k
<1>0. f \in [S -> Int] /\ g \in [S -> Int]
  OBVIOUS
<1>5. PICK a : Sums(f, S, a)
  BY <1>0, SumTable
<1>1. /\ a \in [SUBSET S -> Int]
      /\ a[{}] = 0
      /\ \A R \in SUBSET S : \A x \in R : a[R] = f[x] + a[R \ {x}]
      /\ SumFunction(f) = a[S]
  BY <1>5 DEF Sums
<1>6. PICK b : Sums(g, S, b)
  BY <1>0, SumTable
<1>2. /\ b \in [SUBSET S -> Int]
      /\ b[{}] = 0
      /\ \A R \in SUBSET S : \A x \in R : b[R] = g[x] + b[R \ {x}]
      /\ SumFunction(g) = b[S]
  BY <1>6 DEF Sums
<1> DEFINE Good(R) == /\ a[R] \in Nat /\ b[R] \in Nat
                      /\ a[R] <= b[R] * k
                      /\ a[R] = b[R] * k <=> \A x \in R : f[x] = g[x] * k
           Bad == {R \in SUBSET S : ~Good(R)}
<1>3. S \notin Bad
  <2>1. SUFFICES ASSUME S \in Bad PROVE FALSE
    OBVIOUS
  <2>2. PICK R \in Bad : \A x \in R : R \ {x} \notin Bad
    <3> HIDE DEF Bad
    <3>1. Bad \in SUBSET SUBSET S /\ Bad # {}
      BY <2>1 DEF Bad
    <3> QED BY <3>1, LeastSubset
  <2>3. CASE R = {}
    <3>1. Good({})
      BY <1>1, <1>2
    <3> QED BY <2>2, <2>3, <3>1
  <2>4. ASSUME NEW x \in R PROVE FALSE
    <3>1. R \in SUBSET S /\ f[x] \in Nat /\ g[x] \in Nat /\ f[x] <= g[x] * k /\ Good(R \ {x})
      BY <2>2
    <3> DEFINE u == a[R \ {x}]
               v == b[R \ {x}]
               fx == f[x]
               gx == g[x]
    <3>2. a[R] = fx + u /\ b[R] = gx + v
      BY <1>1, <1>2, <3>1
    <3>3. /\ u \in Nat /\ v \in Nat /\ u <= v * k
          /\ u = v * k <=> \A y \in R \ {x} : f[y] = g[y] * k
      BY <3>1
    <3>4. fx \in Nat /\ gx \in Nat /\ fx <= gx * k
      BY <3>1
    <3>5. a[R] \in Nat /\ b[R] \in Nat /\ a[R] <= b[R] * k
          /\ (a[R] = b[R] * k <=> fx = gx * k /\ u = v * k)
      <4> HIDE DEF u, v, fx, gx
      <4>1. (gx + v) * k = gx * k + v * k /\ gx * k \in Nat /\ v * k \in Nat
        BY <3>3, <3>4
      <4> QED BY <3>2, <3>3, <3>4, <4>1
    <3>6. (fx = gx * k /\ u = v * k) <=> \A y \in R : f[y] = g[y] * k
      <4> HIDE DEF u, v
      <4> QED BY <3>3
    <3>7. Good(R)
      BY <3>5, <3>6
    <3> QED BY <2>2, <3>7
  <2> QED BY <2>3, <2>4
<1>4. Good(S)
  BY <1>3
<1> QED BY <1>1, <1>2, <1>4

\* A product is positive, and a multiple of each of its factors.
LEMMA ProductDivides ==
  ASSUME NEW S, IsFiniteSet(S), NEW g \in [S -> Positive]
  PROVE  /\ Product(g) \in Positive
         /\ \A x \in S : \E q \in Positive : Product(g) = g[x] * q
<1>1. PICK h \in [SUBSET S -> Positive] : Folding(Times, 1, g, S, h)
  BY ProductExists
<1>2. Product(g) = h[S]
  BY <1>1, ProductIs
<1>3. ASSUME NEW x \in S PROVE \E q \in Positive : h[S] = g[x] * q
  <2>1. h[S] = Times[g[x]][h[S \ {x}]]
    BY <1>1 DEF Folding
  <2>2. g[x] \in Positive /\ h[S \ {x}] \in Positive
    BY <1>1
  <2> QED BY <2>1, <2>2 DEF Times
<1> QED BY <1>1, <1>2, <1>3

----------------------------------------------------------------------------
(* Scores *)

\* Finitely many rules, none of which weighs less than nothing.
Weighed(checks) == IsFiniteSet(checks) /\ \A r \in checks : r.weight \in Nat

\* Some of the rules weigh no more than all, and as much only if the others weigh
\* nothing.
LEMMA WeightOfPart ==
  ASSUME NEW checks, Weighed(checks), NEW T \in SUBSET checks
  PROVE  /\ Weight(T) \in Nat /\ Weight(checks) \in Nat
         /\ Weight(T) <= Weight(checks)
         /\ Weight(T) = Weight(checks) <=> \A r \in checks \ T : r.weight = 0
<1> DEFINE g == [r \in checks |-> r.weight]
<1>1. IsFiniteSet(checks) /\ g \in [checks -> Nat]
  BY DEF Weighed
<1>2. /\ Weight(T) = SumFunction([r \in T |-> g[r]])
      /\ Weight(checks) = SumFunction(g)
  <2>1. [r \in T |-> g[r]] = [r \in T |-> r.weight]
    OBVIOUS
  <2> QED BY <2>1 DEF Weight
<1>3. \A r \in checks : g[r] = r.weight
  OBVIOUS
<1> HIDE DEF g
<1>4. /\ SumFunction([r \in T |-> g[r]]) \in Nat /\ SumFunction(g) \in Nat
      /\ SumFunction([r \in T |-> g[r]]) <= SumFunction(g)
      /\ SumFunction([r \in T |-> g[r]]) = SumFunction(g) <=> \A x \in checks \ T : g[x] = 0
  BY <1>1, SumOfPart
<1> QED BY <1>2, <1>3, <1>4

\* Overall divides the common denominator by one of its factors: nothing is lost.
LEMMA Divided ==
  ASSUME NEW d \in Positive, NEW q \in Positive PROVE (d * q) \div d = q
BY DEF Positive

\* What a pillar contributes is at most its weight, and all of it if every point is won.
LEMMA Contribution ==
  ASSUME NEW w \in Positive, NEW q \in Positive, NEW d \in Positive, NEW n \in Nat, n <= d
  PROVE  /\ w * n * q \in Nat
         /\ w * n * q <= w * (d * q)
         /\ w * n * q = w * (d * q) <=> n = d
BY DEF Positive

\* What passes more contributes no less.
LEMMA Contributions ==
  ASSUME NEW w \in Positive, NEW q \in Positive, NEW m \in Nat, NEW n \in Nat, n <= m
  PROVE  w * n * q <= w * m * q
BY DEF Positive

\* A fraction between 0 and 1 that is 1 exactly if all of checks that weighs passed.
IsScore(s, checks, passed) ==
    /\ s.num \in Nat /\ s.den \in Positive /\ s.num <= s.den
    /\ s.num = s.den <=> \A r \in checks : r.weight > 0 => r.id \in passed

\* The score of a pillar is a fraction as it should be, pillars without weight included.
LEMMA PillarIsScore ==
  ASSUME NEW checks, Weighed(checks), NEW passed
  PROVE  IsScore(PillarScore(checks, passed), checks, passed)
<1>1. Passed(checks, passed) \in SUBSET checks
  BY DEF Passed
<1>2. /\ Weight(Passed(checks, passed)) \in Nat /\ Weight(checks) \in Nat
      /\ Weight(Passed(checks, passed)) <= Weight(checks)
      /\ Weight(Passed(checks, passed)) = Weight(checks)
           <=> \A r \in checks \ Passed(checks, passed) : r.weight = 0
  BY <1>1, WeightOfPart
<1>3. \A r \in checks : r.weight \in Nat
  BY DEF Weighed
<1>4. (\A r \in checks \ Passed(checks, passed) : r.weight = 0)
        <=> \A r \in checks : r.weight > 0 => r.id \in passed
  BY <1>3 DEF Passed
<1>5. CASE Weight(checks) > 0
  <2>1. PillarScore(checks, passed)
          = [num |-> Weight(Passed(checks, passed)), den |-> Weight(checks)]
    BY <1>5 DEF PillarScore
  <2> QED BY <1>2, <1>4, <1>5, <2>1 DEF IsScore, Positive
<1>6. CASE ~(Weight(checks) > 0)
  <2>1. PillarScore(checks, passed) = [num |-> 1, den |-> 1]
    BY <1>6 DEF PillarScore, Full
  <2>2. Weight(Passed(checks, passed)) = Weight(checks)
    BY <1>2, <1>6
  <2> QED BY <1>2, <1>4, <2>1, <2>2 DEF IsScore, Positive
<1> QED BY <1>5, <1>6

\* More that passes never lowers the score of a pillar, nor changes its denominator.
LEMMA PillarMonotone ==
  ASSUME NEW checks, Weighed(checks), NEW p, NEW q, Passed(checks, p) \subseteq Passed(checks, q)
  PROVE  /\ PillarScore(checks, p).num <= PillarScore(checks, q).num
         /\ PillarScore(checks, p).den = PillarScore(checks, q).den
<1>1. Weighed(Passed(checks, q))
  BY FS_Subset DEF Weighed, Passed
<1>2. /\ Weight(Passed(checks, p)) <= Weight(Passed(checks, q))
  BY <1>1, WeightOfPart
<1> QED BY <1>2 DEF PillarScore, Full

\* The parts of Overall.
ScoreOf(checks, passed) ==
    [p \in Pillars(checks) |-> PillarScore(OfPillar(checks, p), passed)]
DenOf(checks, passed) == [p \in Pillars(checks) |-> ScoreOf(checks, passed)[p].den]
CommonOf(checks, passed) == Product(DenOf(checks, passed))
PartOf(checks, passed) ==
    [p \in Pillars(checks) |-> PillarWeight(p) * ScoreOf(checks, passed)[p].num
                               * (CommonOf(checks, passed) \div ScoreOf(checks, passed)[p].den)]
WeightsOf(checks) == [p \in Pillars(checks) |-> PillarWeight(p)]

\* Overall in terms of the names above.
LEMMA OverallIs ==
  ASSUME NEW checks, NEW passed, checks # {}
  PROVE  Overall(checks, passed)
           = [num |-> SumFunction(PartOf(checks, passed)),
              den |-> SumFunction(WeightsOf(checks)) * CommonOf(checks, passed)]
BY DEF Overall, PartOf, WeightsOf, CommonOf, DenOf, ScoreOf

\* There are finitely many pillars, and the rules of each can be weighed.
LEMMA PillarsFinite ==
  ASSUME NEW checks, Weighed(checks)
  PROVE  /\ IsFiniteSet(Pillars(checks))
         /\ checks # {} => Pillars(checks) # {}
         /\ \A p \in Pillars(checks) : Weighed(OfPillar(checks, p))
<1>1. IsFiniteSet(Pillars(checks))
  <2> DEFINE f == [r \in checks |-> r.pillar]
  <2>1. f \in Surjection(checks, Pillars(checks))
    BY DEF Surjection, Pillars
  <2> QED BY <2>1, FS_Surjection DEF Weighed
<1>2. ASSUME NEW p \in Pillars(checks) PROVE Weighed(OfPillar(checks, p))
  BY FS_Subset DEF Weighed, OfPillar
<1> QED BY <1>1, <1>2 DEF Pillars

\* Every pillar there is has a score as it should be.
LEMMA PillarScores ==
  ASSUME NEW checks, Weighed(checks), NEW passed, NEW p \in Pillars(checks)
  PROVE  IsScore(ScoreOf(checks, passed)[p], OfPillar(checks, p), passed)
BY PillarsFinite, PillarIsScore DEF ScoreOf

\* The common denominator is positive, and a multiple of that of each pillar.
LEMMA CommonDivides ==
  ASSUME NEW checks, Weighed(checks), NEW passed
  PROVE  /\ CommonOf(checks, passed) \in Positive
         /\ \A p \in Pillars(checks) : \E q \in Positive :
               /\ CommonOf(checks, passed) = ScoreOf(checks, passed)[p].den * q
               /\ CommonOf(checks, passed) \div ScoreOf(checks, passed)[p].den = q
<1>1. \A p \in Pillars(checks) : ScoreOf(checks, passed)[p].den \in Positive
  BY PillarScores DEF IsScore
<1>2. DenOf(checks, passed) \in [Pillars(checks) -> Positive]
  BY <1>1 DEF DenOf
<1>3. IsFiniteSet(Pillars(checks))
  BY PillarsFinite
<1>4. /\ CommonOf(checks, passed) \in Positive
      /\ \A p \in Pillars(checks) : \E q \in Positive :
            CommonOf(checks, passed) = DenOf(checks, passed)[p] * q
  BY <1>2, <1>3, ProductDivides DEF CommonOf
<1>5. ASSUME NEW p \in Pillars(checks)
      PROVE  \E q \in Positive :
               /\ CommonOf(checks, passed) = ScoreOf(checks, passed)[p].den * q
               /\ CommonOf(checks, passed) \div ScoreOf(checks, passed)[p].den = q
  <2>1. PICK q \in Positive : CommonOf(checks, passed) = ScoreOf(checks, passed)[p].den * q
    BY <1>4 DEF DenOf
  <2> DEFINE d == ScoreOf(checks, passed)[p].den
  <2>2. d \in Positive
    BY <1>1
  <2>3. (d * q) \div d = q
    <3> HIDE DEF d
    <3> QED BY <2>2, Divided
  <2> QED BY <2>1, <2>3
<1> QED BY <1>4, <1>5

\* Every pillar counts.
LEMMA PillarWeights ==
  ASSUME NEW p PROVE PillarWeight(p) \in Positive
BY DEF PillarWeight, Positive

\* The overall score is a fraction as it should be, if there is a rule.
LEMMA OverallOfSome ==
  ASSUME NEW checks, Weighed(checks), NEW passed, checks # {}
  PROVE  IsScore(Overall(checks, passed), checks, passed)
<1> DEFINE pillars == Pillars(checks)
           part == PartOf(checks, passed)
           weights == WeightsOf(checks)
           common == CommonOf(checks, passed)
           score(p) == ScoreOf(checks, passed)[p]
<1>1. IsFiniteSet(pillars) /\ pillars # {} /\ common \in Positive
  BY PillarsFinite, CommonDivides
<1>2. ASSUME NEW p \in pillars
      PROVE  /\ weights[p] \in Positive /\ part[p] \in Nat
             /\ part[p] <= weights[p] * common
             /\ part[p] = weights[p] * common <=> score(p).num = score(p).den
  <2>1. PICK q \in Positive : common = score(p).den * q /\ common \div score(p).den = q
    BY CommonDivides
  <2>2. score(p).num \in Nat /\ score(p).den \in Positive /\ score(p).num <= score(p).den
    BY PillarScores DEF IsScore
  <2>3. weights[p] = PillarWeight(p) /\ part[p] = PillarWeight(p) * score(p).num * q
    BY <2>1 DEF PartOf, WeightsOf
  <2> DEFINE w == PillarWeight(p)
             n == score(p).num
             d == score(p).den
  <2>4. w \in Positive
    BY PillarWeights
  <2>5. /\ w * n * q \in Nat
        /\ w * n * q <= w * (d * q)
        /\ w * n * q = w * (d * q) <=> n = d
    <3>1. n \in Nat /\ d \in Positive /\ n <= d
      BY <2>2
    <3> HIDE DEF w, n, d
    <3> QED BY <2>4, <3>1, Contribution
  <2> QED BY <2>1, <2>3, <2>4, <2>5
<1>3. part \in [pillars -> Nat] /\ weights \in [pillars -> Nat]
  BY <1>2 DEF PartOf, WeightsOf, Positive
<1>4. /\ SumFunction(part) \in Nat /\ SumFunction(weights) \in Nat
      /\ SumFunction(part) <= SumFunction(weights) * common
      /\ SumFunction(part) = SumFunction(weights) * common
           <=> \A p \in pillars : part[p] = weights[p] * common
  <2> HIDE DEF part, weights, common, pillars
  <2>1. common \in Nat
    BY <1>1 DEF Positive
  <2> QED BY <1>1, <1>2, <1>3, <2>1, SumBelow
<1>5. SumFunction(weights) \in Positive
  <2> HIDE DEF part, weights, common, pillars
  <2> DEFINE none == SumFunction([x \in {} |-> weights[x]])
  <2>1. /\ none \in Nat /\ none <= SumFunction(weights)
        /\ none = SumFunction(weights) <=> \A p \in pillars \ {} : weights[p] = 0
    BY <1>1, <1>3, SumOfPart
  <2>2. ~ \A p \in pillars \ {} : weights[p] = 0
    BY <1>1, <1>2 DEF Positive
  <2> HIDE DEF none
  <2> QED BY <1>4, <2>1, <2>2 DEF Positive
<1>6. (\A p \in pillars : score(p).num = score(p).den)
        <=> \A r \in checks : r.weight > 0 => r.id \in passed
  <2>1. \A p \in pillars : score(p).num = score(p).den
                             <=> \A r \in OfPillar(checks, p) : r.weight > 0 => r.id \in passed
    BY PillarScores DEF IsScore
  <2> QED BY <2>1 DEF OfPillar, Pillars
<1>7. Overall(checks, passed)
        = [num |-> SumFunction(part), den |-> SumFunction(weights) * common]
  BY OverallIs
<1>8. SumFunction(weights) * common \in Positive
  <2> HIDE DEF weights, common
  <2> QED BY <1>1, <1>5 DEF Positive
<1> HIDE DEF part, weights, common, pillars
<1>9. (\A p \in pillars : part[p] = weights[p] * common)
        <=> \A r \in checks : r.weight > 0 => r.id \in passed
  BY <1>2, <1>6
<1> QED BY <1>4, <1>7, <1>8, <1>9 DEF IsScore

\* And if there is none.
LEMMA OverallIsScore ==
  ASSUME NEW checks, Weighed(checks), NEW passed
  PROVE  IsScore(Overall(checks, passed), checks, passed)
<1>1. CASE checks = {}
  <2>1. Overall(checks, passed) = [num |-> 1, den |-> 1]
    BY <1>1 DEF Overall, Full
  <2> QED BY <1>1, <2>1 DEF IsScore, Positive
<1> QED BY <1>1, OverallOfSome

\* More that passes never lowers the score, whose denominator stays what it was.
LEMMA OverallMonotone ==
  ASSUME NEW checks, Weighed(checks), NEW p, NEW q, Passed(checks, p) \subseteq Passed(checks, q)
  PROVE  /\ Overall(checks, p).num <= Overall(checks, q).num
         /\ Overall(checks, p).den = Overall(checks, q).den
<1>1. CASE checks = {}
  BY <1>1 DEF Overall, Full
<1>2. CASE checks # {}
  <2> DEFINE pillars == Pillars(checks)
             low == PartOf(checks, p)
             high == PartOf(checks, q)
  <2>1. ASSUME NEW k \in pillars
        PROVE  /\ ScoreOf(checks, p)[k].num <= ScoreOf(checks, q)[k].num
               /\ ScoreOf(checks, p)[k].den = ScoreOf(checks, q)[k].den
    <3>1. Passed(OfPillar(checks, k), p) \subseteq Passed(OfPillar(checks, k), q)
      BY DEF Passed, OfPillar
    <3>2. Weighed(OfPillar(checks, k))
      BY PillarsFinite
    <3> QED BY <3>1, <3>2, PillarMonotone DEF ScoreOf
  <2>2. CommonOf(checks, p) = CommonOf(checks, q)
    <3>1. DenOf(checks, p) = DenOf(checks, q)
      BY <2>1 DEF DenOf
    <3> QED BY <3>1 DEF CommonOf
  <2>3. ASSUME NEW k \in pillars
        PROVE  low[k] \in Nat /\ high[k] \in Nat /\ low[k] <= high[k]
    <3>1. PICK d \in Positive : /\ CommonOf(checks, p) = ScoreOf(checks, p)[k].den * d
                                /\ CommonOf(checks, p) \div ScoreOf(checks, p)[k].den = d
      BY CommonDivides
    <3> DEFINE w == PillarWeight(k)
               n == ScoreOf(checks, p)[k].num
               m == ScoreOf(checks, q)[k].num
    <3>2. low[k] = w * n * d /\ high[k] = w * m * d
      BY <2>1, <2>2, <3>1 DEF PartOf
    <3>3. w \in Positive /\ n \in Nat /\ m \in Nat /\ n <= m
      BY <2>1, PillarWeights, PillarScores DEF IsScore
    <3>4. w * n * d <= w * m * d /\ w * n * d \in Nat /\ w * m * d \in Nat
      <4> HIDE DEF w, n, m
      <4>1. w * n * d <= w * m * d
        BY <3>3, Contributions
      <4>2. w * n * d \in Nat /\ w * m * d \in Nat
        BY <3>3 DEF Positive
      <4> QED BY <4>1, <4>2
    <3> QED BY <3>2, <3>4
  <2>4. low \in [pillars -> Nat] /\ high \in [pillars -> Nat]
    BY <2>3 DEF PartOf
  <2>5. IsFiniteSet(pillars)
    BY PillarsFinite
  <2>6. SumFunction(low) <= SumFunction(high)
    <3> HIDE DEF low, high, pillars
    <3>1. 1 \in Nat /\ \A k \in pillars : low[k] <= high[k] * 1
      BY <2>3
    <3>2. /\ SumFunction(high) \in Nat
          /\ SumFunction(low) <= SumFunction(high) * 1
      BY <2>4, <2>5, <3>1, SumBelow
    <3> QED BY <3>2
  <2> QED BY <1>2, <2>2, <2>6, OverallIs
<1> QED BY <1>1, <1>2

\* More that passes never leaves more issues of a severity.
LEMMA IssuesCount ==
  ASSUME NEW checks, Weighed(checks), NEW p, NEW q, NEW severity,
         Passed(checks, p) \subseteq Passed(checks, q)
  PROVE  /\ Issues(checks, p, severity) \in Nat
         /\ Issues(checks, q, severity) \in Nat
         /\ Issues(checks, q, severity) <= Issues(checks, p, severity)
<1> DEFINE bad(passed) == {r \in checks : r.id \notin passed /\ r.severity = severity}
<1>1. IsFiniteSet(checks)
  BY DEF Weighed
<1>2. bad(p) \in SUBSET checks /\ bad(q) \in SUBSET bad(p)
  BY DEF Passed
<1>3. IsFiniteSet(bad(p))
  BY <1>1, <1>2, FS_Subset
<1>4. IsFiniteSet(bad(q)) /\ Cardinality(bad(q)) <= Cardinality(bad(p))
  BY <1>2, <1>3, FS_Subset
<1>5. Cardinality(bad(p)) \in Nat /\ Cardinality(bad(q)) \in Nat
  BY <1>3, <1>4, FS_CardinalityType
<1> QED BY <1>4, <1>5 DEF Issues

----------------------------------------------------------------------------
(* Decisions *)

\* What the decisions go by.
IsSummary(s) ==
    /\ s.score.num \in Nat /\ s.score.den \in Positive
    /\ {s.critical, s.error, s.warning} \subseteq Nat

\* No lower score, and no more issues.
Milder(after, before) ==
    /\ after.score.den = before.score.den /\ after.score.num >= before.score.num
    /\ after.critical <= before.critical
    /\ after.error <= before.error
    /\ after.warning <= before.warning

\* The summary of a scorecard is made of a score and three counts.
LEMMA SummaryIs ==
  ASSUME NEW checks, Weighed(checks), NEW passed
  PROVE  IsSummary(Summary(checks, passed))
<1>1. \A severity : Issues(checks, passed, severity) \in Nat
  BY IssuesCount
<1>2. IsScore(Overall(checks, passed), checks, passed)
  BY OverallIsScore
<1> QED BY <1>1, <1>2 DEF IsSummary, Summary, IsScore

\* More that passes gives a milder summary.
LEMMA SummaryMilder ==
  ASSUME NEW checks, Weighed(checks), NEW p, NEW q, Passed(checks, p) \subseteq Passed(checks, q)
  PROVE  Milder(Summary(checks, q), Summary(checks, p))
<1>1. \A severity : Issues(checks, q, severity) <= Issues(checks, p, severity)
  BY IssuesCount
<1>2. /\ Overall(checks, p).num <= Overall(checks, q).num
      /\ Overall(checks, p).den = Overall(checks, q).den
  BY OverallMonotone
<1>3. Overall(checks, p).num \in Nat /\ Overall(checks, q).num \in Nat
  BY OverallIsScore DEF IsScore
<1> QED BY <1>1, <1>2, <1>3 DEF Milder, Summary

\* What lies below a limit when more passes lies below it when less does.
LEMMA BelowLess ==
  ASSUME NEW after, NEW before, IsSummary(after), IsSummary(before), Milder(after, before),
         NEW percent \in Int, Below(after.score, percent)
  PROVE  Below(before.score, percent)
<1> DEFINE n == before.score.num
           m == after.score.num
           d == before.score.den
<1>1. n \in Nat /\ m \in Nat /\ d \in Positive /\ n <= m
  BY DEF IsSummary, Milder
<1>2. m * 100 < percent * d
  BY DEF Below, Milder
<1>3. n * 100 < percent * d
  <2> HIDE DEF n, m, d
  <2>1. percent * d \in Int
    BY <1>1 DEF Positive
  <2> QED BY <1>1, <1>2, <2>1
<1> QED BY <1>3 DEF Below

\* The branches of Severity, by their conditions.
LEMMA SeverityIs ==
  ASSUME NEW s
  PROVE  /\ Severity(s) \in Severities
         /\ Severity(s) = "critical" <=> (Below(s.score, 70) \/ s.critical > 0)
         /\ Severity(s) \in {"critical", "error"}
              <=> (Below(s.score, 70) \/ s.critical > 0 \/ Below(s.score, 80) \/ s.error > 0)
         /\ Severity(s) = "info"
              <=> ~(\/ Below(s.score, 70) \/ s.critical > 0 \/ Below(s.score, 80) \/ s.error > 0
                    \/ Below(s.score, 90) \/ s.warning > 0)
BY DEF Severity, Severities

\* A milder summary never makes a message due that was not, or more severe.
LEMMA MilderIsCalmer ==
  ASSUME NEW after, NEW before, IsSummary(after), IsSummary(before), Milder(after, before),
         NEW c, {c.critical, c.error, c.warning} \subseteq Int
  PROVE  /\ SeverityRank[Severity(after)] <= SeverityRank[Severity(before)]
         /\ ShouldNotify(c, after) => ShouldNotify(c, before)
<1>1. \A percent \in Int : Below(after.score, percent) => Below(before.score, percent)
  BY BelowLess
<1>3. /\ after.critical > 0 => before.critical > 0
      /\ after.error > 3 => before.error > 3
      /\ after.error > 0 => before.error > 0
      /\ after.warning > 5 => before.warning > 5
      /\ after.warning > 0 => before.warning > 0
  BY DEF IsSummary, Milder
<1>4. ShouldNotify(c, after) => ShouldNotify(c, before)
  BY <1>1, <1>3 DEF ShouldNotify
<1>5. /\ Below(after.score, 70) => Below(before.score, 70)
      /\ Below(after.score, 80) => Below(before.score, 80)
      /\ Below(after.score, 90) => Below(before.score, 90)
  BY <1>1
<1>6. /\ SeverityRank["info"] = 0 /\ SeverityRank["warning"] = 1
      /\ SeverityRank["error"] = 2 /\ SeverityRank["critical"] = 3
  BY DEF SeverityRank, Severities
<1>7. \A s \in {after, before} : Severity(s) \in Severities
  BY SeverityIs
<1>8. CASE Severity(before) = "critical"
  BY <1>4, <1>6, <1>7, <1>8 DEF Severities
<1>9. CASE Severity(before) = "error"
  <2>1. Severity(after) # "critical"
    BY <1>3, <1>5, <1>9, SeverityIs
  <2> QED BY <1>4, <1>6, <1>7, <1>9, <2>1 DEF Severities
<1>10. CASE Severity(before) = "warning"
  <2>1. Severity(after) # "critical" /\ Severity(after) # "error"
    BY <1>3, <1>5, <1>10, SeverityIs
  <2> QED BY <1>4, <1>6, <1>7, <1>10, <2>1 DEF Severities
<1>11. CASE Severity(before) = "info"
  BY <1>3, <1>4, <1>5, <1>6, <1>11 DEF Severity
<1> QED BY <1>4, <1>7, <1>8, <1>9, <1>10, <1>11 DEF Severities

\* What lies below a limit lies below a higher one.
LEMMA BelowMore ==
  ASSUME NEW s, IsSummary(s), NEW c \in Int, NEW e \in Int, c <= e, Below(s.score, c)
  PROVE  Below(s.score, e)
<1> DEFINE n == s.score.num
           d == s.score.den
<1>1. n \in Nat /\ d \in Positive /\ n * 100 < c * d
  BY DEF IsSummary, Below
<1>2. n * 100 < e * d
  <2> HIDE DEF n, d
  <2>1. c * d <= e * d /\ c * d \in Int /\ e * d \in Int
    BY <1>1 DEF Positive
  <2> QED BY <1>1, <2>1
<1> QED BY <1>2 DEF Below

\* What is due is more than information, and what is critical is due.
LEMMA AlarmsOf ==
  ASSUME NEW s, IsSummary(s), NEW c, c.critical \in Int, c.critical <= 90
  PROVE  /\ ShouldNotify(c, s) => Severity(s) # "info"
         /\ Severity(s) = "critical" /\ (Below(s.score, 70) => Below(s.score, c.critical))
               => ShouldNotify(c, s)
<1>1. Below(s.score, c.critical) => Below(s.score, 90)
  BY BelowMore
<1>2. {s.critical, s.error, s.warning} \subseteq Nat
  BY DEF IsSummary
<1>3. s.error > 3 => s.error > 0
  BY <1>2
<1>4. s.warning > 5 => s.warning > 0
  BY <1>2
<1> QED BY <1>1, <1>3, <1>4 DEF ShouldNotify, Severity

----------------------------------------------------------------------------
(* What an evaluation does *)

\* The assumption on the files, for one of them.
LEMMA ConfSound ==
  ASSUME NEW f \in Files
  PROVE  /\ {Conf[f].critical, Conf[f].error, Conf[f].warning} \subseteq Int
         /\ IsFiniteSet(DOMAIN Conf[f].rules)
         /\ \A i \in DOMAIN Conf[f].rules : Conf[f].rules[i].weight \in Nat
BY FilesAreSound

\* The rules that apply to a workload are finitely many, and can be weighed.
LEMMA ChecksAreWeighed ==
  ASSUME file \in Files, NEW w \in Workloads
  PROVE  Weighed({Ruling(i) : i \in Applicable[file][w]})
<1> DEFINE places == Applicable[file][w]
           f == [i \in places |-> Ruling(i)]
<1>1. places \subseteq DOMAIN Conf[file].rules
  BY DEF Applicable
<1>2. IsFiniteSet(places)
  BY <1>1, ConfSound, FS_Subset
<1>3. f \in Surjection(places, {Ruling(i) : i \in places})
  BY DEF Surjection
<1>4. \A i \in places : Ruling(i).weight \in Nat
  BY <1>1, ConfSound DEF Ruling
<1> HIDE DEF f
<1>5. IsFiniteSet({Ruling(i) : i \in places})
  BY <1>2, <1>3, FS_Surjection
<1> QED BY <1>4, <1>5 DEF Weighed

\* The scorecard that was made is one of rules that can be weighed.
LEMMA MadeIsWeighed ==
  ASSUME ScoringTypeOK, Made
  PROVE  Weighed(Checks(told)) /\ file \in Files
<1>1. told.work \in Workloads /\ file \in Files
  BY DEF ScoringTypeOK, Made, IsCard, Scorecards
<1> QED BY <1>1, ChecksAreWeighed DEF Checks

\* In a state of the right type the score is as it should be.
LEMMA ScoresHold ==
  ASSUME ScoringTypeOK PROVE FullMarks
<1> SUFFICES ASSUME Made PROVE FullMarks
  BY DEF FullMarks
<1>1. IsScore(Overall(Checks(told), told.passed), Checks(told), told.passed)
  BY MadeIsWeighed, OverallIsScore
<1> HIDE DEF Overall
<1> QED BY <1>1 DEF FullMarks, IsScore

\* In a state of the right type repairs do no harm: what one repair adds makes the
\* summary milder.
LEMMA FixesHold ==
  ASSUME ScoringTypeOK PROVE FixingNeverHurts
<1> SUFFICES ASSUME Made, NEW r \in Checks(told), r.id \notin told.passed
    PROVE  LET before == Summary(Checks(told), told.passed)
               after == Summary(Checks(told), told.passed \cup {r.id})
           IN  /\ after.score.den = before.score.den
               /\ after.score.num >= before.score.num
               /\ SeverityRank[Severity(after)] <= SeverityRank[Severity(before)]
               /\ ShouldNotify(Conf[file], after) => ShouldNotify(Conf[file], before)
  BY DEF FixingNeverHurts
<1> DEFINE before == Summary(Checks(told), told.passed)
           after == Summary(Checks(told), told.passed \cup {r.id})
<1>1. Weighed(Checks(told)) /\ file \in Files
  BY MadeIsWeighed
<1>2. Passed(Checks(told), told.passed) \subseteq Passed(Checks(told), told.passed \cup {r.id})
  BY DEF Passed
<1>3. IsSummary(before) /\ IsSummary(after) /\ Milder(after, before)
  BY <1>1, <1>2, SummaryIs, SummaryMilder
<1>4. {Conf[file].critical, Conf[file].error, Conf[file].warning} \subseteq Int
  BY <1>1, ConfSound
<1>5. after.score.den = before.score.den /\ after.score.num >= before.score.num
  BY <1>3 DEF Milder
<1> HIDE DEF before, after
<1>6. /\ SeverityRank[Severity(after)] <= SeverityRank[Severity(before)]
      /\ ShouldNotify(Conf[file], after) => ShouldNotify(Conf[file], before)
  BY <1>3, <1>4, MilderIsCalmer
<1> QED BY <1>5, <1>6 DEF before, after

\* In a state of the right type the two decisions agree.
LEMMA AlarmsHold ==
  ASSUME ScoringTypeOK, \A f \in Files : Conf[f].critical <= 90 PROVE AlarmsAgree
<1> SUFFICES ASSUME Made PROVE AlarmsAgree
  BY DEF AlarmsAgree
<1> DEFINE s == Summary(Checks(told), told.passed)
<1>1. Weighed(Checks(told)) /\ file \in Files
  BY MadeIsWeighed
<1>2. IsSummary(s)
  BY <1>1, SummaryIs
<1>3. Conf[file].critical \in Int /\ Conf[file].critical <= 90
  BY <1>1, ConfSound
<1> HIDE DEF s
<1>4. /\ ShouldNotify(Conf[file], s) => Severity(s) # "info"
      /\ Severity(s) = "critical" /\ (Below(s.score, 70) => Below(s.score, Conf[file].critical))
            => ShouldNotify(Conf[file], s)
  BY <1>2, <1>3, AlarmsOf
<1> QED BY <1>4 DEF AlarmsAgree, s

----------------------------------------------------------------------------
(* Every state *)

\* The times of a scorecard, or of none, are natural numbers.
LEMMA CardTimes ==
  ASSUME NEW card, IsCard(card)
  PROVE  card.read \in Nat /\ card.timestamp \in Nat /\ card.at \in Nat
BY DEF IsCard, Scorecards, NoScore

\* The file does not change, and what a scorecard may say with it.
LEMMA CardsKept ==
  ASSUME file' = file PROVE Scorecards' = Scorecards /\ \A card : IsCard(card)' <=> IsCard(card)
BY DEF IsCard, Scorecards, Ids, Ruling

\* A scorecard is still one with other times.
LEMMA CardStamped ==
  ASSUME NEW card \in Scorecards, IsCard(card), NEW t \in Nat, NEW u \in Nat
  PROVE  /\ IsCard([card EXCEPT !.at = u])
         /\ IsCard([card EXCEPT !.timestamp = t, !.at = u])
<1>1. card.passed \subseteq Ids(Applicable[file][card.work])
  BY DEF IsCard, NoScore
<1>2. ASSUME NEW later \in Scorecards, later.work = card.work, later.passed = card.passed
      PROVE  IsCard(later)
  BY <1>1, <1>2 DEF IsCard
<1>3. /\ [card EXCEPT !.at = u] \in Scorecards
      /\ [card EXCEPT !.timestamp = t, !.at = u] \in Scorecards
  BY DEF Scorecards
<1>4. \A later \in {[card EXCEPT !.at = u], [card EXCEPT !.timestamp = t, !.at = u]} :
         later.work = card.work /\ later.passed = card.passed
  BY DEF Scorecards
<1> QED BY <1>2, <1>3, <1>4

\* What ReadWork makes of a workload is a scorecard.
LEMMA CardRead ==
  ASSUME file \in Files, NEW w \in Workloads, NEW t \in Nat
  PROVE  LET good == {i \in Applicable[file][w] : Passes(Ruling(i), w)}
             card == [NoScore EXCEPT !.work = w, !.read = t, !.passed = Ids(good)]
         IN  card \in Scorecards /\ IsCard(card)
<1> DEFINE good == {i \in Applicable[file][w] : Passes(Ruling(i), w)}
<1>1. good \subseteq Applicable[file][w] /\ Applicable[file][w] \subseteq DOMAIN Conf[file].rules
  BY DEF Applicable
<1> HIDE DEF good
<1>2. Ids(good) \subseteq Ids(Applicable[file][w]) /\ Ids(good) \subseteq Ids(DOMAIN Conf[file].rules)
  BY <1>1 DEF Ids
<1> QED BY <1>2 DEF IsCard, Scorecards, NoScore, good

\* What makes the scorecards recent: an evaluation under way began at most Duration
\* ago, and the one in the cache took no longer than that.
Timely ==
    /\ eval.running => /\ eval.card \in Scorecards
                       /\ eval.card.read <= clock /\ clock <= eval.card.read + Duration
    /\ fresh # NoScore => fresh.timestamp <= fresh.read + Duration
    /\ ScoresAreRecent

ScoringInv == ScoringTypeOK /\ Timely

\* The first state.
LEMMA ScoringStart ==
  ASSUME ScoringInit PROVE ScoringInv
BY ScoringBounds DEF ScoringInit, ScoringInv, ScoringTypeOK, Timely, ScoresAreRecent, Asleep, IsCard

\* Every action, one by one.
LEMMA ScoringStep ==
  ASSUME ScoringInv, [ScoringNext]_scoringVars PROVE ScoringInv'
<1>1. /\ file \in Files /\ work \in Workloads /\ clock \in Nat /\ edits \in Nat
      /\ eval \in [running : BOOLEAN, card : Scorecards \cup {NoScore}]
      /\ IsCard(eval.card) /\ IsCard(fresh) /\ IsCard(told)
      /\ Timely
  BY DEF ScoringInv, ScoringTypeOK
<1>2. CacheTTL \in Nat /\ Duration \in Nat
  BY ScoringBounds
<1>3. file' = file
  BY DEF ScoringNext, EditWork, Elapse, UseCache, ReadWork, Conclude, scoringVars
<1>4. Scorecards' = Scorecards /\ \A card : IsCard(card)' <=> IsCard(card)
  BY <1>3, CardsKept
<1>5. IsCard(NoScore)
  BY DEF IsCard
<1>6. CASE EditWork
  <2>1. /\ file' \in Files /\ work' \in Workloads /\ clock' \in Nat /\ edits' \in Nat
        /\ eval' = eval /\ fresh' = fresh /\ told' = NoScore /\ clock' = clock
    BY <1>1, <1>6 DEF EditWork
  <2>2. ScoringTypeOK'
    BY <1>1, <1>4, <1>5, <2>1 DEF ScoringTypeOK
  <2>3. Timely'
    BY <1>1, <1>4, <2>1 DEF Timely, ScoresAreRecent
  <2> QED BY <2>2, <2>3 DEF ScoringInv
<1>7. CASE Elapse
  <2>1. /\ file' \in Files /\ work' \in Workloads /\ clock' = clock + 1 /\ edits' \in Nat
        /\ eval' = eval /\ fresh' = fresh /\ told' = NoScore
        /\ eval.running => clock < eval.card.read + Duration
    BY <1>1, <1>7 DEF Elapse
  <2>2. ScoringTypeOK'
    BY <1>1, <1>4, <1>5, <2>1 DEF ScoringTypeOK
  <2>3. eval.card.read \in Nat
    BY <1>1, CardTimes
  <2>4. Timely'
    BY <1>1, <1>2, <1>4, <2>1, <2>3 DEF Timely, ScoresAreRecent
  <2> QED BY <2>2, <2>4 DEF ScoringInv
<1>8. CASE UseCache
  <2> DEFINE card == [fresh EXCEPT !.at = clock]
  <2>1. /\ file' \in Files /\ work' \in Workloads /\ clock' = clock /\ edits' \in Nat
        /\ eval' = eval /\ fresh' = fresh /\ told' = card
        /\ fresh # NoScore /\ clock - fresh.timestamp < CacheTTL
    BY <1>1, <1>8 DEF UseCache
  <2>2. IsCard(card)
    <3>1. fresh \in Scorecards
      BY <1>1, <2>1 DEF IsCard
    <3> QED BY <1>1, <3>1, CardStamped
  <2>3. card.at = clock /\ card.read = fresh.read /\ card.timestamp = fresh.timestamp
    BY <1>1, <2>1 DEF IsCard, Scorecards
  <2>4. fresh.read \in Nat /\ fresh.timestamp \in Nat
    BY <1>1, CardTimes
  <2> HIDE DEF card
  <2>5. ScoringTypeOK'
    BY <1>1, <1>4, <2>1, <2>2 DEF ScoringTypeOK
  <2>6. card.at - card.read < CacheTTL + Duration
    BY <1>1, <1>2, <2>1, <2>3, <2>4 DEF Timely
  <2>7. Timely'
    BY <1>1, <1>4, <2>1, <2>6 DEF Timely, ScoresAreRecent
  <2> QED BY <2>5, <2>7 DEF ScoringInv
<1>9. CASE ReadWork
  <2> DEFINE good == {i \in Applicable[file][work] : Passes(Ruling(i), work)}
             card == [NoScore EXCEPT !.work = work, !.read = clock, !.passed = Ids(good)]
  <2>1. /\ file' \in Files /\ work' \in Workloads /\ clock' = clock /\ edits' \in Nat
        /\ eval' = [running |-> TRUE, card |-> card] /\ fresh' = fresh /\ told' = NoScore
    BY <1>1, <1>9 DEF ReadWork
  <2>2. card \in Scorecards /\ IsCard(card)
    BY <1>1, CardRead
  <2>3. card.read = clock
    BY DEF NoScore
  <2> HIDE DEF card
  <2>4. ScoringTypeOK'
    BY <1>1, <1>4, <1>5, <2>1, <2>2 DEF ScoringTypeOK
  <2>5. Timely'
    BY <1>1, <1>2, <1>4, <2>1, <2>2, <2>3 DEF Timely, ScoresAreRecent
  <2> QED BY <2>4, <2>5 DEF ScoringInv
<1>10. CASE Conclude
  <2> DEFINE card == [eval.card EXCEPT !.timestamp = clock, !.at = clock]
  <2>1. /\ file' \in Files /\ work' \in Workloads /\ clock' = clock /\ edits' \in Nat
        /\ eval.running /\ eval' = Asleep /\ fresh' = card /\ told' = card
    BY <1>1, <1>10 DEF Conclude
  <2>2. eval.card \in Scorecards /\ clock <= eval.card.read + Duration
    BY <1>1, <2>1 DEF Timely
  <2>3. IsCard(card)
    BY <1>1, <2>2, CardStamped
  <2>4. card.at = clock /\ card.timestamp = clock /\ card.read = eval.card.read
    BY <2>2 DEF Scorecards
  <2>5. eval.card.read \in Nat
    BY <1>1, CardTimes
  <2> HIDE DEF card
  <2>6. ScoringTypeOK'
    BY <1>1, <1>4, <1>5, <2>1, <2>3 DEF ScoringTypeOK, Asleep
  <2>7. Timely'
    BY <1>1, <1>2, <2>1, <2>2, <2>4, <2>5 DEF Timely, ScoresAreRecent, Asleep
  <2> QED BY <2>6, <2>7 DEF ScoringInv
<1>11. CASE UNCHANGED scoringVars
  <2>1. ScoringTypeOK'
    BY <1>1, <1>4, <1>11 DEF scoringVars, ScoringTypeOK
  <2>2. Timely'
    BY <1>1, <1>4, <1>11 DEF scoringVars, Timely, ScoresAreRecent
  <2> QED BY <2>1, <2>2 DEF ScoringInv
<1> QED BY <1>6, <1>7, <1>8, <1>9, <1>10, <1>11 DEF ScoringNext

\* The inductive invariant holds of every behaviour.
LEMMA ScoringInvariant == ScoringSpec => []ScoringInv
<1>1. ScoringInit => ScoringInv
  BY ScoringStart
<1>2. ScoringInv /\ [ScoringNext]_scoringVars => ScoringInv'
  BY ScoringStep
<1> QED BY <1>1, <1>2, PTL DEF ScoringSpec

\* Every scorecard, finished or not, tells of a workload, and of rules that apply to it
\* and no others.
THEOREM ScoringTypes == ScoringSpec => []ScoringTypeOK
<1>1. ScoringInv => ScoringTypeOK
  BY DEF ScoringInv
<1> QED BY <1>1, ScoringInvariant, PTL

\* What evaluate_resource returns shows the workload as it was at most the TTL of the
\* cache and the time of one evaluation ago, whatever those two are.
THEOREM AlwaysRecent == ScoringSpec => []ScoresAreRecent
<1>1. ScoringInv => ScoresAreRecent
  BY DEF ScoringInv, Timely
<1> QED BY <1>1, ScoringInvariant, PTL

\* The scores of _calculate_pillar_scores and _calculate_overall_score: between 0 and
\* 100, and 100 exactly if every rule that weighs something passed, for every set of
\* rules that a file can make of the defaults.
THEOREM ScoresAreMarks == ScoringSpec => []FullMarks
<1>1. ScoringTypeOK => FullMarks
  BY ScoresHold
<1> QED BY <1>1, ScoringTypes, PTL

\* Repairing what one rule complains of never lowers the score, never makes the message
\* more severe and never makes one due, for every workload and every file.
THEOREM FixingHelps == ScoringSpec => []FixingNeverHurts
<1>1. ScoringTypeOK => FixingNeverHurts
  BY FixesHold
<1> QED BY <1>1, ScoringTypes, PTL

\* should_notify and the severity in the digest agree, as long as no file sets the
\* critical threshold above that under which the digest gives a warning.
THEOREM AlarmsNeverDisagree ==
  ASSUME \A f \in Files : Conf[f].critical <= 90
  PROVE  ScoringSpec => []AlarmsAgree
<1>1. ScoringTypeOK => AlarmsAgree
  BY AlarmsHold
<1> QED BY <1>1, ScoringTypes, PTL
==============================================================================
