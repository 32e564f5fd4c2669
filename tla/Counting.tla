------------------------------ MODULE Counting ------------------------------
(***************************************************************************)
(* What the proofs need of finite sets, sums and sequences.                *)
(***************************************************************************)
EXTENDS Integers, Functions, FiniteSetTheorems, FunctionTheorems, SequenceTheorems,
        WellFoundedInduction, TLAPS

\* A finite set has a natural number of elements, none if it is empty.
LEMMA CardType ==
  ASSUME NEW S, IsFiniteSet(S)
  PROVE  Cardinality(S) \in Nat /\ (Cardinality(S) = 0 <=> S = {})
BY FS_CardinalityType, FS_EmptySet

\* One element more.
LEMMA CardAdd ==
  ASSUME NEW S, IsFiniteSet(S), NEW x, x \notin S
  PROVE  IsFiniteSet(S \cup {x}) /\ Cardinality(S \cup {x}) = Cardinality(S) + 1
BY FS_AddElement

\* One element less.
LEMMA CardRemove ==
  ASSUME NEW S, IsFiniteSet(S), NEW x \in S
  PROVE  IsFiniteSet(S \ {x}) /\ Cardinality(S \ {x}) = Cardinality(S) - 1
BY FS_RemoveElement

\* Two sets without a common element.
LEMMA CardDisjoint ==
  ASSUME NEW S, IsFiniteSet(S), NEW T, IsFiniteSet(T), S \cap T = {}
  PROVE  /\ IsFiniteSet(S \cup T)
         /\ Cardinality(S \cup T) = Cardinality(S) + Cardinality(T)
<1>1. Cardinality(S) \in Nat /\ Cardinality(T) \in Nat /\ Cardinality(S \cap T) = 0
  BY CardType, FS_EmptySet
<1>2. /\ IsFiniteSet(S \cup T)
      /\ Cardinality(S \cup T) =
           Cardinality(S) + Cardinality(T) - Cardinality(S \cap T)
  BY FS_Union
<1> QED
  BY <1>1, <1>2

\* Sets whose elements correspond one to one.
LEMMA CardBijection ==
  ASSUME NEW S, IsFiniteSet(S), NEW T, NEW f \in [S -> T],
         \A x, y \in S : f[x] = f[y] => x = y,
         \A t \in T : \E x \in S : f[x] = t
  PROVE  IsFiniteSet(T) /\ Cardinality(T) = Cardinality(S)
<1>1. f \in Bijection(S, T)
  BY Fun_IsBij
<1>2. ExistsBijection(S, T)
  BY <1>1, Fun_ExistsBij
<1> QED
  BY <1>2, FS_Bijection

\* A set of naturals that is not empty has a least element.
LEMMA LeastNat ==
  ASSUME NEW X \in SUBSET Nat, X # {}
  PROVE  \E n \in X : \A k \in X : n <= k
<1> DEFINE B == {0..n : n \in X}
           R == StrictSubsetOrdering(Nat)
<1>1. IsWellFoundedOn(R, FiniteSubsetsOf(Nat))
  BY FS_StrictSubsetOrderingWellFounded
<1>2. B \subseteq FiniteSubsetsOf(Nat) /\ B # {}
  <2>1. ASSUME NEW n \in X
        PROVE  IsFiniteSet(0..n) /\ 0..n \in SUBSET Nat
    BY FS_Interval
  <2> QED
    BY <2>1 DEF FiniteSubsetsOf
<1> HIDE DEF R
<1>3. PICK b \in B : \A c \in B : ~(<<c, b>> \in R)
  <2> HIDE DEF B
  <2> QED
    BY <1>1, <1>2, WFMin
<1>4. PICK n \in X : b = 0..n
  OBVIOUS
<1>5. ASSUME NEW k \in X, k < n
      PROVE  FALSE
  <2>1. 0..k \subseteq 0..n /\ n \in 0..n /\ n \notin 0..k
    BY <1>5
  <2>2. 0..k \in SUBSET Nat /\ 0..n \in SUBSET Nat /\ 0..k # 0..n
    BY <2>1
  <2>3. <<0..k, 0..n>> \in R
    BY <2>1, <2>2 DEF R, StrictSubsetOrdering
  <2>4. 0..k \in B
    OBVIOUS
  <2> QED
    BY <1>3, <1>4, <2>3, <2>4
<1> QED
  BY <1>5

\* A set of finite sets has a least element.
LEMMA SmallestSet ==
  ASSUME NEW S, IsFiniteSet(S), NEW B \in SUBSET SUBSET S, B # {}
  PROVE  \E T \in B : \A U \in B : U \subseteq T => U = T
<1> DEFINE R == StrictSubsetOrdering(S)
<1>1. IsWellFoundedOn(R, SUBSET S)
  BY FS_StrictSubsetOrderingWellFounded, FS_FiniteSubsetsOfFinite
<1> HIDE DEF R
<1>2. PICK T \in B : \A U \in B : ~(<<U, T>> \in R)
  BY <1>1, WFMin
<1>3. ASSUME NEW U \in B, U \subseteq T, U # T
      PROVE  <<U, T>> \in R
  <2>1. U \in SUBSET S /\ T \in SUBSET S
    OBVIOUS
  <2> QED
    BY <1>3, <2>1 DEF R, StrictSubsetOrdering
<1>4. \A U \in B : U \subseteq T => U = T
  <2>1. SUFFICES ASSUME NEW U \in B, U \subseteq T, U # T
                 PROVE  FALSE
    OBVIOUS
  <2> QED
    BY <1>2, <1>3, <2>1
<1> QED
  BY <1>4

(***************************************************************************)
(* Folds: h[s] is base for the empty set, and otherwise comes from m[s],   *)
(* the element of s taken last, and what the others are folded into.       *)
(***************************************************************************)

Folds(g, m, base, h, s) == IF s = {} THEN base ELSE g[<<m[s], h[s \ {m[s]}]>>]
IsFold(g, m, base, T, h) == h = [s \in SUBSET T |-> Folds(g, m, base, h, s)]

LEMMA FoldExists ==
  ASSUME NEW T, IsFiniteSet(T), NEW m, \A s \in SUBSET T : s # {} => m[s] \in s,
         NEW A, NEW base \in A, NEW g, \A x \in T : \A a \in A : g[<<x, a>>] \in A
  PROVE  \E h \in [SUBSET T -> A] : IsFold(g, m, base, T, h)
<1> DEFINE Small(n) == {s \in SUBSET T : Cardinality(s) <= n}
           Upto(n, h) == h \in [Small(n) -> A] /\ \A s \in Small(n) : h[s] = Folds(g, m, base, h, s)
           Bad == {n \in Nat : ~ \E h : Upto(n, h)}
<1>1. \A s \in SUBSET T : IsFiniteSet(s) /\ Cardinality(s) \in Nat
  BY FS_Subset, FS_CardinalityType
<1>2. 0 \notin Bad
  <2> DEFINE h == [s \in Small(0) |-> base]
  <2>1. \A s \in Small(0) : s = {}
    BY <1>1, FS_EmptySet
  <2>2. Upto(0, h)
    BY <2>1 DEF Folds
  <2> HIDE DEF Upto, h
  <2> QED
    BY <2>2
<1>3. ASSUME NEW n \in Nat, NEW h, Upto(n, h)
      PROVE  \E k : Upto(n + 1, k)
  <2> DEFINE k == [s \in Small(n + 1) |-> IF s \in Small(n) THEN h[s] ELSE Folds(g, m, base, h, s)]
  <2>1. ASSUME NEW s \in Small(n + 1), s # {}
        PROVE  s \ {m[s]} \in Small(n) /\ m[s] \in T
    <3>1. m[s] \in s /\ s \in SUBSET T
      BY <2>1
    <3>2. Cardinality(s \ {m[s]}) = Cardinality(s) - 1
      BY <1>1, <3>1, FS_RemoveElement
    <3>3. Cardinality(s) \in Nat /\ Cardinality(s) <= n + 1
      BY <1>1
    <3> QED
      BY <3>1, <3>2, <3>3
  <2>2. \A s \in Small(n) : s \in Small(n + 1)
    BY <1>1
  <2> HIDE DEF Small
  <2>3. \A s \in Small(n + 1) : Folds(g, m, base, k, s) = Folds(g, m, base, h, s)
    BY <2>1, <2>2 DEF Folds
  <2>4. \A s \in Small(n + 1) : k[s] = Folds(g, m, base, h, s)
    BY <1>3
  <2>5. \A s \in Small(n + 1) : Folds(g, m, base, h, s) \in A
    BY <1>3, <2>1 DEF Folds
  <2>6. k \in [Small(n + 1) -> A]
    BY <2>4, <2>5
  <2>7. Upto(n + 1, k)
    BY <2>3, <2>4, <2>6
  <2> HIDE DEF Upto, k
  <2> QED
    BY <2>7
<1>4. Bad = {}
  <2>1. SUFFICES ASSUME Bad # {} PROVE FALSE
    OBVIOUS
  <2>2. Bad \in SUBSET Nat
    OBVIOUS
  <2> HIDE DEF Upto
  <2>3. PICK n \in Bad : \A k \in Bad : n <= k
    <3> HIDE DEF Bad
    <3> QED
      BY <2>1, <2>2, LeastNat
  <2>4. n # 0 /\ n \in Nat
    BY <1>2
  <2>5. n - 1 \in Nat /\ n - 1 \notin Bad /\ (n - 1) + 1 = n
    BY <2>3, <2>4
  <2>6. PICK h : Upto(n - 1, h)
    BY <2>5
  <2>7. \E k : Upto((n - 1) + 1, k)
    <3> DEFINE p == n - 1
    <3>1. p \in Nat /\ Upto(p, h)
      BY <2>5, <2>6
    <3> HIDE DEF p
    <3>2. \E k : Upto(p + 1, k)
      BY <1>3, <3>1
    <3> QED
      BY <3>2 DEF p
  <2> QED
    BY <2>5, <2>7
<1> DEFINE c == Cardinality(T)
<1>5. c \in Nat /\ Small(c) = SUBSET T
  BY <1>1, FS_Subset, FS_CardinalityType
<1> HIDE DEF c
<1>6. PICK h : Upto(c, h)
  <2> HIDE DEF Upto
  <2> QED
    BY <1>4, <1>5
<1>7. h \in [SUBSET T -> A] /\ \A s \in SUBSET T : h[s] = Folds(g, m, base, h, s)
  BY <1>5, <1>6
<1>8. h = [s \in SUBSET T |-> Folds(g, m, base, h, s)]
  BY <1>7
<1> QED
  BY <1>7, <1>8 DEF IsFold

\* What each step of a fold keeps, the fold has.
LEMMA FoldKeeps ==
  ASSUME NEW T, IsFiniteSet(T), NEW m, \A s \in SUBSET T : s # {} => m[s] \in s,
         NEW A, NEW h, h[{}] \in A,
         \A s \in SUBSET T : s # {} /\ h[s \ {m[s]}] \in A => h[s] \in A
  PROVE  h[T] \in A
<1> DEFINE B == {s \in SUBSET T : h[s] \notin A}
<1>1. B = {}
  <2>1. SUFFICES ASSUME B # {} PROVE FALSE
    OBVIOUS
  <2>2. B \in SUBSET SUBSET T
    OBVIOUS
  <2>3. PICK s \in B : \A u \in B : u \subseteq s => u = s
    <3> HIDE DEF B
    <3> QED
      BY <2>1, <2>2, SmallestSet
  <2>4. s # {} /\ m[s] \in s /\ s \ {m[s]} \in SUBSET T /\ s \ {m[s]} \subseteq s /\ s \ {m[s]} # s
    OBVIOUS
  <2>5. s \ {m[s]} \notin B
    BY <2>3, <2>4
  <2> QED
    BY <2>4, <2>5
<1> QED
  BY <1>1

(***************************************************************************)
(* Sums: SumFunctionOnSet(f, T) adds f[x] for x in T, in an order of its   *)
(* own.                                                                    *)
(***************************************************************************)

\* The order in which a sum takes its elements, and its recursion.
Pick(s) == CHOOSE x \in s : TRUE
Adds(f, g, s) == IF s = {} THEN 0 ELSE f[Pick(s)] + g[s \ {Pick(s)}]
IsSum(f, T, g) == g = [s \in SUBSET T |-> Adds(f, g, s)]

LEMMA PickIn ==
  ASSUME NEW s, s # {}
  PROVE  Pick(s) \in s
BY DEF Pick

LEMMA SumUnfold ==
  ASSUME NEW f, NEW T
  PROVE  SumFunctionOnSet(f, T) = (CHOOSE g : IsSum(f, T, g))[T]
BY DEF SumFunctionOnSet, FoldFunctionOnSet, MapThenFoldSet, IsSum, Adds, Pick

\* There is a function that sums up.
LEMMA SumExists ==
  ASSUME NEW T, IsFiniteSet(T), NEW f, \A x \in T : f[x] \in Nat
  PROVE  \E g \in [SUBSET T -> Nat] : IsSum(f, T, g)
<1> DEFINE m == [s \in SUBSET T |-> Pick(s)]
           plus == [p \in T \X Nat |-> f[p[1]] + p[2]]
<1>1. \A s \in SUBSET T : s # {} => m[s] \in s
  BY PickIn
<1>2. \A x \in T : \A a \in Nat : plus[<<x, a>>] = f[x] + a /\ plus[<<x, a>>] \in Nat
  OBVIOUS
<1>3. \A s \in SUBSET T : m[s] = Pick(s)
  OBVIOUS
<1> HIDE DEF m, plus
<1>4. PICK g \in [SUBSET T -> Nat] : IsFold(plus, m, 0, T, g)
  BY <1>1, <1>2, FoldExists
<1>5. ASSUME NEW s \in SUBSET T
      PROVE  g[s] = Adds(f, g, s)
  <2>1. g[s] = Folds(plus, m, 0, g, s)
    BY <1>4 DEF IsFold
  <2>2. CASE s = {}
    BY <2>1, <2>2 DEF Folds, Adds
  <2>3. CASE s # {}
    <3>1. m[s] \in T /\ g[s \ {m[s]}] \in Nat
      BY <1>1, <2>3
    <3> QED
      BY <1>2, <1>3, <2>1, <2>3, <3>1 DEF Folds, Adds
  <2> QED
    BY <2>2, <2>3
<1>6. g = [s \in SUBSET T |-> Adds(f, g, s)]
  BY <1>5
<1> QED
  BY <1>6 DEF IsSum

\* The recursion of a sum, and its type.
LEMMA SumAdds ==
  ASSUME NEW T, IsFiniteSet(T), NEW f, \A x \in T : f[x] \in Nat
  PROVE  /\ SumFunctionOnSet(f, T) \in Nat
         /\ T = {} => SumFunctionOnSet(f, T) = 0
         /\ T # {} => SumFunctionOnSet(f, T) =
              f[Pick(T)] + SumFunctionOnSet(f, T \ {Pick(T)})
<1>1. ASSUME NEW S, IsFiniteSet(S), \A x \in S : f[x] \in Nat
      PROVE  \E g \in [SUBSET S -> Nat] :
               IsSum(f, S, g) /\ SumFunctionOnSet(f, S) = g[S]
  <2> DEFINE g == CHOOSE g : IsSum(f, S, g)
  <2>1. PICK h \in [SUBSET S -> Nat] : IsSum(f, S, h)
    BY <1>1, SumExists
  <2>2. IsSum(f, S, g)
    BY <2>1
  <2>3. SumFunctionOnSet(f, S) = g[S]
    BY SumUnfold
  <2> HIDE DEF g
  <2>4. g = h
    <3> DEFINE B == {s \in SUBSET S : g[s] # h[s]}
    <3>1. /\ g = [s \in SUBSET S |-> Adds(f, g, s)] /\ h = [s \in SUBSET S |-> Adds(f, h, s)]
      BY <2>1, <2>2 DEF IsSum
    <3>2. SUFFICES B = {}
      BY <3>1
    <3>3. SUFFICES ASSUME B # {} PROVE FALSE
      OBVIOUS
    <3>4. B \in SUBSET SUBSET S
      OBVIOUS
    <3>5. PICK s \in B : \A u \in B : u \subseteq s => u = s
      <4> HIDE DEF B
      <4> QED
        BY <1>1, <3>3, <3>4, SmallestSet
    <3>6. s # {} => Pick(s) \in s
      BY PickIn
    <3>7. s # {} => g[s \ {Pick(s)}] = h[s \ {Pick(s)}]
      BY <3>5, <3>6
    <3>8. Adds(f, g, s) = Adds(f, h, s)
      BY <3>7 DEF Adds
    <3> QED
      BY <3>1, <3>5, <3>8
  <2> QED
    BY <2>1, <2>3, <2>4
<1>2. PICK g \in [SUBSET T -> Nat] : IsSum(f, T, g) /\ SumFunctionOnSet(f, T) = g[T]
  BY <1>1
<1>3. \A s \in SUBSET T : g[s] = Adds(f, g, s)
  BY <1>2 DEF IsSum
<1>4. SumFunctionOnSet(f, T) \in Nat
  BY <1>2
<1>5. T = {} => SumFunctionOnSet(f, T) = 0
  BY <1>2, <1>3 DEF Adds
<1>6. ASSUME T # {}
      PROVE  SumFunctionOnSet(f, T) = f[Pick(T)] + SumFunctionOnSet(f, T \ {Pick(T)})
  <2> DEFINE U == T \ {Pick(T)}
  <2>1. IsFiniteSet(U) /\ U \in SUBSET T /\ \A x \in U : f[x] \in Nat
    BY FS_Subset
  <2> HIDE DEF U
  <2>2. PICK h \in [SUBSET U -> Nat] : IsSum(f, U, h) /\ SumFunctionOnSet(f, U) = h[U]
    BY <1>1, <2>1
  <2>3. g[U] = h[U]
    <3> DEFINE B == {s \in SUBSET U : g[s] # h[s]}
    <3>1. \A s \in SUBSET U : h[s] = Adds(f, h, s) /\ g[s] = Adds(f, g, s)
      BY <1>3, <2>1, <2>2 DEF IsSum
    <3>2. SUFFICES B = {}
      OBVIOUS
    <3>3. SUFFICES ASSUME B # {} PROVE FALSE
      OBVIOUS
    <3>4. B \in SUBSET SUBSET U
      OBVIOUS
    <3>5. PICK s \in B : \A u \in B : u \subseteq s => u = s
      <4> HIDE DEF B
      <4> QED
        BY <2>1, <3>3, <3>4, SmallestSet
    <3>6. s # {} => Pick(s) \in s
      BY PickIn
    <3>7. s # {} => g[s \ {Pick(s)}] = h[s \ {Pick(s)}]
      BY <3>5, <3>6
    <3>8. Adds(f, g, s) = Adds(f, h, s)
      BY <3>7 DEF Adds
    <3> QED
      BY <3>1, <3>5, <3>8
  <2>4. SumFunctionOnSet(f, T) = f[Pick(T)] + g[U]
    BY <1>2, <1>3, <1>6 DEF Adds, U
  <2> QED
    BY <2>2, <2>3, <2>4 DEF U
<1> QED
  BY <1>4, <1>5, <1>6

\* A sum does not depend on the function elsewhere.
LEMMA SumSame ==
  ASSUME NEW T, IsFiniteSet(T), NEW f, \A x \in T : f[x] \in Nat,
         NEW g, \A x \in T : g[x] = f[x]
  PROVE  SumFunctionOnSet(g, T) = SumFunctionOnSet(f, T)
<1> DEFINE B == {s \in SUBSET T : SumFunctionOnSet(g, s) # SumFunctionOnSet(f, s)}
<1>1. SUFFICES ASSUME B # {} PROVE FALSE
  OBVIOUS
<1>2. B \in SUBSET SUBSET T
  OBVIOUS
<1>3. PICK s \in B : \A u \in B : u \subseteq s => u = s
  <2> HIDE DEF B
  <2> QED
    BY <1>1, <1>2, SmallestSet
<1>4. IsFiniteSet(s) /\ (\A x \in s : f[x] \in Nat) /\ (\A x \in s : g[x] \in Nat)
  BY FS_Subset
<1>5. s # {}
  BY <1>3, <1>4, SumAdds
<1>6. Pick(s) \in s
  BY <1>5, PickIn
<1>7. s \ {Pick(s)} \notin B
  BY <1>3, <1>6
<1>8. SumFunctionOnSet(g, s \ {Pick(s)}) = SumFunctionOnSet(f, s \ {Pick(s)})
  BY <1>7
<1>9. /\ SumFunctionOnSet(f, s) = f[Pick(s)] + SumFunctionOnSet(f, s \ {Pick(s)})
      /\ SumFunctionOnSet(g, s) = g[Pick(s)] + SumFunctionOnSet(g, s \ {Pick(s)})
  BY <1>4, <1>5, SumAdds
<1> QED
  BY <1>3, <1>6, <1>8, <1>9

\* Any element can be taken from a sum.
LEMMA SumTake ==
  ASSUME NEW T, IsFiniteSet(T), NEW f, \A x \in T : f[x] \in Nat, NEW x \in T
  PROVE  SumFunctionOnSet(f, T) = f[x] + SumFunctionOnSet(f, T \ {x})
<1> DEFINE Sum(s) == SumFunctionOnSet(f, s)
           B == {s \in SUBSET T : \E y \in s : Sum(s) # f[y] + Sum(s \ {y})}
<1>1. SUFFICES ASSUME B # {} PROVE FALSE
  OBVIOUS
<1>2. B \in SUBSET SUBSET T
  OBVIOUS
<1>3. PICK s \in B : \A u \in B : u \subseteq s => u = s
  <2> HIDE DEF B
  <2> QED
    BY <1>1, <1>2, SmallestSet
<1>4. PICK y \in s : Sum(s) # f[y] + Sum(s \ {y})
  BY <1>3
<1> DEFINE p == Pick(s)
<1>5. p \in s
  BY PickIn
<1>6. \A u \in SUBSET T : IsFiniteSet(u) /\ \A z \in u : f[z] \in Nat
  BY FS_Subset
<1>7. \A u \in SUBSET T : Sum(u) \in Nat
  BY <1>6, SumAdds
<1>8. Sum(s) = f[p] + Sum(s \ {p})
  BY <1>5, <1>6, SumAdds
<1> HIDE DEF p, Sum
<1>9. y # p
  BY <1>4, <1>8
<1> DEFINE u == s \ {p}
           v == s \ {y}
<1>10. \A w \in SUBSET s : w # s => \A z \in w : Sum(w) = f[z] + Sum(w \ {z})
  BY <1>3
<1>11. u \in SUBSET s /\ u # s /\ y \in u /\ v \in SUBSET s /\ v # s /\ p \in v /\ v \ {p} = u \ {y}
       /\ u \ {y} \in SUBSET T
  BY <1>4, <1>5, <1>9
<1> HIDE DEF u, v, B
<1>12. Sum(u) = f[y] + Sum(u \ {y}) /\ Sum(v) = f[p] + Sum(v \ {p})
  BY <1>10, <1>11
<1>13. Sum(v) = f[p] + Sum(u \ {y})
  BY <1>11, <1>12
<1>14. f[y] \in Nat /\ f[p] \in Nat /\ Sum(u \ {y}) \in Nat
  <2>1. y \in T /\ p \in T
    BY <1>3, <1>4, <1>5 DEF B
  <2> QED
    BY <1>7, <1>11, <2>1
<1>15. Sum(s) = f[p] + Sum(u) /\ Sum(s) # f[y] + Sum(v)
  BY <1>4, <1>8 DEF u, v
<1> DEFINE k == Sum(u \ {y})
<1> HIDE DEF k
<1>16. Sum(u) = f[y] + k /\ Sum(v) = f[p] + k /\ k \in Nat
  BY <1>12, <1>13, <1>14 DEF k
<1>17. f[p] + (f[y] + k) = f[y] + (f[p] + k)
  BY <1>14, <1>16
<1> QED
  BY <1>15, <1>16, <1>17

\* The sum of f over 1..n, as one goes along a sequence.
LEMMA SumNext ==
  ASSUME NEW n \in Nat, NEW f, \A k \in 1..(n + 1) : f[k] \in Nat
  PROVE  SumFunctionOnSet(f, 1..(n + 1)) = SumFunctionOnSet(f, 1..n) + f[n + 1]
<1> DEFINE T == 1..(n + 1)
           x == n + 1
<1>1. IsFiniteSet(T) /\ x \in T /\ T \ {x} = 1..n /\ IsFiniteSet(1..n)
  BY FS_Interval
<1> HIDE DEF T, x
<1>2. (\A k \in T : f[k] \in Nat) /\ (\A k \in 1..n : f[k] \in Nat)
  BY <1>1 DEF T
<1>3. SumFunctionOnSet(f, T) = f[x] + SumFunctionOnSet(f, T \ {x})
  BY <1>1, <1>2, SumTake
<1>4. f[x] \in Nat /\ SumFunctionOnSet(f, 1..n) \in Nat
  BY <1>1, <1>2, SumAdds
<1> DEFINE k == SumFunctionOnSet(f, 1..n)
<1>5. SumFunctionOnSet(f, T) = f[x] + k
  BY <1>1, <1>3
<1>6. f[x] \in Nat /\ k \in Nat
  BY <1>4
<1> HIDE DEF k
<1>7. SumFunctionOnSet(f, T) = k + f[x]
  BY <1>5, <1>6
<1> QED
  BY <1>7 DEF T, x, k

LEMMA SumUpto ==
  ASSUME NEW n \in Nat, NEW f, \A k \in 1..n : f[k] \in Nat
  PROVE  /\ SumFunctionOnSet(f, 1..n) \in Nat
         /\ n = 0 => SumFunctionOnSet(f, 1..n) = 0
         /\ \A g : (\A k \in 1..n : g[k] = f[k]) =>
                 SumFunctionOnSet(g, 1..n) = SumFunctionOnSet(f, 1..n)
<1> DEFINE T == 1..n
<1>1. IsFiniteSet(T) /\ (n = 0 => T = {}) /\ \A k \in T : f[k] \in Nat
  BY FS_Interval
<1> HIDE DEF T
<1>2. SumFunctionOnSet(f, T) \in Nat /\ (T = {} => SumFunctionOnSet(f, T) = 0)
  BY <1>1, SumAdds
<1>3. \A g : (\A k \in T : g[k] = f[k]) => SumFunctionOnSet(g, T) = SumFunctionOnSet(f, T)
  BY <1>1, SumSame
<1> QED
  BY <1>1, <1>2, <1>3 DEF T

\* The sum of a sequence of numbers: f has n of them.
Addends(f, n) == n \in Nat /\ DOMAIN f = 1..n /\ \A k \in 1..n : f[k] \in Nat

LEMMA SeqSum ==
  ASSUME NEW n, NEW f, Addends(f, n)
  PROVE  SumFunction(f) \in Nat /\ (n = 0 => SumFunction(f) = 0)
BY SumUpto DEF SumFunction, Addends

\* One number more at the end.
LEMMA SeqSumAppend ==
  ASSUME NEW n, NEW f, Addends(f, n), NEW g, Addends(g, n + 1), \A k \in 1..n : g[k] = f[k]
  PROVE  SumFunction(g) = SumFunction(f) + g[n + 1]
<1>1. n \in Nat /\ \A k \in 1..n : f[k] \in Nat
  BY DEF Addends
<1>2. SumFunctionOnSet(g, 1..n) = SumFunctionOnSet(f, 1..n)
  BY <1>1, SumUpto
<1>3. SumFunctionOnSet(g, 1..(n + 1)) = SumFunctionOnSet(g, 1..n) + g[n + 1]
  BY <1>1, SumNext DEF Addends
<1> QED
  BY <1>2, <1>3 DEF SumFunction, Addends

\* Another number at the end.
LEMMA SeqSumLast ==
  ASSUME NEW n \in Nat, NEW f, Addends(f, n + 1), NEW g, Addends(g, n + 1),
         \A k \in 1..n : g[k] = f[k]
  PROVE  SumFunction(g) = SumFunction(f) - f[n + 1] + g[n + 1]
<1> DEFINE h == [k \in 1..n |-> f[k]]
<1>1. Addends(h, n) /\ (\A k \in 1..n : f[k] = h[k]) /\ \A k \in 1..n : g[k] = h[k]
  BY DEF Addends
<1> HIDE DEF h
<1>2. SumFunction(f) = SumFunction(h) + f[n + 1] /\ SumFunction(g) = SumFunction(h) + g[n + 1]
  BY <1>1, SeqSumAppend
<1>3. SumFunction(h) \in Nat
  BY <1>1, SeqSum
<1>4. f[n + 1] \in Nat /\ g[n + 1] \in Nat
  BY DEF Addends
<1> DEFINE k == SumFunction(h)
           x == f[n + 1]
           y == g[n + 1]
<1>5. SumFunction(f) = k + x /\ SumFunction(g) = k + y /\ k \in Nat /\ x \in Nat /\ y \in Nat
  BY <1>2, <1>3, <1>4
<1> HIDE DEF k, x, y
<1>6. k + y = k + x - x + y
  BY <1>5
<1> QED
  BY <1>5, <1>6 DEF x, y

(***************************************************************************)
(* Sequences, of whatever elements.                                        *)
(***************************************************************************)

IsSeq(s) == \E S : s \in Seq(S)

\* The sequence with one element more.
LEMMA Longer ==
  ASSUME NEW s, IsSeq(s), NEW x
  PROVE  /\ Len(s) \in Nat /\ DOMAIN s = 1..Len(s)
         /\ IsSeq(Append(s, x)) /\ Append(s, x) # <<>>
         /\ Len(Append(s, x)) = Len(s) + 1 /\ Append(s, x)[Len(s) + 1] = x
         /\ \A k \in 1..Len(s) : Append(s, x)[k] = s[k]
<1>1. PICK S : s \in Seq(S)
  BY DEF IsSeq
<1>2. /\ Append(s, x) \in Seq(S \cup {x}) /\ Append(s, x) # <<>>
      /\ Len(Append(s, x)) = Len(s) + 1 /\ Append(s, x)[Len(s) + 1] = x
      /\ \A k \in 1..Len(s) : Append(s, x)[k] = s[k]
  BY <1>1
<1> QED
  BY <1>1, <1>2 DEF IsSeq

\* A part of the sequence.
LEMMA Part ==
  ASSUME NEW s, IsSeq(s), NEW m \in Nat, NEW n \in Nat, m <= n, n <= Len(s)
  PROVE  /\ IsSeq(SubSeq(s, m + 1, n)) /\ Len(SubSeq(s, m + 1, n)) = n - m
         /\ \A k \in 1..(n - m) : SubSeq(s, m + 1, n)[k] = s[m + k]
<1>1. PICK S : s \in Seq(S)
  BY DEF IsSeq
<1>2. m + 1 \in Int /\ n \in Int /\ \A k \in (m + 1)..n : s[k] \in S
  BY <1>1
<1> DEFINE x == m + 1
<1> HIDE DEF x
<1>3. /\ SubSeq(s, x, n) \in Seq(S)
      /\ Len(SubSeq(s, x, n)) = IF x <= n THEN n - x + 1 ELSE 0
      /\ \A k \in 1..(n - x + 1) : SubSeq(s, x, n)[k] = s[x + k - 1]
  <2>1. x \in Int /\ n \in Int /\ \A k \in x..n : s[k] \in S
    BY <1>2 DEF x
  <2> QED
    BY <2>1, SubSeqProperties
<1> DEFINE t == SubSeq(s, x, n)
<1>4. t \in Seq(S) /\ Len(t) = (IF x <= n THEN n - x + 1 ELSE 0) /\ \A k \in 1..(n - x + 1) : t[k] = s[x + k - 1]
  BY <1>3
<1> HIDE DEF t
<1>5. (IF x <= n THEN n - x + 1 ELSE 0) = n - m /\ n - x + 1 = n - m /\ \A k \in Nat : x + k - 1 = m + k
  BY DEF x
<1>6. IsSeq(t) /\ Len(t) = n - m /\ \A k \in 1..(n - m) : t[k] = s[m + k]
  BY <1>4, <1>5 DEF IsSeq
<1> QED
  BY <1>6 DEF t, x

\* The sequence without its last element.
LEMMA Shorter ==
  ASSUME NEW s, IsSeq(s), s # <<>>
  PROVE  LET t == SubSeq(s, 1, Len(s) - 1)
         IN  /\ Len(s) \in Nat \ {0}
             /\ IsSeq(t) /\ Len(t) = Len(s) - 1
             /\ \A k \in 1..(Len(s) - 1) : t[k] = s[k]
<1>1. Len(s) \in Nat \ {0}
  BY DEF IsSeq
<1> DEFINE n == Len(s) - 1
           t == SubSeq(s, 0 + 1, n)
<1>2. n \in Nat /\ 0 <= n /\ n <= Len(s)
  BY <1>1
<1> HIDE DEF n
<1>3. IsSeq(t) /\ Len(t) = n - 0 /\ \A k \in 1..(n - 0) : t[k] = s[0 + k]
  BY <1>2, Part
<1>4. n - 0 = n /\ 0 + 1 = 1 /\ \A k \in 1..n : 0 + k = k
  BY <1>2
<1> QED
  BY <1>1, <1>3, <1>4 DEF n

\* The sequence with its last element replaced.
LEMMA Changed ==
  ASSUME NEW s, IsSeq(s), s # <<>>, NEW x
  PROVE  LET t == [s EXCEPT ![Len(s)] = x]
         IN  /\ IsSeq(t) /\ t # <<>> /\ Len(t) = Len(s) /\ t[Len(s)] = x
             /\ \A k \in 1..(Len(s) - 1) : t[k] = s[k]
<1>1. PICK S : s \in Seq(S)
  BY DEF IsSeq
<1> DEFINE t == [s EXCEPT ![Len(s)] = x]
<1>2. Len(s) \in Nat /\ Len(s) # 0
  BY <1>1
<1>3. s \in [1..Len(s) -> S]
  BY <1>1
<1>4. t \in [1..Len(s) -> S \cup {x}] /\ t[Len(s)] = x /\ \A k \in 1..(Len(s) - 1) : t[k] = s[k]
  BY <1>2, <1>3
<1> HIDE DEF t
<1>5. t \in Seq(S \cup {x}) /\ Len(t) = Len(s)
  BY <1>2, <1>4
<1>6. t # <<>>
  BY <1>2, <1>5
<1> QED
  BY <1>4, <1>5, <1>6 DEF IsSeq, t
=============================================================================
