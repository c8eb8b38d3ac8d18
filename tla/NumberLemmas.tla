---------------------------- MODULE NumberLemmas ----------------------------
(***************************************************************************)
(* Facts about numbers that the proofs of several modules need: induction, *)
(* products and remainders in address computations, the largest and the    *)
(* smallest number of a set, sums, and functions defined by recursion.     *)
(*                                                                         *)
(* The induction rule is about a set, the numbers a formula holds of, and  *)
(* not about the formula; it rests on < being well founded.                *)
(***************************************************************************)
EXTENDS Integers, FiniteSetsExt, TLAPS, FiniteSetTheorems, WellFoundedInduction

(* A set of natural numbers that is not empty has a least element. *)
LEMMA LeastNumber ==
  ASSUME NEW T \in SUBSET Nat, T # {}
  PROVE  \E n \in T : \A m \in T : n <= m
<1>1. IsWellFoundedOn(OpToRel(<, Nat), Nat)
  BY NatLessThanWellFounded
<1>2. PICK n \in T : \A m \in T : <<m, n>> \notin OpToRel(<, Nat)
  BY <1>1, WFMin
<1>3. \A m \in T : ~(m < n)
  BY <1>2 DEF OpToRel
<1> QED
  BY <1>3

(* A set that has 0, and with a number the next one, has them all. *)
LEMMA Induction ==
  ASSUME NEW S, 0 \in S, \A n \in Nat : n \in S => n + 1 \in S
  PROVE  \A n \in Nat : n \in S
<1> SUFFICES ASSUME Nat \ S # {} PROVE FALSE
  OBVIOUS
<1>1. PICK n \in Nat \ S : \A m \in Nat \ S : n <= m
  BY LeastNumber
<1>2. n # 0 /\ n - 1 \in Nat
  BY <1>1
<1>3. n - 1 \in S
  BY <1>1, <1>2
<1>4. (n - 1) + 1 \in S
  BY <1>2, <1>3
<1> QED
  BY <1>1, <1>2, <1>4
-----------------------------------------------------------------------------
LEMMA ProductNat == \A m, n \in Nat : m * n \in Nat
OBVIOUS

(* Different multiples of k are at least k apart. *)
LEMMA NextMultiple ==
  ASSUME NEW k \in Nat, NEW m \in Nat, NEW n \in Nat, m < n
  PROVE  m * k + k <= n * k
<1>1. (n - m - 1) * k \in Nat
  BY ProductNat
<1>2. (n - m - 1) * k = n * k - m * k - k
  OBVIOUS
<1> QED
  BY <1>1, <1>2, ProductNat

LEMMA Division ==
  ASSUME NEW a \in Nat, NEW b \in Nat \ {0}
  PROVE  /\ a \div b \in Nat
         /\ a % b \in 0 .. b - 1
         /\ a = (a \div b) * b + (a % b)
OBVIOUS

(* A cell of a row-major array tells its row and its column. *)
LEMMA SamePair ==
  ASSUME NEW k \in Nat, NEW m \in Nat, NEW n \in Nat,
         NEW i \in 0 .. k - 1, NEW j \in 0 .. k - 1,
         m * k + i = n * k + j
  PROVE  m = n /\ i = j
<1>1. m * k \in Nat /\ n * k \in Nat
  BY ProductNat
<1>2. ~(m < n) /\ ~(n < m)
  BY <1>1, NextMultiple
<1> QED
  BY <1>1, <1>2

LEMMA DivisionUnique ==
  ASSUME NEW b \in Nat \ {0}, NEW q \in Nat, NEW r \in 0 .. b - 1
  PROVE  (q * b + r) \div b = q /\ (q * b + r) % b = r
<1> DEFINE a == q * b + r
<1>1. a \in Nat
  BY ProductNat
<1>2. /\ a \div b \in Nat /\ a % b \in 0 .. b - 1
      /\ a = (a \div b) * b + (a % b)
  BY <1>1, Division
<1> HIDE DEF a
<1>3. (a \div b) * b + (a % b) = q * b + r
  BY <1>2 DEF a
<1>4. \A x \in Nat, y \in 0 .. b - 1 : x * b + y = q * b + r => x = q /\ y = r
  BY SamePair
<1>5. a \div b = q /\ a % b = r
  BY <1>2, <1>3, <1>4
<1> QED
  BY <1>5 DEF a

LEMMA DivisionMonotone ==
  ASSUME NEW k \in Nat \ {0}, NEW m \in Nat, NEW n \in Nat, m <= n
  PROVE  m \div k <= n \div k
<1> DEFINE p == m \div k
           q == n \div k
<1>1. /\ p \in Nat /\ m % k \in 0 .. k - 1 /\ m = p * k + (m % k)
      /\ q \in Nat /\ n % k \in 0 .. k - 1 /\ n = q * k + (n % k)
  BY Division
<1> HIDE DEF p, q
<1>2. ASSUME q < p PROVE FALSE
  <2>1. q * k + k <= p * k /\ q * k \in Nat /\ p * k \in Nat
    BY <1>1, <1>2, NextMultiple, ProductNat
  <2> QED
    BY <1>1, <2>1
<1> QED
  BY <1>1, <1>2 DEF p, q

(* Two numbers less than b apart have different remainders. *)
LEMMA NearRemainders ==
  ASSUME NEW b \in Nat \ {0}, NEW m \in Nat, NEW n \in Nat, m < n, n < m + b
  PROVE  m % b # n % b
<1> SUFFICES ASSUME m % b = n % b PROVE FALSE
  OBVIOUS
<1>1. /\ m \div b \in Nat /\ n \div b \in Nat /\ n % b \in 0 .. b - 1
      /\ m = (m \div b) * b + (n % b) /\ n = (n \div b) * b + (n % b)
  BY Division
<1>2. \A x \in Nat, y \in Nat : x < y => x * b + b <= y * b
  BY NextMultiple
<1>3. \A x \in Nat, y \in Nat, r \in 0 .. b - 1 :
        m = x * b + r /\ n = y * b + r => FALSE
  BY <1>2, ProductNat
<1> QED
  BY <1>1, <1>3
-----------------------------------------------------------------------------
(* A finite set of numbers that is not empty has a largest one. *)
LEMMA LargestNumber ==
  ASSUME NEW S \in SUBSET Int, IsFiniteSet(S), S # {}
  PROVE  Max(S) \in S /\ \A y \in S : Max(S) >= y
<1>0. Cardinality({}) = 0 /\ \A A : IsFiniteSet(A) /\ Cardinality(A) = 0 => A = {}
  BY FS_EmptySet
<1> DEFINE Good(n) == \A A \in SUBSET S : Cardinality(A) = n + 1 =>
                        \E x \in A : \A y \in A : x >= y
           good == {n \in Nat : Good(n)}
<1>1. \A A \in SUBSET S : IsFiniteSet(A) /\ Cardinality(A) \in Nat
  BY FS_Subset, FS_CardinalityType
<1>2. ASSUME NEW A \in SUBSET S, NEW a \in A
      PROVE  A \ {a} \in SUBSET S /\ Cardinality(A \ {a}) = Cardinality(A) - 1
  BY <1>1, FS_RemoveElement
<1>3. Good(0)
  <2> SUFFICES ASSUME NEW A \in SUBSET S, Cardinality(A) = 0 + 1
               PROVE  \E x \in A : \A y \in A : x >= y
    OBVIOUS
  <2>0. A # {}
    BY <1>0
  <2>1. PICK a \in A : TRUE
    BY <2>0
  <2>2. A \ {a} = {}
    <3>1. IsFiniteSet(A \ {a}) /\ Cardinality(A \ {a}) = 0
      BY <1>1, <1>2
    <3> QED
      BY <1>0, <3>1
  <2> QED
    BY <2>1, <2>2
<1>4. ASSUME NEW n \in Nat, Good(n) PROVE Good(n + 1)
  <2> SUFFICES ASSUME NEW A \in SUBSET S, Cardinality(A) = n + 1 + 1
               PROVE  \E x \in A : \A y \in A : x >= y
    OBVIOUS
  <2>0. A # {}
    BY <1>0
  <2>1. PICK a \in A : TRUE
    BY <2>0
  <2>2. Cardinality(A \ {a}) = n + 1
    BY <1>2
  <2>3. PICK x \in A \ {a} : \A y \in A \ {a} : x >= y
    BY <1>2, <1>4, <2>2
  <2>4. a \in Int /\ x \in Int /\ A \subseteq Int
    OBVIOUS
  <2>5. CASE a >= x
    <3>1. \A y \in A : a >= y
      BY <2>3, <2>4, <2>5
    <3> QED
      BY <3>1
  <2>6. CASE ~(a >= x)
    <3>1. \A y \in A : x >= y
      BY <2>3, <2>4, <2>6
    <3> QED
      BY <2>3, <3>1
  <2> QED
    BY <2>5, <2>6
<1> HIDE DEF Good
<1>5. \A n \in Nat : n \in good
  <2>1. 0 \in good /\ \A n \in Nat : n \in good => n + 1 \in good
    BY <1>3, <1>4
  <2> QED
    BY <2>1, Induction
<1>6. Cardinality(S) # 0 /\ Cardinality(S) - 1 \in Nat
  BY <1>1, FS_EmptySet
<1>7. Good(Cardinality(S) - 1)
  BY <1>5, <1>6
<1>8. \E x \in S : \A y \in S : x >= y
  BY <1>1, <1>6, <1>7 DEF Good
<1> QED
  BY <1>8 DEF Max

(* And a smallest one: the largest of the negated numbers, negated. *)
LEMMA SmallestNumber ==
  ASSUME NEW S \in SUBSET Int, IsFiniteSet(S), S # {}
  PROVE  Min(S) \in S /\ \A y \in S : Min(S) <= y
<1> DEFINE neg == {-x : x \in S}
           f == [x \in S |-> -x]
<1>1. f \in Surjection(S, neg)
  BY DEF Surjection
<1>2. IsFiniteSet(neg) /\ neg \in SUBSET Int /\ neg # {}
  <2>1. IsFiniteSet(neg)
    <3> HIDE DEF neg, f
    <3> QED
      BY <1>1, FS_Surjection
  <2>2. \A x \in neg : x \in Int
    OBVIOUS
  <2>3. neg # {}
    OBVIOUS
  <2> HIDE DEF neg
  <2> QED
    BY <2>1, <2>2, <2>3
<1> HIDE DEF neg
<1>3. Max(neg) \in neg /\ \A y \in neg : Max(neg) >= y
  BY <1>2, LargestNumber
<1>4. PICK x \in S : Max(neg) = -x
  BY <1>3 DEF neg
<1>5. \A y \in S : -x >= -y
  BY <1>3, <1>4 DEF neg
<1>6. \A y \in S : x <= y
  BY <1>5
<1> QED
  BY <1>6 DEF Min

(* A function with values in Int is least somewhere on a finite set, and   *)
(* its values there have a largest and a smallest.                         *)
LEMMA ImageValues ==
  ASSUME NEW S, IsFiniteSet(S), S # {}, NEW f \in [S -> Int]
  PROVE  /\ IsFiniteSet({f[x] : x \in S})
         /\ Max({f[x] : x \in S}) \in Int /\ Min({f[x] : x \in S}) \in Int
         /\ \E x \in S : \A y \in S : f[x] <= f[y]
<1> DEFINE V == {f[x] : x \in S}
<1>1. f \in Surjection(S, V)
  BY DEF Surjection
<1>2. V \in SUBSET Int /\ V # {}
  OBVIOUS
<1>3. \A v \in V : \E x \in S : v = f[x]
  OBVIOUS
<1>4. \A x \in S : f[x] \in V
  OBVIOUS
<1> HIDE DEF V
<1>5. IsFiniteSet(V)
  BY <1>1, FS_Surjection
<1>6. Max(V) \in V /\ Min(V) \in V /\ \A v \in V : Min(V) <= v
  BY <1>2, <1>5, LargestNumber, SmallestNumber
<1>7. \E x \in S : \A y \in S : f[x] <= f[y]
  BY <1>3, <1>4, <1>6
<1>8. Max(V) \in Int /\ Min(V) \in Int
  BY <1>2, <1>6
<1> QED
  BY <1>5, <1>7, <1>8 DEF V

(* The largest of a set that is known to have one. *)
LEMMA MaxIs ==
  ASSUME NEW S \in SUBSET Int, NEW m \in S, \A x \in S : x <= m
  PROVE  Max(S) = m
<1>1. Max(S) \in S /\ \A x \in S : Max(S) >= x
  BY DEF Max
<1>2. Max(S) \in Int /\ m \in Int
  BY <1>1
<1>3. Max(S) <= m /\ m <= Max(S)
  BY <1>1, <1>2
<1> QED
  BY <1>2, <1>3

LEMMA MinIs ==
  ASSUME NEW S \in SUBSET Int, NEW m \in S, \A x \in S : m <= x
  PROVE  Min(S) = m
<1>1. Min(S) \in S /\ \A x \in S : Min(S) <= x
  BY DEF Min
<1>2. Min(S) \in Int /\ m \in Int
  BY <1>1
<1>3. Min(S) <= m /\ m <= Min(S)
  BY <1>1, <1>2
<1> QED
  BY <1>2, <1>3

LEMMA MaxOfTwo ==
  ASSUME NEW a \in Int, NEW b \in Int
  PROVE  Max({a, b}) = IF a >= b THEN a ELSE b
BY DEF Max

LEMMA MinOfTwo ==
  ASSUME NEW a \in Int, NEW b \in Int
  PROVE  Min({a, b}) = IF a <= b THEN a ELSE b
BY DEF Min
-----------------------------------------------------------------------------
(* A function on 0 .. N can be defined by recursion. *)
Recursive(f, N, X, x0, G) ==
  /\ f \in [0 .. N -> X]
  /\ f[0] = x0
  /\ \A n \in 1 .. N : f[n] = G[<<n, f[n - 1]>>]

LEMMA Recursion ==
  ASSUME NEW N \in Nat, NEW X, NEW x0 \in X, NEW G \in [(1 .. N) \X X -> X]
  PROVE  \E f : Recursive(f, N, X, x0, G)
<1> DEFINE Good(k) == k <= N => \E f \in [0 .. k -> X] :
                        f[0] = x0 /\ \A n \in 1 .. k : f[n] = G[<<n, f[n - 1]>>]
           good == {k \in Nat : Good(k)}
<1>1. Good(0)
  <2> DEFINE f == [n \in 0 .. 0 |-> x0]
  <2>1. f \in [0 .. 0 -> X] /\ f[0] = x0
    OBVIOUS
  <2> HIDE DEF f
  <2>2. \A n \in 1 .. 0 : f[n] = G[<<n, f[n - 1]>>]
    OBVIOUS
  <2> QED
    BY <2>1, <2>2
<1>2. ASSUME NEW k \in Nat, Good(k) PROVE Good(k + 1)
  <2> SUFFICES ASSUME k + 1 <= N
               PROVE  \E f \in [0 .. k + 1 -> X] :
                        f[0] = x0 /\ \A n \in 1 .. k + 1 : f[n] = G[<<n, f[n - 1]>>]
    OBVIOUS
  <2>1. PICK f \in [0 .. k -> X] : f[0] = x0 /\ \A n \in 1 .. k : f[n] = G[<<n, f[n - 1]>>]
    BY <1>2
  <2> DEFINE g == [n \in 0 .. k + 1 |-> IF n = k + 1 THEN G[<<k + 1, f[k]>>] ELSE f[n]]
  <2>2. G[<<k + 1, f[k]>>] \in X
    OBVIOUS
  <2>3. g \in [0 .. k + 1 -> X]
    BY <2>2
  <2>4. g[0] = x0
    BY <2>1
  <2>5. ASSUME NEW n \in 1 .. k + 1 PROVE g[n] = G[<<n, g[n - 1]>>]
    <3>1. n - 1 \in 0 .. k /\ g[n - 1] = f[n - 1]
      OBVIOUS
    <3>2. CASE n = k + 1
      <4>1. g[n] = G[<<n, f[n - 1]>>]
        BY <3>2
      <4> HIDE DEF g
      <4> QED
        BY <3>1, <4>1
    <3>3. CASE n # k + 1
      <4>1. n \in 1 .. k /\ g[n] = f[n]
        BY <3>3
      <4> HIDE DEF g
      <4> QED
        BY <2>1, <3>1, <4>1
    <3> QED
      BY <3>2, <3>3
  <2> HIDE DEF g
  <2> QED
    BY <2>3, <2>4, <2>5
<1> HIDE DEF Good
<1>3. \A n \in Nat : n \in good
  <2>1. 0 \in good /\ \A n \in Nat : n \in good => n + 1 \in good
    BY <1>1, <1>2
  <2> QED
    BY <2>1, Induction
<1>4. Good(N)
  BY <1>3
<1> QED
  BY <1>4 DEF Good, Recursive
-----------------------------------------------------------------------------
(* Sums over finite sets.  The fold takes away some element at a time;     *)
(* below, any.                                                             *)
Pick(s) == CHOOSE x \in s : TRUE
SumsOf(f, S, g) ==
  g = [s \in SUBSET S |-> IF s = {} THEN 0 ELSE f[Pick(s)] + g[s \ {Pick(s)}]]

LEMMA SizeInduction ==
  ASSUME NEW S, IsFiniteSet(S), NEW T, {} \in T,
         \A s \in SUBSET S : s # {} /\ s \ {Pick(s)} \in T => s \in T
  PROVE  \A s \in SUBSET S : s \in T
<1> DEFINE good == {n \in Nat : \A s \in SUBSET S : Cardinality(s) = n => s \in T}
<1>1. \A s \in SUBSET S : IsFiniteSet(s) /\ Cardinality(s) \in Nat
  BY FS_Subset, FS_CardinalityType
<1>2. 0 \in good
  <2>1. \A s \in SUBSET S : Cardinality(s) = 0 => s = {}
    BY <1>1, FS_EmptySet
  <2> QED
    BY <2>1
<1>3. ASSUME NEW n \in Nat, n \in good PROVE n + 1 \in good
  <2> SUFFICES ASSUME NEW s \in SUBSET S, Cardinality(s) = n + 1 PROVE s \in T
    OBVIOUS
  <2>1. s # {}
    BY FS_EmptySet
  <2>2. Pick(s) \in s
    BY <2>1 DEF Pick
  <2>3. Cardinality(s \ {Pick(s)}) = n /\ s \ {Pick(s)} \in SUBSET S
    BY <1>1, <2>2, FS_RemoveElement
  <2>4. s \ {Pick(s)} \in T
    BY <1>3, <2>3
  <2> QED
    BY <2>1, <2>4
<1>4. \A n \in Nat : n \in good
  <2> HIDE DEF good
  <2> QED
    BY <1>2, <1>3, Induction
<1> QED
  BY <1>1, <1>4

LEMMA SumsExist ==
  ASSUME NEW S, IsFiniteSet(S), NEW f, \A x \in S : f[x] \in Int
  PROVE  \E g : SumsOf(f, S, g) /\ g \in [SUBSET S -> Int]
<1> DEFINE Eq(g, s) == g[s] = IF s = {} THEN 0 ELSE f[Pick(s)] + g[s \ {Pick(s)}]
           Upto(n) == {s \in SUBSET S : Cardinality(s) <= n}
           good == {n \in Nat : \E g \in [Upto(n) -> Int] : \A s \in Upto(n) : Eq(g, s)}
<1>1. \A s \in SUBSET S : IsFiniteSet(s) /\ Cardinality(s) \in Nat
  BY FS_Subset, FS_CardinalityType
<1>2. ASSUME NEW s \in SUBSET S, s # {}
      PROVE  /\ Pick(s) \in s /\ f[Pick(s)] \in Int
             /\ s \ {Pick(s)} \in SUBSET S
             /\ Cardinality(s \ {Pick(s)}) = Cardinality(s) - 1
  <2>1. Pick(s) \in s
    BY <1>2 DEF Pick
  <2> QED
    BY <1>1, <2>1, FS_RemoveElement
<1>3. 0 \in good
  <2> DEFINE g == [s \in Upto(0) |-> 0]
  <2>1. \A s \in Upto(0) : s = {}
    BY <1>1, FS_EmptySet
  <2>2. g \in [Upto(0) -> Int] /\ \A s \in Upto(0) : Eq(g, s)
    BY <2>1
  <2> HIDE DEF g, Eq
  <2> QED
    BY <2>2
<1>4. ASSUME NEW n \in Nat, n \in good PROVE n + 1 \in good
  <2>1. PICK g \in [Upto(n) -> Int] : \A s \in Upto(n) : Eq(g, s)
    BY <1>4
  <2> DEFINE h == [s \in Upto(n + 1) |-> IF s = {} THEN 0 ELSE f[Pick(s)] + g[s \ {Pick(s)}]]
  <2>2. \A s \in Upto(n + 1) : s # {} => s \ {Pick(s)} \in Upto(n)
    BY <1>1, <1>2
  <2>3. h \in [Upto(n + 1) -> Int]
    BY <1>2, <2>2
  <2>4. \A s \in Upto(n) : s \in Upto(n + 1) /\ h[s] = g[s]
    BY <1>1, <2>1
  <2>5. ASSUME NEW s \in Upto(n + 1) PROVE Eq(h, s)
    <3>1. s # {} => h[s \ {Pick(s)}] = g[s \ {Pick(s)}]
      BY <2>2, <2>4
    <3>2. h[s] = IF s = {} THEN 0 ELSE f[Pick(s)] + g[s \ {Pick(s)}]
      OBVIOUS
    <3> HIDE DEF h
    <3> QED
      BY <3>1, <3>2
  <2> HIDE DEF h, Eq, Upto
  <2> QED
    BY <2>3, <2>5
<1>5. Cardinality(S) \in Nat /\ \A n \in Nat : n \in good
  <2> HIDE DEF good
  <2> QED
    BY <1>1, <1>3, <1>4, Induction
<1>6. Upto(Cardinality(S)) = SUBSET S
  BY <1>1, FS_Subset
<1>7. PICK g \in [SUBSET S -> Int] : \A s \in SUBSET S : Eq(g, s)
  <2> HIDE DEF Eq, Upto
  <2> QED
    BY <1>5, <1>6
<1> QED
  BY <1>7 DEF SumsOf

(* The chosen function is one of them, and the sum of a set is its value. *)
LEMMA SumChosen ==
  ASSUME NEW S, NEW f, NEW g, SumsOf(f, S, g)
  PROVE  \E h : SumsOf(f, S, h) /\ SumFunctionOnSet(f, S) = h[S]
BY DEF SumsOf, Pick, SumFunctionOnSet, FoldFunctionOnSet, MapThenFoldSet

LEMMA SumsAgree ==
  ASSUME NEW S, IsFiniteSet(S), NEW f, NEW g, NEW U, S \in SUBSET U, SumsOf(f, U, g)
  PROVE  SumFunctionOnSet(f, S) = g[S]
<1>1. SumsOf(f, S, [s \in SUBSET S |-> g[s]])
  <2> DEFINE r == [s \in SUBSET S |-> g[s]]
  <2>1. \A s \in SUBSET S : s \in SUBSET U /\ s \ {Pick(s)} \in SUBSET S
    OBVIOUS
  <2>2. \A s \in SUBSET S : g[s] = IF s = {} THEN 0 ELSE f[Pick(s)] + g[s \ {Pick(s)}]
    BY <2>1 DEF SumsOf
  <2>3. \A s \in SUBSET S : g[s] = IF s = {} THEN 0 ELSE f[Pick(s)] + r[s \ {Pick(s)}]
    BY <2>1, <2>2
  <2>4. r = [s \in SUBSET S |-> IF s = {} THEN 0 ELSE f[Pick(s)] + r[s \ {Pick(s)}]]
    BY <2>3
  <2> QED
    BY <2>4 DEF SumsOf
<1>2. PICK h : SumsOf(f, S, h) /\ SumFunctionOnSet(f, S) = h[S]
  BY <1>1, SumChosen
<1> DEFINE T == {s \in SUBSET S : h[s] = g[s]}
<1>3. {} \in T
  BY <1>2 DEF SumsOf
<1>4. ASSUME NEW s \in SUBSET S, s # {}, s \ {Pick(s)} \in T PROVE s \in T
  <2>1. h[s] = f[Pick(s)] + h[s \ {Pick(s)}]
    BY <1>2, <1>4 DEF SumsOf
  <2>2. s \in SUBSET U
    OBVIOUS
  <2>3. g[s] = f[Pick(s)] + g[s \ {Pick(s)}]
    BY <1>4, <2>2 DEF SumsOf
  <2> QED
    BY <1>4, <2>1, <2>3
<1>5. \A s \in SUBSET S : s \in T
  <2> HIDE DEF T
  <2> QED
    BY <1>3, <1>4, SizeInduction
<1> QED
  BY <1>2, <1>5

(* The sum of nothing, and of a set less any of its elements. *)
LEMMA SumStep ==
  ASSUME NEW S, IsFiniteSet(S), NEW f, \A x \in S : f[x] \in Int
  PROVE  /\ SumFunctionOnSet(f, S) \in Int
         /\ SumFunctionOnSet(f, {}) = 0
         /\ \A x \in S : SumFunctionOnSet(f, S) = f[x] + SumFunctionOnSet(f, S \ {x})
<1>1. PICK g : SumsOf(f, S, g) /\ g \in [SUBSET S -> Int]
  BY SumsExist
<1>2. \A s \in SUBSET S : SumFunctionOnSet(f, s) = g[s]
  BY <1>1, SumsAgree, FS_Subset
<1>3. /\ g[{}] = 0
      /\ \A s \in SUBSET S : s # {} => Pick(s) \in s /\ g[s] = f[Pick(s)] + g[s \ {Pick(s)}]
  BY <1>1 DEF SumsOf, Pick
<1> DEFINE T == {s \in SUBSET S : \A x \in s : g[s] = f[x] + g[s \ {x}]}
           Sized(n) == \A s \in SUBSET S : Cardinality(s) = n => s \in T
           good == {n \in Nat : Sized(n)}
<1>4. \A s \in SUBSET S : IsFiniteSet(s) /\ Cardinality(s) \in Nat
  BY FS_Subset, FS_CardinalityType
<1>5. 0 \in good
  <2>1. \A s \in SUBSET S : Cardinality(s) = 0 => s = {}
    BY <1>4, FS_EmptySet
  <2> QED
    BY <2>1
<1>6. ASSUME NEW n \in Nat, n \in good PROVE n + 1 \in good
  <2> SUFFICES ASSUME NEW s \in SUBSET S, Cardinality(s) = n + 1, NEW x \in s
               PROVE  g[s] = f[x] + g[s \ {x}]
    OBVIOUS
  <2> DEFINE y == Pick(s)
  <2>1. y \in s /\ g[s] = f[y] + g[s \ {y}]
    BY <1>3
  <2>2. CASE x = y
    BY <2>1, <2>2
  <2>3. CASE x # y
    <3>1. /\ s \ {x} \in SUBSET S /\ Cardinality(s \ {x}) = n
          /\ s \ {y} \in SUBSET S /\ Cardinality(s \ {y}) = n
      BY <1>4, <2>1, FS_RemoveElement
    <3>2. s \ {x} \in T /\ s \ {y} \in T
      BY <1>6, <3>1
    <3> DEFINE rest == (s \ {x}) \ {y}
    <3>3. rest = (s \ {y}) \ {x} /\ rest \in SUBSET S
      OBVIOUS
    <3>4. g[s \ {x}] = f[y] + g[rest] /\ g[s \ {y}] = f[x] + g[rest]
      BY <2>1, <2>3, <3>2, <3>3
    <3>5. f[x] \in Int /\ f[y] \in Int /\ g[rest] \in Int
      BY <1>1, <2>1, <3>3
    <3> HIDE DEF y, rest
    <3> QED
      BY <2>1, <3>4, <3>5
  <2> QED
    BY <2>2, <2>3
<1>7. \A n \in Nat : n \in good
  <2> HIDE DEF good
  <2> QED
    BY <1>5, <1>6, Induction
<1>8. S \in T
  BY <1>4, <1>7
<1> QED
  BY <1>1, <1>2, <1>3, <1>8
-----------------------------------------------------------------------------
(* Sums over sets. *)
LEMMA SetInduction ==
  ASSUME NEW S, IsFiniteSet(S), NEW T, {} \in T,
         \A s \in SUBSET S : \A x \in S \ s : s \in T => s \cup {x} \in T
  PROVE  S \in T
<1>1. ASSUME NEW s \in SUBSET S, s # {}, s \ {Pick(s)} \in T PROVE s \in T
  <2>1. Pick(s) \in s
    BY <1>1 DEF Pick
  <2>2. s \ {Pick(s)} \in SUBSET S /\ Pick(s) \in S \ (s \ {Pick(s)}) /\ (s \ {Pick(s)}) \cup {Pick(s)} = s
    BY <2>1
  <2> HIDE DEF Pick
  <2> QED
    BY <1>1, <2>2
<1>2. \A s \in SUBSET S : s \in T
  BY <1>1, SizeInduction
<1> QED
  BY <1>2

LEMMA SumFunctionIs ==
  ASSUME NEW f
  PROVE  SumFunction(f) = SumFunctionOnSet(f, DOMAIN f)
BY DEF SumFunction, SumFunctionOnSet, FoldFunction, FoldFunctionOnSet

LEMMA SumEmpty ==
  ASSUME NEW f
  PROVE  SumFunctionOnSet(f, {}) = 0
<1>1. IsFiniteSet({}) /\ \A x \in {} : f[x] \in Int
  BY FS_EmptySet
<1> QED
  BY <1>1, SumStep

LEMMA SumAdd ==
  ASSUME NEW S, IsFiniteSet(S), NEW f, NEW x, x \notin S, \A y \in S \cup {x} : f[y] \in Int
  PROVE  /\ SumFunctionOnSet(f, S \cup {x}) = SumFunctionOnSet(f, S) + f[x]
         /\ SumFunctionOnSet(f, S) \in Int
         /\ f[x] \in Int
<1>1. IsFiniteSet(S \cup {x})
  BY FS_AddElement
<1>2. x \in S \cup {x} /\ (S \cup {x}) \ {x} = S /\ f[x] \in Int
  OBVIOUS
<1>3. SumFunctionOnSet(f, S \cup {x}) = f[x] + SumFunctionOnSet(f, (S \cup {x}) \ {x})
  BY <1>1, <1>2, SumStep
<1>4. \A y \in S : f[y] \in Int
  OBVIOUS
<1>5. SumFunctionOnSet(f, S) \in Int
  BY <1>4, SumStep
<1>6. SumFunctionOnSet(f, S \cup {x}) = f[x] + SumFunctionOnSet(f, S)
  BY <1>2, <1>3
<1> DEFINE a == SumFunctionOnSet(f, S)
           b == SumFunctionOnSet(f, S \cup {x})
           c == f[x]
<1>7. a \in Int /\ c \in Int /\ b = c + a
  BY <1>2, <1>5, <1>6
<1> HIDE DEF a, b, c
<1>8. b = a + c
  BY <1>7
<1> QED
  BY <1>7, <1>8 DEF a, b, c

(* The sum of two sets that do not meet. *)
LEMMA SumUnion ==
  ASSUME NEW S, IsFiniteSet(S), NEW U, IsFiniteSet(U), S \cap U = {},
         NEW f, \A x \in S \cup U : f[x] \in Int
  PROVE  SumFunctionOnSet(f, S \cup U) = SumFunctionOnSet(f, S) + SumFunctionOnSet(f, U)
<1> DEFINE good == {s \in SUBSET S :
                      SumFunctionOnSet(f, s \cup U) = SumFunctionOnSet(f, s) + SumFunctionOnSet(f, U)}
<1>1. SumFunctionOnSet(f, U) \in Int
  BY SumStep
<1>2. {} \in good
  <2>1. SumFunctionOnSet(f, {}) = 0 /\ {} \cup U = U
    BY SumEmpty
  <2> QED
    BY <1>1, <2>1
<1>3. ASSUME NEW s \in SUBSET S, NEW x \in S \ s, s \in good PROVE s \cup {x} \in good
  <2>1. IsFiniteSet(s) /\ IsFiniteSet(s \cup U)
    BY FS_Subset, FS_Union
  <2>2. /\ SumFunctionOnSet(f, s \cup {x}) = SumFunctionOnSet(f, s) + f[x]
        /\ SumFunctionOnSet(f, s) \in Int /\ f[x] \in Int
    BY <2>1, SumAdd
  <2>3. x \notin s \cup U /\ \A y \in (s \cup U) \cup {x} : f[y] \in Int
    OBVIOUS
  <2>4. SumFunctionOnSet(f, (s \cup U) \cup {x}) = SumFunctionOnSet(f, s \cup U) + f[x]
    BY <2>1, <2>3, SumAdd
  <2>5. (s \cup U) \cup {x} = (s \cup {x}) \cup U /\ s \cup {x} \in SUBSET S
    OBVIOUS
  <2>6. SumFunctionOnSet(f, (s \cup {x}) \cup U) = SumFunctionOnSet(f, s \cup U) + f[x]
    BY <2>4, <2>5
  <2>7. SumFunctionOnSet(f, (s \cup {x}) \cup U) = SumFunctionOnSet(f, s \cup {x}) + SumFunctionOnSet(f, U)
    BY <1>1, <1>3, <2>2, <2>6
  <2> QED
    BY <2>5, <2>7
<1> HIDE DEF good
<1>4. S \in good
  BY <1>2, <1>3, SetInduction
<1> QED
  BY <1>4 DEF good

(* The sum over the values of h of f, when h takes each once. *)
LEMMA SumRenamed ==
  ASSUME NEW S, IsFiniteSet(S), NEW h, NEW f, NEW g,
         \A x, y \in S : h[x] = h[y] => x = y,
         \A x \in S : g[x] = f[h[x]] /\ g[x] \in Int
  PROVE  SumFunctionOnSet(f, {h[x] : x \in S}) = SumFunctionOnSet(g, S)
<1> DEFINE Im(s) == {h[x] : x \in s}
           good == {s \in SUBSET S : IsFiniteSet(Im(s)) /\ SumFunctionOnSet(f, Im(s)) = SumFunctionOnSet(g, s)}
<1>2. {} \in good
  <2>1. SumFunctionOnSet(f, {}) = 0 /\ SumFunctionOnSet(g, {}) = 0 /\ Im({}) = {}
    BY SumEmpty
  <2> QED
    BY <2>1, FS_EmptySet
<1>3. ASSUME NEW s \in SUBSET S, NEW x \in S \ s, s \in good PROVE s \cup {x} \in good
  <2>1. IsFiniteSet(s) /\ IsFiniteSet(Im(s)) /\ SumFunctionOnSet(f, Im(s)) = SumFunctionOnSet(g, s)
    BY <1>3, FS_Subset
  <2>2. /\ SumFunctionOnSet(g, s \cup {x}) = SumFunctionOnSet(g, s) + g[x]
        /\ SumFunctionOnSet(g, s) \in Int /\ g[x] \in Int
    BY <2>1, SumAdd
  <2>3. h[x] \notin Im(s) /\ \A y \in Im(s) \cup {h[x]} : f[y] \in Int
    OBVIOUS
  <2>4. Im(s \cup {x}) = Im(s) \cup {h[x]}
    OBVIOUS
  <2> HIDE DEF Im
  <2>5. SumFunctionOnSet(f, Im(s) \cup {h[x]}) = SumFunctionOnSet(f, Im(s)) + f[h[x]]
    <3> DEFINE A == Im(s)
               y == h[x]
    <3>1. IsFiniteSet(A) /\ y \notin A /\ \A z \in A \cup {y} : f[z] \in Int
      BY <2>1, <2>3
    <3> HIDE DEF A, y
    <3>2. SumFunctionOnSet(f, A \cup {y}) = SumFunctionOnSet(f, A) + f[y]
      BY <3>1, SumAdd
    <3> QED
      BY <3>2 DEF A, y
  <2>6. IsFiniteSet(Im(s) \cup {h[x]})
    BY <2>1, FS_AddElement
  <2>7. f[h[x]] = g[x] /\ s \cup {x} \in SUBSET S
    OBVIOUS
  <2> QED
    BY <2>1, <2>2, <2>4, <2>5, <2>6, <2>7
<1> HIDE DEF good
<1>4. S \in good
  BY <1>2, <1>3, SetInduction
<1> QED
  BY <1>4 DEF good

Whole(P, S) == UNION {P[t] : t \in S}

(* The sum of the sums of the parts is the sum of the whole. *)
LEMMA SumOfParts ==
  ASSUME NEW S, IsFiniteSet(S), NEW P, NEW f, NEW g,
         \A t \in S : IsFiniteSet(P[t]) /\ \A x \in P[t] : f[x] \in Int,
         \A t, u \in S : t # u => P[t] \cap P[u] = {},
         \A t \in S : g[t] = SumFunctionOnSet(f, P[t])
  PROVE  SumFunctionOnSet(g, S) = SumFunctionOnSet(f, Whole(P, S))
<1> DEFINE Of(s) == UNION {P[t] : t \in s}
           good == {s \in SUBSET S : IsFiniteSet(Of(s)) /\ SumFunctionOnSet(g, s) = SumFunctionOnSet(f, Of(s))}
<1>1. \A t \in S : g[t] \in Int
  BY SumStep
<1>2. {} \in good
  <2>1. SumFunctionOnSet(f, {}) = 0 /\ SumFunctionOnSet(g, {}) = 0 /\ Of({}) = {}
    BY SumEmpty
  <2> QED
    BY <2>1, FS_EmptySet
<1>3. ASSUME NEW s \in SUBSET S, NEW x \in S \ s, s \in good PROVE s \cup {x} \in good
  <2>1. IsFiniteSet(s) /\ IsFiniteSet(Of(s)) /\ SumFunctionOnSet(g, s) = SumFunctionOnSet(f, Of(s))
    BY <1>3, FS_Subset
  <2>2. SumFunctionOnSet(g, s \cup {x}) = SumFunctionOnSet(g, s) + g[x]
    <3>1. x \notin s /\ \A y \in s \cup {x} : g[y] \in Int
      BY <1>1
    <3> QED
      BY <2>1, <3>1, SumAdd
  <2>3. Of(s) \cap P[x] = {} /\ IsFiniteSet(P[x]) /\ \A y \in Of(s) \cup P[x] : f[y] \in Int
    <3>1. \A t \in s : P[t] \cap P[x] = {} /\ t \in S
      OBVIOUS
    <3> QED
      BY <3>1
  <2>4. Of(s \cup {x}) = Of(s) \cup P[x]
    OBVIOUS
  <2> HIDE DEF Of
  <2>5. SumFunctionOnSet(f, Of(s) \cup P[x]) = SumFunctionOnSet(f, Of(s)) + SumFunctionOnSet(f, P[x])
    BY <2>1, <2>3, SumUnion
  <2>6. IsFiniteSet(Of(s) \cup P[x])
    BY <2>1, <2>3, FS_Union
  <2>7. g[x] = SumFunctionOnSet(f, P[x]) /\ s \cup {x} \in SUBSET S
    OBVIOUS
  <2> QED
    BY <2>1, <2>2, <2>4, <2>5, <2>6, <2>7
<1> HIDE DEF good
<1>4. S \in good
  BY <1>2, <1>3, SetInduction
<1> QED
  BY <1>4 DEF good, Whole

(* Functions that agree have the same sum. *)
LEMMA SumSame ==
  ASSUME NEW S, IsFiniteSet(S), NEW f, NEW g, \A x \in S : f[x] = g[x] /\ f[x] \in Int
  PROVE  SumFunctionOnSet(f, S) = SumFunctionOnSet(g, S)
<1> DEFINE h == [x \in S |-> x]
<1>1. /\ \A x, y \in S : h[x] = h[y] => x = y
      /\ \A x \in S : g[x] = f[h[x]] /\ g[x] \in Int
      /\ {h[x] : x \in S} = S
  OBVIOUS
<1> HIDE DEF h
<1>2. SumFunctionOnSet(f, {h[x] : x \in S}) = SumFunctionOnSet(g, S)
  BY <1>1, SumRenamed
<1> QED
  BY <1>1, <1>2
=============================================================================
