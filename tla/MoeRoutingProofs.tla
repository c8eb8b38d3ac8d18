-------------------------- MODULE MoeRoutingProofs --------------------------
(***************************************************************************)
(* Proofs about the experts of a layer, for any number of ranks, rows,     *)
(* experts, lanes and rows of a block, and any choices of the router.      *)
(*                                                                         *)
(* Once a stage of a rank is over, what it wrote is a function of the      *)
(* top-k alone, but for the places of the pairs, of which it is enough to  *)
(* know that each expert's are in its bucket and differ.                   *)
(***************************************************************************)
EXTENDS MoeRouting, NumberLemmas

(* What the stages write, in terms of the top-k. *)
K == Len(CHOOSE tk \in TopkChoices : TRUE)           \* experts_per_token
LocalOf(r, b) == {k \in DOMAIN routed[b] : Owns(r, routed[b][k])}
PairOf(r, b, k) == [row |-> b, k |-> k, expert |-> routed[b][k] - r * Epd]
RoutedPairs(r) ==
  {PairOf(r, q[1], q[2]) : q \in {p \in Rows \X (1 .. K) : p[2] \in LocalOf(r, p[1])}}
CountOf(pairs) == [e \in LocalExperts |-> Cardinality({p \in pairs : p.expert = e})]
BlocksOf(pairs) == [e \in LocalExperts |-> Blocks(CountOf(pairs)[e])]
Wanted(r, s) == {i \in InSlice : Needs(r, routed[RowOf(s, i)])}
ListOf(r, s) == IF r = s THEN NoList ELSE Compact(Wanted(r, s))

TopkInv(r) == topk[r] = [b \in Rows |-> IF SliceOf(b) = r \/ Done(r, "pull") THEN routed[b] ELSE <<Stale>>]
RowsInv(r) ==
  rows[r] = [b \in Rows |->
    IF SliceOf(b) = r \/ (Done(r, "pull") /\ Needs(r, routed[b])) THEN b ELSE Stale]
RecvInv(r) == Done(r, "lists") => recv[r] = [s \in Ranks |-> ListOf(s, r)]
SendInv(r) == Done(r, "place") => send[r] = [s \in Ranks |-> ListOf(r, s)]

(* The places of an expert's pairs are those of its bucket.                *)
PlaceInv(r) ==
  Done(r, "place") =>
    /\ bucket[r] = BucketOf(RoutedPairs(r))
    /\ DOMAIN place[r] = RoutedPairs(r)
    /\ \A p \in RoutedPairs(r) :
         place[r][p] \in bucket[r].offset[p.expert] .. bucket[r].offset[p.expert + 1] - 1
    /\ \A p, q \in RoutedPairs(r) : place[r][p] = place[r][q] => p = q

PackedInv(r) ==
  Done(r, "gather") =>
    \A s \in Ranks : s # r => \A i \in Wanted(r, s) :
      eAgg[r][s][ListOf(r, s).rank[i]] = SumFrom(r, RowOf(s, i))
RankInv(r) ==
  TopkInv(r) /\ RowsInv(r) /\ RecvInv(r) /\ SendInv(r) /\ PlaceInv(r) /\ PackedInv(r)
ResidualInv(b) ==
  x[b] = IF Done(SliceOf(b), "reduce") THEN Expected(b)
         ELSE IF Done(SliceOf(b), "gather") THEN <<SumFrom(SliceOf(b), b)>>
         ELSE << >>

TypeInv ==
  /\ routed \in [Rows -> TopkChoices \cup {Finished}]
  /\ stage \in [Ranks -> 1 .. 6]
  /\ topk = [r \in Ranks |-> topk[r]]
  /\ rows = [r \in Ranks |-> rows[r]]
  /\ recv = [r \in Ranks |-> recv[r]]
  /\ send = [r \in Ranks |-> send[r]]
  /\ bucket = [r \in Ranks |-> bucket[r]]
  /\ place = [r \in Ranks |-> place[r]]
  /\ eAgg = [r \in Ranks |-> eAgg[r]]
  /\ x = [b \in Rows |-> x[b]]

WaitInv == \A r, j \in Ranks : Done(r, "pull") => Done(j, "lists")

IInv ==
  /\ TypeInv /\ WaitInv
  /\ \A r \in Ranks : RankInv(r)
  /\ \A b \in Rows : ResidualInv(b)
-----------------------------------------------------------------------------
(* How many elements of S are smaller than i. *)
Below(S, i) == Cardinality({j \in S : j < i})

LEMMA Ranking ==
  ASSUME NEW S \in SUBSET Int, IsFiniteSet(S)
  PROVE  /\ Cardinality(S) \in Nat
         /\ \A i \in S : Below(S, i) \in 0 .. Cardinality(S) - 1
         /\ \A i, j \in S : i < j => Below(S, i) < Below(S, j)
         /\ \A n \in 0 .. Cardinality(S) - 1 : \E i \in S : Below(S, i) = n
<1> DEFINE c == Cardinality(S)
           f == [i \in S |-> Below(S, i)]
<1>1. c \in Nat
  BY FS_CardinalityType
<1>2. \A A \in SUBSET S : IsFiniteSet(A) /\ Cardinality(A) \in Nat /\ Cardinality(A) <= c
                          /\ (Cardinality(A) = c => A = S)
  BY FS_Subset, FS_CardinalityType
<1>3. ASSUME NEW i \in S PROVE Below(S, i) \in 0 .. c - 1
  <2> DEFINE A == {j \in S : j < i}
  <2>1. A \in SUBSET S /\ A # S
    OBVIOUS
  <2> HIDE DEF A
  <2>2. Cardinality(A) \in Nat /\ Cardinality(A) < c
    BY <1>1, <1>2, <2>1
  <2> QED
    BY <1>1, <2>2 DEF Below, A
<1>4. ASSUME NEW i \in S, NEW j \in S, i < j PROVE Below(S, i) < Below(S, j)
  <2> DEFINE A == {l \in S : l < i}
             B == {l \in S : l < j}
  <2>0. i \in Int /\ j \in Int /\ ~(i < i) /\ \A l \in S : l < i => l < j
    BY <1>4
  <2>1. A \in SUBSET B /\ i \in B /\ i \notin A /\ B \in SUBSET S
    BY <1>4, <2>0
  <2> HIDE DEF A, B
  <2>2. IsFiniteSet(B) /\ Cardinality(A) \in Nat /\ Cardinality(B) \in Nat
    BY <1>2, <2>1
  <2>3. Cardinality(A) <= Cardinality(B) /\ Cardinality(A) # Cardinality(B)
    BY <2>1, <2>2, FS_Subset
  <2> QED
    BY <2>2, <2>3 DEF Below, A, B
<1>5. f \in Injection(S, 0 .. c - 1)
  <2>1. f \in [S -> 0 .. c - 1]
    BY <1>3
  <2>2. \A i, j \in S : f[i] = f[j] => i = j
    <3> SUFFICES ASSUME NEW i \in S, NEW j \in S, i # j PROVE f[i] # f[j]
      OBVIOUS
    <3>1. i < j \/ j < i
      OBVIOUS
    <3>2. Below(S, i) \in Int /\ Below(S, j) \in Int
      BY <1>3
    <3> QED
      BY <1>4, <3>1, <3>2
  <2> HIDE DEF f
  <2> QED
    BY <2>1, <2>2 DEF Injection, IsInjective
<1>6. IsFiniteSet(0 .. c - 1) /\ Cardinality(0 .. c - 1) = c
  <2>1. 0 \in Int /\ c - 1 \in Int
    BY <1>1
  <2> QED
    BY <1>1, <2>1, FS_Interval
<1>7. f \in Surjection(S, 0 .. c - 1)
  BY <1>5, <1>6, FS_Injection
<1>8. \A n \in 0 .. c - 1 : \E i \in S : Below(S, i) = n
  BY <1>7 DEF Surjection
<1> QED
  BY <1>1, <1>3, <1>4, <1>8

(* InOrder(S) lists S, each element once and in ascending order.           *)
LEMMA Ordered ==
  ASSUME NEW S \in SUBSET Int, IsFiniteSet(S)
  PROVE  /\ InOrder(S) \in [1 .. Cardinality(S) -> S]
         /\ \A n \in 1 .. Cardinality(S) : Below(S, InOrder(S)[n]) = n - 1
         /\ \A i \in S : Below(S, i) + 1 \in 1 .. Cardinality(S) /\ InOrder(S)[Below(S, i) + 1] = i
         /\ \A m, n \in 1 .. Cardinality(S) : m < n => InOrder(S)[m] < InOrder(S)[n]
<1> DEFINE c == Cardinality(S)
           o == InOrder(S)
<1>1. c \in Nat
  BY Ranking
<1>2. \A n \in 1 .. c : o[n] = CHOOSE i \in S : Below(S, i) = n - 1
  BY DEF InOrder, Below
<1>3. DOMAIN o = 1 .. c /\ o = [n \in 1 .. c |-> o[n]]
  <2> DEFINE P(n) == CHOOSE i \in S : Cardinality({j \in S : j < i}) = n - 1
  <2>1. o = [n \in 1 .. c |-> P(n)]
    BY DEF InOrder
  <2> HIDE DEF P, o, c
  <2> QED
    BY <2>1
<1> HIDE DEF o
<1>4. ASSUME NEW n \in 1 .. c PROVE o[n] \in S /\ Below(S, o[n]) = n - 1
  <2>1. n - 1 \in 0 .. c - 1
    BY <1>1
  <2>2. \E i \in S : Below(S, i) = n - 1
    BY <2>1, Ranking
  <2> QED
    BY <1>2, <2>2
<1>5. \A i, j \in S : Below(S, i) = Below(S, j) => i = j
  <2> SUFFICES ASSUME NEW i \in S, NEW j \in S, i # j PROVE Below(S, i) # Below(S, j)
    OBVIOUS
  <2>1. i < j \/ j < i
    OBVIOUS
  <2>2. Below(S, i) \in Int /\ Below(S, j) \in Int
    BY Ranking
  <2> QED
    BY <2>1, <2>2, Ranking
<1>6. ASSUME NEW i \in S PROVE Below(S, i) + 1 \in 1 .. c /\ o[Below(S, i) + 1] = i
  <2>1. Below(S, i) \in 0 .. c - 1
    BY Ranking
  <2>2. Below(S, i) + 1 \in 1 .. c /\ (Below(S, i) + 1) - 1 = Below(S, i)
    BY <1>1, <2>1
  <2> QED
    BY <1>4, <1>5, <2>2
<1>7. ASSUME NEW m \in 1 .. c, NEW n \in 1 .. c, m < n PROVE o[m] < o[n]
  <2>1. o[m] \in Int /\ o[n] \in Int
    BY <1>4
  <2>2. ~(o[n] < o[m]) /\ o[m] # o[n]
    <3>1. o[n] < o[m] => Below(S, o[n]) < Below(S, o[m])
      BY <1>4, Ranking
    <3> QED
      BY <1>4, <1>7, <3>1
  <2> QED
    BY <2>1, <2>2
<1>8. o \in [1 .. c -> S]
  BY <1>3, <1>4
<1> QED
  BY <1>4, <1>6, <1>7, <1>8 DEF o

LEMMA Sizes ==
  /\ EP \in Nat \ {0} /\ EP > 2
  /\ BatchSize \in Nat \ {0} /\ Epd \in Nat \ {0} /\ BM \in Nat \ {0} /\ Lanes \in Nat \ {0}
  /\ \A k, l \in Nat : k * l \in Nat
BY RoutingAssumption, ProductNat

(* The passes of the list builder visit the rows in ascending order, so    *)
(* the list is that, whatever the number of lanes.                         *)
LEMMA Compacted ==
  ASSUME NEW marked \in SUBSET InSlice
  PROVE  /\ IsFiniteSet(marked) /\ marked \in SUBSET Nat
         /\ \A i \in InSlice : Compact(marked).rank[i] = IF i \in marked THEN Below(marked, i) ELSE -1
         /\ {Compact(marked).idx[n] : n \in DOMAIN Compact(marked).idx} = marked
<1> DEFINE at(i) == Carried(marked, i) + Before(marked, i)
           c == Cardinality(marked)
<1>1. IsFiniteSet(marked) /\ marked \in SUBSET Nat
  <2>1. 0 \in Int /\ BatchSize - 1 \in Int
    BY Sizes
  <2>2. IsFiniteSet(InSlice) /\ InSlice \in SUBSET Nat
    BY <2>1, FS_Interval DEF InSlice
  <2> QED
    BY <2>2, FS_Subset
<1>2. ASSUME NEW i \in marked PROVE at(i) = Below(marked, i)
  <2> DEFINE A == {j \in marked : Pass(j) < Pass(i)}
             B == {j \in marked : Pass(j) = Pass(i) /\ j < i}
             C == {j \in marked : j < i}
  <2>1. \A j \in marked : Pass(j) \in Nat /\ j \in Nat
    BY <1>1, Sizes, Division DEF Pass
  <2>2. \A j, l \in marked : j <= l => Pass(j) <= Pass(l)
    BY <1>1, Sizes, DivisionMonotone DEF Pass
  <2>3. A \cup B = C /\ A \cap B = {} /\ A \in SUBSET marked /\ B \in SUBSET marked
    BY <2>1, <2>2
  <2> HIDE DEF A, B, C
  <2>4. /\ IsFiniteSet(A) /\ IsFiniteSet(B) /\ Cardinality(A) \in Nat /\ Cardinality(B) \in Nat
        /\ Cardinality(A \cap B) = 0
    BY <1>1, <2>3, FS_Subset, FS_CardinalityType, FS_EmptySet
  <2>5. Cardinality(A \cup B) = Cardinality(A) + Cardinality(B) - Cardinality(A \cap B)
    BY <2>4, FS_Union
  <2>6. Cardinality(A \cup B) = Cardinality(C)
    BY <2>3, Zenon
  <2>7. Cardinality(C) = Cardinality(A) + Cardinality(B)
    BY <2>4, <2>5, <2>6
  <2> QED
    BY <2>7 DEF A, B, C, Below, Carried, Before
<1>3. \A i \in InSlice : Compact(marked).rank[i] = IF i \in marked THEN at(i) ELSE -1
  BY DEF Compact
<1>4. Compact(marked).idx = [n \in 1 .. c |-> CHOOSE i \in marked : at(i) = n - 1]
  BY DEF Compact
<1> HIDE DEF at
<1>5. \A n \in 1 .. c : Compact(marked).idx[n] \in marked
                        /\ Below(marked, Compact(marked).idx[n]) = n - 1
  <2> SUFFICES ASSUME NEW n \in 1 .. c
               PROVE  Compact(marked).idx[n] \in marked
                      /\ Below(marked, Compact(marked).idx[n]) = n - 1
    OBVIOUS
  <2>1. c \in Nat /\ marked \in SUBSET Int
    BY <1>1, Ranking
  <2>2. n - 1 \in 0 .. c - 1
    BY <2>1
  <2>3. \E i \in marked : at(i) = n - 1
    BY <1>1, <1>2, <2>1, <2>2, Ranking
  <2>4. Compact(marked).idx[n] \in marked /\ at(Compact(marked).idx[n]) = n - 1
    BY <1>4, <2>3
  <2> QED
    BY <1>2, <2>4
<1>6. ASSUME NEW i \in marked PROVE \E n \in 1 .. c : Compact(marked).idx[n] = i
  <2>1. c \in Nat /\ marked \in SUBSET Int
    BY <1>1, Ranking
  <2>2. Below(marked, i) + 1 \in 1 .. c /\ (Below(marked, i) + 1) - 1 = Below(marked, i)
    BY <1>1, <2>1, Ranking
  <2>3. \A j \in marked : Below(marked, j) = Below(marked, i) => j = i
    <3> SUFFICES ASSUME NEW j \in marked, j # i PROVE Below(marked, j) # Below(marked, i)
      OBVIOUS
    <3>1. j < i \/ i < j
      BY <2>1
    <3>2. Below(marked, j) \in Int /\ Below(marked, i) \in Int
      BY <1>1, <2>1, Ranking
    <3> QED
      BY <1>1, <2>1, <3>1, <3>2, Ranking
  <2> QED
    BY <1>5, <2>2, <2>3
<1>7. DOMAIN Compact(marked).idx = 1 .. c
  BY <1>4
<1>8. \A i \in InSlice : Compact(marked).rank[i] = IF i \in marked THEN Below(marked, i) ELSE -1
  BY <1>2, <1>3
<1>9. {Compact(marked).idx[n] : n \in DOMAIN Compact(marked).idx} = marked
  <2> DEFINE s == Compact(marked).idx
  <2>1. /\ DOMAIN s = 1 .. c /\ \A n \in 1 .. c : s[n] \in marked
        /\ \A i \in marked : \E n \in 1 .. c : s[n] = i
    BY <1>5, <1>6, <1>7
  <2> HIDE DEF s
  <2>2. {s[n] : n \in DOMAIN s} = marked
    BY <2>1
  <2> QED
    BY <2>2 DEF s
<1> QED
  BY <1>1, <1>8, <1>9
-----------------------------------------------------------------------------
(* The exclusive scan of a function n on the local experts. *)
LEMMA ScanIs ==
  ASSUME NEW n \in [LocalExperts -> Nat]
  PROVE  /\ Scan(n) \in [0 .. Epd -> Nat] /\ Scan(n)[0] = 0
         /\ \A e \in LocalExperts : e + 1 \in 0 .. Epd /\ Scan(n)[e + 1] = Scan(n)[e] + n[e]
<1> DEFINE lower(e) == {d \in LocalExperts : d < e}
<1>1. Epd \in Nat \ {0} /\ IsFiniteSet(LocalExperts) /\ LocalExperts \in SUBSET Nat
  <2>1. 0 \in Int /\ Epd - 1 \in Int /\ Epd \in Nat \ {0}
    BY Sizes
  <2> QED
    BY <2>1, FS_Interval DEF LocalExperts
<1>2. \A e : Scan(n)[e] = SumFunctionOnSet(n, lower(e)) \/ e \notin 0 .. Epd
  BY DEF Scan
<1>3. \A e : IsFiniteSet(lower(e)) /\ \A d \in lower(e) : n[d] \in Int
  BY <1>1, FS_Subset
<1>4. \A e \in 0 .. Epd : Scan(n)[e] \in Int
  <2> HIDE DEF lower
  <2>1. \A e : SumFunctionOnSet(n, lower(e)) \in Int
    BY <1>3, SumStep
  <2> QED
    BY <1>2, <2>1
<1>5. Scan(n)[0] = 0
  <2>0. \A d \in LocalExperts : ~(d < 0)
    BY <1>1
  <2>1. lower(0) = {}
    BY <2>0
  <2>3. 0 \in 0 .. Epd
    BY <1>1
  <2>2. SumFunctionOnSet(n, {}) = 0
    BY <1>3, SumStep
  <2> QED
    BY <1>2, <2>1, <2>2, <2>3
<1>6. ASSUME NEW e \in LocalExperts
      PROVE  e + 1 \in 0 .. Epd /\ e \in 0 .. Epd /\ Scan(n)[e + 1] = Scan(n)[e] + n[e]
  <2>1. e + 1 \in 0 .. Epd /\ e \in 0 .. Epd /\ e \in Nat /\ n[e] \in Int
    BY <1>1 DEF LocalExperts
  <2>2. e \in lower(e + 1) /\ lower(e + 1) \ {e} = lower(e)
    <3>1. \A d \in LocalExperts : d < e + 1 <=> d < e \/ d = e
      BY <1>1
    <3>2. ~(e < e)
      BY <1>1
    <3> QED
      BY <3>1, <3>2
  <2> HIDE DEF lower
  <2>3. SumFunctionOnSet(n, lower(e + 1)) = n[e] + SumFunctionOnSet(n, lower(e + 1) \ {e})
    BY <1>3, <2>2, SumStep
  <2>4. Scan(n)[e + 1] = n[e] + Scan(n)[e]
    BY <1>2, <2>1, <2>2, <2>3
  <2> QED
    BY <1>4, <2>1, <2>4
<1> HIDE DEF lower
<1>7. \A k \in Nat : k \in {j \in Nat : j <= Epd => Scan(n)[j] \in Nat}
  <2> DEFINE good == {j \in Nat : j <= Epd => Scan(n)[j] \in Nat}
  <2>1. 0 \in good
    BY <1>5
  <2>2. ASSUME NEW k \in Nat, k \in good PROVE k + 1 \in good
    <3> SUFFICES ASSUME k + 1 <= Epd PROVE Scan(n)[k + 1] \in Nat
      OBVIOUS
    <3>1. k \in LocalExperts /\ Scan(n)[k] \in Nat /\ n[k] \in Nat
      BY <1>1, <2>2 DEF LocalExperts
    <3> QED
      BY <1>6, <3>1
  <2> HIDE DEF good
  <2>3. \A k \in Nat : k \in good
    BY <2>1, <2>2, Induction
  <2> QED
    BY <2>3 DEF good
<1>8. Scan(n) = [e \in 0 .. Epd |-> Scan(n)[e]]
  BY DEF Scan
<1>9. Scan(n) \in [0 .. Epd -> Nat]
  <2>1. \A e \in 0 .. Epd : e \in Nat /\ e <= Epd
    BY <1>1
  <2> QED
    BY <1>7, <1>8, <2>1
<1> QED
  BY <1>5, <1>6, <1>9

LEMMA ScanGrows ==
  ASSUME NEW n \in [LocalExperts -> Nat], NEW d \in 0 .. Epd, NEW e \in 0 .. Epd, d <= e
  PROVE  Scan(n)[d] <= Scan(n)[e]
<1> DEFINE good == {j \in Nat : j <= Epd /\ d <= j => Scan(n)[d] <= Scan(n)[j]}
<1>0. Epd \in Nat /\ Scan(n) \in [0 .. Epd -> Nat] /\ d \in Nat /\ e \in Nat
  BY ScanIs, Sizes
<1>1. 0 \in good
  BY <1>0
<1>2. ASSUME NEW k \in Nat, k \in good PROVE k + 1 \in good
  <2> SUFFICES ASSUME k + 1 <= Epd, d <= k + 1 PROVE Scan(n)[d] <= Scan(n)[k + 1]
    OBVIOUS
  <2>1. CASE d = k + 1
    BY <1>0, <2>1
  <2>2. CASE d # k + 1
    <3>1. k \in LocalExperts /\ k \in 0 .. Epd /\ d <= k
      BY <1>0, <2>2 DEF LocalExperts
    <3>2. Scan(n)[d] <= Scan(n)[k] /\ Scan(n)[k] \in Nat /\ Scan(n)[d] \in Nat /\ n[k] \in Nat
      BY <1>0, <1>2, <3>1
    <3>3. Scan(n)[k + 1] = Scan(n)[k] + n[k]
      BY <3>1, ScanIs
    <3> QED
      BY <3>2, <3>3
  <2> QED
    BY <2>1, <2>2
<1> HIDE DEF good
<1>3. e \in good
  BY <1>0, <1>1, <1>2, Induction
<1> QED
  BY <1>0, <1>3 DEF good

(* Each number below the total is in the bucket of exactly one expert. *)
LEMMA OneBucket ==
  ASSUME NEW n \in [LocalExperts -> Nat]
  PROVE  /\ \A d, e \in LocalExperts, pos \in Int :
              /\ Scan(n)[d] <= pos /\ pos < Scan(n)[d + 1]
              /\ Scan(n)[e] <= pos /\ pos < Scan(n)[e + 1]
              => d = e
         /\ \A pos \in 0 .. Scan(n)[Epd] - 1 : \E e \in LocalExperts :
              Scan(n)[e] <= pos /\ pos < Scan(n)[e + 1]
<1>0. Epd \in Nat \ {0} /\ Scan(n) \in [0 .. Epd -> Nat]
  BY ScanIs, Sizes
<1>1. \A e \in LocalExperts : e \in Nat /\ e \in 0 .. Epd /\ e + 1 \in 0 .. Epd
  BY <1>0 DEF LocalExperts
<1>2. ASSUME NEW d \in LocalExperts, NEW e \in LocalExperts, NEW pos \in Int, d < e,
             pos < Scan(n)[d + 1], Scan(n)[e] <= pos
      PROVE  FALSE
  <2>1. d + 1 <= e
    BY <1>1, <1>2
  <2>2. Scan(n)[d + 1] <= Scan(n)[e]
    BY <1>1, <2>1, ScanGrows
  <2> QED
    BY <1>0, <1>1, <1>2, <2>2
<1>3. ASSUME NEW pos \in 0 .. Scan(n)[Epd] - 1
      PROVE  \E e \in LocalExperts : Scan(n)[e] <= pos /\ pos < Scan(n)[e + 1]
  <2> DEFINE T == {j \in 0 .. Epd : pos < Scan(n)[j]}
  <2>1. Epd \in T
    BY <1>0
  <2>2. T \in SUBSET Nat /\ T # {}
    BY <1>0, <2>1
  <2>3. PICK j \in T : \A i \in T : j <= i
    BY <2>2, LeastNumber
  <2>4. j # 0
    BY <2>3, ScanIs
  <2>5. j - 1 \in LocalExperts /\ j - 1 \in 0 .. Epd /\ j - 1 \notin T /\ (j - 1) + 1 = j
    BY <1>0, <2>3, <2>4 DEF LocalExperts
  <2>6. Scan(n)[j - 1] <= pos /\ pos < Scan(n)[j]
    BY <1>0, <2>3, <2>5
  <2> QED
    BY <2>5, <2>6
<1> QED
  BY <1>1, <1>2, <1>3
-----------------------------------------------------------------------------
LEMMA RoutedTypes ==
  ASSUME TypeInv, NEW r \in Ranks, NEW b \in Rows
  PROVE  /\ K \in Nat /\ r \in Nat /\ r * Epd \in Nat /\ b \in Nat
         /\ LocalOf(r, b) \in SUBSET (1 .. K) /\ IsFiniteSet(LocalOf(r, b))
         /\ \A k \in LocalOf(r, b) : routed[b][k] \in Nat /\ routed[b][k] - r * Epd \in LocalExperts
         /\ Needs(r, routed[b]) <=> LocalOf(r, b) # {}
<1>1. K \in Nat /\ \A tk \in TopkChoices : tk \in Seq(Nat) /\ Len(tk) = K
  BY RoutingAssumption DEF K
<1>2. r \in Nat /\ r * Epd \in Nat /\ (r + 1) * Epd = r * Epd + Epd /\ Epd \in Nat
  BY Sizes, ProductNat DEF Ranks
<1>3. routed[b] \in TopkChoices \/ routed[b] = <<-1>>
  BY DEF TypeInv, Finished
<1> DEFINE InRange == /\ LocalOf(r, b) \in SUBSET (1 .. K)
                     /\ \A k \in LocalOf(r, b) : /\ routed[b][k] \in Nat
                                                 /\ routed[b][k] - r * Epd \in LocalExperts
<1>4. ASSUME routed[b] \in TopkChoices PROVE InRange
  <2>1. routed[b] \in Seq(Nat) /\ Len(routed[b]) = K
    BY <1>1, <1>4
  <2>2. DOMAIN routed[b] = 1 .. K /\ \A k \in 1 .. K : routed[b][k] \in Nat
    BY <2>1
  <2>3. LocalOf(r, b) \in SUBSET (1 .. K)
    BY <2>2 DEF LocalOf
  <2>4. \A k \in LocalOf(r, b) : routed[b][k] \in Nat /\ routed[b][k] - r * Epd \in LocalExperts
    BY <1>2, <2>2, <2>3 DEF LocalOf, Owns, LocalExperts
  <2> QED
    BY <2>3, <2>4
<1>5. ASSUME routed[b] = <<-1>> PROVE InRange
  <2>1. LocalOf(r, b) = {}
    BY <1>2, <1>5 DEF LocalOf, Owns
  <2> QED
    BY <2>1
<1>6. IsFiniteSet(1 .. K)
  <2>1. 1 \in Int /\ K \in Int
    BY <1>1
  <2> QED
    BY <2>1, FS_Interval
<1>7. b \in Nat
  <2>1. EP * BatchSize \in Nat
    BY Sizes
  <2> QED
    BY <2>1 DEF Rows
<1> QED
  <2>1. InRange
    BY <1>3, <1>4, <1>5
  <2>2. IsFiniteSet(LocalOf(r, b))
    BY <1>6, <2>1, FS_Subset
  <2>3. Needs(r, routed[b]) <=> LocalOf(r, b) # {}
    BY DEF Needs, LocalOf
  <2> QED
    BY <1>1, <1>2, <1>7, <2>1, <2>2, <2>3

LEMMA PairFacts ==
  ASSUME TypeInv, NEW r \in Ranks
  PROVE  /\ \A p \in RoutedPairs(r) :
              /\ p.row \in Rows /\ p.k \in LocalOf(r, p.row) /\ p.expert \in LocalExperts
              /\ p = PairOf(r, p.row, p.k) /\ p.expert + r * Epd = routed[p.row][p.k]
         /\ \A b \in Rows : \A k \in LocalOf(r, b) : PairOf(r, b, k) \in RoutedPairs(r)
         /\ IsFiniteSet(RoutedPairs(r)) /\ Cardinality(RoutedPairs(r)) \in Nat
         /\ MaxPairs \in Nat /\ Cardinality(RoutedPairs(r)) <= MaxPairs
<1> DEFINE all == Rows \X (1 .. K)
           own == {p \in all : p[2] \in LocalOf(r, p[1])}
           f == [q \in own |-> PairOf(r, q[1], q[2])]
<1>1. K \in Nat /\ EP * BatchSize \in Nat
  <2>1. EP * BatchSize \in Nat
    BY Sizes
  <2> QED
    BY <2>1, RoutingAssumption DEF K
<1>2. \A p \in RoutedPairs(r) : \E q \in own : p = PairOf(r, q[1], q[2])
  BY DEF RoutedPairs
<1>3. ASSUME NEW p \in RoutedPairs(r)
      PROVE  /\ p.row \in Rows /\ p.k \in LocalOf(r, p.row) /\ p.expert \in LocalExperts
             /\ p = PairOf(r, p.row, p.k) /\ p.expert + r * Epd = routed[p.row][p.k]
  <2>1. PICK q \in own : p = PairOf(r, q[1], q[2])
    BY <1>2
  <2>2. q[1] \in Rows /\ q[2] \in LocalOf(r, q[1])
    OBVIOUS
  <2>3. p.row = q[1] /\ p.k = q[2] /\ p.expert = routed[q[1]][q[2]] - r * Epd
    BY <2>1 DEF PairOf
  <2>4. routed[q[1]][q[2]] - r * Epd \in LocalExperts /\ r * Epd \in Nat
    BY <2>2, RoutedTypes
  <2>5. p.expert + r * Epd = routed[q[1]][q[2]]
    <3>1. routed[q[1]][q[2]] \in Nat
      BY <2>2, RoutedTypes
    <3> QED
      BY <2>3, <2>4, <3>1
  <2> QED
    BY <2>1, <2>2, <2>3, <2>4, <2>5
<1>4. \A b \in Rows : \A k \in LocalOf(r, b) : PairOf(r, b, k) \in RoutedPairs(r)
  <2> SUFFICES ASSUME NEW b \in Rows, NEW k \in LocalOf(r, b) PROVE PairOf(r, b, k) \in RoutedPairs(r)
    OBVIOUS
  <2>1. k \in 1 .. K
    BY RoutedTypes
  <2>2. <<b, k>> \in own /\ <<b, k>>[1] = b /\ <<b, k>>[2] = k
    BY <2>1
  <2> QED
    BY <2>2 DEF RoutedPairs
<1>5. IsFiniteSet(all) /\ Cardinality(all) = MaxPairs /\ MaxPairs \in Nat
  <2>1. IsFiniteSet(Rows) /\ Cardinality(Rows) = EP * BatchSize
    <3>1. 0 \in Int /\ EP * BatchSize - 1 \in Int
      BY <1>1
    <3> QED
      BY <1>1, <3>1, FS_Interval DEF Rows
  <2>2. IsFiniteSet(1 .. K) /\ Cardinality(1 .. K) = K
    <3>1. 1 \in Int /\ K \in Int
      BY <1>1
    <3> QED
      BY <1>1, <3>1, FS_Interval
  <2>3. MaxPairs = EP * BatchSize * K
    BY DEF MaxPairs, K
  <2>4. EP * BatchSize * K \in Nat
    BY <1>1, ProductNat
  <2> QED
    BY <2>1, <2>2, <2>3, <2>4, FS_Product
<1>6. IsFiniteSet(own) /\ Cardinality(own) <= MaxPairs /\ Cardinality(own) \in Nat
  <2>1. own \in SUBSET all
    OBVIOUS
  <2> HIDE DEF own, all
  <2> QED
    BY <1>5, <2>1, FS_Subset, FS_CardinalityType
<1>7. f \in Surjection(own, RoutedPairs(r))
  BY <1>2 DEF Surjection, RoutedPairs
<1>8. IsFiniteSet(RoutedPairs(r)) /\ Cardinality(RoutedPairs(r)) <= Cardinality(own)
  <2> HIDE DEF own, f
  <2> QED
    BY <1>6, <1>7, FS_Surjection
<1>9. Cardinality(RoutedPairs(r)) \in Nat
  BY <1>8, FS_CardinalityType
<1> QED
  BY <1>3, <1>4, <1>5, <1>6, <1>8, <1>9

(* The buckets together are as long as there are pairs. *)
LEMMA Counted ==
  ASSUME NEW pairs, IsFiniteSet(pairs), \A p \in pairs : p.expert \in LocalExperts
  PROVE  /\ CountOf(pairs) \in [LocalExperts -> Nat]
         /\ Scan(CountOf(pairs))[Epd] = Cardinality(pairs)
<1> DEFINE n == CountOf(pairs)
           lower(e) == {p \in pairs : p.expert < e}
           same(e) == {p \in pairs : p.expert = e}
<1>0. Epd \in Nat \ {0} /\ \A e \in LocalExperts : e \in Nat
  BY Sizes DEF LocalExperts
<1>1. \A e : /\ IsFiniteSet(lower(e)) /\ IsFiniteSet(same(e))
             /\ Cardinality(lower(e)) \in Nat /\ Cardinality(same(e)) \in Nat
  BY FS_Subset, FS_CardinalityType
<1>2. n \in [LocalExperts -> Nat] /\ \A e \in LocalExperts : n[e] = Cardinality(same(e))
  BY <1>1 DEF CountOf
<1>3. \A e \in LocalExperts : Cardinality(lower(e + 1)) = Cardinality(lower(e)) + Cardinality(same(e))
  <2> SUFFICES ASSUME NEW e \in LocalExperts
               PROVE  Cardinality(lower(e + 1)) = Cardinality(lower(e)) + Cardinality(same(e))
    OBVIOUS
  <2>1. \A p \in pairs : /\ p.expert < e + 1 <=> p.expert < e \/ p.expert = e
                         /\ ~(p.expert < e /\ p.expert = e)
    BY <1>0
  <2>2. lower(e) \cup same(e) = lower(e + 1) /\ lower(e) \cap same(e) = {}
    BY <2>1
  <2> HIDE DEF lower, same
  <2>3. Cardinality(lower(e) \cup same(e))
          = Cardinality(lower(e)) + Cardinality(same(e)) - Cardinality(lower(e) \cap same(e))
    BY <1>1, FS_Union
  <2>4. Cardinality(lower(e) \cap same(e)) = 0
    BY <2>2, FS_EmptySet
  <2>5. Cardinality(lower(e) \cup same(e)) = Cardinality(lower(e + 1))
    BY <2>2, Zenon
  <2> QED
    BY <1>1, <2>3, <2>4, <2>5
<1> HIDE DEF n
<1> DEFINE good == {j \in Nat : j <= Epd => Scan(n)[j] = Cardinality(lower(j))}
<1>4. 0 \in good
  <2>1. \A p \in pairs : ~(p.expert < 0)
    BY <1>0
  <2>2. lower(0) = {}
    BY <2>1
  <2>3. Cardinality(lower(0)) = 0
    BY <2>2, FS_EmptySet
  <2> QED
    BY <1>2, <2>3, ScanIs
<1>5. ASSUME NEW j \in Nat, j \in good PROVE j + 1 \in good
  <2> HIDE DEF lower, same
  <2>1. ASSUME j + 1 <= Epd PROVE Scan(n)[j + 1] = Cardinality(lower(j + 1))
    <3>1. j \in LocalExperts /\ j <= Epd
      BY <1>0, <2>1 DEF LocalExperts
    <3>2. Scan(n)[j + 1] = Scan(n)[j] + n[j]
      BY <1>2, <3>1, ScanIs
    <3> QED
      BY <1>2, <1>3, <1>5, <3>1, <3>2
  <2> QED
    BY <2>1
<1> HIDE DEF good
<1>6. Epd \in good
  BY <1>0, <1>4, <1>5, Induction
<1>7. lower(Epd) = pairs
  <2>1. \A p \in pairs : p.expert < Epd
    BY <1>0 DEF LocalExperts
  <2> QED
    BY <2>1
<1> QED
  BY <1>2, <1>6, <1>7 DEF good, n

LEMMA ExpertRange ==
  \A e \in LocalExperts : e \in Nat /\ e \in 0 .. Epd /\ e + 1 \in 0 .. Epd
BY Sizes DEF LocalExperts

LEMMA BlocksHold ==
  ASSUME NEW n \in Nat
  PROVE  /\ Blocks(n) \in Nat
         /\ n <= Blocks(n) * BM /\ Blocks(n) * BM <= n + BM - 1
<1> DEFINE a == n + BM - 1
           q == a \div BM
<1>1. BM \in Nat \ {0} /\ a \in Nat
  BY Sizes
<1>2. q \in Nat /\ a % BM \in 0 .. BM - 1 /\ a = q * BM + (a % BM)
  <2> HIDE DEF a
  <2> QED
    BY <1>1, Division
<1>3. q * BM \in Nat
  BY <1>1, <1>2, ProductNat
<1>4. Blocks(n) = q
  BY DEF Blocks
<1> HIDE DEF q
<1> QED
  BY <1>1, <1>2, <1>3, <1>4

(* The grid's bound from constants is enough for the blocks of all experts. *)
LEMMA GridSuffices ==
  ASSUME NEW pairs, IsFiniteSet(pairs), \A p \in pairs : p.expert \in LocalExperts,
         MaxPairs \in Nat, Cardinality(pairs) <= MaxPairs
  PROVE  /\ BlocksOf(pairs) \in [LocalExperts -> Nat]
         /\ \A by \in Nat : by < Scan(BlocksOf(pairs))[Epd] => by \in Grid
<1> DEFINE n == CountOf(pairs)
           m == BlocksOf(pairs)
           off == Scan(n)
           blk == Scan(m)
<1>0. Epd \in Nat \ {0} /\ BM \in Nat \ {0}
  BY Sizes
<1>1. n \in [LocalExperts -> Nat] /\ off[Epd] = Cardinality(pairs)
  BY Counted
<1>2. m \in [LocalExperts -> Nat] /\ \A e \in LocalExperts : m[e] = Blocks(n[e])
  BY <1>1, BlocksHold DEF BlocksOf
<1>3. off \in [0 .. Epd -> Nat] /\ blk \in [0 .. Epd -> Nat] /\ off[0] = 0 /\ blk[0] = 0
  BY <1>1, <1>2, ScanIs
<1>4. \A e \in LocalExperts : /\ e \in 0 .. Epd /\ e + 1 \in 0 .. Epd
                              /\ off[e + 1] = off[e] + n[e] /\ blk[e + 1] = blk[e] + m[e]
  BY <1>1, <1>2, ExpertRange, ScanIs
<1> HIDE DEF n, m, off, blk
<1> DEFINE good == {j \in Nat : j <= Epd => blk[j] * BM <= off[j] + j * (BM - 1)}
<1>5. 0 \in good
  BY <1>0, <1>3
<1>6. ASSUME NEW j \in Nat, j \in good PROVE j + 1 \in good
  <2>1. ASSUME j + 1 <= Epd PROVE blk[j + 1] * BM <= off[j + 1] + (j + 1) * (BM - 1)
    <3>1. j \in LocalExperts /\ j \in 0 .. Epd
      BY <1>0, <2>1 DEF LocalExperts
    <3>2. blk[j] * BM <= off[j] + j * (BM - 1)
      BY <1>0, <1>6, <2>1
    <3>3. m[j] * BM <= n[j] + BM - 1 /\ n[j] \in Nat /\ m[j] \in Nat
      BY <1>1, <1>2, <3>1, BlocksHold
    <3>4. blk[j] \in Nat /\ off[j] \in Nat
      BY <1>3, <3>1
    <3>5. (blk[j] + m[j]) * BM = blk[j] * BM + m[j] * BM
          /\ (j + 1) * (BM - 1) = j * (BM - 1) + BM - 1
          /\ blk[j] * BM \in Nat /\ m[j] * BM \in Nat /\ j * (BM - 1) \in Nat
      <4>1. \A a, b, c \in Nat : (a + b) * c = a * c + b * c
        OBVIOUS
      <4>2. BM - 1 \in Nat
        BY <1>0
      <4> QED
        BY <1>0, <3>3, <3>4, <4>1, <4>2, ProductNat
    <3> QED
      BY <1>0, <1>4, <3>1, <3>2, <3>3, <3>4, <3>5
  <2> QED
    BY <2>1
<1> HIDE DEF good
<1>7. Epd \in good
  BY <1>0, <1>5, <1>6, Induction
<1> DEFINE Q == (MaxPairs + BM - 1) \div BM
<1>8. Q \in Nat /\ MaxPairs <= Q * BM /\ Grid = 0 .. Q + Epd - 1
  BY BlocksHold DEF Blocks, Grid
<1> HIDE DEF Q
<1>9. blk[Epd] * BM <= Q * BM + Epd * (BM - 1) /\ blk[Epd] \in Nat
  BY <1>0, <1>1, <1>3, <1>7, <1>8, ProductNat DEF good
<1>10. blk[Epd] <= Q + Epd
  <2> SUFFICES ASSUME Q + Epd < blk[Epd] PROVE FALSE
    BY <1>0, <1>8, <1>9
  <2>1. (Q + Epd) * BM + BM <= blk[Epd] * BM
    BY <1>0, <1>8, <1>9, NextMultiple
  <2>2. (Q + Epd) * BM = Q * BM + Epd * BM /\ Epd * (BM - 1) = Epd * BM - Epd
        /\ Q * BM \in Nat /\ Epd * BM \in Nat
    BY <1>0, <1>8, ProductNat
  <2>3. blk[Epd] * BM \in Nat
    BY <1>0, <1>9, ProductNat
  <2> QED
    BY <1>0, <1>9, <2>1, <2>2, <2>3
<1>11. \A by \in Nat : by < blk[Epd] => by \in Grid
  BY <1>0, <1>8, <1>9, <1>10
<1> QED
  BY <1>2, <1>11 DEF m, blk

(* Bisection of blk_offsets finds the last expert that starts by then. *)
LEMMA ExpertIs ==
  ASSUME NEW r, NEW m \in [LocalExperts -> Nat], bucket[r].block = Scan(m), NEW by \in Nat
  PROVE  /\ ExpertOf(r, by) \in LocalExperts /\ Scan(m)[ExpertOf(r, by)] <= by
         /\ \A e \in LocalExperts : Scan(m)[e] <= by => e <= ExpertOf(r, by)
<1> DEFINE T == {e \in LocalExperts : Scan(m)[e] <= by}
<1>1. Epd \in Nat \ {0} /\ Scan(m)[0] = 0
  BY Sizes, ScanIs
<1>2. 0 \in T /\ T \in SUBSET Int
  BY <1>1 DEF LocalExperts
<1>3. IsFiniteSet(T)
  <2>1. 0 \in Int /\ Epd - 1 \in Int
    BY <1>1
  <2>2. IsFiniteSet(LocalExperts)
    BY <2>1, FS_Interval DEF LocalExperts
  <2> QED
    BY <2>2, FS_Subset
<1>4. ExpertOf(r, by) = Max(T)
  BY DEF ExpertOf
<1> HIDE DEF T
<1>5. Max(T) \in T /\ \A e \in T : Max(T) >= e
  BY <1>2, <1>3, LargestNumber
<1> QED
  BY <1>2, <1>4, <1>5 DEF T

(* A place of an expert's bucket is in exactly one block of the grid, and  *)
(* that block has the weights of the expert.                               *)
LEMMA BlockOfPlace ==
  ASSUME NEW r, NEW pairs, IsFiniteSet(pairs), \A p \in pairs : p.expert \in LocalExperts,
         MaxPairs \in Nat, Cardinality(pairs) <= MaxPairs,
         bucket[r] = BucketOf(pairs), NEW e \in LocalExperts,
         NEW pos \in bucket[r].offset[e] .. bucket[r].offset[e + 1] - 1
  PROVE  \E by \in Grid : /\ ExpertOf(r, by) = e
                          /\ \A c \in Grid : pos \in PositionsOf(r, c) <=> c = by
<1> DEFINE n == CountOf(pairs)
           m == BlocksOf(pairs)
           off == Scan(n)
           blk == Scan(m)
           t == pos - off[e]
           q == t \div BM
           by == blk[e] + q
<1>0. Epd \in Nat \ {0} /\ BM \in Nat \ {0} /\ Grid \in SUBSET Nat
  <2>1. MaxPairs + BM - 1 \in Nat
    BY Sizes
  <2>2. (MaxPairs + BM - 1) \div BM \in Nat
    BY <2>1, Sizes, Division
  <2> QED
    BY <2>2, Sizes DEF Grid
<1>1. n \in [LocalExperts -> Nat] /\ m \in [LocalExperts -> Nat]
      /\ \A d \in LocalExperts : m[d] = Blocks(n[d])
  BY Counted, GridSuffices DEF BlocksOf
<1>2. bucket[r].offset = off /\ bucket[r].block = blk
  BY DEF BucketOf, CountOf, BlocksOf
<1>3. off \in [0 .. Epd -> Nat] /\ blk \in [0 .. Epd -> Nat]
  BY <1>1, ScanIs
<1>4. \A d \in LocalExperts : /\ d \in Nat /\ d \in 0 .. Epd /\ d + 1 \in 0 .. Epd
                              /\ off[d + 1] = off[d] + n[d] /\ blk[d + 1] = blk[d] + m[d]
  BY <1>1, ExpertRange, ScanIs
<1>5. pos \in Int /\ off[e] <= pos /\ pos < off[e + 1]
  BY <1>2, <1>3, <1>4
<1>6. \A c \in Nat : /\ ExpertOf(r, c) \in LocalExperts /\ blk[ExpertOf(r, c)] <= c
                     /\ \A d \in LocalExperts : blk[d] <= c => d <= ExpertOf(r, c)
  BY <1>1, <1>2, ExpertIs
<1>7. \A c \in Nat : LET d == ExpertOf(r, c)
                         first == off[d] + (c - blk[d]) * BM
                     IN  PositionsOf(r, c) =
                           first .. (IF first + BM <= off[d + 1] THEN first + BM ELSE off[d + 1]) - 1
  <2> SUFFICES ASSUME NEW c \in Nat
               PROVE  LET d == ExpertOf(r, c)
                          first == off[d] + (c - blk[d]) * BM
                      IN  PositionsOf(r, c) =
                            first .. (IF first + BM <= off[d + 1] THEN first + BM ELSE off[d + 1]) - 1
    OBVIOUS
  <2> DEFINE d == ExpertOf(r, c)
             first == off[d] + (c - blk[d]) * BM
  <2>0. d \in LocalExperts /\ blk[d] <= c
    BY <1>6
  <2>1. off[d] \in Nat /\ blk[d] \in Nat /\ off[d + 1] \in Nat /\ c - blk[d] \in Nat
    <3> HIDE DEF d, off, blk
    <3> QED
      BY <1>3, <1>4, <2>0
  <2>2. (c - blk[d]) * BM \in Nat
    BY <1>0, <2>1, ProductNat
  <2>3. first + BM \in Int
    BY <1>0, <2>1, <2>2
  <2>4. PositionsOf(r, c) = first .. Min({first + BM, off[d + 1]}) - 1
    BY <1>2 DEF PositionsOf
  <2> HIDE DEF first, d
  <2>5. Min({first + BM, off[d + 1]}) = IF first + BM <= off[d + 1] THEN first + BM ELSE off[d + 1]
    BY <2>1, <2>3, MinOfTwo
  <2> QED
    BY <2>4, <2>5 DEF first, d
<1>8. t \in Nat /\ t < n[e] /\ pos = off[e] + t /\ off[e] \in Nat
  BY <1>1, <1>3, <1>4, <1>5
<1>9. q \in Nat /\ t % BM \in 0 .. BM - 1 /\ t = q * BM + (t % BM) /\ q * BM \in Nat
  <2> HIDE DEF t
  <2>1. q \in Nat /\ t % BM \in 0 .. BM - 1 /\ t = q * BM + (t % BM)
    BY <1>0, <1>8, Division
  <2> HIDE DEF q
  <2> QED
    BY <1>0, <2>1, ProductNat
<1>10. q < m[e]
  <2>1. m[e] \in Nat /\ n[e] <= m[e] * BM
    BY <1>1, BlocksHold
  <2> HIDE DEF q, t, m, n
  <2>2. ASSUME m[e] <= q PROVE FALSE
    <3>1. m[e] * BM \in Nat /\ m[e] * BM <= q * BM
      <4>1. CASE m[e] = q
        BY <1>9, <4>1
      <4>2. CASE m[e] < q
        BY <1>0, <1>9, <2>1, <4>2, NextMultiple, ProductNat
      <4> QED
        BY <1>9, <2>1, <2>2, <4>1, <4>2
    <3> QED
      BY <1>0, <1>1, <1>8, <1>9, <2>1, <3>1
  <2> QED
    BY <1>9, <2>1, <2>2
<1>11. by \in Nat /\ blk[e] \in Nat /\ blk[e] <= by /\ by < blk[e + 1]
  <2> HIDE DEF q, m, blk
  <2>1. e \in 0 .. Epd /\ blk[e + 1] = blk[e] + m[e]
    BY <1>4
  <2>2. blk[e] \in Nat /\ m[e] \in Nat
    BY <1>1, <1>3, <2>1
  <2>3. q \in Nat /\ q < m[e]
    BY <1>9, <1>10
  <2> QED
    BY <2>1, <2>2, <2>3
<1>12. ExpertOf(r, by) = e
  <2> DEFINE d == ExpertOf(r, by)
  <2>1. d \in LocalExperts /\ blk[d] <= by /\ e <= d
    BY <1>6, <1>11
  <2> HIDE DEF by, d
  <2>2. ASSUME e + 1 <= d PROVE FALSE
    <3>1. blk[e + 1] <= blk[d]
      BY <1>1, <1>4, <2>1, <2>2, ScanGrows
    <3> QED
      BY <1>3, <1>4, <1>11, <2>1, <3>1
  <2> QED
    BY <1>4, <2>1, <2>2 DEF d
<1>13. by \in Grid
  <2>1. blk[e + 1] <= blk[Epd] /\ Epd \in 0 .. Epd
    <3>1. Epd \in 0 .. Epd /\ e + 1 <= Epd
      BY <1>0, <1>4
    <3> QED
      BY <1>1, <1>4, <3>1, ScanGrows
  <2>2. by < blk[Epd]
    <3> HIDE DEF by
    <3> QED
      BY <1>3, <1>4, <1>11, <2>1
  <2> QED
    BY <1>11, <2>2, GridSuffices
<1>14. pos \in PositionsOf(r, by)
  <2> DEFINE first == off[e] + (by - blk[e]) * BM
  <2>1. PositionsOf(r, by) = first .. (IF first + BM <= off[e + 1] THEN first + BM ELSE off[e + 1]) - 1
    BY <1>7, <1>11, <1>12
  <2>2. by - blk[e] = q
    BY <1>9, <1>11
  <2>3. first = off[e] + q * BM
    BY <2>2
  <2>4. off[e + 1] \in Nat
    BY <1>3, <1>4
  <2>5. PICK p \in Nat, i \in 0 .. BM - 1 : p = q * BM /\ t = p + i
    BY <1>9
  <2> HIDE DEF first, q, t, by, off, blk
  <2>6. first = off[e] + p /\ pos = first + i /\ pos < off[e + 1]
    BY <1>5, <1>8, <2>3, <2>5
  <2>7. first <= pos /\ pos <= first + BM - 1 /\ pos <= off[e + 1] - 1 /\ pos \in Int /\ first \in Int
    BY <1>0, <1>8, <2>4, <2>5, <2>6
  <2>8. CASE first + BM <= off[e + 1]
    BY <1>0, <2>1, <2>7, <2>8
  <2>9. CASE ~(first + BM <= off[e + 1])
    BY <2>1, <2>4, <2>7, <2>9
  <2> QED
    BY <2>8, <2>9
<1>15. ASSUME NEW c \in Grid, pos \in PositionsOf(r, c) PROVE c = by
  <2> DEFINE d == ExpertOf(r, c)
             u == c - blk[d]
             first == off[d] + u * BM
  <2>1. c \in Nat /\ d \in LocalExperts /\ blk[d] <= c
    BY <1>0, <1>6
  <2>2. /\ off[d] \in Nat /\ blk[d] \in Nat /\ off[d + 1] \in Nat /\ u \in Nat
    BY <1>3, <1>4, <2>1
  <2>3. pos \in first .. (IF first + BM <= off[d + 1] THEN first + BM ELSE off[d + 1]) - 1
    BY <1>7, <1>15, <2>1
  <2> HIDE DEF d, u
  <2>4. u * BM \in Nat
    BY <1>0, <2>2, ProductNat
  <2>5. off[d] <= pos /\ pos < off[d + 1] /\ first <= pos /\ pos < first + BM
    BY <1>0, <1>5, <2>2, <2>3, <2>4
  <2>6. d = e
    BY <1>1, <1>5, <2>1, <2>5, OneBucket
  <2>7. pos - off[e] = u * BM + (pos - first) /\ pos - first \in 0 .. BM - 1
    BY <1>0, <1>5, <2>2, <2>4, <2>5, <2>6
  <2> DEFINE i == pos - first
  <2>8. i \in 0 .. BM - 1 /\ t = u * BM + i
    BY <2>7
  <2> HIDE DEF i, first, t
  <2>9. q = u
    BY <1>0, <2>2, <2>8, DivisionUnique
  <2> HIDE DEF q
  <2> QED
    BY <1>11, <2>1, <2>2, <2>6, <2>9 DEF u
<1> QED
  BY <1>12, <1>13, <1>14, <1>15
-----------------------------------------------------------------------------
(* Stages by their numbers. *)
LEMMA StageNumbers ==
  ASSUME NEW m \in 1 .. 6
  PROVE  /\ Stages[m] = "lists" <=> m = 1
         /\ Stages[m] = "pull" <=> m = 2
         /\ Stages[m] = "place" <=> m = 3
         /\ Stages[m] = "gather" <=> m = 4
         /\ Stages[m] = "reduce" <=> m = 5
         /\ Stages[m] = "done" <=> m = 6
         /\ (\E i \in 1 .. m - 1 : Stages[i] = "lists") <=> m > 1
         /\ (\E i \in 1 .. m - 1 : Stages[i] = "pull") <=> m > 2
         /\ (\E i \in 1 .. m - 1 : Stages[i] = "place") <=> m > 3
         /\ (\E i \in 1 .. m - 1 : Stages[i] = "gather") <=> m > 4
         /\ (\E i \in 1 .. m - 1 : Stages[i] = "reduce") <=> m > 5
<1>1. /\ Stages[1] = "lists" /\ Stages[2] = "pull" /\ Stages[3] = "place"
      /\ Stages[4] = "gather" /\ Stages[5] = "reduce" /\ Stages[6] = "done"
  BY DEF Stages
<1>2. \A i \in 1 .. m - 1 : i = 1 \/ i = 2 \/ i = 3 \/ i = 4 \/ i = 5
  OBVIOUS
<1>3. m = 1 \/ m = 2 \/ m = 3 \/ m = 4 \/ m = 5 \/ m = 6
  OBVIOUS
<1>4. /\ m > 1 <=> 1 \in 1 .. m - 1
      /\ m > 2 <=> 2 \in 1 .. m - 1
      /\ m > 3 <=> 3 \in 1 .. m - 1
      /\ m > 4 <=> 4 \in 1 .. m - 1
      /\ m > 5 <=> 5 \in 1 .. m - 1
  OBVIOUS
<1> QED
  BY <1>1, <1>2, <1>3, <1>4

LEMMA StageFacts ==
  ASSUME TypeInv, NEW r \in Ranks
  PROVE  /\ stage[r] \in 1 .. 6
         /\ At(r, "lists") <=> stage[r] = 1
         /\ At(r, "pull") <=> stage[r] = 2
         /\ At(r, "place") <=> stage[r] = 3
         /\ At(r, "gather") <=> stage[r] = 4
         /\ At(r, "reduce") <=> stage[r] = 5
         /\ At(r, "done") <=> stage[r] = 6
         /\ Done(r, "lists") <=> stage[r] > 1
         /\ Done(r, "pull") <=> stage[r] > 2
         /\ Done(r, "place") <=> stage[r] > 3
         /\ Done(r, "gather") <=> stage[r] > 4
         /\ Done(r, "reduce") <=> stage[r] > 5
<1>1. stage[r] \in 1 .. 6
  BY DEF TypeInv
<1> QED
  BY <1>1, StageNumbers DEF At, Done

(* A rank that has done a stage is at the next one, and the others where   *)
(* they were.                                                              *)
LEMMA NextFacts ==
  ASSUME TypeInv, NEW r \in Ranks, NextStage(r), stage[r] < 6
  PROVE  /\ stage' \in [Ranks -> 1 .. 6] /\ stage'[r] = stage[r] + 1
         /\ \A q \in Ranks : q # r => stage'[q] = stage[q]
         /\ \A q \in Ranks : /\ Done(q, "lists")' <=> stage'[q] > 1
                             /\ Done(q, "pull")' <=> stage'[q] > 2
                             /\ Done(q, "place")' <=> stage'[q] > 3
                             /\ Done(q, "gather")' <=> stage'[q] > 4
                             /\ Done(q, "reduce")' <=> stage'[q] > 5
<1>1. stage \in [Ranks -> 1 .. 6] /\ stage' = [stage EXCEPT ![r] = @ + 1]
  BY DEF TypeInv, NextStage
<1>2. /\ stage' \in [Ranks -> 1 .. 6] /\ stage'[r] = stage[r] + 1
      /\ \A q \in Ranks : q # r => stage'[q] = stage[q]
  BY <1>1
<1>3. \A q \in Ranks : stage'[q] \in 1 .. 6
  BY <1>2
<1> QED
  BY <1>2, <1>3, StageNumbers DEF Done

LEMMA RowFacts ==
  /\ \A b \in Rows : /\ b \in Nat /\ SliceOf(b) \in Ranks
                     /\ b - SliceOf(b) * BatchSize \in InSlice
                     /\ RowOf(SliceOf(b), b - SliceOf(b) * BatchSize) = b
  /\ \A s \in Ranks : \A i \in InSlice :
       /\ RowOf(s, i) \in Rows /\ SliceOf(RowOf(s, i)) = s
       /\ RowOf(s, i) - s * BatchSize = i
<1>0. EP \in Nat /\ BatchSize \in Nat \ {0} /\ EP * BatchSize \in Nat
  BY Sizes
<1>1. ASSUME NEW b \in Rows
      PROVE  /\ b \in Nat /\ SliceOf(b) \in Ranks
             /\ b - SliceOf(b) * BatchSize \in InSlice
             /\ RowOf(SliceOf(b), b - SliceOf(b) * BatchSize) = b
  <2> DEFINE s == SliceOf(b)
             i == b % BatchSize
  <2>1. b \in Nat /\ b < EP * BatchSize
    BY <1>0 DEF Rows
  <2>2. s \in Nat /\ i \in 0 .. BatchSize - 1 /\ b = s * BatchSize + i
    BY <1>0, <2>1, Division DEF SliceOf
  <2> HIDE DEF s, i
  <2>3. s * BatchSize \in Nat
    BY <1>0, <2>2, ProductNat
  <2>4. s < EP
    <3> SUFFICES ASSUME EP <= s PROVE FALSE
      BY <1>0, <2>2
    <3>1. EP * BatchSize <= s * BatchSize
      <4>1. CASE EP = s
        BY <2>3, <4>1
      <4>2. CASE EP < s
        BY <1>0, <2>2, <2>3, <4>2, NextMultiple
      <4> QED
        BY <1>0, <2>2, <4>1, <4>2
    <3> QED
      BY <1>0, <2>1, <2>2, <2>3, <3>1
  <2>5. b - s * BatchSize = i
    BY <1>0, <2>1, <2>2, <2>3
  <2> QED
    BY <1>0, <2>1, <2>2, <2>4, <2>5 DEF s, Ranks, InSlice, RowOf
<1>2. ASSUME NEW s \in Ranks, NEW i \in InSlice
      PROVE  /\ RowOf(s, i) \in Rows /\ SliceOf(RowOf(s, i)) = s
             /\ RowOf(s, i) - s * BatchSize = i
  <2>1. s \in Nat /\ s < EP /\ i \in Nat /\ i \in 0 .. BatchSize - 1
    BY <1>0 DEF Ranks, InSlice
  <2>2. s * BatchSize + BatchSize <= EP * BatchSize /\ s * BatchSize \in Nat
    BY <1>0, <2>1, NextMultiple, ProductNat
  <2>3. (s * BatchSize + i) \div BatchSize = s
    BY <1>0, <2>1, DivisionUnique
  <2> QED
    BY <1>0, <2>1, <2>2, <2>3 DEF RowOf, Rows, SliceOf
<1> QED
  BY <1>1, <1>2

(* The routing does not change, nor what is computed from it. *)
LEMMA FixedRouting ==
  ASSUME routed' = routed
  PROVE  /\ \A r, b : LocalOf(r, b)' = LocalOf(r, b) /\ SumFrom(r, b)' = SumFrom(r, b)
         /\ \A r, s : Wanted(r, s)' = Wanted(r, s) /\ ListOf(r, s)' = ListOf(r, s)
         /\ \A r : RoutedPairs(r)' = RoutedPairs(r)
         /\ \A b : Expected(b)' = Expected(b)
<1>1. \A r, b : LocalOf(r, b)' = LocalOf(r, b)
  BY DEF LocalOf
<1>2. \A r, b : SumFrom(r, b)' = SumFrom(r, b)
  BY DEF SumFrom
<1>3. \A r, s : Wanted(r, s)' = Wanted(r, s)
  BY DEF Wanted
<1>4. \A r, s : ListOf(r, s)' = ListOf(r, s)
  BY <1>3 DEF ListOf
<1>5. \A r, b, k : PairOf(r, b, k)' = PairOf(r, b, k)
  BY DEF PairOf
<1>6. \A r : RoutedPairs(r)' = RoutedPairs(r)
  BY <1>1, <1>5 DEF RoutedPairs
<1>7. \A b : Expected(b)' = Expected(b)
  BY <1>2 DEF Expected
<1> QED
  BY <1>1, <1>2, <1>3, <1>4, <1>6, <1>7

(* A rank that does nothing. *)
LEMMA Frame ==
  ASSUME NEW r \in Ranks, RankInv(r), routed' = routed, stage'[r] = stage[r],
         topk'[r] = topk[r], rows'[r] = rows[r], recv'[r] = recv[r], send'[r] = send[r],
         bucket'[r] = bucket[r], place'[r] = place[r], eAgg'[r] = eAgg[r]
  PROVE  RankInv(r)'
<1>1. \A s : Done(r, s)' <=> Done(r, s)
  BY DEF Done
<1>2. Ranks' = Ranks /\ Rows' = Rows
  BY DEF Ranks, Rows
<1>3. TopkInv(r)' /\ RowsInv(r)'
  BY <1>1, <1>2 DEF RankInv, TopkInv, RowsInv
<1>4. RecvInv(r)' /\ SendInv(r)'
  BY <1>1, <1>2, FixedRouting DEF RankInv, RecvInv, SendInv
<1>5. PlaceInv(r)'
  BY <1>1, FixedRouting DEF RankInv, PlaceInv
<1>6. PackedInv(r)'
  BY <1>1, <1>2, FixedRouting DEF RankInv, PackedInv
<1> QED
  BY <1>3, <1>4, <1>5, <1>6 DEF RankInv
-----------------------------------------------------------------------------
(* The pairs a rank reads from a complete top-k. *)
LEMMA PairsRead ==
  ASSUME TypeInv, NEW r \in Ranks, \A b \in Rows : topk[r][b] = routed[b]
  PROVE  /\ \A b \in Rows : NLocal(r, b) = Cardinality(LocalOf(r, b))
         /\ \A b \in Rows : LocalPairs(r, b) =
              [j \in 1 .. Cardinality(LocalOf(r, b)) |-> PairOf(r, b, InOrder(LocalOf(r, b))[j])]
         /\ PairsOf(r) = RoutedPairs(r)
<1>1. \A b \in Rows : Local(r, b) = LocalOf(r, b)
  BY DEF Local, LocalOf
<1>2. \A b \in Rows : NLocal(r, b) = Cardinality(LocalOf(r, b))
  BY <1>1 DEF NLocal
<1>3. ASSUME NEW b \in Rows
      PROVE  LocalPairs(r, b) =
               [j \in 1 .. Cardinality(LocalOf(r, b)) |-> PairOf(r, b, InOrder(LocalOf(r, b))[j])]
  <2>1. LocalPairs(r, b) =
          [j \in 1 .. NLocal(r, b) |->
            [row |-> b, k |-> InOrder(Local(r, b))[j],
             expert |-> topk[r][b][InOrder(Local(r, b))[j]] - r * Epd]]
    BY DEF LocalPairs
  <2>2. Local(r, b) = LocalOf(r, b) /\ NLocal(r, b) = Cardinality(LocalOf(r, b)) /\ topk[r][b] = routed[b]
    BY <1>1, <1>2
  <2> QED
    BY <2>1, <2>2 DEF PairOf
<1>4. \A b \in Rows : \A j \in 1 .. NLocal(r, b) :
        LocalPairs(r, b)[j] = PairOf(r, b, InOrder(LocalOf(r, b))[j])
  BY <1>2, <1>3
<1>5. \A b \in Rows : /\ LocalOf(r, b) \in SUBSET (1 .. K) /\ LocalOf(r, b) \in SUBSET Int
                      /\ IsFiniteSet(LocalOf(r, b))
  BY RoutedTypes
<1>6. \A b \in Rows : \A j \in 1 .. NLocal(r, b) : InOrder(LocalOf(r, b))[j] \in LocalOf(r, b)
  BY <1>2, <1>5, Ordered
<1>7. \A b \in Rows : \A k \in LocalOf(r, b) :
        \E j \in 1 .. NLocal(r, b) : InOrder(LocalOf(r, b))[j] = k
  BY <1>2, <1>5, Ordered
<1>8. PairsOf(r) \in SUBSET RoutedPairs(r)
  <2>1. \A b \in Rows : \A k \in LocalOf(r, b) : PairOf(r, b, k) \in RoutedPairs(r)
    BY PairFacts
  <2> QED
    BY <1>4, <1>6, <2>1 DEF PairsOf
<1>9. RoutedPairs(r) \in SUBSET PairsOf(r)
  <2>1. \A p \in RoutedPairs(r) : p.row \in Rows /\ p.k \in LocalOf(r, p.row) /\ p = PairOf(r, p.row, p.k)
    BY PairFacts
  <2>2. \A p \in RoutedPairs(r) : \E b \in Rows : \E j \in 1 .. NLocal(r, b) : p = LocalPairs(r, b)[j]
    <3> SUFFICES ASSUME NEW p \in RoutedPairs(r)
                 PROVE  \E b \in Rows : \E j \in 1 .. NLocal(r, b) : p = LocalPairs(r, b)[j]
      OBVIOUS
    <3> DEFINE b == p.row
    <3>1. b \in Rows /\ p.k \in LocalOf(r, b) /\ p = PairOf(r, b, p.k)
      BY <2>1
    <3> HIDE DEF b
    <3>2. PICK j \in 1 .. NLocal(r, b) : InOrder(LocalOf(r, b))[j] = p.k
      BY <1>7, <3>1
    <3>3. p = LocalPairs(r, b)[j]
      BY <1>4, <3>1, <3>2
    <3> QED
      BY <3>1, <3>3
  <2> QED
    BY <2>2 DEF PairsOf
<1> QED
  BY <1>2, <1>3, <1>8, <1>9

(* The atomics of an expert's counter number its pairs from 1 on. *)
LEMMA Turns ==
  ASSUME NEW pairs, IsFiniteSet(pairs), \A p \in pairs : p.expert \in LocalExperts,
         NEW order \in Arrivals(pairs)
  PROVE  /\ \A p \in pairs : Turn(order, p) \in 1 .. CountOf(pairs)[p.expert]
         /\ \A p, q \in pairs : p.expert = q.expert /\ Turn(order, p) = Turn(order, q) => p = q
<1> DEFINE of(e) == {p \in pairs : p.expert = e}
           D(e) == 1 .. Cardinality(of(e))
<1>1. \A e \in LocalExperts : order[e] \in SetToSeqs(of(e))
  BY DEF Arrivals
<1>2. \A e \in LocalExperts : /\ order[e] \in [D(e) -> of(e)]
                              /\ \A i, j \in D(e) : i # j => order[e][i] # order[e][j]
  BY <1>1 DEF SetToSeqs
<1>3. ASSUME NEW e \in LocalExperts, NEW p \in of(e) PROVE \E n \in D(e) : order[e][n] = p
  <2>1. IsFiniteSet(of(e)) /\ Cardinality(of(e)) \in Nat
    BY FS_Subset, FS_CardinalityType
  <2>2. IsFiniteSet(D(e)) /\ Cardinality(D(e)) = Cardinality(of(e))
    <3>1. 1 \in Int /\ Cardinality(of(e)) \in Int
      BY <2>1
    <3> QED
      BY <2>1, <3>1, FS_Interval
  <2>3. order[e] \in Injection(D(e), of(e))
    <3> HIDE DEF D, of
    <3> QED
      BY <1>2 DEF Injection, IsInjective
  <2> HIDE DEF D, of
  <2>4. order[e] \in Surjection(D(e), of(e))
    BY <2>1, <2>2, <2>3, FS_Injection
  <2> QED
    BY <2>4 DEF Surjection
<1>4. ASSUME NEW p \in pairs
      PROVE  Turn(order, p) \in D(p.expert) /\ order[p.expert][Turn(order, p)] = p
  <2> DEFINE e == p.expert
  <2>1. e \in LocalExperts /\ p \in of(e)
    OBVIOUS
  <2>2. DOMAIN order[e] = D(e)
    BY <1>2, <2>1
  <2> HIDE DEF D, of
  <2>3. \E n \in DOMAIN order[e] : order[e][n] = p
    BY <1>3, <2>1, <2>2
  <2>4. Turn(order, p) \in DOMAIN order[e] /\ order[e][Turn(order, p)] = p
    BY <2>3 DEF Turn
  <2> QED
    BY <2>2, <2>4
<1>5. \A p \in pairs : CountOf(pairs)[p.expert] = Cardinality(of(p.expert))
  BY DEF CountOf
<1> HIDE DEF of
<1> QED
  BY <1>4, <1>5

(* So a pair lies in its expert's bucket, and no two at the same place. *)
LEMMA Placed ==
  ASSUME NEW pairs, IsFiniteSet(pairs), \A p \in pairs : p.expert \in LocalExperts,
         NEW order \in Arrivals(pairs), NEW f,
         f = [p \in pairs |-> BucketOf(pairs).offset[p.expert] + Turn(order, p) - 1]
  PROVE  /\ \A p \in pairs :
              f[p] \in BucketOf(pairs).offset[p.expert] .. BucketOf(pairs).offset[p.expert + 1] - 1
         /\ \A p, q \in pairs : f[p] = f[q] => p = q
<1> DEFINE n == CountOf(pairs)
           off == Scan(n)
<1>1. n \in [LocalExperts -> Nat] /\ BucketOf(pairs).offset = off
  BY Counted DEF BucketOf, CountOf
<1>2. off \in [0 .. Epd -> Nat]
  BY <1>1, ScanIs
<1>3. \A e \in LocalExperts : e \in 0 .. Epd /\ e + 1 \in 0 .. Epd /\ off[e + 1] = off[e] + n[e]
  BY <1>1, ExpertRange, ScanIs
<1>4. \A p \in pairs : p.expert \in LocalExperts /\ Turn(order, p) \in 1 .. n[p.expert]
  BY Turns
<1>5. \A p \in pairs : f[p] = off[p.expert] + Turn(order, p) - 1
  BY <1>1
<1> HIDE DEF n, off
<1>6. ASSUME NEW p \in pairs
      PROVE  /\ f[p] \in Int /\ off[p.expert] \in Nat /\ Turn(order, p) \in Nat
             /\ off[p.expert] <= f[p] /\ f[p] < off[p.expert + 1] /\ off[p.expert + 1] \in Nat
  <2>1. off[p.expert] \in Nat /\ off[p.expert + 1] \in Nat /\ n[p.expert] \in Nat
    BY <1>1, <1>2, <1>3, <1>4
  <2>2. off[p.expert + 1] = off[p.expert] + n[p.expert]
    BY <1>3, <1>4
  <2> QED
    BY <1>4, <1>5, <2>1, <2>2
<1>7. ASSUME NEW p \in pairs, NEW q \in pairs, f[p] = f[q] PROVE p = q
  <2>1. p.expert = q.expert
    <3>1. \A d, e \in LocalExperts, pos \in Int :
            /\ off[d] <= pos /\ pos < off[d + 1] /\ off[e] <= pos /\ pos < off[e + 1] => d = e
      BY <1>1, OneBucket DEF off
    <3> QED
      BY <1>4, <1>6, <1>7, <3>1
  <2>2. Turn(order, p) = Turn(order, q)
    BY <1>5, <1>6, <1>7, <2>1
  <2> QED
    BY <2>1, <2>2, Turns
<1> QED
  BY <1>1, <1>6, <1>7
-----------------------------------------------------------------------------
(* The list of the rows of slice s for rank r. *)
LEMMA Lists ==
  ASSUME NEW r \in Ranks, NEW s \in Ranks, r # s
  PROVE  /\ Wanted(r, s) \in SUBSET InSlice /\ ListOf(r, s) = Compact(Wanted(r, s))
         /\ \A i \in InSlice : ListOf(r, s).rank[i] >= 0 <=> i \in Wanted(r, s)
         /\ \A i \in Wanted(r, s) : ListOf(r, s).rank[i] \in InSlice
         /\ \A i, j \in InSlice : i \in Wanted(r, s) /\ ListOf(r, s).rank[i] = ListOf(r, s).rank[j] => i = j
         /\ {ListOf(r, s).idx[n] : n \in DOMAIN ListOf(r, s).idx} = Wanted(r, s)
<1> DEFINE W == Wanted(r, s)
           l == ListOf(r, s)
<1>1. W \in SUBSET InSlice /\ l = Compact(W)
  BY DEF Wanted, ListOf
<1> HIDE DEF W, l
<1>2. /\ IsFiniteSet(W) /\ W \in SUBSET Nat
      /\ \A i \in InSlice : l.rank[i] = IF i \in W THEN Below(W, i) ELSE -1
      /\ {l.idx[n] : n \in DOMAIN l.idx} = W
  BY <1>1, Compacted
<1>3. Cardinality(W) \in Nat /\ Cardinality(W) <= BatchSize
  <2>1. BatchSize \in Nat /\ 0 \in Int /\ BatchSize - 1 \in Int
    BY Sizes
  <2>2. IsFiniteSet(InSlice) /\ Cardinality(InSlice) = BatchSize
    BY <2>1, FS_Interval DEF InSlice
  <2> QED
    BY <1>1, <2>2, FS_Subset, FS_CardinalityType
<1>4. /\ \A i \in W : Below(W, i) \in 0 .. Cardinality(W) - 1
      /\ \A i, j \in W : i < j => Below(W, i) < Below(W, j)
  <2>1. W \in SUBSET Int
    BY <1>2
  <2> QED
    BY <1>2, <2>1, Ranking
<1>5. \A i \in W : l.rank[i] \in InSlice /\ l.rank[i] \in Nat
  BY <1>1, <1>2, <1>3, <1>4, Sizes DEF InSlice
<1>6. \A i \in InSlice : l.rank[i] >= 0 <=> i \in W
  BY <1>2, <1>5
<1>7. ASSUME NEW i \in InSlice, NEW j \in InSlice, i \in W, l.rank[i] = l.rank[j] PROVE i = j
  <2>1. j \in W
    BY <1>5, <1>6, <1>7
  <2>2. Below(W, i) = Below(W, j) /\ Below(W, i) \in Int /\ i \in Nat /\ j \in Nat
    BY <1>2, <1>4, <1>7, <2>1
  <2> QED
    BY <1>4, <1>7, <2>1, <2>2
<1> QED
  BY <1>1, <1>2, <1>5, <1>6, <1>7 DEF W, l

(* The place of a pair is in one block, that of its expert. *)
LEMMA PairBlock ==
  ASSUME TypeInv, NEW r \in Ranks, PlaceInv(r), Done(r, "place"), NEW p \in RoutedPairs(r)
  PROVE  \E by \in Grid : /\ ExpertOf(r, by) = p.expert
                          /\ \A c \in Grid : place[r][p] \in PositionsOf(r, c) <=> c = by
<1> DEFINE pairs == RoutedPairs(r)
           e == p.expert
           pos == place[r][p]
<1>1. /\ IsFiniteSet(pairs) /\ \A q \in pairs : q.expert \in LocalExperts
      /\ MaxPairs \in Nat /\ Cardinality(pairs) <= MaxPairs
      /\ bucket[r] = BucketOf(pairs) /\ e \in LocalExperts
      /\ pos \in bucket[r].offset[e] .. bucket[r].offset[e + 1] - 1
  BY PairFacts DEF PlaceInv
<1> HIDE DEF pos, pairs, e
<1>2. \E by \in Grid : /\ ExpertOf(r, by) = e
                       /\ \A c \in Grid : pos \in PositionsOf(r, c) <=> c = by
  BY <1>1, BlockOfPlace
<1> QED
  BY <1>2 DEF e, pos

(* The product at the place of a pair is the pair's. *)
LEMMA ProductsRead ==
  ASSUME TypeInv, NEW r \in Ranks, RankInv(r), Done(r, "pull"), Done(r, "place"),
         NEW p \in RoutedPairs(r)
  PROVE  Products(r)[place[r][p]] = <<p.row, routed[p.row][p.k], p.k>>
<1> DEFINE pos == place[r][p]
           blockOf == [by \in Grid |-> PositionsOf(r, by)]
<1>1. /\ DOMAIN place[r] = RoutedPairs(r)
      /\ \A q \in RoutedPairs(r) : place[r][q] = pos => q = p
  BY DEF RankInv, PlaceInv
<1>2. /\ p.row \in Rows /\ p.k \in LocalOf(r, p.row) /\ p.expert \in LocalExperts
      /\ p.expert + r * Epd = routed[p.row][p.k]
  BY PairFacts
<1>3. PICK by \in Grid : /\ ExpertOf(r, by) = p.expert
                         /\ \A c \in Grid : pos \in PositionsOf(r, c) <=> c = by
  BY PairBlock DEF RankInv
<1>4. pos \in UNION {blockOf[c] : c \in Grid}
  BY <1>3
<1>5. Products(r)[pos] = LET c == CHOOSE c \in Grid : pos \in blockOf[c]
                             q == CHOOSE q \in DOMAIN place[r] : place[r][q] = pos
                         IN  <<rows[r][q.row], r * Epd + ExpertOf(r, c), q.k>>
  <2> HIDE DEF pos
  <2> QED
    BY <1>4 DEF Products
<1>6. (CHOOSE c \in Grid : pos \in blockOf[c]) = by
  <2>1. \A c \in Grid : pos \in blockOf[c] <=> c = by
    BY <1>3
  <2> HIDE DEF pos, blockOf
  <2> QED
    BY <2>1
<1>7. (CHOOSE q \in DOMAIN place[r] : place[r][q] = pos) = p
  BY <1>1
<1>8. Products(r)[pos] = <<rows[r][p.row], r * Epd + p.expert, p.k>>
  <2> HIDE DEF pos, blockOf
  <2> QED
    BY <1>3, <1>5, <1>6, <1>7
<1>9. rows[r][p.row] = p.row
  <2>1. Needs(r, routed[p.row])
    BY <1>2, RoutedTypes
  <2> QED
    BY <1>2, <2>1 DEF RankInv, RowsInv
<1>10. r * Epd + p.expert = routed[p.row][p.k]
  <2>1. r * Epd \in Nat /\ p.expert \in Nat
    BY <1>2, RoutedTypes, ExpertRange
  <2> QED
    BY <1>2, <2>1
<1> QED
  BY <1>8, <1>9, <1>10

(* And the sum of a row over them is the one its top-k asks for. *)
LEMMA SumsRead ==
  ASSUME TypeInv, NEW r \in Ranks, RankInv(r), Done(r, "pull"), Done(r, "place"), NEW b \in Rows
  PROVE  SumOf(r, b, Products(r)) = SumFrom(r, b)
<1> DEFINE ks == InOrder(LocalOf(r, b))
           c == Cardinality(LocalOf(r, b))
<1>1. \A d \in Rows : topk[r][d] = routed[d]
  BY DEF RankInv, TopkInv
<1>2. NLocal(r, b) = c /\ LocalPairs(r, b) = [j \in 1 .. c |-> PairOf(r, b, ks[j])]
  BY <1>1, PairsRead
<1>3. LocalOf(r, b) \in SUBSET Int /\ IsFiniteSet(LocalOf(r, b))
  BY RoutedTypes
<1>4. DOMAIN ks = 1 .. c /\ \A j \in 1 .. c : ks[j] \in LocalOf(r, b)
  BY <1>3, Ordered
<1>5. SumFrom(r, b) = [n \in 1 .. c |-> <<b, routed[b][ks[n]], ks[n]>>]
  BY <1>4 DEF SumFrom, LocalOf
<1>6. SumOf(r, b, Products(r)) = [j \in 1 .. c |-> Products(r)[place[r][PairOf(r, b, ks[j])]]]
  BY <1>2 DEF SumOf
<1> HIDE DEF ks, c
<1>7. \A j \in 1 .. c : Products(r)[place[r][PairOf(r, b, ks[j])]] = <<b, routed[b][ks[j]], ks[j]>>
  <2> SUFFICES ASSUME NEW j \in 1 .. c
               PROVE  Products(r)[place[r][PairOf(r, b, ks[j])]] = <<b, routed[b][ks[j]], ks[j]>>
    OBVIOUS
  <2> DEFINE p == PairOf(r, b, ks[j])
  <2>1. p \in RoutedPairs(r) /\ p.row = b /\ p.k = ks[j]
    <3>1. PairOf(r, b, ks[j]) \in RoutedPairs(r)
      BY <1>4, PairFacts
    <3> QED
      BY <3>1 DEF PairOf
  <2> HIDE DEF p
  <2>2. Products(r)[place[r][p]] = <<p.row, routed[p.row][p.k], p.k>>
    BY <2>1, ProductsRead
  <2> QED
    BY <2>1, <2>2 DEF p
<1> QED
  BY <1>5, <1>6, <1>7
-----------------------------------------------------------------------------
(* What a step of rank r leaves alone: the other ranks and, but for the    *)
(* last two stages, the residuals.                                         *)
LEMMA Others ==
  ASSUME IInv, NEW r \in Ranks, NextStage(r), stage[r] < 6, routed' = routed,
         \A q \in Ranks : q # r =>
           /\ topk'[q] = topk[q] /\ rows'[q] = rows[q] /\ recv'[q] = recv[q] /\ send'[q] = send[q]
           /\ bucket'[q] = bucket[q] /\ place'[q] = place[q] /\ eAgg'[q] = eAgg[q]
  PROVE  /\ \A q \in Ranks : q # r => RankInv(q)'
         /\ stage[r] < 4 /\ x' = x => \A b \in Rows : ResidualInv(b)'
         /\ stage[r] # 2 => WaitInv'
<1>1. TypeInv
  BY DEF IInv
<1>2. \A q \in Ranks : q # r => RankInv(q)'
  BY <1>1, NextFacts, Frame DEF IInv
<1>3. ASSUME stage[r] < 4, x' = x, NEW b \in Rows PROVE ResidualInv(b)'
  <2> DEFINE s == SliceOf(b)
  <2>1. s \in Ranks
    BY RowFacts
  <2>2. stage[s] \in 1 .. 6 /\ stage[r] \in 1 .. 6
    BY <1>1, <2>1, StageFacts
  <2>3. stage'[r] = stage[r] + 1 /\ (s # r => stage'[s] = stage[s])
    BY <1>1, <2>1, NextFacts
  <2>4. /\ stage'[s] > 4 <=> stage[s] > 4
        /\ stage'[s] > 5 <=> stage[s] > 5
    <3>1. CASE s = r
      BY <1>3, <2>2, <2>3, <3>1
    <3>2. CASE s # r
      BY <2>3, <3>2
    <3> QED
      BY <3>1, <3>2
  <2>5. /\ Done(s, "gather")' <=> Done(s, "gather")
        /\ Done(s, "reduce")' <=> Done(s, "reduce")
    BY <1>1, <2>1, <2>4, StageFacts, NextFacts
  <2>6. ResidualInv(b)
    BY DEF IInv
  <2>7. Expected(b)' = Expected(b) /\ SumFrom(s, b)' = SumFrom(s, b) /\ x'[b] = x[b]
    BY <1>3, FixedRouting
  <2> QED
    BY <2>5, <2>6, <2>7 DEF ResidualInv
<1>4. ASSUME stage[r] # 2, NEW q \in Ranks, NEW j \in Ranks, Done(q, "pull")' PROVE Done(j, "lists")'
  <2>1. stage'[q] > 2 /\ stage[q] \in 1 .. 6 /\ stage[j] \in 1 .. 6
    BY <1>1, <1>4, StageFacts, NextFacts
  <2>2. stage[q] > 2
    BY <1>1, <1>4, <2>1, NextFacts
  <2>3. stage[j] > 1
    BY <1>1, <2>2, StageFacts DEF IInv, WaitInv
  <2>4. stage'[j] > 1
    BY <1>1, <2>1, <2>3, NextFacts
  <2> QED
    BY <1>1, <2>4, NextFacts
<1> QED
  BY <1>2, <1>3, <1>4 DEF WaitInv

LEMMA BuildStep ==
  ASSUME IInv, NEW r \in Ranks, BuildLists(r)
  PROVE  IInv'
<1>1. TypeInv /\ RankInv(r) /\ stage[r] = 1 /\ NextStage(r)
  BY StageFacts DEF IInv, BuildLists
<1>2. stage'[r] = 2 /\ Done(r, "lists")' /\ ~Done(r, "pull")' /\ ~Done(r, "place")' /\ ~Done(r, "gather")'
  BY <1>1, NextFacts
<1>3. ~Done(r, "pull")
  BY <1>1, StageFacts
<1>4. TypeInv'
  <2>1. stage' \in [Ranks -> 1 .. 6]
    BY <1>1, NextFacts
  <2> QED
    BY <1>1, <2>1 DEF TypeInv, BuildLists
<1>5. TopkInv(r)' /\ RowsInv(r)'
  BY <1>1, <1>2, <1>3 DEF RankInv, TopkInv, RowsInv, BuildLists
<1>6. RecvInv(r)'
  <2>1. recv'[r] = [s \in Ranks |->
          IF s = r THEN NoList ELSE Compact({i \in InSlice : Needs(s, topk[r][RowOf(r, i)])})]
    BY <1>1 DEF BuildLists, TypeInv
  <2>2. \A i \in InSlice : topk[r][RowOf(r, i)] = routed[RowOf(r, i)]
    BY <1>1, RowFacts DEF RankInv, TopkInv
  <2>3. \A s \in Ranks : {i \in InSlice : Needs(s, topk[r][RowOf(r, i)])} = Wanted(s, r)
    BY <2>2 DEF Wanted
  <2>4. recv'[r] = [s \in Ranks |-> ListOf(s, r)]
    BY <2>1, <2>3 DEF ListOf
  <2>5. \A s : ListOf(s, r)' = ListOf(s, r)
    BY FixedRouting DEF BuildLists
  <2> QED
    BY <2>4, <2>5 DEF RecvInv
<1>7. RankInv(r)'
  BY <1>2, <1>5, <1>6 DEF RankInv, SendInv, PlaceInv, PackedInv
<1>8. /\ routed' = routed /\ x' = x
      /\ \A q \in Ranks : q # r =>
           /\ topk'[q] = topk[q] /\ rows'[q] = rows[q] /\ recv'[q] = recv[q] /\ send'[q] = send[q]
           /\ bucket'[q] = bucket[q] /\ place'[q] = place[q] /\ eAgg'[q] = eAgg[q]
  BY <1>1 DEF BuildLists, TypeInv
<1> QED
  BY <1>1, <1>4, <1>7, <1>8, Others DEF IInv

(* Rows of a peer that are on its list for r are those r has an expert for. *)
LEMMA PullStep ==
  ASSUME IInv, NEW r \in Ranks, Pull(r)
  PROVE  IInv'
<1>1. /\ TypeInv /\ RankInv(r) /\ stage[r] = 2 /\ NextStage(r)
      /\ \A j \in Ranks : Done(j, "lists")
  BY StageFacts DEF IInv, Pull
<1>2. /\ stage'[r] = 3 /\ stage'[r] = stage[r] + 1
      /\ Done(r, "lists")' /\ Done(r, "pull")' /\ ~Done(r, "place")' /\ ~Done(r, "gather")'
  BY <1>1, NextFacts
<1>3. Done(r, "lists") /\ ~Done(r, "pull")
  BY <1>1, StageFacts
<1>4. TypeInv'
  <2>1. stage' \in [Ranks -> 1 .. 6]
    BY <1>1, NextFacts
  <2> QED
    BY <1>1, <2>1 DEF TypeInv, Pull
<1>5. TopkInv(r)'
  <2>1. \A b \in Rows : topk[SliceOf(b)][b] = routed[b]
    BY RowFacts DEF IInv, RankInv, TopkInv
  <2>2. topk'[r] = [b \in Rows |-> routed[b]]
    BY <1>1, <2>1 DEF Pull, TypeInv
  <2> QED
    BY <1>2, <2>2 DEF TopkInv, Pull
<1>6. RowsInv(r)'
  <2>1. rows'[r] = [b \in Rows |->
          IF SliceOf(b) # r /\ b \in Pulled(r, SliceOf(b)) THEN rows[SliceOf(b)][b] ELSE rows[r][b]]
    BY <1>1 DEF Pull, TypeInv
  <2>2. ASSUME NEW b \in Rows, SliceOf(b) # r PROVE b \in Pulled(r, SliceOf(b)) <=> Needs(r, routed[b])
    <3> DEFINE j == SliceOf(b)
               W == Wanted(r, j)
    <3>1. j \in Ranks /\ b - j * BatchSize \in InSlice /\ RowOf(j, b - j * BatchSize) = b
      BY RowFacts
    <3>2. recv[j][r] = ListOf(r, j)
      BY <1>1, <3>1 DEF IInv, RankInv, RecvInv
    <3>3. Pulled(r, j) = {RowOf(j, i) : i \in W} /\ W \in SUBSET InSlice
      BY <2>2, <3>1, <3>2, Lists DEF Pulled
    <3>4. \A i \in InSlice : RowOf(j, i) - j * BatchSize = i
      BY <3>1, RowFacts
    <3>5. b \in Pulled(r, j) <=> b - j * BatchSize \in W
      BY <3>1, <3>3, <3>4
    <3> QED
      BY <3>1, <3>5 DEF Wanted
  <2>3. \A b \in Rows : rows[SliceOf(b)][b] = b
    BY RowFacts DEF IInv, RankInv, RowsInv
  <2>4. \A b \in Rows : rows[r][b] = IF SliceOf(b) = r THEN b ELSE Stale
    BY <1>1, <1>3 DEF RankInv, RowsInv
  <2>5. rows'[r] = [b \in Rows |-> IF SliceOf(b) = r \/ Needs(r, routed[b]) THEN b ELSE Stale]
    BY <2>1, <2>2, <2>3, <2>4
  <2> QED
    BY <1>2, <2>5 DEF RowsInv, Pull
<1>7. RecvInv(r)'
  <2>1. \A s : ListOf(s, r)' = ListOf(s, r)
    BY FixedRouting DEF Pull
  <2> QED
    BY <1>1, <1>3, <2>1 DEF RankInv, RecvInv, Pull
<1>8. RankInv(r)'
  BY <1>2, <1>5, <1>6, <1>7 DEF RankInv, SendInv, PlaceInv, PackedInv
<1>9. /\ routed' = routed /\ x' = x
      /\ \A q \in Ranks : q # r =>
           /\ topk'[q] = topk[q] /\ rows'[q] = rows[q] /\ recv'[q] = recv[q] /\ send'[q] = send[q]
           /\ bucket'[q] = bucket[q] /\ place'[q] = place[q] /\ eAgg'[q] = eAgg[q]
  BY <1>1 DEF Pull, TypeInv
<1>10. WaitInv'
  <2>1. \A j \in Ranks : stage'[j] > 1
    <3> SUFFICES ASSUME NEW j \in Ranks PROVE stage'[j] > 1
      OBVIOUS
    <3>1. CASE j = r
      BY <1>2, <3>1
    <3>2. CASE j # r
      BY <1>1, <3>2, StageFacts, NextFacts
    <3> QED
      BY <3>1, <3>2
  <2>2. \A j \in Ranks : Done(j, "lists")'
    BY <1>1, <2>1, NextFacts
  <2> QED
    BY <2>2 DEF WaitInv
<1> QED
  BY <1>1, <1>4, <1>8, <1>9, <1>10, Others DEF IInv

LEMMA PlaceStep ==
  ASSUME IInv, NEW r \in Ranks, Place(r)
  PROVE  IInv'
<1>1. TypeInv /\ RankInv(r) /\ stage[r] = 3 /\ NextStage(r)
  BY StageFacts DEF IInv, Place
<1>2. /\ stage'[r] = 4 /\ stage'[r] = stage[r] + 1
      /\ Done(r, "lists")' /\ Done(r, "pull")' /\ Done(r, "place")' /\ ~Done(r, "gather")'
  BY <1>1, NextFacts
<1>3. Done(r, "lists") /\ Done(r, "pull")
  BY <1>1, StageFacts
<1>4. TypeInv'
  <2>1. stage' \in [Ranks -> 1 .. 6]
    BY <1>1, NextFacts
  <2>2. place' = [q \in Ranks |-> place'[q]]
    BY <1>1 DEF TypeInv, Place
  <2>3. send' = [q \in Ranks |-> send'[q]] /\ bucket' = [q \in Ranks |-> bucket'[q]]
    BY <1>1 DEF TypeInv, Place
  <2> QED
    BY <1>1, <2>1, <2>2, <2>3 DEF TypeInv, Place
<1>5. TopkInv(r)' /\ RowsInv(r)'
  BY <1>1, <1>2, <1>3 DEF RankInv, TopkInv, RowsInv, Place
<1>6. RecvInv(r)'
  <2>1. \A s : ListOf(s, r)' = ListOf(s, r)
    BY FixedRouting DEF Place
  <2> QED
    BY <1>1, <1>3, <2>1 DEF RankInv, RecvInv, Place
<1>7. \A b \in Rows : topk[r][b] = routed[b]
  BY <1>1, <1>3 DEF RankInv, TopkInv
<1>8. SendInv(r)'
  <2>1. send'[r] = [s \in Ranks |->
          IF s = r THEN NoList ELSE Compact({i \in InSlice : NLocal(r, RowOf(s, i)) > 0})]
    BY <1>1 DEF Place, TypeInv
  <2>2. \A b \in Rows : NLocal(r, b) > 0 <=> Needs(r, routed[b])
    <3> SUFFICES ASSUME NEW b \in Rows PROVE NLocal(r, b) > 0 <=> Needs(r, routed[b])
      OBVIOUS
    <3>1. NLocal(r, b) = Cardinality(LocalOf(r, b))
      BY <1>1, <1>7, PairsRead
    <3>2. IsFiniteSet(LocalOf(r, b)) /\ (Needs(r, routed[b]) <=> LocalOf(r, b) # {})
      BY <1>1, RoutedTypes
    <3>3. /\ Cardinality(LocalOf(r, b)) \in Nat
          /\ Cardinality(LocalOf(r, b)) = 0 <=> LocalOf(r, b) = {}
      BY <3>2, FS_CardinalityType, FS_EmptySet
    <3> QED
      BY <3>1, <3>2, <3>3
  <2>3. \A s \in Ranks : {i \in InSlice : NLocal(r, RowOf(s, i)) > 0} = Wanted(r, s)
    BY <2>2, RowFacts DEF Wanted
  <2>4. send'[r] = [s \in Ranks |-> ListOf(r, s)]
    BY <2>1, <2>3 DEF ListOf
  <2>5. \A s : ListOf(r, s)' = ListOf(r, s)
    BY FixedRouting DEF Place
  <2> QED
    BY <2>4, <2>5 DEF SendInv
<1>9. PlaceInv(r)'
  <2> DEFINE pairs == RoutedPairs(r)
  <2>1. PairsOf(r) = pairs
    BY <1>1, <1>7, PairsRead
  <2>2. bucket'[r] = BucketOf(pairs)
    BY <1>1, <2>1 DEF Place, TypeInv
  <2>3. PICK order \in Arrivals(pairs) :
          place'[r] = [p \in pairs |-> BucketOf(pairs).offset[p.expert] + Turn(order, p) - 1]
    <3>1. \E order \in Arrivals(pairs) :
            place' = [place EXCEPT ![r] =
              [p \in pairs |-> bucket'[r].offset[p.expert] + Turn(order, p) - 1]]
      BY <2>1 DEF Place
    <3> HIDE DEF pairs
    <3> QED
      BY <1>1, <2>2, <3>1 DEF TypeInv
  <2>4. IsFiniteSet(pairs) /\ \A p \in pairs : p.expert \in LocalExperts
    BY <1>1, PairFacts
  <2> DEFINE f == place'[r]
  <2>5. f = [p \in pairs |-> BucketOf(pairs).offset[p.expert] + Turn(order, p) - 1]
    BY <2>3
  <2> HIDE DEF pairs, f
  <2>6. /\ \A p \in pairs :
             f[p] \in BucketOf(pairs).offset[p.expert] .. BucketOf(pairs).offset[p.expert + 1] - 1
        /\ \A p, q \in pairs : f[p] = f[q] => p = q
    BY <2>4, <2>5, Placed
  <2>7. DOMAIN f = pairs
    BY <2>5
  <2>8. RoutedPairs(r)' = pairs
    BY FixedRouting DEF Place, pairs
  <2> QED
    BY <2>2, <2>6, <2>7, <2>8 DEF PlaceInv, f
<1>10. RankInv(r)'
  BY <1>2, <1>5, <1>6, <1>8, <1>9 DEF RankInv, PackedInv
<1>11. /\ routed' = routed /\ x' = x
       /\ \A q \in Ranks : q # r =>
            /\ topk'[q] = topk[q] /\ rows'[q] = rows[q] /\ recv'[q] = recv[q] /\ send'[q] = send[q]
            /\ bucket'[q] = bucket[q] /\ place'[q] = place[q] /\ eAgg'[q] = eAgg[q]
  <2>1. \A q \in Ranks : q # r => place'[q] = place[q]
    BY <1>1 DEF Place, TypeInv
  <2>2. \A q \in Ranks : q # r => send'[q] = send[q] /\ bucket'[q] = bucket[q]
    BY <1>1 DEF Place, TypeInv
  <2> QED
    BY <2>1, <2>2 DEF Place
<1> QED
  BY <1>1, <1>4, <1>10, <1>11, Others DEF IInv

LEMMA GatherStep ==
  ASSUME IInv, NEW r \in Ranks, Gather(r)
  PROVE  IInv'
<1>1. TypeInv /\ RankInv(r) /\ stage[r] = 4 /\ NextStage(r)
  BY StageFacts DEF IInv, Gather
<1>2. /\ stage'[r] = 5 /\ stage'[r] = stage[r] + 1
      /\ Done(r, "lists")' /\ Done(r, "pull")' /\ Done(r, "place")' /\ Done(r, "gather")'
      /\ ~Done(r, "reduce")'
  BY <1>1, NextFacts
<1>3. Done(r, "lists") /\ Done(r, "pull") /\ Done(r, "place") /\ ~Done(r, "gather") /\ ~Done(r, "reduce")
  BY <1>1, StageFacts
<1> DEFINE z == Products(r)
<1>4. \A b \in Rows : SumOf(r, b, z) = SumFrom(r, b)
  BY <1>1, <1>3, SumsRead
<1>5. x' = [b \in Rows |-> IF SliceOf(b) = r THEN Append(x[b], SumOf(r, b, z)) ELSE x[b]]
  BY DEF Gather
<1>6. eAgg' = [eAgg EXCEPT ![r] = [s \in Ranks |-> [m \in InSlice |->
        IF s # r /\ \E i \in InSlice : send[r][s].rank[i] = m
          THEN SumOf(r, RowOf(s, CHOOSE i \in InSlice : send[r][s].rank[i] = m), z)
          ELSE @[s][m]]]]
  BY DEF Gather
<1> HIDE DEF z
<1>7. TypeInv'
  <2>1. stage' \in [Ranks -> 1 .. 6]
    BY <1>1, NextFacts
  <2>2. eAgg' = [q \in Ranks |-> eAgg'[q]]
    BY <1>1, <1>6 DEF TypeInv
  <2>3. x' = [b \in Rows |-> x'[b]]
    BY <1>5
  <2> QED
    BY <1>1, <2>1, <2>2, <2>3 DEF TypeInv, Gather
<1>8. TopkInv(r)' /\ RowsInv(r)'
  BY <1>1, <1>2, <1>3 DEF RankInv, TopkInv, RowsInv, Gather
<1>9. RecvInv(r)' /\ SendInv(r)'
  <2>1. \A s : ListOf(s, r)' = ListOf(s, r) /\ ListOf(r, s)' = ListOf(r, s)
    BY FixedRouting DEF Gather
  <2> QED
    BY <1>1, <1>3, <2>1 DEF RankInv, RecvInv, SendInv, Gather
<1>10. PlaceInv(r)'
  <2>1. RoutedPairs(r)' = RoutedPairs(r)
    BY FixedRouting DEF Gather
  <2> QED
    BY <1>1, <1>3, <2>1 DEF RankInv, PlaceInv, Gather
<1>11. PackedInv(r)'
  <2>0. /\ \A s : ListOf(r, s)' = ListOf(r, s) /\ Wanted(r, s)' = Wanted(r, s)
        /\ \A b : SumFrom(r, b)' = SumFrom(r, b)
        /\ \A s, i : RowOf(s, i)' = RowOf(s, i)
    BY FixedRouting DEF Gather, RowOf
  <2> SUFFICES ASSUME NEW s \in Ranks, s # r, NEW i \in Wanted(r, s)
               PROVE  eAgg'[r][s][ListOf(r, s).rank[i]] = SumFrom(r, RowOf(s, i))
    BY <2>0 DEF PackedInv
  <2> DEFINE l == ListOf(r, s)
             m == l.rank[i]
  <2>1. /\ i \in InSlice /\ m \in InSlice
        /\ \A j \in InSlice : l.rank[j] = m => j = i
    BY Lists
  <2>2. send[r][s] = l
    BY <1>1, <1>3 DEF RankInv, SendInv
  <2> HIDE DEF l
  <2>3. eAgg'[r][s][m] =
          IF s # r /\ \E j \in InSlice : send[r][s].rank[j] = m
            THEN SumOf(r, RowOf(s, CHOOSE j \in InSlice : send[r][s].rank[j] = m), z)
            ELSE eAgg[r][s][m]
    BY <1>1, <1>6, <2>1 DEF TypeInv
  <2>4. /\ \E j \in InSlice : send[r][s].rank[j] = m
        /\ (CHOOSE j \in InSlice : send[r][s].rank[j] = m) = i
    BY <2>1, <2>2
  <2>5. eAgg'[r][s][m] = SumOf(r, RowOf(s, i), z)
    BY <2>3, <2>4
  <2>6. RowOf(s, i) \in Rows
    BY <2>1, RowFacts
  <2> QED
    BY <1>4, <2>5, <2>6 DEF l
<1>12. RankInv(r)'
  BY <1>8, <1>9, <1>10, <1>11 DEF RankInv
<1>13. ASSUME NEW b \in Rows PROVE ResidualInv(b)'
  <2> DEFINE s == SliceOf(b)
  <2>1. s \in Ranks /\ ResidualInv(b)
    BY RowFacts DEF IInv
  <2>2. SumFrom(s, b)' = SumFrom(s, b) /\ Expected(b)' = Expected(b)
    BY FixedRouting DEF Gather
  <2>3. CASE s = r
    <3>1. x[b] = << >>
      BY <1>3, <2>1, <2>3 DEF ResidualInv
    <3>2. x'[b] = <<SumFrom(r, b)>>
      <4>1. x'[b] = Append(x[b], SumOf(r, b, z))
        BY <1>5, <2>3
      <4>2. Append(<< >>, SumFrom(r, b)) = <<SumFrom(r, b)>>
        OBVIOUS
      <4> QED
        BY <1>4, <3>1, <4>1, <4>2
    <3> QED
      BY <1>2, <2>2, <2>3, <3>2 DEF ResidualInv
  <2>4. CASE s # r
    <3>1. x'[b] = x[b] /\ stage'[s] = stage[s]
      BY <1>1, <1>5, <2>1, <2>4, NextFacts
    <3>2. /\ Done(s, "gather")' <=> Done(s, "gather")
          /\ Done(s, "reduce")' <=> Done(s, "reduce")
      BY <1>1, <2>1, <3>1, StageFacts, NextFacts
    <3> QED
      BY <2>1, <2>2, <3>1, <3>2 DEF ResidualInv
  <2> QED
    BY <2>3, <2>4
<1>14. /\ routed' = routed
       /\ \A q \in Ranks : q # r =>
            /\ topk'[q] = topk[q] /\ rows'[q] = rows[q] /\ recv'[q] = recv[q] /\ send'[q] = send[q]
            /\ bucket'[q] = bucket[q] /\ place'[q] = place[q] /\ eAgg'[q] = eAgg[q]
  <2>1. \A q \in Ranks : q # r => eAgg'[q] = eAgg[q]
    BY <1>1, <1>6 DEF TypeInv
  <2> QED
    BY <2>1 DEF Gather
<1> QED
  BY <1>1, <1>7, <1>12, <1>13, <1>14, Others DEF IInv

LEMMA Peers ==
  ASSUME NEW r \in Ranks, NEW d \in 1 .. EP - 1
  PROVE  PeerAt(r, d) \in Ranks /\ PeerAt(r, d) # r
<1>1. EP \in Nat \ {0} /\ r \in Nat /\ r < EP /\ d \in Nat /\ r < r + d /\ r + d < r + EP
  BY Sizes DEF Ranks
<1>2. (r + d) % EP \in 0 .. EP - 1
  <2>1. r + d \in Nat /\ EP \in Nat \ {0}
    BY <1>1
  <2> QED
    BY <2>1, Division
<1>3. r % EP # (r + d) % EP
  <2>1. r + d \in Nat /\ EP \in Nat \ {0} /\ r \in Nat /\ r < r + d /\ r + d < r + EP
    BY <1>1
  <2> QED
    BY <2>1, NearRemainders
<1>4. r % EP = r
  <2>1. 0 \in Nat /\ r \in 0 .. EP - 1 /\ EP \in Nat \ {0}
    BY <1>1
  <2>2. (0 * EP + r) % EP = r
    BY <2>1, DivisionUnique
  <2>3. 0 * EP + r = r
    BY <1>1
  <2> QED
    BY <2>2, <2>3
<1> QED
  BY <1>2, <1>3, <1>4 DEF PeerAt, Ranks

LEMMA NoSum ==
  ASSUME TypeInv, NEW s \in Ranks, NEW b \in Rows
  PROVE  SumFrom(s, b) # << >> <=> Needs(s, routed[b])
<1> DEFINE c == Cardinality(LocalOf(s, b))
<1>1. /\ LocalOf(s, b) \in SUBSET Int /\ IsFiniteSet(LocalOf(s, b))
      /\ Needs(s, routed[b]) <=> LocalOf(s, b) # {}
  BY RoutedTypes
<1>2. c \in Nat /\ (c = 0 <=> LocalOf(s, b) = {})
  BY <1>1, FS_CardinalityType, FS_EmptySet
<1>3. DOMAIN InOrder(LocalOf(s, b)) = 1 .. c
  BY <1>1, Ordered
<1>4. SumFrom(s, b) = [n \in 1 .. c |->
        <<b, routed[b][InOrder(LocalOf(s, b))[n]], InOrder(LocalOf(s, b))[n]>>]
  BY <1>3 DEF SumFrom, LocalOf
<1> HIDE DEF c
<1>5. CASE c = 0
  <2>1. 1 .. c = {}
    BY <1>5
  <2>2. SumFrom(s, b) = << >>
    BY <1>4, <2>1
  <2> QED
    BY <1>1, <1>2, <1>5, <2>2
<1>6. CASE c # 0
  <2>1. 1 \in DOMAIN SumFrom(s, b)
    BY <1>2, <1>4, <1>6
  <2>2. DOMAIN << >> = {}
    OBVIOUS
  <2> QED
    BY <1>1, <1>2, <1>6, <2>1, <2>2
<1> QED
  BY <1>5, <1>6

(* What a rank reads of its peers for row i, once all of them have packed. *)
LEMMA ReceivedSums ==
  ASSUME IInv, NEW r \in Ranks, Done(r, "lists"), \A s \in Ranks : Done(s, "gather"), NEW b \in Rows,
         SliceOf(b) = r
  PROVE  LET ds == InOrder({d \in 1 .. EP - 1 : SumFrom(PeerAt(r, d), b) # << >>})
         IN  Received(r, b - r * BatchSize) = [n \in DOMAIN ds |-> SumFrom(PeerAt(r, ds[n]), b)]
<1> DEFINE i == b - r * BatchSize
           D == {d \in 1 .. EP - 1 : SumFrom(PeerAt(r, d), b) # << >>}
           ds == InOrder(D)
<1>1. i \in InSlice /\ RowOf(r, i) = b
  BY RowFacts
<1>2. recv[r] = [s \in Ranks |-> ListOf(s, r)]
  BY DEF IInv, RankInv, RecvInv
<1> HIDE DEF i
<1>3. ASSUME NEW d \in 1 .. EP - 1
      PROVE  recv[r][PeerAt(r, d)].rank[i] >= 0 <=> SumFrom(PeerAt(r, d), b) # << >>
  <2> DEFINE s == PeerAt(r, d)
  <2>1. s \in Ranks /\ s # r
    BY Peers
  <2>2. recv[r][s] = ListOf(s, r)
    BY <1>2, <2>1
  <2>3. ListOf(s, r).rank[i] >= 0 <=> i \in Wanted(s, r)
    BY <1>1, <2>1, Lists
  <2>4. i \in Wanted(s, r) <=> Needs(s, routed[b])
    BY <1>1 DEF Wanted
  <2>5. SumFrom(s, b) # << >> <=> Needs(s, routed[b])
    BY <2>1, NoSum DEF IInv
  <2> QED
    BY <2>2, <2>3, <2>4, <2>5
<1>4. Senders(r, i) = ds
  <2>1. {d \in 1 .. EP - 1 : recv[r][PeerAt(r, d)].rank[i] >= 0} = D
    BY <1>3
  <2> QED
    BY <2>1 DEF Senders
<1>5. \A n \in DOMAIN ds : ds[n] \in D
  <2>1. 1 \in Int /\ EP - 1 \in Int
    BY Sizes
  <2>2. IsFiniteSet(D) /\ D \in SUBSET Int
    BY <2>1, FS_Interval, FS_Subset
  <2> HIDE DEF D
  <2> QED
    BY <2>2, Ordered
<1>6. ASSUME NEW n \in DOMAIN ds
      PROVE  LET s == PeerAt(r, ds[n]) IN eAgg[s][r][recv[r][s].rank[i]] = SumFrom(s, b)
  <2> DEFINE s == PeerAt(r, ds[n])
  <2>1. ds[n] \in 1 .. EP - 1 /\ SumFrom(s, b) # << >>
    BY <1>5
  <2> HIDE DEF ds
  <2>2. s \in Ranks /\ s # r
    BY <2>1, Peers
  <2> HIDE DEF s
  <2>3. i \in Wanted(s, r)
    BY <1>1, <2>1, <2>2, NoSum DEF IInv, Wanted
  <2>4. eAgg[s][r][ListOf(s, r).rank[i]] = SumFrom(s, RowOf(r, i))
    BY <2>2, <2>3 DEF IInv, RankInv, PackedInv
  <2>5. recv[r][s] = ListOf(s, r)
    BY <1>2, <2>2
  <2>6. eAgg[s][r][recv[r][s].rank[i]] = SumFrom(s, b)
    BY <1>1, <2>4, <2>5
  <2> QED
    BY <2>6 DEF s
<1>7. Received(r, i) = [n \in DOMAIN ds |->
        LET s == PeerAt(r, ds[n]) IN eAgg[s][r][recv[r][s].rank[i]]]
  BY <1>4 DEF Received
<1> HIDE DEF ds
<1>8. Received(r, i) = [n \in DOMAIN ds |-> SumFrom(PeerAt(r, ds[n]), b)]
  BY <1>6, <1>7
<1> QED
  BY <1>8 DEF ds, i

LEMMA ReduceStep ==
  ASSUME IInv, NEW r \in Ranks, Reduce(r)
  PROVE  IInv'
<1>1. TypeInv /\ RankInv(r) /\ stage[r] = 5 /\ NextStage(r) /\ \A s \in Ranks : Done(s, "gather")
  BY StageFacts DEF IInv, Reduce
<1>2. /\ stage'[r] = 6 /\ stage'[r] = stage[r] + 1
      /\ Done(r, "lists")' /\ Done(r, "pull")' /\ Done(r, "place")' /\ Done(r, "gather")'
      /\ Done(r, "reduce")'
  BY <1>1, NextFacts
<1>3. Done(r, "lists") /\ Done(r, "pull") /\ Done(r, "place") /\ Done(r, "gather") /\ ~Done(r, "reduce")
  BY <1>1, StageFacts
<1>4. x' = [b \in Rows |-> IF SliceOf(b) = r THEN x[b] \o Received(r, b - r * BatchSize) ELSE x[b]]
  BY DEF Reduce
<1>5. TypeInv'
  <2>1. stage' \in [Ranks -> 1 .. 6]
    BY <1>1, NextFacts
  <2>2. x' = [b \in Rows |-> x'[b]]
    BY <1>4
  <2> QED
    BY <1>1, <2>1, <2>2 DEF TypeInv, Reduce
<1>6. RankInv(r)'
  <2>1. TopkInv(r)' /\ RowsInv(r)'
    BY <1>1, <1>2, <1>3 DEF RankInv, TopkInv, RowsInv, Reduce
  <2>2. \A s : /\ ListOf(s, r)' = ListOf(s, r) /\ ListOf(r, s)' = ListOf(r, s)
               /\ Wanted(r, s)' = Wanted(r, s)
    BY FixedRouting DEF Reduce
  <2>3. RecvInv(r)' /\ SendInv(r)'
    BY <1>1, <1>3, <2>2 DEF RankInv, RecvInv, SendInv, Reduce
  <2>4. RoutedPairs(r)' = RoutedPairs(r)
    BY FixedRouting DEF Reduce
  <2>5. PlaceInv(r)'
    BY <1>1, <1>3, <2>4 DEF RankInv, PlaceInv, Reduce
  <2>6. \A b : SumFrom(r, b)' = SumFrom(r, b)
    BY FixedRouting DEF Reduce
  <2>7. PackedInv(r)'
    BY <1>1, <1>3, <2>2, <2>6 DEF RankInv, PackedInv, Reduce
  <2> QED
    BY <2>1, <2>3, <2>5, <2>7 DEF RankInv
<1>7. ASSUME NEW b \in Rows PROVE ResidualInv(b)'
  <2> DEFINE s == SliceOf(b)
  <2>1. s \in Ranks /\ ResidualInv(b)
    BY RowFacts DEF IInv
  <2>2. SumFrom(s, b)' = SumFrom(s, b) /\ Expected(b)' = Expected(b)
    BY FixedRouting DEF Reduce
  <2>3. CASE s = r
    <3> DEFINE ds == InOrder({d \in 1 .. EP - 1 : SumFrom(PeerAt(r, d), b) # << >>})
               t == [n \in DOMAIN ds |-> SumFrom(PeerAt(r, ds[n]), b)]
    <3>1. x[b] = <<SumFrom(r, b)>>
      BY <1>3, <2>1, <2>3 DEF ResidualInv
    <3>2. Received(r, b - r * BatchSize) = t
      BY <1>1, <1>3, <2>3, ReceivedSums
    <3>3. Expected(b) = <<SumFrom(r, b)>> \o t
      BY <2>3 DEF Expected
    <3> HIDE DEF t
    <3>4. x'[b] = x[b] \o Received(r, b - r * BatchSize)
      BY <1>4, <2>3
    <3>5. x'[b] = Expected(b)
      BY <3>1, <3>2, <3>3, <3>4
    <3> QED
      BY <1>2, <2>2, <2>3, <3>5 DEF ResidualInv
  <2>4. CASE s # r
    <3>1. x'[b] = x[b] /\ stage'[s] = stage[s]
      BY <1>1, <1>4, <2>1, <2>4, NextFacts
    <3>2. /\ Done(s, "gather")' <=> Done(s, "gather")
          /\ Done(s, "reduce")' <=> Done(s, "reduce")
      BY <1>1, <2>1, <3>1, StageFacts, NextFacts
    <3> QED
      BY <2>1, <2>2, <3>1, <3>2 DEF ResidualInv
  <2> QED
    BY <2>3, <2>4
<1>8. /\ routed' = routed
      /\ \A q \in Ranks : q # r =>
           /\ topk'[q] = topk[q] /\ rows'[q] = rows[q] /\ recv'[q] = recv[q] /\ send'[q] = send[q]
           /\ bucket'[q] = bucket[q] /\ place'[q] = place[q] /\ eAgg'[q] = eAgg[q]
  BY DEF Reduce
<1> QED
  BY <1>1, <1>5, <1>6, <1>7, <1>8, Others DEF IInv
-----------------------------------------------------------------------------
LEMMA InitIInv == Init => IInv
<1> SUFFICES ASSUME Init PROVE IInv
  OBVIOUS
<1>1. TypeInv
  BY DEF Init, TypeInv
<1>2. \A q \in Ranks : stage[q] = 1
  BY DEF Init
<1>3. \A q \in Ranks : /\ ~Done(q, "lists") /\ ~Done(q, "pull") /\ ~Done(q, "place")
                       /\ ~Done(q, "gather") /\ ~Done(q, "reduce")
  BY <1>1, <1>2, StageFacts
<1>4. ASSUME NEW r \in Ranks PROVE RankInv(r)
  <2>1. TopkInv(r) /\ RowsInv(r)
    BY <1>3 DEF Init, TopkInv, RowsInv
  <2> QED
    BY <1>3, <2>1 DEF RankInv, RecvInv, SendInv, PlaceInv, PackedInv
<1>5. \A b \in Rows : ResidualInv(b)
  BY <1>3, RowFacts DEF Init, ResidualInv
<1> QED
  BY <1>1, <1>3, <1>4, <1>5 DEF IInv, WaitInv

LEMMA NextIInv == IInv /\ [Next]_vars => IInv'
<1> SUFFICES ASSUME IInv, [Next]_vars PROVE IInv'
  OBVIOUS
<1>1. CASE \E r \in Ranks : BuildLists(r)
  BY <1>1, BuildStep
<1>2. CASE \E r \in Ranks : Pull(r)
  BY <1>2, PullStep
<1>3. CASE \E r \in Ranks : Place(r)
  BY <1>3, PlaceStep
<1>4. CASE \E r \in Ranks : Gather(r)
  BY <1>4, GatherStep
<1>5. CASE \E r \in Ranks : Reduce(r)
  BY <1>5, ReduceStep
<1>6. CASE UNCHANGED vars
  <2>1. \A q \in Ranks : RankInv(q)'
    BY <1>6, Frame DEF IInv, vars
  <2>2. \A q, s : Done(q, s)' <=> Done(q, s)
    BY <1>6 DEF Done, vars
  <2>3. \A s, b : SumFrom(s, b)' = SumFrom(s, b) /\ Expected(b)' = Expected(b)
    BY <1>6, FixedRouting DEF vars
  <2>4. \A b \in Rows : ResidualInv(b)'
    BY <1>6, <2>2, <2>3 DEF IInv, ResidualInv, vars
  <2>5. TypeInv' /\ WaitInv'
    BY <1>6, <2>2 DEF IInv, TypeInv, WaitInv, vars
  <2> QED
    BY <2>1, <2>4, <2>5 DEF IInv
<1> QED
  BY <1>1, <1>2, <1>3, <1>4, <1>5, <1>6 DEF Next, Finish

(* The inductive invariant: what each finished stage of a rank has         *)
(* written, as a function of the top-k.                                    *)
THEOREM Invariant == Spec => []IInv
BY InitIInv, NextIInv, PTL DEF Spec

(* The list a rank derives from the pulled top-k is the one the owner of   *)
(* the rows derived from its own (getp_rowskip_build_all_kernel, twice).   *)
THEOREM ListsTheorem == Spec => []ListsAgree
<1>1. IInv => ListsAgree
  <2> SUFFICES ASSUME IInv, NEW r \in Ranks, NEW s \in Ranks, r # s, Done(r, "place")
               PROVE  send[r][s] = recv[s][r]
    BY DEF ListsAgree
  <2>1. Done(r, "pull")
    BY StageFacts DEF IInv
  <2>2. Done(s, "lists")
    BY <2>1 DEF IInv, WaitInv
  <2>3. send[r][s] = ListOf(r, s)
    BY DEF IInv, RankInv, SendInv
  <2>4. recv[s][r] = ListOf(r, s)
    BY <2>2 DEF IInv, RankInv, RecvInv
  <2> QED
    BY <2>3, <2>4
<1> QED
  BY <1>1, Invariant, PTL

(* The pairs of a rank fill their places without a gap, and each place is  *)
(* multiplied by one block of the grid, with the weights of its expert.    *)
THEOREM PlacesTheorem == Spec => []PairsPlacedOnce
<1>1. ASSUME IInv, NEW r \in Ranks, Done(r, "place")
      PROVE  LET pairs == DOMAIN place[r]
                 blockOf == [by \in Grid |-> PositionsOf(r, by)]
             IN  /\ {place[r][p] : p \in pairs} = 0 .. Cardinality(pairs) - 1
                 /\ \A p \in pairs :
                      /\ Cardinality({by \in Grid : place[r][p] \in blockOf[by]}) = 1
                      /\ \A by \in Grid : place[r][p] \in blockOf[by] => ExpertOf(r, by) = p.expert
  <2> DEFINE pairs == RoutedPairs(r)
             f == place[r]
             n == CountOf(pairs)
             off == Scan(n)
             c == Cardinality(pairs)
             blockOf == [by \in Grid |-> PositionsOf(r, by)]
  <2>1. /\ bucket[r] = BucketOf(pairs) /\ DOMAIN f = pairs
        /\ \A p \in pairs : f[p] \in bucket[r].offset[p.expert] .. bucket[r].offset[p.expert + 1] - 1
        /\ \A p, q \in pairs : f[p] = f[q] => p = q
    BY <1>1 DEF IInv, RankInv, PlaceInv
  <2>2. /\ IsFiniteSet(pairs) /\ \A p \in pairs : p.expert \in LocalExperts
        /\ MaxPairs \in Nat /\ c <= MaxPairs /\ c \in Nat
    BY <1>1, PairFacts DEF IInv
  <2>3. /\ n \in [LocalExperts -> Nat] /\ off[Epd] = c /\ bucket[r].offset = off
    <3> HIDE DEF pairs
    <3> QED
      BY <2>1, <2>2, Counted DEF BucketOf, CountOf
  <2>4. off \in [0 .. Epd -> Nat] /\ off[0] = 0
    BY <2>3, ScanIs
  <2>5. ASSUME NEW p \in pairs PROVE f[p] \in 0 .. c - 1
    <3> DEFINE e == p.expert
    <3>1. e \in LocalExperts /\ e \in 0 .. Epd /\ e + 1 \in 0 .. Epd /\ e + 1 <= Epd /\ Epd \in 0 .. Epd
      BY <2>2, ExpertRange, Sizes
    <3>2. off[e + 1] <= off[Epd]
      BY <2>3, <3>1, ScanGrows
    <3>3. f[p] \in off[e] .. off[e + 1] - 1 /\ off[e] \in Nat /\ off[e + 1] \in Nat
      BY <2>1, <2>3, <2>4, <3>1
    <3> HIDE DEF off, e, f, c
    <3> QED
      BY <2>2, <2>3, <3>2, <3>3
  <2>6. {f[p] : p \in pairs} = 0 .. c - 1
    <3>1. IsFiniteSet(0 .. c - 1) /\ Cardinality(0 .. c - 1) = c
      <4>1. 0 \in Int /\ c - 1 \in Int
        BY <2>2
      <4> QED
        BY <2>2, <4>1, FS_Interval
    <3> DEFINE g == [p \in pairs |-> f[p]]
    <3>2. g \in [pairs -> 0 .. c - 1] /\ \A p, q \in pairs : g[p] = g[q] => p = q
      BY <2>1, <2>5
    <3>3. \A p \in pairs : g[p] = f[p]
      OBVIOUS
    <3> HIDE DEF g
    <3>4. g \in Injection(pairs, 0 .. c - 1)
      BY <3>2 DEF Injection, IsInjective
    <3>5. g \in Surjection(pairs, 0 .. c - 1)
      BY <2>2, <3>1, <3>4, FS_Injection
    <3>6. \A m \in 0 .. c - 1 : \E p \in pairs : f[p] = m
      BY <3>3, <3>5 DEF Surjection
    <3> HIDE DEF f, pairs, c
    <3> QED
      BY <2>5, <3>6
  <2>7. ASSUME NEW p \in pairs
        PROVE  /\ Cardinality({by \in Grid : f[p] \in blockOf[by]}) = 1
               /\ \A by \in Grid : f[p] \in blockOf[by] => ExpertOf(r, by) = p.expert
    <3> DEFINE pos == place[r][p]
    <3>1. PICK by \in Grid : /\ ExpertOf(r, by) = p.expert
                             /\ \A d \in Grid : pos \in PositionsOf(r, d) <=> d = by
      BY <1>1, PairBlock DEF IInv, RankInv
    <3>2. \A d \in Grid : pos \in blockOf[d] <=> d = by
      BY <3>1
    <3> HIDE DEF blockOf, pos
    <3>3. {d \in Grid : pos \in blockOf[d]} = {by}
      BY <3>2
    <3>4. Cardinality({d \in Grid : pos \in blockOf[d]}) = 1
      BY <3>3, FS_Singleton
    <3>5. \A d \in Grid : pos \in blockOf[d] => ExpertOf(r, d) = p.expert
      BY <3>1, <3>2
    <3> QED
      BY <3>4, <3>5 DEF pos
  <2> QED
    BY <2>1, <2>6, <2>7
<1>2. IInv => PairsPlacedOnce
  BY <1>1 DEF PairsPlacedOnce
<1> QED
  BY <1>2, Invariant, PTL

(* Every row's residual gets the products of its experts, each once, in an *)
(* order fixed by its top-k and the number of its owner.                   *)
THEOREM SumsTheorem == Spec => []SumsReproducible
<1>1. IInv => SumsReproducible
  <2> SUFFICES ASSUME IInv, NEW b \in Rows, At(SliceOf(b), "done") PROVE x[b] = Expected(b)
    BY DEF SumsReproducible
  <2>1. SliceOf(b) \in Ranks
    BY RowFacts
  <2>2. Done(SliceOf(b), "reduce")
    BY <2>1, StageFacts DEF IInv
  <2> QED
    BY <2>2 DEF IInv, ResidualInv
<1> QED
  BY <1>1, Invariant, PTL
=============================================================================
