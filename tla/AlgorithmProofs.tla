--------------------------- MODULE AlgorithmProofs ---------------------------
(***************************************************************************)
(* Proofs about the plan of the expert load balancing, the moves that      *)
(* carry it out (Eplb), the layout of the weights (Weights) and the choices*)
(* of the sampler (Sampler), for any number of ranks, slots, layers, moves *)
(* and steps, any loads, any sizes of the model and any distributions.     *)
(*                                                                         *)
(* First the plan: every swap of the greedy leaves each rank as many       *)
(* labels as it has slots, so the incoming labels of a rank fill exactly   *)
(* the slots it vacates and the new labels are a permutation.  Then the    *)
(* barrier: two ranks are never further apart than one wait, from which    *)
(* follows what the other ranks can be doing while one reads tables, reads *)
(* slots or writes them.  Then the experts.  Then what the swaps do to the *)
(* loads.  Then the weights: the tensors of a buffer lie side by side, and *)
(* a tensor's copies fill its place cell by cell.  At the end the choices  *)
(* of the CPU reference (Sampler): its experts, and its next token.        *)
(***************************************************************************)
EXTENDS Eplb, MCAlgorithms, NumberLemmas, SequenceTheorems

SizeOf(x, S) == Cardinality(Smaller(x, S))

(* The elements of a finite set of numbers are counted off by Nth. *)
LEMMA Counting ==
  ASSUME NEW S \in SUBSET Int, IsFiniteSet(S)
  PROVE  /\ \A x \in S : SizeOf(x, S) \in 0 .. Cardinality(S) - 1
         /\ \A x, y \in S : SizeOf(x, S) = SizeOf(y, S) => x = y
         /\ \A x \in S : Nth(SizeOf(x, S), S) = x
         /\ \A n \in 0 .. Cardinality(S) - 1 : Nth(n, S) \in S /\ SizeOf(Nth(n, S), S) = n
<1> DEFINE N == Cardinality(S)
<1>1. N \in Nat /\ \A A \in SUBSET S : IsFiniteSet(A) /\ Cardinality(A) \in Nat
  BY FS_Subset, FS_CardinalityType
<1>2. ASSUME NEW x \in S PROVE SizeOf(x, S) \in 0 .. N - 1
  <2>1. Smaller(x, S) \in SUBSET (S \ {x})
    BY DEF Smaller
  <2>2. IsFiniteSet(S \ {x}) /\ Cardinality(S \ {x}) = N - 1
    BY FS_RemoveElement
  <2>3. Cardinality(Smaller(x, S)) <= N - 1
    BY <2>1, <2>2, FS_Subset
  <2> QED
    BY <1>1, <2>1, <2>3 DEF SizeOf
<1>3. ASSUME NEW x \in S, NEW y \in S, x < y PROVE SizeOf(x, S) < SizeOf(y, S)
  <2>1. Smaller(x, S) \cup {x} \in SUBSET Smaller(y, S)
    <3>1. \A z \in S : z < x => z < y
      BY <1>3
    <3> QED
      BY <1>3, <3>1 DEF Smaller
  <2>2. Smaller(x, S) \in SUBSET S /\ Smaller(y, S) \in SUBSET S /\ x \notin Smaller(x, S)
    BY DEF Smaller
  <2>3. Cardinality(Smaller(x, S) \cup {x}) = Cardinality(Smaller(x, S)) + 1
    BY <1>1, <2>2, FS_AddElement
  <2>4. Cardinality(Smaller(x, S) \cup {x}) <= Cardinality(Smaller(y, S))
    BY <1>1, <2>1, <2>2, FS_Subset
  <2> QED
    BY <1>1, <2>2, <2>3, <2>4 DEF SizeOf
<1>4. ASSUME NEW x \in S, NEW y \in S, SizeOf(x, S) = SizeOf(y, S) PROVE x = y
  <2>1. x \in Int /\ y \in Int
    OBVIOUS
  <2>2. SizeOf(x, S) \in Int /\ SizeOf(y, S) \in Int
    BY <1>2
  <2> QED
    BY <1>3, <1>4, <2>1, <2>2
<1> DEFINE f == [x \in S |-> SizeOf(x, S)]
<1>5. f \in Injection(S, 0 .. N - 1)
  <2>1. f \in [S -> 0 .. N - 1]
    BY <1>2
  <2>2. \A x, y \in S : f[x] = f[y] => x = y
    BY <1>4
  <2> QED
    BY <2>1, <2>2 DEF Injection, IsInjective
<1>6. IsFiniteSet(0 .. N - 1) /\ Cardinality(0 .. N - 1) = N
  <2> HIDE DEF N
  <2>1. N \in Nat /\ N - 1 \in Int /\ 0 \in Int
    BY <1>1
  <2>2. /\ IsFiniteSet(0 .. N - 1)
        /\ Cardinality(0 .. N - 1) = IF 0 > N - 1 THEN 0 ELSE (N - 1) - 0 + 1
    BY <2>1, FS_Interval
  <2> QED
    BY <2>1, <2>2
<1>7. f \in Surjection(S, 0 .. N - 1)
  <2> HIDE DEF f
  <2> QED
    BY <1>5, <1>6, FS_Injection
<1>8. \A n \in 0 .. N - 1 : \E x \in S : SizeOf(x, S) = n
  BY <1>7 DEF Surjection
<1>9. \A n \in 0 .. N - 1 : Nth(n, S) \in S /\ SizeOf(Nth(n, S), S) = n
  BY <1>8 DEF Nth, SizeOf
<1> QED
  BY <1>2, <1>4, <1>9

(* Two sets of one size are matched one to one. *)
LEMMA Matching ==
  ASSUME NEW S \in SUBSET Int, NEW T \in SUBSET Int, IsFiniteSet(S), IsFiniteSet(T),
         Cardinality(S) = Cardinality(T)
  PROVE  /\ \A x \in S : Opposite(x, S, T) \in T
         /\ \A x, y \in S : Opposite(x, S, T) = Opposite(y, S, T) => x = y
<1>1. \A x \in S : Opposite(x, S, T) = Nth(SizeOf(x, S), T)
  BY DEF Opposite, SizeOf
<1>2. \A x \in S : Opposite(x, S, T) \in T /\ SizeOf(Opposite(x, S, T), T) = SizeOf(x, S)
  BY <1>1, Counting
<1> QED
  BY <1>2, Counting
-----------------------------------------------------------------------------
Plans == [Labels -> Ranks]
Owned(own, r) == {lab \in Labels : own[lab] = r}

(* Every rank owns as many labels as it has slots. *)
Balanced(own) ==
  /\ own \in Plans
  /\ \A r \in Ranks : Cardinality(Owned(own, r)) = Cardinality(LabelsOf(r))

LEMMA LabelTypes ==
  /\ Labels \subseteq Nat /\ IsFiniteSet(Labels) /\ Labels # {}
  /\ Ranks \subseteq Nat /\ IsFiniteSet(Ranks) /\ Ranks # {}
  /\ \A lab \in Labels : RankOf(lab) \in Ranks
<1>1. EP \in Nat \ {0} /\ Epd \in Nat \ {0} /\ EP * Epd \in Nat
  BY PlanAssumption, ProductNat
<1>2. EP * Epd # 0
  BY <1>1
<1>3. IsFiniteSet(Labels) /\ IsFiniteSet(Ranks)
  BY <1>1, FS_Interval DEF Labels, Ranks
<1>4. ASSUME NEW lab \in Labels PROVE RankOf(lab) \in Ranks
  <2> DEFINE q == lab \div Epd
             k == lab % Epd
  <2>1. lab \in Nat /\ lab < EP * Epd
    BY <1>1 DEF Labels
  <2>2. q \in Nat /\ k \in 0 .. Epd - 1 /\ lab = q * Epd + k
    BY <1>1, <2>1, Division
  <2> HIDE DEF q, k
  <2>3. q * Epd \in Nat
    BY <1>1, <2>2, ProductNat
  <2>4. EP < q => EP * Epd + Epd <= q * Epd
    BY <1>1, <2>2, NextMultiple
  <2>5. q < EP
    BY <1>1, <2>1, <2>2, <2>3, <2>4
  <2> QED
    BY <1>1, <2>2, <2>5 DEF RankOf, Ranks, q
<1> QED
  BY <1>1, <1>2, <1>3, <1>4 DEF Labels, Ranks

LEMMA UnmovedBalanced == Balanced(Unmoved)
BY LabelTypes DEF Balanced, Plans, Unmoved, Owned, LabelsOf

(* A swap of two labels keeps the balance. *)
LEMMA SwapBalanced ==
  ASSUME NEW own, Balanced(own), NEW a \in Labels, NEW b \in Labels
  PROVE  Balanced(Swapped(own, <<a, b>>))
<1> DEFINE new == Swapped(own, <<a, b>>)
<1>1. own \in Plans
  BY DEF Balanced
<1>2. new = [own EXCEPT ![a] = own[b], ![b] = own[a]]
  BY DEF Swapped
<1>3. new \in Plans /\ new[a] = own[b] /\ new[b] = own[a]
      /\ \A lab \in Labels : lab # a /\ lab # b => new[lab] = own[lab]
  BY <1>1, <1>2 DEF Plans
<1>4. \A r \in Ranks : IsFiniteSet(Owned(own, r)) /\ Cardinality(Owned(own, r)) \in Nat
  BY LabelTypes, FS_Subset, FS_CardinalityType DEF Owned
<1> HIDE DEF new
<1>5. ASSUME NEW r \in Ranks PROVE Cardinality(Owned(new, r)) = Cardinality(Owned(own, r))
  <2>1. CASE own[a] = own[b] \/ r \notin {own[a], own[b]}
    <3>1. Owned(new, r) = Owned(own, r)
      BY <1>3, <2>1 DEF Owned
    <3> QED
      BY <3>1
  <2>2. ASSUME NEW x \in Labels, NEW y \in Labels, {x, y} = {a, b},
               own[x] = r, own[y] # r
        PROVE  Cardinality(Owned(new, r)) = Cardinality(Owned(own, r))
    <3> DEFINE rest == Owned(own, r) \ {x}
    <3>1. new[x] = own[y] /\ new[y] = own[x]
      BY <1>3, <2>2
    <3>2. Owned(new, r) = rest \cup {y}
      BY <1>3, <2>2, <3>1 DEF Owned
    <3>3. IsFiniteSet(rest) /\ Cardinality(rest) = Cardinality(Owned(own, r)) - 1
      BY <1>4, <2>2, FS_RemoveElement DEF Owned
    <3>4. Cardinality(rest \cup {y}) = Cardinality(rest) + 1
      BY <2>2, <3>3, FS_AddElement DEF Owned
    <3> HIDE DEF rest
    <3> QED
      BY <1>4, <3>2, <3>3, <3>4
  <2>3. CASE own[a] # own[b] /\ r = own[a]
    BY <2>2, <2>3
  <2>4. CASE own[a] # own[b] /\ r = own[b]
    BY <2>2, <2>4
  <2> QED
    BY <2>1, <2>3, <2>4
<1> QED
  BY <1>3, <1>5 DEF Balanced, new

(* The loads are numbers, so there is a best swap if there is one at all. *)
LEMMA BestSwapExists ==
  ASSUME NEW t \in [Labels -> Nat], NEW own \in Plans, Swaps(t, own) # {}
  PROVE  /\ BestSwap(t, own) \in Swaps(t, own)
         /\ BestSwap(t, own) \in Labels \X Labels
<1> DEFINE swaps == Swaps(t, own)
<1>1. swaps \in SUBSET (Labels \X Labels)
  BY DEF Swaps
<1>2. IsFiniteSet(swaps)
  <2>1. IsFiniteSet(Labels \X Labels)
    BY LabelTypes, FS_Product
  <2> HIDE DEF swaps
  <2> QED
    BY <1>1, <2>1, FS_Subset
<1>3. ASSUME NEW r \in Ranks PROVE Load(t, own, r) \in Int
  <2>1. IsFiniteSet(Owned(own, r)) /\ \A lab \in Owned(own, r) : t[lab] \in Int
    BY LabelTypes, FS_Subset DEF Owned
  <2>2. SumFunctionOnSet(t, Owned(own, r)) \in Int
    BY <2>1, SumStep
  <2> QED
    BY <2>2 DEF Load, Owned
<1>4. Heaviest(t, own) \in Int /\ Lightest(t, own) \in Int
  <2> DEFINE f == [r \in Ranks |-> Load(t, own, r)]
  <2>1. f \in [Ranks -> Int]
    BY <1>3
  <2>2. {f[r] : r \in Ranks} = {Load(t, own, r) : r \in Ranks}
    OBVIOUS
  <2> HIDE DEF f
  <2>3. Max({f[r] : r \in Ranks}) \in Int /\ Min({f[r] : r \in Ranks}) \in Int
    BY <2>1, LabelTypes, ImageValues
  <2> QED
    BY <2>2, <2>3 DEF Heaviest, Lightest
<1> DEFINE peak == [s \in swaps |-> Peak(t, own, s)]
<1>5. peak \in [swaps -> Int]
  <2> SUFFICES ASSUME NEW s \in swaps PROVE Peak(t, own, s) \in Int
    OBVIOUS
  <2>1. s[1] \in Labels /\ s[2] \in Labels
    BY <1>1
  <2>2. t[s[1]] - t[s[2]] \in Int
    BY <2>1
  <2> QED
    BY <1>4, <2>2, MaxOfTwo DEF Peak
<1> HIDE DEF swaps, peak
<1>6. swaps # {} /\ \A s \in swaps : s[1] \in Int /\ s[2] \in Int
  <2>1. \A s \in Labels \X Labels : s[1] \in Labels /\ s[2] \in Labels
    OBVIOUS
  <2>2. \A lab \in Labels : lab \in Int
    BY LabelTypes
  <2> QED
    BY <1>1, <2>1, <2>2 DEF swaps
<1>7. PICK low \in swaps : \A s \in swaps : peak[low] <= peak[s]
  BY <1>2, <1>5, <1>6, ImageValues
<1> DEFINE A == {s \in swaps : peak[s] = peak[low]}
           one == [s \in A |-> s[1]]
<1>8. PICK first \in A : \A s \in A : first[1] <= s[1]
  <2>1. IsFiniteSet(A) /\ A # {}
    BY <1>2, FS_Subset
  <2>2. one \in [A -> Int]
    BY <1>6
  <2>3. \E x \in A : \A y \in A : one[x] <= one[y]
    <3> HIDE DEF A, one
    <3> QED
      BY <2>1, <2>2, ImageValues
  <2> QED
    BY <2>3
<1> DEFINE B == {s \in A : s[1] = first[1]}
           two == [s \in B |-> s[2]]
<1>9. PICK best \in B : \A s \in B : best[2] <= s[2]
  <2>1. IsFiniteSet(B) /\ B # {}
    BY <1>2, FS_Subset
  <2>2. two \in [B -> Int]
    BY <1>6
  <2>3. \E x \in B : \A y \in B : two[x] <= two[y]
    <3> HIDE DEF B, two
    <3> QED
      BY <2>1, <2>2, ImageValues
  <2> QED
    BY <2>3
<1>10. ASSUME NEW s \in swaps
       PROVE  \/ peak[best] < peak[s]
              \/ /\ peak[best] = peak[s]
                 /\ best[1] < s[1] \/ (best[1] = s[1] /\ best[2] <= s[2])
  <2>1. peak[best] = peak[low] /\ best \in swaps /\ peak[low] <= peak[s]
    BY <1>7
  <2>2. peak[best] \in Int /\ peak[s] \in Int
    BY <1>5, <2>1
  <2>3. s[1] \in Int /\ s[2] \in Int /\ best[1] \in Int /\ best[2] \in Int
    BY <1>6, <2>1
  <2>4. CASE peak[s] = peak[low]
    <3>1. s \in A /\ best[1] = first[1] /\ first[1] <= s[1]
      BY <1>8, <2>4
    <3>2. CASE s[1] = first[1]
      <4>1. best[2] <= s[2]
        BY <1>9, <3>1, <3>2
      <4> QED
        BY <2>1, <2>4, <3>1, <3>2, <4>1
    <3>3. CASE s[1] # first[1]
      BY <2>1, <2>3, <2>4, <3>1, <3>3
    <3> QED
      BY <3>2, <3>3
  <2>5. CASE peak[s] # peak[low]
    BY <2>1, <2>2, <2>5
  <2> QED
    BY <2>4, <2>5
<1>11. BestSwap(t, own) \in swaps
  <2>1. \E b \in swaps : \A s \in swaps :
           \/ peak[b] < peak[s]
           \/ /\ peak[b] = peak[s]
              /\ b[1] < s[1] \/ (b[1] = s[1] /\ b[2] <= s[2])
    BY <1>10
  <2> QED
    BY <2>1 DEF BestSwap, swaps, peak
<1> QED
  BY <1>1, <1>11 DEF swaps

(* One turn of the greedy, and a rule for what holds after all of them: X  *)
(* holds the plans that may be reached, with the number of turns.          *)
GreedyStep(t, own) ==
  IF Swaps(t, own) = {} THEN own ELSE Swapped(own, BestSwap(t, own))

LEMMA OwnersReached ==
  ASSUME NEW t \in [Labels -> Nat], NEW X,
         <<0, Unmoved>> \in X,
         \A k \in 1 .. MaxMoves \div 2 : \A own \in Plans :
           <<k - 1, own>> \in X => <<k, GreedyStep(t, own)>> \in X
  PROVE  Owners(t) \in Plans /\ <<MaxMoves \div 2, Owners(t)>> \in X
<1> DEFINE Step(own) == GreedyStep(t, own)
           K == MaxMoves \div 2
<1>1. K \in Nat
  BY PlanAssumption
<1>2. Unmoved \in Plans
  BY UnmovedBalanced DEF Balanced
<1>3. ASSUME NEW own \in Plans PROVE Step(own) \in Plans
  <2>1. CASE Swaps(t, own) # {}
    <3>1. BestSwap(t, own) \in Labels \X Labels
      BY <2>1, BestSwapExists
    <3>2. PICK a \in Labels, b \in Labels : BestSwap(t, own) = <<a, b>>
      BY <3>1
    <3> QED
      BY <2>1, <3>2 DEF GreedyStep, Swapped, Plans
  <2> QED
    BY <2>1 DEF GreedyStep
<1> DEFINE G == [c \in (1 .. K) \X Plans |-> Step(c[2])]
           Is(f) == f = [k \in 0 .. K |-> IF k = 0 THEN Unmoved ELSE Step(f[k - 1])]
<1>0. \A k \in 1 .. K : \A own \in Plans : <<k - 1, own>> \in X => <<k, Step(own)>> \in X
  OBVIOUS
<1> HIDE DEF Step, K
<1>4. \E f : Is(f) /\ f \in [0 .. K -> Plans]
  <2>1. G \in [(1 .. K) \X Plans -> Plans]
    BY <1>3
  <2>2. PICK f : Recursive(f, K, Plans, Unmoved, G)
    <3> HIDE DEF G
    <3> QED
      BY <1>1, <1>2, <2>1, Recursion
  <2>3. ASSUME NEW n \in 1 .. K PROVE f[n] = Step(f[n - 1])
    <3>1. n - 1 \in 0 .. K
      BY <1>1
    <3>2. f[n - 1] \in Plans
      BY <2>2, <3>1 DEF Recursive
    <3> QED
      BY <2>2, <3>2 DEF Recursive
  <2>4. \A k \in 0 .. K : f[k] = IF k = 0 THEN Unmoved ELSE Step(f[k - 1])
    BY <1>1, <2>2, <2>3 DEF Recursive
  <2>5. Is(f) /\ f \in [0 .. K -> Plans]
    BY <2>2, <2>4 DEF Recursive
  <2> QED
    BY <2>5
<1> DEFINE after == CHOOSE f : Is(f)
<1>5. Is(after)
  <2> HIDE DEF Is
  <2> QED
    BY <1>4
<1>6. Owners(t) = after[K]
  BY DEF Owners, K, Step, GreedyStep
<1> HIDE DEF after
<1> DEFINE good == {k \in Nat : k <= K => after[k] \in Plans /\ <<k, after[k]>> \in X}
<1>7. 0 \in good
  BY <1>1, <1>2, <1>5
<1>8. ASSUME NEW k \in Nat, k \in good PROVE k + 1 \in good
  <2> SUFFICES ASSUME k + 1 <= K
               PROVE  after[k + 1] \in Plans /\ <<k + 1, after[k + 1]>> \in X
    OBVIOUS
  <2>1. after[k] \in Plans /\ <<k, after[k]>> \in X
    BY <1>1, <1>8
  <2>2. after[k + 1] = Step(after[k])
    BY <1>1, <1>5
  <2>3. k + 1 \in 1 .. K /\ (k + 1) - 1 = k
    BY <1>1
  <2> QED
    BY <1>3, <1>0, <2>1, <2>2, <2>3
<1>9. after[K] \in Plans /\ <<K, after[K]>> \in X
  <2>1. \A k \in Nat : k \in good
    <3> HIDE DEF good
    <3> QED
      BY <1>7, <1>8, Induction
  <2> QED
    BY <1>1, <2>1
<1> QED
  BY <1>6, <1>9 DEF K

LEMMA OwnersBalanced ==
  ASSUME NEW t \in [Labels -> Nat]
  PROVE  Balanced(Owners(t))
<1> DEFINE X == Nat \X {own \in Plans : Balanced(own)}
<1>1. <<0, Unmoved>> \in X
  BY UnmovedBalanced DEF Balanced
<1>2. ASSUME NEW k \in 1 .. MaxMoves \div 2, NEW own \in Plans, <<k - 1, own>> \in X
      PROVE  <<k, GreedyStep(t, own)>> \in X
  <2>1. Balanced(own) /\ k \in Nat
    BY <1>2
  <2>2. CASE Swaps(t, own) # {}
    <3>1. BestSwap(t, own) \in Labels \X Labels
      BY <2>2, BestSwapExists
    <3>2. PICK a \in Labels, b \in Labels : BestSwap(t, own) = <<a, b>>
      BY <3>1
    <3>3. Balanced(Swapped(own, <<a, b>>))
      BY <2>1, SwapBalanced
    <3> QED
      BY <2>1, <2>2, <3>2, <3>3 DEF Balanced, GreedyStep
  <2>3. CASE Swaps(t, own) = {}
    BY <2>1, <2>3 DEF GreedyStep
  <2> QED
    BY <2>2, <2>3
<1> HIDE DEF X
<1>3. <<MaxMoves \div 2, Owners(t)>> \in X
  BY <1>1, <1>2, OwnersReached
<1> QED
  BY <1>3 DEF X

(* A rank gains as many labels as it vacates slots. *)
LEMMA IncomingVacated ==
  ASSUME NEW own, Balanced(own), NEW r \in Ranks
  PROVE  /\ Incoming(own, r) \in SUBSET Labels /\ IsFiniteSet(Incoming(own, r))
         /\ Vacated(own, r) \in SUBSET Labels /\ IsFiniteSet(Vacated(own, r))
         /\ Cardinality(Incoming(own, r)) = Cardinality(Vacated(own, r))
         /\ Cardinality(Incoming(own, r)) \in Nat
<1> DEFINE A == Owned(own, r)
           B == LabelsOf(r)
<1>1. A \in SUBSET Labels /\ B \in SUBSET Labels
  BY DEF Owned, LabelsOf
<1>2. Incoming(own, r) = A \ B /\ Vacated(own, r) = B \ A
  BY DEF Incoming, Vacated, Owned, LabelsOf
<1>3. Cardinality(A) = Cardinality(B)
  BY DEF Balanced
<1> HIDE DEF A, B
<1>4. IsFiniteSet(A) /\ IsFiniteSet(B)
  BY <1>1, LabelTypes, FS_Subset
<1>5. /\ IsFiniteSet(A \ B) /\ Cardinality(A \ B) = Cardinality(A) - Cardinality(A \cap B)
      /\ IsFiniteSet(B \ A) /\ Cardinality(B \ A) = Cardinality(B) - Cardinality(B \cap A)
  BY <1>4, FS_Difference
<1>6. A \cap B = B \cap A
  OBVIOUS
<1>7. Cardinality(A \ B) = Cardinality(B \ A)
  BY <1>3, <1>5, <1>6
<1>8. Cardinality(A \ B) \in Nat
  BY <1>5, FS_CardinalityType
<1> QED
  BY <1>1, <1>2, <1>5, <1>7, <1>8

(* The new labels are a permutation, and Source is its inverse. *)
LEMMA NewLabelsPermute ==
  ASSUME NEW own, Balanced(own)
  PROVE  /\ NewLabels(own) \in [Labels -> Labels]
         /\ \A x \in Labels : own[x] = RankOf(x) => NewLabels(own)[x] = x
         /\ \A x \in Labels : Source(own, NewLabels(own)[x]) = x
         /\ \A y \in Labels : /\ Source(own, y) \in Labels
                              /\ NewLabels(own)[Source(own, y)] = y
<1> DEFINE new == NewLabels(own)
<1>1. \A x \in Labels : new[x] = IF own[x] = RankOf(x) THEN x
                                 ELSE Opposite(x, Incoming(own, own[x]), Vacated(own, own[x]))
  BY DEF NewLabels
<1>2. own \in Plans /\ \A x \in Labels : own[x] \in Ranks
  BY DEF Balanced, Plans
<1>3. \A S \in SUBSET Labels : S \in SUBSET Int
  BY LabelTypes
<1>4. ASSUME NEW r \in Ranks
      PROVE  /\ \A x \in Incoming(own, r) :
                   Opposite(x, Incoming(own, r), Vacated(own, r)) \in Vacated(own, r)
             /\ \A x, y \in Incoming(own, r) :
                     Opposite(x, Incoming(own, r), Vacated(own, r))
                       = Opposite(y, Incoming(own, r), Vacated(own, r)) => x = y
  BY <1>3, IncomingVacated, Matching
<1>5. \A x \in Labels : own[x] # RankOf(x) => x \in Incoming(own, own[x])
  BY DEF Incoming
<1>6. \A r \in Ranks : \A y \in Vacated(own, r) : y \in Labels /\ RankOf(y) = r /\ own[y] # r
  BY DEF Vacated, LabelsOf
<1>7. \A x \in Labels : new[x] \in Labels /\ RankOf(new[x]) = own[x]
  BY <1>1, <1>2, <1>4, <1>5, <1>6
<1>8. \A x \in Labels : own[x] # RankOf(x) => new[x] \in Vacated(own, own[x])
  BY <1>1, <1>2, <1>4, <1>5
<1>9. ASSUME NEW x \in Labels, NEW y \in Labels, new[x] = new[y] PROVE x = y
  <2>1. own[x] = own[y]
    BY <1>7, <1>9
  <2>2. CASE own[x] = RankOf(x) /\ own[y] = RankOf(y)
    BY <1>1, <1>9, <2>2
  <2>3. CASE own[x] # RankOf(x) /\ own[y] # RankOf(y)
    <3>1. x \in Incoming(own, own[x]) /\ y \in Incoming(own, own[x])
      BY <1>5, <2>1, <2>3
    <3>2. Opposite(x, Incoming(own, own[x]), Vacated(own, own[x]))
            = Opposite(y, Incoming(own, own[x]), Vacated(own, own[x]))
      BY <1>1, <1>9, <2>1, <2>3
    <3> QED
      BY <1>2, <1>4, <3>1, <3>2
  <2>4. CASE own[x] = RankOf(x) /\ own[y] # RankOf(y)
    <3>1. x \in Vacated(own, own[y])
      BY <1>1, <1>8, <1>9, <2>4
    <3> QED
      BY <1>2, <1>6, <2>1, <3>1
  <2>5. CASE own[x] # RankOf(x) /\ own[y] = RankOf(y)
    <3>1. y \in Vacated(own, own[x])
      BY <1>1, <1>8, <1>9, <2>5
    <3> QED
      BY <1>2, <1>6, <2>1, <3>1
  <2> QED
    BY <2>2, <2>3, <2>4, <2>5
<1>10. new \in [Labels -> Labels]
  BY <1>7 DEF NewLabels
<1> HIDE DEF new
<1>11. new \in Injection(Labels, Labels)
  BY <1>9, <1>10 DEF Injection, IsInjective
<1>12. new \in Surjection(Labels, Labels)
  BY <1>11, LabelTypes, FS_Injection
<1>13. \A y \in Labels : \E x \in Labels : new[x] = y
  BY <1>12 DEF Surjection
<1>14. \A y : Source(own, y) = CHOOSE x \in Labels : new[x] = y
  BY DEF Source, new
<1>15. \A y \in Labels : Source(own, y) \in Labels /\ new[Source(own, y)] = y
  BY <1>13, <1>14
<1>16. \A x \in Labels : Source(own, new[x]) = x
  BY <1>9, <1>10, <1>15
<1> QED
  BY <1>1, <1>10, <1>15, <1>16 DEF new

(* Label x is the Place-th of those its new rank receives. *)
Place(own, x) == SizeOf(x, Incoming(own, own[x])) + 1
Slots(own, r) ==
  [k \in 1 .. Cardinality(Incoming(own, r)) |-> NewLabels(own)[Nth(k - 1, Incoming(own, r))]]

LEMMA SlotsReceived ==
  ASSUME NEW own, Balanced(own), NEW r \in Ranks
  PROVE  /\ Len(Slots(own, r)) = Cardinality(Incoming(own, r))
         /\ Len(Slots(own, r)) \in Nat
         /\ \A k \in 1 .. Len(Slots(own, r)) :
              /\ Slots(own, r)[k] \in Labels
              /\ LET x == Source(own, Slots(own, r)[k])
                 IN  own[x] = r /\ own[x] # RankOf(x) /\ Place(own, x) = k
         /\ \A x \in Labels : own[x] = r /\ own[x] # RankOf(x) =>
              /\ Place(own, x) \in 1 .. Len(Slots(own, r))
              /\ Slots(own, r)[Place(own, x)] = NewLabels(own)[x]
<1> DEFINE S == Incoming(own, r)
           n == Cardinality(S)
<1>1. S \in SUBSET Labels /\ IsFiniteSet(S) /\ n \in Nat
  BY IncomingVacated
<1>2. S \in SUBSET Int
  <2>1. \A x \in Labels : x \in Int
    BY LabelTypes
  <2>2. \A x \in S : x \in Labels
    BY <1>1
  <2> HIDE DEF S
  <2> QED
    BY <2>1, <2>2
<1>3. Len(Slots(own, r)) = n
  BY <1>1 DEF Slots
<1>4. \A x \in S : own[x] = r /\ own[x] # RankOf(x) /\ x \in Labels
  BY DEF Incoming
<1>5. \A x \in Labels : own[x] = r /\ own[x] # RankOf(x) => x \in S
  BY DEF Incoming
<1>6. \A k \in 1 .. n : Slots(own, r)[k] = NewLabels(own)[Nth(k - 1, S)]
  BY DEF Slots
<1>7. \A x \in Labels : own[x] = r => Place(own, x) = SizeOf(x, S) + 1
  BY DEF Place
<1> HIDE DEF S, n
<1>8. /\ \A x \in S : SizeOf(x, S) \in 0 .. n - 1 /\ Nth(SizeOf(x, S), S) = x
      /\ \A k \in 0 .. n - 1 : Nth(k, S) \in S /\ SizeOf(Nth(k, S), S) = k
  BY <1>1, <1>2, Counting DEF n
<1>9. ASSUME NEW k \in 1 .. n
      PROVE  /\ Slots(own, r)[k] \in Labels
             /\ LET x == Source(own, Slots(own, r)[k])
                IN  own[x] = r /\ own[x] # RankOf(x) /\ Place(own, x) = k
  <2> DEFINE x == Nth(k - 1, S)
  <2>1. k - 1 \in 0 .. n - 1 /\ k - 1 + 1 = k
    BY <1>1
  <2>2. x \in S /\ SizeOf(x, S) = k - 1
    BY <1>8, <2>1
  <2>3. x \in Labels /\ own[x] = r /\ own[x] # RankOf(x)
    BY <1>4, <2>2
  <2>4. Slots(own, r)[k] = NewLabels(own)[x]
    BY <1>6
  <2>5. Source(own, NewLabels(own)[x]) = x /\ NewLabels(own)[x] \in Labels
    BY <2>3, NewLabelsPermute
  <2>6. Place(own, x) = k
    BY <1>7, <2>1, <2>2, <2>3
  <2> HIDE DEF x
  <2> QED
    BY <2>3, <2>4, <2>5, <2>6
<1>10. ASSUME NEW x \in Labels, own[x] = r, own[x] # RankOf(x)
       PROVE  /\ Place(own, x) \in 1 .. n
              /\ Slots(own, r)[Place(own, x)] = NewLabels(own)[x]
  <2>1. x \in S /\ SizeOf(x, S) \in 0 .. n - 1 /\ Nth(SizeOf(x, S), S) = x
    BY <1>5, <1>8, <1>10
  <2>2. /\ Place(own, x) = SizeOf(x, S) + 1
        /\ Place(own, x) \in 1 .. n /\ Place(own, x) - 1 = SizeOf(x, S)
    BY <1>1, <1>7, <1>10, <2>1
  <2> QED
    BY <1>6, <2>1, <2>2
<1> QED
  BY <1>1, <1>3, <1>9, <1>10 DEF n, S
-----------------------------------------------------------------------------
(* The state.  Own is the placement the published tiles call for. *)
Own(l) == Owners(tiles[l])

Waiting == {"published", "voted", "staged", "cleared", "computed"}
Planned == {"voted", "decide", "stage", "staged", "install", "relabel", "clear", "cleared"}
Points == {"step", "publish", "published", "plan", "layers", "computed"} \cup Planned

TypeInv ==
  /\ step \in [Ranks -> Nat] /\ counted \in [Ranks -> Nat]
  /\ tiles \in [LayerSet -> [Labels -> Nat]]
  /\ plan \in [Ranks -> [LayerSet -> Plans]]
  /\ \A r \in Ranks, l \in LayerSet : Balanced(plan[r][l])
  /\ stageCap \in [Ranks -> Nat] /\ ok \in [Ranks -> BOOLEAN]
  /\ stage \in [Ranks -> Seq(Experts)]
  /\ slots \in [LayerSet -> [Labels -> Experts]]
  /\ label \in [Ranks -> [LayerSet -> [Experts -> Labels]]]
  /\ layer \in [Ranks -> 0 .. Layers] /\ done \in [Ranks -> Nat]
  /\ pc \in [Ranks -> Points]
  /\ passed \in [Ranks -> Nat] /\ inside \subseteq Ranks

(* Where a rank can be: in a wait only at one of the five points, on the   *)
(* way of a move only in a step that moves, and in a layer that exists.    *)
MoveAt(s) == s >= At /\ (s - At) % Period = 0

Control(r) ==
  /\ r \in inside => pc[r] \in Waiting
  /\ pc[r] \in Planned \cup {"publish", "published", "plan"} => MoveAt(step[r])
  /\ pc[r] \in {"stage", "staged", "install"} => layer[r] < Layers
  /\ pc[r] = "relabel" => layer[r] = Layers
  /\ pc[r] \in {"clear", "cleared"} => layer[r] \in {0, Layers}
  /\ pc[r] = "computed" => step[r] >= 1

ControlInv == \A r \in Ranks : Control(r)

(* What has been staged: as many experts as were counted, and in the wait  *)
(* and after it all of them.                                               *)
Staging(r) ==
  /\ pc[r] = "stage" => done[r] = Len(stage[r]) /\ done[r] <= Len(Received(r))
  /\ pc[r] = "staged" => done[r] = 0 /\ Len(stage[r]) = Len(Received(r))
  /\ pc[r] = "install" => done[r] <= Len(Received(r)) /\ Len(stage[r]) = Len(Received(r))
  /\ pc[r] \notin {"stage", "staged", "install"} => stage[r] = <<>>

StageInv == \A r \in Ranks : Staging(r)

(* The stretch between two waits a rank is in, by its step and by a number *)
(* that grows within the step; and the stretch it enters by the wait it is *)
(* at.                                                                     *)
Base(r) == IF pc[r] = "computed" THEN step[r] - 1 ELSE step[r]
Phase(r) ==
  IF pc[r] \in {"step", "publish", "published"} THEN 0
  ELSE IF pc[r] \in {"plan", "voted"} THEN 1
  ELSE IF pc[r] = "decide" THEN 2
  ELSE IF pc[r] = "install" THEN 3 + layer[r]
  ELSE IF pc[r] \in {"layers", "computed"}
       THEN IF MoveAt(Base(r)) THEN Layers + 3 ELSE 0
  ELSE 2 + layer[r]

NextPhase(r) ==
  IF pc[r] = "published" THEN 1
  ELSE IF pc[r] = "voted" THEN 2
  ELSE IF pc[r] = "staged" THEN 3 + layer[r]
  ELSE IF pc[r] = "cleared" THEN Layers + 3
  ELSE 0

Together(r, q) == Base(r) = Base(q) /\ Phase(r) = Phase(q)
Ahead(r, q) == q \in inside /\ Base(r) = step[q] /\ Phase(r) = NextPhase(q)

(* A rank is at most one wait ahead of another, which then is in it.       *)
SyncInv ==
  \A r, q \in Ranks :
    /\ passed[r] <= Sync!Entered(q)
    /\ passed[r] = passed[q] => Together(r, q)
    /\ passed[r] = passed[q] + 1 => Ahead(r, q)

(* All ranks plan alike from the published tiles, with the room they voted *)
(* for, and decide alike from the votes.                                   *)
Room(r) == MostIncoming(plan[r], r) <= stageCap[r] \/ MostIncoming(plan[r], r) <= BorrowRoom
Moves == (\A q \in Ranks : ok[q]) /\ \E l \in LayerSet : Moved(Own(l)) # {}

PlanInv ==
  \A r \in Ranks : pc[r] \in Planned =>
    /\ \A l \in LayerSet : plan[r][l] = Own(l)
    /\ ok[r] => Room(r)
Moving(r) == \/ pc[r] \in {"stage", "staged", "install", "relabel"}
             \/ pc[r] \in {"clear", "cleared"} /\ layer[r] = Layers
AgreeInv ==
  \A r \in Ranks :
    /\ Moving(r) => Moves
    /\ pc[r] \in {"clear", "cleared"} /\ layer[r] = 0 => ~Moves

(* The placement.  Outside a move every rank's labels lead to the right    *)
(* experts.  During a move, with was the placement before it, a slot holds *)
(* what it held, or the label that was moved to it when its new rank has   *)
(* got to it; a label says where its expert was, or where it goes once the *)
(* table is rewritten; and the staging buffers hold what they received.    *)
Migrating(r) == \/ pc[r] \in {"stage", "staged", "install", "relabel"}
                \/ pc[r] = "clear" /\ layer[r] = Layers

Installed(r, l, k) ==
  /\ pc[r] \in {"stage", "staged", "install", "relabel", "clear", "cleared"}
  /\ layer[r] > l \/ (layer[r] = l /\ pc[r] = "install" /\ k <= done[r])
Arrived(l, x) == /\ Own(l)[x] # RankOf(x)
                 /\ Installed(Own(l)[x], l, Place(Own(l), x))
Held(l, y) == IF Arrived(l, Source(Own(l), y)) THEN Source(Own(l), y) ELSE y
Meant(r, l, y) == IF pc[r] \in {"clear", "cleared"} THEN Source(Own(l), y) ELSE y

Placements == [LayerSet -> [Labels -> Experts]]
SlotsHold(was) == \A l \in LayerSet, y \in Labels : slots[l][y] = was[l][Held(l, y)]
LabelsLead(was) ==
  \A r \in Ranks, l \in LayerSet, e \in Experts : was[l][Meant(r, l, label[r][l][e])] = e
BuffersHold(was) ==
  \A r \in Ranks : pc[r] \in {"stage", "staged", "install"} =>
    \A k \in 1 .. Len(stage[r]) :
      stage[r][k] = was[layer[r]][Source(Own(layer[r]), Slots(Own(layer[r]), r)[k])]
MovingFrom(was) == SlotsHold(was) /\ LabelsLead(was) /\ BuffersHold(was)
Settled ==
  \A r \in Ranks, l \in LayerSet, e \in Experts : slots[l][label[r][l][e]] = e

PlaceInv ==
  IF \E r \in Ranks : Migrating(r) THEN \E was \in Placements : MovingFrom(was)
  ELSE Settled

IInv == TypeInv /\ ControlInv /\ StageInv /\ SyncInv /\ PlanInv /\ AgreeInv /\ PlaceInv
-----------------------------------------------------------------------------
LEMMA LayerTypes ==
  /\ Layers \in Nat /\ Layers >= 1 /\ LayerSet \subseteq Nat /\ LayerSet # {}
  /\ IsFiniteSet(LayerSet) /\ \A l \in LayerSet : l < Layers
<1>1. Layers \in Nat /\ Layers >= 1
  BY EplbAssumption
<1>2. LayerSet = 0 .. Layers - 1
  BY DEF LayerSet
<1>3. 0 \in LayerSet /\ LayerSet \subseteq Nat /\ \A l \in LayerSet : l < Layers
  BY <1>1, <1>2
<1>4. IsFiniteSet(0 .. Layers - 1)
  <2>1. 0 \in Int /\ Layers - 1 \in Int
    BY <1>1
  <2> QED
    BY <2>1, FS_Interval
<1> QED
  BY <1>1, <1>2, <1>3, <1>4

LEMMA NeedType ==
  ASSUME NEW own, \A l \in LayerSet : Balanced(own[l]), NEW r \in Ranks
  PROVE  /\ MostIncoming(own, r) \in Nat
         /\ \A l \in LayerSet : Cardinality(Incoming(own[l], r)) <= MostIncoming(own, r)
<1> DEFINE f == [l \in LayerSet |-> Cardinality(Incoming(own[l], r))]
           S == {f[l] : l \in LayerSet}
<1>1. \A l \in LayerSet : f[l] \in Nat
  BY IncomingVacated
<1>2. \A n \in S : n \in Nat
  BY <1>1
<1>3. IsFiniteSet(S) /\ S # {} /\ S \in SUBSET Int
  <2>1. f \in [LayerSet -> Int]
    BY <1>1
  <2>2. IsFiniteSet(S)
    <3> HIDE DEF f
    <3> QED
      BY <2>1, LayerTypes, ImageValues
  <2>3. S # {}
    BY LayerTypes
  <2> QED
    BY <1>2, <2>2, <2>3
<1>4. MostIncoming(own, r) = Max(S)
  <2>1. {Cardinality(Incoming(own[l], r)) : l \in LayerSet} = S
    OBVIOUS
  <2> QED
    BY <2>1 DEF MostIncoming
<1>5. \A l \in LayerSet : f[l] \in S /\ f[l] = Cardinality(Incoming(own[l], r))
  OBVIOUS
<1> HIDE DEF S, f
<1>6. Max(S) \in S /\ \A n \in S : Max(S) >= n
  BY <1>3, LargestNumber
<1> QED
  BY <1>2, <1>4, <1>5, <1>6

LEMMA OwnBalanced ==
  ASSUME tiles \in [LayerSet -> [Labels -> Nat]]
  PROVE  \A l \in LayerSet : Balanced(Own(l))
BY OwnersBalanced DEF Own

LEMMA InitType == Init => TypeInv
<1> SUFFICES ASSUME Init PROVE TypeInv
  OBVIOUS
<1>1. 0 \in 0 .. Layers /\ <<>> \in Seq(Experts)
  BY LayerTypes
<1>2. Balanced(Unmoved) /\ Unmoved \in Plans
  BY UnmovedBalanced DEF Balanced
<1> QED
  BY <1>1, <1>2 DEF TypeInv, Init, Points, Planned, Experts, Placements, Sync!RendezvousInit

LEMMA WaitTypes ==
  /\ DOMAIN WaitsThen = Waiting
  /\ WaitsThen["published"] = "plan" /\ WaitsThen["voted"] = "decide"
  /\ WaitsThen["staged"] = "install" /\ WaitsThen["cleared"] = "layers"
  /\ WaitsThen["computed"] = "step"
BY DEF WaitsThen, Waiting

(* What a rank receives for the layer it moves. *)
LEMMA ReceivedType ==
  ASSUME TypeInv, NEW r \in Ranks, layer[r] < Layers
  PROVE  /\ layer[r] \in LayerSet
         /\ Received(r) = Slots(plan[r][layer[r]], r)
         /\ Len(Received(r)) \in Nat
         /\ \A k \in 1 .. Len(Received(r)) :
              Received(r)[k] \in Labels /\ Source(plan[r][layer[r]], Received(r)[k]) \in Labels
<1>1. layer[r] \in LayerSet
  BY LayerTypes DEF TypeInv, LayerSet
<1>2. Received(r) = Slots(plan[r][layer[r]], r)
  BY DEF Received, IncomingSlots, Slots
<1>3. Balanced(plan[r][layer[r]])
  BY <1>1 DEF TypeInv
<1> QED
  BY <1>1, <1>2, <1>3, SlotsReceived, NewLabelsPermute

LEMMA TypeStep == TypeInv /\ ControlInv /\ StageInv /\ [Next]_vars => TypeInv'
<1> SUFFICES ASSUME TypeInv, ControlInv, StageInv, [Next]_vars PROVE TypeInv'
  OBVIOUS
<1>a. \A r \in Ranks : Control(r) /\ Staging(r)
  BY DEF ControlInv, StageInv
<1>b. ASSUME NEW r \in Ranks, pc[r] \in {"stage", "install"}
      PROVE  layer[r] < Layers /\ layer[r] \in LayerSet /\ Len(Received(r)) \in Nat
             /\ \A k \in 1 .. Len(Received(r)) :
                  Source(plan[r][layer[r]], Received(r)[k]) \in Labels
  BY <1>a, <1>b, ReceivedType DEF Control
<1> USE DEF TypeInv, stepVars, moveVars, placeVars, barrierVars, GoTo
<1>0. Layers \in Nat /\ 0 \in 0 .. Layers
  BY LayerTypes
<1>1. ASSUME NEW r \in Ranks, BeginStep(r) PROVE TypeInv'
  BY <1>1 DEF BeginStep, Points, Planned
<1>2. ASSUME NEW r \in Ranks, Publish(r) PROVE TypeInv'
  <2> PICK cost \in [LayerSet -> [LabelsOf(r) -> TileChoices]] :
        tiles' = [l \in LayerSet |-> [lab \in Labels |->
                    IF lab \in LabelsOf(r) THEN cost[l][lab] ELSE tiles[l][lab]]]
    BY <1>2 DEF Publish
  <2>1. TileChoices \subseteq Nat
    BY EplbAssumption
  <2>2. tiles' \in [LayerSet -> [Labels -> Nat]]
    <3>1. \A l \in LayerSet, lab \in LabelsOf(r) : cost[l][lab] \in Nat
      BY <2>1
    <3>2. \A l \in LayerSet, lab \in Labels : tiles[l][lab] \in Nat
      OBVIOUS
    <3> QED
      BY <3>1, <3>2
  <2>3. pc' \in [Ranks -> Points]
    BY <1>2 DEF Publish, Points
  <2> QED
    BY <1>2, <2>2, <2>3 DEF Publish
<1>3. ASSUME NEW r \in Ranks, Arrive(r) PROVE TypeInv'
  BY <1>3 DEF Arrive, Sync!Arrive
<1>4. ASSUME NEW r \in Ranks, Leave(r) PROVE TypeInv'
  <2>1. pc' \in [Ranks -> Points]
    <3>1. pc[r] \in Waiting /\ pc' = [pc EXCEPT ![r] = WaitsThen[pc[r]]]
      BY <1>4, WaitTypes DEF Leave
    <3>2. WaitsThen[pc[r]] \in Points
      BY <3>1, WaitTypes DEF Waiting, Points, Planned
    <3> QED
      BY <3>1, <3>2
  <2> QED
    BY <1>4, <2>1 DEF Leave, Sync!Leave
<1>5. ASSUME NEW r \in Ranks, Vote(r) PROVE TypeInv'
  <2> DEFINE own == [l \in LayerSet |-> Own(l)]
             need == MostIncoming(own, r)
  <2>1. plan' = [plan EXCEPT ![r] = own]
    BY <1>5 DEF Vote, Own
  <2>2. \A l \in LayerSet : Balanced(own[l])
    BY OwnBalanced
  <2>3. own \in [LayerSet -> Plans]
    BY <2>2 DEF Balanced
  <2>4. need \in Nat
    <3> HIDE DEF own
    <3> QED
      BY <2>2, NeedType
  <2>5. /\ \/ stageCap' = stageCap
           \/ stageCap' = [stageCap EXCEPT ![r] = need]
           \/ stageCap' = [stageCap EXCEPT ![r] = 0]
        /\ ok' = [ok EXCEPT ![r] = TRUE] \/ ok' = [ok EXCEPT ![r] = need <= BorrowRoom]
    BY <1>5 DEF Vote, Own
  <2> HIDE DEF own, need
  <2>6. stageCap' \in [Ranks -> Nat] /\ ok' \in [Ranks -> BOOLEAN]
    <3>1. (need <= BorrowRoom) \in BOOLEAN
      OBVIOUS
    <3>2. ok' \in [Ranks -> BOOLEAN]
      BY <2>5, <3>1, Zenon
    <3>3. stageCap \in [Ranks -> Nat] /\ 0 \in Nat
      OBVIOUS
    <3>4. stageCap' \in [Ranks -> Nat]
      BY <2>4, <2>5, <3>3, Zenon
    <3> QED
      BY <3>2, <3>4
  <2>7. pc' \in [Ranks -> Points]
    BY <1>5 DEF Vote, Points, Planned
  <2>8. plan' \in [Ranks -> [LayerSet -> Plans]] /\ \A q \in Ranks, l \in LayerSet : Balanced(plan'[q][l])
    BY <2>1, <2>2, <2>3
  <2>9. \A q \in Ranks, l \in LayerSet : Balanced(plan[q][l])'
    BY <2>8 DEF Balanced
  <2> QED
    BY <1>5, <2>6, <2>7, <2>8, <2>9 DEF Vote
<1>6. ASSUME NEW r \in Ranks, Decide(r) PROVE TypeInv'
  <2>1. <<>> \in Seq(Experts)
    OBVIOUS
  <2>2. pc' \in [Ranks -> Points]
    BY <1>6 DEF Decide, Points, Planned
  <2> QED
    BY <1>0, <1>6, <2>1, <2>2 DEF Decide
<1>7. ASSUME NEW r \in Ranks, Stage(r) PROVE TypeInv'
  <2>1. pc[r] = "stage" /\ Len(Received(r)) \in Nat /\ layer[r] \in LayerSet
    BY <1>7, <1>b DEF Stage
  <2>2. CASE pc' = pc
    <3> DEFINE e == slots[layer[r]][Source(plan[r][layer[r]], Received(r)[done[r] + 1])]
    <3>1. /\ done[r] < Len(Received(r)) /\ done' = [done EXCEPT ![r] = @ + 1]
          /\ stage' = [stage EXCEPT ![r] = Append(@, e)]
      BY <1>7, <2>1, <2>2 DEF Stage
    <3>2. done[r] + 1 \in 1 .. Len(Received(r))
      BY <2>1, <3>1
    <3>3. e \in Experts
      BY <1>b, <2>1, <3>2
    <3> HIDE DEF e
    <3>4. stage' \in [Ranks -> Seq(Experts)] /\ done' \in [Ranks -> Nat]
      BY <3>1, <3>3
    <3> QED
      BY <1>7, <2>2, <3>4 DEF Stage
  <2>3. CASE pc' # pc
    <3>1. /\ pc' = [pc EXCEPT ![r] = "staged"] /\ done' = [done EXCEPT ![r] = 0]
          /\ UNCHANGED stage
      BY <1>7, <2>3 DEF Stage
    <3>2. pc' \in [Ranks -> Points] /\ done' \in [Ranks -> Nat]
      BY <3>1 DEF Points, Planned
    <3> QED
      BY <1>7, <3>1, <3>2 DEF Stage
  <2> QED
    BY <2>2, <2>3
<1>8. ASSUME NEW r \in Ranks, Install(r) PROVE TypeInv'
  <2>1. /\ pc[r] = "install" /\ Len(Received(r)) \in Nat /\ layer[r] \in LayerSet
        /\ layer[r] < Layers /\ Len(stage[r]) = Len(Received(r))
    BY <1>8, <1>a, <1>b DEF Install, Staging
  <2>2. CASE pc' = pc
    <3>1. /\ done[r] < Len(Received(r)) /\ done' = [done EXCEPT ![r] = @ + 1]
          /\ UNCHANGED <<layer, stage>>
          /\ slots' = [slots EXCEPT ![layer[r]][Received(r)[done[r] + 1]] =
                         stage[r][done[r] + 1]]
      BY <1>8, <2>1, <2>2 DEF Install
    <3>2. stage[r][done[r] + 1] \in Experts
      BY <2>1, <3>1
    <3> DEFINE row == [slots[layer[r]] EXCEPT ![Received(r)[done[r] + 1]] = stage[r][done[r] + 1]]
    <3>3. row \in [Labels -> Experts]
      BY <2>1, <3>2
    <3>4. slots' = [slots EXCEPT ![layer[r]] = row]
      BY <3>1
    <3> HIDE DEF row
    <3>5. slots' \in [LayerSet -> [Labels -> Experts]]
      BY <3>3, <3>4
    <3>6. done' \in [Ranks -> Nat]
      BY <3>1
    <3> QED
      BY <1>8, <2>2, <3>1, <3>5, <3>6 DEF Install
  <2>3. CASE pc' # pc
    <3>1. /\ layer' = [layer EXCEPT ![r] = @ + 1] /\ done' = [done EXCEPT ![r] = 0]
          /\ stage' = [stage EXCEPT ![r] = <<>>] /\ UNCHANGED slots
      BY <1>8, <2>3 DEF Install
    <3>2. layer' \in [Ranks -> 0 .. Layers]
      BY <1>0, <2>1, <3>1
    <3>3. stage' \in [Ranks -> Seq(Experts)] /\ done' \in [Ranks -> Nat]
      BY <3>1
    <3>4. pc' \in [Ranks -> Points]
      BY <1>8 DEF Install, Points, Planned
    <3> QED
      BY <1>8, <3>1, <3>2, <3>3, <3>4 DEF Install
  <2> QED
    BY <2>2, <2>3
<1>9. ASSUME NEW r \in Ranks, Relabel(r) PROVE TypeInv'
  <2>1. \A l \in LayerSet : NewLabels(plan[r][l]) \in [Labels -> Labels]
    BY NewLabelsPermute
  <2>2. label' \in [Ranks -> [LayerSet -> [Experts -> Labels]]]
    BY <1>9, <2>1 DEF Relabel
  <2> QED
    BY <1>9, <2>2 DEF Relabel, Points, Planned
<1>10. ASSUME NEW r \in Ranks, Clear(r) PROVE TypeInv'
  BY <1>10 DEF Clear, Points, Planned
<1>11. ASSUME NEW r \in Ranks, Compute(r) PROVE TypeInv'
  BY <1>11 DEF Compute, Points, Planned
<1>12. CASE UNCHANGED vars
  BY <1>12 DEF vars
<1> QED
  BY <1>1, <1>2, <1>3, <1>4, <1>5, <1>6, <1>7, <1>8, <1>9, <1>10, <1>11, <1>12
     DEF Next, Rank, Terminated
-----------------------------------------------------------------------------
LEMMA ControlStep == TypeInv /\ ControlInv /\ StageInv /\ [Next]_vars => ControlInv'
<1> SUFFICES ASSUME TypeInv, ControlInv, StageInv, [Next]_vars, NEW q \in Ranks
             PROVE  Control(q)'
  BY DEF ControlInv
<1> USE DEF stepVars, moveVars, placeVars, barrierVars, GoTo, MoveAt
<1>0. Control(q) /\ Layers \in Nat /\ Layers >= 1
  BY LayerTypes DEF ControlInv
<1>t. /\ pc \in [Ranks -> Points] /\ step \in [Ranks -> Nat] /\ layer \in [Ranks -> 0 .. Layers]
      /\ inside \subseteq Ranks
  BY DEF TypeInv
<1>1. ASSUME NEW r \in Ranks, BeginStep(r) PROVE Control(q)'
  BY <1>0, <1>t, <1>1 DEF BeginStep, MoveNow, Control, Waiting, Planned
<1>2. ASSUME NEW r \in Ranks, Publish(r) PROVE Control(q)'
  BY <1>0, <1>t, <1>2 DEF Publish, Control, Waiting, Planned
<1>3. ASSUME NEW r \in Ranks, Arrive(r) PROVE Control(q)'
  BY <1>0, <1>t, <1>3, WaitTypes DEF Arrive, Sync!Arrive, Control
<1>4. ASSUME NEW r \in Ranks, Leave(r) PROVE Control(q)'
  <2>1. /\ pc[r] \in Waiting /\ pc' = [pc EXCEPT ![r] = WaitsThen[pc[r]]]
        /\ inside' = inside \ {r} /\ UNCHANGED <<step, layer>>
    BY <1>4, WaitTypes DEF Leave, Sync!Leave
  <2>2. CASE q = r
    BY <1>0, <1>t, <2>1, <2>2, WaitTypes DEF Control, Waiting, Planned
  <2>3. CASE q # r
    BY <1>0, <1>t, <2>1, <2>3 DEF Control
  <2> QED
    BY <2>2, <2>3
<1>5. ASSUME NEW r \in Ranks, Vote(r) PROVE Control(q)'
  <2>1. /\ pc[r] = "plan" /\ pc' = [pc EXCEPT ![r] = "voted"]
        /\ UNCHANGED <<step, layer, inside>>
    BY <1>5 DEF Vote
  <2> QED
    BY <1>0, <1>t, <2>1 DEF Control, Waiting, Planned
<1>6. ASSUME NEW r \in Ranks, Decide(r) PROVE Control(q)'
  BY <1>0, <1>t, <1>6 DEF Decide, Control, Waiting, Planned
<1>7. ASSUME NEW r \in Ranks, Stage(r) PROVE Control(q)'
  <2>1. /\ pc[r] = "stage" /\ (pc' = pc \/ pc' = [pc EXCEPT ![r] = "staged"])
        /\ UNCHANGED <<step, layer, inside>>
    BY <1>7 DEF Stage
  <2> QED
    BY <1>0, <1>t, <2>1 DEF Control, Waiting, Planned
<1>8. ASSUME NEW r \in Ranks, Install(r) PROVE Control(q)'
  <2>1. /\ pc[r] = "install" /\ UNCHANGED <<step, inside>>
        /\ \/ UNCHANGED <<pc, layer>>
           \/ /\ pc' = [pc EXCEPT ![r] = IF layer[r] + 1 < Layers THEN "stage" ELSE "relabel"]
              /\ layer' = [layer EXCEPT ![r] = @ + 1]
    BY <1>8 DEF Install
  <2>2. layer[r] < Layers /\ layer[r] \in Nat
    BY <2>1, <1>t DEF Control, ControlInv
  <2> QED
    BY <1>0, <1>t, <2>1, <2>2 DEF Control, Waiting, Planned
<1>9. ASSUME NEW r \in Ranks, Relabel(r) PROVE Control(q)'
  BY <1>0, <1>t, <1>9 DEF Relabel, Control, Waiting, Planned
<1>10. ASSUME NEW r \in Ranks, Clear(r) PROVE Control(q)'
  BY <1>0, <1>t, <1>10 DEF Clear, Control, Waiting, Planned
<1>11. ASSUME NEW r \in Ranks, Compute(r) PROVE Control(q)'
  BY <1>0, <1>t, <1>11 DEF Compute, Control, Waiting, Planned
<1>12. CASE UNCHANGED vars
  BY <1>0, <1>12 DEF vars, Control
<1> QED
  BY <1>1, <1>2, <1>3, <1>4, <1>5, <1>6, <1>7, <1>8, <1>9, <1>10, <1>11, <1>12
     DEF Next, Rank, Terminated

LEMMA StageStep == TypeInv /\ ControlInv /\ StageInv /\ [Next]_vars => StageInv'
<1> SUFFICES ASSUME TypeInv, ControlInv, StageInv, [Next]_vars, NEW q \in Ranks
             PROVE  Staging(q)'
  BY DEF StageInv
<1> USE DEF stepVars, moveVars, placeVars, barrierVars, GoTo
<1>0. Staging(q)
  BY DEF StageInv
<1>t. /\ pc \in [Ranks -> Points] /\ stage \in [Ranks -> Seq(Experts)]
      /\ layer \in [Ranks -> 0 .. Layers] /\ done \in [Ranks -> Nat]
      /\ plan \in [Ranks -> [LayerSet -> Plans]]
  BY DEF TypeInv
<1>s. Len(<<>>) = 0
  OBVIOUS
<1>r. plan'[q] = plan[q] /\ layer'[q] = layer[q] => Received(q)' = Received(q)
  BY DEF Received, IncomingSlots
<1>u. /\ pc'[q] = pc[q] /\ done'[q] = done[q] /\ stage'[q] = stage[q]
      /\ plan'[q] = plan[q] /\ layer'[q] = layer[q]
      => Staging(q)'
  BY <1>0, <1>r DEF Staging
<1>1. ASSUME NEW r \in Ranks, BeginStep(r) PROVE Staging(q)'
  BY <1>0, <1>t, <1>1, <1>u DEF BeginStep, Staging
<1>2. ASSUME NEW r \in Ranks, Publish(r) PROVE Staging(q)'
  BY <1>0, <1>t, <1>2, <1>u DEF Publish, Staging
<1>3. ASSUME NEW r \in Ranks, Arrive(r) PROVE Staging(q)'
  BY <1>3, <1>u DEF Arrive
<1>4. ASSUME NEW r \in Ranks, Leave(r) PROVE Staging(q)'
  <2>1. /\ pc[r] \in Waiting /\ pc' = [pc EXCEPT ![r] = WaitsThen[pc[r]]]
        /\ UNCHANGED <<plan, layer, stage, done>>
    BY <1>4, WaitTypes DEF Leave
  <2>2. CASE q = r
    <3>1. CASE pc[r] = "staged"
      BY <1>0, <1>r, <1>t, <2>1, <2>2, <3>1, WaitTypes, ReceivedType DEF Staging, Control, ControlInv
    <3>2. CASE pc[r] # "staged"
      BY <1>0, <1>t, <2>1, <2>2, <3>2, WaitTypes DEF Staging, Waiting
    <3> QED
      BY <3>1, <3>2
  <2>3. CASE q # r
    BY <1>t, <1>u, <2>1, <2>3
  <2> QED
    BY <2>2, <2>3
<1>5. ASSUME NEW r \in Ranks, Vote(r) PROVE Staging(q)'
  <2>1. /\ pc[r] = "plan" /\ pc' = [pc EXCEPT ![r] = "voted"]
        /\ \E own : plan' = [plan EXCEPT ![r] = own]
        /\ UNCHANGED <<layer, stage, done>>
    BY <1>5 DEF Vote
  <2> QED
    BY <1>0, <1>t, <1>u, <2>1 DEF Staging
<1>6. ASSUME NEW r \in Ranks, Decide(r) PROVE Staging(q)'
  <2>1. /\ pc' \in {[pc EXCEPT ![r] = "stage"], [pc EXCEPT ![r] = "clear"]}
        /\ pc[r] = "decide" /\ UNCHANGED plan
        /\ layer' = [layer EXCEPT ![r] = 0] /\ done' = [done EXCEPT ![r] = 0]
        /\ stage' = [stage EXCEPT ![r] = <<>>]
    BY <1>6 DEF Decide
  <2>2. CASE q = r
    <3>1. stage'[q] = <<>> /\ done'[q] = 0 /\ layer'[q] = 0 /\ pc'[q] \in {"stage", "clear"}
      BY <1>t, <2>1, <2>2
    <3>2. Len(Received(q)') \in Nat
      <4>1. Received(q)' = IncomingSlots(q, 0)
        BY <2>1, <3>1 DEF Received, IncomingSlots
      <4>2. IncomingSlots(q, 0) = Slots(plan[q][0], q) /\ 0 \in LayerSet
        BY LayerTypes DEF IncomingSlots, Slots, LayerSet
      <4>3. Balanced(plan[q][0])
        BY <4>2 DEF TypeInv
      <4> QED
        BY <4>1, <4>2, <4>3, SlotsReceived
    <3> QED
      BY <1>s, <3>1, <3>2 DEF Staging
  <2>3. CASE q # r
    BY <1>t, <1>u, <2>1, <2>3
  <2> QED
    BY <2>2, <2>3
<1>7. ASSUME NEW r \in Ranks, Stage(r) PROVE Staging(q)'
  <2>1. CASE q = r
    <3>1. /\ pc[q] = "stage" /\ Len(Received(q)) \in Nat /\ UNCHANGED <<plan, layer>>
          /\ done[q] = Len(stage[q]) /\ done[q] <= Len(Received(q))
          /\ stage[q] \in Seq(Experts)
      BY <1>0, <1>7, <1>t, <2>1, ReceivedType DEF Stage, Staging, Control, ControlInv
    <3>2. CASE pc' = pc
      <4> DEFINE e == slots[layer[q]][Source(plan[q][layer[q]], Received(q)[done[q] + 1])]
      <4>1. /\ done[q] < Len(Received(q)) /\ done' = [done EXCEPT ![q] = @ + 1]
            /\ stage' = [stage EXCEPT ![q] = Append(@, e)]
        BY <1>7, <1>t, <2>1, <3>1, <3>2 DEF Stage
      <4> HIDE DEF e
      <4>2. Len(stage'[q]) = Len(stage[q]) + 1 /\ done'[q] = done[q] + 1
        BY <1>t, <3>1, <4>1
      <4>3. Len(stage[q]) \in Nat
        BY <3>1
      <4> QED
        BY <1>r, <3>1, <3>2, <4>1, <4>2, <4>3 DEF Staging
    <3>3. CASE pc' # pc
      BY <1>7, <1>r, <1>t, <2>1, <3>1, <3>3 DEF Stage, Staging
    <3> QED
      BY <3>2, <3>3
  <2>2. CASE q # r
    BY <1>7, <1>t, <1>u, <2>2 DEF Stage
  <2> QED
    BY <2>1, <2>2
<1>8. ASSUME NEW r \in Ranks, Install(r) PROVE Staging(q)'
  <2>1. CASE q = r
    <3>1. /\ pc[q] = "install" /\ Len(Received(q)) \in Nat /\ UNCHANGED plan
          /\ done[q] <= Len(Received(q)) /\ Len(stage[q]) = Len(Received(q))
          /\ layer[q] < Layers
      BY <1>0, <1>8, <1>t, <2>1, ReceivedType DEF Install, Staging, Control, ControlInv
    <3>2. CASE pc' = pc
      <4>1. /\ done[q] < Len(Received(q)) /\ done' = [done EXCEPT ![q] = @ + 1]
            /\ UNCHANGED <<layer, stage>>
        BY <1>8, <2>1, <3>1, <3>2, <1>t DEF Install
      <4>2. done'[q] = done[q] + 1 /\ done[q] \in Nat
        BY <1>t, <4>1
      <4> QED
        BY <1>r, <3>1, <3>2, <4>1, <4>2 DEF Staging
    <3>3. CASE pc' # pc
      <4>1. /\ pc' = [pc EXCEPT ![q] = IF layer[q] + 1 < Layers THEN "stage" ELSE "relabel"]
            /\ layer' = [layer EXCEPT ![q] = @ + 1] /\ done' = [done EXCEPT ![q] = 0]
            /\ stage' = [stage EXCEPT ![q] = <<>>]
        BY <1>8, <2>1, <3>3 DEF Install
      <4>2. stage'[q] = <<>> /\ done'[q] = 0 /\ layer'[q] = layer[q] + 1
        BY <1>t, <4>1
      <4>3. CASE layer[q] + 1 < Layers
        <5>1. layer[q] + 1 \in LayerSet
          BY <1>t, <4>3, LayerTypes DEF LayerSet
        <5>2. Received(q)' = Slots(plan[q][layer[q] + 1], q)
          BY <3>1, <4>2 DEF Received, IncomingSlots, Slots
        <5>3. Balanced(plan[q][layer[q] + 1])
          BY <5>1 DEF TypeInv
        <5>4. Len(Received(q)') \in Nat
          BY <5>2, <5>3, SlotsReceived
        <5> QED
          BY <1>s, <1>t, <4>1, <4>2, <4>3, <5>4 DEF Staging
      <4>4. CASE ~(layer[q] + 1 < Layers)
        BY <1>t, <4>1, <4>2, <4>4 DEF Staging
      <4> QED
        BY <4>3, <4>4
    <3> QED
      BY <3>2, <3>3
  <2>2. CASE q # r
    BY <1>8, <1>t, <1>u, <2>2 DEF Install
  <2> QED
    BY <2>1, <2>2
<1>9. ASSUME NEW r \in Ranks, Relabel(r) PROVE Staging(q)'
  BY <1>0, <1>t, <1>9, <1>u DEF Relabel, Staging
<1>10. ASSUME NEW r \in Ranks, Clear(r) PROVE Staging(q)'
  BY <1>0, <1>t, <1>10, <1>u DEF Clear, Staging
<1>11. ASSUME NEW r \in Ranks, Compute(r) PROVE Staging(q)'
  BY <1>0, <1>t, <1>11, <1>u DEF Compute, Staging
<1>12. CASE UNCHANGED vars
  BY <1>12, <1>u DEF vars
<1> QED
  BY <1>1, <1>2, <1>3, <1>4, <1>5, <1>6, <1>7, <1>8, <1>9, <1>10, <1>11, <1>12
     DEF Next, Rank, Terminated
-----------------------------------------------------------------------------
(* Two ranks are in one stretch, or one is in the wait before the other's. *)
Abreast(r, q) == Together(r, q) \/ Ahead(r, q) \/ Ahead(q, r)

LEMMA NearRanks ==
  ASSUME TypeInv, SyncInv, NEW r \in Ranks, NEW q \in Ranks
  PROVE  Abreast(r, q)
<1>1. passed[r] \in Nat /\ passed[q] \in Nat
  BY DEF TypeInv
<1>2. passed[r] <= passed[q] + 1 /\ passed[q] <= passed[r] + 1
  BY <1>1 DEF SyncInv, Sync!Entered
<1>3. passed[r] = passed[q] \/ passed[r] = passed[q] + 1 \/ passed[q] = passed[r] + 1
  BY <1>1, <1>2
<1> QED
  BY <1>3 DEF SyncInv, Abreast

(* Ranks that wait at the end of one stretch go on to the same one.  After *)
(* the votes this takes that they decide alike.                            *)
LEMMA SameNext ==
  ASSUME TypeInv, ControlInv, AgreeInv, NEW r \in Ranks, NEW q \in Ranks,
         r \in inside, q \in inside, Together(r, q)
  PROVE  step[r] = step[q] /\ NextPhase(r) = NextPhase(q)
<1>1. /\ pc[r] \in Waiting /\ pc[q] \in Waiting /\ Control(r) /\ Control(q)
      /\ step[r] \in Nat /\ step[q] \in Nat /\ layer[r] \in Nat /\ layer[q] \in Nat
      /\ layer[r] <= Layers /\ layer[q] <= Layers /\ Layers \in Nat /\ Layers >= 1
  BY LayerTypes DEF ControlInv, Control, TypeInv
<1>2. ~(pc[r] = "staged" /\ pc[q] = "cleared" /\ layer[q] = 0)
      /\ ~(pc[q] = "staged" /\ pc[r] = "cleared" /\ layer[r] = 0)
  BY DEF AgreeInv, Moving
<1>3. \A x \in {r, q} : pc[x] \in Waiting \ {"computed"} => MoveAt(step[x]) /\ Base(x) = step[x]
  BY <1>1 DEF Control, Waiting, Planned, Base
<1>4. ASSUME NEW x \in {r, q}, pc[x] \in Waiting
      PROVE  \/ pc[x] = "published" /\ Phase(x) = 0 /\ NextPhase(x) = 1
             \/ pc[x] = "voted" /\ Phase(x) = 1 /\ NextPhase(x) = 2
             \/ pc[x] = "staged" /\ Phase(x) = 2 + layer[x] /\ NextPhase(x) = 3 + layer[x]
             \/ pc[x] = "cleared" /\ Phase(x) = 2 + layer[x] /\ NextPhase(x) = Layers + 3
             \/ /\ pc[x] = "computed" /\ NextPhase(x) = 0 /\ Base(x) = step[x] - 1
                /\ Phase(x) = IF MoveAt(Base(x)) THEN Layers + 3 ELSE 0
  BY <1>4 DEF Waiting, Phase, NextPhase, Base
<1>5. Base(r) = Base(q) /\ Phase(r) = Phase(q)
  BY DEF Together
<1> HIDE DEF NextPhase, Phase, Base, MoveAt
<1>6. /\ pc[r] = "staged" => layer[r] < Layers
      /\ pc[q] = "staged" => layer[q] < Layers
      /\ pc[r] = "cleared" => layer[r] \in {0, Layers}
      /\ pc[q] = "cleared" => layer[q] \in {0, Layers}
  BY <1>1 DEF Control
<1>7. CASE pc[r] # "computed" /\ pc[q] # "computed"
  <2>1. step[r] = step[q]
    BY <1>1, <1>3, <1>5, <1>7
  <2> QED
    BY <1>1, <1>2, <1>4, <1>5, <1>6, <1>7, <2>1
<1>8. CASE pc[r] = "computed" \/ pc[q] = "computed"
  <2>1. pc[r] = "computed" /\ pc[q] = "computed"
    BY <1>1, <1>3, <1>4, <1>5, <1>6, <1>8
  <2> QED
    BY <1>1, <1>4, <1>5, <2>1
<1> QED
  BY <1>7, <1>8

Synced == TypeInv /\ ControlInv /\ SyncInv

(* What is known of two ranks, in one place. *)
LEMMA Pairs ==
  ASSUME Synced, NEW r \in Ranks, NEW q \in Ranks
  PROVE  /\ Abreast(r, q) /\ Control(r) /\ Control(q)
         /\ pc[r] \in Points /\ pc[q] \in Points
         /\ step[r] \in Nat /\ step[q] \in Nat
         /\ layer[r] \in Nat /\ layer[q] \in Nat /\ layer[r] <= Layers /\ layer[q] <= Layers
         /\ Layers \in Nat /\ Layers >= 1
<1>1. Abreast(r, q) /\ Control(r) /\ Control(q)
  BY NearRanks DEF Synced, ControlInv
<1>2. /\ pc[r] \in Points /\ pc[q] \in Points /\ step[r] \in Nat /\ step[q] \in Nat
      /\ layer[r] \in 0 .. Layers /\ layer[q] \in 0 .. Layers
  BY DEF Synced, TypeInv
<1> QED
  BY <1>1, <1>2, LayerTypes

(* Nobody plans or votes while a rank still publishes, or decides while    *)
(* one still plans.                                                        *)
LEMMA Publishing ==
  ASSUME Synced, NEW r \in Ranks, NEW q \in Ranks, pc[r] = "publish"
  PROVE  pc[q] \notin Planned \cup {"plan"}
BY Pairs DEF Abreast, Together, Ahead, Base, Phase, NextPhase, Control, Waiting, Planned

LEMMA Planning ==
  ASSUME Synced, NEW r \in Ranks, NEW q \in Ranks, pc[r] = "plan"
  PROVE  pc[q] \in Planned => pc[q] = "voted"
BY Pairs DEF Abreast, Together, Ahead, Base, Phase, NextPhase, Control, Waiting, Planned

LEMMA Deciding ==
  ASSUME Synced, NEW r \in Ranks, NEW q \in Ranks, pc[r] = "decide"
  PROVE  pc[q] \in {"clear", "cleared"} => layer[q] = 0
BY Pairs DEF Abreast, Together, Ahead, Base, Phase, NextPhase, Control, Waiting, Planned

(* No expert moves while a rank computes. *)
LEMMA Computing ==
  ASSUME Synced, NEW r \in Ranks, NEW q \in Ranks, pc[r] = "layers"
  PROVE  ~Migrating(q)
BY Pairs DEF Abreast, Together, Ahead, Base, Phase, NextPhase, Control, Waiting, Planned, Migrating

(* While a rank migrates, all are between their votes and their layers. *)
LEMMA Migration ==
  ASSUME Synced, NEW r \in Ranks, NEW q \in Ranks, Migrating(r)
  PROVE  pc[q] \in Planned /\ (pc[q] = "voted" => q \in inside)
BY Pairs DEF Abreast, Together, Ahead, Base, Phase, NextPhase, Control, Waiting, Planned, Migrating,
             Points

(* No slot of a layer is overwritten while a rank still reads that layer. *)
LEMMA Reading ==
  ASSUME Synced, NEW r \in Ranks, NEW q \in Ranks, pc[r] = "stage", NEW k
  PROVE  ~Installed(q, layer[r], k)
BY Pairs DEF Abreast, Together, Ahead, Base, Phase, NextPhase, Control, Waiting, Planned, Installed

(* Once one rank overwrites slots of a layer, all have staged it. *)
LEMMA Overwriting ==
  ASSUME Synced, AgreeInv, NEW v \in Ranks, Migrating(v), NEW r \in Ranks, NEW q \in Ranks,
         NEW l \in LayerSet, NEW k, Installed(r, l, k)
  PROVE  \/ pc[q] \in {"stage", "staged", "install", "relabel", "clear", "cleared"}
            /\ layer[q] > l
         \/ pc[q] \in {"staged", "install"} /\ layer[q] = l
<1>1. pc[q] \in Planned /\ pc[r] \in {"stage", "staged", "install", "relabel", "clear", "cleared"}
  BY Migration DEF Installed
<1>2. \A x \in {r, q} : pc[x] \in {"clear", "cleared"} => layer[x] = Layers
  BY Pairs DEF AgreeInv, Migrating, Moving, Control
<1>3. l \in Nat /\ l < Layers
  BY LayerTypes
<1> QED
  BY <1>1, <1>2, <1>3, Pairs
     DEF Abreast, Together, Ahead, Base, Phase, NextPhase, Control, Waiting, Planned, Installed

(* The last rank that leaves a move finds all others through with it. *)
LEMMA LastOut ==
  ASSUME Synced, NEW r \in Ranks, NEW q \in Ranks, pc[r] = "clear", layer[r] = Layers,
         q # r, ~Migrating(q)
  PROVE  pc[q] = "cleared" /\ layer[q] = Layers
<1>1. Migrating(r)
  BY DEF Migrating
<1>2. pc[q] \in {"voted", "decide", "clear", "cleared"}
  BY <1>1, Migration DEF Migrating, Planned
<1> QED
  BY <1>2, Pairs DEF Abreast, Together, Ahead, Base, Phase, NextPhase, Control, Waiting, Planned,
                     Migrating
-----------------------------------------------------------------------------
LEMMA SyncStep == Synced /\ StageInv /\ AgreeInv /\ [Next]_vars => SyncInv'
<1> SUFFICES ASSUME Synced, StageInv, AgreeInv, [Next]_vars PROVE SyncInv'
  OBVIOUS
<1> USE DEF stepVars, moveVars, placeVars, barrierVars, GoTo
<1>0. TypeInv /\ ControlInv /\ SyncInv /\ \A q \in Ranks : Control(q)
  BY DEF Synced, ControlInv
<1>t. /\ pc \in [Ranks -> Points] /\ step \in [Ranks -> Nat] /\ layer \in [Ranks -> 0 .. Layers]
      /\ passed \in [Ranks -> Nat] /\ inside \subseteq Ranks /\ Layers \in Nat /\ Layers >= 1
  BY <1>0, LayerTypes DEF TypeInv
(* A step of one rank within its stretch. *)
<1>l. ASSUME NEW r \in Ranks, UNCHANGED <<passed, inside>>, r \notin inside,
             \A q \in Ranks : q # r => pc'[q] = pc[q] /\ step'[q] = step[q] /\ layer'[q] = layer[q],
             Base(r)' = Base(r), Phase(r)' = Phase(r)
      PROVE  SyncInv'
  <2>1. \A q \in Ranks : Base(q)' = Base(q) /\ Phase(q)' = Phase(q)
    BY <1>l DEF Base, Phase
  <2>2. \A q \in inside : step'[q] = step[q] /\ NextPhase(q)' = NextPhase(q)
    BY <1>l, <1>t DEF NextPhase
  <2>3. \A q, v \in Ranks : Together(q, v) => Together(q, v)'
    BY <2>1 DEF Together
  <2>4. \A q, v \in Ranks : Ahead(q, v) => Ahead(q, v)'
    BY <1>l, <2>1, <2>2 DEF Ahead
  <2> QED
    BY <1>0, <1>l, <2>3, <2>4 DEF SyncInv, Sync!Entered
<1>1. ASSUME NEW r \in Ranks, BeginStep(r) PROVE SyncInv'
  BY <1>0, <1>l, <1>t, <1>1
     DEF BeginStep, MoveNow, MoveAt, Control, Waiting, Base, Phase
<1>2. ASSUME NEW r \in Ranks, Publish(r) PROVE SyncInv'
  BY <1>0, <1>l, <1>t, <1>2 DEF Publish, Control, Waiting, Base, Phase
<1>3. ASSUME NEW r \in Ranks, Arrive(r) PROVE SyncInv'
  <2>1. /\ inside' = inside \cup {r} /\ UNCHANGED <<passed, pc, step, layer>>
    BY <1>3 DEF Arrive, Sync!Arrive
  <2>2. \A q, v \in Ranks : (Together(q, v) => Together(q, v)') /\ (Ahead(q, v) => Ahead(q, v)')
    BY <2>1 DEF Together, Ahead, Base, Phase, NextPhase
  <2>3. \A q, v \in Ranks : passed[q] <= Sync!Entered(v) => passed'[q] <= Sync!Entered(v)'
    BY <1>t, <2>1 DEF Sync!Entered
  <2> QED
    BY <1>0, <2>1, <2>2, <2>3 DEF SyncInv
<1>4. ASSUME NEW r \in Ranks, Leave(r) PROVE SyncInv'
  <2>1. /\ pc[r] \in Waiting /\ pc' = [pc EXCEPT ![r] = WaitsThen[pc[r]]]
        /\ UNCHANGED <<step, layer>> /\ r \in inside /\ inside' = inside \ {r}
        /\ \A u \in Ranks : Sync!Entered(u) > passed[r]
        /\ passed' = [passed EXCEPT ![r] = @ + 1]
    BY <1>4, WaitTypes DEF Leave, Sync!Leave
  <2>2. Base(r)' = step[r] /\ Phase(r)' = NextPhase(r)
    <3>1. pc[r] = "cleared" => MoveAt(step[r])
      BY <1>0 DEF Control, Planned
    <3>2. step'[r] = step[r] /\ layer'[r] = layer[r] /\ pc'[r] = WaitsThen[pc[r]]
      BY <1>t, <2>1
    <3> QED
      BY <2>1, <3>1, <3>2, WaitTypes DEF Base, Phase, NextPhase, Waiting, MoveAt
  <2>3. \A q \in Ranks : q # r =>
          /\ Base(q)' = Base(q) /\ Phase(q)' = Phase(q) /\ NextPhase(q)' = NextPhase(q)
          /\ step'[q] = step[q] /\ passed'[q] = passed[q] /\ (q \in inside' <=> q \in inside)
    BY <1>t, <2>1 DEF Base, Phase, NextPhase, MoveAt
  <2>4. passed'[r] = passed[r] + 1
    BY <1>t, <2>1
  <2>5. ASSUME NEW q \in Ranks, q # r
        PROVE  \/ passed[q] = passed[r] + 1 /\ Ahead(q, r)
               \/ passed[q] = passed[r] /\ q \in inside /\ Together(r, q)
    <3>1. passed[q] \in Nat /\ passed[r] \in Nat /\ passed[q] <= passed[r] + 1
      BY <1>0, <1>t, <2>1 DEF SyncInv, Sync!Entered
    <3>2. passed[q] > passed[r] \/ (q \in inside /\ passed[q] + 1 > passed[r])
      BY <1>t, <2>1 DEF Sync!Entered
    <3>3. passed[r] <= passed[q] + (IF q \in inside THEN 1 ELSE 0)
      BY <1>0 DEF SyncInv, Sync!Entered
    <3>4. passed[q] = passed[r] + 1 \/ (q \in inside /\ passed[q] = passed[r])
      BY <3>1, <3>2
    <3> QED
      BY <1>0, <3>4 DEF SyncInv
  <2>6. ASSUME NEW q \in Ranks, q # r, passed[q] = passed[r] + 1
        PROVE  Together(q, r)' /\ Together(r, q)' /\ passed'[q] = passed'[r]
    <3>1. Ahead(q, r)
      BY <1>t, <2>5, <2>6
    <3> QED
      BY <2>2, <2>3, <2>4, <2>6, <3>1 DEF Together, Ahead
  <2>7. ASSUME NEW q \in Ranks, q # r, passed[q] # passed[r] + 1
        PROVE  Ahead(r, q)' /\ passed'[r] = passed'[q] + 1 /\ q \in inside
    <3>1. passed[q] = passed[r] /\ q \in inside /\ Together(r, q)
      BY <2>5, <2>7
    <3>2. step[r] = step[q] /\ NextPhase(r) = NextPhase(q)
      BY <1>0, <2>1, <3>1, SameNext
    <3>3. Base(r)' = step'[q] /\ Phase(r)' = NextPhase(q)' /\ q \in inside'
      BY <2>2, <2>3, <2>7, <3>1, <3>2
    <3> QED
      BY <2>3, <2>4, <2>7, <3>1, <3>3 DEF Ahead
  <2>8. ASSUME NEW q \in Ranks, NEW v \in Ranks
        PROVE  /\ passed'[q] <= Sync!Entered(v)'
               /\ passed'[q] = passed'[v] => Together(q, v)'
               /\ passed'[q] = passed'[v] + 1 => Ahead(q, v)'
    <3>0. passed' \in [Ranks -> Nat]
      BY <1>t, <2>1
    <3>1. CASE q = v
      <4>1. passed'[q] \in Nat
        BY <3>0
      <4> QED
        BY <3>1, <4>1 DEF Together, Sync!Entered
    <3>2. CASE q = r /\ v # r
      <4>1. CASE passed[v] = passed[r] + 1
        BY <2>6, <3>0, <3>2, <4>1 DEF Sync!Entered
      <4>2. CASE passed[v] # passed[r] + 1
        <5>1. Ahead(r, v)' /\ passed'[r] = passed'[v] + 1 /\ v \in inside'
          BY <2>3, <2>7, <3>2, <4>2
        <5> QED
          BY <3>0, <3>2, <5>1 DEF Sync!Entered
      <4> QED
        BY <4>1, <4>2
    <3>3. CASE q # r /\ v = r
      <4>1. CASE passed[q] = passed[r] + 1
        BY <2>6, <3>0, <3>3, <4>1 DEF Sync!Entered
      <4>2. CASE passed[q] # passed[r] + 1
        <5>1. passed'[r] = passed'[q] + 1 /\ passed'[q] \in Nat /\ passed'[r] \in Nat
          BY <2>7, <3>0, <3>3, <4>2
        <5> QED
          BY <3>3, <5>1 DEF Sync!Entered
      <4> QED
        BY <4>1, <4>2
    <3>4. CASE q # r /\ v # r
      <4>1. Together(q, v) => Together(q, v)'
        BY <2>3, <3>4 DEF Together
      <4>2. Ahead(q, v) => Ahead(q, v)'
        BY <2>3, <3>4 DEF Ahead
      <4>3. Sync!Entered(v)' = Sync!Entered(v) /\ passed'[q] = passed[q] /\ passed'[v] = passed[v]
        BY <2>3, <3>4 DEF Sync!Entered
      <4> QED
        BY <1>0, <4>1, <4>2, <4>3 DEF SyncInv
    <3> QED
      BY <3>1, <3>2, <3>3, <3>4
  <2> QED
    BY <2>8 DEF SyncInv
<1>5. ASSUME NEW r \in Ranks, Vote(r) PROVE SyncInv'
  <2>1. /\ pc[r] = "plan" /\ pc' = [pc EXCEPT ![r] = "voted"]
        /\ UNCHANGED <<step, layer, inside, passed>>
    BY <1>5 DEF Vote
  <2> QED
    BY <1>0, <1>l, <1>t, <2>1 DEF Control, Waiting, Base, Phase
<1>6. ASSUME NEW r \in Ranks, Decide(r) PROVE SyncInv'
  <2>1. /\ pc[r] = "decide" /\ (pc' = [pc EXCEPT ![r] = "stage"] \/ pc' = [pc EXCEPT ![r] = "clear"])
        /\ layer' = [layer EXCEPT ![r] = 0] /\ UNCHANGED <<step, inside, passed>>
    BY <1>6 DEF Decide
  <2> QED
    BY <1>0, <1>l, <1>t, <2>1 DEF Control, Waiting, Base, Phase
<1>7. ASSUME NEW r \in Ranks, Stage(r) PROVE SyncInv'
  <2>1. /\ pc[r] = "stage" /\ (pc' = pc \/ pc' = [pc EXCEPT ![r] = "staged"])
        /\ UNCHANGED <<step, layer, inside, passed>>
    BY <1>7 DEF Stage
  <2> QED
    BY <1>0, <1>l, <1>t, <2>1 DEF Control, Waiting, Base, Phase
<1>8. ASSUME NEW r \in Ranks, Install(r) PROVE SyncInv'
  <2>1. /\ pc[r] = "install" /\ UNCHANGED <<step, inside, passed>>
        /\ \/ UNCHANGED <<pc, layer>>
           \/ /\ pc' = [pc EXCEPT ![r] = IF layer[r] + 1 < Layers THEN "stage" ELSE "relabel"]
              /\ layer' = [layer EXCEPT ![r] = @ + 1]
    BY <1>8 DEF Install
  <2>2. layer[r] \in Nat
    BY <1>t
  <2> QED
    BY <1>0, <1>l, <1>t, <2>1, <2>2 DEF Control, Waiting, Base, Phase
<1>9. ASSUME NEW r \in Ranks, Relabel(r) PROVE SyncInv'
  BY <1>0, <1>l, <1>t, <1>9 DEF Relabel, Control, Waiting, Base, Phase
<1>10. ASSUME NEW r \in Ranks, Clear(r) PROVE SyncInv'
  BY <1>0, <1>l, <1>t, <1>10 DEF Clear, Control, Waiting, Base, Phase
<1>11. ASSUME NEW r \in Ranks, Compute(r) PROVE SyncInv'
  BY <1>0, <1>l, <1>t, <1>11 DEF Compute, Control, Waiting, Base, Phase
<1>12. CASE UNCHANGED vars
  <2>1. UNCHANGED <<pc, step, layer, inside, passed>>
    BY <1>12 DEF vars
  <2> QED
    BY <1>0, <2>1 DEF SyncInv, Sync!Entered, Together, Ahead, Base, Phase, NextPhase
<1> QED
  BY <1>1, <1>2, <1>3, <1>4, <1>5, <1>6, <1>7, <1>8, <1>9, <1>10, <1>11, <1>12
     DEF Next, Rank, Terminated

LEMMA PlanStep == Synced /\ PlanInv /\ [Next]_vars => PlanInv'
<1> DEFINE Good(q) == pc[q] \in Planned =>
                        /\ \A l \in LayerSet : plan[q][l] = Own(l)
                        /\ ok[q] => Room(q)
<1> SUFFICES ASSUME Synced, PlanInv, [Next]_vars, NEW q \in Ranks
             PROVE  Good(q)'
  BY DEF PlanInv
<1> USE DEF stepVars, moveVars, placeVars, barrierVars, GoTo
<1>0. Good(q)
  BY DEF PlanInv
<1>t. pc \in [Ranks -> Points] /\ plan \in [Ranks -> [LayerSet -> Plans]]
      /\ stageCap \in [Ranks -> Nat] /\ ok \in [Ranks -> BOOLEAN]
  BY DEF Synced, TypeInv
<1>u. /\ plan'[q] = plan[q] /\ tiles' = tiles /\ ok'[q] = ok[q] /\ stageCap'[q] = stageCap[q]
      /\ pc'[q] \in Planned => pc[q] \in Planned
      => Good(q)'
  BY <1>0 DEF Own, Room
<1> HIDE DEF Good
<1>1. ASSUME NEW r \in Ranks, BeginStep(r) PROVE Good(q)'
  <2>1. pc' = [pc EXCEPT ![r] = "publish"] \/ pc' = [pc EXCEPT ![r] = "layers"]
    BY <1>1 DEF BeginStep
  <2> QED
    BY <1>t, <1>u, <1>1, <2>1 DEF BeginStep, Planned
<1>2. ASSUME NEW r \in Ranks, Publish(r) PROVE Good(q)'
  <2>1. pc[q] \notin Planned /\ pc' = [pc EXCEPT ![r] = "published"]
    BY <1>2, Publishing DEF Publish
  <2> QED
    BY <1>t, <2>1 DEF Good, Planned
<1>3. ASSUME NEW r \in Ranks, Arrive(r) PROVE Good(q)'
  BY <1>3, <1>u DEF Arrive
<1>4. ASSUME NEW r \in Ranks, Leave(r) PROVE Good(q)'
  <2>1. /\ pc[r] \in Waiting /\ pc' = [pc EXCEPT ![r] = WaitsThen[pc[r]]]
        /\ UNCHANGED <<plan, tiles, ok, stageCap>>
    BY <1>4, WaitTypes DEF Leave
  <2> QED
    BY <1>t, <1>u, <2>1, WaitTypes DEF Waiting, Planned
<1>5. ASSUME NEW r \in Ranks, Vote(r) PROVE Good(q)'
  <2> DEFINE own == [l \in LayerSet |-> Own(l)]
             need == MostIncoming(own, r)
  <2>1. /\ plan' = [plan EXCEPT ![r] = own] /\ pc' = [pc EXCEPT ![r] = "voted"]
        /\ pc[r] = "plan" /\ UNCHANGED tiles
    BY <1>5 DEF Vote, Own
  <2>2. \/ /\ need <= stageCap[r] /\ ok' = [ok EXCEPT ![r] = TRUE] /\ UNCHANGED stageCap
        \/ /\ stageCap' = [stageCap EXCEPT ![r] = need] /\ ok' = [ok EXCEPT ![r] = TRUE]
        \/ /\ stageCap' = [stageCap EXCEPT ![r] = 0]
           /\ ok' = [ok EXCEPT ![r] = need <= BorrowRoom]
    BY <1>5 DEF Vote, Own
  <2>3. CASE q = r
    <3>1. plan'[q] = own
      BY <1>t, <2>1, <2>3
    <3>2. \A l \in LayerSet : plan'[q][l] = Own(l)'
      BY <2>1, <3>1 DEF Own
    <3>3. need \in Nat
      <4>1. \A l \in LayerSet : Balanced(own[l])
        BY OwnBalanced DEF Synced, TypeInv
      <4> HIDE DEF own
      <4> QED
        BY <4>1, NeedType
    <3> HIDE DEF own
    <3>4. ok'[q] => need <= stageCap'[q] \/ need <= BorrowRoom
      <4> HIDE DEF need
      <4>1. CASE need <= stageCap[r] /\ UNCHANGED stageCap
        BY <2>3, <4>1
      <4>2. CASE stageCap' = [stageCap EXCEPT ![r] = need]
        <5>1. stageCap'[q] = need
          BY <1>t, <2>3, <4>2
        <5> QED
          BY <3>3, <5>1
      <4>3. CASE ok' = [ok EXCEPT ![r] = need <= BorrowRoom]
        <5>1. ok'[q] = (need <= BorrowRoom)
          BY <1>t, <2>3, <4>3, Zenon
        <5> QED
          BY <5>1, Zenon
      <4> QED
        BY <2>2, <4>1, <4>2, <4>3
    <3>5. Room(q)' <=> (need <= stageCap'[q] \/ need <= BorrowRoom)
      BY <2>3, <3>1 DEF Room, MostIncoming
    <3> QED
      BY <3>2, <3>4, <3>5 DEF Good
  <2>4. CASE q # r
    <3> HIDE DEF need, own
    <3>1. plan'[q] = plan[q] /\ pc'[q] = pc[q]
      BY <1>t, <2>1, <2>4
    <3>2. ok'[q] = ok[q] /\ stageCap'[q] = stageCap[q]
      BY <1>t, <2>2, <2>4
    <3> QED
      BY <1>u, <2>1, <3>1, <3>2
  <2> QED
    BY <2>3, <2>4
<1>6. ASSUME NEW r \in Ranks, Decide(r) PROVE Good(q)'
  <2>1. pc' = [pc EXCEPT ![r] = "stage"] \/ pc' = [pc EXCEPT ![r] = "clear"]
    BY <1>6 DEF Decide
  <2> QED
    BY <1>t, <1>u, <1>6, <2>1 DEF Decide, Planned
<1>7. ASSUME NEW r \in Ranks, Stage(r) PROVE Good(q)'
  <2>1. /\ pc[r] = "stage" /\ (pc' = pc \/ pc' = [pc EXCEPT ![r] = "staged"])
        /\ UNCHANGED <<plan, tiles, ok, stageCap>>
    BY <1>7 DEF Stage
  <2> QED
    BY <1>t, <1>u, <2>1 DEF Planned
<1>8. ASSUME NEW r \in Ranks, Install(r) PROVE Good(q)'
  <2>1. /\ pc[r] = "install" /\ UNCHANGED <<plan, tiles, ok, stageCap>>
        /\ \/ pc' = pc \/ pc' = [pc EXCEPT ![r] = "stage"]
           \/ pc' = [pc EXCEPT ![r] = "relabel"]
    BY <1>8 DEF Install
  <2> QED
    BY <1>t, <1>u, <2>1 DEF Planned
<1>9. ASSUME NEW r \in Ranks, Relabel(r) PROVE Good(q)'
  BY <1>t, <1>u, <1>9 DEF Relabel, Planned
<1>10. ASSUME NEW r \in Ranks, Clear(r) PROVE Good(q)'
  BY <1>t, <1>u, <1>10 DEF Clear, Planned
<1>11. ASSUME NEW r \in Ranks, Compute(r) PROVE Good(q)'
  BY <1>t, <1>u, <1>11 DEF Compute, Planned
<1>12. CASE UNCHANGED vars
  BY <1>12, <1>u DEF vars
<1> QED
  BY <1>1, <1>2, <1>3, <1>4, <1>5, <1>6, <1>7, <1>8, <1>9, <1>10, <1>11, <1>12
     DEF Next, Rank, Terminated

LEMMA AgreeStep == Synced /\ PlanInv /\ AgreeInv /\ [Next]_vars => AgreeInv'
<1> DEFINE Alike(q) == /\ Moving(q) => Moves
                       /\ pc[q] \in {"clear", "cleared"} /\ layer[q] = 0 => ~Moves
<1> SUFFICES ASSUME Synced, PlanInv, AgreeInv, [Next]_vars, NEW q \in Ranks
             PROVE  Alike(q)'
  BY DEF AgreeInv
<1> USE DEF stepVars, moveVars, placeVars, barrierVars, GoTo
<1>0. Alike(q) /\ \A r \in Ranks : Control(r)
  BY DEF AgreeInv, Synced, ControlInv
<1>t. /\ pc \in [Ranks -> Points] /\ layer \in [Ranks -> 0 .. Layers]
      /\ Layers \in Nat /\ Layers >= 1
  BY LayerTypes DEF Synced, TypeInv
<1>m. tiles' = tiles /\ ok' = ok => Moves' = Moves
  BY DEF Moves, Own
<1>u. /\ tiles' = tiles /\ ok' = ok
      /\ pc'[q] # pc[q] => ~Moving(q)' /\ pc'[q] \notin {"clear", "cleared"}
      /\ layer'[q] = layer[q] \/ pc'[q] \notin {"clear", "cleared"}
      => Alike(q)'
  BY <1>0, <1>m DEF Moving
<1> HIDE DEF Alike
<1>1. ASSUME NEW r \in Ranks, BeginStep(r) PROVE Alike(q)'
  <2>1. /\ pc' = [pc EXCEPT ![r] = "publish"] \/ pc' = [pc EXCEPT ![r] = "layers"]
        /\ UNCHANGED <<tiles, ok, layer>>
    BY <1>1 DEF BeginStep
  <2> QED
    BY <1>t, <1>u, <2>1 DEF Moving
<1>2. ASSUME NEW r \in Ranks, Publish(r) PROVE Alike(q)'
  <2>1. pc[q] \notin Planned /\ pc' = [pc EXCEPT ![r] = "published"]
    BY <1>2, Publishing DEF Publish
  <2> QED
    BY <1>t, <2>1 DEF Alike, Planned, Moving
<1>3. ASSUME NEW r \in Ranks, Arrive(r) PROVE Alike(q)'
  BY <1>3, <1>u DEF Arrive
<1>4. ASSUME NEW r \in Ranks, Leave(r) PROVE Alike(q)'
  <2>1. /\ pc[r] \in Waiting /\ pc' = [pc EXCEPT ![r] = WaitsThen[pc[r]]]
        /\ UNCHANGED <<tiles, ok, layer>>
    BY <1>4, WaitTypes DEF Leave
  <2>2. CASE q = r /\ pc[r] = "staged"
    <3>1. Moves /\ pc'[q] = "install"
      BY <1>0, <1>t, <2>1, <2>2, WaitTypes DEF Alike, Moving
    <3> QED
      BY <1>m, <2>1, <3>1 DEF Alike
  <2>3. CASE q # r \/ pc[r] # "staged"
    BY <1>t, <1>u, <2>1, <2>3, WaitTypes DEF Waiting, Moving
  <2> QED
    BY <2>2, <2>3
<1>5. ASSUME NEW r \in Ranks, Vote(r) PROVE Alike(q)'
  <2>1. pc[r] = "plan" /\ pc' = [pc EXCEPT ![r] = "voted"]
    BY <1>5 DEF Vote
  <2>2. pc[q] \in Planned => pc[q] = "voted"
    BY <2>1, Planning
  <2> QED
    BY <1>t, <2>1, <2>2 DEF Alike, Planned, Moving
<1>6. ASSUME NEW r \in Ranks, Decide(r) PROVE Alike(q)'
  <2>1. /\ pc[r] = "decide" /\ UNCHANGED <<tiles, ok>> /\ layer' = [layer EXCEPT ![r] = 0]
        /\ pc' = [pc EXCEPT ![r] = IF /\ \A v \in Ranks : ok[v]
                                      /\ \E l \in LayerSet : Moved(plan[r][l]) # {}
                                   THEN "stage" ELSE "clear"]
    BY <1>6 DEF Decide
  <2>2. \A l \in LayerSet : plan[r][l] = Own(l)
    BY <2>1 DEF PlanInv, Planned
  <2>3. pc' = [pc EXCEPT ![r] = IF Moves THEN "stage" ELSE "clear"]
    BY <2>1, <2>2 DEF Moves
  <2>4. CASE q = r
    <3>1. pc'[q] = (IF Moves THEN "stage" ELSE "clear") /\ layer'[q] = 0
      BY <1>t, <2>1, <2>3, <2>4
    <3> QED
      BY <1>m, <1>t, <2>1, <3>1 DEF Alike, Moving
  <2>5. CASE q # r
    BY <1>t, <1>u, <2>1, <2>5
  <2> QED
    BY <2>4, <2>5
<1>7. ASSUME NEW r \in Ranks, Stage(r) PROVE Alike(q)'
  <2>1. /\ pc[r] = "stage" /\ (pc' = pc \/ pc' = [pc EXCEPT ![r] = "staged"])
        /\ UNCHANGED <<tiles, ok, layer>>
    BY <1>7 DEF Stage
  <2> QED
    BY <1>0, <1>m, <1>t, <1>u, <2>1 DEF Alike, Moving
<1>8. ASSUME NEW r \in Ranks, Install(r) PROVE Alike(q)'
  <2>1. /\ pc[r] = "install" /\ UNCHANGED <<tiles, ok>>
        /\ \/ UNCHANGED <<pc, layer>>
           \/ /\ pc' = [pc EXCEPT ![r] = "stage"] \/ pc' = [pc EXCEPT ![r] = "relabel"]
              /\ layer' = [layer EXCEPT ![r] = @ + 1]
    BY <1>8 DEF Install
  <2> QED
    BY <1>0, <1>m, <1>t, <1>u, <2>1 DEF Alike, Moving
<1>9. ASSUME NEW r \in Ranks, Relabel(r) PROVE Alike(q)'
  <2>1. layer[r] = Layers
    BY <1>0, <1>9 DEF Relabel, Control
  <2> QED
    BY <1>0, <1>9, <1>m, <1>t, <1>u, <2>1 DEF Relabel, Alike, Moving
<1>10. ASSUME NEW r \in Ranks, Clear(r) PROVE Alike(q)'
  BY <1>0, <1>10, <1>m, <1>t, <1>u DEF Clear, Alike, Moving
<1>11. ASSUME NEW r \in Ranks, Compute(r) PROVE Alike(q)'
  BY <1>11, <1>t, <1>u DEF Compute, Moving
<1>12. CASE UNCHANGED vars
  BY <1>12, <1>u DEF vars
<1> QED
  BY <1>1, <1>2, <1>3, <1>4, <1>5, <1>6, <1>7, <1>8, <1>9, <1>10, <1>11, <1>12
     DEF Next, Rank, Terminated
-----------------------------------------------------------------------------
(* The k-th expert a rank receives, and which labels that fixes. *)
LEMMA OwnSlots ==
  ASSUME TypeInv, NEW l \in LayerSet
  PROVE  /\ Own(l) \in Plans
         /\ \A y \in Labels : Source(Own(l), y) \in Labels
         /\ \A x \in Labels : Source(Own(l), NewLabels(Own(l))[x]) = x
         /\ \A y \in Labels : NewLabels(Own(l))[Source(Own(l), y)] = y
         /\ \A x \in Labels : Own(l)[x] = RankOf(x) => NewLabels(Own(l))[x] = x
         /\ \A x \in Labels : NewLabels(Own(l))[x] \in Labels
         /\ \A r \in Ranks : Len(Slots(Own(l), r)) \in Nat
         /\ \A r \in Ranks : \A k \in 1 .. Len(Slots(Own(l), r)) :
              /\ Slots(Own(l), r)[k] \in Labels
              /\ Own(l)[Source(Own(l), Slots(Own(l), r)[k])] = r
              /\ RankOf(Source(Own(l), Slots(Own(l), r)[k])) # r
              /\ Place(Own(l), Source(Own(l), Slots(Own(l), r)[k])) = k
         /\ \A x \in Labels : Own(l)[x] # RankOf(x) =>
              /\ Own(l)[x] \in Ranks
              /\ Place(Own(l), x) \in 1 .. Len(Slots(Own(l), Own(l)[x]))
              /\ Slots(Own(l), Own(l)[x])[Place(Own(l), x)] = NewLabels(Own(l))[x]
<1> DEFINE own == Own(l)
<1>1. Balanced(own) /\ own \in Plans
  BY OwnBalanced DEF TypeInv, Balanced
<1>2. \A x \in Labels : own[x] \in Ranks
  BY <1>1 DEF Plans
<1> HIDE DEF own
<1>3. /\ \A x \in Labels : NewLabels(own)[x] \in Labels
      /\ \A x \in Labels : own[x] = RankOf(x) => NewLabels(own)[x] = x
      /\ \A x \in Labels : Source(own, NewLabels(own)[x]) = x
      /\ \A y \in Labels : Source(own, y) \in Labels /\ NewLabels(own)[Source(own, y)] = y
  BY <1>1, NewLabelsPermute
<1>4. ASSUME NEW r \in Ranks
      PROVE  /\ Len(Slots(own, r)) \in Nat
             /\ \A k \in 1 .. Len(Slots(own, r)) :
                  /\ Slots(own, r)[k] \in Labels
                  /\ own[Source(own, Slots(own, r)[k])] = r
                  /\ RankOf(Source(own, Slots(own, r)[k])) # r
                  /\ Place(own, Source(own, Slots(own, r)[k])) = k
             /\ \A x \in Labels : own[x] = r /\ own[x] # RankOf(x) =>
                  /\ Place(own, x) \in 1 .. Len(Slots(own, r))
                  /\ Slots(own, r)[Place(own, x)] = NewLabels(own)[x]
  BY <1>1, SlotsReceived
<1>5. \A x \in Labels : own[x] # RankOf(x) =>
              /\ own[x] \in Ranks
              /\ Place(own, x) \in 1 .. Len(Slots(own, own[x]))
              /\ Slots(own, own[x])[Place(own, x)] = NewLabels(own)[x]
  BY <1>2, <1>4
<1> QED
  BY <1>1, <1>3, <1>4, <1>5 DEF own

(* What the parts of the placement depend on. *)
LEMMA SameSlots ==
  ASSUME TypeInv, NEW was, SlotsHold(was), UNCHANGED <<tiles, slots>>,
         \A q \in Ranks, l \in LayerSet, x \in Labels :
           Own(l)[x] = q /\ Own(l)[x] # RankOf(x)
             => (Installed(q, l, Place(Own(l), x))' <=> Installed(q, l, Place(Own(l), x)))
  PROVE  SlotsHold(was)'
<1> SUFFICES ASSUME NEW l \in LayerSet, NEW y \in Labels
             PROVE  (slots[l][y] = was[l][Held(l, y)])'
  BY DEF SlotsHold
<1>1. Own(l)' = Own(l)
  BY DEF Own
<1>2. Source(Own(l), y) \in Labels /\ \A x \in Labels : Own(l)[x] # RankOf(x) => Own(l)[x] \in Ranks
  BY OwnSlots
<1>3. Arrived(l, Source(Own(l), y))' <=> Arrived(l, Source(Own(l), y))
  BY <1>1, <1>2 DEF Arrived
<1>4. Held(l, y)' = Held(l, y)
  BY <1>1, <1>3 DEF Held
<1>5. slots[l][y] = was[l][Held(l, y)]
  BY DEF SlotsHold
<1> QED
  BY <1>4, <1>5

LEMMA SameLabels ==
  ASSUME NEW was, LabelsLead(was), UNCHANGED <<tiles, label>>,
         \A q \in Ranks : pc'[q] \in {"clear", "cleared"} <=> pc[q] \in {"clear", "cleared"}
  PROVE  LabelsLead(was)'
<1>1. \A l \in LayerSet : Own(l)' = Own(l)
  BY DEF Own
<1>2. \A q \in Ranks, l \in LayerSet, e \in Experts :
         Meant(q, l, label[q][l][e])' = Meant(q, l, label[q][l][e])
  BY <1>1 DEF Meant
<1> QED
  BY <1>2 DEF LabelsLead

LEMMA SameBuffers ==
  ASSUME NEW was, BuffersHold(was), UNCHANGED tiles,
         \A q \in Ranks : pc'[q] \in {"stage", "staged", "install"} =>
           \/ stage'[q] = <<>>
           \/ /\ pc[q] \in {"stage", "staged", "install"}
              /\ stage'[q] = stage[q] /\ layer'[q] = layer[q]
  PROVE  BuffersHold(was)'
<1> SUFFICES ASSUME NEW q \in Ranks, pc'[q] \in {"stage", "staged", "install"},
                    NEW k \in 1 .. Len(stage'[q])
             PROVE  (stage[q][k] = was[layer[q]][Source(Own(layer[q]), Slots(Own(layer[q]), q)[k])])'
  BY DEF BuffersHold
<1>1. stage'[q] # <<>>
  OBVIOUS
<1>2. stage'[q] = stage[q] /\ layer'[q] = layer[q] /\ pc[q] \in {"stage", "staged", "install"}
  BY <1>1
<1>3. stage[q][k] = was[layer[q]][Source(Own(layer[q]), Slots(Own(layer[q]), q)[k])]
  BY <1>2 DEF BuffersHold
<1>4. Own(layer[q])' = Own(layer[q])
  BY <1>2 DEF Own
<1> QED
  BY <1>2, <1>3, <1>4

(* Steps that change nothing of a placement. *)
LEMMA QuietStep ==
  ASSUME TypeInv, PlaceInv, UNCHANGED <<tiles, slots, label>>,
         \A q \in Ranks : /\ Migrating(q)' <=> Migrating(q)
                          /\ pc'[q] \in {"clear", "cleared"} <=> pc[q] \in {"clear", "cleared"},
         \A q \in Ranks, l \in LayerSet : \A k \in Nat \ {0} :
           Installed(q, l, k)' <=> Installed(q, l, k),
         \A q \in Ranks : pc'[q] \in {"stage", "staged", "install"} =>
           \/ stage'[q] = <<>>
           \/ /\ pc[q] \in {"stage", "staged", "install"}
              /\ stage'[q] = stage[q] /\ layer'[q] = layer[q]
  PROVE  PlaceInv'
<1>1. CASE \E r \in Ranks : Migrating(r)
  <2>1. PICK was \in Placements : MovingFrom(was)
    BY <1>1 DEF PlaceInv
  <2>2. SlotsHold(was)'
    <3>1. ASSUME NEW q \in Ranks, NEW l \in LayerSet, NEW x \in Labels,
                 Own(l)[x] = q, Own(l)[x] # RankOf(x)
          PROVE  Installed(q, l, Place(Own(l), x))' <=> Installed(q, l, Place(Own(l), x))
      <4>1. Place(Own(l), x) \in Nat \ {0}
        BY <3>1, OwnSlots
      <4>2. Place(Own(l), x)' = Place(Own(l), x)
        BY DEF Own
      <4> QED
        BY <4>1, <4>2 DEF Installed
    <3> QED
      BY <2>1, <3>1, SameSlots DEF MovingFrom
  <2>3. LabelsLead(was)'
    BY <2>1, SameLabels DEF MovingFrom
  <2>4. BuffersHold(was)'
    BY <2>1, SameBuffers DEF MovingFrom
  <2>5. \E r \in Ranks : Migrating(r)'
    BY <1>1
  <2> QED
    BY <2>2, <2>3, <2>4, <2>5 DEF PlaceInv, MovingFrom
<1>2. CASE ~\E r \in Ranks : Migrating(r)
  <2>1. Settled'
    BY <1>2 DEF PlaceInv, Settled
  <2>2. ~\E r \in Ranks : Migrating(r)'
    BY <1>2
  <2> QED
    BY <2>1, <2>2 DEF PlaceInv
<1> QED
  BY <1>1, <1>2

(* A rank that leaves the wait at the end of a move finds it complete. *)
LEMMA Leaving ==
  ASSUME Synced, AgreeInv, NEW r \in Ranks, NEW q \in Ranks, pc[r] = "cleared", Sync!Leave(r)
  PROVE  ~Migrating(q)
<1>1. r \in inside /\ Sync!Entered(q) > passed[r] /\ passed[q] <= Sync!Entered(r)
  BY DEF Sync!Leave, Synced, SyncInv
<1>2. passed[q] \in Nat /\ passed[r] \in Nat
  BY DEF Synced, TypeInv
<1>3. passed[q] = passed[r] + 1 \/ (passed[q] = passed[r] /\ q \in inside)
  BY <1>1, <1>2 DEF Sync!Entered
<1>4. Ahead(q, r) \/ (Together(q, r) /\ q \in inside)
  BY <1>3 DEF Synced, SyncInv
<1>5. ~(pc[q] = "staged" /\ layer[r] = 0)
  BY DEF AgreeInv, Moving
<1> QED
  BY <1>4, <1>5, Pairs
     DEF Together, Ahead, Base, Phase, NextPhase, Control, Waiting, Planned, Migrating

LEMMA PlaceQuiet ==
  ASSUME Synced, StageInv, AgreeInv, PlaceInv, NEW r \in Ranks,
         BeginStep(r) \/ Arrive(r) \/ Leave(r) \/ Vote(r) \/ Compute(r)
  PROVE  PlaceInv'
<1> USE DEF stepVars, moveVars, placeVars, barrierVars, GoTo
<1>t. /\ TypeInv /\ pc \in [Ranks -> Points] /\ layer \in [Ranks -> 0 .. Layers]
      /\ done \in [Ranks -> Nat] /\ Layers \in Nat /\ Layers >= 1
      /\ \A l \in LayerSet : l \in Nat
  BY LayerTypes DEF Synced, TypeInv
<1>1. CASE BeginStep(r)
  <2>1. /\ pc[r] = "step" /\ (pc' = [pc EXCEPT ![r] = "publish"] \/ pc' = [pc EXCEPT ![r] = "layers"])
        /\ UNCHANGED <<tiles, slots, label, stage, layer, done>>
    BY <1>1 DEF BeginStep
  <2> QED
    BY <1>t, <2>1, QuietStep DEF Migrating, Installed
<1>2. CASE Arrive(r)
  BY <1>t, <1>2, QuietStep DEF Arrive, Migrating, Installed
<1>3. CASE Leave(r) /\ pc[r] # "cleared"
  <2>1. /\ pc[r] \in Waiting /\ pc' = [pc EXCEPT ![r] = WaitsThen[pc[r]]]
        /\ UNCHANGED <<tiles, slots, label, stage, layer, done>>
    BY <1>3, WaitTypes DEF Leave
  <2>2. pc[r] = "staged" => done[r] = 0
    BY DEF StageInv, Staging
  <2> QED
    BY <1>t, <1>3, <2>1, <2>2, WaitTypes, QuietStep DEF Migrating, Installed, Waiting
<1>4. CASE Leave(r) /\ pc[r] = "cleared"
  <2>1. /\ pc' = [pc EXCEPT ![r] = "layers"] /\ Sync!Leave(r)
        /\ UNCHANGED <<tiles, slots, label, stage, layer, done>>
    BY <1>4, WaitTypes DEF Leave
  <2>2. \A q \in Ranks : ~Migrating(q)
    BY <1>4, <2>1, Leaving
  <2>3. \A q \in Ranks : ~Migrating(q)'
    BY <1>t, <2>1, <2>2 DEF Migrating
  <2> QED
    BY <2>1, <2>2, <2>3 DEF PlaceInv, Settled
<1>5. CASE Vote(r)
  <2>1. /\ pc[r] = "plan" /\ pc' = [pc EXCEPT ![r] = "voted"]
        /\ UNCHANGED <<tiles, slots, label, stage, layer, done>>
    BY <1>5 DEF Vote
  <2> QED
    BY <1>t, <2>1, QuietStep DEF Migrating, Installed
<1>6. CASE Compute(r)
  BY <1>t, <1>6, QuietStep DEF Compute, Migrating, Installed
<1> QED
  BY <1>1, <1>2, <1>3, <1>4, <1>5, <1>6

LEMMA PlacePublish ==
  ASSUME Synced, PlaceInv, NEW r \in Ranks, Publish(r)
  PROVE  PlaceInv'
<1>1. /\ pc[r] = "publish" /\ pc' = [pc EXCEPT ![r] = "published"]
      /\ UNCHANGED <<slots, label, layer>>
  BY DEF Publish, GoTo, placeVars
<1>2. \A q \in Ranks : ~Migrating(q)
  BY <1>1, Publishing DEF Migrating, Planned
<1>3. \A q \in Ranks : ~Migrating(q)'
  <2>1. pc \in [Ranks -> Points]
    BY DEF Synced, TypeInv
  <2> QED
    BY <1>1, <1>2, <2>1 DEF Migrating
<1> QED
  BY <1>1, <1>2, <1>3 DEF PlaceInv, Settled

LEMMA PlaceDecide ==
  ASSUME Synced, PlanInv, AgreeInv, PlaceInv, NEW r \in Ranks, Decide(r)
  PROVE  PlaceInv'
<1>t. /\ TypeInv /\ pc \in [Ranks -> Points] /\ layer \in [Ranks -> 0 .. Layers]
      /\ stage \in [Ranks -> Seq(Experts)] /\ slots \in Placements
      /\ done \in [Ranks -> Nat] /\ Layers \in Nat /\ Layers >= 1
      /\ \A l \in LayerSet : l \in Nat
  BY LayerTypes DEF Synced, TypeInv, Placements
<1>1. /\ pc[r] = "decide" /\ UNCHANGED <<tiles, ok, slots, label>>
      /\ layer' = [layer EXCEPT ![r] = 0] /\ done' = [done EXCEPT ![r] = 0]
      /\ stage' = [stage EXCEPT ![r] = <<>>]
      /\ pc' = [pc EXCEPT ![r] = IF /\ \A v \in Ranks : ok[v]
                                    /\ \E l \in LayerSet : Moved(plan[r][l]) # {}
                                 THEN "stage" ELSE "clear"]
  BY DEF Decide, GoTo, placeVars
<1>2. pc' = [pc EXCEPT ![r] = IF Moves THEN "stage" ELSE "clear"]
  <2>1. \A l \in LayerSet : plan[r][l] = Own(l)
    BY <1>1 DEF PlanInv, Planned
  <2> QED
    BY <1>1, <2>1 DEF Moves
<1>3. \A q \in Ranks : Migrating(q) => Moves
  BY DEF Migrating, AgreeInv, Moving
<1>4. \A q \in Ranks : q # r => /\ pc'[q] = pc[q] /\ layer'[q] = layer[q] /\ done'[q] = done[q]
                                /\ stage'[q] = stage[q]
  BY <1>1, <1>2, <1>t
<1>5. /\ pc'[r] = (IF Moves THEN "stage" ELSE "clear") /\ layer'[r] = 0 /\ done'[r] = 0
      /\ stage'[r] = <<>>
  BY <1>1, <1>2, <1>t
<1>6. CASE ~Moves
  <2>1. \A q \in Ranks : ~Migrating(q)
    BY <1>3, <1>6
  <2>2. \A q \in Ranks : ~Migrating(q)'
    BY <1>4, <1>5, <1>6, <1>t, <2>1 DEF Migrating
  <2> QED
    BY <1>1, <2>1, <2>2 DEF PlaceInv, Settled
<1>7. CASE Moves /\ \E q \in Ranks : Migrating(q)
  <2>1. PICK was \in Placements : MovingFrom(was)
    BY <1>7 DEF PlaceInv
  <2>2. SlotsHold(was)'
    <3>1. ASSUME NEW q \in Ranks, NEW l \in LayerSet, NEW x \in Labels
          PROVE  Installed(q, l, Place(Own(l), x))' <=> Installed(q, l, Place(Own(l), x))
      <4>1. Place(Own(l), x)' = Place(Own(l), x)
        BY <1>1 DEF Own
      <4>2. CASE q = r
        BY <1>1, <1>5, <1>7, <1>t, <4>2 DEF Installed
      <4>3. CASE q # r
        BY <1>4, <4>1, <4>3 DEF Installed
      <4> QED
        BY <4>2, <4>3
    <3> QED
      BY <1>1, <1>t, <2>1, <3>1, SameSlots DEF MovingFrom
  <2>3. LabelsLead(was)'
    <3>1. ASSUME NEW q \in Ranks
          PROVE  pc'[q] \in {"clear", "cleared"} <=> pc[q] \in {"clear", "cleared"}
      <4>1. pc[r] = "decide" /\ pc'[r] = "stage"
        BY <1>1, <1>5, <1>7
      <4>2. q # r => pc'[q] = pc[q]
        BY <1>4
      <4> QED
        BY <4>1, <4>2
    <3>2. UNCHANGED <<tiles, label>> /\ LabelsLead(was)
      BY <1>1, <2>1 DEF MovingFrom
    <3> QED
      BY <3>1, <3>2, SameLabels
  <2>4. BuffersHold(was)'
    BY <1>1, <1>4, <1>5, <2>1, SameBuffers DEF MovingFrom
  <2>5. Migrating(r)'
    BY <1>5, <1>7 DEF Migrating
  <2> QED
    BY <2>2, <2>3, <2>4, <2>5 DEF PlaceInv, MovingFrom
<1>8. CASE Moves /\ ~\E q \in Ranks : Migrating(q)
  <2>1. Settled
    BY <1>8 DEF PlaceInv
  <2>2. ASSUME NEW q \in Ranks
        PROVE  pc'[q] \notin {"clear", "cleared"} /\ \A l \in LayerSet : \A k : ~Installed(q, l, k)'
    <3>1. CASE q = r
      BY <1>5, <1>8, <1>t, <3>1 DEF Installed
    <3>2. CASE q # r
      <4>1. pc[q] \notin {"clear", "cleared"}
        BY <1>1, <1>8, Deciding DEF AgreeInv
      <4>2. pc[q] \notin {"stage", "staged", "install", "relabel"}
        BY <1>8 DEF Migrating
      <4> QED
        BY <1>4, <3>2, <4>1, <4>2 DEF Installed
    <3> QED
      BY <3>1, <3>2
  <2>3. SlotsHold(slots)'
    <3> SUFFICES ASSUME NEW l \in LayerSet, NEW y \in Labels
                 PROVE  slots'[l][y] = slots'[l][Held(l, y)']
      BY DEF SlotsHold
    <3>1. Source(Own(l), y) \in Labels /\ Own(l)' = Own(l)
          /\ \A x \in Labels : Own(l)[x] # RankOf(x) => Own(l)[x] \in Ranks
      BY <1>1, <1>t, OwnSlots DEF Own
    <3>2. ~Arrived(l, Source(Own(l), y))'
      BY <2>2, <3>1 DEF Arrived
    <3> QED
      BY <3>2 DEF Held
  <2>4. LabelsLead(slots)'
    BY <1>1, <2>1, <2>2 DEF LabelsLead, Settled, Meant
  <2>5. BuffersHold(slots)'
    <3> SUFFICES ASSUME NEW q \in Ranks, pc'[q] \in {"stage", "staged", "install"}
                 PROVE  stage'[q] = <<>>
      BY DEF BuffersHold
    <3>1. q = r
      BY <1>4, <1>8 DEF Migrating
    <3> QED
      BY <1>5, <3>1
  <2>6. Migrating(r)'
    BY <1>5, <1>8 DEF Migrating
  <2>7. MovingFrom(slots)' /\ slots' \in Placements
    BY <1>1, <1>t, <2>3, <2>4, <2>5 DEF MovingFrom
  <2>8. \E was \in Placements : MovingFrom(was)'
    <3> DEFINE was == slots'
    <3> QED
      BY <2>7 DEF MovingFrom, SlotsHold, LabelsLead, BuffersHold
  <2> QED
    BY <2>6, <2>8 DEF PlaceInv
<1> QED
  BY <1>6, <1>7, <1>8

LEMMA PlaceStage ==
  ASSUME Synced, StageInv, PlanInv, PlaceInv, NEW r \in Ranks, Stage(r)
  PROVE  PlaceInv'
<1>t. /\ TypeInv /\ pc \in [Ranks -> Points] /\ layer \in [Ranks -> 0 .. Layers]
      /\ stage \in [Ranks -> Seq(Experts)] /\ slots \in Placements
      /\ done \in [Ranks -> Nat] /\ Layers \in Nat
      /\ \A l \in LayerSet : l \in Nat
  BY LayerTypes DEF Synced, TypeInv, Placements
<1>1. /\ pc[r] = "stage" /\ UNCHANGED <<tiles, plan, layer, slots, label>>
  BY DEF Stage, GoTo, placeVars
<1>2. CASE pc' # pc
  <2>1. /\ pc' = [pc EXCEPT ![r] = "staged"] /\ done' = [done EXCEPT ![r] = 0] /\ UNCHANGED stage
    BY <1>2 DEF Stage, GoTo
  <2> QED
    BY <1>1, <1>t, <2>1, QuietStep DEF Migrating, Installed
<1>3. CASE pc' = pc
  <2> DEFINE n == done[r] + 1
             l == layer[r]
             x == Source(Own(l), Slots(Own(l), r)[n])
  <2>1. l < Layers
    BY <1>1 DEF Synced, ControlInv, Control
  <2>2. /\ l \in LayerSet /\ Received(r) = Slots(plan[r][l], r) /\ plan[r][l] = Own(l)
        /\ Len(Received(r)) \in Nat
    BY <1>1, <1>t, <2>1, ReceivedType DEF PlanInv, Planned
  <2>3. done[r] = Len(stage[r]) /\ done[r] \in Nat
    BY <1>1, <1>t DEF StageInv, Staging
  <2>4. /\ done[r] < Len(Received(r)) /\ done' = [done EXCEPT ![r] = @ + 1]
        /\ stage' = [stage EXCEPT ![r] = Append(@, slots[l][x])]
    <3>1. /\ done[r] < Len(Received(r)) /\ done' = [done EXCEPT ![r] = @ + 1]
          /\ stage' = [stage EXCEPT ![r] =
                        Append(@, slots[layer[r]][Source(plan[r][layer[r]], Received(r)[done[r] + 1])])]
      <4>1. pc' # [pc EXCEPT ![r] = "staged"]
        BY <1>1, <1>3, <1>t
      <4> QED
        BY <4>1 DEF Stage, GoTo
    <3>2. slots[layer[r]][Source(plan[r][layer[r]], Received(r)[done[r] + 1])] = slots[l][x]
      BY <2>2
    <3> HIDE DEF x, n, l
    <3> QED
      BY <3>1, <3>2
  <2>5. n \in 1 .. Len(Slots(Own(l), r))
    BY <2>2, <2>3, <2>4
  <2>6. x \in Labels /\ Source(Own(l), x) \in Labels
    BY <1>t, <2>2, <2>5, OwnSlots
  <2>7. \E q \in Ranks : Migrating(q)
    BY <1>1 DEF Migrating
  <2>8. PICK was \in Placements : MovingFrom(was)
    BY <2>7 DEF PlaceInv
  <2>9. slots[l][x] = was[l][x]
    <3>1. ~Arrived(l, Source(Own(l), x))
      <4>1. Own(l)[Source(Own(l), x)] # RankOf(Source(Own(l), x)) => Own(l)[Source(Own(l), x)] \in Ranks
        BY <1>t, <2>2, <2>6, OwnSlots
      <4> QED
        BY <1>1, <4>1, Reading DEF Arrived
    <3>2. slots[l][x] = was[l][Held(l, x)]
      BY <2>2, <2>6, <2>8 DEF MovingFrom, SlotsHold
    <3> QED
      BY <3>1, <3>2 DEF Held
  <2>10. SlotsHold(was)'
    <3>1. \A q \in Ranks, m \in LayerSet : \A k : Installed(q, m, k)' <=> Installed(q, m, k)
      BY <1>1, <1>3, <1>t, <2>4 DEF Installed
    <3>2. \A m \in LayerSet : \A y \in Labels : Place(Own(m), y)' = Place(Own(m), y)
      BY <1>1 DEF Own
    <3>3. \A q \in Ranks, m \in LayerSet, y \in Labels :
            Installed(q, m, Place(Own(m), y))' <=> Installed(q, m, Place(Own(m), y))
      BY <3>1, <3>2 DEF Installed
    <3> QED
      BY <1>1, <1>t, <2>8, <3>3, SameSlots DEF MovingFrom
  <2>11. LabelsLead(was)'
    BY <1>1, <1>3, <2>8, SameLabels DEF MovingFrom
  <2>12. BuffersHold(was)'
    <3> SUFFICES ASSUME NEW q \in Ranks, pc'[q] \in {"stage", "staged", "install"},
                        NEW k \in 1 .. Len(stage'[q])
                 PROVE  (stage[q][k] = was[layer[q]][Source(Own(layer[q]), Slots(Own(layer[q]), q)[k])])'
      BY DEF BuffersHold
    <3>1. Own(layer[q])' = Own(layer[q]) /\ layer'[q] = layer[q] /\ pc'[q] = pc[q]
      BY <1>1, <1>3 DEF Own
    <3>2. CASE q = r /\ k = n
      <4>1. stage'[q][k] = slots[l][x]
        BY <1>t, <2>3, <2>4, <3>2
      <4> QED
        BY <2>9, <3>1, <3>2, <4>1
    <3>3. CASE ~(q = r /\ k = n)
      <4> HIDE DEF x, n
      <4>1. k \in 1 .. Len(stage[q]) /\ stage'[q][k] = stage[q][k]
        <5>1. CASE q = r
          <6>1. stage'[q] = Append(stage[q], slots[l][x]) /\ stage[q] \in Seq(Experts)
            BY <1>t, <2>4, <5>1
          <6>2. Len(stage'[q]) = Len(stage[q]) + 1 /\ Len(stage[q]) \in Nat
            BY <6>1
          <6>3. k # Len(stage[q]) + 1 /\ k \in 1 .. Len(stage[q]) + 1
            BY <2>3, <3>3, <5>1, <6>2 DEF n
          <6>4. k \in 1 .. Len(stage[q])
            BY <6>2, <6>3
          <6> QED
            BY <6>1, <6>4
        <5>2. CASE q # r
          BY <1>t, <2>4, <5>2
        <5> QED
          BY <5>1, <5>2
      <4>2. stage[q][k] = was[layer[q]][Source(Own(layer[q]), Slots(Own(layer[q]), q)[k])]
        BY <2>8, <3>1, <4>1 DEF MovingFrom, BuffersHold
      <4> QED
        BY <3>1, <4>1, <4>2
    <3> QED
      BY <3>2, <3>3
  <2>13. Migrating(r)'
    BY <1>1, <1>3 DEF Migrating
  <2> QED
    BY <2>10, <2>11, <2>12, <2>13 DEF PlaceInv, MovingFrom
<1> QED
  BY <1>2, <1>3

LEMMA PlaceInstall ==
  ASSUME Synced, StageInv, PlanInv, PlaceInv, NEW r \in Ranks, Install(r)
  PROVE  PlaceInv'
<1>t. /\ TypeInv /\ pc \in [Ranks -> Points] /\ layer \in [Ranks -> 0 .. Layers]
      /\ stage \in [Ranks -> Seq(Experts)] /\ slots \in Placements
      /\ done \in [Ranks -> Nat] /\ Layers \in Nat
      /\ \A m \in LayerSet : m \in Nat
  BY LayerTypes DEF Synced, TypeInv, Placements
<1>l. PICK l \in LayerSet : l = layer[r]
  <2>1. layer[r] < Layers
    BY DEF Install, GoTo, Synced, ControlInv, Control
  <2> QED
    BY <1>t, <2>1 DEF LayerSet
<1>1. /\ pc[r] = "install" /\ UNCHANGED <<tiles, plan, label>> /\ l < Layers /\ l \in Nat
      /\ done[r] \in Nat
  BY <1>l, <1>t, LayerTypes DEF Install, GoTo
<1>2. /\ l \in LayerSet /\ Received(r) = Slots(plan[r][l], r) /\ plan[r][l] = Own(l)
      /\ Len(Received(r)) \in Nat
  BY <1>1, <1>l, <1>t, ReceivedType DEF PlanInv, Planned
<1>3. done[r] <= Len(Received(r)) /\ Len(stage[r]) = Len(Received(r))
  BY <1>1 DEF StageInv, Staging
<1>4. \E q \in Ranks : Migrating(q)
  BY <1>1 DEF Migrating
<1>5. PICK was \in Placements : MovingFrom(was)
  BY <1>4 DEF PlaceInv
<1>6. \A m \in LayerSet : Own(m)' = Own(m)
  BY <1>1 DEF Own
(* An expert is copied. *)
<1>7. CASE pc' = pc
  <2>n. PICK n : n = done[r] + 1
    OBVIOUS
  <2>y. PICK y0 : y0 = Slots(Own(l), r)[n]
    OBVIOUS
  <2>x. PICK x0 : x0 = Source(Own(l), y0)
    OBVIOUS
  <2>1. /\ done[r] < Len(Received(r)) /\ done' = [done EXCEPT ![r] = @ + 1]
        /\ UNCHANGED <<layer, stage>>
        /\ slots' = [slots EXCEPT ![l][y0] = stage[r][n]]
    <3>1. ~(/\ pc' = [pc EXCEPT ![r] = IF layer[r] + 1 < Layers THEN "stage" ELSE "relabel"])
      BY <1>1, <1>7, <1>t
    <3>2. /\ done[r] < Len(Received(r)) /\ done' = [done EXCEPT ![r] = @ + 1]
          /\ UNCHANGED <<layer, stage>>
          /\ slots' = [slots EXCEPT ![layer[r]][Received(r)[done[r] + 1]] = stage[r][done[r] + 1]]
      BY <3>1 DEF Install, GoTo
    <3>3. Received(r)[done[r] + 1] = y0
      BY <1>2, <2>n, <2>y
    <3> QED
      BY <1>l, <2>n, <3>2, <3>3
  <2>2. n \in 1 .. Len(Slots(Own(l), r)) /\ n \in 1 .. Len(stage[r])
    BY <1>1, <1>2, <1>3, <2>1, <2>n
  <2>3. /\ y0 \in Labels /\ x0 \in Labels /\ Own(l)[x0] = r /\ RankOf(x0) # r
        /\ Place(Own(l), x0) = n
    BY <1>2, <1>t, <2>2, <2>x, <2>y, OwnSlots
  <2>4. stage[r][n] = was[l][x0]
    BY <1>1, <1>5, <1>l, <2>2, <2>x, <2>y DEF MovingFrom, BuffersHold
  <2>5. done'[r] = n /\ layer'[r] = l /\ pc'[r] = "install"
    BY <1>1, <1>7, <1>l, <1>t, <2>1, <2>n
  <2>6. \A q \in Ranks : q # r => done'[q] = done[q]
    BY <1>t, <2>1
  <2>7. SlotsHold(was)'
    <3> SUFFICES ASSUME NEW m \in LayerSet, NEW y \in Labels
                 PROVE  slots'[m][y] = was[m][Held(m, y)']
      BY DEF SlotsHold
    <3> DEFINE x == Source(Own(m), y)
    <3>1. x \in Labels /\ NewLabels(Own(m))[x] = y /\ (Own(m)[x] # RankOf(x) => Own(m)[x] \in Ranks)
      BY <1>t, OwnSlots
    <3>2. CASE m = l /\ y = y0
      <4>1. slots'[m][y] = stage[r][n]
        BY <1>2, <1>t, <2>1, <2>3, <3>2 DEF Placements
      <4>2. Installed(r, l, n)'
        BY <1>1, <2>5, <2>n DEF Installed
      <4>3. x = x0
        BY <2>x, <3>2
      <4>4. Own(l)' = Own(l)
        BY <1>2, <1>6
      <4>5. Arrived(l, x0)'
        BY <2>3, <4>2, <4>4 DEF Arrived, Installed
      <4>6. Held(m, y)' = x0
        BY <1>6, <3>2, <4>3, <4>5 DEF Held
      <4> QED
        BY <2>4, <3>2, <4>1, <4>6
    <3>3. CASE ~(m = l /\ y = y0)
      <4>1. slots'[m][y] = slots[m][y]
        BY <1>2, <1>t, <2>1, <2>3, <3>3 DEF Placements
      <4>2. Arrived(m, x)' <=> Arrived(m, x)
        <5>1. ASSUME Own(m)[x] # RankOf(x)
              PROVE  Installed(Own(m)[x], m, Place(Own(m), x))'
                       <=> Installed(Own(m)[x], m, Place(Own(m), x))
          <6> DEFINE q == Own(m)[x]
                     k == Place(Own(m), x)
          <6>1. q \in Ranks /\ k \in Nat /\ Slots(Own(m), q)[k] = y
            BY <1>t, <3>1, <5>1, OwnSlots
          <6>2. Own(m)' = Own(m)
            BY <1>6
          <6>3. ~(q = r /\ m = l /\ k = n)
            BY <2>y, <3>3, <6>1
          <6>4. CASE q # r
            BY <1>7, <2>1, <2>6, <6>1, <6>2, <6>4 DEF Installed
          <6>5. CASE q = r
            <7> HIDE DEF k
            <7>1. Installed(q, m, k)' <=> (l > m \/ (l = m /\ k <= n))
              BY <1>6, <2>5, <6>5 DEF Installed, k
            <7>2. Installed(q, m, k) <=> (l > m \/ (l = m /\ k <= done[r]))
              BY <1>1, <1>l, <6>5 DEF Installed
            <7> QED
              BY <1>1, <2>n, <6>1, <6>3, <6>5, <7>1, <7>2 DEF k
          <6> QED
            BY <6>4, <6>5
        <5> QED
          BY <1>6, <5>1 DEF Arrived
      <4>3. Held(m, y)' = Held(m, y)
        BY <1>6, <4>2 DEF Held
      <4> QED
        BY <1>5, <4>1, <4>3 DEF MovingFrom, SlotsHold
    <3> QED
      BY <3>2, <3>3
  <2>8. LabelsLead(was)' /\ BuffersHold(was)'
    BY <1>1, <1>5, <1>7, <2>1, SameLabels, SameBuffers DEF MovingFrom
  <2>9. Migrating(r)'
    BY <2>5 DEF Migrating
  <2> QED
    BY <2>7, <2>8, <2>9 DEF PlaceInv, MovingFrom
(* The layer is complete. *)
<1>8. CASE pc' # pc
  <2>1. /\ pc' = [pc EXCEPT ![r] = IF l + 1 < Layers THEN "stage" ELSE "relabel"]
        /\ done[r] = Len(Received(r)) /\ layer' = [layer EXCEPT ![r] = @ + 1]
        /\ stage' = [stage EXCEPT ![r] = <<>>] /\ done' = [done EXCEPT ![r] = 0]
        /\ UNCHANGED slots
    BY <1>8, <1>l DEF Install, GoTo
  <2>2. /\ pc'[r] \in {"stage", "relabel"} /\ layer'[r] = l + 1 /\ stage'[r] = <<>>
        /\ \A q \in Ranks : q # r => /\ pc'[q] = pc[q] /\ layer'[q] = layer[q]
                                     /\ done'[q] = done[q] /\ stage'[q] = stage[q]
    BY <1>l, <1>t, <2>1
  <2>3. SlotsHold(was)'
    <3>1. ASSUME NEW q \in Ranks, NEW m \in LayerSet, NEW x \in Labels,
                 Own(m)[x] = q, Own(m)[x] # RankOf(x)
          PROVE  Installed(q, m, Place(Own(m), x))' <=> Installed(q, m, Place(Own(m), x))
      <4> DEFINE k == Place(Own(m), x)
      <4>1. k \in 1 .. Len(Slots(Own(m), q)) /\ Len(Slots(Own(m), q)) \in Nat
        BY <1>t, <3>1, OwnSlots
      <4>2. Own(m)' = Own(m) /\ m \in Nat
        BY <1>6, <1>t
      <4>3. CASE q = r
        <5> HIDE DEF k
        <5>1. Installed(q, m, k)' <=> l + 1 > m
          BY <2>2, <4>2, <4>3 DEF Installed, k
        <5>2. Installed(q, m, k) <=> (l > m \/ (l = m /\ k <= done[r]))
          BY <1>1, <1>l, <4>3 DEF Installed
        <5>3. l = m => k <= done[r]
          BY <1>2, <2>1, <4>1, <4>3
        <5> QED
          BY <1>1, <4>2, <5>1, <5>2, <5>3 DEF k
      <4>4. CASE q # r
        BY <2>2, <4>2, <4>4 DEF Installed
      <4> QED
        BY <4>3, <4>4
    <3> QED
      BY <1>1, <1>5, <1>t, <2>1, <3>1, SameSlots DEF MovingFrom
  <2>4. LabelsLead(was)'
    <3>1. \A q \in Ranks : pc'[q] \in {"clear", "cleared"} <=> pc[q] \in {"clear", "cleared"}
      BY <1>1, <2>2
    <3> QED
      BY <1>1, <1>5, <3>1, SameLabels DEF MovingFrom
  <2>5. BuffersHold(was)'
    <3>1. \A q \in Ranks : pc'[q] \in {"stage", "staged", "install"} =>
           \/ stage'[q] = <<>>
           \/ /\ pc[q] \in {"stage", "staged", "install"}
              /\ stage'[q] = stage[q] /\ layer'[q] = layer[q]
      BY <2>2
    <3> QED
      BY <1>1, <1>5, <3>1, SameBuffers DEF MovingFrom
  <2>6. Migrating(r)'
    BY <2>2 DEF Migrating
  <2> QED
    BY <2>3, <2>4, <2>5, <2>6 DEF PlaceInv, MovingFrom
<1> QED
  BY <1>7, <1>8

LEMMA PlaceRelabel ==
  ASSUME Synced, PlanInv, PlaceInv, NEW r \in Ranks, Relabel(r)
  PROVE  PlaceInv'
<1>t. /\ TypeInv /\ pc \in [Ranks -> Points] /\ layer \in [Ranks -> 0 .. Layers]
      /\ label \in [Ranks -> [LayerSet -> [Experts -> Labels]]]
  BY DEF Synced, TypeInv
<1>1. /\ pc[r] = "relabel" /\ pc' = [pc EXCEPT ![r] = "clear"] /\ layer[r] = Layers
      /\ UNCHANGED <<tiles, slots, layer, stage, done>>
      /\ label' = [label EXCEPT ![r] =
           [l \in LayerSet |-> LET new == NewLabels(plan[r][l]) IN [e \in Experts |-> new[@[l][e]]]]]
  BY DEF Relabel, GoTo, moveVars, Synced, ControlInv, Control
<1>2. \E q \in Ranks : Migrating(q)
  BY <1>1 DEF Migrating
<1>3. PICK was \in Placements : MovingFrom(was)
  BY <1>2 DEF PlaceInv
<1>4. SlotsHold(was)'
  <2>1. \A q \in Ranks, l \in LayerSet : \A k : Installed(q, l, k)' <=> Installed(q, l, k)
    BY <1>1, <1>t, LayerTypes DEF Installed
  <2>2. \A q \in Ranks, l \in LayerSet, x \in Labels :
          Installed(q, l, Place(Own(l), x))' <=> Installed(q, l, Place(Own(l), x))
    BY <1>1, <2>1 DEF Installed, Own
  <2> QED
    BY <1>1, <1>3, <1>t, <2>2, SameSlots DEF MovingFrom
<1>5. LabelsLead(was)'
  <2> SUFFICES ASSUME NEW q \in Ranks, NEW l \in LayerSet, NEW e \in Experts
               PROVE  (was[l][Meant(q, l, label[q][l][e])] = e)'
    BY DEF LabelsLead
  <2>1. Own(l)' = Own(l)
    BY <1>1 DEF Own
  <2>2. was[l][Meant(q, l, label[q][l][e])] = e
    BY <1>3 DEF MovingFrom, LabelsLead
  <2>3. CASE q = r
    <3>1. plan[r][l] = Own(l) /\ label[r][l][e] \in Labels
      BY <1>1, <1>t DEF PlanInv, Planned
    <3>2. label'[r][l][e] = NewLabels(Own(l))[label[r][l][e]]
      BY <1>1, <1>t, <3>1
    <3>3. Source(Own(l), label'[r][l][e]) = label[r][l][e]
      BY <1>t, <3>1, <3>2, OwnSlots
    <3>4. Meant(q, l, label[q][l][e]) = label[r][l][e]
      BY <1>1, <2>3 DEF Meant
    <3>5. Meant(q, l, label[q][l][e])' = label[r][l][e]
      BY <1>1, <1>t, <2>1, <2>3, <3>3 DEF Meant
    <3> QED
      BY <2>2, <3>4, <3>5
  <2>4. CASE q # r
    <3>1. Meant(q, l, label[q][l][e])' = Meant(q, l, label[q][l][e])
      BY <1>1, <1>t, <2>1, <2>4 DEF Meant
    <3> QED
      BY <2>2, <3>1
  <2> QED
    BY <2>3, <2>4
<1>6. BuffersHold(was)'
  BY <1>1, <1>3, <1>t, SameBuffers DEF MovingFrom
<1>7. Migrating(r)'
  BY <1>1, <1>t DEF Migrating
<1> QED
  BY <1>4, <1>5, <1>6, <1>7 DEF PlaceInv, MovingFrom

LEMMA PlaceClear ==
  ASSUME Synced, PlaceInv, NEW r \in Ranks, Clear(r)
  PROVE  PlaceInv'
<1>t. /\ TypeInv /\ pc \in [Ranks -> Points] /\ layer \in [Ranks -> 0 .. Layers]
      /\ label \in [Ranks -> [LayerSet -> [Experts -> Labels]]]
      /\ Layers \in Nat /\ Layers >= 1 /\ \A l \in LayerSet : l \in Nat /\ l < Layers
  BY LayerTypes DEF Synced, TypeInv
<1>1. /\ pc[r] = "clear" /\ pc' = [pc EXCEPT ![r] = "cleared"] /\ layer[r] \in {0, Layers}
      /\ UNCHANGED <<tiles, slots, label, layer, stage, done>>
  BY DEF Clear, GoTo, moveVars, placeVars, Synced, ControlInv, Control
<1>2. /\ \A q \in Ranks : pc'[q] \in {"clear", "cleared"} <=> pc[q] \in {"clear", "cleared"}
      /\ \A q \in Ranks, l \in LayerSet : \A k : Installed(q, l, k)' <=> Installed(q, l, k)
      /\ \A q \in Ranks : pc'[q] \in {"stage", "staged", "install"} =>
           pc[q] \in {"stage", "staged", "install"} /\ stage'[q] = stage[q] /\ layer'[q] = layer[q]
      /\ \A q \in Ranks : q # r => (Migrating(q)' <=> Migrating(q))
      /\ ~Migrating(r)'
  BY <1>1, <1>t DEF Migrating, Installed
<1>3. CASE layer[r] = 0
  <2>1. \A q \in Ranks : Migrating(q)' <=> Migrating(q)
    BY <1>1, <1>2, <1>3, <1>t DEF Migrating
  <2> QED
    BY <1>1, <1>2, <1>t, <2>1, QuietStep
<1>4. CASE layer[r] = Layers
  <2>1. Migrating(r)
    BY <1>1, <1>4 DEF Migrating
  <2>2. PICK was \in Placements : MovingFrom(was)
    BY <2>1 DEF PlaceInv
  <2>3. CASE \E q \in Ranks : q # r /\ Migrating(q)
    <3>1. SlotsHold(was)'
      <4>1. \A q \in Ranks, l \in LayerSet, x \in Labels :
              Installed(q, l, Place(Own(l), x))' <=> Installed(q, l, Place(Own(l), x))
        BY <1>1, <1>2 DEF Installed, Own
      <4> QED
        BY <1>1, <1>t, <2>2, <4>1, SameSlots DEF MovingFrom
    <3>2. LabelsLead(was)' /\ BuffersHold(was)'
      BY <1>1, <1>2, <2>2, SameLabels, SameBuffers DEF MovingFrom
    <3>3. \E q \in Ranks : Migrating(q)'
      BY <1>2, <2>3
    <3> QED
      BY <3>1, <3>2, <3>3 DEF PlaceInv, MovingFrom
  <2>4. CASE \A q \in Ranks : q # r => ~Migrating(q)
    <3>1. \A q \in Ranks : pc[q] \in {"clear", "cleared"} /\ layer[q] = Layers
      BY <1>1, <1>4, <2>4, LastOut
    <3>2. \A q \in Ranks, l \in LayerSet : \A k : Installed(q, l, k)
      BY <1>t, <3>1 DEF Installed
    <3>3. ASSUME NEW q \in Ranks, NEW l \in LayerSet, NEW e \in Experts
          PROVE  slots[l][label[q][l][e]] = e
      <4> DEFINE y == label[q][l][e]
                 x == Source(Own(l), y)
      <4>1. /\ y \in Labels /\ x \in Labels /\ NewLabels(Own(l))[x] = y
            /\ Own(l)[x] # RankOf(x) => Own(l)[x] \in Ranks
            /\ Own(l)[x] = RankOf(x) => NewLabels(Own(l))[x] = x
        BY <1>t, OwnSlots
      <4>2. was[l][x] = e
        BY <2>2, <3>1 DEF MovingFrom, LabelsLead, Meant
      <4>3. slots[l][y] = was[l][Held(l, y)]
        BY <2>2, <4>1 DEF MovingFrom, SlotsHold
      <4>4. Held(l, y) = x
        BY <3>2, <4>1 DEF Held, Arrived
      <4> QED
        BY <4>2, <4>3, <4>4
    <3>4. Settled'
      BY <1>1, <3>3 DEF Settled
    <3>5. \A q \in Ranks : ~Migrating(q)'
      BY <1>2, <2>4
    <3> QED
      BY <3>4, <3>5 DEF PlaceInv
  <2> QED
    BY <2>3, <2>4
<1> QED
  BY <1>1, <1>3, <1>4

LEMMA PlaceStep == Synced /\ StageInv /\ PlanInv /\ AgreeInv /\ PlaceInv /\ [Next]_vars => PlaceInv'
<1> SUFFICES ASSUME Synced, StageInv, PlanInv, AgreeInv, PlaceInv, [Next]_vars PROVE PlaceInv'
  OBVIOUS
<1>1. CASE UNCHANGED vars
  <2>1. UNCHANGED <<tiles, slots, label, pc, stage, layer, done>>
    BY <1>1 DEF vars, moveVars, placeVars
  <2> QED
    BY <2>1, QuietStep DEF Synced, Migrating, Installed
<1>2. ASSUME NEW r \in Ranks, Rank(r) PROVE PlaceInv'
  BY <1>2, PlaceQuiet, PlacePublish, PlaceDecide, PlaceStage, PlaceInstall, PlaceRelabel, PlaceClear
     DEF Rank
<1> QED
  BY <1>1, <1>2 DEF Next, Terminated

LEMMA InitInv == Init => IInv
<1> SUFFICES ASSUME Init PROVE IInv
  OBVIOUS
<1>1. TypeInv
  BY InitType
<1>2. \A r \in Ranks : pc[r] = "step" /\ stage[r] = <<>> /\ step[r] = 0 /\ passed[r] = 0
  BY DEF Init, Sync!RendezvousInit
<1>3. inside = {}
  BY DEF Init, Sync!RendezvousInit
<1>4. ControlInv /\ StageInv /\ PlanInv /\ AgreeInv
  BY <1>2, <1>3 DEF ControlInv, Control, StageInv, Staging, PlanInv, AgreeInv, Planned, Moving
<1>5. SyncInv
  BY <1>2, <1>3 DEF SyncInv, Together, Base, Phase, Sync!Entered
<1>6. PlaceInv
  BY <1>2 DEF PlaceInv, Migrating, Settled, Init, Experts
<1> QED
  BY <1>1, <1>4, <1>5, <1>6 DEF IInv

(* The ranks stay within one wait of each other, plan and decide alike,    *)
(* and their labels lead to the experts, whoever has installed what.       *)
THEOREM Invariant == Spec => []IInv
<1>1. Init => IInv
  BY InitInv
<1>2. IInv /\ [Next]_vars => IInv'
  BY TypeStep, ControlStep, StageStep, SyncStep, PlanStep, AgreeStep, PlaceStep DEF IInv, Synced
<1> QED
  BY <1>1, <1>2, PTL DEF Spec

(* A rank that computes reads, through its labels, the experts it means:   *)
(* nobody migrates then, so the tables and the slots agree.                *)
THEOREM PlacementTheorem == Spec => []RightExperts
<1>1. IInv => RightExperts
  <2> SUFFICES ASSUME IInv, NEW r \in Ranks, pc[r] = "layers" PROVE Settled
    BY DEF RightExperts, Settled
  <2>1. \A q \in Ranks : ~Migrating(q)
    BY Computing DEF IInv, Synced
  <2> QED
    BY <2>1 DEF IInv, PlaceInv
<1> QED
  BY <1>1, Invariant, PTL

(* During a move an expert is in its old slot, in its new one, or in the   *)
(* staging buffer of the rank it moves to.                                 *)
LEMMA Kept == IInv => NoExpertLost
<1> SUFFICES ASSUME IInv, NEW l \in LayerSet, NEW e \in Experts
             PROVE  \/ \E lab \in Labels : slots[l][lab] = e
                    \/ \E r \in Ranks : layer[r] = l /\ e \in Range(stage[r])
  BY DEF NoExpertLost
<1>t. /\ TypeInv /\ Synced /\ AgreeInv /\ StageInv /\ PlanInv /\ l \in Nat /\ l < Layers
      /\ label \in [Ranks -> [LayerSet -> [Experts -> Labels]]]
      /\ stage \in [Ranks -> Seq(Experts)]
  BY LayerTypes DEF IInv, TypeInv, Synced
<1>1. PICK r \in Ranks : TRUE
  BY LabelTypes
<1>2. label[r][l][e] \in Labels
  BY <1>t
<1>3. CASE ~\E q \in Ranks : Migrating(q)
  <2>1. slots[l][label[r][l][e]] = e
    BY <1>3 DEF IInv, PlaceInv, Settled
  <2> QED
    BY <1>2, <2>1
<1>4. CASE \E q \in Ranks : Migrating(q)
  <2>v. PICK v \in Ranks : Migrating(v)
    BY <1>4
  <2>1. PICK was \in Placements : MovingFrom(was)
    BY <1>4 DEF IInv, PlaceInv
  <2> DEFINE own == Own(l)
             x == Meant(r, l, label[r][l][e])
             new == NewLabels(own)[x]
  <2>2. x \in Labels /\ was[l][x] = e
    BY <1>2, <1>t, <2>1, OwnSlots DEF Meant, MovingFrom, LabelsLead
  <2>3. /\ new \in Labels /\ Source(own, new) = x
        /\ own[x] = RankOf(x) => new = x
        /\ own[x] # RankOf(x) =>
             own[x] \in Ranks /\ Place(own, x) \in 1 .. Len(Slots(own, own[x]))
             /\ Slots(own, own[x])[Place(own, x)] = new
    BY <1>t, <2>2, OwnSlots
  <2> HIDE DEF x, new
  <2>4. \A y \in Labels : slots[l][y] = was[l][Held(l, y)]
    BY <2>1 DEF MovingFrom, SlotsHold
  <2>5. CASE Arrived(l, x)
    <3>1. Held(l, new) = x
      BY <2>3, <2>5 DEF Held
    <3> QED
      BY <2>2, <2>3, <2>4, <3>1
  <2>6. CASE own[x] = RankOf(x)
    <3>1. Held(l, x) = x
      BY <2>3, <2>6 DEF Held
    <3> QED
      BY <2>2, <2>4, <3>1
  <2>7. CASE ~Arrived(l, x) /\ own[x] # RankOf(x)
    <3> DEFINE s == own[x]
               k == Place(own, x)
               z == Source(own, x)
    <3>1. CASE ~Arrived(l, z)
      <4>1. Held(l, x) = x
        BY <3>1 DEF Held
      <4> QED
        BY <2>2, <2>4, <4>1
    <3>2. CASE Arrived(l, z)
      <4>1. z \in Labels /\ (own[z] # RankOf(z) => own[z] \in Ranks)
        BY <1>t, <2>2, OwnSlots
      <4>2. s \in Ranks /\ k \in 1 .. Len(Slots(own, s)) /\ Slots(own, s)[k] = new
            /\ ~Installed(s, l, k)
        BY <2>3, <2>7 DEF Arrived
      <4>3. own[z] \in Ranks /\ Installed(own[z], l, Place(own, z))
        BY <3>2, <4>1 DEF Arrived
      <4>4. \/ pc[s] \in {"stage", "staged", "install", "relabel", "clear", "cleared"} /\ layer[s] > l
            \/ pc[s] \in {"staged", "install"} /\ layer[s] = l
        <5> HIDE DEF s, z, k, own
        <5> QED
          BY <1>t, <2>v, <4>2, <4>3, Overwriting
      <4>5. pc[s] \in {"staged", "install"} /\ layer[s] = l
        BY <4>2, <4>4 DEF Installed
      <4>6. Len(stage[s]) = Len(Received(s)) /\ plan[s][l] = own
        BY <1>t, <4>2, <4>5 DEF StageInv, Staging, PlanInv, Planned
      <4>7. Received(s) = Slots(own, s)
        BY <1>t, <4>2, <4>5, <4>6, ReceivedType
      <4>8. stage[s][k] = was[l][Source(own, Slots(own, s)[k])] /\ k \in 1 .. Len(stage[s])
        BY <2>1, <4>2, <4>5, <4>6, <4>7 DEF MovingFrom, BuffersHold
      <4>9. stage[s][k] = e
        BY <2>2, <2>3, <4>2, <4>8
      <4>10. e \in Range(stage[s])
        <5>1. stage[s] \in Seq(Experts)
          BY <1>t, <4>2
        <5>2. k \in DOMAIN stage[s]
          BY <4>8, <5>1
        <5> QED
          BY <4>9, <5>2 DEF Range
      <4> QED
        BY <4>2, <4>5, <4>10
    <3> QED
      BY <3>1, <3>2
  <2> QED
    BY <2>5, <2>6, <2>7
<1> QED
  BY <1>3, <1>4

THEOREM ExpertsTheorem == Spec => []NoExpertLost
BY Kept, Invariant, PTL
-----------------------------------------------------------------------------
(* The steps counted since the last move, when the layers of step s begin, *)
(* and when step s begins.                                                 *)
Since(s) ==
  IF s + Window >= At /\ ((s + Window) - At) % Period < Window
  THEN ((s + Window) - At) % Period ELSE 0
Due(s) == IF MoveAt(s) THEN Window ELSE Since(s)

CountInv ==
  \A r \in Ranks :
    /\ pc[r] \in {"publish", "published", "plan", "voted", "decide", "stage", "staged", "install",
                  "relabel", "clear"} => counted[r] = Window
    /\ pc[r] = "cleared" => counted[r] = 0
    /\ pc[r] = "layers" => counted[r] = Since(step[r])
    /\ pc[r] \in {"step", "computed"} => counted[r] = Due(step[r])

(* The remainder of the next number, and when it is that of w. *)
Onwards(u, b, w) ==
  /\ u % b \in 0 .. b - 1
  /\ (u + 1) % b = IF (u % b) + 1 = b THEN 0 ELSE (u % b) + 1
  /\ (u + 1) - w >= 0 =>
       (((u + 1) - w) % b = 0 <=> (u % b) + 1 = w \/ (w = 0 /\ (u % b) + 1 = b))

LEMMA Remainders ==
  ASSUME NEW b \in Nat \ {0}, NEW w \in Nat, w <= b, NEW u \in Nat
  PROVE  Onwards(u, b, w)
<1> DEFINE a == u \div b
           p == u % b
<1>1. a \in Nat /\ p \in 0 .. b - 1 /\ u = a * b + p
  BY Division
<1> HIDE DEF a, p
<1>2. a * b \in Nat /\ (a + 1) * b = a * b + b /\ (a >= 1 => (a - 1) * b = a * b - b)
  BY <1>1, ProductNat
<1>3. \A q \in Nat, r \in 0 .. b - 1 : (q * b + r) % b = r
  BY DivisionUnique
<1>4. (u + 1) % b = IF p + 1 = b THEN 0 ELSE p + 1
  <2>1. CASE p + 1 = b
    <3>1. u + 1 = (a + 1) * b + 0 /\ a + 1 \in Nat /\ 0 \in 0 .. b - 1
      BY <1>1, <1>2, <2>1
    <3> QED
      BY <1>3, <2>1, <3>1
  <2>2. CASE p + 1 # b
    <3>1. u + 1 = a * b + (p + 1) /\ p + 1 \in 0 .. b - 1
      BY <1>1, <1>2, <2>2
    <3> QED
      BY <1>1, <1>3, <2>2, <3>1
  <2> QED
    BY <2>1, <2>2
<1>5. ASSUME (u + 1) - w >= 0
      PROVE  ((u + 1) - w) % b = 0 <=> p + 1 = w \/ (w = 0 /\ p + 1 = b)
  <2>1. CASE p + 1 >= w /\ (p + 1) - w < b
    <3>1. (u + 1) - w = a * b + ((p + 1) - w) /\ (p + 1) - w \in 0 .. b - 1
      BY <1>1, <1>2, <2>1
    <3>2. ((u + 1) - w) % b = (p + 1) - w
      BY <1>1, <1>3, <3>1
    <3> QED
      BY <1>1, <2>1, <3>2
  <2>2. CASE p + 1 >= w /\ (p + 1) - w >= b
    <3>1. w = 0 /\ p + 1 = b
      BY <1>1, <2>2
    <3>2. (u + 1) - w = u + 1
      BY <3>1
    <3>3. ((u + 1) - w) % b = 0
      BY <1>4, <3>1, <3>2
    <3> QED
      BY <3>1, <3>3
  <2>3. CASE p + 1 < w
    <3>1. a >= 1
      <4>1. a = 0 => a * b = 0
        OBVIOUS
      <4> QED
        BY <1>1, <1>2, <1>5, <2>3, <4>1
    <3>2. (u + 1) - w = (a - 1) * b + ((b + p + 1) - w) /\ (b + p + 1) - w \in 1 .. b - 1
      BY <1>1, <1>2, <2>3, <3>1
    <3>3. ((u + 1) - w) % b = (b + p + 1) - w
      <4>1. a - 1 \in Nat /\ (b + p + 1) - w \in 0 .. b - 1
        BY <1>1, <3>1, <3>2
      <4>2. ((a - 1) * b + ((b + p + 1) - w)) % b = (b + p + 1) - w
        BY <1>3, <4>1
      <4> QED
        BY <3>2, <4>2
    <3> QED
      BY <1>1, <2>3, <3>2, <3>3
  <2> QED
    BY <1>1, <2>1, <2>2, <2>3
<1> QED
  BY <1>1, <1>4, <1>5 DEF p, Onwards

LEMMA Counts ==
  ASSUME Window <= Period, NEW s \in Nat
  PROVE  /\ MoveAt(s) => Since(s) = 0
         /\ Since(s) + (IF s + Window >= At /\ ((s + Window) - At) % Period < Window THEN 1 ELSE 0)
              = Due(s + 1)
         /\ Due(0) = 0
         /\ Since(s) \in Nat
<1>1. Window \in Nat /\ At \in Nat /\ Period \in Nat \ {0} /\ Window <= At
  BY EplbAssumption
<1>2. PICK u \in Int : u = (s + Window) - At
  BY <1>1
<1>z. 0 % Period = 0
  <2>1. (0 * Period + 0) % Period = 0 /\ 0 * Period + 0 = 0
    BY <1>1, DivisionUnique
  <2> QED
    BY <2>1
<1> DEFINE NextDue ==
  Since(s) + (IF s + Window >= At /\ ((s + Window) - At) % Period < Window
              THEN 1 ELSE 0) = Due(s + 1)
<1>3. ASSUME u < 0 PROVE NextDue
  <2>1. ~(s + Window >= At) /\ Since(s) = 0
    BY <1>1, <1>2, <1>3 DEF Since
  <2>2. MoveAt(s + 1) => Window = 0
    BY <1>1, <1>2, <1>3 DEF MoveAt
  <2>3. Since(s + 1) = 0
    <3>1. (s + 1 + Window) - At <= 0
      BY <1>1, <1>2, <1>3
    <3>2. (s + 1 + Window) - At = 0 \/ ~(s + 1 + Window >= At)
      BY <1>1, <3>1
    <3> QED
      BY <1>z, <3>2 DEF Since
  <2>4. Due(s + 1) = 0
    BY <2>2, <2>3 DEF Due
  <2> QED
    BY <2>1, <2>4, <1>1 DEF Due
<1>4. ASSUME u >= 0 PROVE NextDue
  <2> DEFINE p == u % Period
  <2>1. u \in Nat
    BY <1>2, <1>4
  <2>2. /\ p \in 0 .. Period - 1
        /\ (u + 1) % Period = IF p + 1 = Period THEN 0 ELSE p + 1
        /\ (u + 1) - Window >= 0 =>
              (((u + 1) - Window) % Period = 0 <=> p + 1 = Window \/ (Window = 0 /\ p + 1 = Period))
    <3>1. Window \in Nat /\ Period \in Nat \ {0} /\ Window <= Period
      BY <1>1
    <3>2. Onwards(u, Period, Window)
      BY <2>1, <3>1, Remainders
    <3> QED
      BY <3>2 DEF Onwards
  <2>3. /\ (s + 1 + Window) - At = u + 1 /\ (s + 1) - At = (u + 1) - Window
        /\ s + Window >= At /\ s + 1 + Window >= At
        /\ (s + 1 >= At <=> (u + 1) - Window >= 0)
    BY <1>1, <1>2, <1>4
  <2>4. Since(s) = IF p < Window THEN p ELSE 0
    BY <1>2, <2>3 DEF Since
  <2>5. Since(s + 1) = IF (u + 1) % Period < Window THEN (u + 1) % Period ELSE 0
    BY <1>2, <2>3 DEF Since
  <2>6. MoveAt(s + 1) <=>
          (u + 1) - Window >= 0 /\ (p + 1 = Window \/ (Window = 0 /\ p + 1 = Period))
    BY <2>2, <2>3 DEF MoveAt
  <2>7. p + 1 = Window => (u + 1) - Window >= 0
    <3>1. u >= p
      <4>1. u \div Period \in Nat /\ u = (u \div Period) * Period + p
        BY <1>1, <2>1, Division
      <4>2. (u \div Period) * Period \in Nat
        BY <1>1, <4>1, ProductNat
      <4> QED
        BY <2>2, <4>1, <4>2
    <3> QED
      BY <2>1, <2>2, <3>1
  <2> HIDE DEF p
  <2>8. (p < Window <=> ((s + Window) - At) % Period < Window)
    BY <1>2 DEF p
  <2>9. (IF p < Window THEN p ELSE 0) + (IF p < Window THEN 1 ELSE 0) = Due(s + 1)
    <3>1. CASE p < Window /\ p + 1 < Window
      BY <1>1, <2>1, <2>2, <2>5, <2>6, <3>1 DEF Due
    <3>2. CASE p < Window /\ p + 1 = Window
      BY <1>1, <2>1, <2>2, <2>5, <2>6, <2>7, <3>2 DEF Due
    <3>3. CASE p >= Window
      BY <1>1, <2>1, <2>2, <2>5, <2>6, <3>3 DEF Due
    <3> QED
      BY <1>1, <2>2, <3>1, <3>2, <3>3
  <2> QED
    BY <2>3, <2>4, <2>8, <2>9
<1>5. Since(s) \in Nat
  <2>1. CASE s + Window >= At
    <3>1. u \in Nat
      BY <1>1, <1>2, <2>1
    <3>2. u % Period \in Nat
      BY <1>1, <3>1, Division
    <3> QED
      BY <1>2, <3>2 DEF Since
  <2> QED
    BY <2>1 DEF Since
<1>6. MoveAt(s) => Since(s) = 0
  <2> SUFFICES ASSUME MoveAt(s) PROVE Since(s) = 0
    OBVIOUS
  <2> DEFINE m == (s - At) \div Period
  <2>1. s - At \in Nat /\ m \in Nat /\ s - At = m * Period + 0 /\ m * Period \in Nat
    <3>1. s - At \in Nat /\ (s - At) % Period = 0
      BY <1>1 DEF MoveAt
    <3> QED
      BY <1>1, <3>1, Division, ProductNat
  <2> HIDE DEF m
  <2>2. (s + Window) - At = m * Period + Window /\ (m + 1) * Period = m * Period + Period
    BY <1>1, <2>1
  <2>3. CASE Window < Period
    <3>1. ((s + Window) - At) % Period = Window
      BY <1>1, <2>1, <2>2, <2>3, DivisionUnique
    <3> QED
      BY <1>1, <3>1 DEF Since
  <2>4. CASE Window = Period
    <3>1. (s + Window) - At = (m + 1) * Period + 0 /\ m + 1 \in Nat
      BY <1>1, <2>1, <2>2, <2>4
    <3>2. ((s + Window) - At) % Period = 0
      BY <1>1, <3>1, DivisionUnique
    <3> QED
      BY <3>2 DEF Since
  <2> QED
    BY <1>1, <2>3, <2>4
<1>7. Due(0) = 0
  <2>1. MoveAt(0) => Window = 0
    BY <1>1 DEF MoveAt
  <2>2. Since(0) = 0
    <3>1. (0 + Window) - At = 0 \/ ~(0 + Window >= At)
      BY <1>1
    <3> QED
      BY <1>z, <3>1 DEF Since
  <2> QED
    BY <2>1, <2>2 DEF Due
<1> QED
  BY <1>2, <1>3, <1>4, <1>5, <1>6, <1>7

LEMMA CountStep ==
  ASSUME Window <= Period
  PROVE  Synced /\ CountInv /\ [Next]_vars => CountInv'
<1> DEFINE Counted(q) ==
      /\ pc[q] \in {"publish", "published", "plan", "voted", "decide", "stage", "staged", "install",
                    "relabel", "clear"} => counted[q] = Window
      /\ pc[q] = "cleared" => counted[q] = 0
      /\ pc[q] = "layers" => counted[q] = Since(step[q])
      /\ pc[q] \in {"step", "computed"} => counted[q] = Due(step[q])
<1> SUFFICES ASSUME Synced, CountInv, [Next]_vars, NEW q \in Ranks PROVE Counted(q)'
  BY DEF CountInv
<1> USE DEF stepVars, moveVars, placeVars, barrierVars, GoTo
<1>0. Counted(q) /\ \A r \in Ranks : Control(r)
  BY DEF CountInv, Synced, ControlInv
<1>t. pc \in [Ranks -> Points] /\ step \in [Ranks -> Nat] /\ counted \in [Ranks -> Nat]
  BY DEF Synced, TypeInv
<1>s. /\ step'[q] = step[q] => Since(step[q])' = Since(step[q]) /\ Due(step[q])' = Due(step[q])
  BY DEF Since, Due, MoveAt
<1>u. ASSUME pc'[q] = pc[q], step'[q] = step[q], counted'[q] = counted[q] PROVE Counted(q)'
  <2>1. Since(step[q])' = Since(step[q]) /\ Due(step[q])' = Due(step[q])
    BY <1>s, <1>u
  <2>2. counted'[q] = Window \/ ~(pc'[q] \in {"publish", "published", "plan", "voted", "decide",
                                              "stage", "staged", "install", "relabel", "clear"})
    BY <1>0, <1>u
  <2>3. pc'[q] = "cleared" => counted'[q] = 0
    BY <1>0, <1>u
  <2>4. pc'[q] = "layers" => counted'[q] = Since(step[q])'
    BY <1>0, <1>u, <2>1
  <2>5. pc'[q] \in {"step", "computed"} => counted'[q] = Due(step[q])'
    BY <1>0, <1>u, <2>1
  <2> QED
    BY <2>2, <2>3, <2>4, <2>5
<1>c. ASSUME step'[q] = step[q], counted'[q] = counted[q],
             pc[q] \in (Planned \ {"cleared"}) \cup {"publish", "published", "plan"},
             pc'[q] \in (Planned \ {"cleared"}) \cup {"published", "plan"}
      PROVE  Counted(q)'
  BY <1>0, <1>c DEF Planned
<1> HIDE DEF Counted
<1>1. ASSUME NEW r \in Ranks, BeginStep(r) PROVE Counted(q)'
  <2>1. /\ pc[r] = "step" /\ UNCHANGED <<step, counted>>
        /\ pc' = [pc EXCEPT ![r] = IF MoveAt(step[r]) THEN "publish" ELSE "layers"]
    BY <1>1 DEF BeginStep, MoveNow, MoveAt
  <2>2. CASE q = r
    <3>1. pc'[q] = IF MoveAt(step[q]) THEN "publish" ELSE "layers"
      BY <1>t, <2>1, <2>2
    <3>2. counted'[q] = (IF MoveAt(step[q]) THEN Window ELSE Since(step[q])) /\ step'[q] = step[q]
      BY <1>0, <2>1, <2>2 DEF Counted, Due
    <3> QED
      BY <1>s, <3>1, <3>2 DEF Counted
  <2>3. CASE q # r
    BY <1>t, <1>u, <2>1, <2>3
  <2> QED
    BY <2>2, <2>3
<1>2. ASSUME NEW r \in Ranks, Publish(r) PROVE Counted(q)'
  <2>1. /\ pc[r] = "publish" /\ pc' = [pc EXCEPT ![r] = "published"] /\ UNCHANGED <<step, counted>>
    BY <1>2 DEF Publish
  <2> QED
    BY <1>c, <1>t, <1>u, <2>1 DEF Planned
<1>3. ASSUME NEW r \in Ranks, Arrive(r) PROVE Counted(q)'
  BY <1>3, <1>u DEF Arrive
<1>4. ASSUME NEW r \in Ranks, Leave(r) PROVE Counted(q)'
  <2>1. /\ pc[r] \in Waiting /\ pc' = [pc EXCEPT ![r] = WaitsThen[pc[r]]]
        /\ UNCHANGED <<step, counted>>
    BY <1>4, WaitTypes DEF Leave
  <2>2. CASE q = r
    <3>1. CASE pc[r] = "cleared"
      <4>1. pc'[q] = "layers" /\ counted'[q] = 0 /\ MoveAt(step[q]) /\ step'[q] = step[q]
        BY <1>0, <1>t, <2>1, <2>2, <3>1, WaitTypes DEF Counted, Control, Planned
      <4>2. Since(step[q]) = 0
        BY <1>t, <4>1, Counts
      <4> QED
        BY <1>s, <4>1, <4>2 DEF Counted
    <3>2. CASE pc[r] = "computed"
      <4>1. pc'[q] = "step" /\ counted'[q] = Due(step[q]) /\ step'[q] = step[q]
        BY <1>0, <1>t, <2>1, <2>2, <3>2, WaitTypes DEF Counted
      <4> QED
        BY <1>s, <4>1 DEF Counted
    <3>3. CASE pc[r] \in {"published", "voted", "staged"}
      BY <1>c, <1>t, <2>1, <2>2, <3>3, WaitTypes DEF Planned
    <3> QED
      BY <2>1, <3>1, <3>2, <3>3 DEF Waiting
  <2>3. CASE q # r
    BY <1>t, <1>u, <2>1, <2>3
  <2> QED
    BY <2>2, <2>3
<1>5. ASSUME NEW r \in Ranks, Vote(r) PROVE Counted(q)'
  <2>1. /\ pc[r] = "plan" /\ pc' = [pc EXCEPT ![r] = "voted"] /\ UNCHANGED <<step, counted>>
    BY <1>5 DEF Vote
  <2> QED
    BY <1>c, <1>t, <1>u, <2>1 DEF Planned
<1>6. ASSUME NEW r \in Ranks, Decide(r) PROVE Counted(q)'
  <2>1. /\ pc[r] = "decide" /\ UNCHANGED <<step, counted>>
        /\ pc' = [pc EXCEPT ![r] = "stage"] \/ pc' = [pc EXCEPT ![r] = "clear"]
    BY <1>6 DEF Decide
  <2> QED
    BY <1>c, <1>t, <1>u, <2>1 DEF Planned
<1>7. ASSUME NEW r \in Ranks, Stage(r) PROVE Counted(q)'
  <2>1. /\ pc[r] = "stage" /\ UNCHANGED <<step, counted>>
        /\ pc' = pc \/ pc' = [pc EXCEPT ![r] = "staged"]
    BY <1>7 DEF Stage
  <2> QED
    BY <1>c, <1>t, <1>u, <2>1 DEF Planned
<1>8. ASSUME NEW r \in Ranks, Install(r) PROVE Counted(q)'
  <2>1. /\ pc[r] = "install" /\ UNCHANGED <<step, counted>>
        /\ pc' = pc \/ pc' = [pc EXCEPT ![r] = "stage"] \/ pc' = [pc EXCEPT ![r] = "relabel"]
    BY <1>8 DEF Install
  <2> QED
    BY <1>c, <1>t, <1>u, <2>1 DEF Planned
<1>9. ASSUME NEW r \in Ranks, Relabel(r) PROVE Counted(q)'
  <2>1. /\ pc[r] = "relabel" /\ UNCHANGED <<step, counted>> /\ pc' = [pc EXCEPT ![r] = "clear"]
    BY <1>9 DEF Relabel
  <2> QED
    BY <1>c, <1>t, <1>u, <2>1 DEF Planned
<1>10. ASSUME NEW r \in Ranks, Clear(r) PROVE Counted(q)'
  BY <1>10, <1>t, <1>u DEF Clear, Counted
<1>11. ASSUME NEW r \in Ranks, Compute(r) PROVE Counted(q)'
  <2>1. /\ pc[r] = "layers" /\ pc' = [pc EXCEPT ![r] = "computed"]
        /\ step' = [step EXCEPT ![r] = @ + 1]
        /\ counted' = [counted EXCEPT ![r] = IF CountNow(r) THEN @ + 1 ELSE @]
    BY <1>11 DEF Compute
  <2>2. CASE q = r
    <3>1. pc'[q] = "computed" /\ step'[q] = step[q] + 1
          /\ counted'[q] = IF CountNow(q) THEN counted[q] + 1 ELSE counted[q]
      BY <1>t, <2>1, <2>2
    <3>2. counted[q] = Since(step[q]) /\ counted[q] \in Nat /\ step[q] \in Nat
      BY <1>0, <1>t, <2>1, <2>2 DEF Counted
    <3>3. counted'[q] = Due(step[q] + 1)
      <4>0. CountNow(q) <=> (step[q] + Window >= At /\ ((step[q] + Window) - At) % Period < Window)
        <5>1. step[q] + Window - At = (step[q] + Window) - At
          BY <3>2, EplbAssumption
        <5> QED
          BY <5>1 DEF CountNow
      <4>1. Since(step[q]) + (IF CountNow(q) THEN 1 ELSE 0) = Due(step[q] + 1)
        BY <3>2, <4>0, Counts
      <4>2. counted'[q] = counted[q] + (IF CountNow(q) THEN 1 ELSE 0)
        BY <3>1, <3>2
      <4> QED
        BY <3>2, <4>1, <4>2
    <3>4. Due(step[q])' = Due(step[q] + 1)
      BY <3>1 DEF Due, Since, MoveAt
    <3> QED
      BY <3>1, <3>3, <3>4 DEF Counted
  <2>3. CASE q # r
    BY <1>t, <1>u, <2>1, <2>3
  <2> QED
    BY <2>2, <2>3
<1>12. CASE UNCHANGED vars
  BY <1>12, <1>u DEF vars
<1> QED
  BY <1>1, <1>2, <1>3, <1>4, <1>5, <1>6, <1>7, <1>8, <1>9, <1>10, <1>11, <1>12
     DEF Next, Rank, Terminated

LEMMA Prepared == IInv /\ CountInv => MovesPrepared
<1> SUFFICES ASSUME IInv, CountInv PROVE MovesPrepared
  OBVIOUS
<1>t. /\ TypeInv /\ StageInv /\ PlanInv /\ AgreeInv /\ plan \in [Ranks -> [LayerSet -> Plans]]
      /\ stageCap \in [Ranks -> Nat] /\ BorrowRoom \in Nat
  BY EplbAssumption DEF IInv, TypeInv
<1>1. \A r, q \in Ranks : pc[r] = "voted" /\ pc[q] = "voted" => plan[r] = plan[q]
  <2> SUFFICES ASSUME NEW r \in Ranks, NEW q \in Ranks, pc[r] = "voted", pc[q] = "voted"
               PROVE  plan[r] = plan[q]
    OBVIOUS
  <2>1. \A l \in LayerSet : plan[r][l] = plan[q][l]
    BY <1>t DEF PlanInv, Planned
  <2> QED
    BY <1>t, <2>1
<1>2. \A r \in Ranks : pc[r] = "publish" => counted[r] = Window
  BY DEF CountInv
<1>3. ASSUME NEW r \in Ranks PROVE Len(stage[r]) <= Max({stageCap[r], BorrowRoom})
  <2>1. /\ Max({stageCap[r], BorrowRoom}) \in Nat
        /\ stageCap[r] <= Max({stageCap[r], BorrowRoom})
        /\ BorrowRoom <= Max({stageCap[r], BorrowRoom})
    BY <1>t, MaxOfTwo
  <2> HIDE DEF Max
  <2>2. CASE pc[r] \in {"stage", "staged", "install"}
    <3>1. layer[r] < Layers /\ layer[r] \in LayerSet
      BY <1>t, <2>2, ReceivedType DEF IInv, ControlInv, Control
    <3>2. Balanced(plan[r][layer[r]]) /\ \A l \in LayerSet : Balanced(plan[r][l])
      BY <1>t, <3>1 DEF TypeInv
    <3>3. Len(Received(r)) = Cardinality(Incoming(plan[r][layer[r]], r)) /\ Len(Received(r)) \in Nat
      BY <1>t, <3>1, <3>2, ReceivedType, SlotsReceived
    <3>4. /\ MostIncoming(plan[r], r) \in Nat
          /\ Cardinality(Incoming(plan[r][layer[r]], r)) <= MostIncoming(plan[r], r)
      BY <3>1, <3>2, NeedType
    <3>5. Len(stage[r]) <= Len(Received(r)) /\ Len(stage[r]) \in Nat
      <4>1. stage[r] \in Seq(Experts)
        BY DEF IInv, TypeInv
      <4> QED
        BY <1>t, <2>2, <3>3, <4>1 DEF StageInv, Staging
    <3>6. Room(r)
      BY <1>t, <2>2 DEF PlanInv, Planned, AgreeInv, Moving, Moves
    <3> QED
      BY <1>t, <2>1, <3>3, <3>4, <3>5, <3>6 DEF Room
  <2>3. CASE pc[r] \notin {"stage", "staged", "install"}
    <3>1. Len(stage[r]) = 0
      BY <1>t, <2>3 DEF StageInv, Staging
    <3> QED
      BY <2>1, <3>1
  <2> QED
    BY <2>2, <2>3
<1> QED
  BY <1>1, <1>2, <1>3 DEF MovesPrepared

(* Where the counting windows do not overlap, as with the values of the    *)
(* build, every move is prepared alike on all ranks, from exactly the      *)
(* steps of its window, and within the room that was voted for.            *)
THEOREM PreparationTheorem ==
  ASSUME Window <= Period
  PROVE  Spec => []MovesPrepared
<1>1. Init => CountInv
  <2> SUFFICES ASSUME Init, NEW r \in Ranks
               PROVE  pc[r] = "step" /\ counted[r] = Due(step[r])
    BY DEF CountInv
  <2>1. pc[r] = "step" /\ counted[r] = 0 /\ step[r] = 0
    BY DEF Init
  <2>2. Due(0) = 0
    BY Counts
  <2> QED
    BY <2>1, <2>2
<1>2. IInv /\ CountInv /\ [Next]_vars => CountInv'
  BY CountStep DEF IInv, Synced
<1> QED
  BY <1>1, <1>2, Prepared, Invariant, PTL DEF Spec
-----------------------------------------------------------------------------
(* The loads are numbers, and there is a heaviest and a lightest rank. *)
LEMMA LoadBounds ==
  ASSUME NEW t \in [Labels -> Nat], NEW own \in Plans
  PROVE  /\ \A r \in Ranks : Load(t, own, r) \in Int
         /\ Heaviest(t, own) \in Int /\ Lightest(t, own) \in Int
         /\ \A r \in Ranks : Load(t, own, r) <= Heaviest(t, own)
         /\ \E r \in Ranks : Load(t, own, r) = Heaviest(t, own)
         /\ High(t, own) \in Ranks /\ Load(t, own, High(t, own)) = Heaviest(t, own)
         /\ Low(t, own) \in Ranks /\ Load(t, own, Low(t, own)) = Lightest(t, own)
<1>1. ASSUME NEW r \in Ranks PROVE Load(t, own, r) \in Int
  <2>1. IsFiniteSet(Owned(own, r)) /\ \A lab \in Owned(own, r) : t[lab] \in Int
    BY LabelTypes, FS_Subset DEF Owned
  <2>2. SumFunctionOnSet(t, Owned(own, r)) \in Int
    BY <2>1, SumStep
  <2> QED
    BY <2>2 DEF Load, Owned
<1> DEFINE f == [r \in Ranks |-> Load(t, own, r)]
           V == {Load(t, own, r) : r \in Ranks}
<1>2. f \in [Ranks -> Int] /\ V = {f[r] : r \in Ranks}
  BY <1>1
<1>3. IsFiniteSet(V)
  <2> HIDE DEF f, V
  <2> QED
    BY <1>2, LabelTypes, ImageValues
<1>4. V \in SUBSET Int /\ V # {}
  BY <1>1, LabelTypes
<1>5. \A r \in Ranks : Load(t, own, r) \in V
  OBVIOUS
<1>6. \A v \in V : \E r \in Ranks : Load(t, own, r) = v
  OBVIOUS
<1>7. Heaviest(t, own) = Max(V) /\ Lightest(t, own) = Min(V)
  BY DEF Heaviest, Lightest
<1> HIDE DEF V
<1>8. /\ Max(V) \in V /\ \A v \in V : Max(V) >= v
      /\ Min(V) \in V /\ \A v \in V : Min(V) <= v
  BY <1>3, <1>4, LargestNumber, SmallestNumber
<1>9. \A r \in Ranks : Load(t, own, r) <= Heaviest(t, own)
  BY <1>1, <1>4, <1>5, <1>7, <1>8
<1>10. ASSUME NEW v \in V
       PROVE  LET S == {r \in Ranks : Load(t, own, r) = v} IN Min(S) \in S
  <2> DEFINE S == {r \in Ranks : Load(t, own, r) = v}
  <2>1. S \in SUBSET Ranks /\ S # {}
    BY <1>6
  <2> HIDE DEF S
  <2>2. IsFiniteSet(S) /\ S \in SUBSET Int
    <3>1. IsFiniteSet(S)
      BY <2>1, LabelTypes, FS_Subset
    <3>2. Ranks \in SUBSET Int
      BY LabelTypes
    <3> QED
      BY <2>1, <3>1, <3>2
  <2>3. Min(S) \in S
    BY <2>1, <2>2, SmallestNumber
  <2> QED
    BY <2>3 DEF S
<1>11. High(t, own) \in Ranks /\ Load(t, own, High(t, own)) = Heaviest(t, own)
  BY <1>7, <1>8, <1>10 DEF High
<1>12. Low(t, own) \in Ranks /\ Load(t, own, Low(t, own)) = Lightest(t, own)
  BY <1>7, <1>8, <1>10 DEF Low
<1> QED
  BY <1>1, <1>4, <1>7, <1>8, <1>9, <1>11, <1>12

(* What a swap does to the loads. *)
LEMMA SwapLoads ==
  ASSUME NEW t \in [Labels -> Nat], NEW own \in Plans, NEW a \in Labels, NEW b \in Labels,
         own[a] # own[b]
  PROVE  LET new == Swapped(own, <<a, b>>)
         IN  /\ new \in Plans
             /\ Load(t, new, own[a]) = Load(t, own, own[a]) - (t[a] - t[b])
             /\ Load(t, new, own[b]) = Load(t, own, own[b]) + (t[a] - t[b])
             /\ \A r \in Ranks \ {own[a], own[b]} : Load(t, new, r) = Load(t, own, r)
<1> DEFINE new == Swapped(own, <<a, b>>)
<1>1. /\ new \in Plans /\ new[a] = own[b] /\ new[b] = own[a]
      /\ \A lab \in Labels : lab # a /\ lab # b => new[lab] = own[lab]
  BY DEF Plans, Swapped
<1> HIDE DEF new
<1>2. \A p, r : Load(t, p, r) = SumFunctionOnSet(t, Owned(p, r))
  BY DEF Load, Owned
<1>3. \A S \in SUBSET Labels : IsFiniteSet(S) /\ \A lab \in S : t[lab] \in Int
  <2>1. \A S \in SUBSET Labels : IsFiniteSet(S)
    BY LabelTypes, FS_Subset
  <2> QED
    BY <2>1
<1>4. ASSUME NEW x \in Labels, NEW y \in Labels, {x, y} = {a, b}, x # y
      PROVE  Load(t, new, own[x]) = Load(t, own, own[x]) - t[x] + t[y]
  <2> DEFINE rest == Owned(own, own[x]) \ {x}
  <2>1. own[x] # own[y] /\ new[x] = own[y] /\ new[y] = own[x]
    BY <1>1, <1>4
  <2>2. rest \in SUBSET Labels /\ x \notin rest /\ y \notin rest
    BY <2>1 DEF Owned
  <2>3. Owned(own, own[x]) = rest \cup {x}
    BY DEF Owned
  <2>4. Owned(new, own[x]) = rest \cup {y}
    BY <1>1, <1>4, <2>1 DEF Owned
  <2> HIDE DEF rest
  <2>5. /\ SumFunctionOnSet(t, rest \cup {x}) = SumFunctionOnSet(t, rest) + t[x]
        /\ SumFunctionOnSet(t, rest \cup {y}) = SumFunctionOnSet(t, rest) + t[y]
        /\ SumFunctionOnSet(t, rest) \in Int /\ t[x] \in Int /\ t[y] \in Int
    BY <1>3, <2>2, SumAdd
  <2>6. /\ Load(t, own, own[x]) = SumFunctionOnSet(t, rest) + t[x]
        /\ Load(t, new, own[x]) = SumFunctionOnSet(t, rest) + t[y]
    BY <1>2, <2>3, <2>4, <2>5
  <2> HIDE DEF new
  <2> QED
    BY <2>5, <2>6
<1>5. a # b
  OBVIOUS
<1>6. /\ Load(t, new, own[a]) = Load(t, own, own[a]) - t[a] + t[b]
      /\ Load(t, new, own[b]) = Load(t, own, own[b]) - t[b] + t[a]
  BY <1>4, <1>5
<1>7. /\ Load(t, own, own[a]) \in Int /\ Load(t, own, own[b]) \in Int
      /\ t[a] \in Int /\ t[b] \in Int
  BY LoadBounds DEF Plans
<1>8. /\ Load(t, new, own[a]) = Load(t, own, own[a]) - (t[a] - t[b])
      /\ Load(t, new, own[b]) = Load(t, own, own[b]) + (t[a] - t[b])
  BY <1>6, <1>7
<1>9. ASSUME NEW r \in Ranks \ {own[a], own[b]} PROVE Load(t, new, r) = Load(t, own, r)
  <2>1. Owned(new, r) = Owned(own, r)
    BY <1>1 DEF Owned
  <2> QED
    BY <1>2, <2>1
<1> QED
  BY <1>1, <1>8, <1>9 DEF new

(* A swap of the greedy takes from the heaviest rank and gives to another. *)
LEMMA SwapChosen ==
  ASSUME NEW t \in [Labels -> Nat], NEW own \in Plans, Swaps(t, own) # {}
  PROVE  \E a, b \in Labels :
           /\ BestSwap(t, own) = <<a, b>> /\ own[a] # own[b]
           /\ Load(t, own, own[a]) = Heaviest(t, own)
           /\ Load(t, own, own[b]) = Lightest(t, own)
           /\ t[a] > t[b]
           /\ Lightest(t, own) + (t[a] - t[b]) < Heaviest(t, own)
<1>1. BestSwap(t, own) \in Swaps(t, own) /\ BestSwap(t, own) \in Labels \X Labels
  BY BestSwapExists
<1>2. PICK a \in Labels, b \in Labels : BestSwap(t, own) = <<a, b>>
  BY <1>1
<1>3. /\ own[a] = High(t, own) /\ own[b] = Low(t, own) /\ t[a] > t[b]
      /\ Peak(t, own, <<a, b>>) < Heaviest(t, own)
  BY <1>1, <1>2 DEF Swaps
<1> DEFINE d == t[a] - t[b]
           h == Heaviest(t, own)
           w == Lightest(t, own)
<1>4. d \in Int /\ h \in Int /\ w \in Int
  BY LoadBounds
<1>5. Peak(t, own, <<a, b>>) = Max({h - d, w + d})
  BY DEF Peak
<1>6. Load(t, own, own[a]) = h /\ Load(t, own, own[b]) = w
  BY <1>3, LoadBounds
<1>7. d > 0
  BY <1>3
<1> HIDE DEF d, h, w
<1>8. w + d < h
  <2>1. h - d \in Int /\ w + d \in Int
    BY <1>4
  <2>2. Max({h - d, w + d}) = IF h - d >= w + d THEN h - d ELSE w + d
    BY <2>1, MaxOfTwo
  <2>3. Max({h - d, w + d}) < h
    BY <1>3, <1>5 DEF h
  <2> QED
    BY <1>4, <2>2, <2>3
<1>9. own[a] # own[b]
  <2>1. h # w
    BY <1>4, <1>7, <1>8
  <2> QED
    BY <1>6, <2>1
<1> QED
  BY <1>2, <1>3, <1>6, <1>8, <1>9 DEF d, h, w

(* After n swaps: the peak is no higher, and n swaps move 2 n labels, at   *)
(* most n of them to one rank.                                             *)
Improved(t, own, n) ==
  /\ Heaviest(t, own) <= Heaviest(t, Unmoved)
  /\ Cardinality(Moved(own)) <= 2 * n
  /\ \A r \in Ranks : Cardinality(Incoming(own, r)) <= n

(* The greedy starts with nothing moved. *)
LEMMA UnmovedImproved ==
  ASSUME NEW t \in [Labels -> Nat]
  PROVE  Improved(t, Unmoved, 0)
<1>1. Unmoved \in Plans
  BY UnmovedBalanced DEF Balanced
<1>2. Moved(Unmoved) = {} /\ \A r \in Ranks : Incoming(Unmoved, r) = {}
  BY DEF Moved, Incoming, Unmoved
<1>3. Cardinality({}) = 0
  BY FS_EmptySet
<1>4. Heaviest(t, Unmoved) \in Int
  BY <1>1, LoadBounds
<1> QED
  BY <1>2, <1>3, <1>4 DEF Improved

(* One turn of the greedy, whether or not it finds a swap. *)
LEMMA StepImproved ==
  ASSUME NEW t \in [Labels -> Nat], NEW own \in Plans, NEW n \in Nat, Improved(t, own, n)
  PROVE  Improved(t, GreedyStep(t, own), n + 1)
<1>1. /\ Unmoved \in Plans
      /\ Heaviest(t, Unmoved) \in Int /\ Heaviest(t, own) \in Int /\ Lightest(t, own) \in Int
  BY UnmovedBalanced, LoadBounds DEF Balanced
<1>2. \A S \in SUBSET Labels : IsFiniteSet(S) /\ Cardinality(S) \in Nat
  BY LabelTypes, FS_Subset, FS_CardinalityType
<1>3. \A p, r : Moved(p) \in SUBSET Labels /\ Incoming(p, r) \in SUBSET Labels
  BY DEF Moved, Incoming
<1>4. CASE Swaps(t, own) = {}
  <2>1. GreedyStep(t, own) = own
    BY <1>4 DEF GreedyStep
  <2>2. /\ Cardinality(Moved(own)) \in Nat
        /\ \A r \in Ranks : Cardinality(Incoming(own, r)) \in Nat
    BY <1>2, <1>3
  <2> QED
    BY <2>1, <2>2 DEF Improved
<1>5. CASE Swaps(t, own) # {}
  <2>1. PICK a \in Labels, b \in Labels :
           /\ BestSwap(t, own) = <<a, b>> /\ own[a] # own[b]
           /\ Load(t, own, own[a]) = Heaviest(t, own)
           /\ Load(t, own, own[b]) = Lightest(t, own)
           /\ t[a] > t[b]
           /\ Lightest(t, own) + (t[a] - t[b]) < Heaviest(t, own)
    BY <1>5, SwapChosen
  <2> DEFINE new == Swapped(own, <<a, b>>)
             d == t[a] - t[b]
  <2>2. /\ new \in Plans
        /\ Load(t, new, own[a]) = Heaviest(t, own) - d
        /\ Load(t, new, own[b]) = Lightest(t, own) + d
        /\ \A r \in Ranks \ {own[a], own[b]} : Load(t, new, r) = Load(t, own, r)
    BY <2>1, SwapLoads
  <2>3. /\ new[a] = own[b] /\ new[b] = own[a]
        /\ \A lab \in Labels : lab # a /\ lab # b => new[lab] = own[lab]
    BY DEF Plans, Swapped
  <2>4. d \in Int /\ d > 0 /\ Lightest(t, own) + d < Heaviest(t, own)
    BY <2>1
  <2>5. GreedyStep(t, own) = new
    BY <1>5, <2>1 DEF GreedyStep
  <2>6. own[a] \in Ranks /\ own[b] \in Ranks
    BY DEF Plans
  <2> HIDE DEF new, d
  <2>7. \A r \in Ranks : Load(t, new, r) <= Heaviest(t, own)
    <3> TAKE r \in Ranks
    <3>1. CASE r = own[a]
      BY <1>1, <2>2, <2>4, <3>1
    <3>2. CASE r = own[b]
      BY <1>1, <2>2, <2>4, <3>2
    <3>3. CASE r \notin {own[a], own[b]}
      BY <2>2, <3>3, LoadBounds
    <3> QED
      BY <3>1, <3>2, <3>3
  <2>8. Heaviest(t, new) <= Heaviest(t, Unmoved)
    <3>1. PICK r \in Ranks : Load(t, new, r) = Heaviest(t, new)
      BY <2>2, LoadBounds
    <3>2. Heaviest(t, new) \in Int /\ Heaviest(t, new) <= Heaviest(t, own)
      BY <2>2, <2>7, <3>1, LoadBounds
    <3> QED
      BY <1>1, <3>2 DEF Improved
  <2>9. Cardinality(Moved(new)) <= 2 * (n + 1)
    <3> DEFINE A == Moved(own) \cup {a}
               B == A \cup {b}
    <3>1. Moved(new) \in SUBSET B
      BY <2>3 DEF Moved
    <3>2. A \in SUBSET Labels /\ B \in SUBSET Labels
      BY <1>3
    <3>3. Cardinality(A) <= Cardinality(Moved(own)) + 1
      BY <1>2, <1>3, FS_AddElement
    <3>4. Cardinality(B) <= Cardinality(A) + 1
      <4> HIDE DEF A
      <4> QED
        BY <1>2, <3>2, FS_AddElement
    <3> HIDE DEF A, B
    <3>5. Cardinality(Moved(new)) <= Cardinality(B)
      BY <1>2, <3>1, <3>2, FS_Subset
    <3>6. /\ Cardinality(A) \in Nat /\ Cardinality(B) \in Nat
          /\ Cardinality(Moved(own)) \in Nat /\ Cardinality(Moved(new)) \in Nat
      BY <1>2, <1>3, <3>2
    <3>7. Cardinality(Moved(own)) <= 2 * n
      BY DEF Improved
    <3> QED
      BY <3>3, <3>4, <3>5, <3>6, <3>7
  <2>10. ASSUME NEW r \in Ranks PROVE Cardinality(Incoming(new, r)) <= n + 1
    <3>1. PICK x \in Labels : Incoming(new, r) \in SUBSET (Incoming(own, r) \cup {x})
      <4>1. CASE r = own[a]
        <5>1. Incoming(new, r) \in SUBSET (Incoming(own, r) \cup {b})
          BY <2>1, <2>3, <4>1 DEF Incoming
        <5> QED
          BY <5>1
      <4>2. CASE r # own[a]
        <5>1. Incoming(new, r) \in SUBSET (Incoming(own, r) \cup {a})
          BY <2>1, <2>3, <4>2 DEF Incoming
        <5> QED
          BY <5>1
      <4> QED
        BY <4>1, <4>2
    <3> DEFINE A == Incoming(own, r) \cup {x}
    <3>2. A \in SUBSET Labels
      BY <1>3
    <3>3. Cardinality(A) <= Cardinality(Incoming(own, r)) + 1
      BY <1>2, <1>3, FS_AddElement
    <3>4. Cardinality(Incoming(new, r)) <= Cardinality(A)
      <4> HIDE DEF A
      <4>1. Incoming(new, r) \in SUBSET A
        BY <3>1 DEF A
      <4> QED
        BY <1>2, <3>2, <4>1, FS_Subset
    <3> HIDE DEF A
    <3>5. /\ Cardinality(A) \in Nat /\ Cardinality(Incoming(own, r)) \in Nat
          /\ Cardinality(Incoming(new, r)) \in Nat
      BY <1>2, <1>3, <3>2
    <3>6. Cardinality(Incoming(own, r)) <= n
      BY DEF Improved
    <3> QED
      BY <3>3, <3>4, <3>5, <3>6
  <2> QED
    BY <2>5, <2>8, <2>9, <2>10 DEF Improved
<1> QED
  BY <1>4, <1>5

(* All of them. *)
LEMMA OwnersImproved ==
  ASSUME NEW t \in [Labels -> Nat]
  PROVE  Improved(t, Owners(t), MaxMoves \div 2)
<1> DEFINE X == {c \in Nat \X Plans : Improved(t, c[2], c[1])}
<1>1. <<0, Unmoved>> \in X
  BY UnmovedImproved, UnmovedBalanced DEF Balanced
<1>2. ASSUME NEW k \in 1 .. MaxMoves \div 2, NEW own \in Plans, <<k - 1, own>> \in X
      PROVE  <<k, GreedyStep(t, own)>> \in X
  <2>1. k - 1 \in Nat /\ Improved(t, own, k - 1) /\ k \in Nat /\ (k - 1) + 1 = k
    BY <1>2
  <2>2. Improved(t, GreedyStep(t, own), k)
    BY <2>1, StepImproved
  <2>3. GreedyStep(t, own) \in Plans
    <3>1. CASE Swaps(t, own) # {}
      <4>1. PICK a, b \in Labels : BestSwap(t, own) = <<a, b>> /\ own[a] # own[b]
        BY <3>1, SwapChosen
      <4> QED
        BY <3>1, <4>1, SwapLoads DEF GreedyStep
    <3> QED
      BY <3>1 DEF GreedyStep
  <2> QED
    BY <2>1, <2>2, <2>3
<1> HIDE DEF X
<1>3. <<MaxMoves \div 2, Owners(t)>> \in X
  BY <1>1, <1>2, OwnersReached
<1> QED
  BY <1>3 DEF X

(* The plan is sound for any loads: no rank ends up with more than the     *)
(* heaviest had, at most MaxMoves labels move, at most half of them to one *)
(* rank, and the labels are permuted (eplb_plan).                          *)
THEOREM PlansSound == AlgSpec => []PlanSound
<1> DEFINE Inv == Of("plan") => input \in [Labels -> LoadChoices]
<1>1. AlgInit => Inv
  BY DEF AlgInit, Of
<1>2. Inv /\ [AlgNext]_algVars => Inv'
  BY DEF AlgNext, algVars, Given, Of
<1>3. Inv => PlanSound
  <2> SUFFICES ASSUME Of("plan"), input \in [Labels -> LoadChoices] PROVE PlanSound
    BY DEF PlanSound
  <2> DEFINE own == Owners(input)
             new == NewLabels(own)
             K == MaxMoves \div 2
  <2>1. input \in [Labels -> Nat]
    BY AlgorithmsAssumption
  <2>2. Improved(input, own, K)
    BY <2>1, OwnersImproved
  <2>3. K \in Nat /\ 2 * K <= MaxMoves /\ MaxMoves \in Nat
    BY PlanAssumption
  <2>4. own \in Plans /\ Balanced(own)
    BY <2>1, OwnersBalanced DEF Balanced
  <2> HIDE DEF K, own
  <2>5. {new[lab] : lab \in Labels} = Labels
    <3>1. new \in [Labels -> Labels] /\ \A y \in Labels : \E x \in Labels : new[x] = y
      BY <2>4, NewLabelsPermute
    <3> QED
      BY <3>1
  <2>6. Cardinality(Moved(own)) <= MaxMoves
    <3>1. Moved(own) \in SUBSET Labels
      BY DEF Moved
    <3>2. Cardinality(Moved(own)) \in Nat
      BY <3>1, LabelTypes, FS_Subset, FS_CardinalityType
    <3> QED
      BY <2>2, <2>3, <3>2 DEF Improved
  <2> QED
    BY <2>2, <2>5, <2>6 DEF PlanSound, Improved, own, K
<1> QED
  BY <1>1, <1>2, <1>3, PTL DEF AlgSpec
-----------------------------------------------------------------------------
(* The sizes of a model are numbers, and a device has some experts. *)
Sizes(c) ==
  /\ c \in [V : Nat, H : Nat, E : Nat, I : Nat, L : Nat, QKV : Nat, AO : Nat, NA : Nat,
            PadW : Nat, expert_start : Nat, expert_end : Nat]
  /\ c.expert_start < c.expert_end

Tensors == {"embedding", "out", "rms_attn", "rms_ffn", "rms_out", "w_qkv", "b_qkv", "w_o",
            "b_o", "attn_sinks", "w_router", "b_router", "w_mlp1", "b_mlp1", "w_mlp2", "b_mlp2"}

(* The shape of a tensor. *)
LEMMA ShapeTypes ==
  ASSUME NEW c, Sizes(c), NEW tensor \in Tensors
  PROVE  /\ Shape(c, tensor)[1] \in Nat /\ Shape(c, tensor)[2] \in Nat
         /\ Shape(c, tensor)[3] \in Nat
         /\ tensor = "w_o" => Shape(c, tensor) = <<c.L, c.H, c.AO>>
         /\ tensor \in PerExpert => Shape(c, tensor)[1] = c.L
         /\ tensor \in PerExpert => tensor # "w_o"
<1>1. /\ c.V \in Nat /\ c.H \in Nat /\ c.E \in Nat /\ 2 * c.I \in Nat /\ c.I \in Nat
      /\ c.L \in Nat /\ c.QKV \in Nat /\ c.AO \in Nat /\ c.NA \in Nat
  BY DEF Sizes
<1>2. CASE tensor \in {"embedding", "out"}
  BY <1>1, <1>2 DEF Shape, PerExpert
<1>3. CASE tensor \in {"rms_attn", "rms_ffn"}
  BY <1>1, <1>3 DEF Shape, PerExpert
<1>4. CASE tensor \in {"rms_out", "w_qkv", "b_qkv"}
  BY <1>1, <1>4 DEF Shape, PerExpert
<1>5. CASE tensor \in {"w_o", "b_o", "attn_sinks"}
  BY <1>1, <1>5 DEF Shape, PerExpert
<1>6. CASE tensor \in {"w_router", "b_router"}
  BY <1>1, <1>6 DEF Shape, PerExpert
<1>7. CASE tensor \in {"w_mlp1", "b_mlp1", "w_mlp2", "b_mlp2"}
  BY <1>1, <1>7 DEF Shape, PerExpert
<1> QED
  BY <1>2, <1>3, <1>4, <1>5, <1>6, <1>7 DEF Tensors

(* A cell of a row-major array is inside the array. *)
LEMMA CellInside ==
  ASSUME NEW R \in Nat, NEW K \in Nat, NEW r \in 0 .. R - 1, NEW k \in 0 .. K - 1
  PROVE  r * K + k \in 0 .. R * K - 1
<1>1. r * K + K <= R * K /\ r * K \in Nat /\ R * K \in Nat
  BY NextMultiple, ProductNat
<1> QED
  BY <1>1

(* Intervals of lengths f[1], f[2], ... laid end to end do not overlap. *)
LEMMA PrefixSums ==
  ASSUME NEW n \in Nat, NEW f, \A x \in 1 .. n : f[x] \in Nat
  PROVE  \A j \in 0 .. n :
           /\ SumFunctionOnSet(f, 1 .. j) \in Nat
           /\ \A i \in 1 .. j : SumFunctionOnSet(f, 1 .. i - 1) + f[i] <= SumFunctionOnSet(f, 1 .. j)
<1> DEFINE S(j) == SumFunctionOnSet(f, 1 .. j)
           Good(j) == j <= n => S(j) \in Nat /\ \A i \in 1 .. j : S(i - 1) + f[i] <= S(j)
           good == {j \in Nat : Good(j)}
<1>1. Good(0)
  <2>1. 1 .. 0 = {}
    OBVIOUS
  <2>2. S(0) = 0
    BY <2>1, SumEmpty
  <2> QED
    BY <2>1, <2>2
<1>2. ASSUME NEW j \in Nat, Good(j) PROVE Good(j + 1)
  <2> SUFFICES ASSUME j + 1 <= n PROVE S(j + 1) \in Nat /\ \A i \in 1 .. j + 1 : S(i - 1) + f[i] <= S(j + 1)
    OBVIOUS
  <2>1. S(j) \in Nat /\ \A i \in 1 .. j : S(i - 1) + f[i] <= S(j)
    BY <1>2
  <2>2. S(j + 1) = S(j) + f[j + 1]
    <3> DEFINE T == 1 .. j
               x == j + 1
    <3>1. IsFiniteSet(T) /\ x \notin T
      BY FS_Interval
    <3>2. \A y \in T \cup {x} : f[y] \in Int
      OBVIOUS
    <3>3. 1 .. x = T \cup {x}
      OBVIOUS
    <3>4. SumFunctionOnSet(f, T \cup {x}) = SumFunctionOnSet(f, T) + f[x]
      <4> HIDE DEF T, x
      <4> QED
        BY <3>1, <3>2, SumAdd
    <3> QED
      BY <3>3, <3>4
  <2>3. f[j + 1] \in Nat /\ \A i \in 1 .. j : f[i] \in Nat
    OBVIOUS
  <2>4. ASSUME NEW i \in 1 .. j + 1 PROVE S(i - 1) + f[i] <= S(j + 1)
    <3>1. CASE i = j + 1
      <4>1. i - 1 = j
        BY <3>1
      <4> HIDE DEF S
      <4> QED
        BY <3>1, <4>1, <2>1, <2>2, <2>3
    <3>2. CASE i \in 1 .. j
      <4>1. S(i - 1) \in Int
        <5>1. IsFiniteSet(1 .. i - 1) /\ \A y \in 1 .. i - 1 : f[y] \in Int
          BY <3>2, FS_Interval
        <5> QED
          BY <5>1, SumStep
      <4> HIDE DEF S
      <4> QED
        BY <3>2, <4>1, <2>1, <2>2, <2>3
    <3> QED
      BY <3>1, <3>2
  <2>5. S(j + 1) \in Nat
    <3> HIDE DEF S
    <3> QED
      BY <2>1, <2>2, <2>3
  <2> QED
    BY <2>4, <2>5
<1>3. 0 \in good /\ \A j \in Nat : j \in good => j + 1 \in good
  <2> HIDE DEF Good
  <2> QED
    BY <1>1, <1>2
<1>4. \A j \in Nat : j \in good
  <2> HIDE DEF good
  <2> QED
    BY <1>3, Induction
<1> QED
  BY <1>4

(* The sizes of a tensor in the file and on the device. *)
LEMMA SizeTypes ==
  ASSUME NEW c, Sizes(c), NEW tensor \in Tensors
  PROVE  /\ Part(c, tensor) \in Nat /\ FileSize(c, tensor) \in Nat
         /\ Pitch(c, tensor) \in Nat /\ Pitch(c, tensor) >= Shape(c, tensor)[3]
         /\ tensor # "w_o" => Pitch(c, tensor) = Shape(c, tensor)[3]
         /\ DeviceSize(c, tensor) \in Nat
         /\ ExpertsPerDevice(c) \in Nat
<1>1. /\ Shape(c, tensor)[1] \in Nat /\ Shape(c, tensor)[2] \in Nat
      /\ Shape(c, tensor)[3] \in Nat
  BY ShapeTypes
<1>2. /\ c.L \in Nat /\ c.H \in Nat /\ c.E \in Nat /\ c.PadW \in Nat
      /\ ExpertsPerDevice(c) \in Nat
  BY DEF Sizes, ExpertsPerDevice
<1>3. Part(c, tensor) \in Nat
  BY <1>1, ProductNat DEF Part
<1>4. FileSize(c, tensor) \in Nat
  <2>1. (IF tensor \in PerExpert THEN c.E ELSE 1) \in Nat
    BY <1>2
  <2>2. TensorLayers(c, tensor) \in Nat
    BY <1>1 DEF TensorLayers
  <2>3. TensorLayers(c, tensor) * (IF tensor \in PerExpert THEN c.E ELSE 1) \in Nat
    BY <2>1, <2>2, ProductNat
  <2> QED
    BY <2>3, <1>3, ProductNat DEF FileSize
<1>5. /\ Pitch(c, tensor) \in Nat /\ Pitch(c, tensor) >= Shape(c, tensor)[3]
      /\ tensor # "w_o" => Pitch(c, tensor) = Shape(c, tensor)[3]
  BY <1>1, <1>2 DEF Pitch
<1>6. DeviceSize(c, tensor) \in Nat
  <2>1. c.L * c.H \in Nat /\ c.L * ExpertsPerDevice(c) \in Nat
    BY <1>2, ProductNat
  <2>2. c.L * c.H * Pitch(c, tensor) \in Nat /\ c.L * ExpertsPerDevice(c) * Part(c, tensor) \in Nat
    BY <2>1, <1>3, <1>5, ProductNat
  <2> QED
    BY <2>2, <1>4 DEF DeviceSize
<1> QED
  BY <1>2, <1>3, <1>4, <1>5, <1>6

(* A tensor starts somewhere in the file. *)
LEMMA FileStarts ==
  ASSUME NEW c, Sizes(c), NEW tensor
  PROVE  FileStart(c, tensor) \in Int
<1>1. DOMAIN Checkpoint = 1 .. 16 /\ \A i \in 1 .. 16 : Checkpoint[i] \in Tensors
  BY DEF Checkpoint, Tensors
<1> DEFINE f == [i \in DOMAIN Checkpoint |-> FileSize(c, Checkpoint[i])]
           B == Before(Checkpoint, tensor)
<1>2. B \subseteq 1 .. 16
  BY <1>1 DEF Before
<1>3. IsFiniteSet(B)
  <2>1. \A k \in Nat : IsFiniteSet(1 .. k)
    BY FS_Interval
  <2>2. IsFiniteSet(1 .. 16)
    <3>1. 16 \in Nat
      OBVIOUS
    <3> QED
      BY <2>1, <3>1, Zenon
  <2> QED
    BY <1>2, <2>2, FS_Subset
<1>4. \A i \in B : f[i] \in Int
  BY <1>1, <1>2, SizeTypes
<1>5. SumFunctionOnSet(f, B) \in Int
  <2> HIDE DEF f, B
  <2> QED
    BY <1>3, <1>4, SumStep
<1> QED
  BY <1>5 DEF FileStart, Header

(* A buffer holds some tensors, each once. *)
LEMMA Orders ==
  ASSUME NEW buffer \in DOMAIN Buffers
  PROVE  LET order == Buffers[buffer]
         IN  \E n \in Nat : /\ DOMAIN order = 1 .. n
                            /\ \A i \in 1 .. n : order[i] \in Tensors
                            /\ \A i, j \in 1 .. n : order[i] = order[j] => i = j
<1> DEFINE Good(order) == \E n \in Nat : /\ DOMAIN order = 1 .. n
                                         /\ \A i \in 1 .. n : order[i] \in Tensors
                                         /\ \A i, j \in 1 .. n : order[i] = order[j] => i = j
<1>1. Good(Buffers.data)
  <2>1. DOMAIN Buffers.data = 1 .. 4
    BY DEF Buffers
  <2>2. \A i \in 1 .. 4 : Buffers.data[i] \in Tensors
    BY DEF Buffers, Tensors
  <2>3. \A i, j \in 1 .. 4 : Buffers.data[i] = Buffers.data[j] => i = j
    BY DEF Buffers
  <2> QED
    BY <2>1, <2>2, <2>3
<1>2. Good(Buffers.linear)
  <2>1. DOMAIN Buffers.linear = 1 .. 8
    BY DEF Buffers
  <2>2. \A i \in 1 .. 8 : Buffers.linear[i] \in Tensors
    BY DEF Buffers, Tensors
  <2>3. \A i, j \in 1 .. 8 : Buffers.linear[i] = Buffers.linear[j] => i = j
    BY DEF Buffers
  <2> QED
    BY <2>1, <2>2, <2>3
<1>3. Good(Buffers.experts)
  <2>1. DOMAIN Buffers.experts = 1 .. 4
    BY DEF Buffers
  <2>2. \A i \in 1 .. 4 : Buffers.experts[i] \in Tensors
    BY DEF Buffers, Tensors
  <2>3. \A i, j \in 1 .. 4 : Buffers.experts[i] = Buffers.experts[j] => i = j
    BY DEF Buffers
  <2> QED
    BY <2>1, <2>2, <2>3
<1>4. buffer \in {"data", "linear", "experts"}
  BY DEF Buffers
<1> HIDE DEF Good
<1>5. Good(Buffers[buffer])
  BY <1>1, <1>2, <1>3, <1>4
<1> QED
  BY <1>5 DEF Good

(* In a buffer no tensor reaches into the next, and the last ends with it. *)
LEMMA Segments ==
  ASSUME NEW c, Sizes(c), NEW order, NEW n \in Nat, DOMAIN order = 1 .. n,
         \A i \in 1 .. n : order[i] \in Tensors,
         \A i, j \in 1 .. n : order[i] = order[j] => i = j
  PROVE  \A i \in 1 .. n :
           /\ DeviceStart(c, order, order[i]) \in Nat
           /\ DeviceStart(c, order, order[i]) + DeviceSize(c, order[i]) <= Allocated(c, order)
           /\ Allocated(c, order) \in Nat
           /\ \A j \in 1 .. n : i < j =>
                DeviceStart(c, order, order[i]) + DeviceSize(c, order[i])
                  <= DeviceStart(c, order, order[j])
<1> DEFINE f == [i \in DOMAIN order |-> DeviceSize(c, order[i])]
           S(j) == SumFunctionOnSet(f, 1 .. j)
<1>1. \A x \in 1 .. n : f[x] \in Nat /\ f[x] = DeviceSize(c, order[x])
  BY SizeTypes
<1>2. \A j \in 0 .. n : S(j) \in Nat /\ \A i \in 1 .. j : S(i - 1) + f[i] <= S(j)
  <2> HIDE DEF f
  <2> QED
    BY <1>1, PrefixSums
<1>3. \A i \in 1 .. n : Before(order, order[i]) = 1 .. i - 1
  BY DEF Before
<1>4. \A i \in 1 .. n : DeviceStart(c, order, order[i]) = S(i - 1)
  BY <1>3 DEF DeviceStart
<1>5. Allocated(c, order) = S(n)
  BY DEF Allocated
<1> HIDE DEF f, S
<1>6. ASSUME NEW i \in 1 .. n
      PROVE  /\ S(i - 1) \in Nat
             /\ S(i - 1) + f[i] <= S(n)
             /\ S(n) \in Nat
             /\ \A j \in 1 .. n : i < j => S(i - 1) + f[i] <= S(j - 1)
  <2>1. i - 1 \in 0 .. n /\ n \in 0 .. n /\ i \in 1 .. n
    OBVIOUS
  <2>2. \A j \in 1 .. n : i < j => j - 1 \in 0 .. n /\ i \in 1 .. j - 1
    OBVIOUS
  <2> QED
    BY <2>1, <2>2, <1>2
<1> QED
  BY <1>1, <1>4, <1>5, <1>6

(* What the copies of a tensor put where. *)
Writes(copy, y) ==
  \E row \in 0 .. copy.rows - 1, k \in 0 .. copy.width - 1 :
    y = <<copy.to + row * copy.pitch + k, copy.from + row * copy.width + k>>
Copied(c, order, tensor, y) == \E copy \in Copies(c, order, tensor) : Writes(copy, y)

(* The cells a copy writes, and those it reads. *)
LEMMA WritesOf ==
  ASSUME NEW to, NEW from, NEW rows, NEW width, NEW pitch, NEW y
  PROVE  Writes(CopyOf(to, from, rows, width, pitch), y) <=>
           \E row \in 0 .. rows - 1, k \in 0 .. width - 1 :
             y = <<to + row * pitch + k, from + row * width + k>>
<1> DEFINE r == CopyOf(to, from, rows, width, pitch)
<1>1. r.to = to /\ r.from = from /\ r.rows = rows /\ r.width = width /\ r.pitch = pitch
  BY DEF CopyOf
<1> HIDE DEF r
<1>2. Writes(r, y) <=> \E row \in 0 .. rows - 1, k \in 0 .. width - 1 :
                         y = <<to + row * pitch + k, from + row * width + k>>
  BY <1>1 DEF Writes
<1> QED
  BY <1>2 DEF r

(* A buffer holds what was copied for its tensors. *)
LEMMA UploadedWhat ==
  ASSUME NEW c, NEW order, NEW y
  PROVE  y \in Uploaded(c, order) <=> \E j \in DOMAIN order : Copied(c, order, order[j], y)
BY DEF Uploaded, Copied, Writes

(* The copies of w_o, row by row to the pitch of the device. *)
LEMMA OutputCopied ==
  ASSUME NEW c, Sizes(c), NEW order, NEW tensor, tensor = "w_o", NEW y
  PROVE  Copied(c, order, tensor, y) <=>
           \E row \in 0 .. c.L * c.H - 1, k \in 0 .. c.AO - 1 :
             y = <<DeviceStart(c, order, tensor) + row * Pitch(c, tensor) + k,
                   FileStart(c, tensor) + row * c.AO + k>>
<1> DEFINE r == CopyOf(DeviceStart(c, order, tensor), FileStart(c, tensor), c.L * c.H, c.AO, Pitch(c, tensor))
<1>1. Copies(c, order, tensor) = {r}
  <2>1. tensor \notin PerExpert
    BY DEF PerExpert
  <2> QED
    BY <2>1 DEF Copies
<1>2. Copied(c, order, tensor, y) <=> Writes(r, y)
  BY <1>1 DEF Copied
<1> QED
  BY <1>2, WritesOf

(* The copies of a tensor of the experts, a slice of each layer. *)
LEMMA ExpertsCopied ==
  ASSUME NEW c, Sizes(c), NEW order, NEW tensor \in PerExpert, NEW y,
         DeviceStart(c, order, tensor) \in Int
  PROVE  Copied(c, order, tensor, y) <=>
           \E l \in 0 .. c.L - 1, k \in 0 .. ExpertsPerDevice(c) * Part(c, tensor) - 1 :
             y = <<DeviceStart(c, order, tensor) + l * (ExpertsPerDevice(c) * Part(c, tensor)) + k,
                   FileStart(c, tensor) + l * (c.E * Part(c, tensor))
                     + c.expert_start * Part(c, tensor) + k>>
<1> DEFINE st == DeviceStart(c, order, tensor)
           fs == FileStart(c, tensor)
           X == ExpertsPerDevice(c)
           P == Part(c, tensor)
           to(l) == st + l * X * P
           from(l) == fs + l * c.E * P + c.expert_start * P
<1>1. tensor # "w_o" /\ tensor \in Tensors
  BY DEF PerExpert, Tensors
<1>2. Copies(c, order, tensor) = {CopyOf(to(l), from(l), 1, X * P, 0) : l \in 0 .. c.L - 1}
  BY <1>1 DEF Copies, ExpertSlices
<1>3. /\ st \in Int /\ fs \in Int /\ X \in Nat /\ P \in Nat /\ c.E \in Nat /\ c.L \in Nat
      /\ c.expert_start \in Nat
  BY <1>1, FileStarts, SizeTypes DEF Sizes
<1>4. ASSUME NEW l \in 0 .. c.L - 1
      PROVE  /\ to(l) = st + l * (X * P) /\ from(l) = fs + l * (c.E * P) + c.expert_start * P
             /\ to(l) \in Int /\ from(l) \in Int
  <2> HIDE DEF st, fs, X, P
  <2> QED
    BY <1>3
<1>5. X * P \in Nat
  BY <1>3, ProductNat
<1> HIDE DEF st, fs, X, P
<1>6. Copied(c, order, tensor, y) <=>
        \E l \in 0 .. c.L - 1 : \E row \in 0 .. 0, k \in 0 .. X * P - 1 :
          y = <<to(l) + row * 0 + k, from(l) + row * (X * P) + k>>
  <2> HIDE DEF to, from
  <2> DEFINE r(l) == CopyOf(to(l), from(l), 1, X * P, 0)
  <2>1. Copied(c, order, tensor, y) <=> \E l \in 0 .. c.L - 1 : Writes(r(l), y)
    BY <1>2 DEF Copied
  <2>2. \A l \in 0 .. c.L - 1 :
          Writes(r(l), y) <=> \E row \in 0 .. 1 - 1, k \in 0 .. X * P - 1 :
                                y = <<to(l) + row * 0 + k, from(l) + row * (X * P) + k>>
    BY WritesOf
  <2>3. 1 - 1 = 0
    OBVIOUS
  <2> HIDE DEF r
  <2> QED
    BY <2>1, <2>2, <2>3
<1>7. \A l \in 0 .. c.L - 1 : \A row \in 0 .. 0, k \in 0 .. X * P - 1 :
         /\ row = 0
         /\ to(l) + row * 0 + k = st + l * (X * P) + k
         /\ from(l) + row * (X * P) + k = fs + l * (c.E * P) + c.expert_start * P + k
  BY <1>4, <1>5
<1>8. Copied(c, order, tensor, y) <=>
        \E l \in 0 .. c.L - 1, k \in 0 .. X * P - 1 :
          y = <<st + l * (X * P) + k, fs + l * (c.E * P) + c.expert_start * P + k>>
  <2> HIDE DEF to, from
  <2>1. 0 \in 0 .. 0
    OBVIOUS
  <2> QED
    BY <2>1, <1>6, <1>7
<1> QED
  BY <1>8 DEF st, fs, X, P

(* The copy of any other tensor, in one piece. *)
LEMMA OthersCopied ==
  ASSUME NEW c, Sizes(c), NEW order, NEW tensor \in Tensors, tensor # "w_o",
         tensor \notin PerExpert, NEW y, DeviceStart(c, order, tensor) \in Int
  PROVE  Copied(c, order, tensor, y) <=>
           \E k \in 0 .. FileSize(c, tensor) - 1 :
             y = <<DeviceStart(c, order, tensor) + k, FileStart(c, tensor) + k>>
<1> DEFINE st == DeviceStart(c, order, tensor)
           fs == FileStart(c, tensor)
           N == FileSize(c, tensor)
<1>1. Copies(c, order, tensor) = {CopyOf(st, fs, 1, N, 0)}
  BY DEF Copies
<1>2. st \in Int /\ fs \in Int /\ N \in Nat
  BY FileStarts, SizeTypes
<1> HIDE DEF st, fs, N
<1>3. Copied(c, order, tensor, y) <=>
        \E row \in 0 .. 0, k \in 0 .. N - 1 : y = <<st + row * 0 + k, fs + row * N + k>>
  <2> DEFINE r == CopyOf(st, fs, 1, N, 0)
  <2>1. Copied(c, order, tensor, y) <=> Writes(r, y)
    BY <1>1 DEF Copied
  <2>2. Writes(r, y) <=> \E row \in 0 .. 1 - 1, k \in 0 .. N - 1 :
                           y = <<st + row * 0 + k, fs + row * N + k>>
    BY WritesOf
  <2>3. 1 - 1 = 0
    OBVIOUS
  <2> HIDE DEF r
  <2> QED
    BY <2>1, <2>2, <2>3
<1>4. \A row \in 0 .. 0, k \in 0 .. N - 1 :
        st + row * 0 + k = st + k /\ fs + row * N + k = fs + k
  BY <1>2
<1>5. 0 \in 0 .. 0
  OBVIOUS
<1>6. Copied(c, order, tensor, y) <=> \E k \in 0 .. N - 1 : y = <<st + k, fs + k>>
  BY <1>3, <1>4, <1>5
<1> QED
  BY <1>6 DEF st, fs, N

(* A cell of a tensor: its layer, local expert, row and column. *)
CellTypes(c, tensor, l, e, r, k) ==
  /\ l \in 0 .. TensorLayers(c, tensor) - 1
  /\ e \in 0 .. (IF tensor \in PerExpert THEN ExpertsPerDevice(c) ELSE 1) - 1
  /\ r \in 0 .. Shape(c, tensor)[2] - 1
  /\ k \in 0 .. Shape(c, tensor)[3] - 1

(* Everything that is copied for a tensor is copied into its segment, and  *)
(* of the segment's cells each is written once, from its place in the file.*)
CopiedInside(c, order, tensor) ==
  \A y : Copied(c, order, tensor, y) =>
    /\ y[1] \in Int
    /\ DeviceStart(c, order, tensor) <= y[1]
    /\ y[1] < DeviceStart(c, order, tensor) + DeviceSize(c, tensor)
CopiedCells(c, order, tensor) ==
  \A l, e, r, k : CellTypes(c, tensor, l, e, r, k) =>
    LET address == ReadAt(c, order, tensor, l, e, r, k)
        source == InFile(c, tensor, l, e, r, k)
    IN  /\ address \in Int
        /\ DeviceStart(c, order, tensor) <= address
        /\ address < DeviceStart(c, order, tensor) + DeviceSize(c, tensor)
        /\ Copied(c, order, tensor, <<address, source>>)
        /\ \A y : Copied(c, order, tensor, y) /\ y[1] = address => y[2] = source

(* The padding of w_o separates its rows and is in nobody's way. *)
LEMMA OutputCells ==
  ASSUME NEW c, Sizes(c), NEW order, NEW tensor, tensor = "w_o",
         DeviceStart(c, order, tensor) \in Nat
  PROVE  CopiedInside(c, order, tensor) /\ CopiedCells(c, order, tensor)
<1> DEFINE st == DeviceStart(c, order, tensor)
           fs == FileStart(c, tensor)
           P == Pitch(c, tensor)
           H == c.H
           A == c.AO
           Y(y) == \E row \in 0 .. c.L * H - 1, k \in 0 .. A - 1 :
                     y = <<st + row * P + k, fs + row * A + k>>
<1>1. tensor \in Tensors /\ tensor \notin PerExpert
  BY DEF Tensors, PerExpert
<1>2. Shape(c, tensor)[1] = c.L /\ Shape(c, tensor)[2] = H /\ Shape(c, tensor)[3] = A
  BY <1>1, ShapeTypes
<1>3. \A y : Copied(c, order, tensor, y) <=> Y(y)
  BY OutputCopied
<1>4. /\ st \in Nat /\ fs \in Int /\ P \in Nat /\ H \in Nat /\ A \in Nat /\ A <= P /\ c.L \in Nat
  BY <1>1, <1>2, FileStarts, SizeTypes DEF Sizes
<1>5. DeviceSize(c, tensor) = c.L * H * P
  BY <1>1 DEF DeviceSize
<1>6. \A l, e, r, k : CellTypes(c, tensor, l, e, r, k) =>
        l \in 0 .. c.L - 1 /\ r \in 0 .. H - 1 /\ k \in 0 .. A - 1
  BY <1>1, <1>2 DEF CellTypes, TensorLayers
<1>7. \A l, e, r, k : ReadAt(c, order, tensor, l, e, r, k) = st + (l * H + r) * P + k
  BY <1>1, <1>2 DEF ReadAt
<1>8. \A l, e, r, k : InFile(c, tensor, l, e, r, k) = fs + (l * H + r) * A + k
  BY <1>1, <1>2 DEF InFile
<1> HIDE DEF st, fs, P, H, A
<1>9. ASSUME NEW row \in 0 .. c.L * H - 1, NEW k \in 0 .. A - 1
      PROVE  row * P + k \in 0 .. c.L * H * P - 1
  <2>1. c.L * H \in Nat /\ k \in 0 .. P - 1
    BY <1>4, ProductNat
  <2> QED
    BY <2>1, <1>4, CellInside
<1>10. c.L * H * P \in Nat /\ c.L * H \in Nat
  BY <1>4, ProductNat
<1>11. CopiedInside(c, order, tensor)
  <2> SUFFICES ASSUME NEW y, Y(y)
               PROVE  y[1] \in Int /\ st <= y[1] /\ y[1] < st + c.L * H * P
    BY <1>3, <1>5 DEF CopiedInside, st
  <2>1. PICK row \in 0 .. c.L * H - 1, k \in 0 .. A - 1 :
               y = <<st + row * P + k, fs + row * A + k>>
    OBVIOUS
  <2> DEFINE o == row * P
             S == c.L * H * P
  <2>2. o + k \in 0 .. S - 1 /\ S \in Nat
    BY <1>9, <1>10
  <2>3. o \in Nat /\ k \in Nat /\ y[1] = st + o + k
    BY <2>1, <1>4, ProductNat
  <2> HIDE DEF o, S
  <2>4. y[1] \in Int /\ st <= y[1] /\ y[1] < st + S
    BY <2>2, <2>3, <1>4
  <2> QED
    BY <2>4 DEF S
<1>12. CopiedCells(c, order, tensor)
  <2> SUFFICES ASSUME NEW l, NEW e, NEW r, NEW k, CellTypes(c, tensor, l, e, r, k)
               PROVE  LET address == st + (l * H + r) * P + k
                          source == fs + (l * H + r) * A + k
                      IN  /\ address \in Int
                          /\ st <= address
                          /\ address < st + c.L * H * P
                          /\ Y(<<address, source>>)
                          /\ \A y : Y(y) /\ y[1] = address => y[2] = source
    BY <1>3, <1>5, <1>7, <1>8 DEF CopiedCells, st
  <2>1. l \in 0 .. c.L - 1 /\ r \in 0 .. H - 1 /\ k \in 0 .. A - 1
    BY <1>6
  <2> DEFINE row == l * H + r
  <2>2. row \in 0 .. c.L * H - 1
    BY <2>1, <1>4, CellInside
  <2> HIDE DEF row
  <2> DEFINE o == row * P
             S == c.L * H * P
  <2>3. o + k \in 0 .. S - 1 /\ S \in Nat
    BY <2>1, <2>2, <1>9, <1>10
  <2>4. o \in Nat
    BY <2>2, <1>4, <1>10, ProductNat
  <2>5. st + o + k \in Int /\ st <= st + o + k /\ st + o + k < st + S
    <3> HIDE DEF o, S
    <3> QED
      BY <2>1, <2>3, <2>4, <1>4
  <2>6. Y(<<st + row * P + k, fs + row * A + k>>)
    BY <2>1, <2>2
  <2>7. ASSUME NEW y, Y(y), y[1] = st + row * P + k
        PROVE  y[2] = fs + row * A + k
    <3>1. PICK row2 \in 0 .. c.L * H - 1, k2 \in 0 .. A - 1 :
                 y = <<st + row2 * P + k2, fs + row2 * A + k2>>
      BY <2>7
    <3>2. row2 \in Nat /\ row \in Nat /\ k \in 0 .. P - 1 /\ k2 \in 0 .. P - 1
      BY <3>1, <2>1, <2>2, <1>4, <1>10
    <3>3. row * P \in Nat /\ row2 * P \in Nat
      BY <3>2, <1>4, ProductNat
    <3>4. st + row2 * P + k2 = st + row * P + k
      BY <3>1, <2>7
    <3>5. row2 * P + k2 = row * P + k
      <4> DEFINE a == row * P
                 b == row2 * P
      <4>1. a \in Nat /\ b \in Nat /\ st + b + k2 = st + a + k
        BY <3>3, <3>4
      <4> HIDE DEF a, b
      <4>2. b + k2 = a + k
        BY <4>1, <3>2, <1>4
      <4> QED
        BY <4>2 DEF a, b
    <3>6. row2 = row /\ k2 = k
      BY <3>2, <3>5, <1>4, SamePair
    <3> QED
      BY <3>1, <3>6
  <2> QED
    BY <2>5, <2>6, <2>7 DEF row
<1> QED
  BY <1>11, <1>12

(* Any other tensor lies on the device as in the file. *)
LEMMA OtherCells ==
  ASSUME NEW c, Sizes(c), NEW order, NEW tensor \in Tensors, tensor # "w_o",
         tensor \notin PerExpert, DeviceStart(c, order, tensor) \in Nat
  PROVE  CopiedInside(c, order, tensor) /\ CopiedCells(c, order, tensor)
<1> DEFINE st == DeviceStart(c, order, tensor)
           fs == FileStart(c, tensor)
           L == Shape(c, tensor)[1]
           R == Shape(c, tensor)[2]
           K == Shape(c, tensor)[3]
           N == FileSize(c, tensor)
           Y(y) == \E q \in 0 .. N - 1 : y = <<st + q, fs + q>>
<1>1. \A y : Copied(c, order, tensor, y) <=> Y(y)
  BY OthersCopied
<1>2. /\ st \in Nat /\ fs \in Int /\ N \in Nat
      /\ L \in Nat /\ R \in Nat /\ K \in Nat
  BY FileStarts, SizeTypes, ShapeTypes
<1>3. DeviceSize(c, tensor) = N
  BY DEF DeviceSize
<1>4. N = L * 1 * (R * K)
  BY DEF FileSize, TensorLayers, Part
<1>5. Pitch(c, tensor) = K
  BY SizeTypes
<1>6. \A l, e, r, k : CellTypes(c, tensor, l, e, r, k) =>
        l \in 0 .. L - 1 /\ r \in 0 .. R - 1 /\ k \in 0 .. K - 1
  BY DEF CellTypes, TensorLayers
<1>7. \A l, e, r, k : ReadAt(c, order, tensor, l, e, r, k) = st + (l * R + r) * K + k
  BY <1>5 DEF ReadAt
<1>8. \A l, e, r, k : InFile(c, tensor, l, e, r, k) = fs + (l * R + r) * K + k
  BY DEF InFile
<1> HIDE DEF st, fs, L, R, K, N
<1>9. CopiedInside(c, order, tensor)
  <2> SUFFICES ASSUME NEW y, Y(y) PROVE y[1] \in Int /\ st <= y[1] /\ y[1] < st + N
    BY <1>1, <1>3 DEF CopiedInside, st
  <2>1. PICK q \in 0 .. N - 1 : y = <<st + q, fs + q>>
    OBVIOUS
  <2> QED
    BY <2>1, <1>2
<1>10. CopiedCells(c, order, tensor)
  <2> SUFFICES ASSUME NEW l, NEW e, NEW r, NEW k, CellTypes(c, tensor, l, e, r, k)
               PROVE  LET address == st + (l * R + r) * K + k
                          source == fs + (l * R + r) * K + k
                      IN  /\ address \in Int
                          /\ st <= address
                          /\ address < st + N
                          /\ Y(<<address, source>>)
                          /\ \A y : Y(y) /\ y[1] = address => y[2] = source
    BY <1>1, <1>3, <1>7, <1>8 DEF CopiedCells, st
  <2> DEFINE o == (l * R + r) * K
  <2>1. l \in 0 .. L - 1 /\ r \in 0 .. R - 1 /\ k \in 0 .. K - 1
    BY <1>6
  <2>2. o + k \in 0 .. N - 1 /\ o \in Nat
    <3>1. l * R + r \in 0 .. L * R - 1 /\ L * R \in Nat
      BY <2>1, <1>2, CellInside, ProductNat
    <3>2. (l * R + r) * K + k \in 0 .. L * R * K - 1 /\ (l * R + r) * K \in Nat
      BY <3>1, <2>1, <1>2, CellInside, ProductNat
    <3>3. N = L * R * K
      BY <1>2, <1>4
    <3> QED
      BY <3>2, <3>3
  <2> HIDE DEF o
  <2>3. \A z \in Int : z + o + k = z + (o + k)
    BY <2>1, <2>2
  <2>4. st + o + k \in Int /\ st <= st + o + k /\ st + o + k < st + N
    BY <2>1, <2>2, <1>2
  <2>5. Y(<<st + o + k, fs + o + k>>)
    <3>1. st + o + k = st + (o + k) /\ fs + o + k = fs + (o + k)
      BY <2>3, <1>2
    <3> DEFINE p == o + k
    <3>2. p \in 0 .. N - 1
      BY <2>2
    <3>3. Y(<<st + p, fs + p>>)
      <4> HIDE DEF p
      <4> QED
        BY <3>2
    <3> QED
      BY <3>1, <3>3
  <2>6. ASSUME NEW y, Y(y), y[1] = st + o + k PROVE y[2] = fs + o + k
    <3>1. PICK q \in 0 .. N - 1 : y = <<st + q, fs + q>>
      BY <2>6
    <3>2. q = o + k
      BY <3>1, <2>6, <2>1, <2>2, <1>2
    <3> QED
      BY <3>1, <3>2, <2>3, <1>2
  <2> QED
    BY <2>4, <2>5, <2>6 DEF o
<1> QED
  BY <1>9, <1>10

(* The slices of the layers follow each other without a gap. *)
LEMMA ExpertCells ==
  ASSUME NEW c, Sizes(c), NEW order, NEW tensor \in PerExpert,
         DeviceStart(c, order, tensor) \in Nat
  PROVE  CopiedInside(c, order, tensor) /\ CopiedCells(c, order, tensor)
<1> DEFINE st == DeviceStart(c, order, tensor)
           fs == FileStart(c, tensor)
           L == c.L
           R == Shape(c, tensor)[2]
           K == Shape(c, tensor)[3]
           X == ExpertsPerDevice(c)
           E == c.E
           first == c.expert_start
           P == Part(c, tensor)
           W == X * P
           Y(y) == \E l \in 0 .. L - 1, q \in 0 .. W - 1 :
                     y = <<st + l * W + q, fs + l * (E * P) + first * P + q>>
<1>1. tensor \in Tensors /\ tensor # "w_o"
  BY DEF Tensors, PerExpert
<1>2. \A y : Copied(c, order, tensor, y) <=> Y(y)
  BY ExpertsCopied
<1>3. /\ st \in Nat /\ fs \in Int /\ L \in Nat /\ R \in Nat /\ K \in Nat /\ X \in Nat
      /\ E \in Nat /\ first \in Nat
  BY <1>1, FileStarts, SizeTypes, ShapeTypes DEF Sizes
<1>4. P = R * K /\ P \in Nat /\ W \in Nat /\ L * W \in Nat
  BY <1>3, ProductNat DEF Part
<1>5. DeviceSize(c, tensor) = L * W
  <2>1. DeviceSize(c, tensor) = L * X * P
    BY <1>1 DEF DeviceSize
  <2> HIDE DEF L, X, P
  <2> QED
    BY <2>1, <1>3, <1>4
<1>6. Pitch(c, tensor) = K
  BY <1>1, SizeTypes
<1>7. \A l, e, r, k : CellTypes(c, tensor, l, e, r, k) =>
        l \in 0 .. L - 1 /\ e \in 0 .. X - 1 /\ r \in 0 .. R - 1 /\ k \in 0 .. K - 1
  BY <1>1, ShapeTypes DEF CellTypes, TensorLayers
<1>8. \A l, e, r, k : ReadAt(c, order, tensor, l, e, r, k) = st + ((l * X + e) * R + r) * K + k
  BY <1>6 DEF ReadAt
<1>9. \A l, e, r, k : InFile(c, tensor, l, e, r, k) = fs + ((l * E + first + e) * R + r) * K + k
  BY DEF InFile
<1> HIDE DEF st, fs, L, R, K, X, E, first, P, W
<1>10. CopiedInside(c, order, tensor)
  <2> SUFFICES ASSUME NEW y, Y(y) PROVE y[1] \in Int /\ st <= y[1] /\ y[1] < st + L * W
    BY <1>2, <1>5 DEF CopiedInside, st
  <2>1. PICK l \in 0 .. L - 1, q \in 0 .. W - 1 :
               y = <<st + l * W + q, fs + l * (E * P) + first * P + q>>
    OBVIOUS
  <2> DEFINE o == l * W
             S == L * W
  <2>2. o + q \in 0 .. S - 1 /\ o \in Nat /\ S \in Nat
    BY <1>3, <1>4, CellInside, ProductNat
  <2>3. y[1] = st + o + q
    BY <2>1
  <2> HIDE DEF o, S
  <2>4. y[1] \in Int /\ st <= y[1] /\ y[1] < st + S
    BY <2>2, <2>3, <1>3
  <2> QED
    BY <2>4 DEF S
<1>11. CopiedCells(c, order, tensor)
  <2> SUFFICES ASSUME NEW l, NEW e, NEW r, NEW k, CellTypes(c, tensor, l, e, r, k)
               PROVE  LET address == st + ((l * X + e) * R + r) * K + k
                          source == fs + ((l * E + first + e) * R + r) * K + k
                      IN  /\ address \in Int
                          /\ st <= address
                          /\ address < st + L * W
                          /\ Y(<<address, source>>)
                          /\ \A y : Y(y) /\ y[1] = address => y[2] = source
    BY <1>2, <1>5, <1>8, <1>9 DEF CopiedCells, st
  <2> DEFINE q == (e * R + r) * K + k
             to(m, p) == st + m * W + p
             from(m, p) == fs + m * (E * P) + first * P + p
  <2>1. l \in 0 .. L - 1 /\ e \in 0 .. X - 1 /\ r \in 0 .. R - 1 /\ k \in 0 .. K - 1
    BY <1>7
  <2>2. q \in 0 .. W - 1
    <3>1. e * R + r \in 0 .. X * R - 1 /\ X * R \in Nat
      BY <2>1, <1>3, CellInside, ProductNat
    <3>2. (e * R + r) * K + k \in 0 .. X * R * K - 1
      BY <3>1, <2>1, <1>3, CellInside
    <3>3. W = X * R * K
      BY <1>3, <1>4 DEF W
    <3> QED
      BY <3>2, <3>3
  <2>3. st + ((l * X + e) * R + r) * K + k = to(l, q)
    BY <2>1, <1>3, <1>4 DEF W
  <2>4. fs + ((l * E + first + e) * R + r) * K + k = from(l, q)
    BY <2>1, <1>3, <1>4
  <2> HIDE DEF q
  <2>5. to(l, q) \in Int /\ st <= to(l, q) /\ to(l, q) < st + L * W
    <3> DEFINE o == l * W
               S == L * W
    <3>1. o + q \in 0 .. S - 1 /\ o \in Nat /\ S \in Nat
      BY <2>1, <2>2, <1>3, <1>4, CellInside, ProductNat
    <3> HIDE DEF o, S
    <3>2. st + o + q \in Int /\ st <= st + o + q /\ st + o + q < st + S
      BY <3>1, <2>2, <1>3, <1>4
    <3> QED
      BY <3>2 DEF o, S
  <2>6. Y(<<to(l, q), from(l, q)>>)
    BY <2>1, <2>2
  <2>7. ASSUME NEW y, Y(y), y[1] = to(l, q) PROVE y[2] = from(l, q)
    <3>1. PICK m \in 0 .. L - 1, p \in 0 .. W - 1 : y = <<to(m, p), from(m, p)>>
      BY <2>7
    <3>2. m \in Nat /\ l \in Nat /\ m * W \in Nat /\ l * W \in Nat
      BY <2>1, <1>3, <1>4, ProductNat
    <3>3. m * W + p = l * W + q
      <4> DEFINE a == m * W
                 b == l * W
      <4>1. st + a + p = st + b + q /\ a \in Nat /\ b \in Nat
        BY <3>1, <3>2, <2>7
      <4> HIDE DEF a, b
      <4>2. a + p = b + q
        BY <4>1, <2>2, <1>3, <1>4
      <4> QED
        BY <4>2 DEF a, b
    <3>4. m = l /\ p = q
      BY <3>2, <3>3, <2>2, <1>4, SamePair
    <3> QED
      BY <3>1, <3>4
  <2> HIDE DEF to, from
  <2> QED
    BY <2>3, <2>4, <2>5, <2>6, <2>7
<1> QED
  BY <1>10, <1>11

(* Whatever the sizes of the model: what the kernels read is what has been *)
(* uploaded, from where the checkpoint has it.                             *)
LEMMA UploadsAll ==
  ASSUME NEW c, Sizes(c), NEW buffer \in DOMAIN Buffers
  PROVE  LET order == Buffers[buffer]
             uploaded == Uploaded(c, order)
         IN  \A i \in DOMAIN order : \A cell \in Cells(c, order[i]) :
               LET address == ReadAt(c, order, order[i], cell[1], cell[2], cell[3], cell[4])
               IN  /\ address < Allocated(c, order)
                   /\ {x[2] : x \in {y \in uploaded : y[1] = address}}
                        = {InFile(c, order[i], cell[1], cell[2], cell[3], cell[4])}
<1> DEFINE order == Buffers[buffer]
<1>1. PICK n \in Nat : /\ DOMAIN order = 1 .. n
                       /\ \A i \in 1 .. n : order[i] \in Tensors
                       /\ \A i, j \in 1 .. n : order[i] = order[j] => i = j
  BY Orders
<1> HIDE DEF order
<1>2. \A i \in 1 .. n :
        /\ DeviceStart(c, order, order[i]) \in Nat
        /\ DeviceStart(c, order, order[i]) + DeviceSize(c, order[i]) <= Allocated(c, order)
        /\ Allocated(c, order) \in Nat
        /\ DeviceSize(c, order[i]) \in Nat
        /\ \A j \in 1 .. n : i < j =>
             DeviceStart(c, order, order[i]) + DeviceSize(c, order[i])
               <= DeviceStart(c, order, order[j])
  BY <1>1, Segments, SizeTypes
<1>3. ASSUME NEW i \in 1 .. n
      PROVE  CopiedInside(c, order, order[i]) /\ CopiedCells(c, order, order[i])
  <2>1. order[i] \in Tensors /\ DeviceStart(c, order, order[i]) \in Nat
    BY <1>1, <1>2
  <2>2. CASE order[i] = "w_o"
    BY <2>1, <2>2, OutputCells
  <2>3. CASE order[i] \in PerExpert
    BY <2>1, <2>3, ExpertCells
  <2>4. CASE order[i] # "w_o" /\ order[i] \notin PerExpert
    BY <2>1, <2>4, OtherCells
  <2> QED
    BY <2>2, <2>3, <2>4
<1>4. ASSUME NEW i \in 1 .. n, NEW cell \in Cells(c, order[i])
      PROVE  LET address == ReadAt(c, order, order[i], cell[1], cell[2], cell[3], cell[4])
                 source == InFile(c, order[i], cell[1], cell[2], cell[3], cell[4])
             IN  /\ address < Allocated(c, order)
                 /\ {x[2] : x \in {y \in Uploaded(c, order) : y[1] = address}} = {source}
  <2> DEFINE address == ReadAt(c, order, order[i], cell[1], cell[2], cell[3], cell[4])
             source == InFile(c, order[i], cell[1], cell[2], cell[3], cell[4])
             st(j) == DeviceStart(c, order, order[j])
             size(j) == DeviceSize(c, order[j])
  <2>1. CellTypes(c, order[i], cell[1], cell[2], cell[3], cell[4])
    BY DEF Cells, CellTypes
  <2>2. /\ address \in Int /\ st(i) <= address /\ address < st(i) + size(i)
        /\ Copied(c, order, order[i], <<address, source>>)
        /\ \A y : Copied(c, order, order[i], y) /\ y[1] = address => y[2] = source
    <3>1. CopiedCells(c, order, order[i])
      BY <1>3
    <3> QED
      BY <2>1, <3>1 DEF CopiedCells
  <2>3. \A j \in 1 .. n : \A y : Copied(c, order, order[j], y) =>
          y[1] \in Int /\ st(j) <= y[1] /\ y[1] < st(j) + size(j)
    BY <1>3 DEF CopiedInside
  <2>4. /\ \A j \in 1 .. n : st(j) \in Nat /\ size(j) \in Nat
        /\ \A h, j \in 1 .. n : h < j => st(h) + size(h) <= st(j)
        /\ Allocated(c, order) \in Nat /\ st(i) + size(i) <= Allocated(c, order)
    BY <1>2
  <2> HIDE DEF address, source, st, size
  <2>5. address < Allocated(c, order)
    BY <2>2, <2>4
  <2>6. ASSUME NEW y \in Uploaded(c, order), y[1] = address PROVE y[2] = source
    <3>1. PICK j \in 1 .. n : Copied(c, order, order[j], y)
      BY <1>1, UploadedWhat
    <3>2. ~(i < j) /\ ~(j < i)
      BY <3>1, <2>2, <2>3, <2>4, <2>6
    <3>3. i = j
      BY <3>2
    <3> QED
      BY <3>1, <3>3, <2>2, <2>6
  <2>7. <<address, source>> \in Uploaded(c, order)
    BY <2>2, <1>1, UploadedWhat
  <2>8. {x[2] : x \in {y \in Uploaded(c, order) : y[1] = address}} = {source}
    BY <2>6, <2>7
  <2> QED
    BY <2>5, <2>8 DEF address, source
<1> QED
  BY <1>1, <1>4 DEF order

(* Each weight the kernels of a device read is in the device's buffer, was *)
(* uploaded there once, and is that weight of the checkpoint               *)
(* (upload_weights), for any sizes of the model and any range of experts.  *)
THEOREM WeightsUploaded == AlgSpec => []UploadFaithful
<1> DEFINE Inv == Of("upload") => Sizes(input)
<1>1. AlgInit => Inv
  BY DEF AlgInit, Of
<1>2. Inv /\ [AlgNext]_algVars => Inv'
  <2> SUFFICES ASSUME Inv, [AlgNext]_algVars, Of("upload")' PROVE Sizes(input')
    OBVIOUS
  <2>1. CASE input = << >> /\ AlgNext
    <3>1. algorithm = "upload"
      BY <2>1 DEF AlgNext, Given, Of
    <3>2. input' \in {c \in ModelSizes : c.expert_start < c.expert_end}
      BY <2>1, <3>1 DEF AlgNext, Given
    <3> QED
      BY <3>2, AlgorithmsAssumption DEF Sizes
  <2>2. CASE UNCHANGED algVars
    BY <2>2 DEF algVars, Of
  <2>3. CASE input # << >> /\ UNCHANGED algVars
    BY <2>3 DEF algVars, Of
  <2> QED
    BY <2>1, <2>2, <2>3 DEF AlgNext
<1>3. Inv => UploadFaithful
  BY UploadsAll DEF UploadFaithful
<1> QED
  BY <1>1, <1>2, <1>3, PTL DEF AlgSpec
-----------------------------------------------------------------------------
(* A finite set whose elements have different keys can be listed by key. *)
LEMMA Sorting ==
  ASSUME NEW S, IsFiniteSet(S), NEW key \in [S -> Int],
         \A x, y \in S : key[x] = key[y] => x = y
  PROVE  /\ Cardinality(S) \in Nat
         /\ \E f \in [1 .. Cardinality(S) -> S] :
              \A i, j \in 1 .. Cardinality(S) : i < j => key[f[i]] < key[f[j]]
<1> DEFINE K == {key[x] : x \in S}
           n == Cardinality(S)
<1>1. key \in Surjection(S, K) /\ key \in Injection(S, K)
  BY DEF Surjection, Injection, IsInjective
<1>2. IsFiniteSet(K) /\ Cardinality(K) = n /\ K \in SUBSET Int /\ n \in Nat
  <2>1. K \in SUBSET Int
    OBVIOUS
  <2> HIDE DEF K
  <2> QED
    BY <1>1, <2>1, FS_Surjection, FS_CardinalityType
<1>3. \A y \in K : \E x \in S : key[x] = y
  OBVIOUS
<1> HIDE DEF K, n
<1>4. \A m \in 0 .. n - 1 : Nth(m, K) \in K /\ SizeOf(Nth(m, K), K) = m
  BY <1>2, Counting
<1>5. \A a, b \in 0 .. n - 1 : a < b => Nth(a, K) < Nth(b, K)
  <2> SUFFICES ASSUME NEW a \in 0 .. n - 1, NEW b \in 0 .. n - 1, a < b, ~(Nth(a, K) < Nth(b, K))
               PROVE  FALSE
    OBVIOUS
  <2> DEFINE x == Nth(a, K)
             y == Nth(b, K)
  <2>0. x \in K /\ y \in K /\ SizeOf(x, K) = a /\ SizeOf(y, K) = b /\ ~(x < y)
    BY <1>4
  <2> HIDE DEF x, y
  <2>1. x \in Int /\ y \in Int /\ y <= x
    BY <1>2, <2>0
  <2>2. Smaller(y, K) \in SUBSET Smaller(x, K)
    <3>1. \A z \in K : z < y => z < x
      BY <1>2, <2>1
    <3> QED
      BY <3>1 DEF Smaller
  <2>3. IsFiniteSet(Smaller(x, K))
    BY <1>2, FS_Subset DEF Smaller
  <2>4. SizeOf(y, K) <= SizeOf(x, K)
    BY <2>2, <2>3, FS_Subset DEF SizeOf
  <2> QED
    BY <1>2, <2>0, <2>4
<1> DEFINE f == [i \in 1 .. n |-> CHOOSE x \in S : key[x] = Nth(i - 1, K)]
<1>6. \A i \in 1 .. n : f[i] \in S /\ key[f[i]] = Nth(i - 1, K)
  <2> TAKE i \in 1 .. n
  <2>1. i - 1 \in 0 .. n - 1
    BY <1>2
  <2>2. \E x \in S : key[x] = Nth(i - 1, K)
    BY <2>1, <1>3, <1>4
  <2> QED
    BY <2>2
<1>7. \A i, j \in 1 .. n : i < j => key[f[i]] < key[f[j]]
  <2> TAKE i, j \in 1 .. n
  <2> HAVE i < j
  <2>1. i - 1 \in 0 .. n - 1 /\ j - 1 \in 0 .. n - 1 /\ i - 1 < j - 1
    BY <1>2
  <2> HIDE DEF f
  <2> QED
    BY <2>1, <1>5, <1>6
<1>8. f \in [1 .. n -> S]
  BY <1>6
<1> QED
  BY <1>2, <1>7, <1>8 DEF n

(* A list of as many different elements as a set has lists them all. *)
LEMMA ListsAll ==
  ASSUME NEW S, IsFiniteSet(S), NEW f \in [1 .. Cardinality(S) -> S],
         \A i, j \in 1 .. Cardinality(S) : i < j => f[i] # f[j]
  PROVE  \A x \in S : \E i \in 1 .. Cardinality(S) : f[i] = x
<1> DEFINE n == Cardinality(S)
<1>1. n \in Nat
  BY FS_CardinalityType
<1>2. \A i, j \in 1 .. n : f[i] = f[j] => i = j
  BY <1>1
<1>3. f \in Injection(1 .. n, S)
  BY <1>2 DEF Injection, IsInjective
<1>4. Cardinality(1 .. n) = n
  BY <1>1, FS_Interval
<1>5. f \in Surjection(1 .. n, S)
  BY <1>3, <1>4, FS_Injection
<1> QED
  BY <1>5 DEF Surjection

(* The ascending list of a finite set of numbers. *)
LEMMA AscendingIs ==
  ASSUME NEW S \in SUBSET Int, IsFiniteSet(S)
  PROVE  /\ Cardinality(S) \in Nat
         /\ Ascending(S) \in [1 .. Cardinality(S) -> S]
         /\ \A i, j \in 1 .. Cardinality(S) : i < j => Ascending(S)[i] < Ascending(S)[j]
         /\ \A x \in S : \E i \in 1 .. Cardinality(S) : Ascending(S)[i] = x
<1> DEFINE key == [x \in S |-> x]
           n == Cardinality(S)
           f == Ascending(S)
<1>1. key \in [S -> Int] /\ \A x, y \in S : key[x] = key[y] => x = y
  OBVIOUS
<1>2. n \in Nat /\ \E g \in [1 .. n -> S] : \A i, j \in 1 .. n : i < j => key[g[i]] < key[g[j]]
  <2> HIDE DEF key
  <2> QED
    BY <1>1, Sorting
<1>3. \E g \in [1 .. n -> S] : \A i, j \in DOMAIN g : i < j => g[i] < g[j]
  <2>1. PICK g \in [1 .. n -> S] : \A i, j \in 1 .. n : i < j => key[g[i]] < key[g[j]]
    BY <1>2
  <2>2. \A i, j \in DOMAIN g : i < j => g[i] < g[j]
    BY <2>1
  <2> QED
    BY <2>2
<1>4. f \in [1 .. n -> S] /\ \A i, j \in DOMAIN f : i < j => f[i] < f[j]
  BY <1>3 DEF Ascending
<1> HIDE DEF f, key
<1>5. \A i, j \in 1 .. n : i < j => f[i] < f[j]
  BY <1>4
<1>6. \A i, j \in 1 .. n : i < j => f[i] # f[j]
  <2> TAKE i, j \in 1 .. n
  <2> HAVE i < j
  <2>1. f[i] \in Int /\ f[j] \in Int /\ f[i] < f[j]
    BY <1>4, <1>5
  <2> QED
    BY <2>1
<1>7. \A x \in S : \E i \in 1 .. n : f[i] = x
  BY <1>4, <1>6, ListsAll
<1> QED
  BY <1>2, <1>4, <1>5, <1>7 DEF f

(* The mixture of a token, for any scores. *)
LEMMA Mixed ==
  ASSUME NEW n \in Nat, NEW score \in [0 .. n - 1 -> Int], NEW k \in 1 .. n,
         NEW topI \in TopKs(score, k)
  PROVE  LET mix == Mixture(score, topI)
             chosen == {mix[i][1] : i \in DOMAIN mix}
         IN  /\ Len(mix) = k
             /\ \A i, j \in DOMAIN mix : i < j => mix[i][1] < mix[j][1]
             /\ \A i \in DOMAIN mix : mix[i][2] = score[mix[i][1]]
             /\ \A e \in chosen, other \in DOMAIN score \ chosen :
                  score[e] >= score[other]
<1> DEFINE S == 0 .. n - 1
<1>1. IsFiniteSet(S) /\ Cardinality(S) = n /\ DOMAIN score = S /\ S \in SUBSET Int
  <2>1. 0 \in Int /\ n - 1 \in Int
    OBVIOUS
  <2> QED
    BY <2>1, FS_Interval
<1>2. PICK order \in [1 .. n -> S] :
        /\ topI = SubSeq(order, 1, k)
        /\ \A i, j \in 1 .. n : i < j => order[i] # order[j] /\ score[order[i]] >= score[order[j]]
  <2>1. PICK order \in Descending(score, S) : topI = SubSeq(order, 1, k)
    BY <1>1 DEF TopKs
  <2> HIDE DEF S
  <2>2. /\ order \in [1 .. n -> S]
        /\ \A i, j \in DOMAIN order : i < j => order[i] # order[j] /\ score[order[i]] >= score[order[j]]
    BY <1>1, <2>1 DEF Descending
  <2> QED
    BY <2>1, <2>2
<1>3. \A x \in S : \E i \in 1 .. n : order[i] = x
  <2> HIDE DEF S
  <2>1. order \in [1 .. Cardinality(S) -> S]
    BY <1>1, <1>2
  <2>2. \A i, j \in 1 .. Cardinality(S) : i < j => order[i] # order[j]
    BY <1>1, <1>2
  <2>3. IsFiniteSet(S)
    BY <1>1
  <2>4. \A x \in S : \E i \in 1 .. Cardinality(S) : order[i] = x
    BY <2>1, <2>2, <2>3, ListsAll
  <2> QED
    BY <1>1, <2>4
<1>4. DOMAIN topI = 1 .. k /\ \A i \in 1 .. k : topI[i] = order[i]
  <2>1. order \in Seq(S) /\ Len(order) = n
    <3> HIDE DEF S
    <3> QED
      BY <1>2
  <2> HIDE DEF S
  <2> QED
    BY <1>2, <2>1
<1> DEFINE C == {topI[i] : i \in DOMAIN topI}
           asc == Ascending(C)
           topV == [i \in DOMAIN topI |-> score[topI[i]]]
           mix == Mixture(score, topI)
           chosen == {mix[i][1] : i \in DOMAIN mix}
<1> HIDE DEF S
<1>5. C = {order[i] : i \in 1 .. k}
  BY <1>4
<1>6. C \in SUBSET Int /\ C \in SUBSET S /\ IsFiniteSet(C) /\ Cardinality(C) = k
  <2> DEFINE g == [i \in 1 .. k |-> order[i]]
  <2>1. C \in SUBSET S
    BY <1>2, <1>5
  <2>2. \A i, j \in 1 .. k : g[i] = g[j] => i = j
    <3>1. \A i, j \in 1 .. k : i \in 1 .. n /\ j \in 1 .. n /\ i \in Int /\ j \in Int
      OBVIOUS
    <3>2. \A i, j \in 1 .. k : i < j => g[i] # g[j]
      BY <1>2, <3>1
    <3> HIDE DEF g
    <3> QED
      BY <3>1, <3>2
  <2>3. g \in Surjection(1 .. k, C)
    BY <1>5 DEF Surjection
  <2>4. g \in Injection(1 .. k, C)
    <3>1. g \in [1 .. k -> C]
      BY <2>3 DEF Surjection
    <3> HIDE DEF g
    <3> QED
      BY <2>2, <3>1 DEF Injection, IsInjective
  <2>5. IsFiniteSet(1 .. k) /\ Cardinality(1 .. k) = k
    BY FS_Interval
  <2> HIDE DEF g, C
  <2>6. IsFiniteSet(C) /\ Cardinality(C) = k
    BY <2>3, <2>4, <2>5, FS_Surjection
  <2> QED
    BY <1>1, <2>1, <2>6
<1> HIDE DEF C
<1>7. /\ asc \in [1 .. k -> C]
      /\ \A i, j \in 1 .. k : i < j => asc[i] < asc[j]
      /\ \A x \in C : \E i \in 1 .. k : asc[i] = x
  BY <1>6, AscendingIs
<1>8. ASSUME NEW e \in C PROVE WeightOf(topI, topV, e) = score[e]
  <2> DEFINE at == {i \in DOMAIN topI : topI[i] = e}
  <2>1. at # {} /\ at \in SUBSET (1 .. k) /\ at \in SUBSET Int
    BY <1>4 DEF C
  <2>2. IsFiniteSet(at)
    <3>1. IsFiniteSet(1 .. k)
      BY FS_Interval
    <3> HIDE DEF at
    <3> QED
      BY <2>1, <3>1, FS_Subset
  <2>3. Min(at) \in at
    <3> HIDE DEF at
    <3> QED
      BY <2>1, <2>2, SmallestNumber
  <2>4. topV[Min(at)] = score[e]
    BY <2>3
  <2> QED
    BY <2>4 DEF WeightOf
<1>9. mix = [i \in 1 .. k |-> <<asc[i], WeightOf(topI, topV, asc[i])>>]
  <2>1. DOMAIN asc = 1 .. k
    BY <1>7
  <2> QED
    BY <2>1 DEF Mixture, C
<1> HIDE DEF asc, topV, mix
<1>10. DOMAIN mix = 1 .. k /\ \A i \in 1 .. k : mix[i][1] = asc[i] /\ mix[i][2] = score[asc[i]]
  BY <1>7, <1>8, <1>9
<1>11. Len(mix) = k
  <2> DEFINE X == {mix[i] : i \in 1 .. k}
  <2>1. mix \in [1 .. k -> X]
    BY <1>9
  <2> HIDE DEF X
  <2>2. mix \in Seq(X) /\ k \in Nat
    BY <2>1
  <2> QED
    BY <1>10, <2>2, LenProperties
<1>12. chosen = C
  <2>1. \A i \in DOMAIN mix : mix[i][1] \in C
    BY <1>7, <1>10
  <2>2. ASSUME NEW x \in C PROVE \E i \in DOMAIN mix : mix[i][1] = x
    <3>1. PICK i \in 1 .. k : asc[i] = x
      BY <1>7
    <3>2. i \in DOMAIN mix /\ mix[i][1] = x
      BY <1>10, <3>1
    <3> QED
      BY <3>2
  <2>3. \A x : x \in chosen <=> x \in C
    BY <2>1, <2>2
  <2> HIDE DEF chosen, C
  <2> QED
    BY <2>3
<1>13. ASSUME NEW e \in C, NEW other \in S \ C PROVE score[e] >= score[other]
  <2>1. PICK i \in 1 .. k : e = order[i]
    BY <1>5
  <2>2. PICK j \in 1 .. n : other = order[j]
    BY <1>3
  <2>3. ~(j <= k)
    BY <1>5, <2>2
  <2>4. i \in 1 .. n /\ i < j
    BY <2>3
  <2> QED
    BY <2>1, <2>2, <2>4, <1>2
<1>14. \A i, j \in DOMAIN mix : i < j => mix[i][1] < mix[j][1]
  BY <1>7, <1>10
<1>15. \A i \in DOMAIN mix : mix[i][2] = score[mix[i][1]]
  BY <1>10
<1>16. \A e \in chosen, other \in DOMAIN score \ chosen : score[e] >= score[other]
  <2> HIDE DEF chosen
  <2> QED
    BY <1>1, <1>12, <1>13
<1> QED
  BY <1>11, <1>14, <1>15, <1>16 DEF mix

(* The mixture of a token has the k experts of the highest scores, each    *)
(* once and with its own score, in ascending order, whatever qsort makes   *)
(* of equal scores (topk and the mixture of forward), for any number of    *)
(* experts and any scores.                                                 *)
THEOREM ExpertsMixed == AlgSpec => []MixtureIsTopK
<1> DEFINE Inv == Of("topk") => input \in [score : [0 .. MixtureExperts - 1 -> MixtureScores],
                                           k : 1 .. MixtureExperts]
<1>1. AlgInit => Inv
  BY DEF AlgInit, Of
<1>2. Inv /\ [AlgNext]_algVars => Inv'
  BY DEF AlgNext, algVars, Given, Of
<1>3. Inv => MixtureIsTopK
  <2> SUFFICES ASSUME Inv, Of("topk"), NEW topI \in TopKs(input.score, input.k)
               PROVE  LET mix == Mixture(input.score, topI)
                          chosen == {mix[i][1] : i \in DOMAIN mix}
                      IN  /\ Len(mix) = input.k
                          /\ \A i, j \in DOMAIN mix : i < j => mix[i][1] < mix[j][1]
                          /\ \A i \in DOMAIN mix : mix[i][2] = input.score[mix[i][1]]
                          /\ \A e \in chosen, other \in DOMAIN input.score \ chosen :
                               input.score[e] >= input.score[other]
    BY DEF MixtureIsTopK
  <2> DEFINE score == input.score
             k == input.k
  <2>1. score \in [0 .. MixtureExperts - 1 -> Int] /\ k \in 1 .. MixtureExperts
    BY AlgorithmsAssumption
  <2>2. MixtureExperts \in Nat
    BY AlgorithmsAssumption
  <2> HIDE DEF score, k
  <2> QED
    BY <2>1, <2>2, Mixed DEF score, k
<1> QED
  BY <1>1, <1>2, <1>3, PTL DEF AlgSpec
-----------------------------------------------------------------------------
(* The mass of a set. *)
LEMMA MassNat ==
  ASSUME NEW A, IsFiniteSet(A), NEW w, \A x \in A : w[x] \in Nat
  PROVE  Mass(w, A) \in Nat
<1> DEFINE good == {s \in SUBSET A : Mass(w, s) \in Nat}
<1>1. {} \in good
  BY SumEmpty DEF Mass
<1>2. ASSUME NEW s \in SUBSET A, NEW x \in A \ s, s \in good PROVE s \cup {x} \in good
  <2>1. IsFiniteSet(s)
    BY FS_Subset
  <2>2. Mass(w, s \cup {x}) = Mass(w, s) + w[x]
    <3>1. \A y \in s \cup {x} : w[y] \in Int
      OBVIOUS
    <3> QED
      BY <2>1, <3>1, SumAdd DEF Mass
  <2> QED
    BY <1>2, <2>2
<1>3. A \in good
  <2> HIDE DEF good
  <2> QED
    BY <1>1, <1>2, SetInduction
<1> QED
  BY <1>3

(* The mass of a set is at most its size times the largest weight. *)
LEMMA MassBound ==
  ASSUME NEW A, IsFiniteSet(A), NEW w, NEW b \in Nat,
         \A x \in A : w[x] \in Nat /\ w[x] <= b
  PROVE  Mass(w, A) <= Cardinality(A) * b
<1> DEFINE good == {s \in SUBSET A : Mass(w, s) <= Cardinality(s) * b}
<1>1. {} \in good
  BY SumEmpty, FS_EmptySet DEF Mass
<1>2. ASSUME NEW s \in SUBSET A, NEW x \in A \ s, s \in good PROVE s \cup {x} \in good
  <2>1. IsFiniteSet(s) /\ Cardinality(s) \in Nat
    BY FS_Subset, FS_CardinalityType
  <2>2. Mass(w, s \cup {x}) = Mass(w, s) + w[x] /\ Mass(w, s) \in Int
    <3>1. \A y \in s \cup {x} : w[y] \in Int
      OBVIOUS
    <3> QED
      BY <2>1, <3>1, SumAdd DEF Mass
  <2>3. Cardinality(s \cup {x}) = Cardinality(s) + 1
    BY <2>1, FS_AddElement
  <2>4. Mass(w, s \cup {x}) <= Cardinality(s \cup {x}) * b
    <3> DEFINE p == Cardinality(s)
    <3>1. (p + 1) * b = p * b + b /\ p * b \in Nat
      BY <2>1, ProductNat
    <3>2. Mass(w, s) <= p * b
      BY <1>2
    <3>3. w[x] \in Nat /\ w[x] <= b
      OBVIOUS
    <3> DEFINE pb == p * b
    <3> HIDE DEF p, pb
    <3>4. Mass(w, s) + w[x] <= pb + b
      BY <2>2, <3>1, <3>2, <3>3 DEF pb
    <3> QED
      BY <2>2, <2>3, <3>1, <3>4 DEF p, pb
  <2> QED
    BY <2>4
<1>3. A \in good
  <2> HIDE DEF good
  <2> QED
    BY <1>1, <1>2, SetInduction
<1> QED
  BY <1>3

(* A subset weighs no more. *)
LEMMA MassSplit ==
  ASSUME NEW B, IsFiniteSet(B), NEW A \in SUBSET B, NEW w, \A x \in B : w[x] \in Nat
  PROVE  /\ Mass(w, A) \in Nat /\ Mass(w, B \ A) \in Nat
         /\ Mass(w, B) = Mass(w, A) + Mass(w, B \ A)
         /\ Mass(w, A) <= Mass(w, B)
<1> DEFINE R == B \ A
<1>1. IsFiniteSet(A) /\ IsFiniteSet(R) /\ A \cap R = {} /\ A \cup R = B
  BY FS_Subset
<1>2. \A x \in A : w[x] \in Nat
  OBVIOUS
<1>3. \A x \in R : w[x] \in Nat
  OBVIOUS
<1> HIDE DEF R
<1>4. Mass(w, A) \in Nat /\ Mass(w, R) \in Nat
  BY <1>1, <1>2, <1>3, MassNat
<1>5. Mass(w, A \cup R) = Mass(w, A) + Mass(w, R)
  <2>1. \A x \in A \cup R : w[x] \in Int
    BY <1>2, <1>3
  <2> QED
    BY <1>1, <2>1, SumUnion DEF Mass
<1>6. Mass(w, B) = Mass(w, A) + Mass(w, R) /\ Mass(w, A) <= Mass(w, B)
  <2>1. A \cup R = B
    BY <1>1
  <2>2. Mass(w, A \cup R) = Mass(w, B)
    BY <2>1
  <2> QED
    BY <1>4, <1>5, <2>2
<1> QED
  BY <1>4, <1>6 DEF R

(* The first k of a list. *)
FirstOf(order, k) == {order[i] : i \in 1 .. k}

(* The mass of the first k of a list grows with k by what it lists there. *)
LEMMA PrefixMass ==
  ASSUME NEW S, IsFiniteSet(S), NEW w \in [S -> Nat], NEW m \in Nat, NEW order \in [1 .. m -> S],
         \A i, j \in 1 .. m : i < j => order[i] # order[j]
  PROVE  /\ Mass(w, FirstOf(order, 0)) = 0
         /\ \A k \in 0 .. m : Mass(w, FirstOf(order, k)) \in Nat /\ FirstOf(order, k) \in SUBSET S
         /\ \A k \in 1 .. m : Mass(w, FirstOf(order, k)) = Mass(w, FirstOf(order, k - 1)) + w[order[k]]
         /\ \A j, k \in 0 .. m : j <= k => Mass(w, FirstOf(order, j)) <= Mass(w, FirstOf(order, k))
<1>1. Mass(w, FirstOf(order, 0)) = 0
  <2>1. FirstOf(order, 0) = {}
    BY DEF FirstOf
  <2> QED
    BY <2>1, SumEmpty DEF Mass
<1>2. \A k \in 0 .. m : FirstOf(order, k) \in SUBSET S /\ IsFiniteSet(FirstOf(order, k))
  <2>1. \A k \in 0 .. m : FirstOf(order, k) \in SUBSET S
    BY DEF FirstOf
  <2> QED
    BY <2>1, FS_Subset
<1>3. \A k \in 0 .. m : Mass(w, FirstOf(order, k)) \in Nat
  BY <1>2, MassNat
<1>4. ASSUME NEW k \in 1 .. m
      PROVE  Mass(w, FirstOf(order, k)) = Mass(w, FirstOf(order, k - 1)) + w[order[k]]
  <2> DEFINE A == FirstOf(order, k - 1)
             x == order[k]
  <2>1. FirstOf(order, k) = A \cup {x}
    BY DEF FirstOf
  <2>2. x \notin A
    BY DEF FirstOf
  <2>3. k - 1 \in 0 .. m /\ x \in S
    OBVIOUS
  <2>4. IsFiniteSet(A) /\ \A y \in A \cup {x} : w[y] \in Int
    BY <1>2, <2>3
  <2> HIDE DEF A, x
  <2>5. Mass(w, A \cup {x}) = Mass(w, A) + w[x]
    BY <2>2, <2>4, SumAdd DEF Mass
  <2> QED
    BY <2>1, <2>5 DEF A, x
<1>5. ASSUME NEW j \in 0 .. m, NEW k \in 0 .. m, j <= k
      PROVE  Mass(w, FirstOf(order, j)) <= Mass(w, FirstOf(order, k))
  <2>1. FirstOf(order, j) \in SUBSET FirstOf(order, k)
    BY <1>5 DEF FirstOf
  <2>2. \A x \in FirstOf(order, k) : w[x] \in Nat
    BY <1>2
  <2> QED
    BY <1>2, <2>1, <2>2, MassSplit
<1> QED
  BY <1>1, <1>2, <1>3, <1>4, <1>5

(* FirstBeyond is the first element at which the running sum exceeds the   *)
(* bound, if any.                                                          *)
LEMMA FirstIs ==
  ASSUME NEW S, NEW w, NEW m \in Nat \ {0}, NEW order \in [1 .. m -> S],
         NEW num \in Int, NEW den \in Nat,
         \A k \in 1 .. m : Mass(w, FirstOf(order, k)) \in Nat
  PROVE  LET r == FirstBeyond(w, order, num, den)
         IN  /\ r \in 1 .. m
             /\ \A k \in 1 .. r - 1 : Mass(w, FirstOf(order, k)) * den <= num
             /\ r < m => Mass(w, FirstOf(order, r)) * den > num
<1> DEFINE p(k) == Mass(w, FirstOf(order, k)) * den
           beyond == {k \in DOMAIN order : p(k) > num}
           r == FirstBeyond(w, order, num, den)
<1>1. Len(order) = m /\ DOMAIN order = 1 .. m
  <2>1. order \in Seq(S)
    OBVIOUS
  <2> QED
    BY <2>1, LenProperties
<1>2. r = IF beyond = {} THEN m ELSE Min(beyond)
  BY <1>1 DEF FirstBeyond, FirstOf
<1>3. \A k \in 1 .. m : p(k) \in Int
  BY ProductNat
<1>4. beyond = {k \in 1 .. m : p(k) > num}
  BY <1>1
<1> HIDE DEF r
<1>5. CASE beyond = {}
  <2>1. r = m
    BY <1>2, <1>5
  <2>2. \A k \in 1 .. m : ~(p(k) > num)
    BY <1>4, <1>5
  <2> HIDE DEF p
  <2>3. \A k \in 1 .. m : p(k) <= num
    BY <1>3, <2>2
  <2> QED
    BY <2>1, <2>3 DEF r, p
<1>6. CASE beyond # {}
  <2>1. beyond \in SUBSET Int /\ IsFiniteSet(beyond)
    <3>1. IsFiniteSet(1 .. m)
      BY FS_Interval
    <3>2. beyond \in SUBSET (1 .. m)
      BY <1>4
    <3> HIDE DEF beyond
    <3>3. IsFiniteSet(beyond)
      BY <3>1, <3>2, FS_Subset
    <3> QED
      BY <3>2, <3>3
  <2>2. r \in beyond /\ \A k \in beyond : r <= k
    <3> HIDE DEF beyond
    <3> QED
      BY <1>2, <1>6, <2>1, SmallestNumber
  <2>3. r \in 1 .. m /\ p(r) > num /\ \A k \in 1 .. m : p(k) > num => r <= k
    BY <1>4, <2>2
  <2> HIDE DEF p
  <2>4. \A k \in 1 .. r - 1 : p(k) <= num
    BY <1>3, <2>3
  <2> QED
    BY <2>3, <2>4 DEF p, r
<1> QED
  BY <1>5, <1>6

(* There is no other such element. *)
LEMMA FirstUnique ==
  ASSUME NEW S, NEW w, NEW m \in Nat \ {0}, NEW order \in [1 .. m -> S],
         NEW num \in Int, NEW den \in Nat,
         \A k \in 1 .. m : Mass(w, FirstOf(order, k)) \in Nat,
         NEW q \in 1 .. m,
         \A k \in 1 .. q - 1 : Mass(w, FirstOf(order, k)) * den <= num,
         Mass(w, FirstOf(order, q)) * den > num
  PROVE  FirstBeyond(w, order, num, den) = q
<1> DEFINE p(k) == Mass(w, FirstOf(order, k)) * den
           r == FirstBeyond(w, order, num, den)
<1>1. /\ r \in 1 .. m
      /\ \A k \in 1 .. r - 1 : p(k) <= num
      /\ r < m => p(r) > num
  BY FirstIs
<1>2. \A k \in 1 .. m : p(k) \in Int
  BY ProductNat
<1>3. (\A k \in 1 .. q - 1 : p(k) <= num) /\ p(q) > num
  OBVIOUS
<1> HIDE DEF p, r
<1>4. ~(r < q)
  BY <1>1, <1>2, <1>3
<1>5. ~(q < r)
  BY <1>1, <1>2, <1>3
<1> QED
  BY <1>1, <1>4, <1>5 DEF r

(* The tokens more likely than x. *)
Larger(w, x) == {j \in DOMAIN w : w[j] > w[x]}

(* A distribution over n tokens. *)
Distributed(w, n, one) ==
  /\ n \in Nat /\ one \in Nat
  /\ w \in [0 .. n - 1 -> 0 .. one]
  /\ Mass(w, 0 .. n - 1) = one

(* The tokens of a distribution and the mass of a set of them. *)
LEMMA Tokens ==
  ASSUME NEW n, NEW one, NEW w, Distributed(w, n, one)
  PROVE  /\ DOMAIN w = 0 .. n - 1
         /\ IsFiniteSet(0 .. n - 1) /\ Cardinality(0 .. n - 1) = n
         /\ w \in [0 .. n - 1 -> Nat]
         /\ \A A \in SUBSET (0 .. n - 1) :
              IsFiniteSet(A) /\ Cardinality(A) \in Nat /\ Mass(w, A) \in Nat
         /\ \A A, B \in SUBSET (0 .. n - 1) : A \subseteq B => Mass(w, A) <= Mass(w, B)
<1> DEFINE S == 0 .. n - 1
<1>1. IsFiniteSet(S) /\ Cardinality(S) = n
  <2>1. n \in Nat /\ 0 \in Int /\ n - 1 \in Int
    BY DEF Distributed
  <2> QED
    BY <2>1, FS_Interval
<1>2. DOMAIN w = S /\ w \in [S -> Nat]
  BY DEF Distributed
<1> HIDE DEF S
<1>3. \A A \in SUBSET S : IsFiniteSet(A) /\ Cardinality(A) \in Nat
  BY <1>1, FS_Subset, FS_CardinalityType
<1>4. \A A \in SUBSET S : \A x \in A : w[x] \in Nat
  BY <1>2
<1>5. \A A \in SUBSET S : Mass(w, A) \in Nat
  BY <1>3, <1>4, MassNat
<1>6. ASSUME NEW A \in SUBSET S, NEW B \in SUBSET S, A \subseteq B
      PROVE  Mass(w, A) <= Mass(w, B)
  BY <1>3, <1>4, <1>6, MassSplit
<1> QED
  BY <1>1, <1>2, <1>3, <1>5, <1>6 DEF S

(* Cropping takes nothing from the nucleus. *)
LEMMA NucleusKept ==
  ASSUME NEW n, NEW one, NEW w, Distributed(w, n, one), NEW T \in 1 .. one - 1, T * n >= one,
         NEW x \in Nucleus(w, T)
  PROVE  x \in Candidates(w, one, T)
<1> DEFINE S == 0 .. n - 1
           G == Larger(w, x)
           R == S \ G
           b == w[x]
<1>1. /\ DOMAIN w = S /\ IsFiniteSet(S) /\ Cardinality(S) = n /\ w \in [S -> Nat]
      /\ n \in Nat /\ one \in Nat /\ Mass(w, S) = one
  BY Tokens DEF Distributed
<1>2. x \in S /\ Mass(w, G) <= T
  BY <1>1 DEF Nucleus, Larger
<1>3. b \in Nat /\ T \in Nat
  BY <1>1, <1>2
<1>4. G \in SUBSET S /\ R \in SUBSET S
  BY <1>1 DEF Larger
<1>5. \A y \in R : w[y] \in Nat /\ w[y] <= b
  BY <1>1, <1>2 DEF Larger
<1> HIDE DEF S
<1>6. Mass(w, S) = Mass(w, G) + Mass(w, R) /\ Mass(w, G) \in Nat /\ Mass(w, R) \in Nat
  <2>1. \A y \in S : w[y] \in Nat
    BY <1>1
  <2> HIDE DEF G
  <2> QED
    BY <1>1, <1>4, <2>1, MassSplit
<1>7. IsFiniteSet(R) /\ IsFiniteSet(G) /\ Cardinality(R) \in Nat /\ Cardinality(R) <= n
      /\ (G # {} => Cardinality(R) # n)
  <2>1. IsFiniteSet(R) /\ IsFiniteSet(G) /\ Cardinality(R) <= n
        /\ (Cardinality(S) = Cardinality(R) => S = R)
    <3> HIDE DEF R, G
    <3> QED
      BY <1>1, <1>4, FS_Subset
  <2>2. Cardinality(R) \in Nat
    <3> HIDE DEF R, G
    <3> QED
      BY <2>1, FS_CardinalityType
  <2> QED
    BY <1>1, <1>4, <2>1, <2>2
<1>8. Mass(w, R) <= Cardinality(R) * b
  <2> HIDE DEF R, b
  <2> QED
    BY <1>3, <1>5, <1>7, MassBound
<1> DEFINE g == Mass(w, G)
           q == Mass(w, R)
           h == Cardinality(R)
<1>9. b * (n - 1) >= one - T
  <2>1. n # 0
    BY <1>1
  <2>2. CASE G # {}
    <3> HIDE DEF G, R, b
    <3>1. h <= n - 1 /\ h \in Nat
      BY <1>1, <1>7, <2>2
    <3> HIDE DEF h
    <3>2. h * b <= (n - 1) * b /\ h * b \in Nat /\ (n - 1) * b \in Nat
      <4>1. n - 1 \in Nat
        BY <1>1, <2>1
      <4>2. h * b \in Nat /\ (n - 1) * b \in Nat
        BY <1>3, <3>1, <4>1, ProductNat
      <4>3. h < n - 1 => h * b + b <= (n - 1) * b
        BY <1>3, <3>1, <4>1, NextMultiple
      <4> QED
        BY <3>1, <4>1, <4>2, <4>3, <1>3
    <3>3. q <= h * b
      BY <1>8 DEF h
    <3>4. b * (n - 1) = (n - 1) * b
      BY <1>1, <1>3
    <3> DEFINE hb == h * b
               nb == (n - 1) * b
    <3>5. q <= hb /\ hb <= nb /\ hb \in Nat /\ nb \in Nat
      BY <3>2, <3>3
    <3>6. one = g + q /\ g <= T /\ g \in Nat /\ q \in Nat
      BY <1>1, <1>2, <1>6
    <3> HIDE DEF hb, nb, g, q
    <3>7. nb >= one - T
      BY <3>5, <3>6, <1>3
    <3> QED
      BY <3>4, <3>7 DEF nb
  <2>3. CASE G = {}
    <3>1. R = S
      BY <2>3
    <3>2. one <= n * b
      BY <1>1, <1>8, <3>1
    <3> HIDE DEF b, G, R
    <3> DEFINE m == n - 1
    <3>3. m \in Nat /\ n = m + 1
      BY <1>1, <2>1
    <3>4. n * b = m * b + b /\ T * n = T * m + T /\ b * m = m * b /\ m * b \in Nat /\ T * m \in Nat
      BY <1>3, <3>3, ProductNat
    <3>5. one <= m * b + b /\ one <= T * m + T
      BY <3>2, <3>4
    <3>6. b > T => T * m <= m * b
      <4> SUFFICES ASSUME b > T PROVE T * m <= m * b
        OBVIOUS
      <4>1. T * m + m <= b * m
        BY <1>3, <3>3, NextMultiple
      <4> QED
        BY <3>3, <3>4, <4>1
    <3> DEFINE mb == m * b
               tm == T * m
    <3>7. /\ one <= mb + b /\ one <= tm + T /\ mb \in Nat /\ tm \in Nat
          /\ b > T => tm <= mb
      BY <3>4, <3>5, <3>6
    <3> HIDE DEF mb, tm
    <3>8. mb >= one - T
      BY <3>7, <1>1, <1>3
    <3> QED
      BY <3>4, <3>8 DEF mb
  <2> QED
    BY <2>2, <2>3
<1> QED
  BY <1>1, <1>2, <1>9 DEF Candidates

(* A way to sort the candidates, with its first so many. *)
LEMMA SortedCandidates ==
  ASSUME NEW n, NEW one, NEW w, Distributed(w, n, one), NEW T,
         NEW order \in Descending(w, Candidates(w, one, T))
  PROVE  LET C == Candidates(w, one, T)
             m == Cardinality(C)
         IN  /\ C \in SUBSET (0 .. n - 1) /\ m \in Nat
             /\ order \in [1 .. m -> C] /\ order \in [1 .. m -> 0 .. n - 1]
             /\ \A i, j \in 1 .. m : i < j => order[i] # order[j] /\ w[order[i]] >= w[order[j]]
             /\ \A x \in C : \E i \in 1 .. m : order[i] = x
             /\ \A k \in 0 .. m : Mass(w, FirstOf(order, k)) \in 0 .. one
             /\ Mass(w, FirstOf(order, 0)) = 0
             /\ \A k \in 0 .. m : FirstOf(order, k) \in SUBSET (0 .. n - 1)
             /\ \A k \in 1 .. m : Mass(w, FirstOf(order, k)) = Mass(w, FirstOf(order, k - 1)) + w[order[k]]
             /\ \A j, k \in 0 .. m : j <= k => Mass(w, FirstOf(order, j)) <= Mass(w, FirstOf(order, k))
<1> DEFINE S == 0 .. n - 1
           C == Candidates(w, one, T)
           m == Cardinality(C)
<1>1. /\ DOMAIN w = S /\ IsFiniteSet(S) /\ w \in [S -> Nat]
      /\ \A A, B \in SUBSET S : A \subseteq B => Mass(w, A) <= Mass(w, B)
      /\ \A A \in SUBSET S : IsFiniteSet(A) /\ Cardinality(A) \in Nat /\ Mass(w, A) \in Nat
      /\ Mass(w, S) = one
  BY Tokens DEF Distributed
<1> HIDE DEF S
<1>2. C \in SUBSET S
  BY <1>1 DEF Candidates
<1>3. IsFiniteSet(C) /\ m \in Nat
  BY <1>1, <1>2
<1> HIDE DEF C
<1>4. /\ order \in [1 .. m -> C]
      /\ \A i, j \in 1 .. m : i < j => order[i] # order[j] /\ w[order[i]] >= w[order[j]]
  <2>1. /\ order \in [1 .. m -> C]
        /\ \A i, j \in DOMAIN order : i < j => order[i] # order[j] /\ w[order[i]] >= w[order[j]]
    BY DEF Descending, C
  <2> QED
    BY <2>1
<1>5. order \in [1 .. m -> S]
  BY <1>2, <1>4
<1>6. \A x \in C : \E i \in 1 .. m : order[i] = x
  BY <1>3, <1>4, ListsAll
<1> HIDE DEF m
<1>7. /\ Mass(w, FirstOf(order, 0)) = 0
      /\ \A k \in 0 .. m : Mass(w, FirstOf(order, k)) \in Nat /\ FirstOf(order, k) \in SUBSET S
      /\ \A k \in 1 .. m : Mass(w, FirstOf(order, k)) = Mass(w, FirstOf(order, k - 1)) + w[order[k]]
      /\ \A j, k \in 0 .. m : j <= k => Mass(w, FirstOf(order, j)) <= Mass(w, FirstOf(order, k))
  <2>1. \A i, j \in 1 .. m : i < j => order[i] # order[j]
    BY <1>4
  <2>2. IsFiniteSet(S) /\ w \in [S -> Nat] /\ m \in Nat
    BY <1>1, <1>3
  <2> HIDE DEF FirstOf, Mass
  <2> QED
    BY <1>5, <2>1, <2>2, PrefixMass
<1>8. \A k \in 0 .. m : Mass(w, FirstOf(order, k)) \in 0 .. one
  <2> TAKE k \in 0 .. m
  <2>1. FirstOf(order, k) \in SUBSET S /\ S \in SUBSET S
    BY <1>7
  <2>2. Mass(w, FirstOf(order, k)) <= one /\ one \in Nat
    BY <1>1, <2>1
  <2> QED
    BY <1>7, <2>2
<1> QED
  BY <1>2, <1>3, <1>4, <1>5, <1>6, <1>7, <1>8 DEF S, C, m

(* The tokens kept, and the place of the one sampled. *)
LastKept(w, order, T) == FirstBeyond(w, order, T, 1)
KeptTokens(w, order, T) == SubSeq(order, 1, LastKept(w, order, T))
MassKept(w, order, T) == Mass(w, FirstOf(order, LastKept(w, order, T)))
Sampled(w, order, one, T, coin) ==
  FirstBeyond(w, KeptTokens(w, order, T), coin * MassKept(w, order, T), one)

(* What is kept of the m candidates in order, and the one the coin picks. *)
Sampling(S, m, order, w, one, T, coin) ==
  LET last == LastKept(w, order, T)
      r == Sampled(w, order, one, T, coin)
  IN  /\ last \in 1 .. m
      /\ \A k \in 1 .. last - 1 : Mass(w, FirstOf(order, k)) <= T
      /\ last < m => Mass(w, FirstOf(order, last)) > T
      /\ KeptTokens(w, order, T) \in [1 .. last -> S]
      /\ \A k \in 0 .. last : FirstOf(KeptTokens(w, order, T), k) = FirstOf(order, k)
      /\ r \in 1 .. last
      /\ SampleTopp(w, one, T, coin, order) = order[r]

(* That is what sample_topp does with the coin. *)
LEMMA SampledToken ==
  ASSUME NEW S, NEW m \in Nat \ {0}, NEW order \in [1 .. m -> S], NEW w, NEW one \in Nat,
         NEW T \in Nat, NEW coin \in Nat,
         \A k \in 0 .. m : Mass(w, FirstOf(order, k)) \in Nat
  PROVE  Sampling(S, m, order, w, one, T, coin)
<1> DEFINE last == FirstBeyond(w, order, T, 1)
           kept == SubSeq(order, 1, last)
           mass == Mass(w, FirstOf(order, last))
           r == FirstBeyond(w, kept, coin * mass, one)
<1>1. /\ last \in 1 .. m
      /\ \A k \in 1 .. last - 1 : Mass(w, FirstOf(order, k)) <= T
      /\ last < m => mass > T
  <2>1. /\ last \in 1 .. m
        /\ \A k \in 1 .. last - 1 : Mass(w, FirstOf(order, k)) * 1 <= T
        /\ last < m => mass * 1 > T
    <3>1. \A k \in 1 .. m : Mass(w, FirstOf(order, k)) \in Nat
      OBVIOUS
    <3>2. T \in Int /\ 1 \in Nat
      OBVIOUS
    <3> QED
      BY <3>1, <3>2, FirstIs
  <2>2. \A k \in 1 .. m : Mass(w, FirstOf(order, k)) * 1 = Mass(w, FirstOf(order, k))
    OBVIOUS
  <2> HIDE DEF last
  <2> QED
    BY <2>1, <2>2
<1> HIDE DEF last
<1>2. kept \in [1 .. last -> S] /\ \A i \in 1 .. last : kept[i] = order[i]
  <2>1. \A i \in 1 .. last : order[i] \in S
    BY <1>1
  <2>2. 1 \in Int /\ last \in Int /\ 1 <= last
    BY <1>1
  <2>3. /\ kept \in Seq(S)
        /\ Len(kept) = IF 1 <= last THEN last - 1 + 1 ELSE 0
        /\ \A i \in 1 .. last - 1 + 1 : kept[i] = order[1 + i - 1]
    BY <2>1, <2>2, SubSeqProperties
  <2>4. last - 1 + 1 = last /\ \A i \in 1 .. last : 1 + i - 1 = i
    BY <2>2
  <2>5. Len(kept) = last /\ \A i \in 1 .. last : kept[i] = order[i]
    BY <2>2, <2>3, <2>4
  <2> QED
    BY <2>3, <2>5, LenProperties
<1> HIDE DEF kept
<1>3. \A k \in 0 .. last : FirstOf(kept, k) = FirstOf(order, k)
  BY <1>1, <1>2 DEF FirstOf
<1>4. mass \in Nat /\ coin * mass \in Int
  BY <1>1, ProductNat
<1>5. r \in 1 .. last
  <2>1. last \in Nat \ {0}
    BY <1>1
  <2>2. \A k \in 1 .. last : Mass(w, FirstOf(kept, k)) \in Nat
    BY <1>1, <1>3
  <2> HIDE DEF mass
  <2> QED
    BY <1>2, <1>4, <2>1, <2>2, FirstIs
<1>6. Mass(w, {kept[i] : i \in DOMAIN kept}) = mass
  <2>1. {kept[i] : i \in DOMAIN kept} = FirstOf(order, last)
    BY <1>1, <1>2 DEF FirstOf
  <2> QED
    BY <2>1
<1>7. SampleTopp(w, one, T, coin, order) = order[r]
  <2>1. SampleTopp(w, one, T, coin, order) = kept[r]
    BY <1>6 DEF SampleTopp, last, kept
  <2> QED
    BY <1>2, <1>5, <2>1
<1> QED
  BY <1>1, <1>2, <1>3, <1>5, <1>7 DEF Sampling, last, kept, LastKept, KeptTokens, MassKept, Sampled

(* Whatever the coin and the order of equals, the token is in the nucleus. *)
LEMMA SampleInNucleus ==
  ASSUME NEW n, NEW one, NEW w, Distributed(w, n, one), NEW T \in 1 .. one - 1,
         Candidates(w, one, T) # {}, NEW coin \in 0 .. one - 1,
         NEW order \in Descending(w, Candidates(w, one, T))
  PROVE  SampleTopp(w, one, T, coin, order) \in Nucleus(w, T)
<1> DEFINE S == 0 .. n - 1
           C == Candidates(w, one, T)
           m == Cardinality(C)
           last == LastKept(w, order, T)
           r == Sampled(w, order, one, T, coin)
           x == order[r]
           P(k) == Mass(w, FirstOf(order, k))
<1>1. /\ C \in SUBSET S /\ m \in Nat
      /\ order \in [1 .. m -> C] /\ order \in [1 .. m -> S]
      /\ \A i, j \in 1 .. m : i < j => order[i] # order[j] /\ w[order[i]] >= w[order[j]]
      /\ \A y \in C : \E i \in 1 .. m : order[i] = y
      /\ \A k \in 0 .. m : P(k) \in 0 .. one
      /\ P(0) = 0
      /\ \A k \in 0 .. m : FirstOf(order, k) \in SUBSET S
  BY SortedCandidates
<1>2. /\ DOMAIN w = S /\ w \in [S -> Nat] /\ one \in Nat
      /\ \A A, B \in SUBSET S : A \subseteq B => Mass(w, A) <= Mass(w, B)
      /\ \A A \in SUBSET S : Mass(w, A) \in Nat
  BY Tokens DEF Distributed
<1>3. m \in Nat \ {0}
  <2>1. PICK y \in C : TRUE
    OBVIOUS
  <2>2. PICK i \in 1 .. m : order[i] = y
    BY <1>1, <2>1
  <2> HIDE DEF m
  <2> QED
    BY <1>1, <2>2
<1>4. /\ last \in 1 .. m
      /\ \A k \in 1 .. last - 1 : P(k) <= T
      /\ r \in 1 .. last
      /\ SampleTopp(w, one, T, coin, order) = x
  <2>1. T \in Nat /\ coin \in Nat /\ one \in Nat
    BY <1>2
  <2>2. \A k \in 0 .. m : Mass(w, FirstOf(order, k)) \in Nat
    BY <1>1
  <2>3. order \in [1 .. m -> S]
    BY <1>1
  <2> HIDE DEF m, S, C
  <2>4. Sampling(S, m, order, w, one, T, coin)
    BY <1>3, <2>1, <2>2, <2>3, SampledToken
  <2> QED
    BY <2>4 DEF Sampling
<1>5. r \in 1 .. m /\ r - 1 \in 0 .. m /\ r - 1 < last
  <2> HIDE DEF r, last, m
  <2> QED
    BY <1>3, <1>4
<1> HIDE DEF r, last, m, S, C, P
<1>6. x \in C /\ x \in S
  BY <1>1, <1>5
<1>7. Larger(w, x) \in SUBSET S
  BY <1>2 DEF Larger
<1>8. Larger(w, x) \subseteq FirstOf(order, r - 1)
  <2> SUFFICES ASSUME NEW j \in S, w[j] > w[x] PROVE j \in FirstOf(order, r - 1)
    BY <1>2 DEF Larger
  <2>1. j \in C
    <3> DEFINE q == Cardinality(S) - 1
    <3>1. w[x] * q >= one - T
      BY <1>2, <1>6 DEF C, Candidates
    <3>2. q \in Nat
      <4>1. IsFiniteSet(S) /\ Cardinality(S) \in Nat
        BY Tokens, <1>2, FS_CardinalityType DEF S
      <4>2. Cardinality(S) # 0
        BY <1>6, <4>1, FS_EmptySet
      <4> QED
        BY <4>1, <4>2
    <3> HIDE DEF q
    <3>3. w[x] \in Nat /\ w[j] \in Nat
      BY <1>2, <1>6
    <3>4. w[x] * q + q <= w[j] * q /\ w[x] * q \in Nat /\ w[j] * q \in Nat
      BY <3>2, <3>3, NextMultiple, ProductNat
    <3> DEFINE a == w[x] * q
               b == w[j] * q
    <3>5. a >= one - T /\ a + q <= b /\ a \in Nat /\ b \in Nat
      BY <3>1, <3>4
    <3> HIDE DEF a, b
    <3>6. b >= one - T
      BY <3>2, <3>5, <1>2
    <3> QED
      BY <3>6, <1>2 DEF b, q, C, Candidates
  <2>2. PICK i \in 1 .. m : order[i] = j
    BY <1>1, <2>1
  <2>3. w[x] \in Nat /\ w[j] \in Nat
    BY <1>2, <1>6
  <2>4. ~(r < i) /\ i # r
    BY <1>1, <1>5, <2>2, <2>3
  <2>5. i \in 1 .. r - 1
    BY <1>3, <1>5, <2>4
  <2> QED
    BY <2>2, <2>5 DEF FirstOf
<1>9. P(r - 1) <= T
  <2>1. CASE r = 1
    <3>1. r - 1 = 0
      BY <2>1
    <3> QED
      BY <1>1, <3>1
  <2>2. CASE r # 1
    <3>1. r - 1 \in 1 .. last - 1
      BY <1>3, <1>4, <1>5, <2>2
    <3> QED
      BY <1>4, <3>1
  <2> QED
    BY <2>1, <2>2
<1>10. Mass(w, Larger(w, x)) <= T
  <2>1. Mass(w, Larger(w, x)) <= P(r - 1)
    BY <1>1, <1>2, <1>5, <1>7, <1>8 DEF P
  <2>2. P(r - 1) \in Nat /\ Mass(w, Larger(w, x)) \in Nat
    BY <1>1, <1>2, <1>5, <1>7
  <2> QED
    BY <1>9, <2>1, <2>2
<1>11. x \in Nucleus(w, T)
  BY <1>2, <1>6, <1>10 DEF Nucleus, Larger
<1> QED
  BY <1>4, <1>11

(* An order of the candidates that takes x before its equals. *)
LEMMA OrderFor ==
  ASSUME NEW n, NEW one, NEW w, Distributed(w, n, one), NEW T, NEW x \in Candidates(w, one, T)
  PROVE  \E order \in Descending(w, Candidates(w, one, T)) :
           \E q \in 1 .. Cardinality(Candidates(w, one, T)) :
             order[q] = x /\ \A i \in 1 .. q - 1 : order[i] \in Larger(w, x)
<1> DEFINE S == 0 .. n - 1
           C == Candidates(w, one, T)
           m == Cardinality(C)
           tie(j) == IF j = x THEN 0 ELSE j + 1
           key == [j \in C |-> (one - w[j]) * (n + 1) + tie(j)]
<1>1. DOMAIN w = S /\ IsFiniteSet(S) /\ w \in [S -> 0 .. one] /\ one \in Nat /\ n \in Nat
  BY Tokens DEF Distributed
<1>2. C \in SUBSET S
  BY <1>1 DEF Candidates
<1>3. IsFiniteSet(C)
  <2> HIDE DEF C, S
  <2> QED
    BY <1>1, <1>2, FS_Subset
<1>4. \A j \in C : w[j] \in 0 .. one /\ one - w[j] \in Nat /\ tie(j) \in 0 .. (n + 1) - 1 /\ j \in Nat
  BY <1>1, <1>2
<1> DEFINE less(j) == one - w[j]
           N == n + 1
<1> HIDE DEF C, S
<1>5. \A j \in C : key[j] = less(j) * N + tie(j) /\ less(j) * N \in Nat /\ N \in Nat
  BY <1>1, <1>4, ProductNat
<1>6. key \in [C -> Int]
  <2>1. \A j \in C : key[j] \in Int
    <3> TAKE j \in C
    <3> DEFINE p == less(j) * N
    <3>1. p \in Nat /\ tie(j) \in Nat /\ key[j] = p + tie(j)
      BY <1>4, <1>5
    <3> HIDE DEF p, key, tie
    <3> QED
      BY <3>1
  <2> QED
    BY <2>1
<1> HIDE DEF key, less, N, tie
<1>7. \A i, j \in C : key[i] = key[j] => i = j
  <2> TAKE i, j \in C
  <2> HAVE key[i] = key[j]
  <2>1. less(i) \in Nat /\ less(j) \in Nat /\ tie(i) \in 0 .. N - 1 /\ tie(j) \in 0 .. N - 1 /\ N \in Nat
    BY <1>4, <1>5 DEF less, N
  <2>2. less(i) * N + tie(i) = less(j) * N + tie(j)
    BY <1>5
  <2>3. tie(i) = tie(j)
    BY <2>1, <2>2, SamePair
  <2> QED
    BY <2>3, <1>4 DEF tie
<1>8. \A i, j \in C : key[i] < key[j] => less(i) <= less(j) /\ (less(i) = less(j) => tie(i) < tie(j))
  <2> TAKE i, j \in C
  <2> HAVE key[i] < key[j]
  <2>1. less(i) \in Nat /\ less(j) \in Nat /\ tie(i) \in 0 .. N - 1 /\ tie(j) \in 0 .. N - 1 /\ N \in Nat
    BY <1>4, <1>5 DEF less, N
  <2> DEFINE a == less(i) * N
             b == less(j) * N
  <2>2. key[i] = a + tie(i) /\ key[j] = b + tie(j) /\ a \in Nat /\ b \in Nat
    BY <1>5
  <2>3. less(j) < less(i) => b + N <= a
    BY <2>1, NextMultiple
  <2>4. less(i) = less(j) => a = b
    OBVIOUS
  <2> HIDE DEF a, b
  <2> QED
    BY <2>1, <2>2, <2>3, <2>4
<1>9. m \in Nat /\ \E f \in [1 .. m -> C] : \A i, j \in 1 .. m : i < j => key[f[i]] < key[f[j]]
  BY <1>3, <1>6, <1>7, Sorting
<1>10. PICK f \in [1 .. m -> C] : \A i, j \in 1 .. m : i < j => key[f[i]] < key[f[j]]
  BY <1>9
<1>11. \A i \in 1 .. m : f[i] \in C
  BY <1>10
<1>12. ASSUME NEW i \in 1 .. m, NEW j \in 1 .. m, i < j
       PROVE  f[i] # f[j] /\ w[f[i]] >= w[f[j]]
  <2>1. key[f[i]] < key[f[j]] /\ f[i] \in C /\ f[j] \in C
    BY <1>10, <1>11, <1>12
  <2>2. less(f[i]) <= less(f[j]) /\ key[f[i]] \in Int
    BY <1>6, <1>8, <2>1
  <2>3. w[f[i]] >= w[f[j]]
    BY <1>1, <1>4, <2>1, <2>2 DEF less
  <2>4. f[i] # f[j]
    BY <2>1, <2>2
  <2> QED
    BY <2>3, <2>4
<1>13. f \in Descending(w, C)
  <2>1. f \in [1 .. Cardinality(C) -> C] /\ DOMAIN f = 1 .. m
    BY <1>10
  <2> HIDE DEF m
  <2> QED
    BY <1>12, <2>1 DEF Descending
<1>14. PICK q \in 1 .. m : f[q] = x
  <2>1. \A i, j \in 1 .. m : i < j => f[i] # f[j]
    BY <1>12
  <2>2. x \in C
    BY DEF C
  <2>3. \A y \in C : \E i \in 1 .. m : f[i] = y
    BY <1>3, <1>10, <2>1, ListsAll
  <2> QED
    BY <2>2, <2>3
<1>15. ASSUME NEW i \in 1 .. q - 1 PROVE f[i] \in Larger(w, x)
  <2>1. i \in 1 .. m /\ i < q
    BY <1>9
  <2>2. key[f[i]] < key[x] /\ f[i] \in C /\ x \in C
    BY <1>10, <1>11, <1>14, <2>1
  <2>3. less(f[i]) <= less(x) /\ (less(f[i]) = less(x) => tie(f[i]) < tie(x))
    BY <1>8, <2>2
  <2>4. tie(x) = 0 /\ tie(f[i]) \in Nat
    BY <1>4, <2>2 DEF tie
  <2>5. less(f[i]) # less(x)
    BY <2>3, <2>4
  <2>6. w[f[i]] > w[x] /\ f[i] \in DOMAIN w
    BY <1>1, <1>2, <1>4, <2>2, <2>3, <2>5 DEF less
  <2> QED
    BY <2>6 DEF Larger
<1> QED
  BY <1>13, <1>14, <1>15 DEF C

(* Multiplying keeps the order. *)
LEMMA WeakMultiple ==
  ASSUME NEW k \in Nat, NEW m \in Nat, NEW n \in Nat, m <= n
  PROVE  m * k <= n * k /\ m * k \in Nat /\ n * k \in Nat
<1>1. m * k \in Nat /\ n * k \in Nat
  BY ProductNat
<1>2. m < n => m * k + k <= n * k
  BY NextMultiple
<1> DEFINE a == m * k
           b == n * k
<1>3. /\ a \in Nat /\ b \in Nat
      /\ m < n => a + k <= b
      /\ m = n => a = b
  BY <1>1, <1>2
<1> HIDE DEF a, b
<1>4. a <= b
  BY <1>3
<1> QED
  BY <1>1, <1>4 DEF a, b

(* Some coin, scaled to what is kept, falls on a token that is kept. *)
LEMMA CoinFor ==
  ASSUME NEW one \in Nat, NEW M \in Nat, M <= one, NEW a \in Nat, NEW b \in Nat, a < b, b <= M
  PROVE  \E coin \in 0 .. one - 1 : a * one <= coin * M /\ coin * M < b * one
<1>1. M \in Nat \ {0}
  OBVIOUS
<1> DEFINE ao == a * one
           bo == b * one
           coin == (ao + M - 1) \div M
           cm == coin * M
<1>2. ao \in Nat /\ bo \in Nat /\ ao + one <= bo
  BY ProductNat, NextMultiple
<1> HIDE DEF ao, bo
<1>3. ao + M - 1 \in Nat
  BY <1>1, <1>2
<1>4. coin \in Nat /\ ao + M - 1 = cm + ((ao + M - 1) % M) /\ (ao + M - 1) % M \in 0 .. M - 1
  <2> DEFINE x == ao + M - 1
  <2>1. x \in Nat
    BY <1>3
  <2> HIDE DEF x
  <2>2. x \div M \in Nat /\ x = (x \div M) * M + (x % M) /\ x % M \in 0 .. M - 1
    BY <1>1, <2>1, Division
  <2> QED
    BY <2>2 DEF x
<1>5. cm \in Nat
  BY <1>1, <1>4, ProductNat
<1> DEFINE e == (ao + M - 1) % M
<1> HIDE DEF coin, cm, e
<1>6. ao <= cm /\ cm < bo
  <2>1. ao + M - 1 = cm + e /\ e \in 0 .. M - 1
    BY <1>4 DEF e
  <2>2. ao <= cm
    BY <1>1, <1>2, <1>5, <2>1
  <2>3. cm <= ao + M - 1
    BY <1>1, <1>2, <1>5, <2>1
  <2> QED
    BY <1>1, <1>2, <1>5, <2>2, <2>3
<1>7. coin < one
  <2> SUFFICES ASSUME one <= coin PROVE FALSE
    BY <1>4
  <2>1. one * M <= cm
    BY <1>1, <1>4, WeakMultiple DEF cm
  <2>2. bo <= M * one
    BY WeakMultiple DEF bo
  <2>3. one * M = M * one /\ one * M \in Nat
    BY <1>1, ProductNat
  <2> DEFINE om == one * M
  <2>4. om <= cm /\ bo <= om /\ om \in Nat
    BY <2>1, <2>2, <2>3
  <2> HIDE DEF om
  <2> QED
    BY <1>2, <1>5, <1>6, <2>4
<1> QED
  BY <1>4, <1>6, <1>7 DEF ao, bo, cm

(* Of the m candidates in order, the q-th is the one that takes the sum of *)
(* the probabilities beyond some bound not above topp.                     *)
Reaching(m, order, w, one, T, q) ==
  /\ \A k \in 0 .. m : Mass(w, FirstOf(order, k)) \in 0 .. one
  /\ \A j, k \in 0 .. m : j <= k => Mass(w, FirstOf(order, j)) <= Mass(w, FirstOf(order, k))
  /\ Mass(w, FirstOf(order, q - 1)) <= T
  /\ Mass(w, FirstOf(order, q - 1)) < Mass(w, FirstOf(order, q))

(* Some coin picks x. *)
Drawn(w, one, T, order, x) ==
  \E coin \in 0 .. one - 1 : SampleTopp(w, one, T, coin, order) = x

(* The coin that samples x, which is the q-th and not beyond topp. *)
LEMMA PlaceSampled ==
  ASSUME NEW S, NEW m \in Nat \ {0}, NEW order \in [1 .. m -> S], NEW w, NEW one \in Nat,
         NEW T \in Nat, NEW q \in 1 .. m, Reaching(m, order, w, one, T, q)
  PROVE  Drawn(w, one, T, order, order[q])
<1> DEFINE P(k) == Mass(w, FirstOf(order, k))
           last == LastKept(w, order, T)
           M == MassKept(w, order, T)
           kept == KeptTokens(w, order, T)
<1>1. \A k \in 0 .. m : P(k) \in Nat /\ P(k) <= one
  BY DEF Reaching
<1>2. \A j, k \in 0 .. m : j <= k => P(j) <= P(k)
  BY DEF Reaching
<1>3. P(q - 1) <= T /\ P(q - 1) < P(q)
  BY DEF Reaching
<1>4. \A coin \in Nat : Sampling(S, m, order, w, one, T, coin)
  <2>1. \A k \in 0 .. m : Mass(w, FirstOf(order, k)) \in Nat
    BY DEF Reaching
  <2> QED
    BY <2>1, SampledToken
<1>5. /\ last \in 1 .. m
      /\ last < m => P(last) > T
      /\ kept \in [1 .. last -> S]
      /\ \A k \in 0 .. last : FirstOf(kept, k) = FirstOf(order, k)
  BY <1>4 DEF Sampling
<1>6. M = P(last)
  BY DEF MassKept
<1> HIDE DEF P, last, M, kept
<1>7. q - 1 \in 0 .. m /\ q \in 0 .. m /\ last \in 0 .. m /\ last \in Nat \ {0}
  BY <1>5
<1>8. q <= last
  <2> SUFFICES ASSUME last < q PROVE FALSE
    BY <1>7
  <2>1. last <= q - 1 /\ last < m
    BY <1>7
  <2>2. P(last) <= P(q - 1)
    BY <1>2, <1>7, <2>1
  <2> QED
    BY <1>1, <1>3, <1>5, <1>7, <2>1, <2>2
<1>9. PICK coin \in 0 .. one - 1 : P(q - 1) * one <= coin * M /\ coin * M < P(q) * one
  <2>1. P(q - 1) \in Nat /\ P(q) \in Nat /\ M \in Nat /\ M <= one /\ P(q) <= M
    BY <1>1, <1>2, <1>6, <1>7, <1>8
  <2> QED
    BY <1>3, <2>1, CoinFor
<1> DEFINE r == Sampled(w, order, one, T, coin)
<1>10. r = q
  <2>1. coin * M \in Int
    BY <1>1, <1>6, <1>7, ProductNat
  <2>2. \A k \in 1 .. last : Mass(w, FirstOf(kept, k)) = P(k) /\ Mass(w, FirstOf(kept, k)) \in Nat
    BY <1>1, <1>5, <1>7 DEF P
  <2>3. q \in 1 .. last
    BY <1>7, <1>8
  <2>4. ASSUME NEW k \in 1 .. q - 1
        PROVE  Mass(w, FirstOf(kept, k)) * one <= coin * M
    <3>1. k \in 0 .. m /\ k <= q - 1 /\ k \in 1 .. last
      BY <1>7, <2>3
    <3>2. P(k) \in Nat /\ P(q - 1) \in Nat /\ P(k) <= P(q - 1)
      BY <1>1, <1>2, <1>7, <3>1
    <3>3. P(k) * one <= P(q - 1) * one /\ P(k) * one \in Nat /\ P(q - 1) * one \in Nat
      BY <3>2, WeakMultiple
    <3> DEFINE x == P(k) * one
               y == P(q - 1) * one
               z == coin * M
    <3>4. x <= y /\ y <= z /\ x \in Nat /\ y \in Nat /\ z \in Int
      BY <1>9, <2>1, <3>3
    <3> HIDE DEF x, y, z
    <3>5. x <= z
      BY <3>4
    <3> QED
      BY <2>2, <3>1, <3>5 DEF x, z
  <2>5. Mass(w, FirstOf(kept, q)) * one > coin * M
    <3> DEFINE x == P(q) * one
               z == coin * M
    <3>1. x \in Int /\ z \in Int /\ z < x
      BY <1>1, <1>7, <1>9, <2>1, ProductNat
    <3> HIDE DEF x, z
    <3>2. x > z
      BY <3>1
    <3> QED
      BY <2>2, <2>3, <3>2 DEF x, z
  <2>6. \A k \in 1 .. last : Mass(w, FirstOf(kept, k)) \in Nat
    BY <2>2
  <2>7. FirstBeyond(w, kept, coin * M, one) = q
    BY <1>5, <1>7, <2>1, <2>3, <2>4, <2>5, <2>6, FirstUnique
  <2> QED
    BY <2>7 DEF Sampled, kept, M
<1>11. SampleTopp(w, one, T, coin, order) = order[r]
  <2>1. coin \in Nat
    BY <1>9
  <2>2. Sampling(S, m, order, w, one, T, coin)
    BY <1>4, <2>1
  <2> QED
    BY <2>2 DEF Sampling, r
<1> QED
  BY <1>9, <1>10, <1>11 DEF Drawn

(* Every token of the nucleus is sampled by some coin after some sort. *)
LEMMA NucleusSampled ==
  ASSUME NEW n, NEW one, NEW w, Distributed(w, n, one), NEW T \in 1 .. one - 1, T * n >= one,
         NEW x \in Nucleus(w, T)
  PROVE  \E order \in Descending(w, Candidates(w, one, T)) : Drawn(w, one, T, order, x)
<1> DEFINE S == 0 .. n - 1
           C == Candidates(w, one, T)
           m == Cardinality(C)
<1>1. x \in C
  BY NucleusKept
<1>2. PICK order \in Descending(w, C) : \E q \in 1 .. m :
         order[q] = x /\ \A i \in 1 .. q - 1 : order[i] \in Larger(w, x)
  BY <1>1, OrderFor
<1>3. PICK q \in 1 .. m : order[q] = x /\ \A i \in 1 .. q - 1 : order[i] \in Larger(w, x)
  BY <1>2
<1> DEFINE P(k) == Mass(w, FirstOf(order, k))
<1>4. /\ C \in SUBSET S /\ m \in Nat
      /\ order \in [1 .. m -> S]
      /\ \A k \in 0 .. m : P(k) \in 0 .. one
      /\ \A k \in 1 .. m : P(k) = P(k - 1) + w[order[k]]
      /\ \A k \in 0 .. m : FirstOf(order, k) \in SUBSET S
      /\ \A j, k \in 0 .. m : j <= k => P(j) <= P(k)
  BY <1>2, SortedCandidates
<1>5. /\ DOMAIN w = S /\ w \in [S -> Nat] /\ one \in Nat /\ n \in Nat
      /\ \A A, B \in SUBSET S : A \subseteq B => Mass(w, A) <= Mass(w, B)
      /\ \A A \in SUBSET S : Mass(w, A) \in Nat
      /\ Cardinality(S) = n
  BY Tokens DEF Distributed
<1> HIDE DEF S, C, m
<1>6. m \in Nat \ {0} /\ q - 1 \in 0 .. m /\ q \in 0 .. m
  BY <1>4
<1>7. P(q - 1) <= T
  <2>1. FirstOf(order, q - 1) \subseteq Larger(w, x)
    BY <1>3 DEF FirstOf
  <2>2. Larger(w, x) \in SUBSET S /\ FirstOf(order, q - 1) \in SUBSET S
    BY <1>4, <1>5, <1>6 DEF Larger
  <2>3. Mass(w, Larger(w, x)) <= T
    BY DEF Nucleus, Larger
  <2>4. P(q - 1) <= Mass(w, Larger(w, x)) /\ P(q - 1) \in Nat /\ Mass(w, Larger(w, x)) \in Nat
    BY <1>5, <2>1, <2>2
  <2> HIDE DEF P
  <2> QED
    BY <2>3, <2>4
<1>8. w[x] \in Nat /\ w[x] > 0
  <2>1. x \in S /\ w[x] \in Nat
    BY <1>1, <1>4, <1>5
  <2>2. w[x] * (n - 1) >= one - T
    BY <1>1, <1>5 DEF C, Candidates
  <2>3. w[x] # 0
    <3> SUFFICES ASSUME w[x] = 0 PROVE FALSE
      OBVIOUS
    <3>1. 0 * (n - 1) = 0
      BY <1>5
    <3> QED
      BY <2>2, <3>1, <1>5
  <2> QED
    BY <2>1, <2>3
<1>9. P(q - 1) < P(q)
  <2>1. P(q) = P(q - 1) + w[x] /\ P(q - 1) \in Int
    BY <1>3, <1>4, <1>6
  <2> HIDE DEF P
  <2> QED
    BY <1>8, <2>1
<1>10. Drawn(w, one, T, order, order[q])
  <2>1. T \in Nat /\ one \in Nat
    BY <1>5
  <2>2. Reaching(m, order, w, one, T, q)
    BY <1>4, <1>7, <1>9 DEF Reaching
  <2>3. order \in [1 .. m -> S]
    BY <1>4
  <2> HIDE DEF P
  <2> QED
    BY <1>6, <2>1, <2>2, <2>3, PlaceSampled
<1> QED
  BY <1>2, <1>3, <1>10 DEF C

SamplesAll(w, one, T) == Samples(w, one, T, FALSE) = Nucleus(w, T)

(* What may be sampled is the nucleus. *)
LEMMA SamplesNucleus ==
  ASSUME NEW n, NEW one, NEW w, Distributed(w, n, one), NEW T \in 1 .. one - 1, T * n >= one
  PROVE  SamplesAll(w, one, T)
<1> DEFINE C == Candidates(w, one, T)
<1>1. \A x : x \in Samples(w, one, T, FALSE) <=>
         \E coin \in 0 .. one - 1, order \in Descending(w, C) : x = SampleTopp(w, one, T, coin, order)
  <2>1. one \in Nat /\ T \in Int /\ ~(T <= 0) /\ ~(T >= one)
    BY DEF Distributed
  <2> QED
    BY <2>1 DEF Samples
<1>2. C # {}
  <2> DEFINE S == 0 .. n - 1
             V == {w[x] : x \in S}
  <2>1. IsFiniteSet(S) /\ S # {} /\ w \in [S -> Int] /\ DOMAIN w = S
    <3>1. IsFiniteSet(S) /\ w \in [S -> Nat] /\ DOMAIN w = S /\ n \in Nat /\ one \in Nat
      BY Tokens DEF Distributed
    <3>2. n # 0
      BY <3>1
    <3> QED
      BY <3>1, <3>2
  <2> HIDE DEF S
  <2>2. PICK x \in S : \A y \in S : w[y] <= w[x]
    <3> DEFINE neg == [y \in S |-> 0 - w[y]]
    <3>1. neg \in [S -> Int]
      BY <2>1
    <3>2. \E x \in S : \A y \in S : neg[x] <= neg[y]
      <4> HIDE DEF neg
      <4> QED
        BY <2>1, <3>1, ImageValues
    <3>3. PICK x \in S : \A y \in S : neg[x] <= neg[y]
      BY <3>2
    <3>4. \A y \in S : w[y] <= w[x]
      BY <2>1, <3>3
    <3> QED
      BY <3>4
  <2>3. Larger(w, x) = {}
    BY <2>1, <2>2 DEF Larger
  <2>4. Mass(w, Larger(w, x)) <= T
    BY <2>3, SumEmpty DEF Mass
  <2>5. x \in Nucleus(w, T)
    BY <2>1, <2>4 DEF Nucleus, Larger
  <2> QED
    BY <2>5, NucleusKept
<1>3. \A coin \in 0 .. one - 1 : \A order \in Descending(w, C) :
        SampleTopp(w, one, T, coin, order) \in Nucleus(w, T)
  BY <1>2, SampleInNucleus
<1>4. \A x \in Nucleus(w, T) : \E order \in Descending(w, C) : Drawn(w, one, T, order, x)
  BY NucleusSampled
<1> HIDE DEF C
<1> DEFINE X == Samples(w, one, T, FALSE)
           Y(coin, order) == SampleTopp(w, one, T, coin, order)
           coins == 0 .. one - 1
           orders == Descending(w, C)
<1>6. \A x : x \in X <=> \E coin \in coins, order \in orders : x = Y(coin, order)
  BY <1>1
<1> HIDE DEF X, Y, coins, orders
<1>7. ASSUME NEW x \in X PROVE x \in Nucleus(w, T)
  <2>1. PICK coin \in coins, order \in orders : x = Y(coin, order)
    BY <1>6, <1>7
  <2>2. SampleTopp(w, one, T, coin, order) \in Nucleus(w, T)
    BY <1>3, <2>1 DEF coins, orders
  <2> QED
    BY <2>1, <2>2 DEF Y
<1>8. ASSUME NEW x \in Nucleus(w, T) PROVE x \in X
  <2>1. PICK order \in orders : Drawn(w, one, T, order, x)
    BY <1>4, <1>8 DEF orders
  <2>2. PICK coin \in coins : SampleTopp(w, one, T, coin, order) = x
    BY <2>1 DEF Drawn, coins
  <2>3. x = Y(coin, order)
    BY <2>2 DEF Y
  <2> QED
    BY <1>6, <2>3
<1>9. X = Nucleus(w, T)
  BY <1>7, <1>8
<1> QED
  BY <1>9 DEF X, SamplesAll

(* The tokens that may be sampled are those of the smallest sets of the    *)
(* most likely tokens that exceed topp: cropping and truncating take       *)
(* nothing from them and leave nothing else, whatever qsort makes of       *)
(* equals (sample_topp), for any distribution and any topp from 1 / n on.  *)
THEOREM NucleusSmallest == AlgSpec => []NucleusIsSmallest
<1> DEFINE Inv == Of("sample") =>
                    input \in [w : Distributions, T : 0 .. One, greedy : BOOLEAN]
<1>1. AlgInit => Inv
  BY DEF AlgInit, Of
<1>2. Inv /\ [AlgNext]_algVars => Inv'
  BY DEF AlgNext, algVars, Given, Of
<1>3. Inv => NucleusIsSmallest
  <2> SUFFICES ASSUME Inv, Of("sample"), input.T \in 1 .. One - 1,
                      input.T * Cardinality(DOMAIN input.w) >= One
               PROVE  Samples(input.w, One, input.T, FALSE) = Nucleus(input.w, input.T)
    BY DEF NucleusIsSmallest
  <2> DEFINE w == input.w
             T == input.T
  <2>1. w \in Distributions
    OBVIOUS
  <2>2. PICK n \in VocabSizes : w \in [0 .. n - 1 -> 0 .. One] /\ Mass(w, 0 .. n - 1) = One
    BY <2>1 DEF Distributions
  <2>3. Distributed(w, n, One)
    BY <2>2, AlgorithmsAssumption DEF Distributed
  <2>4. T \in 1 .. One - 1 /\ T * Cardinality(DOMAIN w) >= One
    OBVIOUS
  <2> HIDE DEF w, T
  <2>5. T * n >= One
    BY <2>3, <2>4, Tokens
  <2>6. SamplesAll(w, One, T)
    BY <2>3, <2>4, <2>5, SamplesNucleus
  <2> QED
    BY <2>6 DEF SamplesAll, w, T
<1> QED
  BY <1>1, <1>2, <1>3, PTL DEF AlgSpec
=============================================================================
