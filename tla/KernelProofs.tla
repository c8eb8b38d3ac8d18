---------------------------- MODULE KernelProofs ----------------------------
(***************************************************************************)
(* Proofs about two kernels whose waves share a block's local memory: the  *)
(* epilogue of the logits GEMM (module LogitsArgmax), and the k loops of   *)
(* the tiled kernels (module Workgroup).                                   *)
(*                                                                         *)
(* The next token of a row, for any number of rows, blocks and waves, any  *)
(* vocabulary that fits the packed index, and any logits.  The invariant   *)
(* says what a block's smax and sidx are at each point of its epilogue,    *)
(* and that a row's pair is the largest of the pairs of the blocks that    *)
(* are done.  What those pairs are depends on the logits alone, and their  *)
(* order is that of value first and index second.                          *)
(***************************************************************************)
EXTENDS LogitsArgmax, Workgroup, NumberLemmas

BlockMax(b) == Max({Best(b, w) : w \in Waves})
NearColumns(b, w) == {c \in Columns(b, w) : Near(Logit(b, c), BlockMax(b))}
IndexOver(b, ws) == Min({IntMax} \cup UNION {NearColumns(b, w) : w \in ws})
BlockIndex(b) == IndexOver(b, Waves)
BlockPair(b) == Pack(BlockMax(b), BlockIndex(b))
BlocksDone(r) == {b \in Grid : BlockRow(b) = r /\ \A w \in Waves : At(b, w, "done")}

Finding == {"max", "cas", "maxed"}
Points == Finding \cup {"min", "found", "update", "done"}

TypeInv ==
  /\ shape \in Shapes
  /\ logits \in [Rows -> [0 .. N - 1 -> Values]]
  /\ pc \in [Grid -> [Waves -> Points]]
  /\ old \in [Grid -> [Waves -> Int]]
  /\ smax \in [Grid -> Int]
  /\ sidx \in [Grid -> Int]
  /\ pairs \in [Rows -> Int]

(* The waves of a block are in the same stretch between two barriers.      *)
Stretch(b) ==
  \/ \A w \in Waves : pc[b][w] \in Finding
  \/ \A w \in Waves : pc[b][w] \in {"min", "found"}
  \/ \A w \in Waves : pc[b][w] = "update"
  \/ \A w \in Waves : pc[b][w] = "done"

(* Until the first barrier smax is the best of some wave, not less than    *)
(* what a wave compares with, nor than the best of a wave that has passed. *)
MaxFound(b) ==
  \A w \in Waves :
    /\ pc[b][w] \in Finding => /\ smax[b] \in {NegInfinity} \cup {Best(b, v) : v \in Waves}
                               /\ sidx[b] = IntMax
    /\ pc[b][w] = "cas" => old[b][w] <= smax[b]
    /\ pc[b][w] = "maxed" => Best(b, w) <= smax[b]

(* After it smax is the block's maximum, and sidx the first near column of *)
(* the waves that have looked.                                             *)
IndexFound(b) ==
  \A w \in Waves :
    /\ pc[b][w] \in {"min", "found"} =>
         smax[b] = BlockMax(b) /\ sidx[b] = IndexOver(b, {v \in Waves : pc[b][v] = "found"})
    /\ pc[b][w] = "update" => smax[b] = BlockMax(b) /\ sidx[b] = BlockIndex(b)

BlockInv == \A b \in Grid : BlockRow(b) \in Rows => Stretch(b) /\ MaxFound(b) /\ IndexFound(b)
RowInv == \A r \in Rows : pairs[r] = Max({Pack(NegInfinity, N)} \cup {BlockPair(b) : b \in BlocksDone(r)})
Idle == \A b \in Grid, w \in Waves : BlockRow(b) >= M => pc[b][w] = "done"

IInv == TypeInv /\ BlockInv /\ RowInv /\ Idle

TileColumns(k) == {c \in 0 .. N - 1 : TileOf(c) = k}
-----------------------------------------------------------------------------
LEMMA Sizes ==
  ASSUME TypeInv
  PROVE  /\ M \in Nat \ {0} /\ N \in 1 .. Magnitude - 2
         /\ Values \in SUBSET (2 - Magnitude .. Magnitude - 1)
         /\ Magnitude \in Nat /\ G \in Nat \ {0} /\ WN \in Nat \ {0}
         /\ WavesN \in Nat \ {0} /\ 0 \in Waves
         /\ BN \in Nat \ {0}
<1>1. G \in Nat \ {0} /\ WavesN \in Nat \ {0} /\ WN \in Nat \ {0} /\ Magnitude \in Nat \ {0}
  BY ArgmaxAssumption
<1>2. \A k, l \in Nat \ {0} : k * l \in Nat \ {0}
  OBVIOUS
<1>3. BN \in Nat \ {0}
  BY <1>1, <1>2 DEF BN
<1>4. 0 \in Waves
  BY <1>1 DEF Waves
<1>5. M \in Nat \ {0} /\ N \in 1 .. Magnitude - 2 /\ Values \in SUBSET (2 - Magnitude .. Magnitude - 1)
  <2>1. shape \in Shapes
    BY DEF TypeInv
  <2> QED
    BY <2>1, ArgmaxAssumption DEF M, N, Values
<1> QED
  BY <1>1, <1>3, <1>4, <1>5

(* The columns from 0 to N - 1 are those of the tiles from 0 to            *)
(* ColumnBlocks - 1, none of which is empty.                               *)
LEMMA TilesCover ==
  ASSUME TypeInv
  PROVE  /\ ColumnBlocks \in Nat
         /\ \A c \in 0 .. N - 1 : TileOf(c) \in 0 .. ColumnBlocks - 1
         /\ \A k \in 0 .. ColumnBlocks - 1 : TileColumns(k) # {}
<1>1. BN \in Nat \ {0} /\ N \in Nat \ {0}
  BY Sizes
<1> DEFINE q == ColumnBlocks
           e == (N + BN - 1) % BN
<1>2. q \in Nat /\ e \in 0 .. BN - 1 /\ N + BN - 1 = q * BN + e
  <2>1. N + BN - 1 \in Nat
    BY <1>1
  <2> QED
    BY <1>1, <2>1, Division DEF ColumnBlocks
<1> HIDE DEF q, e
<1>3. ASSUME NEW c \in 0 .. N - 1 PROVE TileOf(c) \in 0 .. q - 1
  <2> DEFINE k == TileOf(c)
  <2>1. k \in Nat /\ c % BN \in Nat /\ c = k * BN + (c % BN) /\ k * BN \in Nat
    BY <1>1, Division, ProductNat DEF TileOf
  <2> HIDE DEF k
  <2>2. SUFFICES ASSUME q <= k PROVE FALSE
    BY <1>2, <2>1 DEF k
  <2>3. q * BN \in Nat /\ q * BN <= k * BN
    <3>1. CASE q = k
      BY <2>1, <3>1
    <3>2. CASE q < k
      BY <1>1, <1>2, <2>1, <3>2, NextMultiple, ProductNat
    <3> QED
      BY <1>2, <2>1, <2>2, <3>1, <3>2
  <2> QED
    BY <1>1, <1>2, <2>1, <2>3
<1>4. ASSUME NEW k \in 0 .. q - 1 PROVE TileColumns(k) # {}
  <2>1. k \in Nat /\ k < q
    BY <1>2
  <2>2. k * BN + BN <= q * BN /\ k * BN \in Nat /\ q * BN \in Nat
    BY <1>1, <1>2, <2>1, NextMultiple, ProductNat
  <2>3. k * BN + 0 \in 0 .. N - 1
    BY <1>1, <1>2, <2>2
  <2>4. TileOf(k * BN + 0) = k
    BY <1>1, <2>1, DivisionUnique DEF TileOf
  <2> QED
    BY <2>3, <2>4 DEF TileColumns
<1> QED
  BY <1>2, <1>3, <1>4 DEF q

(* The swizzle meets every tile of every row. *)
LEMMA GridCovers ==
  ASSUME TypeInv
  PROVE  /\ \A b \in Grid : /\ b \in Nat /\ BlockRow(b) \in Nat
                            /\ BlockColumn(b) \in 0 .. ColumnBlocks - 1
         /\ \A r \in Rows, k \in 0 .. ColumnBlocks - 1 :
              \E b \in Grid : BlockRow(b) = r /\ BlockColumn(b) = k
<1> DEFINE C == ColumnBlocks
           S == G * C
<1>1. G \in Nat \ {0} /\ M \in Nat \ {0} /\ C \in Nat \ {0}
  <2>1. \E c \in 0 .. N - 1 : TRUE
    BY Sizes
  <2> QED
    BY <2>1, Sizes, TilesCover
<1>2. S \in Nat \ {0}
  <2>1. \A k, l \in Nat \ {0} : k * l \in Nat \ {0}
    OBVIOUS
  <2> QED
    BY <1>1, <2>1
<1>3. \A g \in Nat : g * G * C = g * S /\ g * S \in Nat
  <2>1. \A g \in Nat : g * G * C = g * (G * C)
    BY <1>1
  <2> QED
    BY <1>2, <2>1, ProductNat
<1> DEFINE q == (M + G - 1) \div G
           e == (M + G - 1) % G
<1>4. q \in Nat /\ e \in 0 .. G - 1 /\ M + G - 1 = q * G + e /\ RowsUp = q * G
  <2>1. M + G - 1 \in Nat
    BY <1>1
  <2> QED
    BY <1>1, <2>1, Division DEF RowsUp
<1>5. C * RowsUp = q * S
  <2>1. C * (q * G) = q * (G * C)
    BY <1>1, <1>4
  <2> QED
    BY <1>4, <2>1
<1> HIDE DEF S, q, e
<1>6. ASSUME NEW b \in Grid
      PROVE  b \in Nat /\ BlockRow(b) \in Nat /\ BlockColumn(b) \in 0 .. C - 1
  <2>1. b \in Nat
    BY <1>2, <1>3, <1>4, <1>5 DEF Grid
  <2>2. Group(b) \in Nat /\ InGroup(b) \in 0 .. S - 1
    <3>1. Group(b) = b \div S
      BY DEF Group, S
    <3>2. Group(b) \in Nat /\ b % S \in 0 .. S - 1 /\ b = Group(b) * S + (b % S)
      BY <1>2, <2>1, <3>1, Division
    <3>3. InGroup(b) = b - Group(b) * S
      BY <1>3, <3>2 DEF InGroup
    <3> QED
      BY <1>3, <3>2, <3>3
  <2> DEFINE i == InGroup(b)
  <2>3. i \in Nat /\ i \div G \in Nat /\ i % G \in 0 .. G - 1 /\ i = (i \div G) * G + (i % G)
        /\ i < S
    <3>1. i \in Nat /\ i < S
      BY <1>2, <2>2
    <3> QED
      BY <1>1, <3>1, Division
  <2>4. BlockRow(b) \in Nat
    <3>1. Group(b) * G \in Nat
      BY <1>1, <2>2, ProductNat
    <3>2. InGroup(b) % G \in Nat
      BY <1>1, <2>3
    <3> HIDE DEF i
    <3> QED
      BY <3>1, <3>2 DEF BlockRow
  <2>5. i \div G < C
    <3> DEFINE k == i \div G
               p == k * G
               rest == i % G
    <3>1. k \in Nat /\ i \in Nat /\ rest \in Nat /\ i = p + rest /\ i < S
      BY <1>1, <2>3
    <3> HIDE DEF k, i, rest
    <3>2. p \in Nat
      BY <1>1, <3>1, ProductNat
    <3>3. p <= i
      <4> HIDE DEF p
      <4> QED
        BY <3>1, <3>2
    <3>4. C * G = S
      BY <1>1 DEF S
    <3>5. ASSUME C < k PROVE FALSE
      <4>1. C * G + G <= p /\ C * G \in Nat
        BY <1>1, <3>1, <3>5, NextMultiple, ProductNat
      <4> HIDE DEF p
      <4> QED
        BY <1>1, <3>1, <3>2, <3>3, <3>4, <4>1
    <3>6. ASSUME C = k PROVE FALSE
      <4>1. p = S
        BY <3>4, <3>6
      <4> HIDE DEF p
      <4> QED
        BY <1>2, <3>1, <3>2, <3>3, <4>1
    <3> QED
      BY <1>1, <3>1, <3>5, <3>6 DEF k
  <2> QED
    BY <1>1, <2>1, <2>3, <2>4, <2>5 DEF BlockColumn
<1>7. ASSUME NEW r \in Rows, NEW k \in 0 .. C - 1
      PROVE  \E b \in Grid : BlockRow(b) = r /\ BlockColumn(b) = k
  <2> DEFINE g == r \div G
             i == r % G
             x == k * G + i
             b == g * S + x
  <2>1. r \in Nat /\ r < M /\ k \in Nat /\ k < C
    BY <1>1 DEF Rows
  <2>2. g \in Nat /\ i \in 0 .. G - 1 /\ i \in Nat /\ r = g * G + i /\ g * G \in Nat
    <3>1. g \in Nat /\ i \in 0 .. G - 1 /\ r = g * G + i
      BY <1>1, <2>1, Division
    <3> HIDE DEF g, i
    <3>2. g * G \in Nat
      BY <1>1, <3>1, ProductNat
    <3> QED
      BY <1>1, <3>1, <3>2
  <2> HIDE DEF g, i
  <2>3. x \in Nat /\ x < S /\ x \div G = k /\ x % G = i
    <3>1. k * G + G <= C * G /\ k * G \in Nat /\ C * G = S
      BY <1>1, <2>1, NextMultiple, ProductNat DEF S
    <3>2. x \div G = k /\ x % G = i
      BY <1>1, <2>1, <2>2, DivisionUnique
    <3>3. x \in Nat /\ x < S
      BY <1>1, <1>2, <2>2, <3>1
    <3> QED
      BY <3>2, <3>3
  <2> HIDE DEF x
  <2>4. b \in Nat /\ Group(b) = g /\ InGroup(b) = x
    <3>1. b \div S = g /\ g * S \in Nat
      BY <1>2, <1>3, <2>2, <2>3, DivisionUnique
    <3>2. Group(b) = g
      BY <3>1 DEF Group, S
    <3>3. InGroup(b) = b - g * S
      BY <1>3, <2>2, <3>2 DEF InGroup
    <3> QED
      BY <2>3, <3>1, <3>2, <3>3
  <2>5. b < C * RowsUp
    <3>1. g < q
      <4>1. SUFFICES ASSUME q <= g PROVE FALSE
        BY <1>4, <2>2
      <4>2. q * G \in Nat /\ q * G <= g * G
        <5>1. CASE q = g
          BY <2>2, <5>1
        <5>2. CASE q < g
          BY <1>1, <1>4, <2>2, <5>2, NextMultiple, ProductNat
        <5> QED
          BY <1>4, <2>2, <4>1, <5>1, <5>2
      <4> QED
        BY <1>1, <1>4, <2>1, <2>2, <4>2
    <3>2. g * S + S <= q * S /\ g * S \in Nat /\ q * S \in Nat
      BY <1>2, <1>4, <2>2, <3>1, NextMultiple, ProductNat
    <3> QED
      BY <1>2, <1>5, <2>3, <3>2
  <2>6. BlockRow(b) = r /\ BlockColumn(b) = k
    BY <2>2, <2>3, <2>4 DEF BlockRow, BlockColumn
  <2>7. b \in Grid
    <3>1. C * RowsUp \in Nat
      BY <1>2, <1>4, <1>5, ProductNat
    <3> HIDE DEF b
    <3> QED
      BY <2>4, <2>5, <3>1 DEF Grid
  <2> QED
    BY <2>6, <2>7
<1> QED
  BY <1>6, <1>7

(* The columns of a block's waves are those of its tile. *)
LEMMA WavesCover ==
  ASSUME TypeInv, NEW b \in Grid
  PROVE  /\ \A c : c \in TileColumns(BlockColumn(b)) <=> \E w \in Waves : c \in Columns(b, w)
         /\ \A w \in Waves : Columns(b, w) \in SUBSET (0 .. N - 1) /\ IsFiniteSet(Columns(b, w))
<1> DEFINE k == BlockColumn(b)
           p == k * BN
<1>1. /\ WN \in Nat \ {0} /\ WavesN \in Nat /\ BN \in Nat \ {0} /\ N \in Nat \ {0}
      /\ BN = WavesN * WN /\ 0 \in Waves
  BY Sizes DEF BN
<1>2. k \in Nat /\ p \in Nat
  <2>1. k \in Nat
    BY GridCovers, TilesCover
  <2> HIDE DEF k
  <2> QED
    BY <1>1, <2>1, ProductNat
<1>3. \A w \in Waves : /\ WN * w = w * WN /\ w * WN \in Nat
                       /\ w * WN + WN <= BN
                       /\ Columns(b, w) = {c \in p + w * WN .. p + w * WN + WN - 1 : c < N}
  <2> SUFFICES ASSUME NEW w \in Waves
               PROVE  /\ WN * w = w * WN /\ w * WN \in Nat
                      /\ w * WN + WN <= BN
                      /\ Columns(b, w) = {c \in p + w * WN .. p + w * WN + WN - 1 : c < N}
    OBVIOUS
  <2>1. w \in Nat /\ w < WavesN
    BY <1>1 DEF Waves
  <2>2. WN * w = w * WN
    BY <1>1, <2>1
  <2>3. w * WN \in Nat /\ w * WN + WN <= WavesN * WN
    BY <1>1, <2>1, NextMultiple, ProductNat
  <2>4. Columns(b, w) = {c \in p + w * WN .. p + w * WN + WN - 1 : c < N}
    BY <2>2 DEF Columns
  <2> QED
    BY <1>1, <2>2, <2>3, <2>4
<1> HIDE DEF p, k
<1>4. ASSUME NEW c, NEW w \in Waves, c \in Columns(b, w) PROVE c \in TileColumns(k)
  <2> DEFINE i == c - p
  <2>1. c \in Int /\ i \in 0 .. BN - 1 /\ c = p + i /\ c < N
    <3>1. PICK x \in Nat : x = w * WN /\ x + WN <= BN
      BY <1>3
    <3>2. c \in p + x .. p + x + WN - 1 /\ c < N
      BY <1>3, <1>4, <3>1
    <3> QED
      BY <1>1, <1>2, <3>1, <3>2
  <2> HIDE DEF i
  <2>2. c \div BN = k
    BY <1>1, <1>2, <2>1, DivisionUnique DEF p
  <2> QED
    BY <1>1, <1>2, <2>1, <2>2 DEF TileColumns, TileOf
<1>5. ASSUME NEW c \in TileColumns(k) PROVE \E w \in Waves : c \in Columns(b, w)
  <2> DEFINE i == c % BN
             w == i \div WN
             j == i % WN
  <2>1. i \in 0 .. BN - 1 /\ c = p + i /\ c \in 0 .. N - 1
    <3>1. c \in 0 .. N - 1 /\ c \div BN = k
      BY DEF TileColumns, TileOf
    <3>2. c \in Nat /\ BN \in Nat \ {0}
      BY <1>1, <3>1
    <3>3. i \in 0 .. BN - 1 /\ c = (c \div BN) * BN + i
      BY <3>2, Division
    <3> HIDE DEF i
    <3> QED
      BY <3>1, <3>3 DEF p
  <2> HIDE DEF i
  <2>2. w \in Nat /\ j \in 0 .. WN - 1 /\ i = w * WN + j
    <3>1. i \in Nat
      BY <1>1, <2>1
    <3> QED
      BY <1>1, <3>1, Division
  <2> HIDE DEF w, j
  <2>3. w * WN \in Nat
    BY <1>1, <2>2, ProductNat
  <2>4. w \in Waves
    <3>1. SUFFICES ASSUME WavesN <= w PROVE FALSE
      BY <1>1, <2>2 DEF Waves
    <3>2. BN <= w * WN
      <4>1. CASE WavesN = w
        BY <1>1, <2>3, <4>1
      <4>2. CASE WavesN < w
        <5>1. WavesN * WN + WN <= w * WN
          BY <1>1, <2>2, <4>2, NextMultiple
        <5> QED
          BY <1>1, <2>3, <5>1
      <4> QED
        BY <1>1, <2>2, <3>1, <4>1, <4>2
    <3> QED
      BY <1>1, <2>1, <2>2, <2>3, <3>2
  <2>5. c \in p + w * WN .. p + w * WN + WN - 1 /\ c < N
    BY <1>1, <1>2, <2>1, <2>2, <2>3
  <2> QED
    BY <1>3, <2>4, <2>5
<1>6. ASSUME NEW w \in Waves
      PROVE  Columns(b, w) \in SUBSET (0 .. N - 1) /\ IsFiniteSet(Columns(b, w))
  <2>1. Columns(b, w) \in SUBSET (0 .. N - 1)
    BY <1>4 DEF TileColumns
  <2>2. IsFiniteSet(0 .. N - 1)
    BY <1>1, FS_Interval
  <2> QED
    BY <2>1, <2>2, FS_Subset
<1> QED
  BY <1>4, <1>5, <1>6 DEF k

(* What is to be read in a block whose row exists. *)
LEMMA BestOfWave ==
  ASSUME TypeInv, NEW b \in Grid, BlockRow(b) \in Rows, NEW w \in Waves
  PROVE  /\ Best(b, w) \in {Logit(b, c) : c \in Columns(b, w)} \cup {NegInfinity}
         /\ Best(b, w) \in Int /\ Best(b, w) >= NegInfinity
         /\ \A c \in Columns(b, w) : Logit(b, c) \in Int /\ Best(b, w) >= Logit(b, c)
<1> DEFINE S == {Logit(b, c) : c \in Columns(b, w)}
           X == S \cup {NegInfinity}
<1>1. NegInfinity \in Int /\ \A v \in Values : v \in Int /\ v > NegInfinity
  BY Sizes DEF NegInfinity
<1>2. \A c \in Columns(b, w) : Logit(b, c) \in Values
  <2>1. Columns(b, w) \in SUBSET (0 .. N - 1)
    BY WavesCover
  <2> QED
    BY <2>1 DEF TypeInv, Logit
<1>3. IsFiniteSet(S)
  <2>1. IsFiniteSet(Columns(b, w))
    BY WavesCover
  <2> DEFINE f == [c \in Columns(b, w) |-> Logit(b, c)]
  <2>2. f \in Surjection(Columns(b, w), S)
    BY DEF Surjection
  <2> QED
    BY <2>1, <2>2, FS_Surjection
<1>4. X \in SUBSET Int /\ IsFiniteSet(X) /\ X # {} /\ NegInfinity \in X
  BY <1>1, <1>2, <1>3, FS_Singleton, FS_Union
<1>5. Max(X) \in X /\ \A y \in X : Max(X) >= y
  BY <1>4, LargestNumber
<1>6. Best(b, w) = Max(X)
  BY DEF Best
<1> HIDE DEF X
<1>7. \A c \in Columns(b, w) : Logit(b, c) \in X
  BY DEF X
<1> QED
  BY <1>4, <1>5, <1>6, <1>7 DEF X

LEMMA BlockMaximum ==
  ASSUME TypeInv, NEW b \in Grid, BlockRow(b) \in Rows
  PROVE  /\ BlockMax(b) \in Int /\ BlockMax(b) >= NegInfinity
         /\ \E w \in Waves : BlockMax(b) = Best(b, w)
         /\ \A w \in Waves : Best(b, w) <= BlockMax(b)
<1> DEFINE f == [w \in Waves |-> Best(b, w)]
           V == {Best(b, w) : w \in Waves}
<1>1. 0 \in Waves /\ IsFiniteSet(Waves)
  BY Sizes, FS_Interval DEF Waves
<1>2. \A w \in Waves : Best(b, w) \in Int /\ Best(b, w) >= NegInfinity
  BY BestOfWave
<1>3. f \in Surjection(Waves, V)
  BY DEF Surjection
<1>4. IsFiniteSet(V) /\ V \in SUBSET Int /\ V # {}
  BY <1>1, <1>2, <1>3, FS_Surjection
<1>5. Max(V) \in V /\ \A y \in V : Max(V) >= y
  BY <1>4, LargestNumber
<1>6. BlockMax(b) = Max(V)
  BY DEF BlockMax
<1> QED
  BY <1>2, <1>5, <1>6

(* The indexes of a block, in the order in which its waves may find them. *)
LEMMA Indexes ==
  ASSUME TypeInv, NEW b \in Grid, BlockRow(b) \in Rows, NEW ws \in SUBSET Waves
  PROVE  LET X == {IntMax} \cup UNION {NearColumns(b, w) : w \in ws}
         IN  /\ IsFiniteSet(X) /\ X \in SUBSET Int /\ X # {}
             /\ IndexOver(b, ws) \in X /\ \A y \in X : IndexOver(b, ws) <= y
<1> DEFINE X == {IntMax} \cup UNION {NearColumns(b, w) : w \in ws}
<1>1. IntMax \in Int /\ N \in Nat
  BY Sizes DEF IntMax
<1>2. \A w \in ws : NearColumns(b, w) \in SUBSET (0 .. N - 1)
  BY WavesCover DEF NearColumns
<1>3. X \in SUBSET ((0 .. N - 1) \cup {IntMax}) /\ X # {}
  BY <1>2
<1>4. IsFiniteSet(X)
  <2>1. IsFiniteSet(0 .. N - 1) /\ IsFiniteSet({IntMax})
    <3>1. 0 \in Int /\ N - 1 \in Int
      BY <1>1
    <3>2. IsFiniteSet(0 .. N - 1)
      BY <3>1, FS_Interval
    <3> QED
      BY <3>2, FS_Singleton
  <2>2. IsFiniteSet((0 .. N - 1) \cup {IntMax})
    BY <2>1, FS_Union
  <2> QED
    BY <1>3, <2>2, FS_Subset
<1>5. X \in SUBSET Int
  BY <1>1, <1>3
<1>6. Min(X) \in X /\ \A y \in X : Min(X) <= y
  BY <1>3, <1>4, <1>5, SmallestNumber
<1>7. IndexOver(b, ws) = Min(X)
  BY DEF IndexOver
<1> QED
  BY <1>3, <1>4, <1>5, <1>6, <1>7

(* What a block contributes depends on the logits of its tile alone: their *)
(* maximum, and the first column that is near it.                          *)
LEMMA BlockResult ==
  ASSUME TypeInv, NEW b \in Grid, BlockRow(b) \in Rows
  PROVE  LET r == BlockRow(b)
             T == TileColumns(BlockColumn(b))
         IN  /\ \A c \in T : logits[r][c] <= BlockMax(b)
             /\ \E c \in T : logits[r][c] = BlockMax(b)
             /\ BlockIndex(b) \in T /\ Near(logits[r][BlockIndex(b)], BlockMax(b))
             /\ \A c \in T : Near(logits[r][c], BlockMax(b)) => BlockIndex(b) <= c
<1> DEFINE r == BlockRow(b)
           T == TileColumns(BlockColumn(b))
           m == BlockMax(b)
           X == {IntMax} \cup UNION {NearColumns(b, w) : w \in Waves}
<1>1. T # {} /\ T \in SUBSET (0 .. N - 1)
  BY GridCovers, TilesCover DEF TileColumns
<1>2. \A c : c \in T <=> \E w \in Waves : c \in Columns(b, w)
  BY WavesCover
<1>3. \A c \in T : logits[r][c] \in Int /\ logits[r][c] > NegInfinity
  <2>1. \A c \in T : logits[r][c] \in Values
    BY <1>1 DEF TypeInv
  <2>2. \A v \in Values : v \in Int /\ v > NegInfinity
    BY Sizes DEF NegInfinity
  <2> QED
    BY <2>1, <2>2
<1>4. ASSUME NEW c \in T PROVE logits[r][c] <= m
  <2>1. PICK w \in Waves : c \in Columns(b, w)
    BY <1>2
  <2>2. logits[r][c] <= Best(b, w) /\ Best(b, w) \in Int
    BY <1>3, <2>1, BestOfWave DEF Logit
  <2> QED
    BY <1>3, <2>2, BlockMaximum
<1>5. PICK c \in T : logits[r][c] = m
  <2>1. m > NegInfinity
    <3>1. PICK c \in T : TRUE
      BY <1>1
    <3> QED
      BY <1>3, <1>4, <3>1, BlockMaximum, Sizes DEF NegInfinity
  <2>2. PICK w \in Waves : m = Best(b, w)
    BY BlockMaximum
  <2>3. PICK c \in Columns(b, w) : m = Logit(b, c)
    BY <2>1, <2>2, BestOfWave, BlockMaximum, Sizes DEF NegInfinity
  <2> QED
    BY <1>2, <2>3 DEF Logit
<1>6. \A x : x \in UNION {NearColumns(b, w) : w \in Waves} <=> x \in T /\ Near(logits[r][x], m)
  BY <1>2 DEF NearColumns, Logit
<1>7. Near(logits[r][c], m)
  <2>1. m \in Int /\ m - m = 0 /\ Abs(0) = 0 /\ Tolerance * 0 = 0
    BY BlockMaximum, ArgmaxAssumption DEF Abs
  <2>2. Abs(m) \in Nat
    BY <2>1 DEF Abs
  <2> QED
    BY <1>5, <2>1, <2>2 DEF Near, Larger
<1>8. c \in X /\ c < IntMax /\ c \in Int
  BY <1>1, <1>5, <1>6, <1>7, Sizes DEF IntMax
<1>9. BlockIndex(b) \in X /\ \A y \in X : BlockIndex(b) <= y
  BY Indexes DEF BlockIndex
<1>10. BlockIndex(b) # IntMax
  BY <1>8, <1>9, Sizes DEF IntMax
<1> QED
  BY <1>4, <1>5, <1>6, <1>9, <1>10

(* Tiles lie side by side. *)
LEMMA TileOrder ==
  ASSUME TypeInv, NEW c \in Nat, NEW d \in Nat, TileOf(c) < TileOf(d)
  PROVE  c < d
<1> DEFINE k == TileOf(c)
           l == TileOf(d)
<1>0. BN \in Nat \ {0}
  BY Sizes
<1>1. /\ k \in Nat /\ c % BN \in 0 .. BN - 1 /\ c = k * BN + (c % BN)
      /\ l \in Nat /\ d % BN \in 0 .. BN - 1 /\ d = l * BN + (d % BN)
  BY <1>0, Division DEF TileOf
<1> HIDE DEF k, l
<1>2. k < l
  BY DEF k, l
<1>3. k * BN + BN <= l * BN /\ k * BN \in Nat /\ l * BN \in Nat
  BY <1>0, <1>1, <1>2, NextMultiple, ProductNat
<1> QED
  BY <1>0, <1>1, <1>3

(* Packed pairs are ordered by value and, from equal values, the smaller   *)
(* index is the larger pair.                                               *)
LEMMA Packing ==
  ASSUME NEW u \in NegInfinity .. IntMax, NEW v \in NegInfinity .. IntMax,
         NEW i \in 0 .. IntMax, NEW j \in 0 .. IntMax
  PROVE  /\ Pack(u, i) \in Nat /\ UnpackIndex(Pack(u, i)) = i
         /\ u < v => Pack(u, i) < Pack(v, j)
         /\ i < j => Pack(u, j) < Pack(u, i)
<1> DEFINE bits(x) == IF x < 0 THEN Magnitude - 1 + x ELSE x + Magnitude
           low(x) == Magnitude - 1 - x
<1>0. Magnitude \in Nat \ {0} /\ u \in Int /\ v \in Int
  BY ArgmaxAssumption DEF NegInfinity, IntMax
<1>1. \A x \in NegInfinity .. IntMax : OrderPreservingBits(x) = bits(x) /\ bits(x) \in Nat
  BY <1>0 DEF OrderPreservingBits, Bits, NegInfinity, IntMax
<1>2. u < v => bits(u) < bits(v)
  BY <1>0
<1>3. low(i) \in 0 .. Magnitude - 1 /\ low(j) \in 0 .. Magnitude - 1 /\ (i < j => low(j) < low(i))
      /\ Magnitude - 1 - low(i) = i
  BY <1>0 DEF IntMax
<1>4. PICK p \in Nat, q \in Nat, x \in 0 .. Magnitude - 1, y \in 0 .. Magnitude - 1 :
        p = bits(u) /\ q = bits(v) /\ x = low(i) /\ y = low(j)
  BY <1>1, <1>3
<1>5. Pack(u, i) = p * Magnitude + x /\ Pack(u, j) = p * Magnitude + y
      /\ Pack(v, j) = q * Magnitude + y
  BY <1>1, <1>4 DEF Pack
<1> HIDE DEF bits, low
<1>6. p * Magnitude \in Nat /\ q * Magnitude \in Nat
  BY <1>0, ProductNat
<1>7. (p * Magnitude + x) % Magnitude = x
  BY <1>0, DivisionUnique
<1>8. ASSUME u < v PROVE Pack(u, i) < Pack(v, j)
  <2>1. p * Magnitude + Magnitude <= q * Magnitude
    BY <1>0, <1>2, <1>4, <1>8, NextMultiple
  <2> QED
    BY <1>0, <1>5, <1>6, <2>1
<1>9. ASSUME i < j PROVE Pack(u, j) < Pack(u, i)
  <2>1. y < x
    BY <1>3, <1>4, <1>9
  <2> QED
    BY <1>5, <1>6, <2>1
<1>10. UnpackIndex(Pack(u, i)) = i
  <2>1. Pack(u, i) % Magnitude = x
    BY <1>5, <1>7
  <2> QED
    BY <1>3, <1>4, <2>1 DEF UnpackIndex
<1> QED
  BY <1>0, <1>5, <1>6, <1>8, <1>9, <1>10

LEMMA ResultRange ==
  ASSUME TypeInv, NEW b \in Grid, BlockRow(b) \in Rows
  PROVE  BlockMax(b) \in NegInfinity .. IntMax /\ BlockIndex(b) \in 0 .. IntMax
<1> DEFINE T == TileColumns(BlockColumn(b))
<1>1. T \in SUBSET (0 .. N - 1) /\ N \in Nat /\ N < IntMax /\ IntMax \in Int
  BY Sizes DEF TileColumns, IntMax
<1>2. PICK c \in T : logits[BlockRow(b)][c] = BlockMax(b)
  BY BlockResult
<1>3. BlockMax(b) \in Values
  BY <1>1, <1>2 DEF TypeInv
<1>4. BlockIndex(b) \in T
  BY BlockResult
<1> QED
  BY <1>1, <1>3, <1>4, Sizes DEF NegInfinity, IntMax

(* When all blocks are done, the pair of a row is that of the first tile   *)
(* with the row's largest logit.                                           *)
LEMMA TokenOfRow ==
  ASSUME TypeInv, RowInv, Done, NEW r \in Rows
  PROVE  Out(r) = FirstNear(r)
<1> DEFINE C == 0 .. N - 1
           V == {logits[r][c] : c \in C}
           most == Largest(C, r)
           peaks == {c \in C : logits[r][c] = most}
           first == Min(peaks)
           k == TileOf(first)
           X == {Pack(NegInfinity, N)} \cup {BlockPair(b) : b \in BlocksDone(r)}
<1>1. N \in Nat \ {0} /\ N < IntMax /\ IntMax \in Int /\ NegInfinity \in Int /\ NegInfinity < 0
      /\ IntMax > 0
  BY Sizes DEF IntMax, NegInfinity
<1>2. \A c \in C : logits[r][c] \in NegInfinity + 1 .. IntMax
  <2>1. \A c \in C : logits[r][c] \in Values
    BY DEF TypeInv
  <2> QED
    BY <2>1, Sizes DEF NegInfinity, IntMax
<1>3. most \in V /\ \A c \in C : logits[r][c] <= most
  <2> DEFINE f == [c \in C |-> logits[r][c]]
  <2>1. IsFiniteSet(C) /\ 0 \in C
    <3>1. 0 \in Int /\ N - 1 \in Int
      BY <1>1
    <3> QED
      BY <1>1, <3>1, FS_Interval
  <2>2. f \in Surjection(C, V)
    BY DEF Surjection
  <2>3. IsFiniteSet(V) /\ V \in SUBSET Int /\ V # {}
    BY <1>1, <1>2, <2>1, <2>2, FS_Surjection
  <2>4. Max(V) \in V /\ \A x \in V : Max(V) >= x
    BY <2>3, LargestNumber
  <2>5. most = Max(V)
    BY DEF Largest
  <2> QED
    BY <1>1, <1>2, <2>4, <2>5
<1>4. most \in NegInfinity + 1 .. IntMax
  BY <1>2, <1>3
<1>5. first \in peaks /\ \A c \in peaks : first <= c
  <2>1. peaks \in SUBSET Nat /\ peaks # {}
    BY <1>1, <1>3
  <2> QED
    BY <2>1, LeastNumber DEF Min
<1> HIDE DEF most, first
<1>6. k \in 0 .. ColumnBlocks - 1 /\ ColumnBlocks \in Nat
  BY <1>5, TilesCover
<1>7. PICK best \in Grid : BlockRow(best) = r /\ BlockColumn(best) = k
  BY <1>6, GridCovers
<1>8. BlocksDone(r) = {b \in Grid : BlockRow(b) = r}
  BY DEF BlocksDone, Done
<1>9. ASSUME NEW b \in Grid, BlockRow(b) = r
      PROVE  /\ BlockMax(b) \in NegInfinity + 1 .. IntMax
             /\ BlockIndex(b) \in C /\ TileOf(BlockIndex(b)) = BlockColumn(b)
             /\ BlockIndex(b) \in 0 .. IntMax
             /\ BlockMax(b) <= most
             /\ BlockMax(b) = most => BlockColumn(b) >= k
             /\ BlockColumn(b) = k => BlockMax(b) = most
  <2> DEFINE T == TileColumns(BlockColumn(b))
  <2>1. /\ \A c \in T : logits[r][c] <= BlockMax(b)
        /\ \E c \in T : logits[r][c] = BlockMax(b)
        /\ BlockIndex(b) \in T
    BY <1>9, BlockResult
  <2>2. T \in SUBSET C /\ \A c \in T : TileOf(c) = BlockColumn(b)
    BY DEF TileColumns
  <2>3. PICK c \in T : logits[r][c] = BlockMax(b)
    BY <2>1
  <2>4. BlockMax(b) \in NegInfinity + 1 .. IntMax /\ BlockMax(b) <= most
    BY <1>2, <1>3, <2>2, <2>3
  <2>5. ASSUME BlockMax(b) = most, BlockColumn(b) < k PROVE FALSE
    <3>1. c \in peaks /\ TileOf(c) < TileOf(first)
      BY <2>2, <2>3, <2>5
    <3>2. c < first
      BY <1>1, <1>5, <3>1, TileOrder
    <3> QED
      BY <1>1, <1>5, <3>1, <3>2
  <2>6. ASSUME BlockColumn(b) = k PROVE BlockMax(b) = most
    <3>1. first \in T /\ logits[r][first] = most
      BY <1>5, <2>6 DEF TileColumns
    <3> QED
      BY <1>4, <2>1, <2>4, <3>1
  <2>7. BlockColumn(b) \in Int /\ k \in Int
    BY <1>6, GridCovers
  <2>8. BlockIndex(b) \in C /\ TileOf(BlockIndex(b)) = BlockColumn(b) /\ BlockIndex(b) \in 0 .. IntMax
    BY <1>1, <2>1, <2>2
  <2> QED
    BY <2>4, <2>5, <2>6, <2>7, <2>8
<1>10. \A b \in BlocksDone(r) : BlockPair(b) \in Nat
  <2>1. \A x \in NegInfinity + 1 .. IntMax : x \in NegInfinity .. IntMax
    BY <1>1
  <2> QED
    BY <1>8, <1>9, <2>1, Packing DEF BlockPair
<1>11. Pack(NegInfinity, N) \in Nat /\ Pack(NegInfinity, N) < BlockPair(best)
  <2>1. NegInfinity \in NegInfinity .. IntMax /\ N \in 0 .. IntMax
    BY <1>1
  <2>2. BlockMax(best) \in NegInfinity .. IntMax /\ NegInfinity < BlockMax(best)
        /\ BlockIndex(best) \in 0 .. IntMax
    BY <1>1, <1>7, <1>9
  <2> QED
    BY <2>1, <2>2, Packing DEF BlockPair
<1>12. ASSUME NEW b \in Grid, BlockRow(b) = r PROVE BlockPair(b) <= BlockPair(best)
  <2>1. /\ BlockMax(b) \in NegInfinity .. IntMax /\ BlockIndex(b) \in 0 .. IntMax
        /\ BlockMax(best) \in NegInfinity .. IntMax /\ BlockIndex(best) \in 0 .. IntMax
        /\ BlockMax(best) = most
    BY <1>1, <1>7, <1>9, <1>12
  <2>2. CASE BlockMax(b) < most
    <3>1. BlockPair(b) < BlockPair(best)
      BY <2>1, <2>2, Packing DEF BlockPair
    <3>2. BlockPair(b) \in Nat /\ BlockPair(best) \in Nat
      BY <2>1, Packing DEF BlockPair
    <3> QED
      BY <3>1, <3>2
  <2>3. CASE BlockMax(b) = most /\ BlockColumn(b) = k
    <3>1. BlockIndex(b) = BlockIndex(best)
      <4>1. /\ BlockIndex(b) \in TileColumns(k) /\ Near(logits[r][BlockIndex(b)], most)
            /\ \A c \in TileColumns(k) : Near(logits[r][c], most) => BlockIndex(b) <= c
        BY <1>12, <2>3, BlockResult
      <4>2. /\ BlockIndex(best) \in TileColumns(k) /\ Near(logits[r][BlockIndex(best)], most)
            /\ \A c \in TileColumns(k) : Near(logits[r][c], most) => BlockIndex(best) <= c
        BY <1>7, <2>1, BlockResult
      <4>3. BlockIndex(b) <= BlockIndex(best) /\ BlockIndex(best) <= BlockIndex(b)
        BY <4>1, <4>2
      <4> QED
        BY <1>1, <2>1, <4>3
    <3>2. BlockPair(b) = BlockPair(best) /\ BlockPair(b) \in Nat
      BY <2>1, <2>3, <3>1, Packing DEF BlockPair
    <3> QED
      BY <3>2
  <2>4. CASE BlockMax(b) = most /\ BlockColumn(b) # k
    <3>1. BlockColumn(b) > k
      BY <1>6, <1>9, <1>12, <2>4, GridCovers
    <3>2. TileOf(BlockIndex(best)) < TileOf(BlockIndex(b))
          /\ BlockIndex(best) \in Nat /\ BlockIndex(b) \in Nat
      BY <1>1, <1>6, <1>7, <1>9, <1>12, <3>1, GridCovers
    <3>3. BlockIndex(best) < BlockIndex(b)
      BY <3>2, TileOrder
    <3>4. BlockPair(b) < BlockPair(best) /\ BlockPair(b) \in Nat /\ BlockPair(best) \in Nat
      BY <2>1, <2>4, <3>3, Packing DEF BlockPair
    <3> QED
      BY <3>4
  <2>5. BlockMax(b) \in Int /\ most \in Int /\ BlockMax(b) <= most
    BY <1>4, <1>1, <1>9, <1>12
  <2> QED
    BY <2>2, <2>3, <2>4, <2>5
<1>13. pairs[r] = BlockPair(best)
  <2>1. X \in SUBSET Int /\ BlockPair(best) \in X
    BY <1>7, <1>8, <1>10, <1>11
  <2>2. \A x \in X : x <= BlockPair(best)
    BY <1>8, <1>10, <1>11, <1>12, <2>1
  <2>3. Max(X) = BlockPair(best)
    <3> HIDE DEF X
    <3> QED
      BY <2>1, <2>2, MaxIs
  <2> QED
    BY <2>3 DEF RowInv
<1>14. Out(r) = BlockIndex(best) /\ BlockMax(best) = most
  <2>1. BlockMax(best) \in NegInfinity .. IntMax /\ BlockIndex(best) \in 0 .. IntMax
        /\ BlockMax(best) = most
    BY <1>1, <1>7, <1>9
  <2> QED
    BY <1>13, <2>1, Packing DEF Out, BlockPair
<1> DEFINE F == {c \in C : TileOf(c) = k /\ Near(logits[r][c], most)}
<1>15. FirstNear(r) = Min(F)
  BY DEF FirstNear, most, first
<1>16. /\ BlockIndex(best) \in TileColumns(k) /\ Near(logits[r][BlockIndex(best)], most)
       /\ \A c \in TileColumns(k) : Near(logits[r][c], most) => BlockIndex(best) <= c
  BY <1>7, <1>14, BlockResult
<1>17. BlockIndex(best) \in F /\ F \in SUBSET Int /\ \A c \in F : BlockIndex(best) <= c
  BY <1>1, <1>16 DEF TileColumns
<1>18. Min(F) = BlockIndex(best)
  <2> HIDE DEF F
  <2> QED
    BY <1>17, MinIs
<1> QED
  BY <1>14, <1>15, <1>18
-----------------------------------------------------------------------------
(* Shape and logits never change, nor does anything computed from them. *)
LEMMA Fixed ==
  ASSUME [Next]_vars
  PROVE  /\ shape' = shape /\ logits' = logits
         /\ M' = M /\ N' = N /\ Rows' = Rows /\ Grid' = Grid /\ Values' = Values
         /\ \A b : BlockRow(b)' = BlockRow(b) /\ BlockMax(b)' = BlockMax(b)
                   /\ BlockPair(b)' = BlockPair(b) /\ BlockIndex(b)' = BlockIndex(b)
         /\ \A b, w : Columns(b, w)' = Columns(b, w) /\ Best(b, w)' = Best(b, w)
         /\ \A b, ws : IndexOver(b, ws)' = IndexOver(b, ws)
<1>1. shape' = shape /\ logits' = logits
  BY DEF Next, vars, ReadMax, SwapMax, MinIndex, SyncThreads, UpdatePair
<1>2. M' = M /\ N' = N /\ Rows' = Rows /\ Values' = Values
  BY <1>1 DEF M, N, Rows, Values
<1>3. ColumnBlocks' = ColumnBlocks /\ RowsUp' = RowsUp
  BY <1>2 DEF ColumnBlocks, RowsUp
<1>4. Grid' = Grid
  BY <1>3 DEF Grid
<1>5. \A b : Group(b)' = Group(b) /\ InGroup(b)' = InGroup(b)
  BY <1>3 DEF Group, InGroup
<1>6. \A b : BlockRow(b)' = BlockRow(b) /\ BlockColumn(b)' = BlockColumn(b)
  BY <1>5 DEF BlockRow, BlockColumn
<1>7. \A b, w : Columns(b, w)' = Columns(b, w)
  BY <1>2, <1>6 DEF Columns
<1>8. \A b, c : Logit(b, c)' = Logit(b, c)
  BY <1>1, <1>6 DEF Logit
<1>9. \A b, w : Best(b, w)' = Best(b, w)
  BY <1>7, <1>8 DEF Best
<1>10. \A b : BlockMax(b)' = BlockMax(b)
  BY <1>9 DEF BlockMax
<1>11. \A b, w : NearColumns(b, w)' = NearColumns(b, w)
  BY <1>7, <1>8, <1>10 DEF NearColumns
<1>12. \A b, ws : IndexOver(b, ws)' = IndexOver(b, ws)
  BY <1>11 DEF IndexOver
<1>13. \A b : BlockIndex(b)' = BlockIndex(b)
  BY <1>12 DEF BlockIndex
<1>14. \A b : BlockPair(b)' = BlockPair(b)
  BY <1>10, <1>13 DEF BlockPair
<1> QED
  BY <1>1, <1>2, <1>4, <1>6, <1>7, <1>9, <1>10, <1>12, <1>13, <1>14

(* Only blocks whose row exists take steps. *)
LEMMA Working ==
  ASSUME TypeInv, Idle, NEW b \in Grid, NEW w \in Waves, pc[b][w] # "done"
  PROVE  BlockRow(b) \in Rows
<1>1. BlockRow(b) \in Nat /\ M \in Nat /\ ~(BlockRow(b) >= M)
  BY GridCovers, Sizes DEF Idle
<1> QED
  BY <1>1 DEF Rows

(* One wave goes to another point, and compares with another value. *)
LEMMA WaveMoves ==
  ASSUME TypeInv, NEW b \in Grid, NEW w \in Waves
  PROVE  /\ \A label \in Points :
              LET f == [pc EXCEPT ![b][w] = label]
              IN  /\ f \in [Grid -> [Waves -> Points]]
                  /\ \A a \in Grid : a # b => f[a] = pc[a]
                  /\ \A v \in Waves : f[b][v] = IF v = w THEN label ELSE pc[b][v]
         /\ \A x \in Int :
              LET f == [old EXCEPT ![b][w] = x]
              IN  /\ f \in [Grid -> [Waves -> Int]]
                  /\ \A a \in Grid : a # b => f[a] = old[a]
                  /\ \A v \in Waves : f[b][v] = IF v = w THEN x ELSE old[b][v]
         /\ {"max", "cas", "maxed", "min", "found", "update", "done"} = Points
<1>1. pc \in [Grid -> [Waves -> Points]] /\ old \in [Grid -> [Waves -> Int]]
  BY DEF TypeInv
<1>2. {"max", "cas", "maxed", "min", "found", "update", "done"} = Points
  BY DEF Points, Finding
<1> QED
  BY <1>1, <1>2

LEMMA TypeStep == TypeInv /\ BlockInv /\ Idle /\ [Next]_vars => TypeInv'
<1> SUFFICES ASSUME TypeInv, BlockInv, Idle, [Next]_vars PROVE TypeInv'
  OBVIOUS
<1>0. shape' \in Shapes /\ logits' \in [Rows' -> [0 .. N' - 1 -> Values']]
      /\ Grid' = Grid /\ Rows' = Rows /\ 0 \in Waves
  BY Fixed, Sizes DEF TypeInv
<1> SUFFICES /\ pc' \in [Grid -> [Waves -> Points]]
             /\ old' \in [Grid -> [Waves -> Int]]
             /\ smax' \in [Grid -> Int] /\ sidx' \in [Grid -> Int]
             /\ pairs' \in [Rows -> Int]
  BY <1>0 DEF TypeInv
<1>t. /\ pc \in [Grid -> [Waves -> Points]]
      /\ old \in [Grid -> [Waves -> Int]]
      /\ smax \in [Grid -> Int] /\ sidx \in [Grid -> Int]
      /\ pairs \in [Rows -> Int]
  BY DEF TypeInv
<1>1. ASSUME NEW b \in Grid, NEW w \in Waves, ReadMax(b, w)
      PROVE  /\ pc' \in [Grid -> [Waves -> Points]]
             /\ old' \in [Grid -> [Waves -> Int]]
             /\ UNCHANGED <<smax, sidx, pairs>>
  <2>1. smax[b] \in Int /\ "cas" \in Points /\ "maxed" \in Points
    BY <1>t DEF Points, Finding
  <2>2. CASE Best(b, w) > NegInfinity
    <3>1. /\ old' = [old EXCEPT ![b][w] = smax[b]] /\ pc' = [pc EXCEPT ![b][w] = "cas"]
          /\ UNCHANGED <<smax, sidx, pairs>>
      BY <1>1, <2>2 DEF ReadMax, GoTo
    <3> QED
      BY <2>1, <3>1, WaveMoves
  <2>3. CASE ~(Best(b, w) > NegInfinity)
    <3>1. /\ pc' = [pc EXCEPT ![b][w] = "maxed"] /\ UNCHANGED <<old, smax, sidx, pairs>>
      BY <1>1, <2>3 DEF ReadMax, GoTo
    <3> QED
      BY <1>t, <2>1, <3>1, WaveMoves
  <2> QED
    BY <2>2, <2>3
<1>2. ASSUME NEW b \in Grid, NEW w \in Waves, SwapMax(b, w)
      PROVE  /\ pc' \in [Grid -> [Waves -> Points]]
             /\ old' \in [Grid -> [Waves -> Int]]
             /\ smax' \in [Grid -> Int]
             /\ UNCHANGED <<sidx, pairs>>
  <2>1. BlockRow(b) \in Rows
    BY <1>2, Working DEF SwapMax, At
  <2>2. Best(b, w) \in Int
    BY <2>1, BestOfWave
  <2>3. smax[b] \in Int /\ "maxed" \in Points
    BY <1>t DEF Points, Finding
  <2>4. CASE Best(b, w) > old[b][w]
    <3>1. /\ smax' = [smax EXCEPT ![b] = IF @ = old[b][w] THEN Best(b, w) ELSE @]
          /\ old' = [old EXCEPT ![b][w] = smax[b]]
          /\ UNCHANGED <<pc, sidx, pairs>>
      BY <1>2, <2>4 DEF SwapMax
    <3>2. smax' \in [Grid -> Int]
      BY <1>t, <2>2, <3>1
    <3>3. old' \in [Grid -> [Waves -> Int]]
      BY <2>3, <3>1, WaveMoves
    <3> QED
      BY <1>t, <3>1, <3>2, <3>3
  <2>5. CASE ~(Best(b, w) > old[b][w])
    <3>1. /\ pc' = [pc EXCEPT ![b][w] = "maxed"] /\ UNCHANGED <<old, smax, sidx, pairs>>
      BY <1>2, <2>5 DEF SwapMax, GoTo
    <3> QED
      BY <1>t, <2>3, <3>1, WaveMoves
  <2> QED
    BY <2>4, <2>5
<1>3. ASSUME NEW b \in Grid, NEW w \in Waves, MinIndex(b, w)
      PROVE  /\ pc' \in [Grid -> [Waves -> Points]]
             /\ sidx' \in [Grid -> Int]
             /\ UNCHANGED <<old, smax, pairs>>
  <2> DEFINE S == {c \in Columns(b, w) : Near(Logit(b, c), smax[b])}
             X == {sidx[b]} \cup S
  <2>1. S \in SUBSET Int /\ IsFiniteSet(S)
    <3>1. Columns(b, w) \in SUBSET (0 .. N - 1) /\ IsFiniteSet(Columns(b, w)) /\ N \in Int
      BY WavesCover, Sizes
    <3> QED
      BY <3>1, FS_Subset
  <2> HIDE DEF S
  <2>2. IsFiniteSet(X) /\ X \in SUBSET Int /\ X # {}
    <3>1. IsFiniteSet({sidx[b]}) /\ sidx[b] \in Int
      BY <1>t, FS_Singleton
    <3>2. IsFiniteSet({sidx[b]} \cup S)
      BY <2>1, <3>1, FS_Union
    <3> QED
      BY <2>1, <3>1, <3>2
  <2>3. Min(X) \in Int
    <3> HIDE DEF X
    <3> QED
      BY <2>2, SmallestNumber
  <2>4. sidx' = [sidx EXCEPT ![b] = Min(X)]
    BY <1>3 DEF MinIndex, S
  <2>5. pc' = [pc EXCEPT ![b][w] = "found"] /\ UNCHANGED <<old, smax, pairs>>
    BY <1>3 DEF MinIndex, GoTo
  <2>6. "found" \in Points
    BY DEF Points
  <2> HIDE DEF X
  <2> QED
    BY <1>t, <2>3, <2>4, <2>5, <2>6, WaveMoves
<1>4. ASSUME NEW b \in Grid, SyncThreads(b, "maxed", "min") \/ SyncThreads(b, "found", "update")
      PROVE  pc' \in [Grid -> [Waves -> Points]] /\ UNCHANGED <<old, smax, sidx, pairs>>
  BY <1>4, <1>t DEF SyncThreads, Points
<1>5. ASSUME NEW b \in Grid, UpdatePair(b)
      PROVE  /\ pc' \in [Grid -> [Waves -> Points]]
             /\ pairs' \in [Rows -> Int]
             /\ UNCHANGED <<old, smax, sidx>>
  <2>1. /\ pc' = [pc EXCEPT ![b] = [w \in Waves |-> "done"]] /\ UNCHANGED <<old, smax, sidx>>
        /\ pairs' = [pairs EXCEPT ![BlockRow(b)] = Larger(@, Pack(smax[b], sidx[b]))]
    BY <1>5 DEF UpdatePair
  <2>2. BlockRow(b) \in Rows /\ pc[b][0] = "update"
    BY <1>0, <1>5, Working DEF UpdatePair, At
  <2>3. smax[b] = BlockMax(b) /\ sidx[b] = BlockIndex(b)
    BY <1>0, <2>2 DEF BlockInv, IndexFound
  <2>4. BlockPair(b) \in Int
    <3>1. BlockMax(b) \in NegInfinity .. IntMax /\ BlockIndex(b) \in 0 .. IntMax
      BY <2>2, ResultRange
    <3> QED
      BY <3>1, Packing DEF BlockPair
  <2>5. Larger(pairs[BlockRow(b)], Pack(smax[b], sidx[b])) \in Int
    BY <1>t, <2>2, <2>3, <2>4 DEF Larger, BlockPair
  <2> QED
    BY <1>t, <2>1, <2>5 DEF Points
<1> QED
  BY <1>t, <1>1, <1>2, <1>3, <1>4, <1>5 DEF Next, vars

LEMMA Untouched ==
  ASSUME [Next]_vars, NEW a \in Grid, pc'[a] = pc[a], old'[a] = old[a],
         smax'[a] = smax[a], sidx'[a] = sidx[a],
         Stretch(a), MaxFound(a), IndexFound(a)
  PROVE  Stretch(a)' /\ MaxFound(a)' /\ IndexFound(a)'
<1>1. Stretch(a)'
  BY DEF Stretch
<1>2. MaxFound(a)'
  BY Fixed DEF MaxFound
<1>3. IndexFound(a)'
  BY Fixed DEF IndexFound
<1> QED
  BY <1>1, <1>2, <1>3

(* A block that is read, swapped or searched. *)
LEMMA WaveStep ==
  ASSUME TypeInv, BlockInv, Idle, [Next]_vars, NEW b \in Grid, NEW w \in Waves,
         ReadMax(b, w) \/ SwapMax(b, w)
  PROVE  Stretch(b)' /\ MaxFound(b)' /\ IndexFound(b)'
<1>1. BlockRow(b) \in Rows /\ pc[b][w] \in {"max", "cas"}
  BY Working DEF ReadMax, SwapMax, At
<1>2. Stretch(b) /\ MaxFound(b) /\ \A v \in Waves : pc[b][v] \in Finding
  BY <1>1 DEF BlockInv, Stretch, Finding
<1>3. /\ smax[b] \in {NegInfinity} \cup {Best(b, v) : v \in Waves} /\ sidx[b] = IntMax
      /\ \A v \in Waves : /\ pc[b][v] = "cas" => old[b][v] <= smax[b]
                          /\ pc[b][v] = "maxed" => Best(b, v) <= smax[b]
  BY <1>2 DEF MaxFound
<1>4. /\ \A v \in Waves : Best(b, v) \in Int /\ Best(b, v) >= NegInfinity
      /\ NegInfinity \in Int /\ smax[b] \in Int /\ \A v \in Waves : old[b][v] \in Int
  <2>1. \A v \in Waves : Best(b, v) \in Int /\ Best(b, v) >= NegInfinity
    BY <1>1, BestOfWave
  <2>2. NegInfinity \in Int
    BY Sizes DEF NegInfinity
  <2>3. smax[b] \in Int /\ \A v \in Waves : old[b][v] \in Int
    BY DEF TypeInv
  <2> QED
    BY <2>1, <2>2, <2>3
<1>t. pc \in [Grid -> [Waves -> Points]] /\ old \in [Grid -> [Waves -> Int]] /\ smax \in [Grid -> Int]
  BY DEF TypeInv
<1> SUFFICES /\ \A v \in Waves : pc'[b][v] \in Finding
             /\ smax'[b] \in {NegInfinity} \cup {Best(b, v) : v \in Waves} /\ sidx'[b] = IntMax
             /\ \A v \in Waves : /\ pc'[b][v] = "cas" => old'[b][v] <= smax'[b]
                                 /\ pc'[b][v] = "maxed" => Best(b, v) <= smax'[b]
  <2>1. Stretch(b)' /\ MaxFound(b)'
    BY Fixed DEF Stretch, MaxFound
  <2>2. IndexFound(b)'
    BY DEF IndexFound, Finding
  <2> QED
    BY <2>1, <2>2
<1>5. CASE ReadMax(b, w) /\ Best(b, w) > NegInfinity
  <2>1. /\ old' = [old EXCEPT ![b][w] = smax[b]] /\ pc' = [pc EXCEPT ![b][w] = "cas"]
        /\ smax' = smax /\ sidx' = sidx
    BY <1>5 DEF ReadMax, GoTo
  <2>2. \A v \in Waves : /\ pc'[b][v] = IF v = w THEN "cas" ELSE pc[b][v]
                         /\ old'[b][v] = IF v = w THEN smax[b] ELSE old[b][v]
    BY <1>t, <2>1
  <2> QED
    BY <1>2, <1>3, <1>4, <2>1, <2>2 DEF Finding
<1>6. CASE ReadMax(b, w) /\ ~(Best(b, w) > NegInfinity)
  <2>1. /\ old' = old /\ pc' = [pc EXCEPT ![b][w] = "maxed"]
        /\ smax' = smax /\ sidx' = sidx
    BY <1>6 DEF ReadMax, GoTo
  <2>2. \A v \in Waves : pc'[b][v] = IF v = w THEN "maxed" ELSE pc[b][v]
    BY <1>t, <2>1
  <2>3. Best(b, w) <= smax[b]
    BY <1>3, <1>4, <1>6
  <2> QED
    BY <1>2, <1>3, <1>4, <2>1, <2>2, <2>3 DEF Finding
<1>7. CASE SwapMax(b, w) /\ Best(b, w) > old[b][w]
  <2>1. /\ smax' = [smax EXCEPT ![b] = IF @ = old[b][w] THEN Best(b, w) ELSE @]
        /\ old' = [old EXCEPT ![b][w] = smax[b]]
        /\ pc' = pc /\ sidx' = sidx
    BY <1>7 DEF SwapMax
  <2>2. /\ smax'[b] = IF smax[b] = old[b][w] THEN Best(b, w) ELSE smax[b]
        /\ \A v \in Waves : old'[b][v] = IF v = w THEN smax[b] ELSE old[b][v]
    BY <1>t, <2>1
  <2>3. smax'[b] \in Int /\ smax[b] <= smax'[b]
    BY <1>4, <1>7, <2>2
  <2>4. \A v \in Waves : /\ pc[b][v] = "cas" => old'[b][v] <= smax'[b]
                         /\ pc[b][v] = "maxed" => Best(b, v) <= smax'[b]
    BY <1>3, <1>4, <2>2, <2>3
  <2> QED
    BY <1>2, <1>3, <2>1, <2>2, <2>4
<1>8. CASE SwapMax(b, w) /\ ~(Best(b, w) > old[b][w])
  <2>1. /\ old' = old /\ pc' = [pc EXCEPT ![b][w] = "maxed"]
        /\ smax' = smax /\ sidx' = sidx /\ pc[b][w] = "cas"
    BY <1>8 DEF SwapMax, GoTo, At
  <2>2. \A v \in Waves : pc'[b][v] = IF v = w THEN "maxed" ELSE pc[b][v]
    BY <1>t, <2>1
  <2>3. Best(b, w) <= smax[b]
    BY <1>3, <1>4, <1>8, <2>1
  <2> QED
    BY <1>2, <1>3, <1>4, <2>1, <2>2, <2>3 DEF Finding
<1> QED
  BY <1>5, <1>6, <1>7, <1>8

(* A wave that has looked adds its near columns to those of the block. *)
LEMMA MinStep ==
  ASSUME TypeInv, BlockInv, Idle, [Next]_vars, NEW b \in Grid, NEW w \in Waves,
         MinIndex(b, w)
  PROVE  Stretch(b)' /\ MaxFound(b)' /\ IndexFound(b)'
<1> DEFINE F == {v \in Waves : pc[b][v] = "found"}
           X == {IntMax} \cup UNION {NearColumns(b, v) : v \in F}
           FF == F \cup {w}
           XX == {IntMax} \cup UNION {NearColumns(b, v) : v \in FF}
           Y == {IndexOver(b, F)} \cup NearColumns(b, w)
           i == IndexOver(b, F)
           j == IndexOver(b, FF)
<1>1. BlockRow(b) \in Rows /\ pc[b][w] = "min"
  BY Working DEF MinIndex, At
<1>2. \A v \in Waves : pc[b][v] \in {"min", "found"}
  BY <1>1 DEF BlockInv, Stretch, Finding
<1>3. smax[b] = BlockMax(b) /\ sidx[b] = i
  BY <1>1 DEF BlockInv, IndexFound
<1>4. /\ smax' = smax /\ sidx' = [sidx EXCEPT ![b] = Min(Y)]
      /\ pc' = [pc EXCEPT ![b][w] = "found"]
  BY <1>3 DEF MinIndex, GoTo, NearColumns
<1>5. \A v \in Waves : pc'[b][v] = IF v = w THEN "found" ELSE pc[b][v]
  BY <1>4, WaveMoves
<1>6. sidx'[b] = Min(Y) /\ smax'[b] = BlockMax(b)
  BY <1>3, <1>4 DEF TypeInv
<1>7. Min(Y) = j
  <2>1. XX = X \cup NearColumns(b, w)
    OBVIOUS
  <2>2. i \in X /\ X \in SUBSET Int /\ \A y \in X : i <= y
    BY <1>1, Indexes
  <2>3. j \in XX /\ XX \in SUBSET Int /\ \A y \in XX : j <= y
    <3>1. FF \in SUBSET Waves
      OBVIOUS
    <3> HIDE DEF FF
    <3> QED
      BY <1>1, <3>1, Indexes
  <2> HIDE DEF X, XX, i, j
  <2>4. Y \in SUBSET Int /\ \A y \in Y : j <= y
    BY <2>1, <2>2, <2>3 DEF i
  <2>5. j \in Y
    <3>1. CASE j \in NearColumns(b, w)
      BY <3>1
    <3>2. CASE j \in X
      <4>1. i <= j /\ j <= i /\ i \in Int /\ j \in Int
        BY <2>1, <2>2, <2>3, <3>2
      <4>2. i = j
        BY <4>1
      <4> QED
        BY <4>2 DEF i
    <3> QED
      BY <2>1, <2>3, <3>1, <3>2
  <2> HIDE DEF Y
  <2> QED
    BY <2>4, <2>5, MinIs
<1>8. {v \in Waves : pc'[b][v] = "found"} = FF
  BY <1>5
<1>9. Waves' = Waves
  BY DEF Waves
<1> HIDE DEF F, FF, Y
<1>10. IndexFound(b)'
  BY <1>2, <1>5, <1>6, <1>7, <1>8, <1>9, Fixed DEF IndexFound
<1>11. Stretch(b)' /\ MaxFound(b)'
  BY <1>2, <1>5, <1>9 DEF Stretch, MaxFound, Finding
<1> QED
  BY <1>10, <1>11

(* At the first barrier smax is the maximum of the block, and at the       *)
(* second sidx its index.                                                  *)
LEMMA BarrierStep ==
  ASSUME TypeInv, BlockInv, Idle, [Next]_vars, NEW b \in Grid,
         SyncThreads(b, "maxed", "min") \/ SyncThreads(b, "found", "update")
  PROVE  Stretch(b)' /\ MaxFound(b)' /\ IndexFound(b)'
<1>1. 0 \in Waves /\ pc \in [Grid -> [Waves -> Points]]
  BY Sizes DEF TypeInv
<1>2. BlockRow(b) \in Rows
  BY <1>1, Working DEF SyncThreads, At
<1>3. Stretch(b) /\ MaxFound(b) /\ IndexFound(b)
  BY <1>2 DEF BlockInv
<1>4. CASE SyncThreads(b, "maxed", "min")
  <2>1. /\ \A v \in Waves : pc[b][v] = "maxed" /\ pc'[b][v] = "min"
        /\ smax' = smax /\ sidx' = sidx
    BY <1>1, <1>4 DEF SyncThreads, At
  <2>2. /\ smax[b] \in {NegInfinity} \cup {Best(b, v) : v \in Waves} /\ sidx[b] = IntMax
        /\ \A v \in Waves : Best(b, v) <= smax[b]
    BY <1>1, <1>3, <2>1 DEF MaxFound, Finding
  <2>3. smax[b] = BlockMax(b)
    <3>1. /\ BlockMax(b) \in Int /\ BlockMax(b) >= NegInfinity
          /\ \E w \in Waves : BlockMax(b) = Best(b, w)
          /\ \A w \in Waves : Best(b, w) <= BlockMax(b)
      BY <1>2, BlockMaximum
    <3>2. smax[b] \in Int /\ NegInfinity \in Int
      <4>1. smax[b] \in Int
        BY DEF TypeInv
      <4> QED
        BY <4>1, Sizes DEF NegInfinity
    <3>3. BlockMax(b) <= smax[b]
      BY <2>2, <3>1
    <3>4. smax[b] <= BlockMax(b)
      BY <2>2, <3>1, <3>2
    <3> QED
      BY <3>1, <3>2, <3>3, <3>4
  <2>4. IndexOver(b, {}) = IntMax
    <3>1. {} \in SUBSET Waves /\ UNION {NearColumns(b, v) : v \in {}} = {}
      OBVIOUS
    <3>2. PICK ws \in SUBSET Waves : ws = {}
      BY <3>1
    <3>3. IndexOver(b, ws) \in {IntMax} \cup UNION {NearColumns(b, v) : v \in ws}
      BY <1>2, Indexes
    <3> QED
      BY <3>1, <3>2, <3>3
  <2>5. {v \in Waves : pc'[b][v] = "found"} = {}
    BY <2>1
  <2>6. Waves' = Waves
    BY DEF Waves
  <2>7. IndexFound(b)'
    BY <2>1, <2>2, <2>3, <2>4, <2>5, <2>6, Fixed DEF IndexFound
  <2>8. Stretch(b)' /\ MaxFound(b)'
    BY <2>1, <2>6 DEF Stretch, MaxFound, Finding
  <2> QED
    BY <2>7, <2>8
<1>5. CASE SyncThreads(b, "found", "update")
  <2>1. /\ \A v \in Waves : pc[b][v] = "found" /\ pc'[b][v] = "update"
        /\ smax' = smax /\ sidx' = sidx
    BY <1>1, <1>5 DEF SyncThreads, At
  <2>2. {v \in Waves : pc[b][v] = "found"} = Waves
    BY <2>1
  <2>3. smax[b] = BlockMax(b) /\ sidx[b] = BlockIndex(b)
    BY <1>1, <1>3, <2>1, <2>2 DEF IndexFound, BlockIndex
  <2>4. Waves' = Waves
    BY DEF Waves
  <2>5. IndexFound(b)'
    BY <2>1, <2>3, <2>4, Fixed DEF IndexFound
  <2>6. Stretch(b)' /\ MaxFound(b)'
    BY <2>1, <2>4 DEF Stretch, MaxFound, Finding
  <2> QED
    BY <2>5, <2>6
<1> QED
  BY <1>4, <1>5

LEMMA BlockStep == TypeInv /\ BlockInv /\ Idle /\ [Next]_vars => BlockInv'
<1> SUFFICES ASSUME TypeInv, BlockInv, Idle, [Next]_vars,
                    NEW a \in Grid, BlockRow(a) \in Rows
             PROVE  Stretch(a)' /\ MaxFound(a)' /\ IndexFound(a)'
  BY Fixed DEF BlockInv
<1>0. Stretch(a) /\ MaxFound(a) /\ IndexFound(a)
  BY DEF BlockInv
<1>t. /\ pc \in [Grid -> [Waves -> Points]] /\ old \in [Grid -> [Waves -> Int]]
      /\ smax \in [Grid -> Int] /\ sidx \in [Grid -> Int]
  BY DEF TypeInv
<1> DEFINE Same == pc'[a] = pc[a] /\ old'[a] = old[a] /\ smax'[a] = smax[a] /\ sidx'[a] = sidx[a]
<1>1. CASE Same
  BY <1>0, <1>1, Untouched
<1>2. ASSUME NEW b \in Grid, NEW w \in Waves, ReadMax(b, w) \/ SwapMax(b, w) PROVE a = b \/ Same
  BY <1>2, <1>t DEF ReadMax, SwapMax, GoTo
<1>3. ASSUME NEW b \in Grid, NEW w \in Waves, MinIndex(b, w) PROVE a = b \/ Same
  BY <1>3, <1>t DEF MinIndex, GoTo
<1>4. ASSUME NEW b \in Grid, SyncThreads(b, "maxed", "min") \/ SyncThreads(b, "found", "update")
      PROVE  a = b \/ Same
  BY <1>4, <1>t DEF SyncThreads
<1>5. ASSUME NEW b \in Grid, UpdatePair(b)
      PROVE  Same \/ (Stretch(a)' /\ MaxFound(a)' /\ IndexFound(a)')
  <2>1. /\ a # b => Same
        /\ a = b => \A v \in Waves : pc'[a][v] = "done"
    BY <1>5, <1>t DEF UpdatePair
  <2>2. Waves' = Waves
    BY DEF Waves
  <2>3. ASSUME \A v \in Waves : pc'[a][v] = "done"
        PROVE  Stretch(a)' /\ MaxFound(a)' /\ IndexFound(a)'
    BY <2>2, <2>3 DEF Stretch, MaxFound, IndexFound, Finding
  <2> QED
    BY <2>1, <2>3
<1>6. CASE UNCHANGED vars
  BY <1>1, <1>6 DEF vars
<1> HIDE DEF Same
<1>7. ASSUME NEW b \in Grid, NEW w \in Waves, ReadMax(b, w) \/ SwapMax(b, w) \/ MinIndex(b, w)
      PROVE  Stretch(a)' /\ MaxFound(a)' /\ IndexFound(a)'
  <2>1. ASSUME a = b, MinIndex(b, w) PROVE Stretch(a)' /\ MaxFound(a)' /\ IndexFound(a)'
    BY <2>1, MinStep
  <2>2. ASSUME a = b, ReadMax(b, w) \/ SwapMax(b, w)
        PROVE  Stretch(a)' /\ MaxFound(a)' /\ IndexFound(a)'
    BY <2>2, WaveStep
  <2> QED
    BY <1>1, <1>2, <1>3, <1>7, <2>1, <2>2
<1>8. ASSUME NEW b \in Grid, SyncThreads(b, "maxed", "min") \/ SyncThreads(b, "found", "update")
      PROVE  Stretch(a)' /\ MaxFound(a)' /\ IndexFound(a)'
  <2>1. ASSUME a = b PROVE Stretch(a)' /\ MaxFound(a)' /\ IndexFound(a)'
    BY <1>8, <2>1, BarrierStep
  <2> QED
    BY <1>1, <1>4, <1>8, <2>1
<1> QED
  BY <1>1, <1>5, <1>6, <1>7, <1>8 DEF Next

(* The pairs a row has been offered so far. *)
LEMMA Offered ==
  ASSUME TypeInv, NEW r \in Rows
  PROVE  LET S == {Pack(NegInfinity, N)} \cup {BlockPair(b) : b \in BlocksDone(r)}
         IN  /\ S \in SUBSET Int
             /\ Max(S) \in S /\ \A y \in S : Max(S) >= y
<1> DEFINE D == BlocksDone(r)
           V == {BlockPair(b) : b \in D}
           S == {Pack(NegInfinity, N)} \cup V
<1>1. Pack(NegInfinity, N) \in Int
  <2>1. NegInfinity \in NegInfinity .. IntMax /\ N \in 0 .. IntMax
    BY Sizes DEF NegInfinity, IntMax
  <2> QED
    BY <2>1, Packing
<1>2. \A b \in D : BlockPair(b) \in Int
  <2> SUFFICES ASSUME NEW b \in D PROVE BlockPair(b) \in Int
    OBVIOUS
  <2>1. b \in Grid /\ BlockRow(b) \in Rows
    BY DEF BlocksDone
  <2>2. BlockMax(b) \in NegInfinity .. IntMax /\ BlockIndex(b) \in 0 .. IntMax
    BY <2>1, ResultRange
  <2> QED
    BY <2>2, Packing DEF BlockPair
<1>3. IsFiniteSet(D)
  <2>1. 0 \in Int /\ ColumnBlocks * RowsUp - 1 \in Int
    <3>1. \A k, l \in Int : k * l - 1 \in Int
      OBVIOUS
    <3>2. ColumnBlocks \in Int /\ RowsUp \in Int
      <4>1. G \in Nat \ {0} /\ M + G - 1 \in Nat
        BY Sizes
      <4>2. PICK q \in Nat : q = (M + G - 1) \div G
        BY <4>1, Division
      <4> QED
        BY <4>1, <4>2, TilesCover DEF RowsUp
    <3> QED
      BY <3>1, <3>2
  <2>2. IsFiniteSet(Grid)
    BY <2>1, FS_Interval DEF Grid
  <2>3. D \in SUBSET Grid
    BY DEF BlocksDone
  <2> QED
    BY <2>2, <2>3, FS_Subset
<1>4. IsFiniteSet(V)
  <2> DEFINE f == [b \in D |-> BlockPair(b)]
  <2>1. f \in Surjection(D, V)
    BY DEF Surjection
  <2> QED
    BY <1>3, <2>1, FS_Surjection
<1>5. S \in SUBSET Int /\ S # {}
  BY <1>1, <1>2
<1>6. IsFiniteSet(S)
  <2>1. IsFiniteSet({Pack(NegInfinity, N)})
    BY FS_Singleton
  <2> HIDE DEF V
  <2> QED
    BY <1>4, <2>1, FS_Union
<1> HIDE DEF S
<1>7. Max(S) \in S /\ \A y \in S : Max(S) >= y
  BY <1>5, <1>6, LargestNumber
<1> QED
  BY <1>5, <1>7 DEF S

LEMMA SameBlocksDone ==
  ASSUME [Next]_vars, NEW b \in Grid, \A a \in Grid : a # b => pc'[a] = pc[a],
         NEW w \in Waves, pc[b][w] # "done", NEW v \in Waves, pc'[b][v] # "done"
  PROVE  \A r : BlocksDone(r)' = BlocksDone(r)
<1>1. \A a \in Grid : (\A u \in Waves : pc[a][u] = "done") <=> (\A u \in Waves : pc'[a][u] = "done")
  <2> SUFFICES ASSUME NEW a \in Grid
               PROVE  (\A u \in Waves : pc[a][u] = "done") <=> (\A u \in Waves : pc'[a][u] = "done")
    OBVIOUS
  <2>1. CASE a = b
    BY <2>1
  <2>2. CASE a # b
    BY <2>2
  <2> QED
    BY <2>1, <2>2
<1>2. Waves' = Waves
  BY DEF Waves
<1> QED
  BY <1>1, <1>2, Fixed DEF BlocksDone, At

(* Larger(Max(S), x) is the maximum once x is in S. *)
LEMMA RowStep == TypeInv /\ BlockInv /\ RowInv /\ Idle /\ [Next]_vars => RowInv'
<1> SUFFICES ASSUME TypeInv, BlockInv, RowInv, Idle, [Next]_vars, NEW r \in Rows
             PROVE  pairs'[r] = Max({Pack(NegInfinity, N)} \cup {BlockPair(b) : b \in BlocksDone(r)'})
  <2> SUFFICES ASSUME TypeInv, BlockInv, RowInv, Idle, [Next]_vars PROVE RowInv'
    OBVIOUS
  <2>1. N' = N /\ Rows' = Rows /\ \A b : BlockPair(b)' = BlockPair(b)
    BY Fixed
  <2>2. Pack(NegInfinity, N)' = Pack(NegInfinity, N)
    BY <2>1 DEF Pack
  <2> QED
    BY <2>1, <2>2 DEF RowInv
<1> DEFINE S == {Pack(NegInfinity, N)} \cup {BlockPair(b) : b \in BlocksDone(r)}
<1>0. pairs[r] = Max(S)
  BY DEF RowInv
<1>t. 0 \in Waves /\ pc \in [Grid -> [Waves -> Points]] /\ pairs \in [Rows -> Int]
  BY Sizes DEF TypeInv
<1>1. CASE pairs' = pairs /\ BlocksDone(r)' = BlocksDone(r)
  BY <1>0, <1>1
<1>2. ASSUME NEW b \in Grid, NEW w \in Waves, ReadMax(b, w) \/ SwapMax(b, w) \/ MinIndex(b, w)
      PROVE  pairs' = pairs /\ BlocksDone(r)' = BlocksDone(r)
  <2>1. pc[b][w] # "done" /\ pairs' = pairs
    BY <1>2 DEF ReadMax, SwapMax, MinIndex, At
  <2>2. /\ \A a \in Grid : a # b => pc'[a] = pc[a]
        /\ pc'[b][w] # "done"
    <3>1. "cas" \in Points /\ "maxed" \in Points /\ "found" \in Points
      BY DEF Points, Finding
    <3>2. \/ pc' = [pc EXCEPT ![b][w] = "cas"] \/ pc' = [pc EXCEPT ![b][w] = "maxed"]
          \/ pc' = [pc EXCEPT ![b][w] = "found"] \/ pc' = pc
      BY <1>2 DEF ReadMax, SwapMax, MinIndex, GoTo
    <3> QED
      BY <2>1, <3>1, <3>2, WaveMoves
  <2> QED
    BY <2>1, <2>2, SameBlocksDone
<1>3. ASSUME NEW b \in Grid, SyncThreads(b, "maxed", "min") \/ SyncThreads(b, "found", "update")
      PROVE  pairs' = pairs /\ BlocksDone(r)' = BlocksDone(r)
  <2>1. /\ pc[b][0] # "done" /\ pc'[b][0] # "done" /\ pairs' = pairs
        /\ \A a \in Grid : a # b => pc'[a] = pc[a]
    BY <1>3, <1>t DEF SyncThreads, At
  <2> QED
    BY <1>t, <2>1, SameBlocksDone
<1>4. ASSUME NEW b \in Grid, UpdatePair(b)
      PROVE  pairs'[r] = Max({Pack(NegInfinity, N)} \cup {BlockPair(a) : a \in BlocksDone(r)'})
  <2> DEFINE SS == {Pack(NegInfinity, N)} \cup {BlockPair(a) : a \in BlocksDone(r)'}
             x == BlockPair(b)
  <2>1. BlockRow(b) \in Rows /\ pc[b][0] = "update"
    BY <1>t, <1>4, Working DEF UpdatePair, At
  <2>2. smax[b] = BlockMax(b) /\ sidx[b] = BlockIndex(b)
    BY <1>t, <2>1 DEF BlockInv, IndexFound
  <2>3. pairs' = [pairs EXCEPT ![BlockRow(b)] = Larger(@, x)]
    BY <1>4, <2>2 DEF UpdatePair, BlockPair
  <2>4. pc' = [pc EXCEPT ![b] = [w \in Waves |-> "done"]] /\ Waves' = Waves
    BY <1>4 DEF UpdatePair, Waves
  <2>5. BlocksDone(r)' = IF BlockRow(b) = r THEN BlocksDone(r) \cup {b} ELSE BlocksDone(r)
    <3>1. BlocksDone(r)' = {a \in Grid : BlockRow(a) = r /\ \A w \in Waves : pc'[a][w] = "done"}
      BY <2>4, Fixed DEF BlocksDone, At
    <3>2. BlocksDone(r) = {a \in Grid : BlockRow(a) = r /\ \A w \in Waves : pc[a][w] = "done"}
      BY DEF BlocksDone, At
    <3>3. \A a \in Grid : pc'[a] = IF a = b THEN [w \in Waves |-> "done"] ELSE pc[a]
      BY <1>t, <2>4
    <3>4. \A a \in Grid : (\A w \in Waves : pc'[a][w] = "done")
                            <=> (a = b \/ \A w \in Waves : pc[a][w] = "done")
      BY <3>3
    <3>5. \A a : a \in BlocksDone(r)' <=>
                   a \in BlocksDone(r) \/ (a = b /\ BlockRow(b) = r)
      BY <3>1, <3>2, <3>4
    <3> QED
      BY <3>5
  <2>6. CASE BlockRow(b) # r
    <3>1. pairs'[r] = pairs[r]
      BY <1>t, <2>3, <2>6
    <3> QED
      BY <1>0, <2>5, <2>6, <3>1
  <2>7. CASE BlockRow(b) = r
    <3>1. SS = S \cup {x}
      BY <2>5, <2>7
    <3>2. S \in SUBSET Int /\ Max(S) \in S /\ \A y \in S : Max(S) >= y
      BY Offered
    <3>3. x \in Int
      <4>1. BlockMax(b) \in NegInfinity .. IntMax /\ BlockIndex(b) \in 0 .. IntMax
        BY <2>1, ResultRange
      <4> QED
        BY <4>1, Packing DEF BlockPair
    <3>4. pairs'[r] = Larger(Max(S), x)
      BY <1>0, <1>t, <2>3, <2>7
    <3> HIDE DEF S, SS, x
    <3>5. /\ SS \in SUBSET Int /\ Larger(Max(S), x) \in SS
          /\ \A y \in SS : y <= Larger(Max(S), x)
      <4> DEFINE m == Max(S)
      <4>1. m \in Int /\ m \in S /\ \A y \in S : y \in Int /\ y <= m
        BY <3>2
      <4> HIDE DEF m
      <4>2. SS \in SUBSET Int /\ Larger(m, x) \in SS /\ \A y \in SS : y <= Larger(m, x)
        BY <3>1, <3>3, <4>1 DEF Larger
      <4> QED
        BY <4>2 DEF m
    <3>6. Max(SS) = Larger(Max(S), x)
      BY <3>5, MaxIs
    <3> QED
      BY <3>4, <3>6 DEF SS
  <2> QED
    BY <2>6, <2>7
<1>5. CASE UNCHANGED vars
  <2>1. pairs' = pairs /\ pc' = pc /\ Waves' = Waves
    BY <1>5 DEF vars, Waves
  <2>2. BlocksDone(r)' = BlocksDone(r)
    BY <2>1, Fixed DEF BlocksDone, At
  <2> QED
    BY <1>1, <2>1, <2>2
<1> QED
  BY <1>1, <1>2, <1>3, <1>4, <1>5 DEF Next

LEMMA IdleStep == TypeInv /\ Idle /\ [Next]_vars => Idle'
<1> SUFFICES ASSUME TypeInv, Idle, [Next]_vars,
                    NEW a \in Grid, NEW u \in Waves, BlockRow(a) >= M
             PROVE  pc'[a][u] = "done"
  <2>1. Waves' = Waves
    BY DEF Waves
  <2> QED
    BY <2>1, Fixed DEF Idle
<1>0. \A v \in Waves : pc[a][v] = "done"
  BY DEF Idle
<1>t. 0 \in Waves /\ pc \in [Grid -> [Waves -> Points]]
  BY Sizes DEF TypeInv
<1>1. ASSUME NEW b \in Grid, NEW w \in Waves, ReadMax(b, w) \/ SwapMax(b, w) \/ MinIndex(b, w)
      PROVE  pc'[a] = pc[a]
  <2>1. a # b
    BY <1>0, <1>1 DEF ReadMax, SwapMax, MinIndex, At
  <2> QED
    BY <1>1, <1>t, <2>1 DEF ReadMax, SwapMax, MinIndex, GoTo
<1>2. ASSUME NEW b \in Grid, SyncThreads(b, "maxed", "min") \/ SyncThreads(b, "found", "update")
      PROVE  pc'[a] = pc[a]
  <2>1. a # b
    BY <1>0, <1>t, <1>2 DEF SyncThreads, At
  <2> QED
    BY <1>2, <1>t, <2>1 DEF SyncThreads
<1>3. ASSUME NEW b \in Grid, UpdatePair(b) PROVE pc'[a][u] = "done"
  BY <1>0, <1>3, <1>t DEF UpdatePair
<1>4. CASE UNCHANGED vars
  BY <1>0, <1>4 DEF vars
<1> QED
  BY <1>0, <1>1, <1>2, <1>3, <1>4 DEF Next

LEMMA InitInv == Init => IInv
<1> SUFFICES ASSUME Init PROVE IInv
  OBVIOUS
<1>1. TypeInv
  <2>1. shape \in Shapes /\ logits \in [Rows -> [0 .. N - 1 -> Values]]
    BY DEF Init
  <2>2. NegInfinity \in Int /\ IntMax \in Int
    BY ArgmaxAssumption DEF NegInfinity, IntMax
  <2>3. "max" \in Points /\ "done" \in Points
    BY DEF Points, Finding
  <2>4. pc \in [Grid -> [Waves -> Points]]
    BY <2>3 DEF Init
  <2>5. old \in [Grid -> [Waves -> Int]] /\ smax \in [Grid -> Int] /\ sidx \in [Grid -> Int]
    BY <2>2 DEF Init
  <2>6. Pack(NegInfinity, N) \in Int
    <3>1. NegInfinity \in NegInfinity .. IntMax /\ N \in 0 .. IntMax
      BY <2>1, ArgmaxAssumption DEF NegInfinity, IntMax, N
    <3> QED
      BY <3>1, Packing
  <2>7. pairs \in [Rows -> Int]
    BY <2>6 DEF Init
  <2> QED
    BY <2>1, <2>4, <2>5, <2>7 DEF TypeInv
<1>2. ASSUME NEW b \in Grid, BlockRow(b) \in Rows
      PROVE  /\ \A w \in Waves : pc[b][w] = "max"
             /\ smax[b] = NegInfinity /\ sidx[b] = IntMax
  <2>1. BlockRow(b) < M
    BY <1>1, <1>2, Sizes DEF Rows
  <2> QED
    BY <2>1 DEF Init
<1>3. BlockInv
  BY <1>2 DEF BlockInv, Stretch, MaxFound, IndexFound, Finding
<1>4. RowInv
  <2> SUFFICES ASSUME NEW r \in Rows
               PROVE  pairs[r] = Max({Pack(NegInfinity, N)} \cup {BlockPair(b) : b \in BlocksDone(r)})
    BY DEF RowInv
  <2>1. 0 \in Waves
    BY <1>1, Sizes
  <2>2. BlocksDone(r) = {}
    BY <1>2, <2>1 DEF BlocksDone, At
  <2> DEFINE S == {Pack(NegInfinity, N)} \cup {BlockPair(b) : b \in BlocksDone(r)}
  <2>3. Max(S) \in S
    BY <1>1, Offered
  <2>4. S = {Pack(NegInfinity, N)}
    BY <2>2
  <2> QED
    BY <2>3, <2>4 DEF Init
<1>5. Idle
  <2> SUFFICES ASSUME NEW b \in Grid, NEW w \in Waves, BlockRow(b) >= M PROVE pc[b][w] = "done"
    BY DEF Idle
  <2>1. ~(BlockRow(b) < M)
    BY <1>1, GridCovers, Sizes
  <2> QED
    BY <2>1 DEF Init
<1> QED
  BY <1>1, <1>3, <1>4, <1>5 DEF IInv
-----------------------------------------------------------------------------
(* At every point of the epilogue smax, sidx and the row's pair are what   *)
(* the waves and blocks that got there have found                          *)
(* (getp_matmul_logits_argmax_bf16's epilogue).                            *)
THEOREM Invariant == Spec => []IInv
<1>1. IInv /\ [Next]_vars => IInv'
  BY TypeStep, BlockStep, RowStep, IdleStep DEF IInv
<1> QED
  BY InitInv, <1>1, PTL DEF Spec

(* When all blocks are done the token of each row is the one its logits    *)
(* determine, in whatever order blocks, waves and their atomics ran        *)
(* (getp_matmul_logits_argmax_bf16, getp_pack_logit_index).                *)
THEOREM TokenTheorem == Spec => []ArgmaxReproducible
<1>1. IInv => ArgmaxReproducible
  BY TokenOfRow DEF IInv, ArgmaxReproducible
<1> QED
  BY Invariant, <1>1, PTL
-----------------------------------------------------------------------------
(***************************************************************************)
(* The tiled kernels, for any number of waves and of tiles.  Between two   *)
(* barriers all waves are in one region of the program and in one step of  *)
(* the loop; the invariant says which tile a wave's part of an LDS slot    *)
(* and its register sets hold there, and how far its accumulator is.       *)
(***************************************************************************)
TileCount == kernel.tiles

(* Where a wave is: between two barriers all waves are in the same region, *)
(* in the same step of the loop.                                           *)
Early   == {"first_load", "first_store", "first_sync"}
Reading == {"before", "load", "multiply", "sync"}
Storing == {"store", "last_sync"}
Ending  == {"output", "output_sync"}
Regions == {Early, Reading, Storing, {"loop_left"}, Ending, {"done"}}
Places  == UNION Regions

Value == Tile \cup {OutputRows}

TileTypeInv ==
  /\ kernel \in Launched
  /\ place \in [BlockWaves -> Places]
  /\ step \in [BlockWaves -> Nat]
  /\ reg \in [BlockWaves -> [Sets -> Tile]]
  /\ lds \in [Slots -> [BlockWaves -> Value]]
  /\ acc \in [BlockWaves -> Seq(Value \X BlockWaves)]

Together ==
  \A v, w \in BlockWaves :
    /\ step[v] = step[w]
    /\ \A R \in Regions : place[v] \in R => place[w] \in R

InLoop == {"load", "multiply", "sync", "store", "last_sync"}
StepInv(w) ==
  /\ place[w] \in Early \cup {"before"} => step[w] = 0
  /\ place[w] \in InLoop => step[w] \in 0 .. TileCount - 1
  /\ place[w] \in {"loop_left", "output", "output_sync", "done"} => step[w] = TileCount

(* The slot step t multiplies, and the set that feeds the slot of the next *)
Slot(t) == Code.body[t].multiply
Feed(t) == Code.body[t].store[Slot(t + 1)]
InFlight(w, t) == t + 1 < TileCount => reg[w][Feed(t)] = t + 1
Coming(w, t) == t + 1 < TileCount => Feed(t) \in DOMAIN Code.body[t].load \/ reg[w][Feed(t)] = t + 1

LdsInv(w) ==
  /\ place[w] = "first_sync" => lds[0][w] = 0
  /\ place[w] \in Reading => lds[Slot(step[w])][w] = step[w]
  /\ place[w] = "last_sync" /\ step[w] + 1 < TileCount => lds[Slot(step[w] + 1)][w] = step[w] + 1

RegInv(w) ==
  /\ place[w] = "first_store" => reg[w][2] = 0
  /\ place[w] = "load" => Coming(w, step[w])
  /\ place[w] \in {"multiply", "sync", "store"} => InFlight(w, step[w])
  /\ place[w] \in {"multiply", "sync", "store", "last_sync"} => Coming(w, step[w] + 1)

AccInv(w) ==
  /\ \A i \in DOMAIN acc[w] : acc[w][i] = <<(i - 1) \div WaveCount, (i - 1) % WaveCount>>
  /\ place[w] = "multiply" => Len(acc[w]) \in step[w] * WaveCount .. step[w] * WaveCount + WaveCount - 1
  /\ place[w] \in {"sync", "store", "last_sync"} => Len(acc[w]) = step[w] * WaveCount + WaveCount
  /\ place[w] \notin {"multiply", "sync", "store", "last_sync"} => Len(acc[w]) = step[w] * WaveCount

OneWave(w) == StepInv(w) /\ LdsInv(w) /\ RegInv(w) /\ AccInv(w)
WaveInv == \A w \in BlockWaves : OneWave(w)

TileInv == TileTypeInv /\ Together /\ WaveInv

(* What the proof needs of a program: it loads tiles of the k range into    *)
(* its two sets and stores them into the two slots, and each step feeds    *)
(* the slot the next one multiplies from a set that holds the next tile:   *)
(* loaded in the same step, or in the step before and not since.           *)
LegalLoad(load, n) == DOMAIN load \subseteq {0, 1} /\ \A s \in DOMAIN load : load[s] \in 0 .. n - 1
LegalStore(store) == DOMAIN store \subseteq Slots /\ \A s \in DOMAIN store : store[s] \in {0, 1}
LegalStep(now, n) == now.multiply \in Slots /\ LegalLoad(now.load, n) /\ LegalStore(now.store)

Earlier(code, t) == IF t = 0 THEN code.before ELSE code.body[t - 1].load
FeedsFrom(code, t, set) ==
  IF set \in DOMAIN code.body[t].load THEN code.body[t].load[set] = t + 1
  ELSE set \in DOMAIN Earlier(code, t) /\ Earlier(code, t)[set] = t + 1
FeedsNext(code, t) ==
  /\ code.body[t + 1].multiply \in DOMAIN code.body[t].store
  /\ FeedsFrom(code, t, code.body[t].store[code.body[t + 1].multiply])

Pipeline(code, n) ==
  /\ DOMAIN code.body = 0 .. n - 1
  /\ code.body[0].multiply = 0
  /\ LegalLoad(code.before, n)
  /\ \A t \in 0 .. n - 1 : LegalStep(code.body[t], n)
  /\ \A t \in 0 .. n - 2 : FeedsNext(code, t)
-----------------------------------------------------------------------------
LEMMA Moves ==
  /\ DOMAIN Nothing = {}
  /\ \A s, t \in Int : DOMAIN Load(s, t) = {s} /\ Load(s, t)[s] = t
  /\ \A s, t \in Int : DOMAIN Store(s, t) = {t} /\ Store(s, t)[t] = s
BY DEF Nothing, Load, Store

LEMMA LegalMoves ==
  ASSUME NEW n \in Nat
  PROVE  /\ LegalLoad(Nothing, n) /\ LegalStore(Nothing)
         /\ \A set \in {0, 1}, tile \in 0 .. n - 1 : LegalLoad(Load(set, tile), n)
         /\ \A set \in {0, 1}, slot \in Slots : LegalStore(Store(set, slot))
<1>1. LegalLoad(Nothing, n) /\ LegalStore(Nothing)
  BY Moves DEF LegalLoad, LegalStore
<1>2. ASSUME NEW set \in {0, 1}, NEW tile \in 0 .. n - 1 PROVE LegalLoad(Load(set, tile), n)
  <2>1. DOMAIN Load(set, tile) = {set} /\ Load(set, tile)[set] = tile
    BY DEF Load
  <2> QED
    BY <2>1 DEF LegalLoad
<1>3. ASSUME NEW set \in {0, 1}, NEW slot \in Slots PROVE LegalStore(Store(set, slot))
  <2>1. DOMAIN Store(set, slot) = {slot} /\ Store(set, slot)[slot] = set
    BY DEF Store, Slots
  <2> QED
    BY <2>1 DEF LegalStore
<1> QED
  BY <1>1, <1>2, <1>3

(* The pipelines one tile ahead, into the same slot or the other one.      *)
LEMMA OneTileAhead ==
  ASSUME NEW n \in Nat \ {0}, NEW code,
         code.before = Nothing, DOMAIN code.body = 0 .. n - 1,
         code.body[0].multiply = 0,
         \A t \in 0 .. n - 1 : code.body[t].multiply \in Slots,
         \A t \in 0 .. n - 2 : /\ code.body[t].load = Load(0, t + 1)
                               /\ code.body[t].store = Store(0, code.body[t + 1].multiply),
         code.body[n - 1].load = Nothing, code.body[n - 1].store = Nothing
  PROVE  Pipeline(code, n)
<1>1. LegalLoad(code.before, n)
  BY LegalMoves
<1>2. ASSUME NEW t \in 0 .. n - 1 PROVE LegalStep(code.body[t], n)
  <2>1. CASE t = n - 1
    BY <2>1, LegalMoves DEF LegalStep
  <2>2. CASE t \in 0 .. n - 2
    <3>1. t + 1 \in 0 .. n - 1
      BY <2>2
    <3> QED
      BY <2>2, <3>1, LegalMoves DEF LegalStep
  <2> QED
    BY <2>1, <2>2
<1>3. ASSUME NEW t \in 0 .. n - 2 PROVE FeedsNext(code, t)
  <2> DEFINE slot == code.body[t + 1].multiply
  <2>1. code.body[t].load = Load(0, t + 1) /\ code.body[t].store = Store(0, slot)
    OBVIOUS
  <2>2. slot \in Int
    BY DEF Slots
  <2> HIDE DEF slot
  <2>3. DOMAIN Load(0, t + 1) = {0} /\ Load(0, t + 1)[0] = t + 1
    BY DEF Load
  <2>4. DOMAIN Store(0, slot) = {slot} /\ Store(0, slot)[slot] = 0
    BY <2>2 DEF Store
  <2>5. FeedsFrom(code, t, 0)
    BY <2>1, <2>3 DEF FeedsFrom
  <2>6. slot \in DOMAIN code.body[t].store /\ code.body[t].store[slot] = 0
    BY <2>1, <2>4
  <2> QED
    BY <2>5, <2>6 DEF FeedsNext, slot
<1> QED
  BY <1>1, <1>2, <1>3 DEF Pipeline

LEMMA OneAheadPipeline ==
  ASSUME NEW n \in Nat \ {0}
  PROVE  Pipeline(OneAhead(n), n)
<1> DEFINE P == OneAhead(n)
<1>1. P.before = Nothing /\ DOMAIN P.body = 0 .. n - 1
  BY DEF OneAhead, Program, Step
<1>2. ASSUME NEW t \in 0 .. n - 1
      PROVE  /\ P.body[t].load = When(t + 1 < n, Load(0, t + 1))
             /\ P.body[t].multiply = 0
             /\ P.body[t].store = When(t + 1 < n, Store(0, 0))
  BY DEF OneAhead, Program, Step
<1> HIDE DEF P
<1>3. \A t \in 0 .. n - 2 : /\ P.body[t].load = Load(0, t + 1)
                            /\ P.body[t].store = Store(0, P.body[t + 1].multiply)
  BY <1>2 DEF When
<1>4. P.body[n - 1].load = Nothing /\ P.body[n - 1].store = Nothing
  BY <1>2 DEF When
<1>5. P.body[0].multiply = 0 /\ \A t \in 0 .. n - 1 : P.body[t].multiply \in Slots
  BY <1>2 DEF Slots
<1>6. Pipeline(P, n)
  BY <1>1, <1>3, <1>4, <1>5, OneTileAhead
<1> QED
  BY <1>6 DEF P

LEMMA PingPongPipeline ==
  ASSUME NEW n \in Nat \ {0}
  PROVE  Pipeline(PingPong(n), n)
<1> DEFINE P == PingPong(n)
<1>1. P.before = Nothing /\ DOMAIN P.body = 0 .. n - 1
  BY DEF PingPong, Program, Step
<1>2. ASSUME NEW t \in 0 .. n - 1
      PROVE  /\ P.body[t].load = When(t + 1 < n, Load(0, t + 1))
             /\ P.body[t].multiply = t % 2
             /\ P.body[t].store = When(t + 1 < n, Store(0, 1 - (t % 2)))
  BY DEF PingPong, Program, Step
<1> HIDE DEF P
<1>3. \A t \in 0 .. n - 1 : t % 2 \in Slots /\ (t + 1) % 2 = 1 - (t % 2)
  BY DEF Slots
<1>4. \A t \in 0 .. n - 2 : /\ P.body[t].load = Load(0, t + 1)
                            /\ P.body[t].store = Store(0, P.body[t + 1].multiply)
  BY <1>2, <1>3 DEF When
<1>5. P.body[n - 1].load = Nothing /\ P.body[n - 1].store = Nothing
  BY <1>2 DEF When
<1>6. P.body[0].multiply = 0
  BY <1>2
<1>7. Pipeline(P, n)
  BY <1>1, <1>2, <1>3, <1>4, <1>5, <1>6, OneTileAhead
<1> QED
  BY <1>7 DEF P

LEMMA TwoAheadPipeline ==
  ASSUME NEW n \in Nat \ {0}, Even(n)
  PROVE  Pipeline(TwoAhead(n), n)
<1> DEFINE P == TwoAhead(n)
<1>1. Unrolled(n) = 0 .. n - 1
  BY DEF Unrolled, Even
<1>2. P.before = Load(1, Clamped(n, 1)) /\ DOMAIN P.body = 0 .. n - 1
  BY <1>1 DEF TwoAhead, Program, Step
<1>3. ASSUME NEW t \in 0 .. n - 1
      PROVE  /\ P.body[t].load = Load(t % 2, Clamped(n, t + 2))
             /\ P.body[t].multiply = 0
             /\ P.body[t].store = Store(1 - (t % 2), 0)
  BY <1>1 DEF TwoAhead, Program, Step
<1> HIDE DEF P
<1>4. \A t \in Nat : Clamped(n, t) \in 0 .. n - 1 /\ (t < n => Clamped(n, t) = t)
  BY DEF Clamped
<1>5. \A t \in 0 .. n - 1 : t % 2 \in {0, 1} /\ 1 - (t % 2) \in {0, 1} /\ 0 \in Slots
  BY DEF Slots
<1>6. LegalLoad(P.before, n)
  BY <1>2, <1>4, LegalMoves
<1>7. ASSUME NEW t \in 0 .. n - 1 PROVE LegalStep(P.body[t], n)
  <2>1. t + 2 \in Nat
    OBVIOUS
  <2> QED
    BY <1>3, <1>4, <1>5, <2>1, LegalMoves DEF LegalStep
<1>8. ASSUME NEW t \in 0 .. n - 2 PROVE FeedsNext(P, t)
  <2>1. t + 1 \in 0 .. n - 1 /\ t \in 0 .. n - 1
    OBVIOUS
  <2>2. P.body[t + 1].multiply = 0 /\ P.body[t].store = Store(1 - (t % 2), 0)
    BY <1>3, <2>1
  <2>3. 1 - (t % 2) \notin DOMAIN P.body[t].load
    <3>1. P.body[t].load = Load(t % 2, Clamped(n, t + 2)) /\ Clamped(n, t + 2) \in Int
      BY <1>3, <1>4, <2>1
    <3>2. DOMAIN P.body[t].load = {t % 2}
      BY <3>1 DEF Load
    <3> QED
      BY <3>2
  <2>4. Earlier(P, t) = Load(1 - (t % 2), t + 1)
    <3>1. CASE t = 0
      BY <3>1, <1>2, <1>4 DEF Earlier
    <3>2. CASE t # 0
      <4>1. t - 1 \in 0 .. n - 1 /\ (t - 1) % 2 = 1 - (t % 2) /\ (t - 1) + 2 = t + 1
        BY <3>2
      <4>2. P.body[t - 1].load = Load((t - 1) % 2, Clamped(n, (t - 1) + 2))
        BY <4>1, <1>3
      <4>3. Clamped(n, t + 1) = t + 1
        BY <1>4
      <4> QED
        BY <3>2, <4>1, <4>2, <4>3 DEF Earlier
    <3> QED
      BY <3>1, <3>2
  <2>5. DOMAIN Store(1 - (t % 2), 0) = {0} /\ Store(1 - (t % 2), 0)[0] = 1 - (t % 2)
    BY DEF Store
  <2>6. DOMAIN Load(1 - (t % 2), t + 1) = {1 - (t % 2)} /\ Load(1 - (t % 2), t + 1)[1 - (t % 2)] = t + 1
    BY DEF Load
  <2>7. FeedsFrom(P, t, 1 - (t % 2))
    BY <2>3, <2>4, <2>6 DEF FeedsFrom
  <2> QED
    BY <2>2, <2>5, <2>7 DEF FeedsNext
<1>9. P.body[0].multiply = 0
  BY <1>3
<1>10. Pipeline(P, n)
  BY <1>2, <1>6, <1>7, <1>8, <1>9 DEF Pipeline
<1> QED
  BY <1>10 DEF P

LEMMA PrefetchPipeline ==
  ASSUME NEW n \in Nat \ {0}
  PROVE  Pipeline(Prefetch(n), n)
<1> DEFINE P == Prefetch(n)
           both == [s \in {0, 1} |-> 1]
<1>1. P.before = When(n > 1, both) /\ DOMAIN P.body = 0 .. n - 1
  BY DEF Prefetch, Program, Step
<1>2. ASSUME NEW t \in 0 .. n - 1
      PROVE  /\ P.body[t].load = When(t + 2 < n, Load(1 - (t % 2), t + 2))
             /\ P.body[t].multiply = 0
             /\ P.body[t].store = When(t + 1 < n, Store(t % 2, 0))
  BY DEF Prefetch, Program, Step
<1>3. DOMAIN both = {0, 1} /\ \A s \in {0, 1} : both[s] = 1
  OBVIOUS
<1> HIDE DEF P, both
<1>4. /\ P.before = IF n > 1 THEN both ELSE Nothing
      /\ \A t \in 0 .. n - 1 :
           /\ P.body[t].load = IF t + 2 < n THEN Load(1 - (t % 2), t + 2) ELSE Nothing
           /\ P.body[t].store = IF t + 1 < n THEN Store(t % 2, 0) ELSE Nothing
  BY <1>1, <1>2 DEF When
<1>5. \A t \in 0 .. n - 1 : t % 2 \in {0, 1} /\ 1 - (t % 2) \in {0, 1} /\ 0 \in Slots
  BY DEF Slots
<1>6. LegalLoad(P.before, n)
  BY <1>3, <1>4, LegalMoves DEF LegalLoad
<1>7. ASSUME NEW t \in 0 .. n - 1 PROVE LegalStep(P.body[t], n)
  <2>1. t + 2 < n => t + 2 \in 0 .. n - 1
    OBVIOUS
  <2>2. LegalLoad(P.body[t].load, n)
    BY <1>4, <1>5, <2>1, LegalMoves
  <2>3. LegalStore(P.body[t].store)
    BY <1>4, <1>5, LegalMoves
  <2> QED
    BY <1>2, <1>5, <2>2, <2>3 DEF LegalStep
<1>8. ASSUME NEW t \in 0 .. n - 2 PROVE FeedsNext(P, t)
  <2>1. t + 1 \in 0 .. n - 1 /\ t \in 0 .. n - 1 /\ t + 1 < n /\ n > 1
    OBVIOUS
  <2>2. P.body[t + 1].multiply = 0 /\ P.body[t].store = Store(t % 2, 0)
    BY <1>2, <1>4, <2>1
  <2>3. t % 2 \notin DOMAIN P.body[t].load
    <3>1. P.body[t].load = Load(1 - (t % 2), t + 2) \/ P.body[t].load = Nothing
      BY <1>4, <2>1
    <3>2. DOMAIN P.body[t].load \subseteq {1 - (t % 2)}
      BY <3>1 DEF Load, Nothing
    <3> QED
      BY <3>2
  <2>4. t % 2 \in DOMAIN Earlier(P, t) /\ Earlier(P, t)[t % 2] = t + 1
    <3>1. CASE t = 0
      BY <3>1, <1>3, <1>4, <2>1 DEF Earlier
    <3>2. CASE t # 0
      <4>1. t - 1 \in 0 .. n - 1 /\ 1 - ((t - 1) % 2) = t % 2 /\ (t - 1) + 2 = t + 1
        BY <3>2
      <4>2. P.body[t - 1].load = IF (t - 1) + 2 < n THEN Load(1 - ((t - 1) % 2), (t - 1) + 2) ELSE Nothing
        BY <4>1, <1>4
      <4>3. P.body[t - 1].load = Load(t % 2, t + 1)
        BY <4>1, <4>2, <2>1
      <4>4. DOMAIN Load(t % 2, t + 1) = {t % 2} /\ Load(t % 2, t + 1)[t % 2] = t + 1
        BY DEF Load
      <4>5. Earlier(P, t) = Load(t % 2, t + 1)
        BY <3>2, <4>3 DEF Earlier
      <4> QED
        BY <4>4, <4>5
    <3> QED
      BY <3>1, <3>2
  <2>5. DOMAIN Store(t % 2, 0) = {0} /\ Store(t % 2, 0)[0] = t % 2
    BY DEF Store
  <2>6. FeedsFrom(P, t, t % 2)
    BY <2>3, <2>4 DEF FeedsFrom
  <2> QED
    BY <2>2, <2>5, <2>6 DEF FeedsNext
<1>9. P.body[0].multiply = 0
  BY <1>2
<1>10. Pipeline(P, n)
  BY <1>1, <1>6, <1>7, <1>8, <1>9 DEF Pipeline
<1> QED
  BY <1>10 DEF P

LEMMA Pipelined ==
  ASSUME NEW v \in Launched
  PROVE  /\ v.tiles \in Nat \ {0} /\ v.tiles <= MaxTiles
         /\ Pipeline(CodeOf(v), v.tiles)
<1>1. /\ v.tiles \in Nat \ {0} /\ v.tiles <= MaxTiles
      /\ v.name \in {"mlp1", "mlp2", "qkv", "qkv_large", "attn_o_wide", "attn_o_narrow", "logits",
                     "router", "router_split", "flash", "flash_even", "flash_odd"}
      /\ CodeOf(v) # Abort
  BY TilesAssumption DEF Launched, Variants
<1> DEFINE n == v.tiles
<1>2. CASE v.name \in {"qkv_large", "logits", "flash_even", "flash_odd"}
  <2>1. CodeOf(v) = OneAhead(n)
    BY <1>2 DEF CodeOf, QkvLarge, Logits, FlashEven, FlashOdd
  <2> QED
    BY <1>1, <2>1, OneAheadPipeline
<1>3. CASE v.name \in {"router", "router_split"}
  <2>1. CodeOf(v) = PingPong(n)
    BY <1>3 DEF CodeOf, Router, RouterSplit
  <2> QED
    BY <1>1, <2>1, PingPongPipeline
<1>4. CASE v.name = "flash"
  <2>1. CodeOf(v) = Prefetch(n)
    BY <1>4 DEF CodeOf, FlashAttention
  <2> QED
    BY <1>1, <2>1, PrefetchPipeline
<1>5. CASE v.name \in {"mlp1", "mlp2", "attn_o_wide"}
  <2>1. CodeOf(v) = IF Even(n) THEN TwoAhead(n) ELSE Abort
    BY <1>5 DEF CodeOf, Mlp1, Mlp2, AttnOWide
  <2>2. Even(n) /\ CodeOf(v) = TwoAhead(n)
    BY <1>1, <2>1
  <2> QED
    BY <1>1, <2>2, TwoAheadPipeline
<1>6. CASE v.name = "qkv"
  <2>1. CodeOf(v) = IF Even(n) THEN TwoAhead(n) ELSE OneAhead(n)
    BY <1>6 DEF CodeOf, Qkv
  <2> QED
    BY <1>1, <2>1, OneAheadPipeline, TwoAheadPipeline
<1>7. CASE v.name = "attn_o_narrow"
  <2>1. CodeOf(v) = IF Even(n) THEN OneAhead(n) ELSE Abort
    BY <1>7 DEF CodeOf, AttnONarrow
  <2>2. CodeOf(v) = OneAhead(n)
    BY <1>1, <2>1
  <2> QED
    BY <1>1, <2>2, OneAheadPipeline
<1> QED
  BY <1>1, <1>2, <1>3, <1>4, <1>5, <1>6, <1>7
-----------------------------------------------------------------------------
LEMMA TileFacts ==
  ASSUME TileTypeInv
  PROVE  /\ TileCount \in Nat \ {0} /\ TileCount <= MaxTiles /\ MaxTiles \in Nat \ {0}
         /\ WaveCount \in Nat \ {0} /\ BlockWaves = 0 .. WaveCount - 1
         /\ Pipeline(Code, TileCount)
         /\ \A i \in 0 .. TileCount - 1 : i \in Tile
BY Pipelined, TilesAssumption DEF TileTypeInv, TileCount, Code, BlockWaves, Tile

LEMMA PipelineFacts ==
  ASSUME TileTypeInv
  PROVE  /\ DOMAIN Code.body = 0 .. TileCount - 1
         /\ Slot(0) = 0
         /\ LegalLoad(Code.before, TileCount)
         /\ \A t \in 0 .. TileCount - 1 : Slot(t) \in Slots /\ LegalStep(Code.body[t], TileCount)
         /\ \A t \in 0 .. TileCount - 2 :
              /\ Slot(t + 1) \in DOMAIN Code.body[t].store
              /\ Feed(t) \in {0, 1}
              /\ FeedsFrom(Code, t, Feed(t))
<1>1. TileCount \in Nat \ {0} /\ Pipeline(Code, TileCount)
  BY TileFacts
<1>2. \A t \in 0 .. TileCount - 1 : Slot(t) \in Slots /\ LegalStep(Code.body[t], TileCount)
  BY <1>1 DEF Pipeline, LegalStep, Slot
<1>3. ASSUME NEW t \in 0 .. TileCount - 2
      PROVE  /\ Slot(t + 1) \in DOMAIN Code.body[t].store
             /\ Feed(t) \in {0, 1}
             /\ FeedsFrom(Code, t, Feed(t))
  <2>1. Slot(t + 1) \in DOMAIN Code.body[t].store /\ FeedsFrom(Code, t, Feed(t))
    BY <1>1 DEF Pipeline, FeedsNext, Slot, Feed
  <2>2. LegalStore(Code.body[t].store)
    BY <1>1 DEF Pipeline, LegalStep
  <2> QED
    BY <2>1, <2>2 DEF LegalStore, Feed
<1> QED
  BY <1>1, <1>2, <1>3 DEF Pipeline, Slot

(* A step of another wave leaves what is said of a wave as it was.         *)
LEMMA OtherWaves ==
  ASSUME TileTypeInv, kernel' = kernel, NEW v \in BlockWaves, OneWave(v),
         place'[v] = place[v], step'[v] = step[v], reg'[v] = reg[v], acc'[v] = acc[v],
         \A s \in Slots : lds'[s][v] = lds[s][v]
  PROVE  OneWave(v)'
<1>1. StepInv(v)'
  BY DEF OneWave, StepInv, TileCount
<1>2. LdsInv(v)'
  <2>0. TileCount \in Nat \ {0} /\ step[v] \in Nat /\ 0 \in Slots
    BY TileFacts DEF TileTypeInv, Slots
  <2>1. place[v] \in Reading => step[v] \in 0 .. TileCount - 1
    BY <2>0 DEF OneWave, StepInv, Reading, InLoop, Early
  <2>2. \A t : Slot(t)' = Slot(t)
    BY DEF Slot, Code
  <2>3. TileCount' = TileCount
    BY DEF TileCount
  <2>4. place[v] = "first_sync" => lds'[0][v] = 0
    BY <2>0 DEF OneWave, LdsInv
  <2>5. place[v] \in Reading => lds'[Slot(step[v])][v] = step[v]
    BY <2>1, PipelineFacts DEF OneWave, LdsInv
  <2>6. place[v] = "last_sync" /\ step[v] + 1 < TileCount => lds'[Slot(step[v] + 1)][v] = step[v] + 1
    <3> SUFFICES ASSUME place[v] = "last_sync", step[v] + 1 < TileCount
                 PROVE  lds'[Slot(step[v] + 1)][v] = step[v] + 1
      OBVIOUS
    <3>1. step[v] + 1 \in 0 .. TileCount - 1
      BY <2>0
    <3> QED
      BY <3>1, PipelineFacts DEF OneWave, LdsInv
  <2> QED
    BY <2>2, <2>3, <2>4, <2>5, <2>6 DEF LdsInv
<1>3. RegInv(v)'
  BY DEF OneWave, RegInv, Coming, InFlight, Feed, Slot, Code, TileCount
<1>4. AccInv(v)'
  BY DEF OneWave, AccInv
<1> QED
  BY <1>1, <1>2, <1>3, <1>4 DEF OneWave

(* A wave that goes on without a barrier stays in its region.              *)
LEMMA SameRegion ==
  ASSUME TileTypeInv, Together, NEW w \in BlockWaves, NEW a, NEW b \in Places, Go(w, a, b),
         \A R \in Regions : a \in R <=> b \in R,
         step' = step
  PROVE  place' \in [BlockWaves -> Places] /\ Together'
<1>1. place' \in [BlockWaves -> Places]
  BY DEF TileTypeInv, Go
<1>2. ASSUME NEW v \in BlockWaves, NEW R \in Regions PROVE place'[v] \in R <=> place[v] \in R
  BY DEF TileTypeInv, Go
<1>3. Together'
  BY <1>2 DEF Together
<1> QED
  BY <1>1, <1>3

LEMMA LoadedType ==
  ASSUME TileTypeInv, NEW w \in BlockWaves, NEW moves,
         DOMAIN moves \subseteq Sets, \A s \in DOMAIN moves : moves[s] \in Tile
  PROVE  /\ Loaded(w, moves) \in [Sets -> Tile]
         /\ \A s \in Sets : Loaded(w, moves)[s] = IF s \in DOMAIN moves THEN moves[s] ELSE reg[w][s]
BY DEF TileTypeInv, Loaded

LEMMA StoredType ==
  ASSUME TileTypeInv, NEW w \in BlockWaves, NEW moves,
         DOMAIN moves \subseteq Slots, \A s \in DOMAIN moves : moves[s] \in Sets
  PROVE  /\ Stored(w, moves) \in [Slots -> [BlockWaves -> Value]]
         /\ \A s \in Slots : Stored(w, moves)[s][w] = IF s \in DOMAIN moves THEN reg[w][moves[s]] ELSE lds[s][w]
         /\ \A s \in Slots, v \in BlockWaves \ {w} : Stored(w, moves)[s][v] = lds[s][v]
<1>1. \A s \in Slots : lds[s] \in [BlockWaves -> Value]
  BY DEF TileTypeInv
<1>2. \A s \in DOMAIN moves : reg[w][moves[s]] \in Value
  BY DEF TileTypeInv, Value
<1> QED
  BY <1>1, <1>2 DEF Stored
-----------------------------------------------------------------------------
LEMMA TileInitInv == BlockInit => TileInv
<1> SUFFICES ASSUME BlockInit PROVE TileInv
  OBVIOUS
<1>1. Junk \in Tile /\ "first_load" \in Places
  BY DEF Tile, Places, Regions, Early
<1>2. TileTypeInv
  <2>1. acc \in [BlockWaves -> Seq(Value \X BlockWaves)]
    BY DEF BlockInit
  <2>2. lds \in [Slots -> [BlockWaves -> Value]] /\ reg \in [BlockWaves -> [Sets -> Tile]]
    BY <1>1 DEF BlockInit, Value
  <2>3. place \in [BlockWaves -> Places] /\ step \in [BlockWaves -> Nat] /\ kernel \in Launched
    BY <1>1 DEF BlockInit
  <2> QED
    BY <2>1, <2>2, <2>3 DEF TileTypeInv
<1>3. Together
  BY DEF BlockInit, Together
<1>4. ASSUME NEW w \in BlockWaves PROVE OneWave(w)
  <2>1. place[w] = "first_load" /\ step[w] = 0 /\ acc[w] = << >>
    BY DEF BlockInit
  <2>2. StepInv(w) /\ LdsInv(w) /\ RegInv(w)
    BY <2>1 DEF StepInv, LdsInv, RegInv, InLoop, Reading
  <2>3. Len(acc[w]) = 0 * WaveCount /\ DOMAIN acc[w] = {}
    BY <2>1, TilesAssumption
  <2>4. AccInv(w)
    BY <2>1, <2>3 DEF AccInv
  <2> QED
    BY <2>2, <2>4 DEF OneWave
<1> QED
  BY <1>2, <1>3, <1>4 DEF TileInv, WaveInv

LEMMA FirstLoadInv ==
  ASSUME TileInv, NEW w \in BlockWaves, FirstLoad(w)
  PROVE  TileInv'
<1>0. TileTypeInv /\ Together /\ WaveInv /\ OneWave(w)
  BY DEF TileInv, WaveInv
<1>1. /\ place[w] = "first_load" /\ place' = [place EXCEPT ![w] = "first_store"]
      /\ reg' = [reg EXCEPT ![w] = Loaded(w, Load(2, 0))]
      /\ kernel' = kernel /\ step' = step /\ lds' = lds /\ acc' = acc
  BY DEF FirstLoad, Go
<1>2. DOMAIN Load(2, 0) = {2} /\ Load(2, 0)[2] = 0 /\ 2 \in Sets /\ 0 \in Tile
  BY TileFacts, <1>0 DEF Load, Sets, Tile
<1>3. Loaded(w, Load(2, 0)) \in [Sets -> Tile] /\ Loaded(w, Load(2, 0))[2] = 0
  BY <1>0, <1>2, LoadedType
<1>4. reg' \in [BlockWaves -> [Sets -> Tile]]
  BY <1>0, <1>1, <1>3 DEF TileTypeInv
<1>5. place' \in [BlockWaves -> Places] /\ Together'
  BY <1>0, <1>1, SameRegion DEF FirstLoad, Places, Regions, Early, Reading, Storing, Ending
<1>6. TileTypeInv'
  BY <1>0, <1>1, <1>4, <1>5 DEF TileTypeInv
<1>7. OneWave(w)'
  <2>1. place'[w] = "first_store" /\ reg'[w][2] = 0
    BY <1>0, <1>1, <1>3 DEF TileTypeInv
  <2>2. StepInv(w)'
    BY <1>0, <1>1, <2>1 DEF OneWave, StepInv, InLoop, Early
  <2>3. LdsInv(w)' /\ RegInv(w)'
    BY <2>1 DEF LdsInv, RegInv, Reading
  <2>4. AccInv(w)'
    BY <1>0, <1>1, <2>1 DEF OneWave, AccInv
  <2> QED
    BY <2>2, <2>3, <2>4 DEF OneWave
<1>8. ASSUME NEW v \in BlockWaves \ {w} PROVE OneWave(v)'
  <2>1. OneWave(v) /\ place'[v] = place[v] /\ reg'[v] = reg[v]
    BY <1>0, <1>1 DEF WaveInv, TileTypeInv
  <2> QED
    BY <1>0, <1>1, <2>1, OtherWaves
<1> QED
  BY <1>5, <1>6, <1>7, <1>8 DEF TileInv, WaveInv

LEMMA FirstStoreInv ==
  ASSUME TileInv, NEW w \in BlockWaves, FirstStore(w)
  PROVE  TileInv'
<1>0. TileTypeInv /\ Together /\ WaveInv /\ OneWave(w)
  BY DEF TileInv, WaveInv
<1>1. /\ place[w] = "first_store" /\ place' = [place EXCEPT ![w] = "first_sync"]
      /\ lds' = Stored(w, Store(2, 0))
      /\ kernel' = kernel /\ step' = step /\ reg' = reg /\ acc' = acc
  BY DEF FirstStore, Go
<1>2. DOMAIN Store(2, 0) = {0} /\ Store(2, 0)[0] = 2 /\ 2 \in Sets /\ 0 \in Slots
  BY DEF Store, Sets, Slots
<1>3. /\ lds' \in [Slots -> [BlockWaves -> Value]]
      /\ lds'[0][w] = reg[w][2]
      /\ \A s \in Slots, v \in BlockWaves \ {w} : lds'[s][v] = lds[s][v]
  BY <1>0, <1>1, <1>2, StoredType
<1>4. place' \in [BlockWaves -> Places] /\ Together'
  BY <1>0, <1>1, SameRegion DEF FirstStore, Places, Regions, Early, Reading, Storing, Ending
<1>5. TileTypeInv'
  BY <1>0, <1>1, <1>3, <1>4 DEF TileTypeInv
<1>6. OneWave(w)'
  <2>1. place'[w] = "first_sync"
    BY <1>0, <1>1 DEF TileTypeInv
  <2>2. StepInv(w)'
    BY <1>0, <1>1, <2>1 DEF OneWave, StepInv, InLoop, Early
  <2>3. lds'[0][w] = 0
    BY <1>0, <1>1, <1>3 DEF OneWave, RegInv
  <2>4. LdsInv(w)' /\ RegInv(w)'
    BY <2>1, <2>3 DEF LdsInv, RegInv, Reading
  <2>5. AccInv(w)'
    BY <1>0, <1>1, <2>1 DEF OneWave, AccInv
  <2> QED
    BY <2>2, <2>4, <2>5 DEF OneWave
<1>7. ASSUME NEW v \in BlockWaves \ {w} PROVE OneWave(v)'
  <2>1. OneWave(v) /\ place'[v] = place[v]
    BY <1>0, <1>1 DEF WaveInv, TileTypeInv
  <2> QED
    BY <1>0, <1>1, <1>3, <2>1, OtherWaves
<1> QED
  BY <1>4, <1>5, <1>6, <1>7 DEF TileInv, WaveInv

LEMMA LoadBeforeInv ==
  ASSUME TileInv, NEW w \in BlockWaves, LoadBefore(w)
  PROVE  TileInv'
<1> DEFINE moves == Code.before
<1>0. TileTypeInv /\ Together /\ WaveInv /\ OneWave(w)
  BY DEF TileInv, WaveInv
<1>1. /\ place[w] = "before" /\ place' = [place EXCEPT ![w] = "load"]
      /\ reg' = [reg EXCEPT ![w] = Loaded(w, moves)]
      /\ kernel' = kernel /\ step' = step /\ lds' = lds /\ acc' = acc
  BY DEF LoadBefore, Go
<1>2. LegalLoad(moves, TileCount) /\ TileCount \in Nat \ {0} /\ \A i \in 0 .. TileCount - 1 : i \in Tile
  BY <1>0, TileFacts, PipelineFacts
<1> HIDE DEF moves
<1>3. /\ Loaded(w, moves) \in [Sets -> Tile]
      /\ \A s \in Sets : Loaded(w, moves)[s] = IF s \in DOMAIN moves THEN moves[s] ELSE reg[w][s]
  <2>1. DOMAIN moves \subseteq Sets /\ \A s \in DOMAIN moves : moves[s] \in Tile
    BY <1>2 DEF LegalLoad, Sets
  <2> QED
    BY <1>0, <2>1, LoadedType
<1>4. reg' \in [BlockWaves -> [Sets -> Tile]] /\ reg'[w] = Loaded(w, moves)
  BY <1>0, <1>1, <1>3 DEF TileTypeInv
<1>5. place' \in [BlockWaves -> Places] /\ Together'
  BY <1>0, <1>1, SameRegion DEF LoadBefore, Places, Regions, Early, Reading, Storing, Ending
<1>6. TileTypeInv'
  BY <1>0, <1>1, <1>4, <1>5 DEF TileTypeInv
<1>7. OneWave(w)'
  <2>1. place'[w] = "load" /\ step[w] = 0
    BY <1>0, <1>1 DEF TileTypeInv, OneWave, StepInv
  <2>2. StepInv(w)'
    BY <1>1, <1>2, <2>1 DEF StepInv, InLoop, Early, TileCount
  <2>3. LdsInv(w)'
    BY <1>0, <1>1, <2>1 DEF OneWave, LdsInv, Reading, Slot, Code
  <2>4. Coming(w, 0)'
    <3> SUFFICES ASSUME 0 + 1 < TileCount, Feed(0) \notin DOMAIN Code.body[0].load
                 PROVE  reg'[w][Feed(0)] = 0 + 1
      BY <1>1 DEF Coming, Feed, Slot, Code, TileCount
    <3>1. Feed(0) \in {0, 1} /\ FeedsFrom(Code, 0, Feed(0))
      BY <1>0, <1>2, PipelineFacts
    <3>2. Feed(0) \in DOMAIN moves /\ moves[Feed(0)] = 0 + 1
      BY <3>1 DEF FeedsFrom, Earlier, moves
    <3> QED
      BY <1>3, <1>4, <3>1, <3>2 DEF Sets
  <2>5. RegInv(w)'
    BY <1>1, <2>1, <2>4 DEF RegInv
  <2>6. AccInv(w)'
    BY <1>0, <1>1, <2>1 DEF OneWave, AccInv
  <2> QED
    BY <2>2, <2>3, <2>5, <2>6 DEF OneWave
<1>8. ASSUME NEW v \in BlockWaves \ {w} PROVE OneWave(v)'
  <2>1. OneWave(v) /\ place'[v] = place[v] /\ reg'[v] = reg[v]
    BY <1>0, <1>1 DEF WaveInv, TileTypeInv
  <2> QED
    BY <1>0, <1>1, <2>1, OtherWaves
<1> QED
  BY <1>5, <1>6, <1>7, <1>8 DEF TileInv, WaveInv

(* The load of step t brings what its own store or the next one needs, and *)
(* overwrites nothing that is still to be stored.                          *)
LEMMA LoadTileInv ==
  ASSUME TileInv, NEW w \in BlockWaves, LoadTile(w)
  PROVE  TileInv'
<1> DEFINE t == step[w]
           moves == Code.body[t].load
<1>0. TileTypeInv /\ Together /\ WaveInv /\ OneWave(w)
  BY DEF TileInv, WaveInv
<1>1. /\ place[w] = "load" /\ place' = [place EXCEPT ![w] = "multiply"]
      /\ reg' = [reg EXCEPT ![w] = Loaded(w, moves)]
      /\ kernel' = kernel /\ step' = step /\ lds' = lds /\ acc' = acc
  BY DEF LoadTile, Go, Body
<1>2. /\ TileCount \in Nat \ {0} /\ WaveCount \in Nat \ {0}
      /\ t \in 0 .. TileCount - 1 /\ \A i \in 0 .. TileCount - 1 : i \in Tile
  BY <1>0, <1>1, TileFacts DEF OneWave, StepInv, InLoop
<1>3. LegalLoad(moves, TileCount)
  BY <1>0, <1>2, PipelineFacts DEF LegalStep
<1> HIDE DEF moves
<1>4. /\ Loaded(w, moves) \in [Sets -> Tile]
      /\ \A s \in Sets : Loaded(w, moves)[s] = IF s \in DOMAIN moves THEN moves[s] ELSE reg[w][s]
  <2>1. DOMAIN moves \subseteq Sets /\ \A s \in DOMAIN moves : moves[s] \in Tile
    BY <1>2, <1>3 DEF LegalLoad, Sets
  <2> QED
    BY <1>0, <2>1, LoadedType
<1>5. reg' \in [BlockWaves -> [Sets -> Tile]] /\ reg'[w] = Loaded(w, moves)
  BY <1>0, <1>1, <1>4 DEF TileTypeInv
<1>6. place' \in [BlockWaves -> Places] /\ Together'
  BY <1>0, <1>1, SameRegion DEF LoadTile, Places, Regions, Early, Reading, Storing, Ending
<1>7. TileTypeInv'
  BY <1>0, <1>1, <1>5, <1>6 DEF TileTypeInv
<1>8. OneWave(w)'
  <2>1. place'[w] = "multiply" /\ step'[w] = t
    BY <1>0, <1>1 DEF TileTypeInv
  <2>2. StepInv(w)'
    BY <1>1, <1>2, <2>1 DEF StepInv, InLoop, Early, TileCount
  <2>3. LdsInv(w)'
    BY <1>0, <1>1, <2>1 DEF OneWave, LdsInv, Reading, Slot, Code
  <2>4. InFlight(w, t)'
    <3> SUFFICES ASSUME t + 1 < TileCount PROVE reg'[w][Feed(t)] = t + 1
      BY <1>1 DEF InFlight, Feed, Slot, Code, TileCount
    <3>1. t \in 0 .. TileCount - 2
      BY <1>2
    <3>2. Feed(t) \in Sets /\ FeedsFrom(Code, t, Feed(t))
      BY <1>0, <3>1, PipelineFacts DEF Sets
    <3>3. CASE Feed(t) \in DOMAIN moves
      BY <1>4, <1>5, <3>2, <3>3 DEF FeedsFrom, moves
    <3>4. CASE Feed(t) \notin DOMAIN moves
      <4>1. reg[w][Feed(t)] = t + 1
        BY <1>0, <1>1, <3>4 DEF OneWave, RegInv, Coming, moves
      <4> QED
        BY <1>4, <1>5, <3>2, <3>4, <4>1
    <3> QED
      BY <3>3, <3>4
  <2>5. Coming(w, t + 1)'
    <3> SUFFICES ASSUME (t + 1) + 1 < TileCount, Feed(t + 1) \notin DOMAIN Code.body[t + 1].load
                 PROVE  reg'[w][Feed(t + 1)] = (t + 1) + 1
      BY <1>1 DEF Coming, Feed, Slot, Code, TileCount
    <3>1. t + 1 \in 0 .. TileCount - 2 /\ t + 1 # 0 /\ (t + 1) - 1 = t
      BY <1>2
    <3>2. Feed(t + 1) \in Sets /\ FeedsFrom(Code, t + 1, Feed(t + 1))
      BY <1>0, <3>1, PipelineFacts DEF Sets
    <3>3. Earlier(Code, t + 1) = moves
      BY <3>1 DEF Earlier, moves
    <3>4. Feed(t + 1) \in DOMAIN moves /\ moves[Feed(t + 1)] = (t + 1) + 1
      BY <3>2, <3>3 DEF FeedsFrom
    <3> QED
      BY <1>4, <1>5, <3>2, <3>4
  <2>6. RegInv(w)'
    BY <1>1, <2>1, <2>4, <2>5 DEF RegInv
  <2>7. AccInv(w)'
    <3>1. /\ \A i \in DOMAIN acc[w] : acc[w][i] = <<(i - 1) \div WaveCount, (i - 1) % WaveCount>>
          /\ Len(acc[w]) = t * WaveCount
      BY <1>0, <1>1 DEF OneWave, AccInv
    <3>2. t * WaveCount \in t * WaveCount .. t * WaveCount + WaveCount - 1
      BY <1>2, ProductNat
    <3> QED
      BY <1>1, <2>1, <3>1, <3>2 DEF AccInv
  <2> QED
    BY <2>2, <2>3, <2>6, <2>7 DEF OneWave
<1>9. ASSUME NEW v \in BlockWaves \ {w} PROVE OneWave(v)'
  <2>1. OneWave(v) /\ place'[v] = place[v] /\ reg'[v] = reg[v]
    BY <1>0, <1>1 DEF WaveInv, TileTypeInv
  <2> QED
    BY <1>0, <1>1, <2>1, OtherWaves
<1> QED
  BY <1>6, <1>7, <1>8, <1>9 DEF TileInv, WaveInv

(* The part of another wave is there and still the same: that wave is in   *)
(* the same step, between the same two barriers.                           *)
LEMMA MultiplyPartInv ==
  ASSUME TileInv, NEW w \in BlockWaves, MultiplyPart(w)
  PROVE  TileInv'
<1> DEFINE t == step[w]
           n == Len(acc[w])
           part == n % WaveCount
           next == IF part + 1 < WaveCount THEN "multiply" ELSE "sync"
           pair == <<lds[Slot(t)][part], part>>
<1>0. TileTypeInv /\ Together /\ WaveInv /\ OneWave(w)
  BY DEF TileInv, WaveInv
<1>1. /\ place[w] = "multiply" /\ place' = [place EXCEPT ![w] = next]
      /\ acc' = [acc EXCEPT ![w] = Append(acc[w], pair)]
      /\ kernel' = kernel /\ step' = step /\ lds' = lds /\ reg' = reg
  BY DEF MultiplyPart, Go, Body, Slot
<1>2. /\ TileCount \in Nat \ {0} /\ WaveCount \in Nat \ {0} /\ BlockWaves = 0 .. WaveCount - 1
      /\ t \in 0 .. TileCount - 1 /\ t \in Tile
  BY <1>0, <1>1, TileFacts DEF OneWave, StepInv, InLoop
<1>3. acc[w] \in Seq(Value \X BlockWaves) /\ n \in Nat /\ DOMAIN acc[w] = 1 .. n
  BY <1>0 DEF TileTypeInv
<1>4. n \in t * WaveCount .. t * WaveCount + WaveCount - 1 /\ t * WaveCount \in Nat
  BY <1>0, <1>1, <1>2, ProductNat DEF OneWave, AccInv
<1> HIDE DEF n, t
<1>5. n \div WaveCount = t /\ part = n - t * WaveCount /\ part \in BlockWaves
  <2> DEFINE r == n - t * WaveCount
  <2>1. r \in 0 .. WaveCount - 1 /\ n = t * WaveCount + r /\ t \in Nat
    BY <1>2, <1>3, <1>4
  <2> HIDE DEF r
  <2>2. (t * WaveCount + r) \div WaveCount = t /\ (t * WaveCount + r) % WaveCount = r
    BY <1>2, <2>1, DivisionUnique
  <2> QED
    BY <1>2, <2>1, <2>2 DEF r
<1> HIDE DEF part
<1>6. lds[Slot(t)][part] = t
  <2>1. place[w] \in Reading
    BY <1>1 DEF Reading
  <2>2. place[part] \in Reading /\ step[part] = t
    BY <1>0, <1>5, <2>1 DEF Together, Regions, t
  <2> QED
    BY <1>0, <1>5, <2>2 DEF WaveInv, OneWave, LdsInv
<1>7. pair = <<n \div WaveCount, n % WaveCount>> /\ pair \in Value \X BlockWaves
  BY <1>2, <1>5, <1>6 DEF Value, part
<1> HIDE DEF pair
<1>8. /\ acc'[w] = Append(acc[w], pair) /\ acc'[w] \in Seq(Value \X BlockWaves)
      /\ Len(acc'[w]) = n + 1
      /\ \A i \in 1 .. n : acc'[w][i] = acc[w][i]
      /\ acc'[w][n + 1] = pair
      /\ DOMAIN acc'[w] = 1 .. n + 1
  <2>1. acc'[w] = Append(acc[w], pair)
    BY <1>0, <1>1 DEF TileTypeInv
  <2> QED
    BY <1>3, <1>7, <2>1 DEF n
<1>9. acc' \in [BlockWaves -> Seq(Value \X BlockWaves)]
  BY <1>0, <1>1, <1>8 DEF TileTypeInv
<1>10. next \in {"multiply", "sync"}
  OBVIOUS
<1>11. place' \in [BlockWaves -> Places] /\ Together' /\ place'[w] = next
  <2>1. next \in Places /\ \A R \in Regions : "multiply" \in R <=> next \in R
    BY <1>10 DEF Places, Regions, Early, Reading, Storing, Ending
  <2>2. Go(w, "multiply", next)
    BY <1>1 DEF Go
  <2>3. place'[w] = next
    BY <1>0, <1>1 DEF TileTypeInv
  <2> HIDE DEF next
  <2> QED
    BY <1>0, <1>1, <2>1, <2>2, <2>3, SameRegion DEF Places, Regions, Reading
<1>12. TileTypeInv'
  BY <1>0, <1>1, <1>9, <1>11 DEF TileTypeInv
<1>13. OneWave(w)'
  <2>1. place'[w] \in {"multiply", "sync"} /\ step'[w] = t
    BY <1>1, <1>10, <1>11 DEF t
  <2>2. StepInv(w)'
    BY <1>1, <1>2, <2>1 DEF StepInv, InLoop, Early, TileCount
  <2>3. LdsInv(w)'
    BY <1>0, <1>1, <2>1 DEF OneWave, LdsInv, Reading, Slot, Code, t
  <2>4. RegInv(w)'
    BY <1>0, <1>1, <2>1 DEF OneWave, RegInv, InFlight, Coming, Feed, Slot, Code, TileCount, t
  <2>5. \A i \in DOMAIN acc'[w] : acc'[w][i] = <<(i - 1) \div WaveCount, (i - 1) % WaveCount>>
    <3> SUFFICES ASSUME NEW i \in 1 .. n + 1
                 PROVE  acc'[w][i] = <<(i - 1) \div WaveCount, (i - 1) % WaveCount>>
      BY <1>8
    <3>1. CASE i \in 1 .. n
      BY <1>0, <1>3, <1>8, <3>1 DEF OneWave, AccInv
    <3>2. CASE i = n + 1
      <4>1. i - 1 = n
        BY <1>3, <3>2
      <4> QED
        BY <1>7, <1>8, <3>2, <4>1
    <3> QED
      BY <1>3, <3>1, <3>2
  <2>6. /\ next = "multiply" => n + 1 \in t * WaveCount .. t * WaveCount + WaveCount - 1
        /\ next = "sync" => n + 1 = t * WaveCount + WaveCount
    BY <1>2, <1>3, <1>4, <1>5
  <2>7. AccInv(w)'
    BY <1>8, <1>11, <2>1, <2>5, <2>6 DEF AccInv
  <2> QED
    BY <2>2, <2>3, <2>4, <2>7 DEF OneWave
<1>14. ASSUME NEW v \in BlockWaves \ {w} PROVE OneWave(v)'
  <2>1. OneWave(v) /\ place'[v] = place[v] /\ acc'[v] = acc[v]
    BY <1>0, <1>1 DEF WaveInv, TileTypeInv
  <2> QED
    BY <1>0, <1>1, <2>1, OtherWaves
<1> QED
  BY <1>11, <1>12, <1>13, <1>14 DEF TileInv, WaveInv

LEMMA StoreTileInv ==
  ASSUME TileInv, NEW w \in BlockWaves, StoreTile(w)
  PROVE  TileInv'
<1> DEFINE t == step[w]
           moves == Code.body[t].store
<1>0. TileTypeInv /\ Together /\ WaveInv /\ OneWave(w)
  BY DEF TileInv, WaveInv
<1>1. /\ place[w] = "store" /\ place' = [place EXCEPT ![w] = "last_sync"]
      /\ lds' = Stored(w, moves)
      /\ kernel' = kernel /\ step' = step /\ reg' = reg /\ acc' = acc
  BY DEF StoreTile, Go, Body
<1>2. TileCount \in Nat \ {0} /\ t \in 0 .. TileCount - 1
  BY <1>0, <1>1, TileFacts DEF OneWave, StepInv, InLoop
<1>3. LegalStore(moves)
  BY <1>0, <1>2, PipelineFacts DEF LegalStep
<1>4. t + 1 < TileCount => Slot(t + 1) \in DOMAIN moves /\ Feed(t) = moves[Slot(t + 1)]
  <2>1. t + 1 < TileCount => t \in 0 .. TileCount - 2
    BY <1>2
  <2> QED
    BY <1>0, <2>1, PipelineFacts DEF Feed
<1> HIDE DEF moves
<1>5. /\ lds' \in [Slots -> [BlockWaves -> Value]]
      /\ \A s \in Slots : lds'[s][w] = IF s \in DOMAIN moves THEN reg[w][moves[s]] ELSE lds[s][w]
      /\ \A s \in Slots, v \in BlockWaves \ {w} : lds'[s][v] = lds[s][v]
  <2>1. DOMAIN moves \subseteq Slots /\ \A s \in DOMAIN moves : moves[s] \in Sets
    BY <1>3 DEF LegalStore, Sets
  <2> QED
    BY <1>0, <1>1, <2>1, StoredType
<1>6. place' \in [BlockWaves -> Places] /\ Together'
  BY <1>0, <1>1, SameRegion DEF StoreTile, Places, Regions, Early, Reading, Storing, Ending
<1>7. TileTypeInv'
  BY <1>0, <1>1, <1>5, <1>6 DEF TileTypeInv
<1>8. OneWave(w)'
  <2>1. place'[w] = "last_sync" /\ step'[w] = t
    BY <1>0, <1>1 DEF TileTypeInv
  <2>2. StepInv(w)'
    BY <1>1, <1>2, <2>1 DEF StepInv, InLoop, Early, TileCount
  <2>3. t + 1 < TileCount => lds'[Slot(t + 1)][w] = t + 1
    <3>1. t + 1 < TileCount => reg[w][Feed(t)] = t + 1
      BY <1>0, <1>1 DEF OneWave, RegInv, InFlight
    <3>2. DOMAIN moves \subseteq Slots
      BY <1>3 DEF LegalStore
    <3> QED
      BY <1>4, <1>5, <3>1, <3>2
  <2>4. LdsInv(w)'
    BY <1>1, <2>1, <2>3 DEF LdsInv, Reading, Slot, Code, TileCount
  <2>5. RegInv(w)'
    BY <1>0, <1>1, <2>1 DEF OneWave, RegInv, Coming, Feed, Slot, Code, TileCount
  <2>6. AccInv(w)'
    BY <1>0, <1>1, <2>1 DEF OneWave, AccInv
  <2> QED
    BY <2>2, <2>4, <2>5, <2>6 DEF OneWave
<1>9. ASSUME NEW v \in BlockWaves \ {w} PROVE OneWave(v)'
  <2>1. OneWave(v) /\ place'[v] = place[v]
    BY <1>0, <1>1 DEF WaveInv, TileTypeInv
  <2> QED
    BY <1>0, <1>1, <1>5, <2>1, OtherWaves
<1> QED
  BY <1>6, <1>7, <1>8, <1>9 DEF TileInv, WaveInv

(* The output rows replace keys that no wave reads any more.               *)
LEMMA StoreOutputInv ==
  ASSUME TileInv, NEW w \in BlockWaves, StoreOutput(w)
  PROVE  TileInv'
<1>0. TileTypeInv /\ Together /\ WaveInv /\ OneWave(w)
  BY DEF TileInv, WaveInv
<1>1. /\ place[w] = "output" /\ place' = [place EXCEPT ![w] = "output_sync"]
      /\ lds' = [lds EXCEPT ![0][w] = OutputRows]
      /\ kernel' = kernel /\ step' = step /\ reg' = reg /\ acc' = acc
  BY DEF StoreOutput, Go
<1>2. lds' \in [Slots -> [BlockWaves -> Value]]
  BY <1>0, <1>1 DEF TileTypeInv, Value, Slots
<1>3. \A s \in Slots, v \in BlockWaves \ {w} : lds'[s][v] = lds[s][v]
  BY <1>0, <1>1 DEF TileTypeInv, Slots
<1>4. place' \in [BlockWaves -> Places] /\ Together'
  BY <1>0, <1>1, SameRegion DEF StoreOutput, Places, Regions, Early, Reading, Storing, Ending
<1>5. TileTypeInv'
  BY <1>0, <1>1, <1>2, <1>4 DEF TileTypeInv
<1>6. OneWave(w)'
  <2>1. place'[w] = "output_sync"
    BY <1>0, <1>1 DEF TileTypeInv
  <2>2. StepInv(w)'
    BY <1>0, <1>1, <2>1 DEF OneWave, StepInv, InLoop, Early, TileCount
  <2>3. LdsInv(w)' /\ RegInv(w)'
    BY <2>1 DEF LdsInv, RegInv, Reading
  <2>4. AccInv(w)'
    BY <1>0, <1>1, <2>1 DEF OneWave, AccInv
  <2> QED
    BY <2>2, <2>3, <2>4 DEF OneWave
<1>7. ASSUME NEW v \in BlockWaves \ {w} PROVE OneWave(v)'
  <2>1. OneWave(v) /\ place'[v] = place[v]
    BY <1>0, <1>1 DEF WaveInv, TileTypeInv
  <2> QED
    BY <1>0, <1>1, <1>3, <2>1, OtherWaves
<1> QED
  BY <1>4, <1>5, <1>6, <1>7 DEF TileInv, WaveInv

(* A region has one barrier, so that waves that wait wait at the same one. *)
LEMMA SyncthreadsInv ==
  ASSUME TileInv, Syncthreads
  PROVE  TileInv'
<1> DEFINE Syncs == {"first_sync", "sync", "last_sync", "loop_left", "output_sync"}
<1>0. TileTypeInv /\ Together /\ WaveInv
  BY DEF TileInv
<1>1. /\ \A w \in BlockWaves : place[w] \in Syncs
      /\ place' = [w \in BlockWaves |-> AfterSync(w)]
      /\ step' = [w \in BlockWaves |-> IF place[w] = "last_sync" THEN step[w] + 1 ELSE step[w]]
      /\ kernel' = kernel /\ reg' = reg /\ lds' = lds /\ acc' = acc
  BY DEF Syncthreads
<1>2. /\ TileCount \in Nat \ {0} /\ WaveCount \in Nat \ {0}
      /\ DOMAIN Code.body = 0 .. TileCount - 1 /\ Slot(0) = 0
  BY <1>0, TileFacts, PipelineFacts
<1>3. ASSUME NEW v \in BlockWaves, NEW w \in BlockWaves
      PROVE  place[v] = place[w] /\ step[v] = step[w]
  <2>1. place[v] \in Syncs /\ place[w] \in Syncs
    BY <1>1
  <2>2. \A R \in Regions : place[v] \in R => place[w] \in R
    BY <1>0 DEF Together
  <2>3. /\ place[v] \in Early => place[w] \in Early
        /\ place[v] \in Reading => place[w] \in Reading
        /\ place[v] \in Storing => place[w] \in Storing
        /\ place[v] \in {"loop_left"} => place[w] \in {"loop_left"}
        /\ place[v] \in Ending => place[w] \in Ending
    BY <2>2 DEF Regions
  <2>4. place[v] = place[w]
    BY <2>1, <2>3 DEF Early, Reading, Storing, Ending
  <2> QED
    BY <1>0, <2>4 DEF Together
<1>4. ASSUME NEW w \in BlockWaves
      PROVE  /\ place'[w] = AfterSync(w)
             /\ step'[w] = IF place[w] = "last_sync" THEN step[w] + 1 ELSE step[w]
             /\ step[w] \in Nat /\ OneWave(w) /\ place[w] \in Syncs
  BY <1>0, <1>1 DEF TileTypeInv, WaveInv
<1>5. ASSUME NEW w \in BlockWaves
      PROVE  /\ place[w] = "first_sync" => place'[w] = "before"
             /\ place[w] = "sync" => place'[w] = "store"
             /\ place[w] = "last_sync" /\ step[w] + 1 < TileCount => place'[w] = "load"
             /\ place[w] = "last_sync" /\ ~(step[w] + 1 < TileCount) => place'[w] \in {"loop_left", "done"}
             /\ place[w] = "loop_left" => place'[w] = "output"
             /\ place[w] = "output_sync" => place'[w] = "done"
  <2>1. step[w] + 1 \in DOMAIN Code.body <=> step[w] + 1 < TileCount
    BY <1>2, <1>4
  <2>2. place[w] = "last_sync" =>
          place'[w] = IF step[w] + 1 \in DOMAIN Code.body THEN "load"
                      ELSE IF Code.output THEN "loop_left" ELSE "done"
    BY <1>4 DEF AfterSync
  <2>3. /\ place[w] = "first_sync" => place'[w] = "before"
        /\ place[w] = "sync" => place'[w] = "store"
        /\ place[w] = "loop_left" => place'[w] = "output"
        /\ place[w] = "output_sync" => place'[w] = "done"
    BY <1>4 DEF AfterSync
  <2> QED
    BY <2>1, <2>2, <2>3
<1>6. ASSUME NEW w \in BlockWaves
      PROVE  place'[w] \in {"before", "store", "load", "loop_left", "done", "output"}
  BY <1>4, <1>5
<1>7. TileTypeInv'
  <2>1. place' \in [BlockWaves -> Places]
    <3>1. \A w \in BlockWaves : place'[w] \in Places
      BY <1>6 DEF Places, Regions, Reading, Storing, Ending
    <3> QED
      BY <1>1, <3>1
  <2>2. step' \in [BlockWaves -> Nat]
    BY <1>1, <1>4
  <2> QED
    BY <1>0, <1>1, <2>1, <2>2 DEF TileTypeInv
<1>8. Together'
  <2> SUFFICES ASSUME NEW v \in BlockWaves, NEW w \in BlockWaves
               PROVE  step'[v] = step'[w] /\ place'[v] = place'[w]
    BY DEF Together
  <2>1. AfterSync(v) = AfterSync(w)
    BY <1>3 DEF AfterSync
  <2> QED
    BY <1>3, <1>4, <2>1
<1>9. ASSUME NEW w \in BlockWaves PROVE OneWave(w)'
  <2> DEFINE t == step[w]
  <2>1. OneWave(w) /\ t \in Nat /\ place[w] \in Syncs
    BY <1>4
  <2>2. \A s : Slot(s)' = Slot(s)
    BY <1>1 DEF Slot, Code
  <2>3. TileCount' = TileCount
    BY <1>1 DEF TileCount
  <2>4. (t + 1) * WaveCount = t * WaveCount + WaveCount
    BY <1>2, <2>1
  <2>5. CASE place[w] = "first_sync"
    <3>1. place'[w] = "before" /\ step'[w] = 0 /\ step[w] = 0
      BY <1>4, <1>5, <2>1, <2>5 DEF OneWave, StepInv, Early
    <3>2. StepInv(w)' /\ RegInv(w)'
      BY <3>1 DEF StepInv, RegInv, InLoop
    <3>3. LdsInv(w)'
      BY <1>1, <1>2, <2>1, <2>2, <2>5, <3>1 DEF OneWave, LdsInv
    <3>4. AccInv(w)'
      BY <1>1, <2>1, <2>5, <3>1 DEF OneWave, AccInv
    <3> QED
      BY <3>2, <3>3, <3>4 DEF OneWave
  <2>6. CASE place[w] = "sync"
    <3>1. place'[w] = "store" /\ step'[w] = step[w] /\ t \in 0 .. TileCount - 1
      BY <1>4, <1>5, <2>1, <2>6 DEF OneWave, StepInv, InLoop
    <3>2. StepInv(w)'
      BY <2>3, <3>1 DEF StepInv, InLoop, Early
    <3>3. LdsInv(w)'
      BY <3>1 DEF LdsInv, Reading
    <3>4. RegInv(w)'
      BY <1>1, <2>1, <2>6, <3>1 DEF OneWave, RegInv, InFlight, Coming, Feed, Slot, Code, TileCount
    <3>5. AccInv(w)'
      BY <1>1, <2>1, <2>6, <3>1 DEF OneWave, AccInv
    <3> QED
      BY <3>2, <3>3, <3>4, <3>5 DEF OneWave
  <2>7. CASE place[w] = "last_sync" /\ t + 1 < TileCount
    <3>1. place'[w] = "load" /\ step'[w] = t + 1
      BY <1>4, <1>5, <2>7
    <3>2. StepInv(w)'
      BY <1>2, <2>1, <2>3, <2>7, <3>1 DEF StepInv, InLoop, Early
    <3>3. LdsInv(w)'
      BY <1>1, <2>1, <2>2, <2>7, <3>1 DEF OneWave, LdsInv
    <3>4. RegInv(w)'
      BY <1>1, <2>1, <2>7, <3>1 DEF OneWave, RegInv, Coming, Feed, Slot, Code, TileCount
    <3>5. Len(acc'[w]) = (t + 1) * WaveCount
      BY <1>1, <2>1, <2>4, <2>7 DEF OneWave, AccInv
    <3>6. AccInv(w)'
      BY <1>1, <2>1, <3>1, <3>5 DEF OneWave, AccInv
    <3> QED
      BY <3>2, <3>3, <3>4, <3>6 DEF OneWave
  <2>8. CASE place[w] = "last_sync" /\ ~(t + 1 < TileCount)
    <3>1. place'[w] \in {"loop_left", "done"} /\ step'[w] = t + 1 /\ t + 1 = TileCount
      BY <1>2, <1>4, <1>5, <2>1, <2>8 DEF OneWave, StepInv, InLoop
    <3>2. StepInv(w)'
      BY <2>3, <3>1 DEF StepInv, InLoop, Early
    <3>3. LdsInv(w)' /\ RegInv(w)'
      BY <3>1 DEF LdsInv, RegInv, Reading
    <3>4. Len(acc'[w]) = (t + 1) * WaveCount
      BY <1>1, <2>1, <2>4, <2>8 DEF OneWave, AccInv
    <3>5. AccInv(w)'
      BY <1>1, <2>1, <3>1, <3>4 DEF OneWave, AccInv
    <3> QED
      BY <3>2, <3>3, <3>5 DEF OneWave
  <2>9. CASE place[w] \in {"loop_left", "output_sync"}
    <3>1. place'[w] \in {"output", "done"} /\ step'[w] = step[w] /\ step[w] = TileCount
      BY <1>4, <1>5, <2>1, <2>9 DEF OneWave, StepInv
    <3>2. StepInv(w)'
      BY <2>3, <3>1 DEF StepInv, InLoop, Early
    <3>3. LdsInv(w)' /\ RegInv(w)'
      BY <3>1 DEF LdsInv, RegInv, Reading
    <3>4. AccInv(w)'
      BY <1>1, <2>1, <2>9, <3>1 DEF OneWave, AccInv
    <3> QED
      BY <3>2, <3>3, <3>4 DEF OneWave
  <2> QED
    BY <2>1, <2>5, <2>6, <2>7, <2>8, <2>9
<1> QED
  BY <1>7, <1>8, <1>9 DEF TileInv, WaveInv
-----------------------------------------------------------------------------
LEMMA TileNextInv == TileInv /\ [BlockNext]_blockVars => TileInv'
<1> SUFFICES ASSUME TileInv, [BlockNext]_blockVars PROVE TileInv'
  OBVIOUS
<1>1. ASSUME NEW w \in BlockWaves,
             \/ FirstLoad(w) \/ FirstStore(w) \/ LoadBefore(w) \/ LoadTile(w)
             \/ MultiplyPart(w) \/ StoreTile(w) \/ StoreOutput(w)
      PROVE  TileInv'
  BY <1>1, FirstLoadInv, FirstStoreInv, LoadBeforeInv, LoadTileInv, MultiplyPartInv,
     StoreTileInv, StoreOutputInv
<1>2. CASE Syncthreads
  BY <1>2, SyncthreadsInv
<1>3. CASE UNCHANGED blockVars
  <2>1. /\ kernel' = kernel /\ place' = place /\ step' = step /\ reg' = reg /\ lds' = lds
        /\ acc' = acc
    BY <1>3 DEF blockVars
  <2>2. TileTypeInv' /\ Together'
    BY <2>1 DEF TileInv, TileTypeInv, Together
  <2>3. ASSUME NEW w \in BlockWaves PROVE OneWave(w)'
    BY <2>1, OtherWaves DEF TileInv, WaveInv
  <2> QED
    BY <2>2, <2>3 DEF TileInv, WaveInv
<1> QED
  BY <1>1, <1>2, <1>3 DEF BlockNext

LEMMA TileInvariant == BlockSpec => []TileInv
<1> QED
  BY TileInitInv, TileNextInv, PTL DEF BlockSpec

(* Every kernel, with any number of waves and tiles, multiplies each part  *)
(* of each tile of the k range once, in order, whatever the interleaving   *)
(* of its waves between two barriers, and loads nothing past its end.      *)
THEOREM EachTileOnce == BlockSpec => []SumsEachTileOnce
<1>1. TileInv => SumsEachTileOnce
  <2> SUFFICES ASSUME TileInv, NEW w \in BlockWaves
               PROVE  /\ \A i \in DOMAIN acc[w] : acc[w][i] = <<(i - 1) \div WaveCount, (i - 1) % WaveCount>>
                      /\ reg[w] \in [Sets -> Tile]
                      /\ place[w] = "done" => Len(acc[w]) = kernel.tiles * WaveCount
    BY DEF SumsEachTileOnce
  <2>1. OneWave(w) /\ reg[w] \in [Sets -> Tile]
    BY DEF TileInv, TileTypeInv, WaveInv
  <2>2. place[w] = "done" => Len(acc[w]) = kernel.tiles * WaveCount
    BY <2>1 DEF OneWave, StepInv, AccInv, TileCount
  <2> QED
    BY <2>1, <2>2 DEF OneWave, AccInv
<1> QED
  BY <1>1, TileInvariant, PTL
-----------------------------------------------------------------------------
(* A split is a whole number of groups, and the splits reach the end of k. *)
LEMMA SplitChunkGroups ==
  ASSUME NEW K \in Nat, NEW S \in Nat \ {0}, K # 0
  PROVE  \E m \in Nat \ {0} : SplitChunk(K, S) = 8 * m /\ S * (8 * m) >= K
<1> DEFINE q == (K + S - 1) \div S
           r == (K + S - 1) % S
           m == (q + 7) \div 8
<1>1. q \in Nat /\ r \in 0 .. S - 1 /\ K + S - 1 = q * S + r
  <2>1. K + S - 1 \in Nat
    OBVIOUS
  <2> QED
    BY <2>1, Division
<1> HIDE DEF q, r
<1>2. q * S >= K /\ q * S \in Nat
  BY <1>1, ProductNat
<1>3. q # 0
  BY <1>2
<1>4. m \in Nat \ {0} /\ 8 * m >= q
  BY <1>1, <1>3
<1>5. SplitChunk(K, S) = 8 * m
  BY DEF SplitChunk, RoundUp8, q
<1> HIDE DEF m
<1>6. S * (8 * m) >= K
  <2> DEFINE d == 8 * m - q
  <2>1. d \in Nat /\ 8 * m = q + d
    BY <1>1, <1>4
  <2> HIDE DEF d
  <2>2. S * d \in Nat /\ S * (q + d) = q * S + S * d
    BY <1>1, <2>1, ProductNat
  <2> QED
    BY <1>2, <2>1, <2>2
<1> QED
  BY <1>4, <1>5, <1>6

(* Between two multiples of 8 the groups of 8 leave nothing out.           *)
LEMMA GroupsFill ==
  ASSUME NEW b \in Nat, NEW e \in Nat, NEW g \in Nat, e <= g, NEW k \in Nat
  PROVE  (\E i \in 0 .. ((8 * g) \div 32), x \in 0 .. 3 :
             /\ 8 * b + 32 * i < 8 * e
             /\ ((8 * b + 32 * i) + 8 * x) + 7 < 8 * e
             /\ k \in ((8 * b + 32 * i) + 8 * x) .. (((8 * b + 32 * i) + 8 * x) + 7))
          <=> 8 * b <= k /\ k < 8 * e
<1> DEFINE Hit(i, x) == /\ 8 * b + 32 * i < 8 * e
                        /\ ((8 * b + 32 * i) + 8 * x) + 7 < 8 * e
                        /\ k \in ((8 * b + 32 * i) + 8 * x) .. (((8 * b + 32 * i) + 8 * x) + 7)
<1>1. ASSUME NEW i \in 0 .. ((8 * g) \div 32), NEW x \in 0 .. 3, Hit(i, x)
      PROVE  8 * b <= k /\ k < 8 * e
  BY <1>1
<1>2. ASSUME 8 * b <= k, k < 8 * e
      PROVE  \E i \in 0 .. ((8 * g) \div 32), x \in 0 .. 3 : Hit(i, x)
  <2> DEFINE d == k - 8 * b
             i == d \div 32
             x == (d % 32) \div 8
  <2>1. d \in Nat /\ k = 8 * b + d /\ d < 8 * g
    BY <1>2
  <2> HIDE DEF d
  <2>2. i \in Nat /\ x \in 0 .. 3 /\ 32 * i + 8 * x <= d /\ d <= (32 * i + 8 * x) + 7
    BY <2>1
  <2>3. i <= (8 * g) \div 32
    BY <2>1
  <2> HIDE DEF i, x
  <2>4. Hit(i, x)
    BY <1>2, <2>1, <2>2
  <2>5. i \in 0 .. ((8 * g) \div 32)
    BY <2>2, <2>3
  <2> HIDE DEF Hit
  <2> QED
    BY <2>2, <2>4, <2>5
<1> QED
  BY <1>1, <1>2

LEMMA SplitReadsItsRange ==
  ASSUME NEW g \in Nat \ {0}, NEW S \in Nat \ {0}, NEW s \in Nat, NEW k \in 0 .. 8 * g - 1
  PROVE  k \in SplitReads(8 * g, S, s) <=>
           s * SplitChunk(8 * g, S) <= k /\ k < s * SplitChunk(8 * g, S) + SplitChunk(8 * g, S)
<1> DEFINE K == 8 * g
           c == SplitChunk(K, S)
           begin == SplitBegin(K, S, s)
           end == SplitEnd(K, S, s)
<1>0. K \in Nat /\ K # 0
  OBVIOUS
<1>1. PICK m \in Nat \ {0} : c = 8 * m
  BY <1>0, SplitChunkGroups
<1> HIDE DEF c
<1> DEFINE b == s * m
           e == IF g < b + m THEN g ELSE b + m
<1>2. b \in Nat /\ e \in Nat /\ e <= g
  BY ProductNat
<1>3. s * c = 8 * b
  BY <1>1
<1>4. begin = 8 * b
  BY <1>3 DEF SplitBegin, c
<1> HIDE DEF b, begin
<1>5. end = Min({K, begin + c})
  BY DEF SplitEnd, begin, c
<1>6. end = 8 * e
  BY <1>1, <1>2, <1>4, <1>5, MinOfTwo
<1> HIDE DEF end
<1>7. k \in SplitReads(K, S, s) <=>
        \E i \in 0 .. (K \div 32), x \in 0 .. 3 :
          /\ begin + 32 * i < end
          /\ ((begin + 32 * i) + 8 * x) + 7 < end
          /\ k \in ((begin + 32 * i) + 8 * x) .. (((begin + 32 * i) + 8 * x) + 7)
  <2>1. SplitReads(K, S, s) =
          LET tiles == {begin + 32 * i : i \in 0 .. (K \div 32)}
              groups == {bk + 8 * x : bk \in {a \in tiles : a < end}, x \in 0 .. 3}
          IN  UNION {h .. (h + 7) : h \in {a \in groups : a + 7 < end}}
    BY DEF SplitReads, BK, begin, end
  <2> DEFINE First(i, x) == (begin + 32 * i) + 8 * x
             tiles == {begin + 32 * i : i \in 0 .. (K \div 32)}
             early == {a \in tiles : a < end}
             groups == {bk + 8 * x : bk \in early, x \in 0 .. 3}
  <2>2. SplitReads(K, S, s) = UNION {h .. (h + 7) : h \in {a \in groups : a + 7 < end}}
    BY <2>1
  <2> HIDE DEF K
  <2>3. \A h : h \in groups <=>
          \E i \in 0 .. (K \div 32), x \in 0 .. 3 : begin + 32 * i < end /\ h = First(i, x)
    <3>1. \A a : a \in early <=> \E i \in 0 .. (K \div 32) : a = begin + 32 * i /\ a < end
      OBVIOUS
    <3> HIDE DEF early
    <3>2. ASSUME NEW h PROVE h \in groups <=> \E a \in early, x \in 0 .. 3 : h = a + 8 * x
      OBVIOUS
    <3> HIDE DEF groups
    <3>3. ASSUME NEW h PROVE (\E a \in early, x \in 0 .. 3 : h = a + 8 * x)
            <=> \E i \in 0 .. (K \div 32), x \in 0 .. 3 : begin + 32 * i < end /\ h = First(i, x)
      <4>1. ASSUME NEW a \in early, NEW x \in 0 .. 3, h = a + 8 * x
            PROVE  \E i \in 0 .. (K \div 32), y \in 0 .. 3 : begin + 32 * i < end /\ h = First(i, y)
        <5>1. PICK i \in 0 .. (K \div 32) : a = begin + 32 * i /\ a < end
          BY <3>1
        <5> QED
          BY <4>1, <5>1
      <4>2. ASSUME NEW i \in 0 .. (K \div 32), NEW x \in 0 .. 3, begin + 32 * i < end, h = First(i, x)
            PROVE  \E a \in early, y \in 0 .. 3 : h = a + 8 * y
        <5> DEFINE a == begin + 32 * i
        <5>1. a \in early
          BY <3>1, <4>2
        <5> QED
          BY <4>2, <5>1
      <4> QED
        BY <4>1, <4>2
    <3> QED
      BY <3>2, <3>3
  <2> HIDE DEF groups
  <2>4. k \in SplitReads(K, S, s) <=> \E h \in groups : h + 7 < end /\ k \in h .. (h + 7)
    BY <2>2
  <2> QED
    BY <2>3, <2>4
<1>8. k \in SplitReads(K, S, s) <=> 8 * b <= k /\ k < 8 * e
  <2> HIDE DEF e
  <2>1. k \in Nat /\ g \in Nat
    OBVIOUS
  <2>2. (\E i \in 0 .. ((8 * g) \div 32), x \in 0 .. 3 :
             /\ 8 * b + 32 * i < 8 * e
             /\ ((8 * b + 32 * i) + 8 * x) + 7 < 8 * e
             /\ k \in ((8 * b + 32 * i) + 8 * x) .. (((8 * b + 32 * i) + 8 * x) + 7))
          <=> 8 * b <= k /\ k < 8 * e
    BY <1>2, <2>1, GroupsFill
  <2> QED
    BY <1>4, <1>6, <1>7, <2>2
<1>9. k < 8 * e <=> k < 8 * b + c
  BY <1>1, <1>2
<1> QED
  BY <1>3, <1>8, <1>9 DEF c

LEMMA OneSplit ==
  ASSUME NEW g \in Nat \ {0}, NEW S \in Nat \ {0}, NEW k \in 0 .. 8 * g - 1
  PROVE  Cardinality({s \in 0 .. S - 1 : k \in SplitReads(8 * g, S, s)}) = 1
<1> DEFINE c == SplitChunk(8 * g, S)
           q == k \div c
<1>1. c \in Nat \ {0} /\ S * c >= 8 * g
  <2>1. 8 * g \in Nat /\ 8 * g # 0
    OBVIOUS
  <2>2. PICK m \in Nat \ {0} : c = 8 * m /\ S * (8 * m) >= 8 * g
    BY <2>1, SplitChunkGroups
  <2> QED
    BY <2>2
<1>2. \A s \in Nat : k \in SplitReads(8 * g, S, s) <=> s * c <= k /\ k < s * c + c
  BY SplitReadsItsRange
<1> HIDE DEF c
<1>2a. k \in Nat
  OBVIOUS
<1>3. q \in Nat /\ k % c \in 0 .. c - 1 /\ k = q * c + (k % c) /\ q * c \in Nat
  BY <1>1, <1>2a, Division, ProductNat
<1> HIDE DEF q
<1>4. q \in 0 .. S - 1
  <2> SUFFICES ASSUME S <= q PROVE FALSE
    BY <1>3
  <2>1. (q - S) * c \in Nat /\ (q - S) * c = q * c - S * c
    BY <1>1, <1>3, ProductNat
  <2> QED
    BY <1>1, <1>3, <2>1
<1>5. ASSUME NEW s \in Nat, s * c <= k, k < s * c + c PROVE s = q
  <2>1. s * c \in Nat
    BY <1>1, ProductNat
  <2>2. ~(s < q) /\ ~(q < s)
    BY <1>1, <1>3, <1>5, <2>1, NextMultiple
  <2> QED
    BY <1>3, <2>2
<1>6. q * c <= k /\ k < q * c + c
  BY <1>1, <1>3
<1>7. {s \in 0 .. S - 1 : k \in SplitReads(8 * g, S, s)} = {q}
  BY <1>2, <1>3, <1>4, <1>5, <1>6
<1> QED
  BY <1>7, FS_Singleton

(* The splits of the router's k range share every element out, for any     *)
(* number of groups of 8 and of splits.                                    *)
THEOREM SplitsShareK == BlockSpec => []SplitsCoverK
<1>1. TileInv => SplitsCoverK
  <2> SUFFICES ASSUME TileInv, NEW groups \in 1 .. MaxGroups * kernel.tiles, NEW splits \in 1 .. 8,
                      NEW k \in 0 .. 8 * groups - 1
               PROVE  LET reads == [s \in 0 .. splits - 1 |-> SplitReads(8 * groups, splits, s)]
                      IN  Cardinality({s \in DOMAIN reads : k \in reads[s]}) = 1
    BY DEF SplitsCoverK
  <2> DEFINE reads == [s \in 0 .. splits - 1 |-> SplitReads(8 * groups, splits, s)]
  <2>1. groups \in Nat \ {0} /\ splits \in Nat \ {0}
    BY TileFacts, TilesAssumption, ProductNat DEF TileInv, TileCount
  <2>2. {s \in DOMAIN reads : k \in reads[s]} = {s \in 0 .. splits - 1 : k \in SplitReads(8 * groups, splits, s)}
    OBVIOUS
  <2> QED
    BY <2>1, <2>2, OneSplit
<1> QED
  BY <1>1, TileInvariant, PTL
=============================================================================
