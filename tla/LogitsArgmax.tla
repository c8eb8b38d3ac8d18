---------------------------- MODULE LogitsArgmax ----------------------------
(***************************************************************************)
(* The next token of each row: the epilogue of the logits GEMM and the     *)
(* kernels around it (getp_matmul_logits_argmax_bf16 of                    *)
(* src/src/hip/forward.hip).  Blocks and the waves of a block run in any   *)
(* order and meet in atomics: on the block's smax and sidx in LDS, and on  *)
(* pairs, which all column blocks of a row share.                          *)
(*                                                                         *)
(* One row stands for the rows of a row block: rows never meet.  A logit   *)
(* is a small sign-and-magnitude number, as a float is; it is never -0 or  *)
(* NaN.                                                                    *)
(***************************************************************************)
EXTENDS Integers, FiniteSets, FiniteSetsExt

CONSTANTS Shapes,      \* the <<M, N, values>> to check: rows, vocabulary, logits
          G,           \* GETP_LOGITS_SWZ_G: row blocks of a group
          WavesN,      \* waves of a block side by side in N
          WN,          \* columns of a wave
          Magnitude,   \* a float's magnitude is below it, the index too
          Tolerance    \* two values are near when they differ by at most 1/Tolerance

ASSUME ArgmaxAssumption ==
  /\ {G, WavesN, WN, Magnitude, Tolerance} \subseteq Nat \ {0}
  /\ \A s \in Shapes : /\ s[1] \in Nat \ {0} /\ s[2] \in 1 .. Magnitude - 2
                       /\ s[3] \subseteq 2 - Magnitude .. Magnitude - 1

VARIABLES shape, logits,
          pc,       \* [block -> [wave -> where it is in the epilogue]]
          old,      \* [block -> [wave -> the value its CAS loop compares with]]
          smax,     \* [block -> the largest logit of its columns so far]
          sidx,     \* [block -> the smallest index near it so far]
          pairs     \* [row -> the packed value and index]

vars == <<shape, logits, pc, old, smax, sidx, pairs>>

M == shape[1]
N == shape[2]
Values == shape[3]
Rows == 0 .. M - 1
Waves == 0 .. WavesN - 1
BN == WavesN * WN
IntMax == Magnitude - 1
NegInfinity == 1 - Magnitude
Larger(a, b) == IF a > b THEN a ELSE b
Abs(v) == IF v < 0 THEN -v ELSE v
-----------------------------------------------------------------------------
(* The bits of a float compare like unsigned integers once the negative    *)
(* ones are complemented; below them the index, so that the smaller wins.  *)
Bits(v) == IF v < 0 THEN Magnitude - v ELSE v
OrderPreservingBits(v) ==
  IF Bits(v) >= Magnitude THEN 2 * Magnitude - 1 - Bits(v) ELSE Bits(v) + Magnitude
Pack(v, index) == OrderPreservingBits(v) * Magnitude + (Magnitude - 1 - index)
UnpackIndex(p) == Magnitude - 1 - (p % Magnitude)

Near(v, m) == Tolerance * Abs(v - m) <= Larger(Abs(v), Abs(m))

(* Grid and swizzle: within a group of G row blocks the row runs fastest;  *)
(* a block past the last row returns at once.                              *)
ColumnBlocks == (N + BN - 1) \div BN
RowsUp == ((M + G - 1) \div G) * G
Grid == 0 .. ColumnBlocks * RowsUp - 1
Group(b) == b \div (G * ColumnBlocks)
InGroup(b) == b - Group(b) * G * ColumnBlocks
BlockRow(b) == Group(b) * G + (InGroup(b) % G)
BlockColumn(b) == InGroup(b) \div G

Columns(b, w) ==
  LET first == BlockColumn(b) * BN + WN * w
  IN  {c \in first .. first + WN - 1 : c < N}
Logit(b, c) == logits[BlockRow(b)][c]
Best(b, w) == Max({Logit(b, c) : c \in Columns(b, w)} \cup {NegInfinity})

Init ==
  /\ shape \in Shapes
  /\ logits \in [Rows -> [0 .. N - 1 -> Values]]
  /\ pc = [b \in Grid |-> [w \in Waves |-> IF BlockRow(b) < M THEN "max" ELSE "done"]]
  /\ old = [b \in Grid |-> [w \in Waves |-> NegInfinity]]
  /\ smax = [b \in Grid |-> NegInfinity]
  /\ sidx = [b \in Grid |-> IntMax]
  /\ pairs = [r \in Rows |-> Pack(NegInfinity, N)]

At(b, w, label) == pc[b][w] = label
GoTo(b, w, label) == pc' = [pc EXCEPT ![b][w] = label]

(* atomicMaxFloat: one read, and then compare-and-swap until the value     *)
(* that was there is not smaller - also once more after the swap went in.  *)
ReadMax(b, w) ==
  /\ At(b, w, "max")
  /\ IF Best(b, w) > NegInfinity
       THEN /\ old' = [old EXCEPT ![b][w] = smax[b]]
            /\ GoTo(b, w, "cas")
       ELSE /\ GoTo(b, w, "maxed")
            /\ UNCHANGED old
  /\ UNCHANGED <<shape, logits, smax, sidx, pairs>>

SwapMax(b, w) ==
  /\ At(b, w, "cas")
  /\ IF Best(b, w) > old[b][w]
       THEN /\ smax' = [smax EXCEPT ![b] = IF @ = old[b][w] THEN Best(b, w) ELSE @]
            /\ old' = [old EXCEPT ![b][w] = smax[b]]
            /\ UNCHANGED pc
       ELSE /\ GoTo(b, w, "maxed")
            /\ UNCHANGED <<old, smax>>
  /\ UNCHANGED <<shape, logits, sidx, pairs>>

SyncThreads(b, from, to) ==
  /\ \A w \in Waves : At(b, w, from)
  /\ pc' = [pc EXCEPT ![b] = [w \in Waves |-> to]]
  /\ UNCHANGED <<shape, logits, old, smax, sidx, pairs>>

(* atomicMin of the wave's first column whose logit is near the maximum.   *)
MinIndex(b, w) ==
  /\ At(b, w, "min")
  /\ sidx' = [sidx EXCEPT ![b] =
       Min({@} \cup {c \in Columns(b, w) : Near(Logit(b, c), smax[b])})]
  /\ GoTo(b, w, "found")
  /\ UNCHANGED <<shape, logits, old, smax, pairs>>

UpdatePairTolerant(b) ==           \* Mutant: the replaced update, index first when near
  /\ \A w \in Waves : At(b, w, "update")
  /\ LET r == BlockRow(b)
         best == CHOOSE v \in Values \cup {NegInfinity} :
                   OrderPreservingBits(v) = pairs[r] \div Magnitude
     IN  pairs' = [pairs EXCEPT ![r] =
           IF best # NegInfinity /\ Near(smax[b], best)
             THEN IF sidx[b] < UnpackIndex(@) THEN Pack(smax[b], sidx[b]) ELSE @
             ELSE Larger(@, Pack(smax[b], sidx[b]))]
  /\ pc' = [pc EXCEPT ![b] = [w \in Waves |-> "done"]]
  /\ UNCHANGED <<shape, logits, old, smax, sidx>>

(* atomicMax on the row's pair, by the thread of the block that has the row. *)
UpdatePair(b) ==
  /\ \A w \in Waves : At(b, w, "update")
  /\ pairs' = [pairs EXCEPT ![BlockRow(b)] = Larger(@, Pack(smax[b], sidx[b]))]
  /\ pc' = [pc EXCEPT ![b] = [w \in Waves |-> "done"]]
  /\ UNCHANGED <<shape, logits, old, smax, sidx>>

Done == \A b \in Grid : \A w \in Waves : At(b, w, "done")

Next ==
  \/ \E b \in Grid :
       \/ \E w \in Waves : ReadMax(b, w) \/ SwapMax(b, w) \/ MinIndex(b, w)
       \/ SyncThreads(b, "maxed", "min") \/ SyncThreads(b, "found", "update")
       \/ UpdatePair(b)
  \/ Done /\ UNCHANGED vars

Spec == Init /\ [][Next]_vars
-----------------------------------------------------------------------------
Out(r) == UnpackIndex(pairs[r])
Largest(S, r) == Max({logits[r][c] : c \in S})

(* The token of a row depends on its logits alone - not on the order in    *)
(* which blocks, waves and swaps happen.  It is in the first of the tiles  *)
(* of BN columns that have the row's largest logit, and there the first    *)
(* whose logit is near it (docs/MODEL.md:323-341).                         *)
TileOf(c) == c \div BN
FirstNear(r) ==
  LET largest == Largest(0 .. N - 1, r)
      first   == Min({c \in 0 .. N - 1 : logits[r][c] = largest})
  IN  Min({c \in 0 .. N - 1 : TileOf(c) = TileOf(first) /\ Near(logits[r][c], largest)})
ArgmaxReproducible == Done => \A r \in Rows : Out(r) = FirstNear(r)
=============================================================================
