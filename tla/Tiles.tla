------------------------------- MODULE Tiles -------------------------------
(***************************************************************************)
(* The k loops of the tiled kernels of src/src/hip/forward.hip, as the     *)
(* program that module Workgroup runs.  Four pipelines serve ten kernels:  *)
(*   one ahead   - the next tile waits in registers while this one is      *)
(*                 multiplied, and replaces it in the same LDS buffer;     *)
(*   two ahead   - two register sets, each loaded two steps before it is   *)
(*                 stored, the loop unrolled by two;                       *)
(*   ping-pong   - one tile ahead, two LDS buffers;                        *)
(*   prefetch    - flash attention: two tiles of keys in flight, the loop  *)
(*                 unrolled by two with a way out in the middle.           *)
(* A variant is [name, tiles] (flash attention: tiles of 16 keys).         *)
(***************************************************************************)
EXTENDS Integers, FiniteSets, FiniteSetsExt

CONSTANTS WaveCount,     \* the waves of a block
          MaxTiles,      \* bound: tiles of the k range
          MaxGroups      \* bound: 8-element groups of a split k range, per tile

ASSUME TilesAssumption == {WaveCount, MaxTiles, MaxGroups} \subseteq Nat \ {0}

(***************************************************************************)
(* A program has a body for each step of the loop, and what comes before   *)
(* and after the loop.  load is a function from the register sets loaded   *)
(* to the tiles, store one from the LDS slots stored to the register sets, *)
(* and multiply the slot read in between.  Every kernel has put tile 0     *)
(* into slot 0 before, through registers of its own.                       *)
(***************************************************************************)
Nothing == [x \in {} |-> 0]
Load(set, tile) == [s \in {set} |-> tile]
Store(set, slot) == [s \in {slot} |-> set]
When(condition, moves) == IF condition THEN moves ELSE Nothing

Step(load, slot, store) == [load |-> load, multiply |-> slot, store |-> store]
Program(before, body, output) == [before |-> before, body |-> body, output |-> output]
Abort == Program(Nothing, << >>, FALSE)

OneAhead(n) ==
  Program(Nothing,
          [t \in 0 .. n - 1 |-> Step(When(t + 1 < n, Load(0, t + 1)), 0,
                                     When(t + 1 < n, Store(0, 0)))],
          FALSE)

\* Branch-free: a tile past the end is a second load of the last one.
Clamped(n, tile) == IF tile < n THEN tile ELSE n - 1

\* The loop is unrolled by two: its last trip takes both steps.
Unrolled(n) == 0 .. 2 * ((n + 1) \div 2) - 1

\* A changed TwoAhead: it stores the set it has just begun to load.
TwoAheadSameSet(n) ==
  Program(Load(1, Clamped(n, 1)),
          [t \in Unrolled(n) |-> Step(Load(t % 2, Clamped(n, t + 2)), 0, Store(t % 2, 0))],
          FALSE)
TwoAhead(n) ==
  Program(Load(1, Clamped(n, 1)),
          [t \in Unrolled(n) |-> Step(Load(t % 2, Clamped(n, t + 2)), 0, Store(1 - (t % 2), 0))],
          FALSE)

PingPong(n) ==
  Program(Nothing,
          [t \in 0 .. n - 1 |-> Step(When(t + 1 < n, Load(0, t + 1)), t % 2,
                                     When(t + 1 < n, Store(0, 1 - (t % 2))))],
          FALSE)

\* Flash attention, 16 x 16 x 16.  Both sets begin with tile 1.  The output rows reuse the
\* LDS of the keys, so the waves meet between the loop and the first of those stores.
Prefetch(n) ==
  Program(When(n > 1, [s \in {0, 1} |-> 1]),
          [t \in 0 .. n - 1 |-> Step(When(t + 2 < n, Load(1 - (t % 2), t + 2)), 0,
                                     When(t + 1 < n, Store(t % 2, 0)))],
          TRUE)

(***************************************************************************)
(* The kernels.  Even(n) is what the launchers of the two-ahead loops      *)
(* check: they abort, or take the one-ahead loop, when the number of tiles *)
(* is odd.                                                                 *)
(***************************************************************************)
Even(n) == n % 2 = 0

Mlp1(n) == IF Even(n) THEN TwoAhead(n) ELSE Abort
Mlp2(n) == IF Even(n) THEN TwoAhead(n) ELSE Abort
Qkv(n) == IF Even(n) THEN TwoAhead(n) ELSE OneAhead(n)
QkvLarge(n) == OneAhead(n)                                      \* more than 1024 rows
AttnOWide(n) == IF Even(n) THEN TwoAhead(n) ELSE Abort
AttnONarrow(n) == IF Even(n) THEN OneAhead(n) ELSE Abort
Logits(n) == OneAhead(n)
Router(n) == PingPong(n)
RouterSplit(n) == PingPong(n)
FlashAttention(n) == Prefetch(n)
FlashEven(n) == OneAhead(n)        \* the 4 x 4 x 4 kernels of the FLASH_MFMA16=0 build
FlashOdd(n) == OneAhead(n)

Variants ==
  [name : {"mlp1", "mlp2", "qkv", "qkv_large", "attn_o_wide", "attn_o_narrow", "logits",
           "router", "router_split", "flash", "flash_even", "flash_odd"},
   tiles : 1 .. MaxTiles]

CodeOf(v) ==
  CASE v.name = "mlp1" -> Mlp1(v.tiles)
    [] v.name = "mlp2" -> Mlp2(v.tiles)
    [] v.name = "qkv" -> Qkv(v.tiles)
    [] v.name = "qkv_large" -> QkvLarge(v.tiles)
    [] v.name = "attn_o_wide" -> AttnOWide(v.tiles)
    [] v.name = "attn_o_narrow" -> AttnONarrow(v.tiles)
    [] v.name = "logits" -> Logits(v.tiles)
    [] v.name = "router" -> Router(v.tiles)
    [] v.name = "router_split" -> RouterSplit(v.tiles)
    [] v.name = "flash" -> FlashAttention(v.tiles)
    [] v.name = "flash_even" -> FlashEven(v.tiles)
    [] v.name = "flash_odd" -> FlashOdd(v.tiles)

Launched == {v \in Variants : CodeOf(v) # Abort}

(***************************************************************************)
(* The k range of one split of the router GEMM.  The loaders work in       *)
(* groups of 8 elements and fill a group with zeros when it crosses the    *)
(* end of the split; K is a multiple of 8.                                 *)
(***************************************************************************)
BK == 32

RoundUp8(n) == 8 * ((n + 7) \div 8)
SplitChunkUnrounded(K, splits) == (K + splits - 1) \div splits   \* a changed SplitChunk
SplitChunk(K, splits) == RoundUp8((K + splits - 1) \div splits)
SplitBegin(K, splits, split) == split * SplitChunk(K, splits)
SplitEnd(K, splits, split) == Min({K, SplitBegin(K, splits, split) + SplitChunk(K, splits)})

\* The elements of k that the blocks of one split multiply.
SplitReads(K, splits, split) ==
  LET begin == SplitBegin(K, splits, split)
      end   == SplitEnd(K, splits, split)
      tiles == {begin + BK * i : i \in 0 .. (K \div BK)}
      groups == {bk + 8 * x : bk \in {b \in tiles : b < end}, x \in 0 .. (BK \div 8 - 1)}
  IN  UNION {g .. (g + 7) : g \in {h \in groups : h + 7 < end}}
=============================================================================
