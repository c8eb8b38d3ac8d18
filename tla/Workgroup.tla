----------------------------- MODULE Workgroup -----------------------------
(***************************************************************************)
(* One workgroup of a tiled kernel of src/src/hip/forward.hip.  Waves run  *)
(* the same code without a common clock: they load tiles of the k range    *)
(* from memory into register sets, store them to local memory (LDS), each  *)
(* wave its own part, and multiply what all of them stored.  Only          *)
(* __syncthreads() orders the waves.                                       *)
(*                                                                         *)
(* A tile is known by its index; what matters is which tile an LDS slot    *)
(* holds when it is read.  The program of each kernel is in module Tiles.  *)
(***************************************************************************)
EXTENDS Tiles, Sequences

VARIABLES kernel,    \* the variant the block runs
          place,     \* [wave -> where it is in the program]
          step,      \* [wave -> the step of the loop it is in]
          reg,       \* [wave -> [register set -> tile]]
          lds,       \* [slot -> [wave -> the tile whose part this wave stored last]]
          acc        \* [wave -> the (tile, part) pairs it has multiplied, in order]

blockVars == <<kernel, place, step, reg, lds, acc>>

BlockWaves == 0 .. WaveCount - 1
Sets  == 0 .. 2       \* two register sets of a pipeline, and the one of the first tile
Slots == 0 .. 1
Junk  == MaxTiles + 2 \* what registers and LDS hold before anything is written
OutputRows == MaxTiles + 3   \* what flash attention stages in the same LDS at the end

Code == CodeOf(kernel)
Body(w) == Code.body[step[w]]

BlockInit ==
  /\ kernel \in Launched
  /\ place = [w \in BlockWaves |-> "first_load"]
  /\ step = [w \in BlockWaves |-> 0]
  /\ reg = [w \in BlockWaves |-> [s \in Sets |-> Junk]]
  /\ lds = [s \in Slots |-> [w \in BlockWaves |-> Junk]]
  /\ acc = [w \in BlockWaves |-> << >>]

Go(w, from, to) == place[w] = from /\ place' = [place EXCEPT ![w] = to]

\* What a wave's registers and its parts of the LDS slots are after some moves.
Loaded(w, moves) == [s \in Sets |-> IF s \in DOMAIN moves THEN moves[s] ELSE reg[w][s]]
Stored(w, moves) ==
  [s \in Slots |-> IF s \in DOMAIN moves THEN [lds[s] EXCEPT ![w] = reg[w][moves[s]]] ELSE lds[s]]

\* Tile 0 goes through registers of its own straight to LDS.
FirstLoad(w) ==
  /\ Go(w, "first_load", "first_store")
  /\ reg' = [reg EXCEPT ![w] = Loaded(w, Load(2, 0))]
  /\ UNCHANGED <<kernel, step, lds, acc>>

FirstStore(w) ==
  /\ Go(w, "first_store", "first_sync")
  /\ lds' = Stored(w, Store(2, 0))
  /\ UNCHANGED <<kernel, step, reg, acc>>

LoadBefore(w) ==
  /\ Go(w, "before", "load")
  /\ reg' = [reg EXCEPT ![w] = Loaded(w, Code.before)]
  /\ UNCHANGED <<kernel, step, lds, acc>>

LoadTile(w) ==
  /\ Go(w, "load", "multiply")
  /\ reg' = [reg EXCEPT ![w] = Loaded(w, Body(w).load)]
  /\ UNCHANGED <<kernel, step, lds, acc>>

\* A multiply reads the parts of a tile one after the other, so a store can fall
\* between two of its reads.
MultiplyPart(w) ==
  LET part == Len(acc[w]) % WaveCount
  IN  /\ Go(w, "multiply", IF part + 1 < WaveCount THEN "multiply" ELSE "sync")
      /\ acc' = [acc EXCEPT ![w] = Append(@, <<lds[Body(w).multiply][part], part>>)]
      /\ UNCHANGED <<kernel, step, reg, lds>>

StoreTile(w) ==
  /\ Go(w, "store", "last_sync")
  /\ lds' = Stored(w, Body(w).store)
  /\ UNCHANGED <<kernel, step, reg, acc>>

StoreOutput(w) ==
  /\ Go(w, "output", "output_sync")
  /\ lds' = [lds EXCEPT ![0][w] = OutputRows]
  /\ UNCHANGED <<kernel, step, reg, acc>>

\* Where each __syncthreads() lets a wave go on.
AfterSync(w) ==
  CASE place[w] = "first_sync" -> "before"
    [] place[w] = "sync" -> "store"
    [] place[w] = "last_sync" -> IF step[w] + 1 \in DOMAIN Code.body THEN "load"
                                 ELSE IF Code.output THEN "loop_left" ELSE "done"
    [] place[w] = "loop_left" -> "output"
    [] place[w] = "output_sync" -> "done"

\* __syncthreads(): nobody passes before everyone is there.
Syncthreads ==
  /\ \A w \in BlockWaves : place[w] \in {"first_sync", "sync", "last_sync", "loop_left", "output_sync"}
  /\ place' = [w \in BlockWaves |-> AfterSync(w)]
  /\ step' = [w \in BlockWaves |-> IF place[w] = "last_sync" THEN step[w] + 1 ELSE step[w]]
  /\ UNCHANGED <<kernel, reg, lds, acc>>

Retired == \A w \in BlockWaves : place[w] = "done"

BlockNext ==
  \/ \E w \in BlockWaves : FirstLoad(w) \/ FirstStore(w) \/ LoadBefore(w) \/ LoadTile(w)
                              \/ MultiplyPart(w) \/ StoreTile(w) \/ StoreOutput(w)
  \/ Syncthreads
  \/ Retired /\ UNCHANGED blockVars

BlockSpec == BlockInit /\ [][BlockNext]_blockVars

(***************************************************************************)
(* Properties.                                                             *)
(***************************************************************************)

Tile == (0 .. MaxTiles - 1) \cup {Junk}

\* Every multiply of every kernel reads the tile its step of the k loop is for, all
\* its parts: never a part a faster wave has already replaced, never one a slower
\* wave has not stored yet, never uninitialised LDS or flash attention's output rows.
\* So when a wave is done its accumulator has the product of each tile once, in
\* order.  No load runs past the end of k, also where a kernel loads two tiles ahead.
SumsEachTileOnce ==
  \A w \in BlockWaves :
    /\ \A i \in DOMAIN acc[w] : acc[w][i] = <<(i - 1) \div WaveCount, (i - 1) % WaveCount>>
    /\ reg[w] \in [Sets -> Tile]
    /\ place[w] = "done" => Len(acc[w]) = kernel.tiles * WaveCount

\* Split or not, the router multiplies every element of k in exactly one split: a
\* split that ended inside a group of 8 would drop the head of that group, and the
\* next would not pick it up (the 412-element chunks of 2880 in 7 splits).
SplitsCoverK ==
  kernel.name = "router_split" /\ (\A w \in BlockWaves : place[w] = "first_load") =>
    \A groups \in 1 .. MaxGroups * kernel.tiles, splits \in 1 .. 8 :
      LET K == 8 * groups
          reads == [s \in 0 .. splits - 1 |-> SplitReads(K, splits, s)]
      IN  \A k \in 0 .. K - 1 : Cardinality({s \in DOMAIN reads : k \in reads[s]}) = 1
=============================================================================
