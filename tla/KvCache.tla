------------------------------ MODULE KvCache ------------------------------
(***************************************************************************)
(* The key/value cache of one GPU (src/src/hip/forward.hip and             *)
(* transformer.cpp): one allocation cut into a ring of time slots for      *)
(* each layer, row and kv head.  In every step and layer the qkv kernel    *)
(* writes the slot of the position, then, on the same stream, attention    *)
(* reads a window of slots.  Nothing ever clears a ring: the next chunk    *)
(* starts again at position 0 among the vectors of the last one.           *)
(*                                                                         *)
(* The unit of an address is the 64-element vector of a position, row and  *)
(* head; a vector is known by what it was computed from.  Keys and values  *)
(* have the same addresses and stand for one another; the bytes are those  *)
(* of the int8 values.                                                     *)
(***************************************************************************)
EXTENDS Naturals, FiniteSets

CONSTANTS Shapes,      \* the [layers, window, seqLen] of the configurations
          BatchSize,   \* BATCH_SIZE: rows
          KvHeads,     \* n_kv_heads
          Pad,         \* GETP_KV_PAD / 64: padding of a region
          Tile,        \* keys of a tile of flash attention (16)
          MaxSteps,    \* bound: positions of a chunk
          Chunks       \* bound: chunks

ASSUME CacheAssumption ==
  /\ {BatchSize, KvHeads, Tile, MaxSteps, Chunks} \subseteq Nat \ {0}
  /\ Pad \in Nat
  /\ Shapes \subseteq [layers : Nat \ {0}, window : Nat, seqLen : Nat]

VARIABLES shape,       \* layers, sliding window and sequence length of the model
          chunk,       \* the chunk being decoded
          position,    \* its position
          maskOn,      \* the rows that are not finished
          layer,       \* the layer whose kernels run
          kernel,      \* "qkv" or "attention"
          ran,         \* the (row, head) blocks of the kernel that have run
          rings,       \* [address -> the vector there], for those written
          read         \* [block of the attention kernel -> the vectors it summed]

kvVars == <<shape, chunk, position, maskOn, layer, kernel, ran, rings, read>>

Rows == 0 .. BatchSize - 1
KvHeadNumbers == 0 .. KvHeads - 1
Blocks == Rows \X KvHeadNumbers
Layers == 0 .. shape.layers - 1
AtLeast1(n) == IF n > 0 THEN n ELSE 1
-----------------------------------------------------------------------------
(* Even layers keep the sliding window, odd ones half the sequence.  The   *)
(* rings of the even layers come first.                                    *)
EvenLayersFloor == shape.layers \div 2                 \* a changed EvenLayers
EvenLayers == (shape.layers + 1) \div 2
EvenCap == AtLeast1(shape.window)
OddCap == AtLeast1(shape.seqLen \div 2)
IsEven(l) == l % 2 = 0
Cap(l) == IF IsEven(l) THEN EvenCap ELSE OddCap

LayerSlots(l) == IF IsEven(l) THEN (l \div 2) * EvenCap
                              ELSE EvenLayers * EvenCap + (l \div 2) * OddCap
LayersBefore(l) == IF IsEven(l) THEN l \div 2 ELSE EvenLayers + l \div 2
LayerPad == BatchSize * KvHeads * Pad
LayerBase(l) == LayerSlots(l) * BatchSize * KvHeads + LayersBefore(l) * LayerPad

(* GETP_KV_OFF: row by row and head by head, a padded region of Cap slots. *)
Offset(l, slot, b, h) == (b * KvHeads + h) * (Cap(l) + Pad) + slot
WriteAddress(l, b, h) == LayerBase(l) + Offset(l, position % Cap(l), 0, 0) + Offset(l, 0, b, h)
ReadAddress(l, t, b, h) == LayerBase(l) + Offset(l, t % Cap(l), b, h)

(* What transformer.cpp allocates for the values, in bytes: the codes, up  *)
(* to a multiple of 256, and a scale of 4 bytes for each vector.           *)
TotalSlots == EvenLayers * EvenCap + (shape.layers - EvenLayers) * OddCap
VectorsUnpadded == BatchSize * TotalSlots * KvHeads      \* a changed Vectors
Vectors == BatchSize * TotalSlots * KvHeads + shape.layers * BatchSize * KvHeads * Pad
Up256(bytes) == 256 * ((bytes + 255) \div 256)
Allocated == Up256(64 * Vectors) + 4 * Vectors

(* Where forward.hip looks for the scales: the same formula once more.     *)
ScalesBase == Up256(64 * (BatchSize * TotalSlots * KvHeads + shape.layers * LayerPad))
CodesEnd(a) == 64 * (a + 1)
ScaleEnd(a) == ScalesBase + 4 * (a + 1)
-----------------------------------------------------------------------------
Vector(c, l, t, b, h) == [chunk |-> c, layer |-> l, position |-> t, row |-> b, head |-> h]
Unwritten == [chunk |-> Chunks]
Zero == [chunk |-> Chunks + 1]
With(f, x, v) == [y \in DOMAIN f \cup {x} |-> IF y = x THEN v ELSE f[y]]

KvInit ==
  /\ shape \in Shapes
  /\ chunk = 0 /\ position = 0 /\ layer = 0
  /\ maskOn = Rows
  /\ kernel = "qkv"
  /\ ran = {}
  /\ rings = << >>
  /\ read = << >>

(* The epilogue of the qkv kernel: every row, finished or not.             *)
Store(b, h) ==
  /\ kernel = "qkv" /\ <<b, h>> \notin ran
  /\ rings' = With(rings, WriteAddress(layer, b, h), Vector(chunk, layer, position, b, h))
  /\ ran' = ran \cup {<<b, h>>}
  /\ UNCHANGED <<shape, chunk, position, maskOn, layer, kernel, read>>

(* Flash attention: tiles of keys from tStart on, the last one filled up   *)
(* with zeros.  Keys from tEnd on get the score -infinity.                 *)
ApplyMask(l) == shape.window > 0 /\ IsEven(l)
NotBelow0(a, b) == IF a > b THEN a - b ELSE 0            \* MAX(0, a - b)
TStart(l) == IF ApplyMask(l) THEN NotBelow0(position + 1, shape.window)
                             ELSE NotBelow0(position + 1, Cap(l))
TEnd == position + 1
Load(l, t, b, h) ==
  IF t >= TEnd THEN Zero
  ELSE LET a == ReadAddress(l, t, b, h)
       IN  IF a \in DOMAIN rings THEN rings[a] ELSE Unwritten
Tiles(l) == (TEnd - TStart(l) + Tile - 1) \div Tile
Scored(l, b, h) ==
  [k \in {n \in 1 .. Tiles(l) * Tile : TStart(l) + n - 1 < TEnd} |->
     Load(l, TStart(l) + k - 1, b, h)]

(* A block of a finished row returns at once.                              *)
Attend(b, h) ==
  /\ kernel = "attention" /\ <<b, h>> \notin ran
  /\ read' = IF b \in maskOn THEN With(read, <<b, h>>, Scored(layer, b, h)) ELSE read
  /\ ran' = ran \cup {<<b, h>>}
  /\ UNCHANGED <<shape, chunk, position, maskOn, layer, kernel, rings>>

(* One stream: a kernel starts when every block of the one before has run. *)
NextKernel ==
  /\ ran = Blocks
  /\ \/ /\ kernel = "qkv"
        /\ kernel' = "attention"
        /\ UNCHANGED layer
     \/ /\ kernel = "attention" /\ layer + 1 \in Layers
        /\ kernel' = "qkv"
        /\ layer' = layer + 1
  /\ ran' = {}
  /\ read' = << >>
  /\ UNCHANGED <<shape, chunk, position, maskOn, rings>>

StepDone == ran = Blocks /\ kernel = "attention" /\ layer = shape.layers - 1
StartStep(c, t, mask) ==
  /\ chunk' = c /\ position' = t /\ maskOn' = mask
  /\ layer' = 0 /\ kernel' = "qkv" /\ ran' = {} /\ read' = << >>
  /\ UNCHANGED <<shape, rings>>

(* All rows move on together; some finish and stay finished.               *)
NextStep ==
  /\ StepDone /\ position + 1 < MaxSteps
  /\ \E mask \in SUBSET maskOn : StartStep(chunk, position + 1, mask)

(* A chunk ends when its steps are used up, or the rows of every GPU have  *)
(* finished: at any step, as far as one GPU can tell.                      *)
NextChunk ==
  /\ StepDone /\ chunk + 1 < Chunks
  /\ StartStep(chunk + 1, 0, Rows)

KvFinished == StepDone /\ position + 1 = MaxSteps /\ chunk + 1 = Chunks

KvNext ==
  \/ \E b \in Rows, h \in KvHeadNumbers : Store(b, h) \/ Attend(b, h)
  \/ NextKernel
  \/ NextStep
  \/ NextChunk
  \/ KvFinished /\ UNCHANGED kvVars

KvSpec == KvInit /\ [][KvNext]_kvVars
-----------------------------------------------------------------------------
(* The window the model promises (docs/SERVING.md:340-355): the last       *)
(* sliding_window positions on even layers, the last seq_len / 2 on odd    *)
(* ones, this one included.                                                *)
Window(l) == IF IsEven(l) THEN AtLeast1(shape.window) ELSE AtLeast1(shape.seqLen \div 2)
Positions(l) == {t \in 0 .. position : t + Window(l) > position}

(* Attention sums the vectors of its own chunk, layer, row and head, at    *)
(* the positions of the window, each once and in order - whatever earlier  *)
(* chunks, other layers, finished rows and wrapped-around rings have left  *)
(* in the allocation, and never a zero of the last tile.                   *)
ReadsOwnWindow ==
  \A block \in DOMAIN read :
    LET first == position + 1 - Cardinality(Positions(layer))
    IN  read[block] = [k \in 1 .. Cardinality(Positions(layer)) |->
                         Vector(chunk, layer, first + k - 1, block[1], block[2])]

(* Everything written lies inside the allocation, and no code lies where   *)
(* a scale does: transformer.cpp and forward.hip compute the size of the   *)
(* cache apart from each other and from the addresses.                     *)
InsideAllocation ==
  \A a \in DOMAIN rings :
    /\ CodesEnd(a) <= ScalesBase
    /\ ScaleEnd(a) <= Allocated
=============================================================================
