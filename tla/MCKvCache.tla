----------------------------- MODULE MCKvCache -----------------------------
(* Odd and even numbers of layers; rings of one, two and three slots, some *)
(* shorter than a tile and all shorter than a chunk.                       *)
EXTENDS KvCache

MCShapes == [layers : 1 .. 3, window : {0, 2, 3}, seqLen : {1, 4, 6}]
=============================================================================
