--------------------------- MODULE MCLogitsArgmax ---------------------------
(* Two column blocks of one row, two rows of one column block, and three   *)
(* rows in groups of two.  4, 5 and 6 are a chain: 4 and 6 are not near.   *)
EXTENDS LogitsArgmax

MCShapes == {<<1, 3, {-5, -4, 4, 5, 6}>>, <<1, 4, {-4, 4, 5, 6}>>,
             <<2, 2, {-4, 4, 5}>>, <<3, 1, {4, 6}>>}
=============================================================================
