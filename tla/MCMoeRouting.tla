---------------------------- MODULE MCMoeRouting ----------------------------
(* Three ranks with two experts each; top-2 choices that meet on expert 0. *)
EXTENDS MoeRouting

MCTopkChoices == {<<0, 1>>, <<3, 0>>, <<5, 2>>, <<4, 1>>}
=============================================================================
