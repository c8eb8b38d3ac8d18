--------------------------- MODULE MCGenerateLoop ---------------------------
(* Instances of GenerateLoop: two chunks of one row per thread, and one    *)
(* chunk of two rows.                                                      *)
EXTENDS GenerateLoop

MCWorkloads ==
  [batch : {1}, steps : {1, 3}, prompts : {{0, 1, 2, 4}}]
    \cup [batch : {2}, steps : {4}, prompts : {{1, 2, 4}}]
=============================================================================
