----------------------------- MODULE MCReference -----------------------------
EXTENDS Reference
\* A prompt of each length up to past the shortest step count, one holding token 2, and none.
MCPrompts == {<<>>, <<5>>, <<6, 5>>, <<6, 2, 5>>}
\* Two heads on one KV head up to the last position; four heads on two KV heads, stopped before it.
MCConfigs ==
  {[n_layers |-> 2, n_attn_heads |-> 2, n_kv_heads |-> 1, seq_len |-> 4, sliding_window |-> 2, n |-> n] :
     n \in {0, 2}}
    \union {[n_layers |-> 2, n_attn_heads |-> 4, n_kv_heads |-> 2, seq_len |-> 3, sliding_window |-> 1,
             n |-> 2]}
=============================================================================
