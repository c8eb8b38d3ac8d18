------------------------------ MODULE Reference ------------------------------
(***************************************************************************)
(* The CPU reference of src/src/run.cpp: the loops of generate and chat,   *)
(* and under them one forward pass per position, layer by layer, with the  *)
(* attention heads run in parallel by OpenMP over one flat score buffer.   *)
(*                                                                         *)
(* Kept: which token is fed at which position, every address of the KV     *)
(* cache and of the score buffer (in units of head_dim), the mask, and the *)
(* order of the heads' accesses.  A key or a value is the record of what   *)
(* it was computed from; the other blocks of the layer (norms, matmuls,    *)
(* RoPE, experts) work on these and leave no state behind.  The token that *)
(* sample draws may be any of Vocabulary (module Sampler says which).      *)
(***************************************************************************)
EXTENDS Integers, Sequences

CONSTANTS
  Modes,        \* of {"generate", "chat"}: the -m argument
  Prompts,      \* what encode may return for a prompt
  Vocabulary,
  Configs       \* records: the checkpoint's Config, and n, the -n argument

StopTokens == {199999, 200002}
EOS == 2

\* Query heads are grouped evenly over the KV heads (run.cpp:537), and encode returns no special
\* token: get_merge_rank refuses them (tokenizer.cpp:160).
ASSUME ReferenceAssumption ==
  /\ Modes \in SUBSET {"generate", "chat"}
  /\ Vocabulary \in SUBSET Nat
  /\ Prompts \in SUBSET Seq(Nat)
  /\ \A words \in Prompts : \A i \in DOMAIN words : words[i] \notin StopTokens
  /\ \A c \in Configs :
       /\ {c.n_layers, c.n_attn_heads, c.n_kv_heads, c.seq_len} \in SUBSET (Nat \ {0})
       /\ c.n_attn_heads % c.n_kv_heads = 0
       /\ c.sliding_window \in Int /\ c.n \in Int

VARIABLES
  mode, config, steps,
  pc,             \* "top" of the loop, "layer", "heads", "sample", "broke", "done", "failed"
  pos, token, next,
  prompt, user_idx, user_turn,
  l,              \* the layer being computed
  cache,          \* key_cache and value_cache: address -> what was stored there
  att,            \* scores, sinks and weights of all heads, in one buffer
  at,             \* at[h]: what the thread of head h does next
  tb,             \* tb[h]: the weighted values head h has added up
  fed, drawn, turns   \* history: tokens forwarded, tokens sampled, prompts by first position

loop == <<pos, token, next, prompt, user_idx, user_turn>>
attention == <<l, cache, att, at, tb>>
history == <<fed, drawn, turns>>
vars == <<mode, config, steps, pc, loop, attention, history>>

NLayers == config.n_layers
NHeads == config.n_attn_heads
NKvHeads == config.n_kv_heads
SeqLen == config.seq_len
SlidingWindow == config.sliding_window
Heads == 0 .. NHeads - 1
KvMul == NHeads \div NKvHeads
None == [none |-> 0]

\* main: the step count that -n gives.
Steps(n) == IF n <= 0 \/ n > SeqLen THEN SeqLen ELSE n

(***************************************************************************)
(* forward                                                                 *)
(***************************************************************************)
\* Mutant: the layer offset is missing.
KvAddressOfLayer0(layer, t, group) == t * NKvHeads + group
KvAddress(layer, t, group) == layer * SeqLen * NKvHeads + t * NKvHeads + group

\* Addresses of att; the cell after the last one is past the end of the allocation.
AttCells == 0 .. NHeads * SeqLen
Row(h) == h * SeqLen
Hidden(layer, t) == SlidingWindow > 0 /\ layer % 2 = 0 /\ pos - t >= SlidingWindow

Stored(layer, t, group) == [layer |-> layer, group |-> group, pos |-> t, token |-> fed[t + 1]]
Score(h, key, hidden) == [head |-> h, key |-> key, hidden |-> hidden]
Sink(layer, h) == [sink |-> layer, head |-> h]

\* The part of a layer before the heads: k and v go to the cache.
Project ==
  /\ pc = "layer"
  /\ cache' = [a \in DOMAIN cache |->
                 IF \E g \in 0 .. NKvHeads - 1 : a = KvAddress(l, pos, g)
                 THEN Stored(l, pos, a % NKvHeads) ELSE cache[a]]
  /\ at' = [h \in Heads |-> "score"]
  /\ pc' = "heads"
  /\ UNCHANGED <<mode, config, steps, loop, l, att, tb, history>>

HeadStep(h, from, to) ==
  /\ pc = "heads" /\ at[h] = from /\ at' = [at EXCEPT ![h] = to]
  /\ UNCHANGED <<mode, config, steps, pc, loop, l, cache, history>>

\* The scores of all positions so far, masked on even layers.
ScoreHead(h) ==
  /\ HeadStep(h, "score", "sink")
  /\ att' = [a \in AttCells |->
               IF a \in Row(h) .. Row(h) + pos
               THEN LET t == a - Row(h)
                    IN  Score(h, cache[KvAddress(l, t, h \div KvMul)], Hidden(l, t))
               ELSE att[a]]
  /\ UNCHANGED tb

\* att[pos + 1]: at the last position of the sequence this is the next head's first score.
SinkHead(h) ==
  /\ HeadStep(h, "sink", "softmax")
  /\ att' = [att EXCEPT ![Row(h) + pos + 1] = Sink(l, h)]
  /\ UNCHANGED tb

\* softmax(att, pos + 2), in place: each cell becomes its share of the whole row.
SoftmaxHead(h) ==
  /\ HeadStep(h, "softmax", "sum")
  /\ LET row == Row(h) .. Row(h) + pos + 1
         among == {att[a] : a \in row}
     IN  att' = [a \in AttCells |-> IF a \in row THEN [share |-> att[a], among |-> among] ELSE att[a]]
  /\ UNCHANGED tb

SumHead(h) ==
  /\ HeadStep(h, "sum", "joined")
  /\ tb' = [tb EXCEPT ![h] = {<<att[Row(h) + t], cache[KvAddress(l, t, h \div KvMul)]>> :
                               t \in 0 .. pos}]
  /\ UNCHANGED att

\* The heads are joined; the rest of the layer works on tb.
EndLayer ==
  /\ pc = "heads" /\ \A h \in Heads : at[h] = "joined"
  /\ l' = l + 1
  /\ pc' = IF l + 1 < NLayers THEN "layer" ELSE "sample"
  /\ UNCHANGED <<mode, config, steps, loop, cache, att, at, tb, history>>

Forward == \/ Project \/ EndLayer
           \/ \E h \in Heads : ScoreHead(h) \/ SinkHead(h) \/ SoftmaxHead(h) \/ SumHead(h)

StartForward(fedToken) ==
  /\ fed' = Append(fed, fedToken) /\ token' = fedToken
  /\ l' = 0 /\ pc' = "layer"
  /\ UNCHANGED <<mode, config, steps, pos, next, cache, att, at, tb, drawn>>

\* The loop is left, at the step count or by break, and the function returns.
Finished ==
  /\ pc = "broke" \/ (pc = "top" /\ pos >= steps)
  /\ pc' = "done"
  /\ UNCHANGED <<mode, config, steps, loop, attention, history>>

(***************************************************************************)
(* generate                                                                *)
(***************************************************************************)
GenerateRefused ==
  /\ mode = "generate" /\ pc = "top" /\ prompt = <<>> /\ pc' = "failed"
  /\ UNCHANGED <<mode, config, steps, loop, attention, history>>

GenerateTop ==
  /\ mode = "generate" /\ pc = "top" /\ prompt # <<>> /\ pos < steps
  /\ StartForward(token)
  /\ UNCHANGED <<prompt, user_idx, user_turn, turns>>

\* Mutant: the last token of the prompt is sampled instead.
ForcedOneShorter == pos < Len(prompt) - 2
Forced == pos < Len(prompt) - 1

GenerateNext ==
  /\ mode = "generate" /\ pc = "sample"
  /\ IF Forced THEN next' = prompt[pos + 2] /\ UNCHANGED drawn
     ELSE next' \in Vocabulary /\ drawn' = Append(drawn, next')
  /\ pos' = pos + 1
  /\ IF next' \in StopTokens THEN pc' = "broke" /\ UNCHANGED token ELSE pc' = "top" /\ token' = next'
  /\ UNCHANGED <<mode, config, steps, prompt, user_idx, user_turn, attention, fed, turns>>

(***************************************************************************)
(* chat                                                                    *)
(***************************************************************************)
ChatFeed(words, i, turn) ==
  LET fedToken == IF i < Len(words) THEN words[i + 1] ELSE next
  IN  /\ prompt' = words
      /\ user_idx' = IF i < Len(words) THEN i + 1 ELSE i
      /\ user_turn' = (fedToken = EOS)
      /\ turns' = turn
      /\ StartForward(fedToken)

\* The user's turn: a prompt is read, rendered and encoded (never to nothing).
\* Mutant: the index of the previous prompt goes on.
AskKeepingIndex ==
  /\ mode = "chat" /\ pc = "top" /\ pos < steps /\ user_turn
  /\ \E words \in Prompts \ {<<>>} :
       ChatFeed(words, user_idx, Append(turns, [first |-> pos, prompt |-> words]))
Ask ==
  /\ mode = "chat" /\ pc = "top" /\ pos < steps /\ user_turn
  /\ \E words \in Prompts \ {<<>>} :
       ChatFeed(words, 0, Append(turns, [first |-> pos, prompt |-> words]))

GoOn ==
  /\ mode = "chat" /\ pc = "top" /\ pos < steps /\ ~user_turn
  /\ ChatFeed(prompt, user_idx, turns)

ChatNext ==
  /\ mode = "chat" /\ pc = "sample"
  /\ next' \in Vocabulary /\ drawn' = Append(drawn, next')
  /\ pos' = pos + 1 /\ pc' = "top"
  /\ UNCHANGED <<mode, config, steps, token, prompt, user_idx, user_turn, attention, fed, turns>>

(***************************************************************************)
(* main                                                                    *)
(***************************************************************************)
Init ==
  /\ mode \in Modes
  /\ config \in Configs
  /\ steps = Steps(config.n)
  /\ pc = "top" /\ pos = 0
  /\ IF mode = "generate" THEN prompt \in Prompts ELSE prompt = <<>>
  /\ token = (IF prompt = <<>> THEN 0 ELSE prompt[1]) /\ next = 0
  /\ user_idx = 0 /\ user_turn = TRUE
  /\ l = 0
  /\ cache = [a \in 0 .. NLayers * SeqLen * NKvHeads - 1 |-> None]
  /\ att = [a \in AttCells |-> None]
  /\ at = [h \in Heads |-> "joined"] /\ tb = [h \in Heads |-> {}]
  /\ fed = <<>> /\ drawn = <<>>
  /\ turns = IF mode = "generate" THEN <<[first |-> 0, prompt |-> prompt]>> ELSE <<>>

Ended == pc \in {"done", "failed"} /\ UNCHANGED vars
Next == GenerateRefused \/ GenerateTop \/ GenerateNext \/ Ask \/ GoOn \/ ChatNext
        \/ Finished \/ Forward \/ Ended
Spec == Init /\ [][Next]_vars

(***************************************************************************)
(* Properties                                                              *)
(***************************************************************************)
\* When a layer's heads are joined, each head has weighed the values of exactly the positions
\* of its own sequence, layer and group, by its own scores and its own sink, in whatever order
\* the threads ran (run.cpp:597-642).  Not so at the last position of the sequence, where the
\* sink of head h lies in the row of head h + 1.
HeadsAttendOwnWindow ==
  (pc = "heads" /\ (\A h \in Heads : at[h] = "joined") /\ pos < SeqLen - 1) =>
    \A h \in Heads :
      LET value(t) == Stored(l, t, h \div KvMul)
          own == {Score(h, value(t), Hidden(l, t)) : t \in 0 .. pos}
      IN  tb[h] = {<<[share |-> Score(h, value(t), Hidden(l, t)), among |-> own \union {Sink(l, h)}],
                     value(t)>> : t \in 0 .. pos}

\* Every prompt is fed token by token from its first position on, then the tokens sampled, each
\* at the position after the one it was sampled at.  A turn of chat ends only after token 2 has
\* been fed, which cuts a prompt short that itself holds a token 2 (run.cpp:1079-1096).
TurnOf(p) == CHOOSE k \in DOMAIN turns :
  turns[k].first <= p /\ \A j \in DOMAIN turns : turns[j].first <= p => j <= k
PromptsFedWhole ==
  /\ \A p \in 0 .. Len(fed) - 1 :
       LET turn == turns[TurnOf(p)]
           i == p - turn.first
           sampledBefore == IF mode = "chat" THEN drawn[p] ELSE drawn[p - Len(turn.prompt) + 1]
       IN  fed[p + 1] = IF i < Len(turn.prompt) THEN turn.prompt[i + 1] ELSE sampledBefore
  /\ \A k \in DOMAIN turns : k > 1 =>
       /\ fed[turns[k].first] = EOS
       /\ turns[k].first - turns[k - 1].first < Len(turns[k - 1].prompt)
            => \E i \in DOMAIN turns[k - 1].prompt : turns[k - 1].prompt[i] = EOS

\* generate decodes its one request as the batched loop promises for each of its own (module
\* Decode), with a budget of one token more: it tests pos < steps where the batched loops
\* test pos + 1 < steps (run.cpp:962, getp/run.cpp:431).
Generating == mode = "generate"
Single == INSTANCE Decode WITH
  Requests <- {0}, Tokens <- Vocabulary \union StopTokens, StopToken <- 199999,
  steps <- IF Generating THEN steps + 1 ELSE 0,
  nPrompt <- [q \in {0} |-> IF Generating THEN Len(prompt) ELSE 0],
  out <- [q \in {0} |-> IF Generating
                        THEN [i \in DOMAIN drawn |-> IF drawn[i] \in StopTokens THEN 199999 ELSE drawn[i]]
                        ELSE <<>>],
  closed <- [q \in {0} |-> Generating /\ pc = "done"]
ImplementsDecode == Single!DecodeSpec
=============================================================================
