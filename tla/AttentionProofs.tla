--------------------------- MODULE AttentionProofs --------------------------
(***************************************************************************)
(* Proofs about the two places where attention finds its keys and values:  *)
(* the arrays of the CPU reference (module Reference, with the loops of    *)
(* generate and chat that feed it), and the rings of the GPU's cache       *)
(* (module KvCache).                                                       *)
(*                                                                         *)
(* The CPU reference, for any checkpoint sizes, prompts, vocabulary and    *)
(* sampling.                                                               *)
(* HeadsAttendOwnWindow speaks of one flat cache and one flat att array    *)
(* whose rows are SeqLen apart, shared by all heads.  CacheInv says which  *)
(* places of the cache the layers have written by now, and with what (a    *)
(* place is found by its address alone, so no two may share one); HeadInv  *)
(* says what each head's row of att holds at each of its steps, whatever   *)
(* the other heads do in between.                                          *)
(*                                                                         *)
(* PromptsFedWhole and the refinement of Decode speak of the whole past.   *)
(* FedInv says that each token fed was the one due at its position: of the *)
(* prompt of the turn it belongs to, and past its end the sampled one.     *)
(* GenerateInv and ChatInv say how far the loop is, and why the next token *)
(* it feeds is the one due.                                                *)
(*                                                                         *)
(* The GPU's cache, for any number of layers, rows, heads and positions,   *)
(* any window, padding and tile.  First the map of the allocation: no two  *)
(* (layer, slot, row, head) have the same address, and all addresses are   *)
(* below Vectors.  Then the invariant behind ReadsOwnWindow: each ring     *)
(* holds the last Cap positions written to it, of this chunk, whatever     *)
(* else is in the allocation.                                              *)
(***************************************************************************)
EXTENDS Reference, KvCache, NumberLemmas

LOCAL INSTANCE SequenceTheorems

-----------------------------------------------------------------------------
(* The CPU reference.                                                      *)
InForward == pc \in {"layer", "heads", "sample"}

(* How far the loop and the layers have come, and the types of what they keep. *)
LoopInv ==
  /\ mode \in Modes /\ config \in Configs /\ steps = Steps(config.n)
  /\ pc \in {"top", "layer", "heads", "sample", "broke", "done", "failed"}
  /\ pos \in Nat /\ pos <= steps /\ (InForward => pos < steps)
  /\ l \in Nat /\ l <= NLayers
  /\ (pc \in {"layer", "heads"} => l < NLayers) /\ (pc = "sample" => l = NLayers)
TokenInv ==
  /\ token \in Nat /\ next \in Nat
  /\ prompt \in Seq(Nat) /\ user_idx \in Nat /\ user_turn \in BOOLEAN
  /\ fed \in Seq(Nat) /\ Len(fed) = (IF InForward THEN pos + 1 ELSE pos)
  /\ drawn \in Seq(Nat)
  /\ turns \in Seq([first : Nat, prompt : Seq(Nat)])
ArrayInv ==
  /\ cache = [a \in 0 .. NLayers * SeqLen * NKvHeads - 1 |-> cache[a]]
  /\ att = [a \in AttCells |-> att[a]]
  /\ at \in [Heads -> {"score", "sink", "softmax", "sum", "joined"}]
  /\ tb = [h \in Heads |-> tb[h]]
ShapeInv == LoopInv /\ TokenInv /\ ArrayInv

(* What the layers have stored so far. *)
Written(k, t) == t < pos \/ (InForward /\ t = pos /\ (k < l \/ (k = l /\ pc = "heads")))
CacheInv ==
  \A k \in 0 .. NLayers - 1, t \in 0 .. SeqLen - 1, g \in 0 .. NKvHeads - 1 :
    Written(k, t) => cache[KvAddress(k, t, g)] = Stored(k, t, g)

(* What head h has to weigh, and what its row holds at each of its steps. *)
Value(h, t) == Stored(l, t, h \div KvMul)
OwnScore(h, t) == Score(h, Value(h, t), Hidden(l, t))
OwnScores(h) == {OwnScore(h, t) : t \in 0 .. pos}
Share(h, t) == [share |-> OwnScore(h, t), among |-> OwnScores(h) \union {Sink(l, h)}]
Weighted(h) == {<<Share(h, t), Value(h, t)>> : t \in 0 .. pos}

RowScored(h) == \A t \in 0 .. pos : att[Row(h) + t] = OwnScore(h, t)
HeadState(h) ==
  /\ at[h] \in {"sink", "softmax"} => RowScored(h)
  /\ at[h] = "softmax" => att[Row(h) + pos + 1] = Sink(l, h)
  /\ at[h] = "sum" => \A t \in 0 .. pos : att[Row(h) + t] = Share(h, t)
  /\ at[h] = "joined" => tb[h] = Weighted(h)
HeadInv == pc = "heads" /\ pos < SeqLen - 1 => \A h \in Heads : HeadState(h)

(* Which turn position p belongs to, and the token due there. *)
IsTurn(p, k) == /\ k \in DOMAIN turns /\ turns[k].first <= p
                /\ \A j \in DOMAIN turns : turns[j].first <= p => j <= k
Due(p, k) ==
  LET i == p - turns[k].first
  IN  IF i < Len(turns[k].prompt) THEN turns[k].prompt[i + 1]
      ELSE IF mode = "chat" THEN drawn[p] ELSE drawn[p - Len(turns[k].prompt) + 1]
FedInv == \A p \in 0 .. Len(fed) - 1 : \E k \in DOMAIN turns : IsTurn(p, k) /\ fed[p + 1] = Due(p, k)

GenerateInv ==
  mode = "generate" =>
    /\ prompt \in Prompts /\ turns = <<[first |-> 0, prompt |-> prompt]>>
    /\ prompt = <<>> => pos = 0 /\ drawn = <<>> /\ pc \in {"top", "failed"}
    /\ prompt # <<>> =>
         /\ Len(drawn) = (IF pos < Len(prompt) THEN 0 ELSE pos - Len(prompt) + 1)
         /\ pc = "top" => token = Due(pos, 1)
    /\ pc \notin {"broke", "done"} => \A i \in DOMAIN drawn : drawn[i] \notin StopTokens
    /\ pc = "broke" => Len(drawn) > 0 /\ drawn[Len(drawn)] \in StopTokens

ChatInv ==
  mode = "chat" =>
    /\ Len(drawn) = pos
    /\ pc = "top" /\ pos > 0 => next = drawn[pos]
    /\ fed = <<>> => user_turn
    /\ user_turn /\ fed # <<>> => fed[Len(fed)] = EOS
    /\ fed # <<>> => turns # <<>>
    /\ \A k \in DOMAIN turns : turns[k].first < Len(fed) /\ turns[k].prompt # <<>>
    /\ \A j, k \in DOMAIN turns : j < k => turns[j].first < turns[k].first
    /\ \A k \in DOMAIN turns : k > 1 => fed[turns[k].first] = EOS
    /\ turns # <<>> =>
         LET turn == turns[Len(turns)]
             i == Len(fed) - turn.first
         IN  /\ prompt = turn.prompt
             /\ user_idx = IF i < Len(prompt) THEN i ELSE Len(prompt)

IInv == ShapeInv /\ CacheInv /\ HeadInv /\ FedInv /\ GenerateInv /\ ChatInv
-----------------------------------------------------------------------------
(* What an appended element changes. *)
LEMMA Appended ==
  ASSUME NEW S, NEW s, s \in Seq(S), NEW e, e \in S, NEW r, r = Append(s, e)
  PROVE  /\ r \in Seq(S) /\ Len(s) \in Nat /\ Len(r) = Len(s) + 1 /\ r[Len(s) + 1] = e
         /\ r # <<>> /\ DOMAIN r = 1 .. Len(s) + 1
         /\ \A i \in 1 .. Len(s) : r[i] = s[i]
         /\ \A i \in DOMAIN r : i = Len(s) + 1 \/ (i \in 1 .. Len(s) /\ r[i] = s[i])
<1>1. /\ r \in Seq(S) /\ r # <<>> /\ Len(r) = Len(s) + 1 /\ r[Len(s) + 1] = e
      /\ \A i \in 1 .. Len(s) : r[i] = s[i]
  BY AppendProperties
<1>2. Len(s) \in Nat /\ DOMAIN r = 1 .. Len(r)
  BY <1>1, LenProperties
<1>3. \A i \in 1 .. Len(s) + 1 : i = Len(s) + 1 \/ i \in 1 .. Len(s)
  BY <1>2
<1> QED
  BY <1>1, <1>2, <1>3

(* The sizes of a configuration, and the KV head of each query head. *)
LEMMA Sizes ==
  ASSUME config \in Configs
  PROVE  /\ NLayers \in Nat \ {0} /\ NHeads \in Nat \ {0} /\ NKvHeads \in Nat \ {0}
         /\ SeqLen \in Nat \ {0} /\ SlidingWindow \in Int
         /\ Steps(config.n) \in 1 .. SeqLen
         /\ \A h \in Heads : h \in Nat /\ h \div KvMul \in 0 .. NKvHeads - 1
<1>1. /\ NLayers \in Nat \ {0} /\ NHeads \in Nat \ {0} /\ NKvHeads \in Nat \ {0}
      /\ SeqLen \in Nat \ {0} /\ SlidingWindow \in Int /\ config.n \in Int
      /\ NHeads % NKvHeads = 0
  BY ReferenceAssumption
     DEF NLayers, NHeads, NKvHeads, SeqLen, SlidingWindow
<1>2. Steps(config.n) \in 1 .. SeqLen
  BY <1>1 DEF Steps
<1>3. ASSUME NEW h \in Heads
      PROVE  h \in Nat /\ h \div KvMul \in 0 .. NKvHeads - 1
  <2> DEFINE m == KvMul
             k == NKvHeads
             g == h \div m
  <2>1. h \in Nat /\ h < NHeads
    BY <1>1 DEF Heads
  <2>2. m \in Nat /\ NHeads = m * k
    BY <1>1, Division DEF KvMul
  <2>3. m # 0
    BY <2>2, <1>1
  <2>4. g \in Nat /\ h % m \in 0 .. m - 1 /\ h = g * m + (h % m)
    BY <2>1, <2>2, <2>3, Division
  <2> HIDE DEF m, g
  <2>5. ASSUME k <= g PROVE FALSE
    <3>1. k * m <= g * m
      <4>1. k = g \/ k < g
        BY <2>5, <2>4, <1>1
      <4>2. k < g => k * m + m <= g * m
        BY NextMultiple, <2>2, <2>4, <1>1
      <4>3. k * m \in Nat /\ g * m \in Nat
        BY ProductNat, <2>2, <2>4, <1>1
      <4> QED
        BY <4>1, <4>2, <4>3, <2>2
    <3>2. k * m = m * k /\ g * m \in Nat /\ k * m \in Nat
      BY ProductNat, <2>2, <2>4, <1>1
    <3> HIDE DEF k
    <3> QED
      BY <3>1, <3>2, <2>1, <2>2, <2>4
  <2>6. g \in 0 .. k - 1
    BY <2>4, <2>5, <1>1
  <2> QED
    BY <2>1, <2>6 DEF m, g
<1> QED
  BY <1>1, <1>2, <1>3

CachePlaces == (0 .. NLayers - 1) \X (0 .. SeqLen - 1) \X (0 .. NKvHeads - 1)

(* Each layer, position and group has a cell of its own in the cache. *)
LEMMA Addresses ==
  ASSUME config \in Configs
  PROVE  /\ \A c \in CachePlaces :
              LET a == KvAddress(c[1], c[2], c[3])
              IN  a \in 0 .. NLayers * SeqLen * NKvHeads - 1 /\ a % NKvHeads = c[3]
         /\ \A c, d \in CachePlaces :
              KvAddress(c[1], c[2], c[3]) = KvAddress(d[1], d[2], d[3]) => c = d
<1> DEFINE L == NLayers
           S == SeqLen
           K == NKvHeads
           Flat(k, t) == k * S + t
<1>1. L \in Nat \ {0} /\ S \in Nat \ {0} /\ K \in Nat \ {0}
  BY Sizes
<1>2. CachePlaces = (0 .. L - 1) \X (0 .. S - 1) \X (0 .. K - 1)
      /\ \A k, t, g : KvAddress(k, t, g) = k * S * K + t * K + g
  BY DEF CachePlaces, KvAddress
<1> HIDE DEF L, S, K
<1>3. ASSUME NEW k \in 0 .. L - 1, NEW t \in 0 .. S - 1
      PROVE  Flat(k, t) \in Nat /\ Flat(k, t) + 1 <= L * S
  <2>1. k \in Nat /\ k < L /\ t \in Nat
    BY <1>1
  <2>2. k * S + S <= L * S
    BY <2>1, <1>1, NextMultiple
  <2>3. k * S \in Nat /\ L * S \in Nat
    BY <2>1, <1>1, ProductNat
  <2> QED
    BY <2>1, <2>2, <2>3, <1>1
<1>4. ASSUME NEW k \in 0 .. L - 1, NEW t \in 0 .. S - 1, NEW g \in 0 .. K - 1
      PROVE  /\ KvAddress(k, t, g) = Flat(k, t) * K + g
             /\ KvAddress(k, t, g) \in 0 .. L * S * K - 1
             /\ KvAddress(k, t, g) % K = g
  <2>1. KvAddress(k, t, g) = Flat(k, t) * K + g
    <3>1. (k * S + t) * K = k * S * K + t * K
      BY <1>1
    <3> QED
      BY <3>1, <1>2
  <2> DEFINE f == Flat(k, t)
  <2>2. f \in Nat /\ f < L * S /\ L * S \in Nat
    <3>1. L * S \in Nat
      BY <1>1, ProductNat
    <3> QED
      BY <1>3, <3>1
  <2> HIDE DEF f
  <2>3. f * K + K <= L * S * K /\ f * K \in Nat /\ L * S * K \in Nat
    BY <2>2, <1>1, NextMultiple, ProductNat
  <2>4. (f * K + g) % K = g
    BY <2>2, <1>1, DivisionUnique
  <2>5. f * K + g \in 0 .. L * S * K - 1
    BY <2>3, <1>1
  <2> QED
    BY <2>1, <2>4, <2>5 DEF f
<1>5. ASSUME NEW k \in 0 .. L - 1, NEW t \in 0 .. S - 1, NEW g \in 0 .. K - 1,
             NEW m \in 0 .. L - 1, NEW u \in 0 .. S - 1, NEW d \in 0 .. K - 1,
             KvAddress(k, t, g) = KvAddress(m, u, d)
      PROVE  k = m /\ t = u /\ g = d
  <2>1. Flat(k, t) \in Nat /\ Flat(m, u) \in Nat
    BY <1>3
  <2>2. Flat(k, t) * K + g = Flat(m, u) * K + d
    BY <1>4, <1>5
  <2> HIDE DEF Flat
  <2>3. Flat(k, t) = Flat(m, u) /\ g = d
    BY <2>1, <2>2, <1>1, SamePair
  <2>4. k * S + t = m * S + u /\ k \in Nat /\ m \in Nat
    BY <2>3, <1>1 DEF Flat
  <2> QED
    BY <2>3, <2>4, <1>1, SamePair
<1>6. L * S * K = NLayers * SeqLen * NKvHeads /\ K = NKvHeads
  BY DEF L, S, K
<1> QED
  BY <1>2, <1>4, <1>5, <1>6

(* The rows of the heads do not overlap, up to the last position but one. *)
LEMMA AttRows ==
  ASSUME config \in Configs
  PROVE  /\ \A h \in Heads, i \in 0 .. SeqLen : Row(h) + i \in AttCells
         /\ \A h, g \in Heads : \A i, j \in 0 .. SeqLen - 1 :
              Row(h) + i = Row(g) + j => h = g /\ i = j
         /\ \A h \in Heads : Row(h) \in Nat
<1> DEFINE S == SeqLen
           H == NHeads
<1>1. S \in Nat \ {0} /\ H \in Nat \ {0}
  BY Sizes
<1>2. Heads = 0 .. H - 1 /\ AttCells = 0 .. H * S /\ \A h : Row(h) = h * S
  BY DEF Heads, AttCells, Row
<1> HIDE DEF S, H
<1>3. ASSUME NEW h \in Heads
      PROVE  h \in Nat /\ h * S \in Nat /\ h * S + S <= H * S /\ H * S \in Nat
  <2>1. h \in Nat /\ h < H
    BY <1>1, <1>2
  <2> QED
    BY <2>1, <1>1, NextMultiple, ProductNat
<1>4. ASSUME NEW h \in Heads, NEW i \in 0 .. S PROVE Row(h) + i \in AttCells
  BY <1>1, <1>2, <1>3
<1>5. ASSUME NEW h \in Heads, NEW g \in Heads, NEW i \in 0 .. S - 1, NEW j \in 0 .. S - 1,
             Row(h) + i = Row(g) + j
      PROVE  h = g /\ i = j
  BY <1>1, <1>2, <1>3, <1>5, SamePair
<1> QED
  BY <1>2, <1>3, <1>4, <1>5 DEF S
-----------------------------------------------------------------------------
(* The checkpoint and the step count are read once. *)
LEMMA Fixed ==
  ASSUME [Next]_vars
  PROVE  /\ mode' = mode /\ config' = config /\ steps' = steps
         /\ NLayers' = NLayers /\ NHeads' = NHeads /\ NKvHeads' = NKvHeads /\ SeqLen' = SeqLen
         /\ SlidingWindow' = SlidingWindow /\ Heads' = Heads /\ KvMul' = KvMul
         /\ AttCells' = AttCells /\ Steps(config.n)' = Steps(config.n)
<1>1. mode' = mode /\ config' = config /\ steps' = steps
  BY DEF Next, vars, GenerateRefused, GenerateTop, GenerateNext, Ask, GoOn, ChatNext, ChatFeed,
         StartForward, Finished, Forward, Project, EndLayer, ScoreHead, SinkHead, SoftmaxHead,
         SumHead, HeadStep, Ended
<1> QED
  BY <1>1 DEF NLayers, NHeads, NKvHeads, SeqLen, SlidingWindow, Heads, KvMul, AttCells, Steps

(* A step is one of these. *)
HeadsStep == \E h \in Heads : ScoreHead(h) \/ SinkHead(h) \/ SoftmaxHead(h) \/ SumHead(h)
Starts == GenerateTop \/ Ask \/ GoOn
Samples == GenerateNext \/ ChatNext
Leaves == GenerateRefused \/ Finished

(* The steps, grouped by what they do to the tokens. *)
LEMMA StepCases ==
  ASSUME [Next]_vars
  PROVE  Project \/ HeadsStep \/ EndLayer \/ Starts \/ Samples \/ Leaves \/ UNCHANGED vars
BY DEF Next, Forward, Ended, HeadsStep, Starts, Samples, Leaves

(* What the loops of generate and chat have in common: a token goes into forward, *)
(* a sampled token is kept.                                                       *)
LEMMA StepStarts ==
  ASSUME ShapeInv, GenerateInv, Starts
  PROVE  /\ pc = "top" /\ pos < steps /\ pc' = "layer" /\ l' = 0
         /\ token' \in Nat /\ fed' = Append(fed, token')
         /\ UNCHANGED <<mode, config, steps, pos, next, cache, att, at, tb, drawn>>
         /\ prompt' \in Seq(Nat) /\ user_idx' \in Nat /\ user_turn' \in BOOLEAN
         /\ turns' \in Seq([first : Nat, prompt : Seq(Nat)])
<1>1. CASE GenerateTop
  BY <1>1 DEF GenerateTop, StartForward, ShapeInv, LoopInv, TokenInv
<1>2. pos \in Nat
  BY Sizes DEF ShapeInv, LoopInv, TokenInv
<1>3. ASSUME NEW words \in Seq(Nat), NEW i \in Nat, NEW turn \in Seq([first : Nat, prompt : Seq(Nat)]),
             ChatFeed(words, i, turn)
      PROVE  /\ pc' = "layer" /\ l' = 0 /\ token' \in Nat /\ fed' = Append(fed, token')
             /\ UNCHANGED <<mode, config, steps, pos, next, cache, att, at, tb, drawn>>
             /\ prompt' \in Seq(Nat) /\ user_idx' \in Nat /\ user_turn' \in BOOLEAN
             /\ turns' \in Seq([first : Nat, prompt : Seq(Nat)])
  <2> DEFINE tok == IF i < Len(words) THEN words[i + 1] ELSE next
  <2>1. tok \in Nat
    BY ElementOfSeq DEF ShapeInv, LoopInv, TokenInv
  <2>2. /\ prompt' = words /\ user_idx' = (IF i < Len(words) THEN i + 1 ELSE i)
        /\ user_turn' = (tok = EOS) /\ turns' = turn /\ StartForward(tok)
    BY <1>3 DEF ChatFeed
  <2> HIDE DEF tok
  <2> QED
    BY <2>1, <2>2 DEF StartForward
<1>4. CASE Ask
  <2>1. PICK words \in Prompts \ {<<>>} :
          ChatFeed(words, 0, Append(turns, [first |-> pos, prompt |-> words]))
    BY <1>4 DEF Ask
  <2>2. words \in Seq(Nat)
    BY ReferenceAssumption
  <2>3. Append(turns, [first |-> pos, prompt |-> words]) \in Seq([first : Nat, prompt : Seq(Nat)])
    BY <2>2, <1>2 DEF ShapeInv, LoopInv, TokenInv
  <2> QED
    BY <2>1, <2>2, <2>3, <1>3, <1>4 DEF Ask
<1>5. CASE GoOn
  BY <1>3, <1>5 DEF GoOn, ShapeInv, LoopInv, TokenInv
<1> QED
  BY <1>1, <1>4, <1>5 DEF Starts

(* What the sampling at the end of a position does. *)
LEMMA SampleStep ==
  ASSUME ShapeInv, Samples
  PROVE  /\ pc = "sample" /\ pc' \in {"top", "broke"} /\ pos' = pos + 1
         /\ next' \in Nat /\ token' \in Nat
         /\ drawn' \in {drawn, Append(drawn, next')} /\ drawn' \in Seq(Nat)
         /\ UNCHANGED <<mode, config, steps, prompt, user_idx, user_turn, attention, fed, turns>>
<1>1. CASE GenerateNext
  <2>1. Vocabulary \in SUBSET Nat /\ pos \in Nat
    BY ReferenceAssumption, Sizes DEF ShapeInv, LoopInv, TokenInv
  <2>2. Forced => prompt[pos + 2] \in Nat
    <3>1. prompt \in Seq(Nat) /\ Len(prompt) \in Nat
      BY DEF ShapeInv, TokenInv
    <3>2. Forced => pos + 2 \in 1 .. Len(prompt)
      BY <2>1, <3>1 DEF Forced
    <3> QED
      BY <3>1, <3>2, ElementOfSeq
  <2>3. next' \in Nat /\ drawn' \in {drawn, Append(drawn, next')}
    BY <2>1, <2>2, <1>1 DEF GenerateNext
  <2>4. token' \in Nat /\ pc' \in {"top", "broke"}
    BY <2>3, <1>1 DEF GenerateNext, ShapeInv, TokenInv
  <2>5. drawn' \in Seq(Nat)
    <3>1. drawn \in Seq(Nat)
      BY DEF ShapeInv, TokenInv
    <3>2. Append(drawn, next') \in Seq(Nat)
      BY <3>1, <2>3, AppendProperties
    <3> QED
      BY <3>1, <3>2, <2>3
  <2> QED
    BY <2>1, <2>3, <2>4, <2>5, <1>1 DEF GenerateNext
<1>2. CASE ChatNext
  BY <1>2, ReferenceAssumption DEF ChatNext, ShapeInv, LoopInv, TokenInv
<1> QED
  BY <1>1, <1>2 DEF Samples

(* Every step keeps the types and the bounds. *)
LEMMA ShapeNext ==
  ASSUME IInv, [Next]_vars
  PROVE  ShapeInv'
<1> USE DEF IInv, ShapeInv
<1>1. /\ config \in Configs /\ pos \in Nat /\ steps \in Nat /\ l \in Nat /\ NLayers \in Nat \ {0}
      /\ pos <= steps /\ l <= NLayers
  BY Sizes DEF LoopInv
<1>2. ASSUME UNCHANGED <<pc, pos, l>> PROVE LoopInv'
  BY <1>2, Fixed DEF LoopInv, InForward
<1>3. ASSUME UNCHANGED <<loop, history>>, InForward' = InForward PROVE TokenInv'
  BY <1>3 DEF TokenInv, loop, history
<1>4. ASSUME UNCHANGED <<cache, att, at, tb>> PROVE ArrayInv'
  BY <1>4, Fixed DEF ArrayInv
<1>5. CASE Project
  <2>1. /\ pc = "layer" /\ pc' = "heads" /\ UNCHANGED <<loop, l, att, tb, history>>
        /\ cache' = [a \in DOMAIN cache |-> cache'[a]]
        /\ at' = [h \in Heads |-> "score"]
    BY <1>5 DEF Project
  <2>2. LoopInv'
    BY <2>1, <1>1, Fixed DEF LoopInv, InForward, loop
  <2>3. ArrayInv'
    BY <2>1, Fixed DEF ArrayInv
  <2> QED
    BY <2>1, <2>2, <2>3, <1>3 DEF InForward
<1>6. CASE HeadsStep
  <2>1. PICK h \in Heads : ScoreHead(h) \/ SinkHead(h) \/ SoftmaxHead(h) \/ SumHead(h)
    BY <1>6 DEF HeadsStep
  <2>2. /\ pc = "heads" /\ UNCHANGED <<pc, loop, l, cache, history>>
        /\ at' \in [Heads -> {"score", "sink", "softmax", "sum", "joined"}]
    BY <2>1 DEF ScoreHead, SinkHead, SoftmaxHead, SumHead, HeadStep, ArrayInv
  <2>3. att' = [a \in AttCells |-> att'[a]] /\ tb' = [g \in Heads |-> tb'[g]]
    BY <2>1 DEF ScoreHead, SinkHead, SoftmaxHead, SumHead, ArrayInv
  <2>4. ArrayInv'
    BY <2>2, <2>3, Fixed DEF ArrayInv
  <2> QED
    BY <2>2, <2>4, <1>2, <1>3 DEF loop, InForward
<1>7. CASE EndLayer
  <2>1. /\ pc = "heads" /\ l' = l + 1 /\ pc' = (IF l + 1 < NLayers THEN "layer" ELSE "sample")
        /\ UNCHANGED <<loop, cache, att, at, tb, history>>
    BY <1>7 DEF EndLayer
  <2>2. LoopInv'
    BY <2>1, <1>1, Fixed DEF LoopInv, InForward, loop
  <2> QED
    BY <2>1, <2>2, <1>3, <1>4 DEF InForward
<1>8. CASE Starts
  <2>1. /\ pc = "top" /\ pos < steps /\ pc' = "layer" /\ l' = 0
        /\ token' \in Nat /\ fed' = Append(fed, token')
        /\ UNCHANGED <<mode, config, steps, pos, next, cache, att, at, tb, drawn>>
        /\ prompt' \in Seq(Nat) /\ user_idx' \in Nat /\ user_turn' \in BOOLEAN
        /\ turns' \in Seq([first : Nat, prompt : Seq(Nat)])
    BY <1>8, StepStarts
  <2>2. LoopInv'
    BY <2>1, <1>1, Fixed DEF LoopInv, InForward
  <2>3. TokenInv'
    <3>1. fed \in Seq(Nat) /\ Len(fed) = pos /\ drawn \in Seq(Nat) /\ next \in Nat
      BY <2>1 DEF TokenInv, InForward
    <3>2. fed' \in Seq(Nat) /\ Len(fed') = pos + 1
      BY <2>1, <3>1, AppendProperties
    <3> QED
      BY <2>1, <3>1, <3>2 DEF TokenInv, InForward
  <2> QED
    BY <2>1, <2>2, <2>3, <1>4
<1>9. CASE Samples
  <2>1. /\ pc = "sample" /\ pc' \in {"top", "broke"} /\ pos' = pos + 1
        /\ next' \in Nat /\ token' \in Nat /\ drawn' \in Seq(Nat)
        /\ UNCHANGED <<mode, config, steps, prompt, user_idx, user_turn, attention, fed, turns>>
    BY <1>9, SampleStep
  <2>2. LoopInv'
    BY <2>1, <1>1, Fixed DEF LoopInv, InForward, attention
  <2>3. TokenInv'
    BY <2>1, <1>1 DEF TokenInv, InForward
  <2> QED
    BY <2>1, <2>2, <2>3, <1>4 DEF attention
<1>10. CASE Leaves
  <2>1. pc \in {"top", "broke"} /\ pc' \in {"failed", "done"} /\ UNCHANGED <<loop, attention, history>>
    BY <1>10 DEF Leaves, GenerateRefused, Finished
  <2>2. LoopInv'
    BY <2>1, <1>1, Fixed DEF LoopInv, InForward, loop, attention
  <2> QED
    BY <2>1, <2>2, <1>3, <1>4 DEF InForward, attention
<1>11. CASE UNCHANGED vars
  BY <1>11, <1>2, <1>3, <1>4 DEF vars, loop, attention, history, InForward
<1> QED
  BY <1>5, <1>6, <1>7, <1>8, <1>9, <1>10, <1>11, StepCases
(* Positions and layers stay within the checkpoint's. *)
LEMMA Bounds ==
  ASSUME ShapeInv
  PROVE  /\ config \in Configs /\ pos \in Nat /\ l \in Nat /\ l <= NLayers
         /\ steps \in Nat \ {0} /\ steps <= SeqLen /\ pos <= steps
         /\ Len(fed) = (IF InForward THEN pos + 1 ELSE pos)
         /\ pc \in {"layer", "heads"} => l < NLayers /\ pos < SeqLen
         /\ pc = "sample" => l = NLayers
<1>1. steps \in 1 .. SeqLen /\ SeqLen \in Nat
  BY Sizes DEF ShapeInv, LoopInv
<1>2. InForward => pos < steps
  BY DEF ShapeInv, LoopInv
<1>3. pc \in {"layer", "heads"} => InForward
  BY DEF InForward
<1>4. pos \in Nat
  BY DEF ShapeInv, LoopInv
<1>5. InForward => pos < SeqLen
  BY <1>1, <1>2, <1>4
<1> QED
  BY <1>1, <1>3, <1>4, <1>5 DEF ShapeInv, LoopInv, TokenInv

-----------------------------------------------------------------------------
(* What was stored stays the same while the tokens before it are. *)
LEMMA StoredFixed ==
  ASSUME [Next]_vars, ShapeInv, GenerateInv, NEW t, t \in 0 .. Len(fed) - 1
  PROVE  \A k, g : Stored(k, t, g)' = Stored(k, t, g)
<1>1. fed \in Seq(Nat) /\ t + 1 \in 1 .. Len(fed)
  BY DEF ShapeInv, TokenInv
<1>2. CASE fed' = fed
  BY <1>2 DEF Stored
<1>3. CASE fed' = Append(fed, token') /\ token' \in Nat
  <2>1. fed'[t + 1] = fed[t + 1]
    BY <1>1, <1>3, AppendProperties
  <2> QED
    BY <2>1 DEF Stored
<1>4. fed' = fed \/ (fed' = Append(fed, token') /\ token' \in Nat)
  <2>1. Starts => fed' = Append(fed, token') /\ token' \in Nat
    BY StepStarts
  <2>2. ~Starts => fed' = fed
    BY StepCases
       DEF Project, HeadsStep, HeadStep, ScoreHead, SinkHead, SoftmaxHead, SumHead, EndLayer,
           Samples, GenerateNext, ChatNext, Leaves, GenerateRefused, Finished, vars, history
  <2> QED
    BY <2>1, <2>2
<1> QED
  BY <1>2, <1>3, <1>4

(* The cache holds what was computed at each position: Project writes the cells *)
(* of one position and layer, and no other step writes.                         *)
LEMMA CacheNext ==
  ASSUME IInv, [Next]_vars
  PROVE  CacheInv'
<1> USE DEF IInv, ShapeInv
<1>0. /\ config \in Configs /\ pos \in Nat /\ l \in Nat /\ l <= NLayers
      /\ NLayers \in Nat \ {0} /\ SeqLen \in Nat \ {0} /\ NKvHeads \in Nat \ {0}
      /\ Len(fed) = (IF InForward THEN pos + 1 ELSE pos)
      /\ pc \in {"layer", "heads"} => l < NLayers /\ pos < SeqLen
      /\ pc = "sample" => l = NLayers
  BY Sizes, Bounds
<1> SUFFICES ASSUME NEW k \in 0 .. NLayers - 1, NEW t \in 0 .. SeqLen - 1, NEW g \in 0 .. NKvHeads - 1,
                    Written(k, t)'
             PROVE  cache'[KvAddress(k, t, g)] = Stored(k, t, g)'
  BY Fixed DEF CacheInv, KvAddress
<1>1. ASSUME UNCHANGED cache, Written(k, t)
      PROVE  cache'[KvAddress(k, t, g)] = Stored(k, t, g)'
  <2>1. t \in 0 .. Len(fed) - 1
    BY <1>0, <1>1 DEF Written
  <2> QED
    BY <1>1, <2>1, StoredFixed DEF CacheInv
<1>2. CASE Project
  <2>1. /\ pc = "layer" /\ pc' = "heads" /\ UNCHANGED <<loop, l, history>>
        /\ cache' = [a \in DOMAIN cache |->
                       IF \E d \in 0 .. NKvHeads - 1 : a = KvAddress(l, pos, d)
                       THEN Stored(l, pos, a % NKvHeads) ELSE cache[a]]
    BY <1>2 DEF Project
  <2> DEFINE a == KvAddress(k, t, g)
  <2>2. /\ DOMAIN cache = 0 .. NLayers * SeqLen * NKvHeads - 1
        /\ <<k, t, g>> \in CachePlaces
        /\ \A d \in 0 .. NKvHeads - 1 : <<l, pos, d>> \in CachePlaces
    <3>1. DOMAIN cache = 0 .. NLayers * SeqLen * NKvHeads - 1
      BY DEF ArrayInv
    <3>2. <<k, t, g>> \in CachePlaces
      BY DEF CachePlaces
    <3>3. NLayers \in Nat /\ SeqLen \in Nat /\ l \in Nat /\ pos \in Nat /\ l < NLayers /\ pos < SeqLen
      BY <1>0, <2>1, Sizes, Bounds
    <3>4. l \in 0 .. NLayers - 1 /\ pos \in 0 .. SeqLen - 1
      BY <3>3
    <3>5. \A d \in 0 .. NKvHeads - 1 : <<l, pos, d>> \in CachePlaces
      BY <3>4 DEF CachePlaces
    <3> QED
      BY <3>1, <3>2, <3>5
  <2>3. a \in DOMAIN cache /\ a % NKvHeads = g
    BY <2>2, <1>0, Addresses
  <2>4. ASSUME NEW d \in 0 .. NKvHeads - 1, a = KvAddress(l, pos, d)
        PROVE  k = l /\ t = pos
    BY <2>2, <2>4, <1>0, Addresses
  <2>5. CASE k = l /\ t = pos
    <3>1. cache'[a] = Stored(l, pos, g)
      BY <2>1, <2>3, <2>5
    <3>2. fed' = fed
      BY <2>1 DEF history
    <3> QED
      BY <3>1, <3>2, <2>5 DEF Stored
  <2>6. CASE ~(k = l /\ t = pos)
    <3>1. cache'[a] = cache[a]
      BY <2>1, <2>3, <2>4, <2>6
    <3>2. Written(k, t)
      BY <2>1, <2>6, <1>0 DEF Written, InForward, loop
    <3>3. t \in 0 .. Len(fed) - 1
      BY <3>2, <1>0 DEF Written
    <3> QED
      BY <3>1, <3>2, <3>3, StoredFixed DEF CacheInv
  <2> QED
    BY <2>5, <2>6
<1>3. CASE HeadsStep
  <2>1. UNCHANGED <<pc, loop, l, cache>>
    BY <1>3 DEF HeadsStep, ScoreHead, SinkHead, SoftmaxHead, SumHead, HeadStep
  <2> QED
    BY <2>1, <1>1 DEF Written, InForward, loop
<1>4. CASE EndLayer
  <2>1. /\ pc = "heads" /\ l' = l + 1 /\ pc' \in {"layer", "sample"} /\ UNCHANGED <<loop, cache>>
    BY <1>4 DEF EndLayer
  <2> QED
    BY <2>1, <1>0, <1>1 DEF Written, InForward, loop
<1>5. CASE Starts
  <2>1. pc = "top" /\ pc' = "layer" /\ l' = 0 /\ UNCHANGED <<pos, cache>>
    BY <1>5, StepStarts
  <2> QED
    BY <2>1, <1>1 DEF Written, InForward
<1>6. CASE Samples
  <2>1. pc = "sample" /\ pc' \in {"top", "broke"} /\ pos' = pos + 1 /\ UNCHANGED <<l, cache>>
    BY <1>6, SampleStep DEF attention
  <2> QED
    BY <2>1, <1>0, <1>1 DEF Written, InForward
<1>7. CASE Leaves
  <2>1. pc' \in {"failed", "done"} /\ UNCHANGED <<pos, cache>>
    BY <1>7 DEF Leaves, GenerateRefused, Finished, loop, attention
  <2> QED
    BY <2>1, <1>1 DEF Written, InForward
<1>8. CASE UNCHANGED vars
  BY <1>8, <1>1 DEF Written, InForward, vars, loop, attention
<1> QED
  BY <1>2, <1>3, <1>4, <1>5, <1>6, <1>7, <1>8, StepCases
-----------------------------------------------------------------------------
(* What a head has to weigh is settled when its layer's keys are stored. *)
LEMMA ViewFixed ==
  ASSUME [Next]_vars, UNCHANGED <<pos, l, fed>>
  PROVE  \A h, t : /\ Value(h, t)' = Value(h, t) /\ OwnScore(h, t)' = OwnScore(h, t)
                   /\ Share(h, t)' = Share(h, t) /\ Weighted(h)' = Weighted(h)
                   /\ Row(h)' = Row(h) /\ Sink(l, h)' = Sink(l, h)
<1>1. \A h, t : Value(h, t)' = Value(h, t) /\ Row(h)' = Row(h) /\ Sink(l, h)' = Sink(l, h)
  BY Fixed DEF Value, Stored, Row, Sink
<1>2. \A h, t : OwnScore(h, t)' = OwnScore(h, t)
  BY <1>1, Fixed DEF OwnScore, Score, Hidden
<1>3. \A h : OwnScores(h)' = OwnScores(h)
  BY <1>2 DEF OwnScores
<1>4. \A h, t : Share(h, t)' = Share(h, t)
  BY <1>1, <1>2, <1>3 DEF Share
<1>5. \A h : Weighted(h)' = Weighted(h)
  BY <1>1, <1>4 DEF Weighted
<1> QED
  BY <1>1, <1>2, <1>4, <1>5

(* A head's step writes cells of its own row and nothing of the other heads. *)
LEMMA HeadFrame ==
  ASSUME [Next]_vars, UNCHANGED <<pos, l, fed>>, pos \in Nat,
         NEW g \in Heads, Row(g) \in Nat, HeadState(g),
         at'[g] = at[g], tb'[g] = tb[g],
         \A i \in 0 .. pos + 1 : att'[Row(g) + i] = att[Row(g) + i]
  PROVE  HeadState(g)'
<1>1. /\ at[g] \in {"sink", "softmax"} => \A t \in 0 .. pos : att'[Row(g) + t] = OwnScore(g, t)
      /\ at[g] = "softmax" => att'[Row(g) + pos + 1] = Sink(l, g)
      /\ at[g] = "sum" => \A t \in 0 .. pos : att'[Row(g) + t] = Share(g, t)
      /\ at[g] = "joined" => tb'[g] = Weighted(g)
  <2>1. \A t \in 0 .. pos : att'[Row(g) + t] = att[Row(g) + t]
    OBVIOUS
  <2>2. at[g] = "softmax" => att'[Row(g) + pos + 1] = att[Row(g) + pos + 1]
    <3>1. Row(g) + (pos + 1) = Row(g) + pos + 1 /\ pos + 1 \in 0 .. pos + 1
      OBVIOUS
    <3> QED
      BY <3>1
  <2> QED
    BY <2>1, <2>2 DEF HeadState, RowScored
<1> QED
  BY <1>1, ViewFixed DEF HeadState, RowScored

(* Every step keeps what the rows of the heads hold. *)
LEMMA HeadNext ==
  ASSUME IInv, [Next]_vars
  PROVE  HeadInv'
<1> USE DEF IInv, ShapeInv
<1>0. config \in Configs /\ SeqLen \in Nat \ {0} /\ pos \in Nat /\ l \in Nat
  BY Sizes, Bounds
<1>1. ASSUME pc' # "heads" PROVE HeadInv'
  BY <1>1 DEF HeadInv
<1>2. CASE Project
  <2>1. at' = [h \in Heads |-> "score"]
    BY <1>2 DEF Project
  <2>2. \A h \in Heads : HeadState(h)'
    BY <2>1 DEF HeadState
  <2> QED
    BY <2>2, Fixed DEF HeadInv
<1>3. CASE HeadsStep
  <2>1. PICK h \in Heads : ScoreHead(h) \/ SinkHead(h) \/ SoftmaxHead(h) \/ SumHead(h)
    BY <1>3 DEF HeadsStep
  <2>2. pc = "heads" /\ UNCHANGED <<pc, loop, l, cache, history>>
    BY <2>1 DEF ScoreHead, SinkHead, SoftmaxHead, SumHead, HeadStep
  <2>3. UNCHANGED <<pos, l, fed>>
    BY <2>2 DEF loop, history
  <2> SUFFICES ASSUME pos < SeqLen - 1 PROVE \A g \in Heads : HeadState(g)'
    BY <2>3, Fixed DEF HeadInv
  <2>4. \A g \in Heads : HeadState(g)
    BY <2>2 DEF HeadInv
  <2>5. /\ at \in [Heads -> {"score", "sink", "softmax", "sum", "joined"}]
        /\ DOMAIN att = AttCells /\ DOMAIN tb = Heads
    BY DEF ArrayInv
  <2>6. /\ \A g \in Heads, i \in 0 .. SeqLen : Row(g) + i \in AttCells
        /\ \A f, g \in Heads : \A i, j \in 0 .. SeqLen - 1 :
             Row(f) + i = Row(g) + j => f = g /\ i = j
        /\ \A g \in Heads : Row(g) \in Nat
    BY AttRows, <1>0
  <2>7. /\ \A g, t : /\ Value(g, t)' = Value(g, t) /\ OwnScore(g, t)' = OwnScore(g, t)
                     /\ Share(g, t)' = Share(g, t) /\ Weighted(g)' = Weighted(g)
                     /\ Row(g)' = Row(g) /\ Sink(l, g)' = Sink(l, g)
    BY <2>3, ViewFixed
  \* A cell of another row, and a cell of the row of h.
  <2>8. ASSUME NEW g \in Heads \ {h}, NEW i \in 0 .. pos + 1
        PROVE  Row(g) + i \in AttCells /\ Row(g) + i \notin Row(h) .. Row(h) + pos + 1
    <3>1. i \in 0 .. SeqLen - 1 /\ i \in 0 .. SeqLen
      BY <1>0
    <3>2. ASSUME Row(g) + i \in Row(h) .. Row(h) + pos + 1 PROVE FALSE
      <4> DEFINE j == Row(g) + i - Row(h)
      <4>1. j \in 0 .. SeqLen - 1 /\ Row(h) + j = Row(g) + i
        BY <3>2, <1>0, <2>6, <3>1
      <4> QED
        BY <4>1, <3>1, <2>6
    <3> QED
      BY <3>1, <3>2, <2>6
  <2>9. ASSUME NEW i \in 0 .. pos + 1
        PROVE  Row(h) + i \in AttCells /\ Row(h) + i \in Row(h) .. Row(h) + pos + 1
               /\ (Row(h) + i) - Row(h) = i
    BY <1>0, <2>6
  <2>10. ASSUME \A g \in Heads \ {h} : /\ at'[g] = at[g] /\ tb'[g] = tb[g]
                                       /\ \A i \in 0 .. pos + 1 : att'[Row(g) + i] = att[Row(g) + i],
                HeadState(h)'
         PROVE  \A g \in Heads : HeadState(g)'
    <3>1. \A g \in Heads \ {h} : HeadState(g)'
      BY <2>3, <2>4, <2>6, <2>10, <1>0, HeadFrame
    <3> QED
      BY <3>1, <2>10
  <2>11. \A g \in Heads \ {h} : at'[g] = at[g]
    BY <2>1, <2>5 DEF ScoreHead, SinkHead, SoftmaxHead, SumHead, HeadStep
  <2>12. CASE ScoreHead(h)
    <3>1. /\ at'[h] = "sink" /\ tb' = tb
          /\ att' = [a \in AttCells |->
               IF a \in Row(h) .. Row(h) + pos
               THEN Score(h, cache[KvAddress(l, a - Row(h), h \div KvMul)], Hidden(l, a - Row(h)))
               ELSE att[a]]
      BY <2>12, <2>5 DEF ScoreHead, HeadStep
    <3>2. ASSUME NEW g \in Heads \ {h}, NEW i \in 0 .. pos + 1
          PROVE  att'[Row(g) + i] = att[Row(g) + i]
      <4>1. Row(g) + i \notin Row(h) .. Row(h) + pos
        BY <2>8, <2>6, <1>0
      <4> QED
        BY <4>1, <3>1, <2>8
    <3>3. ASSUME NEW t \in 0 .. pos PROVE att'[Row(h) + t] = OwnScore(h, t)
      <4>1. cache[KvAddress(l, t, h \div KvMul)] = Value(h, t)
        <5>1. /\ l \in 0 .. NLayers - 1 /\ t \in 0 .. SeqLen - 1 /\ h \div KvMul \in 0 .. NKvHeads - 1
          BY <2>2, <1>0, Sizes, Bounds
        <5>2. Written(l, t)
          BY <2>2, <1>0 DEF Written, InForward
        <5> QED
          BY <5>1, <5>2 DEF CacheInv, Value
      <4>2. Row(h) + t \in AttCells /\ Row(h) + t \in Row(h) .. Row(h) + pos
            /\ (Row(h) + t) - Row(h) = t
        <5>1. t \in 0 .. pos + 1 /\ Row(h) \in Nat
          BY <1>0, <2>6
        <5>2. Row(h) + t \in AttCells
          BY <5>1, <2>9
        <5> QED
          BY <5>1, <5>2, <1>0
      <4> DEFINE a == Row(h) + t
      <4>3. a \in AttCells /\ a \in Row(h) .. Row(h) + pos /\ a - Row(h) = t
        BY <4>2
      <4> HIDE DEF a
      <4>4. att'[a] = Score(h, cache[KvAddress(l, t, h \div KvMul)], Hidden(l, t))
        BY <4>3, <3>1
      <4>5. att'[a] = OwnScore(h, t)
        BY <4>1, <4>4 DEF OwnScore
      <4> QED
        BY <4>5 DEF a
    <3>4. HeadState(h)'
      BY <3>1, <3>3, <2>3, <2>7 DEF HeadState, RowScored
    <3> QED
      BY <3>1, <3>2, <3>4, <2>10, <2>11
  <2>13. CASE SinkHead(h)
    <3>1. /\ at[h] = "sink" /\ at'[h] = "softmax" /\ tb' = tb
          /\ att' = [att EXCEPT ![Row(h) + pos + 1] = Sink(l, h)]
      BY <2>13, <2>5 DEF SinkHead, HeadStep
    <3>2. Row(h) + pos + 1 = Row(h) + (pos + 1) /\ pos + 1 \in 0 .. pos + 1
      BY <1>0, <2>6
    <3>3. ASSUME NEW g \in Heads \ {h}, NEW i \in 0 .. pos + 1
          PROVE  att'[Row(g) + i] = att[Row(g) + i]
      BY <3>1, <3>2, <2>5, <2>8, <2>9
    <3>4. att'[Row(h) + pos + 1] = Sink(l, h)
      BY <3>1, <3>2, <2>5, <2>9
    <3>5. ASSUME NEW t \in 0 .. pos PROVE att'[Row(h) + t] = OwnScore(h, t)
      <4>1. Row(h) + t # Row(h) + pos + 1 /\ Row(h) + t \in AttCells
        BY <1>0, <2>6, <2>9
      <4> QED
        BY <4>1, <3>1, <2>4, <2>5 DEF HeadState, RowScored
    <3>6. HeadState(h)'
      BY <3>1, <3>4, <3>5, <2>3, <2>7 DEF HeadState, RowScored
    <3> QED
      BY <3>1, <3>3, <3>6, <2>10, <2>11
  <2>14. CASE SoftmaxHead(h)
    <3> DEFINE row == Row(h) .. Row(h) + pos + 1
               among == {att[a] : a \in row}
    <3>1. /\ at[h] = "softmax" /\ at'[h] = "sum" /\ tb' = tb
          /\ att' = [a \in AttCells |->
                       IF a \in row THEN [share |-> att[a], among |-> among] ELSE att[a]]
      BY <2>14, <2>5 DEF SoftmaxHead, HeadStep
    <3>2. /\ \A t \in 0 .. pos : att[Row(h) + t] = OwnScore(h, t)
          /\ att[Row(h) + pos + 1] = Sink(l, h)
      BY <3>1, <2>4 DEF HeadState, RowScored
    <3>3. among = OwnScores(h) \union {Sink(l, h)}
      <4>1. row = {Row(h) + t : t \in 0 .. pos} \union {Row(h) + pos + 1}
        <5>1. ASSUME NEW a \in row, a # Row(h) + pos + 1
              PROVE  a - Row(h) \in 0 .. pos /\ a = Row(h) + (a - Row(h))
          BY <5>1, <1>0, <2>6
        <5>2. \A t \in 0 .. pos : Row(h) + t \in row
          BY <1>0, <2>6
        <5>3. Row(h) + pos + 1 \in row
          BY <1>0, <2>6
        <5> QED
          BY <5>1, <5>2, <5>3
      <4> HIDE DEF row
      <4> QED
        BY <4>1, <3>2 DEF OwnScores
    <3>4. ASSUME NEW g \in Heads \ {h}, NEW i \in 0 .. pos + 1
          PROVE  att'[Row(g) + i] = att[Row(g) + i]
      BY <3>1, <2>8
    <3>5. ASSUME NEW t \in 0 .. pos PROVE att'[Row(h) + t] = Share(h, t)
      <4>1. Row(h) + t \in AttCells /\ Row(h) + t \in row
        BY <2>9, <1>0
      <4> HIDE DEF row, among
      <4> QED
        BY <4>1, <3>1, <3>2, <3>3 DEF Share
    <3>6. HeadState(h)'
      BY <3>1, <3>5, <2>3, <2>7 DEF HeadState
    <3> QED
      BY <3>1, <3>4, <3>6, <2>10, <2>11
  <2>15. CASE SumHead(h)
    <3>1. /\ at[h] = "sum" /\ at'[h] = "joined" /\ att' = att
          /\ tb' = [tb EXCEPT ![h] = {<<att[Row(h) + t], cache[KvAddress(l, t, h \div KvMul)]>> :
                                       t \in 0 .. pos}]
      BY <2>15, <2>5 DEF SumHead, HeadStep
    <3>2. ASSUME NEW t \in 0 .. pos
          PROVE  att[Row(h) + t] = Share(h, t) /\ cache[KvAddress(l, t, h \div KvMul)] = Value(h, t)
      <4>1. /\ l \in 0 .. NLayers - 1 /\ t \in 0 .. SeqLen - 1 /\ h \div KvMul \in 0 .. NKvHeads - 1
        BY <2>2, <1>0, Sizes, Bounds
      <4>2. Written(l, t)
        BY <2>2, <1>0 DEF Written, InForward
      <4> QED
        BY <4>1, <4>2, <3>1, <2>4 DEF CacheInv, Value, HeadState
    <3>3. tb'[h] = Weighted(h)
      BY <3>1, <3>2, <2>5 DEF Weighted
    <3>4. \A g \in Heads \ {h} : tb'[g] = tb[g]
      BY <3>1, <2>5
    <3>5. HeadState(h)'
      BY <3>1, <3>3, <2>7 DEF HeadState
    <3> QED
      BY <3>1, <3>4, <3>5, <2>10, <2>11
  <2> QED
    BY <2>1, <2>12, <2>13, <2>14, <2>15
<1>4. CASE EndLayer
  BY <1>1, <1>4 DEF EndLayer
<1>5. CASE Starts
  BY <1>1, <1>5, StepStarts
<1>6. CASE Samples
  BY <1>1, <1>6, SampleStep
<1>7. CASE Leaves
  BY <1>1, <1>7 DEF Leaves, GenerateRefused, Finished
<1>8. CASE UNCHANGED vars
  <2>1. UNCHANGED <<pc, pos, l, fed, att, at, tb>>
    BY <1>8 DEF vars, loop, attention, history
  <2>2. ASSUME NEW g \in Heads, HeadState(g) PROVE HeadState(g)'
    BY <2>1, <2>2, <1>0, Fixed, ViewFixed DEF HeadState, RowScored
  <2> QED
    BY <2>1, <2>2, Fixed DEF HeadInv
<1> QED
  BY <1>2, <1>3, <1>4, <1>5, <1>6, <1>7, <1>8, StepCases
-----------------------------------------------------------------------------
(* The turns of chat: a prompt begins, or the one under way goes on. *)
LEMMA AskStep ==
  ASSUME ShapeInv, Ask
  PROVE  \E words \in Seq(Nat) :
           /\ Len(words) \in Nat /\ Len(words) > 0 /\ words # <<>>
           /\ mode = "chat" /\ pc = "top" /\ pc' = "layer" /\ user_turn
           /\ prompt' = words /\ user_idx' = 1 /\ token' = words[1] /\ token' \in Nat
           /\ user_turn' = (token' = EOS)
           /\ [first |-> pos, prompt |-> words] \in [first : Nat, prompt : Seq(Nat)]
           /\ turns' = Append(turns, [first |-> pos, prompt |-> words])
           /\ fed' = Append(fed, token') /\ UNCHANGED <<pos, next, drawn, mode>>
<1>1. PICK words \in Prompts \ {<<>>} :
        ChatFeed(words, 0, Append(turns, [first |-> pos, prompt |-> words]))
  BY DEF Ask
<1>2. words \in Seq(Nat) /\ words # <<>> /\ Len(words) \in Nat
  BY ReferenceAssumption, LenProperties
<1>3. Len(words) > 0 /\ words[1] \in Nat
  <2>1. Len(words) # 0
    BY <1>2
  <2>2. 1 \in 1 .. Len(words)
    BY <2>1, <1>2
  <2> QED
    BY <1>2, <2>1, <2>2, ElementOfSeq
<1>4. /\ prompt' = words /\ user_idx' = 1 /\ user_turn' = (words[1] = EOS)
      /\ turns' = Append(turns, [first |-> pos, prompt |-> words]) /\ StartForward(words[1])
  BY <1>1, <1>3 DEF ChatFeed
<1>5. pos \in Nat
  BY Bounds
<1> QED
  BY <1>2, <1>3, <1>4, <1>5 DEF StartForward, Ask

(* chat goes on inside a turn: the next word of its prompt, or the token sampled last. *)
LEMMA GoOnStep ==
  ASSUME GoOn
  PROVE  /\ mode = "chat" /\ pc = "top" /\ pc' = "layer" /\ ~user_turn
         /\ token' = (IF user_idx < Len(prompt) THEN prompt[user_idx + 1] ELSE next)
         /\ user_idx' = (IF user_idx < Len(prompt) THEN user_idx + 1 ELSE user_idx)
         /\ user_turn' = (token' = EOS) /\ fed' = Append(fed, token')
         /\ UNCHANGED <<prompt, turns, pos, next, drawn, mode>>
<1> DEFINE tok == IF user_idx < Len(prompt) THEN prompt[user_idx + 1] ELSE next
<1>1. /\ prompt' = prompt /\ turns' = turns /\ user_turn' = (tok = EOS) /\ StartForward(tok)
      /\ user_idx' = (IF user_idx < Len(prompt) THEN user_idx + 1 ELSE user_idx)
  BY DEF GoOn, ChatFeed
<1> HIDE DEF tok
<1>2. token' = tok
  BY <1>1 DEF StartForward
<1> QED
  BY <1>1, <1>2 DEF GoOn, StartForward, tok

(* The types of the tokens and turns, as functions. *)
LEMMA Tokens ==
  ASSUME ShapeInv
  PROVE  /\ Len(fed) \in Nat /\ DOMAIN fed = 1 .. Len(fed)
         /\ Len(drawn) \in Nat /\ DOMAIN drawn = 1 .. Len(drawn)
         /\ Len(prompt) \in Nat
         /\ Len(turns) \in Nat /\ DOMAIN turns = 1 .. Len(turns)
         /\ \A k \in DOMAIN turns : /\ turns[k].first \in Nat /\ turns[k].prompt \in Seq(Nat)
                                    /\ Len(turns[k].prompt) \in Nat
                                    /\ turns[k].prompt # <<>> <=> Len(turns[k].prompt) > 0
         /\ prompt = <<>> <=> Len(prompt) = 0
         /\ turns = <<>> <=> Len(turns) = 0
         /\ fed = <<>> <=> Len(fed) = 0
<1>1. fed \in Seq(Nat) /\ drawn \in Seq(Nat) /\ prompt \in Seq(Nat)
      /\ turns \in Seq([first : Nat, prompt : Seq(Nat)])
  BY DEF ShapeInv, TokenInv
<1>2. /\ Len(fed) \in Nat /\ DOMAIN fed = 1 .. Len(fed)
      /\ Len(drawn) \in Nat /\ DOMAIN drawn = 1 .. Len(drawn) /\ Len(prompt) \in Nat
      /\ Len(turns) \in Nat /\ DOMAIN turns = 1 .. Len(turns)
  BY <1>1, LenProperties
<1>3. ASSUME NEW k \in DOMAIN turns
      PROVE  /\ turns[k].first \in Nat /\ turns[k].prompt \in Seq(Nat)
             /\ Len(turns[k].prompt) \in Nat
             /\ turns[k].prompt # <<>> <=> Len(turns[k].prompt) > 0
  <2>1. turns[k] \in [first : Nat, prompt : Seq(Nat)]
    BY <1>1, <1>2, ElementOfSeq
  <2>2. turns[k].first \in Nat /\ turns[k].prompt \in Seq(Nat)
    BY <2>1
  <2>3. Len(turns[k].prompt) \in Nat
    BY <2>2, LenProperties
  <2>4. turns[k].prompt = <<>> <=> Len(turns[k].prompt) = 0
    BY <2>2, EmptySeq
  <2> QED
    BY <2>2, <2>3, <2>4
<1> QED
  BY <1>1, <1>2, <1>3, EmptySeq

(* The token due at a position that was fed is settled: sampled tokens are only appended. *)
LEMMA DueFixed ==
  ASSUME IInv, mode' = mode, NEW p, p \in 0 .. Len(fed) - 1, NEW k, IsTurn(p, k),
         turns'[k] = turns[k], \A i \in DOMAIN drawn : drawn'[i] = drawn[i]
  PROVE  Due(p, k)' = Due(p, k)
<1> USE DEF IInv
<1>1. k \in DOMAIN turns /\ turns[k].first <= p /\ turns[k].first \in Nat
      /\ Len(turns[k].prompt) \in Nat /\ p \in Nat /\ Len(fed) \in Nat
  BY Tokens DEF IsTurn
<1>2. mode \in {"generate", "chat"} /\ pos \in Nat /\ p <= pos /\ (~InForward => p < pos)
      /\ Len(drawn) \in Nat /\ DOMAIN drawn = 1 .. Len(drawn)
  BY ReferenceAssumption, Bounds, Tokens DEF ShapeInv, LoopInv
<1>3. ASSUME ~(p - turns[k].first < Len(turns[k].prompt)), mode = "chat"
      PROVE  p \in DOMAIN drawn
  <2>1. Len(turns[k].prompt) > 0 /\ Len(drawn) = pos
    BY <1>1, <1>3, Tokens DEF ChatInv
  <2> QED
    BY <2>1, <1>1, <1>2, <1>3
<1>4. ASSUME ~(p - turns[k].first < Len(turns[k].prompt)), mode = "generate"
      PROVE  p - Len(turns[k].prompt) + 1 \in DOMAIN drawn
  <2>1. turns = <<[first |-> 0, prompt |-> prompt]>>
    BY <1>4 DEF GenerateInv
  <2>2. turns[k].first = 0 /\ turns[k].prompt = prompt /\ Len(prompt) \in Nat
    BY <2>1, <1>1
  <2>3. prompt # <<>>
    <3>1. prompt = <<>> => pos = 0 /\ pc \in {"top", "failed"}
      BY <1>4 DEF GenerateInv
    <3> QED
      BY <3>1, <1>1, <1>2 DEF InForward
  <2>4. Len(drawn) = (IF pos < Len(prompt) THEN 0 ELSE pos - Len(prompt) + 1)
    BY <2>3, <1>4 DEF GenerateInv
  <2> QED
    BY <2>2, <2>4, <1>1, <1>2, <1>4
<1>5. CASE p - turns[k].first < Len(turns[k].prompt)
  BY <1>5 DEF Due
<1>6. CASE ~(p - turns[k].first < Len(turns[k].prompt)) /\ mode = "chat"
  BY <1>3, <1>6 DEF Due
<1>7. CASE ~(p - turns[k].first < Len(turns[k].prompt)) /\ mode = "generate"
  <2>1. mode # "chat" /\ mode' # "chat"
    BY <1>7
  <2> DEFINE i == p - Len(turns[k].prompt) + 1
  <2>2. drawn'[i] = drawn[i]
    BY <1>4, <1>7
  <2>3. Due(p, k) = drawn[i]
    BY <1>7, <2>1 DEF Due
  <2>4. Due(p, k)' = drawn'[i]
    BY <1>7, <2>1 DEF Due
  <2> QED
    BY <2>2, <2>3, <2>4
<1> QED
  BY <1>2, <1>5, <1>6, <1>7

(* Every step keeps FedInv: what is fed is what is due. *)
LEMMA FedNext ==
  ASSUME IInv, [Next]_vars
  PROVE  FedInv'
<1> USE DEF IInv
<1>1. ASSUME UNCHANGED <<fed, turns>>, \A i \in DOMAIN drawn : drawn'[i] = drawn[i] PROVE FedInv'
  <2> SUFFICES ASSUME NEW p \in 0 .. Len(fed) - 1
               PROVE  \E k \in DOMAIN turns : IsTurn(p, k)' /\ fed[p + 1] = Due(p, k)'
    BY <1>1 DEF FedInv
  <2>1. PICK k \in DOMAIN turns : IsTurn(p, k) /\ fed[p + 1] = Due(p, k)
    BY DEF FedInv
  <2>2. IsTurn(p, k)'
    BY <2>1, <1>1 DEF IsTurn
  <2>3. Due(p, k)' = Due(p, k)
    BY <2>1, <1>1, Fixed, DueFixed
  <2> QED
    BY <2>1, <2>2, <2>3
\* The tokens fed before stay as they were; one more is due.
<1>2. ASSUME pc = "top", NEW turn, turns' \in {turns, Append(turns, turn)},
             turn \in [first : Nat, prompt : Seq(Nat)], turn.first = pos,
             fed' = Append(fed, token'), token' \in Nat, drawn' = drawn,
             NEW q, q = pos, NEW m \in DOMAIN turns', IsTurn(q, m)', token' = Due(q, m)'
      PROVE  FedInv'
  <2>1. Len(fed) = pos /\ pos \in Nat /\ fed \in Seq(Nat)
        /\ turns \in Seq([first : Nat, prompt : Seq(Nat)])
    BY <1>2, Bounds DEF InForward, ShapeInv, TokenInv
  <2>2. /\ Len(fed') = pos + 1 /\ fed'[pos + 1] = token'
        /\ \A i \in 1 .. pos : fed'[i] = fed[i]
    <3>1. fed \in Seq(Nat) /\ Len(fed) = pos
      BY <2>1
    <3>2. fed' = Append(fed, token') /\ token' \in Nat
      BY <1>2
    <3>3. /\ Len(fed') = Len(fed) + 1 /\ fed'[Len(fed) + 1] = token'
          /\ \A i \in 1 .. Len(fed) : fed'[i] = fed[i]
      BY <3>1, <3>2, Appended
    <3> QED
      BY <3>1, <3>3
  <2>3. ASSUME NEW p \in 0 .. pos - 1
        PROVE  \E k \in DOMAIN turns' : IsTurn(p, k)' /\ fed'[p + 1] = Due(p, k)'
    <3>1. PICK k \in DOMAIN turns : IsTurn(p, k) /\ fed[p + 1] = Due(p, k)
      BY <2>1 DEF FedInv
    <3>2. /\ k \in DOMAIN turns' /\ turns'[k] = turns[k]
          /\ \A j \in DOMAIN turns' : j \in DOMAIN turns \/ turns'[j].first = pos
          /\ \A j \in DOMAIN turns : turns'[j] = turns[j]
      <4>1. CASE turns' = turns
        BY <4>1, <3>1
      <4>2. CASE turns' = Append(turns, turn)
        <5>1. DOMAIN turns = 1 .. Len(turns) /\ Len(turns) \in Nat
          BY Tokens
        <5>2. /\ turns' \in Seq([first : Nat, prompt : Seq(Nat)])
              /\ Len(turns') = Len(turns) + 1 /\ turns'[Len(turns) + 1] = turn
              /\ \A j \in 1 .. Len(turns) : turns'[j] = turns[j]
          BY <1>2, <2>1, <4>2, AppendProperties
        <5>3. DOMAIN turns' = 1 .. Len(turns) + 1
          BY <5>2, LenProperties
        <5>4. \A j \in 1 .. Len(turns) + 1 : j \in 1 .. Len(turns) \/ j = Len(turns) + 1
          BY <5>1
        <5>5. \A j \in DOMAIN turns' : j \in DOMAIN turns \/ turns'[j].first = pos
          BY <5>1, <5>2, <5>3, <5>4, <1>2
        <5>6. k \in DOMAIN turns' /\ \A j \in DOMAIN turns : turns'[j] = turns[j]
          BY <3>1, <5>1, <5>2, <5>3
        <5> QED
          BY <3>1, <5>5, <5>6
      <4> QED
        BY <4>1, <4>2, <1>2
    <3>3. IsTurn(p, k)'
      <4>1. ASSUME NEW j \in DOMAIN turns', turns'[j].first <= p PROVE j <= k
        <5>1. j \in DOMAIN turns /\ turns[j].first <= p
          BY <3>2, <4>1, <2>1
        <5> QED
          BY <5>1, <3>1 DEF IsTurn
      <4> QED
        BY <4>1, <3>1, <3>2 DEF IsTurn
    <3>4. Due(p, k)' = Due(p, k)
      BY <3>1, <3>2, <2>1, <1>2, Fixed, DueFixed
    <3>5. fed'[p + 1] = fed[p + 1]
      BY <2>2, <2>1
    <3> QED
      BY <3>1, <3>2, <3>3, <3>4, <3>5
  <2>4. \A p \in 0 .. pos : p = pos \/ p \in 0 .. pos - 1
    BY <2>1
  <2>5. \A p \in 0 .. pos : \E k \in DOMAIN turns' : IsTurn(p, k)' /\ fed'[p + 1] = Due(p, k)'
    <3>1. fed'[q + 1] = Due(q, m)'
      BY <2>2, <1>2
    <3>2. \E k \in DOMAIN turns' : IsTurn(q, k)' /\ fed'[q + 1] = Due(q, k)'
      BY <3>1, <1>2
    <3>3. \A p \in 0 .. pos : p = q \/ p \in 0 .. pos - 1
      BY <2>4, <1>2
    <3> QED
      BY <2>3, <3>2, <3>3
  <2>6. Len(fed') - 1 = pos
    BY <2>1, <2>2
  <2> QED
    BY <2>5, <2>6 DEF FedInv
<1>3. pos \in Nat /\ Len(fed) = (IF InForward THEN pos + 1 ELSE pos)
  BY Bounds
<1>4. CASE GenerateTop
  <2>1. /\ mode = "generate" /\ pc = "top" /\ fed' = Append(fed, token) /\ token' = token
        /\ UNCHANGED <<mode, pos, drawn, turns, prompt>> /\ prompt # <<>>
    BY <1>4 DEF GenerateTop, StartForward
  <2>2. turns = <<[first |-> 0, prompt |-> prompt]>> /\ token = Due(pos, 1)
    BY <2>1 DEF GenerateInv
  <2> DEFINE turn == [first |-> pos, prompt |-> <<>>]
  <2>0. PICK q : q = pos
    OBVIOUS
  <2>3. 1 \in DOMAIN turns' /\ IsTurn(q, 1)'
    BY <2>0, <2>1, <2>2, <1>3 DEF IsTurn
  <2>4. Due(q, 1)' = token'
    BY <2>0, <2>1, <2>2 DEF Due
  <2>5. token' \in Nat
    BY <2>1 DEF ShapeInv, TokenInv
  <2>6. turn \in [first : Nat, prompt : Seq(Nat)] /\ turn.first = pos
    BY <1>3
  <2> HIDE DEF turn
  <2> QED
    BY <2>0, <2>1, <2>3, <2>4, <2>5, <2>6, <1>2
<1>5. CASE Ask
  <2>1. PICK words \in Seq(Nat) :
           /\ Len(words) \in Nat /\ Len(words) > 0 /\ words # <<>>
           /\ mode = "chat" /\ pc = "top" /\ pc' = "layer" /\ user_turn
           /\ prompt' = words /\ user_idx' = 1 /\ token' = words[1] /\ token' \in Nat
           /\ user_turn' = (token' = EOS)
           /\ [first |-> pos, prompt |-> words] \in [first : Nat, prompt : Seq(Nat)]
           /\ turns' = Append(turns, [first |-> pos, prompt |-> words])
           /\ fed' = Append(fed, token') /\ UNCHANGED <<pos, next, drawn, mode>>
    BY <1>5, AskStep
  <2> DEFINE turn == [first |-> pos, prompt |-> words]
  <2>0. PICK q, m : q = pos /\ m = Len(turns) + 1
    OBVIOUS
  <2>2. turn.first = pos /\ turn.prompt = words /\ turn \in [first : Nat, prompt : Seq(Nat)]
    BY <2>1
  <2>3. turns \in Seq([first : Nat, prompt : Seq(Nat)]) /\ Len(turns) \in Nat
    BY Tokens DEF ShapeInv, TokenInv
  <2> HIDE DEF turn
  <2>4. /\ turns' \in Seq([first : Nat, prompt : Seq(Nat)])
        /\ Len(turns') = m /\ turns'[m] = turn
    BY <2>0, <2>1, <2>2, <2>3, AppendProperties DEF turn
  <2>5. DOMAIN turns' = 1 .. m /\ m \in Nat /\ m \in DOMAIN turns'
    BY <2>0, <2>3, <2>4, LenProperties
  <2>6. IsTurn(q, m)'
    BY <2>0, <2>2, <2>4, <2>5, <1>3 DEF IsTurn
  <2>7. Due(q, m)' = words[1]
    <3>1. q - turns'[m].first = 0 /\ turns'[m].prompt = words
      BY <2>0, <2>2, <2>4, <1>3
    <3>2. q - turns'[m].first < Len(turns'[m].prompt) /\ q - turns'[m].first + 1 = 1
      BY <3>1, <2>0, <2>1, <1>3
    <3> QED
      BY <3>1, <3>2 DEF Due
  <2>8. turns' = Append(turns, turn)
    BY <2>1 DEF turn
  <2> QED
    BY <2>0, <2>1, <2>2, <2>5, <2>6, <2>7, <2>8, <1>2
<1>6. CASE GoOn
  <2>1. /\ mode = "chat" /\ pc = "top" /\ ~user_turn
        /\ token' = (IF user_idx < Len(prompt) THEN prompt[user_idx + 1] ELSE next)
        /\ fed' = Append(fed, token')
        /\ UNCHANGED <<prompt, turns, pos, next, drawn, mode>>
    BY <1>6, GoOnStep
  <2> DEFINE turn == [first |-> pos, prompt |-> <<>>]
  <2>0. PICK q, m : q = pos /\ m = Len(turns)
    OBVIOUS
  <2>2. fed # <<>> /\ turns # <<>> /\ Len(fed) = pos /\ pos > 0 /\ next = drawn[pos]
    <3>1. fed # <<>> /\ turns # <<>> /\ Len(fed) = pos
      BY <2>1, <1>3 DEF ChatInv, InForward
    <3>2. pos # 0
      BY <3>1, Tokens
    <3> QED
      BY <3>1, <3>2, <2>1, <1>3 DEF ChatInv
  <2>3. m \in DOMAIN turns /\ DOMAIN turns = 1 .. m /\ m \in Nat
    BY <2>0, <2>2, Tokens
  <2>4. /\ prompt = turns[m].prompt /\ turns[m].first < pos /\ turns[m].first \in Nat
        /\ user_idx = (IF pos - turns[m].first < Len(prompt) THEN pos - turns[m].first ELSE Len(prompt))
        /\ Len(prompt) \in Nat
    BY <2>0, <2>1, <2>2, <2>3, Tokens DEF ChatInv
  <2>5. IsTurn(q, m)'
    BY <2>0, <2>1, <2>3, <2>4, <1>3 DEF IsTurn
  <2>6. Due(q, m)' = token'
    <3>1. CASE q - turns[m].first < Len(prompt)
      <4>1. user_idx = q - turns[m].first /\ token' = prompt[q - turns[m].first + 1]
        BY <2>0, <3>1, <2>1, <2>4
      <4> QED
        BY <4>1, <3>1, <2>1, <2>4 DEF Due
    <3>2. CASE ~(q - turns[m].first < Len(prompt))
      <4>1. token' = drawn[q]
        BY <2>0, <3>2, <2>1, <2>2, <2>4
      <4> QED
        BY <4>1, <3>2, <2>1, <2>4 DEF Due
    <3> QED
      BY <3>1, <3>2
  <2>7. token' \in Nat
    BY <1>6, StepStarts DEF Starts
  <2>8. turn \in [first : Nat, prompt : Seq(Nat)] /\ turn.first = pos
    BY <1>3
  <2> HIDE DEF turn
  <2> QED
    BY <2>0, <2>1, <2>3, <2>5, <2>6, <2>7, <2>8, <1>2
<1>7. CASE Samples
  <2>1. /\ next' \in Nat /\ drawn' \in {drawn, Append(drawn, next')} /\ UNCHANGED <<fed, turns>>
    BY <1>7, SampleStep
  <2>2. drawn \in Seq(Nat) /\ DOMAIN drawn = 1 .. Len(drawn)
    BY Tokens DEF ShapeInv, TokenInv
  <2>3. \A i \in DOMAIN drawn : drawn'[i] = drawn[i]
    BY <2>1, <2>2, AppendProperties
  <2> QED
    BY <2>1, <2>3, <1>1
<1>8. CASE ~Starts /\ ~Samples
  <2>1. UNCHANGED <<fed, turns, drawn>>
    BY <1>8, StepCases
       DEF Project, HeadsStep, HeadStep, ScoreHead, SinkHead, SoftmaxHead, SumHead, EndLayer,
           Leaves, GenerateRefused, Finished, vars, history
  <2> QED
    BY <2>1, <1>1
<1> QED
  BY <1>4, <1>5, <1>6, <1>7, <1>8 DEF Starts
-----------------------------------------------------------------------------
(* generate: the prompt is forced token by token, then a token is sampled at each  *)
(* position, and the first stop token sampled is the last token.                    *)
LEMMA GenerateInvNext ==
  ASSUME IInv, [Next]_vars
  PROVE  GenerateInv'
<1> USE DEF IInv
<1> SUFFICES ASSUME mode = "generate" PROVE GenerateInv'
  BY Fixed DEF GenerateInv
<1>1. mode' = "generate" /\ mode # "chat" /\ mode' # "chat"
  BY Fixed
<1>2. pos \in Nat /\ Len(prompt) \in Nat /\ Len(drawn) \in Nat /\ DOMAIN drawn = 1 .. Len(drawn)
      /\ drawn \in Seq(Nat) /\ prompt \in Seq(Nat) /\ (prompt = <<>> <=> Len(prompt) = 0)
  BY Bounds, Tokens DEF ShapeInv, TokenInv
<1>3. /\ prompt \in Prompts /\ turns = <<[first |-> 0, prompt |-> prompt]>>
      /\ prompt = <<>> => pos = 0 /\ drawn = <<>> /\ pc \in {"top", "failed"}
      /\ prompt # <<>> =>
           /\ Len(drawn) = (IF pos < Len(prompt) THEN 0 ELSE pos - Len(prompt) + 1)
           /\ pc = "top" => token = Due(pos, 1)
      /\ pc \notin {"broke", "done"} => \A i \in DOMAIN drawn : drawn[i] \notin StopTokens
      /\ pc = "broke" => Len(drawn) > 0 /\ drawn[Len(drawn)] \in StopTokens
  BY DEF GenerateInv
\* Steps inside forward, and steps that leave the loop.
<1>4. ASSUME UNCHANGED <<pos, token, prompt, turns, drawn>>,
             pc' \in {"layer", "heads", "sample", "done", "failed"} \/ UNCHANGED pc,
             prompt = <<>> => pc' \in {"top", "failed"},
             pc' \notin {"broke", "done"} => pc \notin {"broke", "done"}
      PROVE  GenerateInv'
  <2>1. Due(pos, 1)' = Due(pos, 1)
    BY <1>1, <1>4 DEF Due
  <2>2. pc' = "top" => pc = "top"
    BY <1>4
  <2>3. pc' = "broke" => pc = "broke"
    BY <1>4
  <2> QED
    BY <1>1, <1>3, <1>4, <2>1, <2>2, <2>3 DEF GenerateInv
<1>5. ASSUME pc \in {"layer", "heads", "sample"} PROVE prompt # <<>>
  BY <1>3, <1>5
<1>6. CASE Project \/ HeadsStep \/ EndLayer
  <2>1. /\ UNCHANGED <<pos, token, prompt, turns, drawn>>
        /\ pc \in {"layer", "heads"} /\ pc' \in {"layer", "heads", "sample"}
    BY <1>6 DEF Project, HeadsStep, ScoreHead, SinkHead, SoftmaxHead, SumHead, HeadStep, EndLayer,
                loop, history
  <2> QED
    BY <2>1, <1>4, <1>5
<1>7. CASE Starts
  <2>1. GenerateTop
    BY <1>1, <1>7 DEF Starts, Ask, GoOn
  <2>2. /\ prompt # <<>> /\ pc = "top" /\ pc' = "layer" /\ token' = token
        /\ UNCHANGED <<pos, prompt, turns, drawn>>
    BY <2>1 DEF GenerateTop, StartForward
  <2> QED
    BY <2>2, <1>4
<1>8. CASE Samples
  <2>1. GenerateNext
    BY <1>1, <1>8 DEF Samples, ChatNext
  <2>2. /\ pc = "sample" /\ pos' = pos + 1 /\ UNCHANGED <<prompt, turns>> /\ next' \in Nat
        /\ drawn' \in Seq(Nat)
        /\ IF next' \in StopTokens THEN pc' = "broke" ELSE pc' = "top" /\ token' = next'
    BY <2>1, <1>8, SampleStep DEF GenerateNext
  <2>3. prompt # <<>> /\ Len(prompt) > 0
    BY <2>2, <1>2, <1>3
  <2>4. \A i \in DOMAIN drawn : drawn[i] \notin StopTokens
    BY <2>2, <1>3
  <2>5. turns'[1].first = 0 /\ turns'[1].prompt = prompt
    BY <2>2, <1>3
  <2>6. CASE Forced
    <3>1. pos + 1 < Len(prompt) /\ drawn' = drawn /\ next' = prompt[pos + 2] /\ pos + 2 \in 1 .. Len(prompt)
      BY <2>1, <2>6, <1>2 DEF GenerateNext, Forced
    <3>2. next' \notin StopTokens
      <4>1. \A i \in DOMAIN prompt : prompt[i] \notin StopTokens
        BY <1>3, ReferenceAssumption
      <4>2. DOMAIN prompt = 1 .. Len(prompt)
        BY <1>2
      <4> QED
        BY <3>1, <4>1, <4>2
    <3>3. pc' = "top" /\ token' = prompt[pos + 2]
      BY <2>2, <3>1, <3>2
    <3>4. Due(pos, 1)' = prompt[pos + 2]
      <4>1. pos' - 0 + 1 = pos + 2 /\ pos' - 0 < Len(prompt)
        BY <2>2, <3>1, <1>2
      <4> QED
        BY <4>1, <2>5 DEF Due
    <3>5. Len(drawn') = (IF pos' < Len(prompt) THEN 0 ELSE pos' - Len(prompt) + 1)
      <4>1. Len(drawn) = 0
        BY <3>1, <1>2, <1>3, <2>3
      <4> QED
        BY <4>1, <3>1, <2>2
    <3> QED
      BY <1>1, <1>3, <2>2, <2>3, <2>4, <3>1, <3>3, <3>4, <3>5 DEF GenerateInv
  <2>7. CASE ~Forced
    <3>1. ~(pos + 1 < Len(prompt)) /\ drawn' = Append(drawn, next')
      BY <2>1, <2>7, <1>2 DEF GenerateNext, Forced
    <3>2. /\ Len(drawn') = Len(drawn) + 1 /\ drawn'[Len(drawn) + 1] = next'
          /\ \A i \in 1 .. Len(drawn) : drawn'[i] = drawn[i]
      BY <3>1, <2>2, <1>2, AppendProperties
    <3>3. Len(drawn') = pos' - Len(prompt) + 1 /\ ~(pos' < Len(prompt)) /\ Len(drawn') > 0
      <4>1. CASE pos < Len(prompt)
        <5>1. Len(drawn) = 0 /\ pos + 1 = Len(prompt)
          BY <4>1, <1>2, <1>3, <2>3, <3>1
        <5> DEFINE n == Len(prompt)
        <5>2. n \in Nat /\ pos \in Nat /\ pos + 1 = n /\ pos' = n /\ Len(drawn') = 1
          BY <5>1, <3>2, <2>2, <1>2
        <5> HIDE DEF n
        <5>3. Len(drawn') = pos' - n + 1 /\ ~(pos' < n) /\ Len(drawn') > 0
          BY <5>2
        <5> QED
          BY <5>3 DEF n
      <4>2. CASE ~(pos < Len(prompt))
        <5>1. Len(drawn) = pos - Len(prompt) + 1
          BY <4>2, <1>3, <2>3
        <5> DEFINE n == Len(prompt)
        <5>2. n \in Nat /\ pos \in Nat /\ Len(drawn) = pos - n + 1 /\ ~(pos < n)
          BY <5>1, <4>2, <1>2
        <5>3. pos' = pos + 1 /\ Len(drawn') = Len(drawn) + 1
          BY <3>2, <2>2
        <5> HIDE DEF n
        <5>4. Len(drawn') = pos' - n + 1 /\ ~(pos' < n) /\ Len(drawn') > 0
          BY <5>2, <5>3
        <5> QED
          BY <5>4 DEF n
      <4> QED
        BY <4>1, <4>2
    <3>4. pc' = "top" => token' = Due(pos, 1)'
      <4>1. Due(pos, 1)' = drawn'[pos' - Len(prompt) + 1]
        <5>1. ~(pos' - 0 < Len(prompt))
          BY <3>3, <2>2, <1>2
        <5> QED
          BY <5>1, <2>5, <1>1 DEF Due
      <4>2. drawn'[pos' - Len(prompt) + 1] = next'
        BY <3>2, <3>3
      <4> QED
        BY <4>1, <4>2, <2>2
    <3>5. DOMAIN drawn' = 1 .. Len(drawn) + 1
      BY <2>2, <3>2, LenProperties
    <3>6. pc' \notin {"broke", "done"} => \A i \in DOMAIN drawn' : drawn'[i] \notin StopTokens
      <4>1. \A i \in 1 .. Len(drawn) + 1 : i \in 1 .. Len(drawn) \/ i = Len(drawn) + 1
        BY <1>2
      <4> QED
        BY <4>1, <3>2, <3>5, <2>2, <2>4, <1>2
    <3>7. pc' = "broke" => Len(drawn') > 0 /\ drawn'[Len(drawn')] \in StopTokens
      BY <3>2, <3>3, <2>2
    <3> QED
      BY <1>1, <1>3, <2>2, <2>3, <3>3, <3>4, <3>6, <3>7 DEF GenerateInv
  <2> QED
    BY <2>6, <2>7
<1>9. CASE Leaves
  <2>1. /\ UNCHANGED <<pos, token, prompt, turns, drawn>> /\ pc' \in {"done", "failed"}
        /\ pc' = "failed" => pc = "top" /\ prompt = <<>>
        /\ pc' = "done" => pc = "broke" \/ pos >= steps
    BY <1>9 DEF Leaves, GenerateRefused, Finished, loop, history
  <2>2. prompt = <<>> => pc' # "done"
    <3>1. steps \in Nat \ {0}
      BY Bounds
    <3> QED
      BY <3>1, <2>1, <1>3
  <2> QED
    BY <2>1, <2>2, <1>4
<1>10. CASE UNCHANGED vars
  BY <1>3, <1>4, <1>10 DEF vars, loop, history
<1> QED
  BY <1>6, <1>7, <1>8, <1>9, <1>10, StepCases

(* chat: the prompt of the turn is fed by its own index, and a turn begins only after *)
(* token 2 was fed.                                                                   *)
LEMMA ChatInvNext ==
  ASSUME IInv, [Next]_vars
  PROVE  ChatInv'
<1> USE DEF IInv
<1> SUFFICES ASSUME mode = "chat" PROVE ChatInv'
  BY Fixed DEF ChatInv
<1>1. mode' = "chat" /\ mode # "generate"
  BY Fixed
<1>2. /\ pos \in Nat /\ Len(fed) = (IF InForward THEN pos + 1 ELSE pos)
      /\ fed \in Seq(Nat) /\ drawn \in Seq(Nat) /\ turns \in Seq([first : Nat, prompt : Seq(Nat)])
      /\ Len(fed) \in Nat /\ Len(turns) \in Nat /\ DOMAIN turns = 1 .. Len(turns)
      /\ Len(prompt) \in Nat /\ (fed = <<>> <=> Len(fed) = 0) /\ (turns = <<>> <=> Len(turns) = 0)
  BY Bounds, Tokens DEF ShapeInv, TokenInv
<1>16. fed \in Seq(Nat) /\ turns \in Seq([first : Nat, prompt : Seq(Nat)])
  BY DEF ShapeInv, TokenInv
<1>17. \A k \in DOMAIN turns : turns[k].first \in Nat
  BY Tokens
<1>18. Len(turns) \in Nat /\ DOMAIN turns = 1 .. Len(turns)
  BY <1>16
<1>19. Len(fed) \in Nat /\ pos \in Nat
  BY <1>2
<1>3. /\ Len(drawn) = pos
      /\ pc = "top" /\ pos > 0 => next = drawn[pos]
      /\ fed = <<>> => user_turn
      /\ user_turn /\ fed # <<>> => fed[Len(fed)] = EOS
      /\ fed # <<>> => turns # <<>>
      /\ turns # <<>> =>
           /\ prompt = turns[Len(turns)].prompt
           /\ user_idx = IF Len(fed) - turns[Len(turns)].first < Len(prompt)
                         THEN Len(fed) - turns[Len(turns)].first ELSE Len(prompt)
  BY DEF ChatInv
<1>13. /\ \A k \in DOMAIN turns : turns[k].first < Len(fed) /\ turns[k].prompt # <<>>
       /\ \A j, k \in DOMAIN turns : j < k => turns[j].first < turns[k].first
  BY DEF ChatInv
<1>14. \A k \in DOMAIN turns : k > 1 => fed[turns[k].first] = EOS
  BY DEF ChatInv
\* A turn after the first begins behind a position that was fed.
<1>15. ASSUME NEW k \in DOMAIN turns, k > 1
       PROVE  turns[k].first \in 1 .. Len(fed)
  <2>1. 1 \in DOMAIN turns
    BY <1>18, <1>15
  <2>2. turns[1].first < turns[k].first /\ turns[k].first < Len(fed)
    BY <2>1, <1>13, <1>15
  <2>3. turns[1].first \in Nat /\ turns[k].first \in Nat
    BY <2>1, <1>17
  <2> DEFINE f == turns[1].first
             g == turns[k].first
             n == Len(fed)
  <2>4. f \in Nat /\ g \in Nat /\ n \in Nat /\ f < g /\ g < n
    BY <2>2, <2>3, <1>19
  <2> HIDE DEF f, g, n
  <2>5. g \in 1 .. n
    BY <2>4
  <2> QED
    BY <2>5 DEF g, n
<1>4. ASSUME UNCHANGED <<pos, next, prompt, user_idx, user_turn, fed, drawn, turns>>,
             pc' = "top" => pc = "top"
      PROVE  ChatInv'
  BY <1>1, <1>3, <1>4, <1>13, <1>14 DEF ChatInv
<1>5. CASE Project \/ HeadsStep \/ EndLayer
  <2>1. UNCHANGED <<loop, history>> /\ pc' # "top"
    BY <1>5 DEF Project, HeadsStep, ScoreHead, SinkHead, SoftmaxHead, SumHead, HeadStep, EndLayer
  <2> QED
    BY <2>1, <1>4 DEF loop, history
\* The token fed, and with it the last turn's.
<1>6. ASSUME pc = "top", token' \in Nat, fed' = Append(fed, token')
      PROVE  /\ Len(fed) = pos /\ Len(fed') = pos + 1 /\ fed'[pos + 1] = token'
             /\ fed' # <<>> /\ \A i \in 1 .. pos : fed'[i] = fed[i]
  <2>1. Len(fed) = pos
    BY <1>2, <1>6 DEF InForward
  <2>2. /\ Len(fed') = Len(fed) + 1 /\ fed'[Len(fed) + 1] = token' /\ fed' # <<>>
        /\ \A i \in 1 .. Len(fed) : fed'[i] = fed[i]
    BY <1>16, <1>6, Appended
  <2> QED
    BY <2>1, <2>2
<1>7. CASE Ask
  <2>1. PICK words \in Seq(Nat) :
           /\ Len(words) \in Nat /\ Len(words) > 0 /\ words # <<>>
           /\ mode = "chat" /\ pc = "top" /\ pc' = "layer" /\ user_turn
           /\ prompt' = words /\ user_idx' = 1 /\ token' = words[1] /\ token' \in Nat
           /\ user_turn' = (token' = EOS)
           /\ [first |-> pos, prompt |-> words] \in [first : Nat, prompt : Seq(Nat)]
           /\ turns' = Append(turns, [first |-> pos, prompt |-> words])
           /\ fed' = Append(fed, token') /\ UNCHANGED <<pos, next, drawn, mode>>
    BY <1>7, AskStep
  <2>2. /\ Len(fed) = pos /\ Len(fed') = pos + 1 /\ fed'[pos + 1] = token'
        /\ fed' # <<>> /\ \A i \in 1 .. pos : fed'[i] = fed[i]
    BY <2>1, <1>6
  <2> DEFINE turn == [first |-> pos, prompt |-> words]
  <2>3. turn.first = pos /\ turn.prompt = words /\ turn \in [first : Nat, prompt : Seq(Nat)]
        /\ turns' = Append(turns, turn)
    BY <2>1
  <2> HIDE DEF turn
  <2>4. /\ turns' \in Seq([first : Nat, prompt : Seq(Nat)])
        /\ Len(turns') = Len(turns) + 1 /\ turns'[Len(turns) + 1] = turn
    BY <1>16, <2>3, AppendProperties
  <2>12. turns' # <<>>
    <3>1. Len(<<>>) = 0
      OBVIOUS
    <3> QED
      BY <3>1, <2>4, <1>2
  <2>5. DOMAIN turns' = 1 .. Len(turns) + 1
    BY <1>16, <2>3, Appended
  <2>6. \A k \in DOMAIN turns' :
          k = Len(turns) + 1 \/ (k \in DOMAIN turns /\ turns'[k] = turns[k])
    BY <1>16, <2>3, Appended
  <2>7. ASSUME NEW k \in DOMAIN turns'
        PROVE  turns'[k].first < Len(fed') /\ turns'[k].prompt # <<>>
    <3>1. CASE k = Len(turns) + 1
      BY <3>1, <2>1, <2>2, <2>3, <2>4, <1>2
    <3>2. CASE k \in DOMAIN turns /\ turns'[k] = turns[k]
      <4>1. turns[k].first < Len(fed) /\ turns[k].prompt # <<>> /\ turns[k].first \in Nat
        BY <3>2, <1>17, <1>13
      <4>2. turns'[k].first = turns[k].first /\ turns'[k].prompt = turns[k].prompt
        BY <3>2
      <4>3. turns[k].first < Len(fed')
        <5> DEFINE f == turns[k].first
                   n == Len(fed')
        <5>1. f \in Nat /\ pos \in Nat /\ f < pos /\ n = pos + 1
          BY <4>1, <2>2, <1>19
        <5> HIDE DEF f, n
        <5>2. f < n
          BY <5>1
        <5> QED
          BY <5>2 DEF f, n
      <4> QED
        BY <4>1, <4>2, <4>3
    <3> QED
      BY <3>1, <3>2, <2>6
  <2>8. \A j, k \in DOMAIN turns' : j < k => turns'[j].first < turns'[k].first
    <3> SUFFICES ASSUME NEW j \in DOMAIN turns', NEW k \in DOMAIN turns', j < k
                 PROVE  turns'[j].first < turns'[k].first
      OBVIOUS
    <3>1. j \in DOMAIN turns /\ turns'[j] = turns[j]
      <4>1. j # Len(turns) + 1
        <5> DEFINE n == Len(turns)
        <5>1. n \in Nat /\ j \in 1 .. n + 1 /\ k \in 1 .. n + 1 /\ j < k
          BY <2>5, <1>18
        <5> HIDE DEF n
        <5>2. j # n + 1
          BY <5>1
        <5> QED
          BY <5>2 DEF n
      <4> QED
        BY <4>1, <2>6
    <3>2. CASE k = Len(turns) + 1
      BY <3>1, <3>2, <2>2, <2>3, <2>4, <1>13
    <3>3. CASE k \in DOMAIN turns /\ turns'[k] = turns[k]
      BY <3>1, <3>3, <1>13
    <3> QED
      BY <3>2, <3>3, <2>6
  <2>9. ASSUME NEW k \in DOMAIN turns', k > 1 PROVE fed'[turns'[k].first] = EOS
    <3>1. CASE k \in DOMAIN turns /\ turns'[k] = turns[k]
      <4>1. turns[k].first \in 1 .. pos
        BY <3>1, <2>2, <2>9, <1>15
      <4> QED
        BY <4>1, <3>1, <2>2, <2>9, <1>14
    <3>2. CASE k = Len(turns) + 1
      <4>1. 1 \in DOMAIN turns
        BY <3>2, <2>9, <1>2
      <4>2. fed # <<>> /\ pos \in 1 .. pos
        <5>1. turns[1].first \in Nat /\ turns[1].first < pos
          BY <4>1, <2>2, <1>17, <1>13
        <5> QED
          BY <5>1, <1>2, <2>2
      <4>3. fed[pos] = EOS
        BY <4>2, <2>1, <2>2, <1>3
      <4> QED
        BY <4>2, <4>3, <3>2, <2>2, <2>3, <2>4
    <3> QED
      BY <3>1, <3>2, <2>6
  <2>10. /\ prompt' = turns'[Len(turns')].prompt
         /\ user_idx' = (IF Len(fed') - turns'[Len(turns')].first < Len(prompt')
                         THEN Len(fed') - turns'[Len(turns')].first ELSE Len(prompt'))
    <3>1. turns'[Len(turns')].first = pos /\ turns'[Len(turns')].prompt = words
      BY <2>3, <2>4
    <3>2. Len(fed') - pos = 1
      BY <2>2, <1>2
    <3>3. Len(prompt') \in Nat /\ Len(prompt') > 0 /\ user_idx' = 1
      BY <2>1
    <3>4. \A n \in Nat : n > 0 => 1 = (IF 1 < n THEN 1 ELSE n)
      OBVIOUS
    <3>5. user_idx' = (IF 1 < Len(prompt') THEN 1 ELSE Len(prompt'))
      BY <3>3, <3>4
    <3> QED
      BY <3>1, <3>2, <3>5, <2>1
  <2>11. user_turn' /\ fed' # <<>> => fed'[Len(fed')] = EOS
    BY <2>1, <2>2
  <2> QED
    BY <1>1, <1>3, <2>1, <2>2, <2>7, <2>8, <2>9, <2>10, <2>11, <2>12 DEF ChatInv
<1>8. CASE GoOn
  <2>1. /\ pc = "top" /\ pc' = "layer" /\ ~user_turn
        /\ user_idx' = (IF user_idx < Len(prompt) THEN user_idx + 1 ELSE user_idx)
        /\ user_turn' = (token' = EOS) /\ fed' = Append(fed, token')
        /\ UNCHANGED <<prompt, turns, pos, next, drawn, mode>>
    BY <1>8, GoOnStep
  <2>2. token' \in Nat
    BY <1>8, StepStarts DEF Starts
  <2>3. /\ Len(fed) = pos /\ Len(fed') = pos + 1 /\ fed'[pos + 1] = token'
        /\ fed' # <<>> /\ \A i \in 1 .. pos : fed'[i] = fed[i]
    BY <2>1, <2>2, <1>6
  <2>4. fed # <<>> /\ turns # <<>> /\ Len(turns) \in DOMAIN turns
    BY <2>1, <1>2, <1>3
  <2>5. ASSUME NEW k \in DOMAIN turns PROVE turns[k].first < Len(fed') /\ turns[k].prompt # <<>>
    <3> DEFINE first == turns[k].first
    <3>1. first < Len(fed) /\ first \in Nat /\ turns[k].prompt # <<>>
      BY <1>13, <1>17
    <3> HIDE DEF first
    <3>2. first < Len(fed')
      BY <3>1, <2>3, <1>2
    <3> QED
      BY <3>1, <3>2 DEF first
  <2>6. ASSUME NEW k \in DOMAIN turns, k > 1 PROVE fed'[turns[k].first] = EOS
    <3>1. turns[k].first \in 1 .. pos
      BY <2>3, <2>6, <1>15
    <3> QED
      BY <3>1, <2>3, <2>6, <1>14
  <2>7. user_idx' = (IF Len(fed') - turns[Len(turns)].first < Len(prompt)
                     THEN Len(fed') - turns[Len(turns)].first ELSE Len(prompt))
    <3> DEFINE first == turns[Len(turns)].first
               n == Len(prompt)
    <3>1. first \in Nat /\ first < pos /\ n \in Nat
          /\ user_idx = (IF pos - first < n THEN pos - first ELSE n)
      BY <2>3, <2>4, <1>2, <1>3, <1>13, <1>17
    <3>2. user_idx' = (IF user_idx < n THEN user_idx + 1 ELSE user_idx)
      BY <2>1
    <3> HIDE DEF first, n
    <3>3. user_idx' = (IF (pos + 1) - first < n THEN (pos + 1) - first ELSE n)
      BY <3>1, <3>2, <1>2
    <3> QED
      BY <3>3, <2>3 DEF first, n
  <2>8. user_turn' /\ fed' # <<>> => fed'[Len(fed')] = EOS
    BY <2>1, <2>3
  <2> QED
    BY <1>1, <1>3, <1>13, <2>1, <2>3, <2>4, <2>5, <2>6, <2>7, <2>8 DEF ChatInv
<1>9. CASE Starts
  BY <1>1, <1>7, <1>8, <1>9 DEF Starts, GenerateTop
<1>10. CASE Samples
  <2>1. ChatNext
    BY <1>1, <1>10 DEF Samples, GenerateNext
  <2>2. /\ pos' = pos + 1 /\ drawn' = Append(drawn, next') /\ next' \in Nat
        /\ UNCHANGED <<prompt, user_idx, user_turn, fed, turns>>
    BY <2>1, <1>10, SampleStep DEF ChatNext
  <2>3. Len(drawn') = pos + 1 /\ drawn'[pos + 1] = next'
    BY <2>2, <1>2, <1>3, AppendProperties
  <2> QED
    BY <1>1, <1>3, <1>13, <1>14, <2>2, <2>3 DEF ChatInv
<1>11. CASE Leaves
  <2>1. UNCHANGED <<loop, history>> /\ pc' # "top"
    BY <1>11 DEF Leaves, GenerateRefused, Finished
  <2> QED
    BY <2>1, <1>4 DEF loop, history
<1>12. CASE UNCHANGED vars
  BY <1>4, <1>12 DEF vars, loop, history
<1> QED
  BY <1>5, <1>9, <1>10, <1>11, <1>12, StepCases
-----------------------------------------------------------------------------
(* The invariant holds at the start. *)
LEMMA InitIInv == Init => IInv
<1> SUFFICES ASSUME Init PROVE IInv
  OBVIOUS
<1>1. /\ mode \in Modes /\ config \in Configs /\ steps = Steps(config.n) /\ pc = "top" /\ pos = 0
      /\ next = 0 /\ user_idx = 0 /\ user_turn = TRUE /\ l = 0 /\ fed = <<>> /\ drawn = <<>>
      /\ mode \in {"generate", "chat"}
  BY ReferenceAssumption DEF Init
<1>2. NLayers \in Nat \ {0} /\ SeqLen \in Nat \ {0} /\ steps \in 1 .. SeqLen
  BY <1>1, Sizes
<1>3. prompt \in Seq(Nat) /\ (mode = "generate" => prompt \in Prompts) /\ Len(prompt) \in Nat
      /\ (prompt = <<>> <=> Len(prompt) = 0)
  <2>1. prompt \in Prompts \union {<<>>} /\ (mode = "generate" => prompt \in Prompts)
    BY DEF Init
  <2>2. prompt \in Seq(Nat)
    <3>1. Prompts \in SUBSET Seq(Nat)
      BY ReferenceAssumption
    <3>2. <<>> \in Seq(Nat)
      OBVIOUS
    <3> QED
      BY <2>1, <3>1, <3>2
  <2> QED
    BY <2>1, <2>2, LenProperties, EmptySeq
<1>4. token = (IF prompt = <<>> THEN 0 ELSE prompt[1])
      /\ turns = (IF mode = "generate" THEN <<[first |-> 0, prompt |-> prompt]>> ELSE <<>>)
  BY DEF Init
<1>5. token \in Nat
  <2>1. prompt # <<>> => 1 \in 1 .. Len(prompt)
    BY <1>3
  <2> QED
    BY <2>1, <1>3, <1>4, ElementOfSeq
<1>6. turns \in Seq([first : Nat, prompt : Seq(Nat)])
  <2> DEFINE turn == [first |-> 0, prompt |-> prompt]
             S == [first : Nat, prompt : Seq(Nat)]
  <2>1. turn \in S
    BY <1>3
  <2> HIDE DEF turn, S
  <2>2. <<turn>> \in Seq(S) /\ <<>> \in Seq(S)
    BY <2>1
  <2>3. turns = <<turn>> \/ turns = <<>>
    BY <1>4 DEF turn
  <2> QED
    BY <2>2, <2>3 DEF S
<1>7. LoopInv
  BY <1>1, <1>2 DEF LoopInv, InForward
<1>8. TokenInv
  BY <1>1, <1>3, <1>5, <1>6 DEF TokenInv, InForward
<1>9. ArrayInv
  BY DEF Init, ArrayInv
<1>10. CacheInv
  BY <1>1 DEF CacheInv, Written, InForward
<1>11. HeadInv
  BY <1>1 DEF HeadInv
<1>12. FedInv
  BY <1>1 DEF FedInv
<1>13. GenerateInv
  <2>1. mode = "generate" /\ prompt # <<>> => token = Due(pos, 1)
    <3> SUFFICES ASSUME mode = "generate", prompt # <<>> PROVE token = Due(0, 1)
      BY <1>1
    <3>1. turns[1].first = 0 /\ turns[1].prompt = prompt /\ 0 - 0 < Len(prompt) /\ 0 - 0 + 1 = 1
      BY <1>3, <1>4
    <3> QED
      BY <3>1, <1>4 DEF Due
  <2>2. Len(drawn) = 0 /\ DOMAIN drawn = {}
    BY <1>1
  <2>3. prompt # <<>> => 0 < Len(prompt)
    BY <1>3
  <2> QED
    BY <2>1, <2>2, <2>3, <1>1, <1>3, <1>4 DEF GenerateInv
<1>14. ChatInv
  <2>1. mode = "chat" => turns = <<>>
    BY <1>4
  <2>2. Len(drawn) = 0 /\ DOMAIN <<>> = {}
    BY <1>1
  <2> QED
    BY <2>1, <2>2, <1>1 DEF ChatInv
<1> QED
  BY <1>7, <1>8, <1>9, <1>10, <1>11, <1>12, <1>13, <1>14 DEF IInv, ShapeInv

(* The strengthening is an invariant of the CPU reference. *)
THEOREM ReferenceInductive == Spec => []IInv
<1>1. IInv /\ [Next]_vars => IInv'
  BY ShapeNext, CacheNext, HeadNext, FedNext, GenerateInvNext, ChatInvNext DEF IInv
<1> QED
  BY <1>1, InitIInv, PTL DEF Spec

-----------------------------------------------------------------------------
(* In every layer every head weighs exactly the values of its own window, whatever the *)
(* order in which the threads of the heads ran (run.cpp:597-642).                       *)
THEOREM HeadsAttend == Spec => []HeadsAttendOwnWindow
<1>1. IInv => HeadsAttendOwnWindow
  <2> SUFFICES ASSUME IInv, pc = "heads", \A h \in Heads : at[h] = "joined", pos < SeqLen - 1
               PROVE  \A h \in Heads : tb[h] = Weighted(h)
    BY DEF HeadsAttendOwnWindow, Weighted, Share, OwnScores, OwnScore, Value
  <2> QED
    BY DEF IInv, HeadInv, HeadState
<1> QED
  BY <1>1, ReferenceInductive, PTL

(* Every prompt is fed token by token from its first position on, then the tokens sampled, *)
(* each at the position after the one it was sampled at; a turn of chat ends only after    *)
(* token 2 was fed, and cuts short only a prompt that holds one (run.cpp:1079-1096).       *)
THEOREM PromptsFed == Spec => []PromptsFedWhole
<1>1. ASSUME IInv PROVE PromptsFedWhole
  <2> USE <1>1 DEF IInv
  <2>1. \A p, k : IsTurn(p, k) => TurnOf(p) = k
    <3> SUFFICES ASSUME NEW p, NEW k, IsTurn(p, k) PROVE TurnOf(p) = k
      OBVIOUS
    <3> DEFINE C(i) == turns[i].first <= p /\ \A j \in DOMAIN turns : turns[j].first <= p => j <= i
    <3>1. k \in DOMAIN turns /\ C(k)
      BY DEF IsTurn
    <3>2. TurnOf(p) = CHOOSE i \in DOMAIN turns : C(i)
      BY DEF TurnOf
    <3>3. TurnOf(p) \in DOMAIN turns /\ C(TurnOf(p))
      <4> HIDE DEF C
      <4> QED
        BY <3>1, <3>2
    <3>4. TurnOf(p) <= k /\ k <= TurnOf(p)
      BY <3>1, <3>3
    <3>5. TurnOf(p) \in Nat /\ k \in Nat
      BY <3>1, <3>3, Tokens
    <3> QED
      BY <3>4, <3>5
  <2>2. ASSUME NEW p \in 0 .. Len(fed) - 1
        PROVE  fed[p + 1] = Due(p, TurnOf(p))
    BY <2>1 DEF FedInv
  <2>3. ASSUME NEW k \in DOMAIN turns, k > 1
        PROVE  /\ fed[turns[k].first] = EOS
               /\ turns[k].first - turns[k - 1].first < Len(turns[k - 1].prompt)
                    => \E i \in DOMAIN turns[k - 1].prompt : turns[k - 1].prompt[i] = EOS
    <3>1. mode = "chat"
      <4>1. mode = "generate" => turns = <<[first |-> 0, prompt |-> prompt]>>
        BY DEF GenerateInv
      <4>2. mode = "generate" => DOMAIN turns = 1 .. 1
        BY <4>1
      <4>3. mode \in {"generate", "chat"}
        BY ReferenceAssumption DEF ShapeInv, LoopInv
      <4> QED
        BY <4>2, <4>3, <2>3
    <3>2. /\ fed[turns[k].first] = EOS
          /\ \A j, i \in DOMAIN turns : j < i => turns[j].first < turns[i].first
          /\ turns[k].first < Len(fed)
      BY <3>1, <2>3 DEF ChatInv
    <3> DEFINE j == k - 1
               p == turns[k].first - 1
               i == p - turns[j].first
    <3>3. k \in Nat /\ j \in DOMAIN turns /\ j < k /\ DOMAIN turns = 1 .. Len(turns) /\ Len(turns) \in Nat
      BY <2>3, Tokens
    <3>4. turns[j].first < turns[k].first /\ turns[j].first \in Nat /\ turns[k].first \in Nat
          /\ turns[j].prompt \in Seq(Nat)
      BY <3>2, <3>3, Tokens
    <3>5. IsTurn(p, j)
      <4>1. ASSUME NEW m \in DOMAIN turns, turns[m].first <= p PROVE m <= j
        <5>1. ~(k < m) /\ m # k /\ m \in Nat
          <6>1. turns[m].first \in Nat /\ m \in Nat
            BY Tokens
          <6>2. turns[m].first < turns[k].first
            BY <4>1, <3>4, <6>1
          <6>3. k < m => turns[k].first < turns[m].first
            BY <3>2
          <6> QED
            BY <6>1, <6>2, <6>3, <3>4
        <5> QED
          BY <5>1, <3>3
      <4> QED
        BY <4>1, <3>3, <3>4 DEF IsTurn
    <3>6. p \in 0 .. Len(fed) - 1 /\ p + 1 = turns[k].first
      BY <3>2, <3>4, Tokens
    <3>7. fed[turns[k].first] = Due(p, j)
      BY <3>5, <3>6, <2>1, <2>2
    <3>8. ASSUME turns[k].first - turns[j].first < Len(turns[j].prompt)
          PROVE  \E n \in DOMAIN turns[j].prompt : turns[j].prompt[n] = EOS
      <4>1. i < Len(turns[j].prompt) /\ i + 1 \in 1 .. Len(turns[j].prompt)
            /\ DOMAIN turns[j].prompt = 1 .. Len(turns[j].prompt)
        <5>1. Len(turns[j].prompt) \in Nat /\ DOMAIN turns[j].prompt = 1 .. Len(turns[j].prompt)
          BY <3>4, LenProperties
        <5> DEFINE f == turns[k].first
                   g == turns[j].first
                   n == Len(turns[j].prompt)
        <5>2. f \in Nat /\ g \in Nat /\ n \in Nat /\ g < f /\ f - g < n
          BY <5>1, <3>4, <3>8
        <5> HIDE DEF f, g, n
        <5>3. (f - 1) - g < n /\ ((f - 1) - g) + 1 \in 1 .. n
          BY <5>2
        <5> QED
          BY <5>1, <5>3 DEF f, g, n
      <4>2. Due(p, j) = turns[j].prompt[i + 1]
        BY <4>1 DEF Due
      <4> QED
        BY <4>1, <4>2, <3>2, <3>7
    <3> QED
      BY <3>2, <3>8
  <2> QED
    BY <2>2, <2>3 DEF PromptsFedWhole, Due
<1> QED
  BY <1>1, ReferenceInductive, PTL
-----------------------------------------------------------------------------
(* The refinement of module Decode by generate: sampling is Extend, leaving the loop *)
(* is Close, and forcing the prompt, the forward pass and all of chat keep.          *)
Shown(tok) == IF tok \in StopTokens THEN 199999 ELSE tok
Ending(d) == [i \in DOMAIN d |-> Shown(d[i])]
Output == IF Generating THEN Ending(drawn) ELSE <<>>
Closed == Generating /\ pc = "done"
Prompted == IF Generating THEN Len(prompt) ELSE 0
Budget == IF Generating THEN steps + 1 ELSE 0

(* What one more token adds to the output. *)
LEMMA EndingAppended ==
  ASSUME NEW d, d \in Seq(Nat), NEW tok, tok \in Nat
  PROVE  /\ Ending(d) \in Seq(Nat) /\ Len(Ending(d)) = Len(d) /\ Len(d) \in Nat
         /\ Ending(Append(d, tok)) = Append(Ending(d), Shown(tok))
<1> DEFINE e == Shown(tok)
           a == Append(d, tok)
<1>1. ASSUME NEW s, s \in Seq(Nat)
      PROVE  /\ Ending(s) \in Seq(Nat) /\ Len(Ending(s)) = Len(s) /\ Len(s) \in Nat
             /\ \A i \in 1 .. Len(s) : Ending(s)[i] = Shown(s[i])
  <2>1. Len(s) \in Nat /\ DOMAIN s = 1 .. Len(s)
    BY <1>1, LenProperties
  <2>2. \A i \in 1 .. Len(s) : s[i] \in Nat
    BY <1>1, ElementOfSeq
  <2>3. Ending(s) \in [1 .. Len(s) -> Nat]
    <3>1. \A i \in 1 .. Len(s) : Shown(s[i]) \in Nat
      BY <2>2 DEF Shown
    <3> QED
      BY <2>1, <3>1 DEF Ending
  <2>4. Ending(s) \in Seq(Nat)
    BY <2>1, <2>3, SeqDef
  <2>5. Len(Ending(s)) = Len(s)
    <3>1. DOMAIN Ending(s) = 1 .. Len(Ending(s)) /\ Len(Ending(s)) \in Nat
      BY <2>4, LenProperties
    <3>2. DOMAIN Ending(s) = 1 .. Len(s)
      BY <2>3
    <3>3. ASSUME NEW m \in Nat, NEW n \in Nat, 1 .. m = 1 .. n PROVE m <= n
      <4>1. m # 0 => m \in 1 .. n
        BY <3>3
      <4> QED
        BY <4>1
    <3> DEFINE n == Len(Ending(s))
               m == Len(s)
    <3>4. n \in Nat /\ m \in Nat /\ 1 .. n = 1 .. m
      BY <2>1, <3>1, <3>2
    <3> HIDE DEF n, m
    <3>5. n <= m /\ m <= n
      BY <3>3, <3>4
    <3> QED
      BY <3>4, <3>5 DEF n, m
  <2> QED
    BY <2>1, <2>4, <2>5 DEF Ending
<1>2. a \in Seq(Nat) /\ Len(a) = Len(d) + 1 /\ a[Len(d) + 1] = tok
      /\ \A i \in 1 .. Len(d) : a[i] = d[i]
  BY AppendProperties
<1>3. e \in Nat
  BY DEF Shown
<1>4. /\ Ending(d) \in Seq(Nat) /\ Len(Ending(d)) = Len(d) /\ Len(d) \in Nat
      /\ \A i \in 1 .. Len(d) : Ending(d)[i] = Shown(d[i])
  BY <1>1
<1>5. /\ Ending(a) \in Seq(Nat) /\ Len(Ending(a)) = Len(a)
      /\ \A i \in 1 .. Len(a) : Ending(a)[i] = Shown(a[i])
  <2>1. a \in Seq(Nat)
    BY <1>2
  <2> HIDE DEF a
  <2> QED
    BY <2>1, <1>1
<1> DEFINE b == Append(Ending(d), e)
<1> HIDE DEF a, e
<1>6. b \in Seq(Nat) /\ Len(b) = Len(Ending(d)) + 1 /\ b[Len(Ending(d)) + 1] = e
      /\ \A i \in 1 .. Len(Ending(d)) : b[i] = Ending(d)[i]
  BY <1>3, <1>4, AppendProperties
<1> HIDE DEF b
<1>7. ASSUME NEW i \in 1 .. Len(Ending(a)) PROVE Ending(a)[i] = b[i]
  <2>1. i \in 1 .. Len(d) \/ i = Len(d) + 1
    BY <1>2, <1>4, <1>5
  <2>2. CASE i \in 1 .. Len(d)
    <3>1. Ending(a)[i] = Shown(a[i]) /\ a[i] = d[i] /\ Ending(d)[i] = Shown(d[i])
      BY <2>2, <1>2, <1>4, <1>5
    <3>2. b[i] = Ending(d)[i]
      BY <2>2, <1>4, <1>6
    <3> QED
      BY <3>1, <3>2
  <2>3. CASE i = Len(d) + 1
    BY <2>3, <1>2, <1>4, <1>5, <1>6 DEF e
  <2> QED
    BY <2>1, <2>2, <2>3
<1>8. Ending(a) = b
  BY <1>2, <1>4, <1>5, <1>6, <1>7, SeqEqual
<1> QED
  BY <1>4, <1>8 DEF a, b, e

(* Decode's actions in the terms of the reference. *)
LEMMA SingleSteps ==
  /\ Single!Extend(0) <=>
       /\ ~Closed /\ ~Closed'
       /\ ~(Len(Output) > 0 /\ Output[Len(Output)] = 199999)
       /\ ~(Len(Output) + Prompted >= Budget)
       /\ \E tok \in Vocabulary \union StopTokens : Output' = Append(Output, tok)
  /\ Single!Close(0) <=>
       /\ ~Closed /\ Closed'
       /\ (Len(Output) > 0 /\ Output[Len(Output)] = 199999) \/ Len(Output) + Prompted >= Budget
       /\ Output' = Output
  /\ Single!Keep(0) <=> Output' = Output /\ Closed' = Closed
<1> DEFINE out == [q \in {0} |-> Output]
           closed == [q \in {0} |-> Closed]
           nPrompt == [q \in {0} |-> Prompted]
<1>1. out[0] = Output /\ closed[0] = Closed /\ nPrompt[0] = Prompted
  OBVIOUS
<1>2. out'[0] = Output' /\ closed'[0] = Closed'
  OBVIOUS
<1>3. /\ Single!Extend(0) <=>
           /\ ~closed[0] /\ ~closed'[0] /\ ~(Len(out[0]) > 0 /\ out[0][Len(out[0])] = 199999)
           /\ ~(Len(out[0]) + nPrompt[0] >= Budget)
           /\ \E tok \in Vocabulary \union StopTokens : out'[0] = Append(out[0], tok)
  BY ONLY DEF Single!Extend, Single!Stopped, Single!Full, Output, Closed, Prompted, Budget, Ending, Shown, out, closed, nPrompt
<1>4. Single!Close(0) <=>
           /\ ~closed[0] /\ closed'[0]
           /\ (Len(out[0]) > 0 /\ out[0][Len(out[0])] = 199999) \/ Len(out[0]) + nPrompt[0] >= Budget
           /\ out'[0] = out[0]
  BY ONLY DEF Single!Close, Single!Stopped, Single!Full, Output, Closed, Prompted, Budget, Ending, Shown, out, closed, nPrompt
<1>5. Single!Keep(0) <=> out'[0] = out[0] /\ closed'[0] = closed[0]
  BY ONLY DEF Single!Keep, Output, Closed, Ending, Shown, out, closed
<1> HIDE DEF out, closed, nPrompt
<1> QED
  BY <1>1, <1>2, <1>3, <1>4, <1>5

(* Every step is a step of Decode or leaves its variables alone. *)
LEMMA ReferenceSimulation ==
  ASSUME IInv, [Next]_vars
  PROVE  [Single!DecodeNext]_(Single!dvars)
<1> USE DEF IInv
<1>1. /\ (IF Generating THEN steps + 1 ELSE 0)' = (IF Generating THEN steps + 1 ELSE 0)
      /\ Generating' = Generating
  BY Fixed DEF Generating
<1>2. Generating => prompt' = prompt
  BY StepCases
     DEF Generating, Project, HeadsStep, HeadStep, ScoreHead, SinkHead, SoftmaxHead, SumHead,
         EndLayer, Starts, GenerateTop, Ask, GoOn, Samples, GenerateNext, ChatNext, Leaves,
         GenerateRefused, Finished, vars, loop, StartForward
<1>3. ASSUME Output' = Output, Closed' = Closed PROVE Single!Keep(0)
  BY <1>3, SingleSteps
<1>4. ASSUME drawn' = drawn, (pc' = "done") = (pc = "done") PROVE Single!Keep(0)
  BY <1>1, <1>3, <1>4 DEF Output, Closed, Ending
<1>5. ASSUME ~Generating PROVE Single!Keep(0)
  BY <1>1, <1>3, <1>5 DEF Output, Closed
<1>6. ASSUME Generating
      PROVE  Single!Extend(0) \/ Single!Close(0) \/ Single!Keep(0)
  <2>1. mode = "generate" /\ mode # "chat"
    BY <1>6 DEF Generating
  <2>2. /\ pos \in Nat /\ steps \in Nat \ {0} /\ drawn \in Seq(Nat) /\ Len(drawn) \in Nat
        /\ Len(prompt) \in Nat /\ (prompt = <<>> <=> Len(prompt) = 0) /\ DOMAIN drawn = 1 .. Len(drawn)
    BY Bounds, Tokens DEF ShapeInv, TokenInv
  <2>3. /\ prompt = <<>> => pos = 0 /\ drawn = <<>> /\ pc \in {"top", "failed"}
        /\ prompt # <<>> => Len(drawn) = (IF pos < Len(prompt) THEN 0 ELSE pos - Len(prompt) + 1)
        /\ pc \notin {"broke", "done"} => \A i \in DOMAIN drawn : drawn[i] \notin StopTokens
        /\ pc = "broke" => Len(drawn) > 0 /\ drawn[Len(drawn)] \in StopTokens
    BY <2>1 DEF GenerateInv
  <2>4. Output = Ending(drawn) /\ Output' = Ending(drawn') /\ Len(Output) = Len(drawn)
    BY <1>1, <1>6, <2>2, EndingAppended DEF Output, Ending
  <2>5. Len(drawn) > 0 => (Output[Len(Output)] = 199999 <=> drawn[Len(drawn)] \in StopTokens)
    BY <2>2, <2>4 DEF Ending, Shown, StopTokens
  <2>6. CASE Project \/ HeadsStep \/ EndLayer \/ Starts
    <3>1. drawn' = drawn /\ pc # "done" /\ pc' # "done"
      <4>1. Starts => drawn' = drawn /\ pc # "done" /\ pc' # "done"
        BY StepStarts
      <4> QED
        BY <4>1, <2>6 DEF Project, HeadsStep, HeadStep, ScoreHead, SinkHead, SoftmaxHead, SumHead,
                          EndLayer, history
    <3> QED
      BY <3>1, <1>4
  <2>7. CASE Samples
    <3>1. GenerateNext
      BY <2>1, <2>7 DEF Samples, ChatNext
    <3>2. pc = "sample" /\ pc' # "done" /\ next' \in Nat
      BY <2>7, SampleStep
    <3>3. CASE Forced
      BY <3>1, <3>2, <3>3, <1>4 DEF GenerateNext
    <3>4. CASE ~Forced
      <4>1. drawn' = Append(drawn, next') /\ next' \in Vocabulary /\ ~(pos < Len(prompt) - 1)
        BY <3>1, <3>4 DEF GenerateNext, Forced
      <4> DEFINE tok == Shown(next')
      <4>2. Output' = Append(Output, tok)
        BY <4>1, <3>2, <2>2, <2>4, EndingAppended
      <4>3. tok \in Vocabulary \union StopTokens
        BY <4>1 DEF Shown, StopTokens
      <4>4. ~(Len(Output) > 0 /\ Output[Len(Output)] = 199999)
        BY <2>2, <2>3, <2>4, <2>5, <3>2
      <4>5. ~(Len(Output) + Len(prompt) >= steps + 1)
        <5>1. prompt # <<>> /\ pos < steps
          BY <2>3, <3>2 DEF ShapeInv, LoopInv, InForward
        <5>2. Len(drawn) + Len(prompt) = pos + 1
          BY <5>1, <2>2, <2>3, <4>1
        <5> QED
          BY <5>1, <5>2, <2>2, <2>4
      <4>6. ~Closed /\ ~Closed'
        BY <3>2 DEF Closed
      <4> HIDE DEF tok
      <4> QED
        BY <4>2, <4>3, <4>4, <4>5, <4>6, <1>6, SingleSteps DEF Prompted, Budget
    <3> QED
      BY <3>3, <3>4
  <2>8. CASE GenerateRefused
    BY <2>8, <1>4 DEF GenerateRefused, history
  <2>9. CASE Finished
    <3>1. /\ drawn' = drawn /\ pc' = "done" /\ pc # "done"
          /\ pc = "broke" \/ (pc = "top" /\ pos >= steps)
      BY <2>9 DEF Finished, history
    <3>2. Output' = Output /\ ~Closed /\ Closed'
      BY <3>1, <2>4, <1>1, <1>6 DEF Closed
    <3>3. CASE pc = "broke"
      BY <3>2, <3>3, <2>2, <2>3, <2>4, <2>5, SingleSteps
    <3>4. CASE pc = "top" /\ pos >= steps
      <4>1. prompt # <<>>
        BY <3>4, <2>2, <2>3
      <4>2. Len(Output) + Len(prompt) >= steps + 1
        BY <3>4, <4>1, <2>2, <2>3, <2>4
      <4> QED
        BY <3>2, <4>2, <1>6, SingleSteps DEF Prompted, Budget
    <3> QED
      BY <3>1, <3>3, <3>4
  <2>10. CASE UNCHANGED vars
    BY <2>10, <1>4 DEF vars, history
  <2> QED
    BY <2>6, <2>7, <2>8, <2>9, <2>10, StepCases DEF Leaves
<1>7. [q \in {0} |-> IF Generating THEN Len(prompt) ELSE 0]'
        = [q \in {0} |-> IF Generating THEN Len(prompt) ELSE 0]
  BY <1>1, <1>2
<1>8. Single!Extend(0) \/ Single!Close(0) \/ Single!Keep(0)
  BY <1>5, <1>6
<1>9. \A q \in {0} : Single!Extend(q) \/ Single!Close(q) \/ Single!Keep(q)
  BY <1>8
<1> QED
  BY <1>1, <1>7, <1>9 DEF Single!DecodeNext

(* generate decodes its one request as module Decode promises for each request of the *)
(* batched loops, with a budget of one token more (run.cpp:962, getp/run.cpp:431).     *)
THEOREM ReferenceRefinesDecode == Spec => ImplementsDecode
<1>1. Init => Single!DecodeInit
  <2> SUFFICES ASSUME Init PROVE Single!DecodeInit
    OBVIOUS
  <2>1. drawn = <<>> /\ pc = "top" /\ DOMAIN drawn = {}
    BY DEF Init
  <2>2. Output = <<>> /\ Closed = FALSE
    BY <2>1 DEF Output, Closed, Ending
  <2>3. [q \in {0} |-> Output] = [q \in {0} |-> <<>>] /\ [q \in {0} |-> Closed] = [q \in {0} |-> FALSE]
    BY <2>2
  <2> DEFINE out == [q \in {0} |-> Output]
             closed == [q \in {0} |-> Closed]
  <2>4. Single!DecodeInit <=> out = [q \in {0} |-> <<>>] /\ closed = [q \in {0} |-> FALSE]
    BY ONLY DEF Single!DecodeInit, Output, Closed, Ending, Shown, out, closed
  <2> QED
    BY <2>3, <2>4
<1>2. IInv /\ [Next]_vars => [Single!DecodeNext]_(Single!dvars)
  BY ReferenceSimulation
<1> QED
  BY <1>1, <1>2, ReferenceInductive, PTL DEF Spec, ImplementsDecode, Single!DecodeSpec
-----------------------------------------------------------------------------
(* The GPU's cache: the map of the allocation.                             *)
RowHeads == BatchSize * KvHeads
RowHead(b, h) == b * KvHeads + h
OddLayers == shape.layers - EvenLayers
EvenSize == RowHeads * (EvenCap + Pad)
OddSize == RowHeads * (OddCap + Pad)
LayerSize(lyr) == RowHeads * (Cap(lyr) + Pad)
Address(lyr, s, b, h) == LayerBase(lyr) + Offset(lyr, s, b, h)

ConfigOK == shape \in [layers : Nat \ {0}, window : Nat, seqLen : Nat]

-----------------------------------------------------------------------------
LEMMA KvSizes ==
  ASSUME ConfigOK
  PROVE  /\ EvenCap \in Nat \ {0} /\ OddCap \in Nat \ {0}
         /\ EvenLayers \in Nat /\ OddLayers \in Nat
         /\ RowHeads \in Nat /\ EvenSize \in Nat /\ OddSize \in Nat
         /\ \A lyr \in Layers : /\ lyr \in Nat /\ lyr \div 2 \in Nat
                              /\ Cap(lyr) \in Nat \ {0}
                              /\ LayerSize(lyr) = IF IsEven(lyr) THEN EvenSize ELSE OddSize
<1>1. EvenCap \in Nat \ {0} /\ OddCap \in Nat \ {0}
  BY DEF ConfigOK, EvenCap, OddCap, AtLeast1
<1>2. EvenLayers \in Nat /\ OddLayers \in Nat
  BY DEF ConfigOK, EvenLayers, OddLayers
<1>3. RowHeads \in Nat
  BY ProductNat, CacheAssumption DEF RowHeads
<1>4. EvenSize \in Nat /\ OddSize \in Nat
  BY <1>1, <1>3, ProductNat, CacheAssumption DEF EvenSize, OddSize
<1>5. \A lyr \in Layers : lyr \in Nat /\ lyr \div 2 \in Nat
  BY DEF Layers, ConfigOK
<1> QED
  BY <1>1, <1>2, <1>3, <1>4, <1>5 DEF Cap, LayerSize, EvenSize, OddSize

(* The rows and heads of a layer are numbered without a gap. *)
LEMMA RowHeadUnique ==
  /\ \A b \in Rows, h \in KvHeadNumbers : RowHead(b, h) \in 0 .. RowHeads - 1
  /\ \A b, c \in Rows, h, g \in KvHeadNumbers : RowHead(b, h) = RowHead(c, g) => b = c /\ h = g
<1>1. BatchSize \in Nat /\ KvHeads \in Nat
  BY CacheAssumption
<1>2. ASSUME NEW b \in Rows, NEW h \in KvHeadNumbers
      PROVE  RowHead(b, h) \in 0 .. RowHeads - 1
  <2>1. b \in Nat /\ b < BatchSize /\ h \in 0 .. KvHeads - 1
    BY <1>1 DEF Rows, KvHeadNumbers
  <2>2. b * KvHeads + KvHeads <= BatchSize * KvHeads
    BY <1>1, <2>1, NextMultiple
  <2>3. b * KvHeads \in Nat /\ BatchSize * KvHeads \in Nat
    BY <1>1, <2>1, ProductNat
  <2> QED
    BY <1>1, <2>1, <2>2, <2>3 DEF RowHead, RowHeads
<1>3. ASSUME NEW b \in Rows, NEW c \in Rows, NEW h \in KvHeadNumbers, NEW g \in KvHeadNumbers,
             RowHead(b, h) = RowHead(c, g)
      PROVE  b = c /\ h = g
  BY <1>1, <1>3, SamePair DEF Rows, KvHeadNumbers, RowHead
<1> QED
  BY <1>2, <1>3

(* The regions of a layer: inside it, and different for different cells. *)
LEMMA OffsetUnique ==
  ASSUME ConfigOK, NEW lyr \in Layers
  PROVE  /\ \A s \in 0 .. Cap(lyr) - 1, b \in Rows, h \in KvHeadNumbers :
              Offset(lyr, s, b, h) \in 0 .. LayerSize(lyr) - 1
         /\ \A s, u \in 0 .. Cap(lyr) - 1, b, c \in Rows, h, g \in KvHeadNumbers :
              Offset(lyr, s, b, h) = Offset(lyr, u, c, g) => s = u /\ b = c /\ h = g
<1> DEFINE stride == Cap(lyr) + Pad
<1>1. Cap(lyr) \in Nat \ {0} /\ stride \in Nat /\ RowHeads \in Nat
  BY KvSizes, CacheAssumption
<1>2. \A s \in 0 .. Cap(lyr) - 1 : s \in 0 .. stride - 1
  BY <1>1, CacheAssumption
<1>3. \A s, b, h : Offset(lyr, s, b, h) = RowHead(b, h) * stride + s
  BY DEF Offset, RowHead
<1>4. LayerSize(lyr) = RowHeads * stride
  BY DEF LayerSize
<1> HIDE DEF stride
<1>5. ASSUME NEW s \in 0 .. stride - 1, NEW r \in 0 .. RowHeads - 1
      PROVE  r * stride + s \in 0 .. RowHeads * stride - 1
  <2>1. r * stride + stride <= RowHeads * stride
    BY <1>1, NextMultiple
  <2>2. r * stride \in Nat /\ RowHeads * stride \in Nat
    BY <1>1, ProductNat
  <2> QED
    BY <1>1, <2>1, <2>2
<1>6. ASSUME NEW s \in 0 .. stride - 1, NEW u \in 0 .. stride - 1,
             NEW r \in 0 .. RowHeads - 1, NEW q \in 0 .. RowHeads - 1,
             r * stride + s = q * stride + u
      PROVE  s = u /\ r = q
  BY <1>1, <1>6, SamePair
<1>7. \A s \in 0 .. Cap(lyr) - 1, b \in Rows, h \in KvHeadNumbers :
              Offset(lyr, s, b, h) \in 0 .. LayerSize(lyr) - 1
  BY <1>2, <1>3, <1>4, <1>5, RowHeadUnique
<1>8. \A s, u \in 0 .. Cap(lyr) - 1, b, c \in Rows, h, g \in KvHeadNumbers :
              Offset(lyr, s, b, h) = Offset(lyr, u, c, g) => s = u /\ b = c /\ h = g
  BY <1>2, <1>3, <1>6, RowHeadUnique
<1> QED
  BY <1>7, <1>8

(* The layers follow one another: the even ones, then the odd ones. *)
LEMMA BaseOfLayer ==
  ASSUME ConfigOK, NEW lyr \in Layers
  PROVE  LayerBase(lyr) = IF IsEven(lyr) THEN (lyr \div 2) * EvenSize
                        ELSE EvenLayers * EvenSize + (lyr \div 2) * OddSize
<1>1. /\ EvenCap \in Nat /\ OddCap \in Nat /\ EvenLayers \in Nat
      /\ lyr \div 2 \in Nat /\ BatchSize \in Nat /\ KvHeads \in Nat /\ Pad \in Nat
  BY KvSizes, CacheAssumption
<1>2. \A i, e, o, n, b, k, p \in Nat :
        /\ i * e * b * k + i * (b * k * p) = i * (b * k * (e + p))
        /\ (n * e + i * o) * b * k + (n + i) * (b * k * p)
             = n * (b * k * (e + p)) + i * (b * k * (o + p))
  OBVIOUS
<1>3. CASE IsEven(lyr)
  BY <1>1, <1>2, <1>3 DEF LayerBase, LayerSlots, LayersBefore, LayerPad, EvenSize, RowHeads
<1>4. CASE ~IsEven(lyr)
  BY <1>1, <1>2, <1>4 DEF LayerBase, LayerSlots, LayersBefore, LayerPad, EvenSize, OddSize, RowHeads
<1> QED
  BY <1>3, <1>4

LEMMA VectorsOfLayers ==
  ASSUME ConfigOK
  PROVE  Vectors = EvenLayers * EvenSize + OddLayers * OddSize
<1>1. /\ EvenCap \in Nat /\ OddCap \in Nat /\ EvenLayers \in Nat /\ OddLayers \in Nat
      /\ BatchSize \in Nat /\ KvHeads \in Nat /\ Pad \in Nat
      /\ shape.layers = EvenLayers + OddLayers
      /\ shape.layers - EvenLayers = OddLayers
  BY KvSizes, CacheAssumption DEF ConfigOK, OddLayers
<1>2. \A e, o, n, m, b, k, p \in Nat :
        b * (n * e + m * o) * k + (n + m) * b * k * p
          = n * (b * k * (e + p)) + m * (b * k * (o + p))
  OBVIOUS
<1> QED
  BY <1>1, <1>2 DEF Vectors, TotalSlots, EvenSize, OddSize, RowHeads

LEMMA LayerNumber ==
  ASSUME ConfigOK
  PROVE  /\ \A lyr \in Layers : lyr \div 2 < IF IsEven(lyr) THEN EvenLayers ELSE OddLayers
         /\ \A lyr, m \in Layers : (IsEven(lyr) <=> IsEven(m)) /\ lyr \div 2 = m \div 2 => lyr = m
  BY DEF ConfigOK, Layers, IsEven, EvenLayers, OddLayers

(* No two cells have the same address, and none is past the last vector. *)
LEMMA AddressUnique ==
  ASSUME ConfigOK,
         NEW lyr \in Layers, NEW s \in 0 .. Cap(lyr) - 1, NEW b \in Rows, NEW h \in KvHeadNumbers,
         NEW m \in Layers, NEW u \in 0 .. Cap(m) - 1, NEW c \in Rows, NEW g \in KvHeadNumbers,
         Address(lyr, s, b, h) = Address(m, u, c, g)
  PROVE  lyr = m /\ s = u /\ b = c /\ h = g
<1> DEFINE i == lyr \div 2
           j == m \div 2
           x == Offset(lyr, s, b, h)
           y == Offset(m, u, c, g)
<1>1. x \in 0 .. LayerSize(lyr) - 1 /\ y \in 0 .. LayerSize(m) - 1
  BY OffsetUnique
<1>2. /\ i \in Nat /\ j \in Nat /\ EvenSize \in Nat /\ OddSize \in Nat
      /\ EvenLayers \in Nat
      /\ LayerSize(lyr) = IF IsEven(lyr) THEN EvenSize ELSE OddSize
      /\ LayerSize(m) = IF IsEven(m) THEN EvenSize ELSE OddSize
  BY KvSizes
<1>3. LayerBase(lyr) + x = LayerBase(m) + y
  BY DEF Address
<1>4. /\ LayerBase(lyr) = IF IsEven(lyr) THEN i * EvenSize ELSE EvenLayers * EvenSize + i * OddSize
      /\ LayerBase(m) = IF IsEven(m) THEN j * EvenSize ELSE EvenLayers * EvenSize + j * OddSize
  BY BaseOfLayer
<1>5. ASSUME lyr = m PROVE s = u /\ b = c /\ h = g
  <2>1. /\ EvenLayers * EvenSize \in Nat
        /\ i * EvenSize \in Nat /\ i * OddSize \in Nat
    BY <1>2, ProductNat
  <2>2. LayerBase(lyr) \in Int
    BY <1>4, <2>1
  <2>3. LayerBase(lyr) = LayerBase(m)
    BY <1>5
  <2>4. x = y
    BY <1>1, <1>3, <2>2, <2>3
  <2>5. Offset(lyr, s, b, h) = Offset(lyr, u, c, g)
    BY <1>5, <2>4
  <2>6. u \in 0 .. Cap(lyr) - 1
    BY <1>5
  <2> QED
    BY <2>5, <2>6, OffsetUnique
<1>6. (IsEven(lyr) <=> IsEven(m)) /\ i = j => lyr = m
  BY LayerNumber
<1>7. (IsEven(lyr) => i < EvenLayers) /\ (IsEven(m) => j < EvenLayers)
  BY LayerNumber
<1> HIDE DEF i, j, x, y
<1>8. CASE IsEven(lyr) /\ IsEven(m)
  <2>1. i * EvenSize + x = j * EvenSize + y
    BY <1>3, <1>4, <1>8
  <2>2. i = j
    BY <1>1, <1>2, <1>8, <2>1, SamePair
  <2> QED
    BY <1>5, <1>6, <1>8, <2>2
<1>9. CASE ~IsEven(lyr) /\ ~IsEven(m)
  <2>1. EvenLayers * EvenSize \in Nat /\ i * OddSize \in Nat /\ j * OddSize \in Nat
    BY <1>2, ProductNat
  <2>2. i * OddSize + x = j * OddSize + y
    BY <1>1, <1>2, <1>3, <1>4, <1>9, <2>1
  <2>3. i = j
    BY <1>1, <1>2, <1>9, <2>2, SamePair
  <2> QED
    BY <1>5, <1>6, <1>9, <2>3
<1>10. CASE ~(IsEven(lyr) <=> IsEven(m))
  <2>1. /\ EvenLayers * EvenSize \in Nat
        /\ i * OddSize \in Nat /\ j * OddSize \in Nat
        /\ i * EvenSize \in Nat /\ j * EvenSize \in Nat
    BY <1>2, ProductNat
  <2>2. \A n \in Nat : n < EvenLayers => n * EvenSize + EvenSize <= EvenLayers * EvenSize
    BY <1>2, NextMultiple
  <2>3. CASE IsEven(lyr) /\ ~IsEven(m)
    <3>1. i * EvenSize + EvenSize <= EvenLayers * EvenSize
      BY <1>2, <1>7, <2>2, <2>3
    <3>2. i * EvenSize + x = EvenLayers * EvenSize + j * OddSize + y
      BY <1>3, <1>4, <2>3
    <3>3. x < EvenSize /\ x \in Nat /\ y \in Nat
      BY <1>1, <1>2, <2>3
    <3> QED
      BY <1>2, <2>1, <3>1, <3>2, <3>3
  <2>4. CASE ~IsEven(lyr) /\ IsEven(m)
    <3>1. j * EvenSize + EvenSize <= EvenLayers * EvenSize
      BY <1>2, <1>7, <2>2, <2>4
    <3>2. EvenLayers * EvenSize + i * OddSize + x = j * EvenSize + y
      BY <1>3, <1>4, <2>4
    <3>3. y < EvenSize /\ y \in Nat /\ x \in Nat
      BY <1>1, <1>2, <2>4
    <3> QED
      BY <1>2, <2>1, <3>1, <3>2, <3>3
  <2> QED
    BY <1>10, <2>3, <2>4
<1> QED
  BY <1>8, <1>9, <1>10

LEMMA AddressInside ==
  ASSUME ConfigOK,
         NEW lyr \in Layers, NEW s \in 0 .. Cap(lyr) - 1, NEW b \in Rows, NEW h \in KvHeadNumbers
  PROVE  Address(lyr, s, b, h) \in 0 .. Vectors - 1
<1> DEFINE i == lyr \div 2
           x == Offset(lyr, s, b, h)
<1>1. x \in 0 .. LayerSize(lyr) - 1
  BY OffsetUnique
<1>2. /\ i \in Nat /\ EvenSize \in Nat /\ OddSize \in Nat
      /\ EvenLayers \in Nat /\ OddLayers \in Nat
      /\ LayerSize(lyr) = IF IsEven(lyr) THEN EvenSize ELSE OddSize
  BY KvSizes
<1>3. LayerBase(lyr) = IF IsEven(lyr) THEN i * EvenSize ELSE EvenLayers * EvenSize + i * OddSize
  BY BaseOfLayer
<1>4. i < IF IsEven(lyr) THEN EvenLayers ELSE OddLayers
  BY LayerNumber
<1> HIDE DEF i, x
<1>5. /\ EvenLayers * EvenSize \in Nat /\ OddLayers * OddSize \in Nat
      /\ i * OddSize \in Nat /\ i * EvenSize \in Nat
  BY <1>2, ProductNat
<1>6. IF IsEven(lyr) THEN i * EvenSize + EvenSize <= EvenLayers * EvenSize
                   ELSE i * OddSize + OddSize <= OddLayers * OddSize
  BY <1>2, <1>4, NextMultiple
<1>7. Vectors = EvenLayers * EvenSize + OddLayers * OddSize
  BY VectorsOfLayers
<1>8. LayerBase(lyr) + x \in 0 .. (EvenLayers * EvenSize + OddLayers * OddSize) - 1
  BY <1>1, <1>2, <1>3, <1>5, <1>6
<1>9. Address(lyr, s, b, h) = LayerBase(lyr) + x
  BY DEF Address, x
<1> QED
  BY <1>7, <1>8, <1>9

-----------------------------------------------------------------------------
TypeInv ==
  /\ ConfigOK
  /\ chunk \in Nat
  /\ position \in Nat
  /\ maskOn \in SUBSET Rows
  /\ layer \in Layers
  /\ kernel \in {"qkv", "attention"}
  /\ ran \in SUBSET Blocks

(* Only attention has results, and only for its own blocks. *)
ReadInv ==
  /\ DOMAIN read \subseteq Blocks
  /\ kernel = "qkv" => DOMAIN read = {}

(* How many positions of this chunk the ring of a layer, row and head has  *)
(* been given.                                                             *)
Count(lyr, b, h) ==
  IF \/ lyr < layer
     \/ lyr = layer /\ (kernel = "attention" \/ <<b, h>> \in ran)
  THEN position + 1 ELSE position

(* It holds the last Cap(l) of them. *)
RingInv ==
  \A lyr \in Layers, b \in Rows, h \in KvHeadNumbers :
    \A t \in 0 .. position :
      t < Count(lyr, b, h) /\ Count(lyr, b, h) <= t + Cap(lyr) =>
        /\ ReadAddress(lyr, t, b, h) \in DOMAIN rings
        /\ rings[ReadAddress(lyr, t, b, h)] = Vector(chunk, lyr, t, b, h)

WrittenInside == DOMAIN rings \subseteq 0 .. Vectors - 1

KvInv == TypeInv /\ ReadInv /\ RingInv /\ WrittenInside /\ ReadsOwnWindow

-----------------------------------------------------------------------------
(* The addresses are fixed by the configuration, which no step changes. *)
LEMMA SameConfig ==
  ASSUME shape' = shape
  PROVE  /\ ConfigOK' <=> ConfigOK
         /\ Layers' = Layers
         /\ Vectors' = Vectors
         /\ \A lyr : Cap(lyr)' = Cap(lyr)
         /\ \A lyr, t, b, h : ReadAddress(lyr, t, b, h)' = ReadAddress(lyr, t, b, h)
<1> USE DEF EvenLayers, EvenCap, OddCap, AtLeast1, IsEven, Cap
<1>1. (ConfigOK' <=> ConfigOK) /\ Layers' = Layers
  BY DEF ConfigOK, Layers
<1>2. Vectors' = Vectors
  BY DEF Vectors, TotalSlots
<1>3. \A lyr : Cap(lyr)' = Cap(lyr)
  OBVIOUS
<1>4. \A lyr : LayerBase(lyr)' = LayerBase(lyr)
  BY DEF LayerBase, LayerSlots, LayersBefore, LayerPad
<1>5. \A lyr, t, b, h : Offset(lyr, t % Cap(lyr), b, h)' = Offset(lyr, t % Cap(lyr), b, h)
  BY DEF Offset
<1> QED
  BY <1>1, <1>2, <1>3, <1>4, <1>5 DEF ReadAddress

LEMMA AddressOfRead ==
  \A lyr, t, b, h : ReadAddress(lyr, t, b, h) = Address(lyr, t % Cap(lyr), b, h)
BY DEF ReadAddress, Address

(* The qkv kernel computes the address in two parts, and it is that of the *)
(* read of this position.                                                  *)
LEMMA WriteIsRead ==
  ASSUME TypeInv, NEW b \in Rows, NEW h \in KvHeadNumbers
  PROVE  WriteAddress(layer, b, h) = ReadAddress(layer, position, b, h)
<1> DEFINE r == (b * KvHeads + h) * (Cap(layer) + Pad)
           s == position % Cap(layer)
<1>1. Cap(layer) \in Nat \ {0}
  BY KvSizes DEF TypeInv
<1>2. s \in Nat
  BY <1>1, Division DEF TypeInv
<1>3. b \in Nat /\ h \in Nat /\ KvHeads \in Nat /\ Pad \in Nat
  BY CacheAssumption DEF Rows, KvHeadNumbers
<1>4. r \in Nat
  BY <1>1, <1>3, ProductNat
<1>5. LayerBase(layer) \in Int
  <2>1. layer \div 2 \in Nat /\ EvenSize \in Nat /\ OddSize \in Nat /\ EvenLayers \in Nat
    BY KvSizes DEF TypeInv
  <2>2. /\ (layer \div 2) * EvenSize \in Nat /\ (layer \div 2) * OddSize \in Nat
        /\ EvenLayers * EvenSize \in Nat
    BY <2>1, ProductNat
  <2> QED
    BY <2>2, BaseOfLayer DEF TypeInv
<1>6. Offset(layer, s, 0, 0) = s
  BY <1>1, <1>2, <1>3 DEF Offset
<1>7. Offset(layer, 0, b, h) = r + 0 /\ Offset(layer, s, b, h) = r + s
  BY DEF Offset
<1> HIDE DEF r, s
<1>8. WriteAddress(layer, b, h) = LayerBase(layer) + s + (r + 0)
  BY <1>6, <1>7 DEF WriteAddress, s
<1>9. ReadAddress(layer, position, b, h) = LayerBase(layer) + (r + s)
  BY <1>7 DEF ReadAddress, s
<1> QED
  BY <1>2, <1>4, <1>5, <1>8, <1>9

(* Two reads at one address are of one ring, and of positions that are at  *)
(* least its length apart.                                                 *)
LEMMA SameRead ==
  ASSUME ConfigOK,
         NEW lyr \in Layers, NEW t \in Nat, NEW b \in Rows, NEW h \in KvHeadNumbers,
         NEW m \in Layers, NEW v \in Nat, NEW c \in Rows, NEW g \in KvHeadNumbers,
         ReadAddress(lyr, t, b, h) = ReadAddress(m, v, c, g)
  PROVE  /\ lyr = m /\ b = c /\ h = g
         /\ t < v + Cap(lyr) /\ v < t + Cap(lyr) => t = v
<1>1. Cap(lyr) \in Nat \ {0} /\ Cap(m) \in Nat \ {0}
  BY KvSizes
<1>2. t % Cap(lyr) \in 0 .. Cap(lyr) - 1 /\ v % Cap(m) \in 0 .. Cap(m) - 1
  BY <1>1, Division
<1>3. Address(lyr, t % Cap(lyr), b, h) = Address(m, v % Cap(m), c, g)
  BY AddressOfRead
<1>4. lyr = m /\ t % Cap(lyr) = v % Cap(m) /\ b = c /\ h = g
  BY <1>2, <1>3, AddressUnique
<1>5. t % Cap(lyr) = v % Cap(lyr)
  BY <1>4
<1>6. \A x, y \in Nat : x < y /\ y < x + Cap(lyr) => x % Cap(lyr) # y % Cap(lyr)
  BY <1>1, NearRemainders
<1> QED
  BY <1>1, <1>4, <1>5, <1>6

LEMMA ReadInside ==
  ASSUME ConfigOK, NEW lyr \in Layers, NEW t \in Nat, NEW b \in Rows, NEW h \in KvHeadNumbers
  PROVE  ReadAddress(lyr, t, b, h) \in 0 .. Vectors - 1
<1>1. t % Cap(lyr) \in 0 .. Cap(lyr) - 1
  BY KvSizes, Division
<1> QED
  BY <1>1, AddressInside, AddressOfRead

(* The kernel starts its tiles at the first position of the window. *)
LEMMA WindowOfRead ==
  ASSUME TypeInv, NEW lyr \in Layers
  PROVE  /\ TStart(lyr) \in 0 .. position
         /\ position + 1 <= TStart(lyr) + Cap(lyr)
         /\ Cardinality(Positions(lyr)) = TEnd - TStart(lyr)
         /\ \A n \in 1 .. TEnd - TStart(lyr) : n <= Tiles(lyr) * Tile
<1>1. Cap(lyr) \in Nat \ {0} /\ Window(lyr) = Cap(lyr) /\ position \in Nat /\ Tile \in Nat \ {0}
  BY KvSizes, CacheAssumption DEF TypeInv, Window, Cap, EvenCap, OddCap
<1>2. ApplyMask(lyr) => shape.window = Cap(lyr)
  BY DEF ApplyMask, Cap, EvenCap, AtLeast1
<1>3. TStart(lyr) = NotBelow0(position + 1, Cap(lyr))
  BY <1>2 DEF TStart
<1>4. TStart(lyr) \in 0 .. position /\ position + 1 <= TStart(lyr) + Cap(lyr)
  BY <1>1, <1>3 DEF NotBelow0
<1>5. Positions(lyr) = TStart(lyr) .. position
  BY <1>1, <1>3 DEF NotBelow0, Positions
<1>6. Cardinality(Positions(lyr)) = TEnd - TStart(lyr)
  <2>1. Cardinality(TStart(lyr) .. position) = position - TStart(lyr) + 1
    BY <1>1, <1>4, FS_Interval
  <2> QED
    BY <1>1, <1>4, <1>5, <2>1 DEF TEnd
<1>7. ASSUME NEW n \in 1 .. TEnd - TStart(lyr) PROVE n <= Tiles(lyr) * Tile
  <2> DEFINE x == TEnd - TStart(lyr)
             q == (x + Tile - 1) \div Tile
  <2>1. x \in Nat /\ x + Tile - 1 \in Nat
    BY <1>1, <1>4 DEF TEnd
  <2>2. /\ q \in Nat /\ (x + Tile - 1) % Tile \in 0 .. Tile - 1
        /\ x + Tile - 1 = q * Tile + ((x + Tile - 1) % Tile)
    BY <1>1, <2>1, Division
  <2>3. q * Tile \in Nat
    BY <1>1, <2>2, ProductNat
  <2>4. q = Tiles(lyr)
    BY DEF Tiles
  <2> HIDE DEF x, q
  <2>5. x <= q * Tile
    BY <1>1, <2>1, <2>2, <2>3
  <2> QED
    BY <2>1, <2>3, <2>4, <2>5 DEF x
<1> QED
  BY <1>4, <1>6, <1>7

(* What a block of the attention kernel reads is its window. *)
WindowRead(b, h) ==
  [k \in 1 .. Cardinality(Positions(layer)) |->
     Vector(chunk, layer, position + 1 - Cardinality(Positions(layer)) + k - 1, b, h)]

LEMMA ScoredIsWindow ==
  ASSUME TypeInv, RingInv, kernel = "attention", NEW b \in Rows, NEW h \in KvHeadNumbers
  PROVE  Scored(layer, b, h) = WindowRead(b, h)
<1> DEFINE n == TEnd - TStart(layer)
<1>1. /\ layer \in Layers /\ position \in Nat /\ TEnd = position + 1
      /\ TStart(layer) \in 0 .. position
      /\ position + 1 <= TStart(layer) + Cap(layer)
      /\ Cardinality(Positions(layer)) = n
      /\ \A k \in 1 .. n : k <= Tiles(layer) * Tile
  BY WindowOfRead DEF TypeInv, TEnd
<1>2. Cap(layer) \in Nat
  BY <1>1, KvSizes DEF TypeInv
<1>3. n \in Nat /\ n = position + 1 - TStart(layer)
  BY <1>1
<1>4. {k \in 1 .. Tiles(layer) * Tile : TStart(layer) + k - 1 < TEnd} = 1 .. n
  <2>1. \A k \in Nat : TStart(layer) + k - 1 < TEnd <=> k <= n
    BY <1>1, <1>3
  <2>2. Tiles(layer) * Tile \in Int
    BY <1>1, CacheAssumption DEF Tiles
  <2>3. \A k \in 1 .. n : k \in 1 .. Tiles(layer) * Tile
    BY <1>1, <1>3, <2>2
  <2> HIDE DEF n
  <2> QED
    BY <1>3, <2>1, <2>2, <2>3
<1>5. ASSUME NEW k \in 1 .. n
      PROVE  Load(layer, TStart(layer) + k - 1, b, h)
               = Vector(chunk, layer, position + 1 - n + k - 1, b, h)
  <2> DEFINE t == TStart(layer) + k - 1
  <2>1. t \in 0 .. position /\ t < position + 1 /\ position + 1 <= t + Cap(layer) /\ t = position + 1 - n + k - 1
    BY <1>1, <1>2, <1>3
  <2>2. Count(layer, b, h) = position + 1
    BY DEF Count
  <2> HIDE DEF t
  <2>3. /\ ReadAddress(layer, t, b, h) \in DOMAIN rings
        /\ rings[ReadAddress(layer, t, b, h)] = Vector(chunk, layer, t, b, h)
    BY <1>1, <2>1, <2>2 DEF RingInv
  <2>4. ~(t >= TEnd)
    BY <1>1, <2>1
  <2>5. Load(layer, t, b, h) = Vector(chunk, layer, t, b, h)
    BY <2>3, <2>4 DEF Load
  <2> QED
    BY <2>1, <2>5 DEF t
<1> HIDE DEF n
<1>6. Scored(layer, b, h) = [k \in 1 .. n |-> Load(layer, TStart(layer) + k - 1, b, h)]
  BY <1>4 DEF Scored
<1>7. WindowRead(b, h) = [k \in 1 .. n |-> Vector(chunk, layer, position + 1 - n + k - 1, b, h)]
  BY <1>1 DEF WindowRead
<1> QED
  BY <1>5, <1>6, <1>7

LEMMA ReadsWindow ==
  ReadsOwnWindow <=> \A block \in DOMAIN read : read[block] = WindowRead(block[1], block[2])
BY DEF ReadsOwnWindow, WindowRead

-----------------------------------------------------------------------------
LEMMA InvInit == KvInit => KvInv
<1> SUFFICES ASSUME KvInit PROVE KvInv
  OBVIOUS
<1>1. TypeInv
  <2>1. ConfigOK
    BY CacheAssumption DEF KvInit, ConfigOK
  <2>2. 0 \in Layers
    BY <2>1 DEF ConfigOK, Layers
  <2> QED
    BY <2>1, <2>2 DEF KvInit, TypeInv
<1>2. ReadInv /\ WrittenInside /\ ReadsOwnWindow
  BY DEF KvInit, ReadInv, WrittenInside, ReadsOwnWindow
<1>3. RingInv
  <2>1. \A lyr \in Layers : \A b, h : Count(lyr, b, h) = 0
    BY <1>1 DEF KvInit, Count, TypeInv, Layers, ConfigOK
  <2> QED
    BY <1>1, <2>1 DEF RingInv, KvInit
<1> QED
  BY <1>1, <1>2, <1>3 DEF KvInv

LEMMA StoreInv ==
  ASSUME KvInv, NEW b \in Rows, NEW h \in KvHeadNumbers, Store(b, h)
  PROVE  KvInv'
<1> USE DEF KvInv
<1> DEFINE w == ReadAddress(layer, position, b, h)
<1>1. /\ kernel = "qkv" /\ <<b, h>> \notin ran
      /\ rings' = With(rings, w, Vector(chunk, layer, position, b, h))
      /\ ran' = ran \cup {<<b, h>>}
      /\ shape' = shape /\ chunk' = chunk /\ position' = position /\ maskOn' = maskOn
      /\ layer' = layer /\ kernel' = kernel /\ read' = read
  BY WriteIsRead DEF Store
<1>2. TypeInv'
  BY <1>1, SameConfig DEF TypeInv, Blocks, Rows, KvHeadNumbers
<1>3. ReadInv' /\ ReadsOwnWindow'
  BY <1>1 DEF ReadInv, ReadsOwnWindow, Blocks, Rows, KvHeadNumbers
<1>4. w \in 0 .. Vectors - 1
  BY ReadInside DEF TypeInv
<1> HIDE DEF w
<1>5. DOMAIN rings' = DOMAIN rings \cup {w}
  BY <1>1 DEF With
<1>6. WrittenInside'
  BY <1>1, <1>4, <1>5, SameConfig DEF WrittenInside
<1>7. ASSUME NEW lyr \in Layers, NEW c \in Rows, NEW g \in KvHeadNumbers, NEW t \in 0 .. position,
             t < Count(lyr, c, g)', Count(lyr, c, g)' <= t + Cap(lyr)
      PROVE  /\ ReadAddress(lyr, t, c, g) \in DOMAIN rings'
             /\ rings'[ReadAddress(lyr, t, c, g)] = Vector(chunk, lyr, t, c, g)
  <2> DEFINE a == ReadAddress(lyr, t, c, g)
  <2>1. position \in Nat /\ t \in Nat /\ layer \in Layers /\ ConfigOK
    BY DEF TypeInv
  <2>2. CASE a = w
    <3>1. lyr = layer /\ c = b /\ g = h /\ (t < position + Cap(lyr) /\ position < t + Cap(lyr) => t = position)
      BY <2>1, <2>2, SameRead DEF w
    <3>2. Count(lyr, c, g)' = position + 1
      BY <1>1, <3>1 DEF Count
    <3>3. Cap(lyr) \in Nat \ {0}
      BY <2>1, KvSizes
    <3>4. t = position
      BY <1>7, <2>1, <3>1, <3>2, <3>3
    <3> QED
      BY <1>1, <1>5, <2>2, <3>1, <3>4 DEF With
  <2>3. CASE a # w
    <3>1. ~(lyr = layer /\ c = b /\ g = h /\ t = position)
      BY <2>3 DEF w
    <3>2. t < Count(lyr, c, g) /\ Count(lyr, c, g) <= t + Cap(lyr)
      <4>1. CASE lyr = layer /\ <<c, g>> = <<b, h>>
        <5>1. Count(lyr, c, g)' = position + 1 /\ Count(lyr, c, g) = position
          BY <1>1, <2>1, <4>1 DEF Count, Layers, TypeInv, ConfigOK
        <5>2. Cap(lyr) \in Nat
          BY <2>1, KvSizes
        <5> QED
          BY <1>7, <2>1, <3>1, <4>1, <5>1, <5>2
      <4>2. CASE ~(lyr = layer /\ <<c, g>> = <<b, h>>)
        <5>1. Count(lyr, c, g)' = Count(lyr, c, g)
          BY <1>1, <4>2 DEF Count
        <5> QED
          BY <1>7, <5>1
      <4> QED
        BY <4>1, <4>2
    <3>3. a \in DOMAIN rings /\ rings[a] = Vector(chunk, lyr, t, c, g)
      BY <3>2 DEF RingInv
    <3> QED
      BY <1>1, <1>5, <2>3, <3>3 DEF With
  <2> QED
    BY <2>2, <2>3
<1>8. RingInv'
  <2>1. \A lyr : Cap(lyr)' = Cap(lyr)
    BY <1>1, SameConfig
  <2>2. \A lyr, t, c, g : ReadAddress(lyr, t, c, g)' = ReadAddress(lyr, t, c, g)
    BY <1>1, SameConfig
  <2>3. Layers' = Layers
    BY <1>1, SameConfig
  <2> QED
    BY <1>1, <1>7, <2>1, <2>2, <2>3 DEF RingInv, Rows, KvHeadNumbers, Vector
<1> QED
  BY <1>2, <1>3, <1>6, <1>8

LEMMA AttendInv ==
  ASSUME KvInv, NEW b \in Rows, NEW h \in KvHeadNumbers, Attend(b, h)
  PROVE  KvInv'
<1> USE DEF KvInv
<1>1. /\ kernel = "attention"
      /\ ran' = ran \cup {<<b, h>>}
      /\ shape' = shape /\ chunk' = chunk /\ position' = position /\ maskOn' = maskOn
      /\ layer' = layer /\ kernel' = kernel /\ rings' = rings
  BY DEF Attend
<1>2. \/ read' = read
      \/ read' = With(read, <<b, h>>, WindowRead(b, h))
  BY <1>1, ScoredIsWindow DEF Attend
<1>3. <<b, h>> \in Blocks
  BY DEF Blocks
<1>4. TypeInv'
  BY <1>1, <1>3, SameConfig DEF TypeInv, Blocks, Rows, KvHeadNumbers
<1>5. ReadInv'
  BY <1>1, <1>2, <1>3 DEF ReadInv, With, Blocks, Rows, KvHeadNumbers
<1>6. WrittenInside'
  BY <1>1, SameConfig DEF WrittenInside
<1>7. RingInv'
  <2>1. \A lyr : Cap(lyr)' = Cap(lyr)
    BY <1>1, SameConfig
  <2>2. \A lyr, t, c, g : ReadAddress(lyr, t, c, g)' = ReadAddress(lyr, t, c, g)
    BY <1>1, SameConfig
  <2>3. Layers' = Layers
    BY <1>1, SameConfig
  <2>4. \A lyr, c, g : Count(lyr, c, g)' = Count(lyr, c, g)
    BY <1>1 DEF Count
  <2> QED
    BY <1>1, <2>1, <2>2, <2>3, <2>4 DEF RingInv, Rows, KvHeadNumbers, Vector
<1>8. ReadsOwnWindow'
  <2>1. \A c, g : WindowRead(c, g)' = WindowRead(c, g)
    <3>1. Positions(layer)' = Positions(layer)
      BY <1>1 DEF Positions, Window, IsEven, AtLeast1
    <3> QED
      BY <1>1, <3>1 DEF WindowRead, Vector
  <2>2. \A block \in DOMAIN read : read[block] = WindowRead(block[1], block[2])
    BY ReadsWindow
  <2>3. \A block \in DOMAIN read' : read'[block] = WindowRead(block[1], block[2])
    BY <1>2, <2>2 DEF With
  <2>4. \A block \in DOMAIN read' : read'[block] = WindowRead(block[1], block[2])'
    BY <2>1, <2>3
  <2> QED
    BY <2>4 DEF ReadsOwnWindow, WindowRead
<1> QED
  BY <1>4, <1>5, <1>6, <1>7, <1>8

LEMMA NextKernelInv ==
  ASSUME KvInv, NextKernel
  PROVE  KvInv'
<1> USE DEF KvInv
<1>1. /\ ran = Blocks /\ ran' = {} /\ read' = << >>
      /\ shape' = shape /\ chunk' = chunk /\ position' = position /\ maskOn' = maskOn
      /\ rings' = rings
  BY DEF NextKernel
<1>2. \/ kernel = "qkv" /\ kernel' = "attention" /\ layer' = layer
      \/ kernel = "attention" /\ kernel' = "qkv" /\ layer' = layer + 1 /\ layer + 1 \in Layers
  BY DEF NextKernel
<1>3. TypeInv'
  BY <1>1, <1>2, SameConfig DEF TypeInv, Rows, KvHeadNumbers, Blocks
<1>4. ReadInv' /\ ReadsOwnWindow'
  BY <1>1 DEF ReadInv, ReadsOwnWindow
<1>5. WrittenInside'
  BY <1>1, SameConfig DEF WrittenInside
<1>6. \A lyr \in Layers, b \in Rows, h \in KvHeadNumbers : Count(lyr, b, h)' = Count(lyr, b, h)
  <2>1. \A b \in Rows, h \in KvHeadNumbers : <<b, h>> \in ran /\ <<b, h>> \notin ran'
    BY <1>1 DEF Blocks
  <2>2. \A lyr \in Layers : lyr < layer + 1 <=> lyr < layer \/ lyr = layer
    BY DEF TypeInv, Layers, ConfigOK
  <2>3. \A lyr \in Layers : ~(lyr < lyr)
    BY DEF TypeInv, Layers, ConfigOK
  <2> QED
    BY <1>1, <1>2, <2>1, <2>2, <2>3 DEF Count
<1>7. RingInv'
  <2>1. \A lyr : Cap(lyr)' = Cap(lyr)
    BY <1>1, SameConfig
  <2>2. \A lyr, t, c, g : ReadAddress(lyr, t, c, g)' = ReadAddress(lyr, t, c, g)
    BY <1>1, SameConfig
  <2>3. Layers' = Layers
    BY <1>1, SameConfig
  <2> QED
    BY <1>1, <1>6, <2>1, <2>2, <2>3 DEF RingInv, Rows, KvHeadNumbers, Vector
<1> QED
  BY <1>3, <1>4, <1>5, <1>7

(* The next position finds the rings full up to this one. *)
LEMMA NextStepInv ==
  ASSUME KvInv, NEW mask \in SUBSET maskOn, StepDone, StartStep(chunk, position + 1, mask)
  PROVE  KvInv'
<1> USE DEF KvInv
<1>1. /\ kernel = "attention" /\ layer = shape.layers - 1
      /\ ran' = {} /\ read' = << >>
      /\ shape' = shape /\ chunk' = chunk /\ position' = position + 1 /\ maskOn' = mask
      /\ layer' = 0 /\ kernel' = "qkv" /\ rings' = rings
  BY DEF StepDone, StartStep
<1>2. TypeInv'
  BY <1>1, SameConfig DEF TypeInv, Rows, KvHeadNumbers, Blocks, Layers, ConfigOK
<1>3. ReadInv' /\ ReadsOwnWindow'
  BY <1>1 DEF ReadInv, ReadsOwnWindow
<1>4. WrittenInside'
  BY <1>1, SameConfig DEF WrittenInside
<1>5. \A lyr \in Layers : \A b, h : Count(lyr, b, h) = position + 1 /\ Count(lyr, b, h)' = position + 1
  <2>1. \A lyr \in Layers : (lyr < layer \/ lyr = layer) /\ ~(lyr < 0)
    BY <1>1 DEF TypeInv, Layers, ConfigOK
  <2> QED
    BY <1>1, <2>1 DEF Count
<1>6. RingInv'
  <2>1. \A lyr : Cap(lyr)' = Cap(lyr)
    BY <1>1, SameConfig
  <2>2. \A lyr, t, c, g : ReadAddress(lyr, t, c, g)' = ReadAddress(lyr, t, c, g)
    BY <1>1, SameConfig
  <2>3. Layers' = Layers
    BY <1>1, SameConfig
  <2>4. \A t \in 0 .. position + 1 : t < position + 1 => t \in 0 .. position
    BY DEF TypeInv
  <2> QED
    BY <1>1, <1>5, <2>1, <2>2, <2>3, <2>4 DEF RingInv, Rows, KvHeadNumbers, Vector
<1> QED
  BY <1>2, <1>3, <1>4, <1>6

(* A chunk starts with nothing of its own in the rings. *)
LEMMA NextChunkInv ==
  ASSUME KvInv, StepDone, StartStep(chunk + 1, 0, Rows)
  PROVE  KvInv'
<1> USE DEF KvInv
<1>1. /\ ran' = {} /\ read' = << >>
      /\ shape' = shape /\ chunk' = chunk + 1 /\ position' = 0 /\ maskOn' = Rows
      /\ layer' = 0 /\ kernel' = "qkv" /\ rings' = rings
  BY DEF StepDone, StartStep
<1>2. TypeInv'
  BY <1>1, SameConfig DEF TypeInv, Rows, KvHeadNumbers, Blocks, Layers, ConfigOK
<1>3. ReadInv' /\ ReadsOwnWindow'
  BY <1>1 DEF ReadInv, ReadsOwnWindow
<1>4. WrittenInside'
  BY <1>1, SameConfig DEF WrittenInside
<1>5. \A lyr \in Layers : \A b, h : Count(lyr, b, h)' = 0
  BY <1>1 DEF Count, Layers, TypeInv, ConfigOK
<1>6. RingInv'
  <2>1. Layers' = Layers
    BY <1>1, SameConfig
  <2>2. \A t \in 0 .. 0 : ~(t < 0)
    OBVIOUS
  <2> QED
    BY <1>1, <1>5, <2>1, <2>2 DEF RingInv
<1> QED
  BY <1>2, <1>3, <1>4, <1>6

LEMMA InvNext == KvInv /\ [KvNext]_kvVars => KvInv'
<1> SUFFICES ASSUME KvInv, [KvNext]_kvVars PROVE KvInv'
  OBVIOUS
<1>1. ASSUME NEW b \in Rows, NEW h \in KvHeadNumbers, Store(b, h) PROVE KvInv'
  BY <1>1, StoreInv
<1>2. ASSUME NEW b \in Rows, NEW h \in KvHeadNumbers, Attend(b, h) PROVE KvInv'
  BY <1>2, AttendInv
<1>3. CASE NextKernel
  BY <1>3, NextKernelInv
<1>4. CASE NextStep
  BY <1>4, NextStepInv DEF NextStep
<1>5. CASE NextChunk
  BY <1>5, NextChunkInv DEF NextChunk
<1>6. CASE UNCHANGED kvVars
  <2>1. /\ shape' = shape /\ chunk' = chunk /\ position' = position /\ maskOn' = maskOn
        /\ layer' = layer /\ kernel' = kernel /\ ran' = ran /\ rings' = rings /\ read' = read
    BY <1>6 DEF kvVars
  <2>2. TypeInv' /\ WrittenInside'
    BY <2>1, SameConfig DEF KvInv, TypeInv, WrittenInside, Rows, KvHeadNumbers, Blocks
  <2>3. ReadInv'
    BY <2>1 DEF KvInv, ReadInv, Rows, KvHeadNumbers, Blocks
  <2>4. ReadsOwnWindow'
    BY <2>1 DEF KvInv, ReadsOwnWindow, Positions, Window, IsEven, AtLeast1, Vector
  <2>5. RingInv'
    BY <2>1, SameConfig DEF KvInv, RingInv, Rows, KvHeadNumbers, Count, Vector
  <2> QED
    BY <2>2, <2>3, <2>4, <2>5 DEF KvInv
<1> QED
  BY <1>1, <1>2, <1>3, <1>4, <1>5, <1>6 DEF KvNext

(* The inductive invariant: types, the rings and the reads. *)
THEOREM KvInvariant == KvSpec => []KvInv
<1> QED
  BY InvInit, InvNext, PTL DEF KvSpec

(* Attention sums the vectors of its own chunk, layer, row and head at the *)
(* positions of the window, each once and in order, for any shape of the   *)
(* model: wrapped rings and earlier chunks never show (forward.hip's       *)
(* GETP_KV_OFF, qkv epilogue and flash attention).                         *)
THEOREM WindowTheorem == KvSpec => []ReadsOwnWindow
<1>1. KvInv => ReadsOwnWindow
  BY DEF KvInv
<1> QED
  BY KvInvariant, <1>1, PTL

(* No store of the qkv kernel leaves the allocation, and no code lies      *)
(* where forward.hip looks for a scale.                                    *)
THEOREM AllocationTheorem == KvSpec => []InsideAllocation
<1>1. KvInv => InsideAllocation
  <2> SUFFICES ASSUME KvInv, NEW a \in DOMAIN rings
               PROVE  CodesEnd(a) <= ScalesBase /\ ScaleEnd(a) <= Allocated
    BY DEF InsideAllocation
  <2>1. ConfigOK /\ a \in 0 .. Vectors - 1
    BY DEF KvInv, TypeInv, WrittenInside
  <2>2. Vectors \in Nat
    <3>1. /\ EvenLayers \in Nat /\ OddLayers \in Nat /\ EvenSize \in Nat /\ OddSize \in Nat
      BY <2>1, KvSizes
    <3>2. EvenLayers * EvenSize \in Nat /\ OddLayers * OddSize \in Nat
      BY <3>1, ProductNat
    <3> QED
      BY <2>1, <3>2, VectorsOfLayers
  <2>3. ScalesBase = Up256(64 * Vectors)
    <3>1. shape.layers * LayerPad = shape.layers * BatchSize * KvHeads * Pad
      <4>1. \A n, b, k, p \in Nat : n * (b * k * p) = n * b * k * p
        OBVIOUS
      <4> QED
        BY <2>1, <4>1, CacheAssumption DEF LayerPad, ConfigOK
    <3> QED
      BY <3>1 DEF ScalesBase, Vectors
  <2>4. Up256(64 * Vectors) \in Nat /\ 64 * Vectors <= Up256(64 * Vectors)
    BY <2>2 DEF Up256
  <2> HIDE DEF KvInv
  <2> QED
    BY <2>1, <2>2, <2>3, <2>4 DEF CodesEnd, ScaleEnd, Allocated
<1> QED
  BY KvInvariant, <1>1, PTL
=============================================================================
