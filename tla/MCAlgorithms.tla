---------------------------- MODULE MCAlgorithms ----------------------------
(***************************************************************************)
(* The pure algorithms - the plan of the expert load balancing, the        *)
(* tokenizer, the choices of the CPU reference and of the router, the      *)
(* layout of the weights - on every input of small ranges: one state per   *)
(* input, tagged with the algorithm it is for.                             *)
(***************************************************************************)
EXTENDS EplbPlan, Tokenizer, Sampler, Weights, RouterTopK

CONSTANTS LoadChoices,   \* plan: tiles a label may have counted
          Bytes,         \* tokenizer: the bytes of the texts
          MaxText,       \* their length
          Merges,        \* the tokens of more than one byte to choose from
          One,           \* sampler: the weight of a probability of 1
          VocabSizes,    \* sampler: the numbers of tokens
          MixtureExperts, MixtureScores,  \* topk: the experts of a layer, their scores
          RouterScores,  \* router: the scores an expert may get
          ModelSizes     \* upload: models, and the experts of a device

ASSUME AlgorithmsAssumption ==
  /\ LoadChoices \subseteq Nat
  /\ One \in Nat
  /\ VocabSizes \subseteq Nat
  /\ MixtureExperts \in Nat
  /\ MixtureScores \subseteq Int
  /\ \A c \in ModelSizes :
       c \in [V : Nat, H : Nat, E : Nat, I : Nat, L : Nat, QKV : Nat, AO : Nat, NA : Nat,
              PadW : Nat, expert_start : Nat, expert_end : Nat]

(* "aa", "ab", "aab", "00", "000", and "a0" as the name of a byte. *)
MCMerges == {<<97, 97>>, <<97, 98>>, <<97, 97, 98>>, <<48, 48>>, <<48, 48, 48>>, <<97, 48>>}
(* Two chains of scores in which neighbours are near and the ends are not. *)
MCRouterScores == {-11, -10, 10, 11, 12}
MCNegInf == -99
MCHexByte == [s \in {<<97, 48>>} |-> 0]

VARIABLES algorithm, input

algVars == <<algorithm, input>>

(* Vocabularies that start with the single bytes, then some merges in any  *)
(* order, of which one may be special.                                     *)
Vocabularies ==
  LET bytes == SetToSortSeq(Bytes, <)
  IN  {ReadTokenizer([k \in DOMAIN bytes |-> <<bytes[k]>>] \o merges, special) :
         merges \in {m \in [1 .. 3 -> Merges] : \A i, j \in 1 .. 3 : i # j => m[i] # m[j]},
         special \in {{}} \cup {{Cardinality(Bytes) + k} : k \in 0 .. 2}}

(* The weights of some tokens, that sum to One.                            *)
Distributions ==
  UNION {{w \in [0 .. n - 1 -> 0 .. One] : Mass(w, 0 .. n - 1) = One} : n \in VocabSizes}

MCModelSizes ==
  [V : {2}, H : {2, 3}, E : {4}, I : {1, 2}, L : {1, 2}, QKV : {3}, AO : {2}, NA : {2},
   PadW : {0, 1}, expert_start : {0, 1, 2}, expert_end : {2, 3, 4}]

(* GETP_ROUTER_TOPK_MAXK is 4; a smaller k picks a prefix. *)
Routings == UNION {[score : [0 .. n - 1 -> RouterScores], k : {n - 1, n} \cap 1 .. 4] : n \in 3 .. 5}

Algorithms == {"plan", "encode", "sample", "topk", "route", "upload"}

AlgInit == algorithm \in Algorithms /\ input = << >>

Given(a, inputs) == algorithm = a /\ input' \in inputs /\ UNCHANGED algorithm

AlgNext ==
  \/ /\ input = << >>
     /\ \/ Given("plan", [Labels -> LoadChoices])
        \/ Given("encode", Vocabularies)
        \/ Given("sample", [w : Distributions, T : 0 .. One, greedy : BOOLEAN])
        \/ Given("topk", [score : [0 .. MixtureExperts - 1 -> MixtureScores], k : 1 .. MixtureExperts])
        \/ Given("route", Routings)
        \/ Given("upload", {c \in ModelSizes : c.expert_start < c.expert_end})
  \/ input # << >> /\ UNCHANGED algVars

AlgSpec == AlgInit /\ [][AlgNext]_algVars

Of(a) == algorithm = a /\ input # << >>
-----------------------------------------------------------------------------
(* A plan never makes the heaviest rank heavier, although every swap adds  *)
(* to another rank (eplb_plan); at most MaxMoves labels change rank, and   *)
(* no rank receives more than half of them, the room that must be found    *)
(* (docs/PARALLELISM.md:506-509).  The new labels are a permutation: no    *)
(* slot is given to two experts and none is left without one (newlab of    *)
(* getp_forward_120b).                                                     *)
PlanSound ==
  Of("plan") =>
    LET plan == Owners(input)
        new == NewLabels(plan)
    IN  /\ Heaviest(input, plan) <= Heaviest(input, Unmoved)
        /\ Cardinality(Moved(plan)) <= MaxMoves
        /\ \A r \in Ranks : Cardinality(Incoming(plan, r)) <= MaxMoves \div 2
        /\ {new[lab] : lab \in Labels} = Labels

Texts(n) == UNION {[1 .. k -> Bytes] : k \in 0 .. n}

(* Decoding what was encoded gives the text back - also next to tokens     *)
(* whose name would be decoded as a byte, as these mix digits with other   *)
(* characters and the two are never in one piece.  No special token comes  *)
(* out of a text, the tokens are not more than the bytes (the buffers of   *)
(* the callers count on it), and a smaller buffer gets the same tokens, up *)
(* to its end and not beyond.                                              *)
FaithfulTo(t, text, ids) ==
  /\ Decode(t, ids) = text
  /\ Len(ids) <= Len(text)
  /\ \A k \in DOMAIN ids : ids[k] \notin t.special
  /\ \A room \in 0 .. Len(ids) - 1 :
       /\ Encode(t, text, room) = SubSeq(ids, 1, room)
       /\ Len(EncodeSplits(t, text, room).out) <= room
EncodingFaithful ==
  Of("encode") => \A text \in Texts(MaxText) :
    FaithfulTo(input, text, Encode(input, text, MaxText + 1))

(* Byte-pair encoding as it is defined: the merges are carried out in the  *)
(* order of their ranks, each from left to right over the whole piece.     *)
MergePass(parts, s) ==
  FoldLeft(LAMBDA done, part : IF done # << >> /\ Last(done) \o part = s
                                 THEN Front(done) \o <<s>> ELSE Append(done, part),
           << >>, parts)
ByRank(t, piece) ==
  FoldLeft(LAMBDA parts, id : IF id \in t.special THEN parts ELSE MergePass(parts, Piece(t, id)),
           [k \in DOMAIN piece |-> <<piece[k]>>], [k \in 1 .. VocabSize(t) |-> k - 1])

(* In a vocabulary that was trained, every merge comes after its halves.   *)
RankOrdered(t) ==
  \A id \in 0 .. VocabSize(t) - 1 : \A cut \in 1 .. Len(Piece(t, id)) - 1 :
     LET left  == FindToken(t, SubSeq(Piece(t, id), 1, cut))
         right == FindToken(t, SubSeq(Piece(t, id), cut + 1, Len(Piece(t, id))))
     IN  left >= 0 /\ right >= 0 /\ id \notin t.special => left < id /\ right < id

(* For such a vocabulary, always merging the pair of the lowest rank, and  *)
(* the first of these, gives the tokens the definition asks for.           *)
EncodesByRank ==
  Of("encode") /\ RankOrdered(input) =>
    \A piece \in Texts(MaxText) \ {<< >>} :
      [k \in DOMAIN EncodePiece(input, piece) |-> Piece(input, EncodePiece(input, piece)[k])]
        = ByRank(input, piece)

(* Cropping "values smaller than (1 - topp) / (n - 1) cannot be part of    *)
(* the result" (src/src/run.cpp:822-825) takes nothing from the nucleus:   *)
(* the tokens that may be sampled are those of the smallest sets of the    *)
(* most likely tokens that exceed topp, whatever qsort makes of equals.    *)
(* This needs topp to be at least 1 / n: below, every value may be cropped.*)
NucleusIsSmallest ==
  Of("sample") /\ ~input.greedy /\ input.T \in 1 .. One - 1
      /\ input.T * Cardinality(DOMAIN input.w) >= One =>
    Samples(input.w, One, input.T, FALSE) = Nucleus(input.w, input.T)

(* A token is mixed from k different experts that no other outscores, each *)
(* with its own weight, once, and in an order that does not depend on what *)
(* qsort makes of equal scores.                                            *)
MixtureIsTopK ==
  Of("topk") => \A topI \in TopKs(input.score, input.k) :
    LET mix == Mixture(input.score, topI)
        chosen == {mix[i][1] : i \in DOMAIN mix}
    IN  /\ Len(mix) = input.k
        /\ \A i, j \in DOMAIN mix : i < j => mix[i][1] < mix[j][1]
        /\ \A i \in DOMAIN mix : mix[i][2] = input.score[mix[i][1]]
        /\ \A e \in chosen, other \in DOMAIN input.score \ chosen :
             input.score[e] >= input.score[other]

(* The scores that the router's tolerance leads to from the maximum of the *)
(* experts left, in so many steps.                                         *)
Reached(score, left, steps) ==
  LET within[d \in 0 .. steps] ==
        IF d = 0 THEN {i \in left : \A j \in left : score[i] >= score[j]}
        ELSE within[d - 1]
               \cup {i \in left : \E j \in within[d - 1] : Near(score[i], score[j])}
  IN  within[steps]

(* The router picks k different experts, each of them within one tolerance *)
(* of the best left per stage of the tree, although nearness is not        *)
(* transitive and "picked before", "no expert" and "lower index" meet in   *)
(* one comparison of infinities.  As long as no two different scores are   *)
(* near, these are the experts of the CPU reference, lower indices first.  *)
(* A larger block picks the same, "bit-exact"                              *)
(* (src/src/hip/forward.hip:4163-4184).                                    *)
RouterPicksTop ==
  Of("route") =>
    LET score == input.score
        n == Cardinality(DOMAIN score)
        block == BlockFor(n, 1)
        picks == Picks(score, n, input.k, block)
        experts == [sel \in DOMAIN picks |-> picks[sel].i]
        Left(sel) == DOMAIN score \ {experts[j] : j \in 1 .. sel - 1}
    IN  /\ \A sel \in DOMAIN picks :
             /\ experts[sel] \in Left(sel) /\ picks[sel].v = score[experts[sel]]
             /\ \E d \in 1 .. n : 2^d = block /\ experts[sel] \in Reached(score, Left(sel), d)
        /\ (\A i, j \in DOMAIN score : Near(score[i], score[j]) => score[i] = score[j]) =>
             /\ experts \in TopKs(score, input.k)
             /\ \A sel \in DOMAIN picks : \A i \in Left(sel) :
                  score[i] = score[experts[sel]] => experts[sel] <= i
        /\ \A larger \in {2, 4} : Picks(score, n, input.k, BlockFor(n, 1) * larger) = picks

(* Each weight the kernels of a device read - of any tensor, in any layer, *)
(* of any of the device's experts - is in the device's buffer, is read     *)
(* where it has been uploaded once, and is that weight of the checkpoint.  *)
UploadFaithful ==
  Of("upload") => \A buffer \in DOMAIN Buffers :
    LET order == Buffers[buffer]
        uploaded == Uploaded(input, order)
    IN  \A i \in DOMAIN order : \A cell \in Cells(input, order[i]) :
          LET address == ReadAt(input, order, order[i], cell[1], cell[2], cell[3], cell[4])
          IN  /\ address < Allocated(input, order)
              /\ {x[2] : x \in {y \in uploaded : y[1] = address}}
                   = {InFile(input, order[i], cell[1], cell[2], cell[3], cell[4])}
=============================================================================
