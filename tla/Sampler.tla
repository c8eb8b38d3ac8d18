------------------------------ MODULE Sampler -------------------------------
(***************************************************************************)
(* The choices the CPU reference of src/src/run.cpp makes among weighted   *)
(* candidates: the next token from the probabilities of the vocabulary     *)
(* (sample), and the experts of a token with their weights (topk and the   *)
(* mixture of forward).                                                    *)
(*                                                                         *)
(* A probability is a weight out of One, a coin one of 0 .. One - 1 out of *)
(* One, topp a share T out of One; indices count from 0 as in the code.    *)
(* qsort is not stable: equal elements may come out in any order.          *)
(***************************************************************************)
EXTENDS Integers, SequencesExt

Mass(w, S) == SumFunctionOnSet(w, S)

(* What qsort may make of the candidates S, the largest first. *)
Descending(w, S) ==
  {order \in [1 .. Cardinality(S) -> S] :
     \A i, j \in DOMAIN order : i < j => order[i] # order[j] /\ w[order[i]] >= w[order[j]]}

(* sample_argmax *)
SampleArgmax(w) ==
  Min({i \in DOMAIN w : \A j \in DOMAIN w : w[i] >= w[j]})

(* The first element at which the running sum of order's weights exceeds a *)
(* bound, given as a fraction; otherwise the last.                         *)
FirstBeyond(w, order, numerator, denominator) ==
  LET prefix(k) == Mass(w, {order[i] : i \in 1 .. k})
      beyond == {k \in DOMAIN order : prefix(k) * denominator > numerator}
  IN  IF beyond = {} THEN Len(order) ELSE Min(beyond)

(* sample_mult *)
SampleMult(w, coin) ==
  LET inOrder == [k \in 1 .. Cardinality(DOMAIN w) |-> k - 1]
  IN  inOrder[FirstBeyond(w, inOrder, coin, 1)]

(* Mutant: the values equal to the cutoff are cropped too. *)
CandidatesAbove(w, One, T) ==
  {i \in DOMAIN w : w[i] * (Cardinality(DOMAIN w) - 1) > One - T}

(* sample_topp crops what is below (1 - topp) / (n - 1).                   *)
Candidates(w, One, T) ==
  {i \in DOMAIN w : w[i] * (Cardinality(DOMAIN w) - 1) >= One - T}

(* Truncated where the sum exceeds topp (last_idx), and sampled with the   *)
(* coin scaled to that sum.                                                *)
SampleTopp(w, One, T, coin, order) ==
  LET last == FirstBeyond(w, order, T, 1)
      kept == SubSeq(order, 1, last)
      mass == Mass(w, {kept[i] : i \in DOMAIN kept})
  IN  kept[FirstBeyond(w, kept, coin * mass, One)]

(* The tokens sample may return, over the coin and the order of equals;    *)
(* greedy: a temperature of zero.  (Without candidates the code would read *)
(* probindex[-1].)                                                         *)
Samples(w, One, T, greedy) ==
  IF greedy THEN {SampleArgmax(w)}
  ELSE IF T <= 0 \/ T >= One THEN {SampleMult(w, coin) : coin \in 0 .. One - 1}
  ELSE {SampleTopp(w, One, T, coin, order) :
          coin \in 0 .. One - 1, order \in Descending(w, Candidates(w, One, T))}

(* Top-p says: the smallest set of the most likely tokens whose sum        *)
(* exceeds topp.  Token i is in one of these, as equals may be taken in    *)
(* any order, when the more likely ones do not exceed topp without it.     *)
Nucleus(w, T) ==
  {i \in DOMAIN w : Mass(w, {j \in DOMAIN w : w[j] > w[i]}) <= T}
-----------------------------------------------------------------------------
(* topk: the indices of the k largest router scores, as sorted. *)
TopKs(score, k) == {SubSeq(order, 1, k) : order \in Descending(score, DOMAIN score)}

(* Mutant: the weight is looked up by the expert, not by its place. *)
WeightOfByExpert(topI, topV, e) == topV[1 + (e % Len(topV))]

(* The weight found for expert e, one of topI. *)
WeightOf(topI, topV, e) == topV[Min({k \in DOMAIN topI : topI[k] = e})]

(* The elements of S, a finite set of numbers, in ascending order. *)
Ascending(S) ==
  CHOOSE f \in [1 .. Cardinality(S) -> S] : \A i, j \in DOMAIN f : i < j => f[i] < f[j]

(* The mixture of forward: the experts in ascending order, each that is in *)
(* the top k with its weight.  topk_v holds the scores; softmax keeps the  *)
(* places.                                                                 *)
Mixture(score, topI) ==
  LET topV == [k \in DOMAIN topI |-> score[topI[k]]]
      chosen == Ascending({topI[k] : k \in DOMAIN topI})
  IN  [k \in DOMAIN chosen |-> <<chosen[k], WeightOf(topI, topV, chosen[k])>>]
=============================================================================
