----------------------------- MODULE RouterTopK -----------------------------
(***************************************************************************)
(* router_topk_softmax_batch_kernel of src/src/hip/forward.hip: the k      *)
(* experts of one row, picked one after the other by a block of threads,   *)
(* each pick a maximum over a tree whose comparisons allow a relative      *)
(* tolerance and then prefer the lower index.                              *)
(*                                                                         *)
(* A score is an integer and eps is 1 / EpsInverse.  NegInf stands for     *)
(* -INFINITY, the score of an expert already picked and of a thread that   *)
(* has none.  Scores are not NaN.  The stages of the tree are separated by *)
(* __syncthreads and each thread writes its own cell only, so the result   *)
(* is a function of the scores.  What is written for a row that is not     *)
(* finished are these experts' labels (see Eplb), with softmax weights.    *)
(***************************************************************************)
EXTENDS Integers, SequencesExt

CONSTANTS EpsInverse,   \* 1e6
          NegInf,       \* an integer no score is equal to
          MaxBlock      \* 1024

Magnitude(v) == Max({v, -v})

(* |v - w| <= eps * max(|v|, |w|).  With one infinity both sides are       *)
(* infinite, which holds; with two the difference is NaN, which does not.  *)
Near(v, w) ==
  IF NegInf \in {v, w} THEN v # w
  ELSE Magnitude(v - w) * EpsInverse <= Max({Magnitude(v), Magnitude(w)})

(* A candidate is a score and its index.  Next to an infinity the index    *)
(* alone decides: a finite score never exceeds -INF + INF, which is NaN.   *)
Better(held, other) ==
  IF \/ NegInf \notin {held.v, other.v} /\ other.v > held.v /\ ~Near(other.v, held.v)
     \/ Near(other.v, held.v) /\ other.i < held.i
    THEN other ELSE held

(* What a thread starts from: an index behind all experts.                 *)
(* Mutant: the index of the first expert.                                  *)
NothingAtZero(n) == [v |-> NegInf, i |-> 0]
Nothing(n) == [v |-> NegInf, i |-> n]

(* The experts tid, tid + block, ... of one thread. *)
OfThread(score, n, tid, block) ==
  FoldLeft(LAMBDA held, i : Better(held, [v |-> score[i], i |-> i]), Nothing(n),
           SelectSeq([k \in 1 .. n |-> k - 1], LAMBDA i : i % block = tid))

(* The candidates left after the stage with stride s; block is a power of 2. *)
BestOf(score, n, block) ==
  LET after[s \in 1 .. block] ==
        IF s = block THEN [tid \in 0 .. block - 1 |-> OfThread(score, n, tid, block)]
        ELSE LET before == after[2 * s]
             IN  [tid \in 0 .. s - 1 |-> Better(before[tid], before[tid + s])]
  IN  after[1][0]

(* The picks in their order; each takes the score of its expert away. *)
Picks(score, n, k, block) ==
  LET after[sel \in 0 .. k] ==
        IF sel = 0 THEN [picked |-> << >>, score |-> score]
        ELSE LET left == after[sel - 1]
                 best == BestOf(left.score, n, block)
             IN  [picked |-> Append(left.picked, best),
                  score  |-> [i \in DOMAIN left.score |-> IF i = best.i THEN NegInf ELSE left.score[i]]]
  IN  after[k].picked

(* getp_router_topk_softmax_batch: the smallest block, from a least one    *)
(* on, that has a thread for each expert, if any has.                      *)
BlockFor(n, least) ==
  LET sizes == {least * 2^d : d \in 0 .. n}
      fit == {b \in sizes : b >= n \/ b >= MaxBlock}
  IN  Min(fit)
=============================================================================
