------------------------------ MODULE EplbPlan ------------------------------
(***************************************************************************)
(* The plan of the expert load balancing, for one layer: eplb_plan and the *)
(* new labels of getp_forward_120b (src/src/hip/forward.hip).              *)
(*                                                                         *)
(* A label is a weight slot: label Epd * r + i is slot i of rank r.  The   *)
(* plan looks at the tiles each label costs and says which rank owns it    *)
(* from now on; NewLabels says which slot it gets there.                   *)
(***************************************************************************)
EXTENDS Integers, FiniteSets, Functions, FiniteSetsExt

CONSTANTS EP,        \* EXPERT_PARALLELISM
          Epd,       \* experts per device: n_experts / EP
          MaxMoves   \* GETP_EPLB_MOVES: 8

ASSUME PlanAssumption == /\ EP \in Nat \ {0}
                         /\ Epd \in Nat \ {0}
                         /\ MaxMoves \in Nat

Ranks == 0 .. EP - 1
Labels == 0 .. EP * Epd - 1
RankOf(lab) == lab \div Epd
LabelsOf(r) == {lab \in Labels : RankOf(lab) = r}

(* The placement the slots embody, and the one the plan starts from. *)
Unmoved == [lab \in Labels |-> RankOf(lab)]

Load(tiles, own, r) == SumFunctionOnSet(tiles, {lab \in Labels : own[lab] = r})
Heaviest(tiles, own) == Max({Load(tiles, own, r) : r \in Ranks})
Lightest(tiles, own) == Min({Load(tiles, own, r) : r \in Ranks})

(* The first rank with the largest load, and the first with the smallest. *)
High(tiles, own) == Min({r \in Ranks : Load(tiles, own, r) = Heaviest(tiles, own)})
Low(tiles, own) == Min({r \in Ranks : Load(tiles, own, r) = Lightest(tiles, own)})

(* Mutant: only the rank that gives is looked at.                          *)
PeakOfGiver(tiles, own, s) == Heaviest(tiles, own) - (tiles[s[1]] - tiles[s[2]])

(* The larger load of the two ranks once label a of the heaviest and label *)
(* b of the lightest have changed places.                                  *)
Peak(tiles, own, s) ==
  LET d == tiles[s[1]] - tiles[s[2]]
  IN Max({Heaviest(tiles, own) - d, Lightest(tiles, own) + d})

(* The swaps <<a, b>> that lower the peak. *)
Swaps(tiles, own) ==
  LET high == High(tiles, own)
      low == Low(tiles, own)
      heaviest == Heaviest(tiles, own)
  IN {s \in {a \in Labels : own[a] = high} \X {b \in Labels : own[b] = low} :
        tiles[s[1]] > tiles[s[2]] /\ Peak(tiles, own, s) < heaviest}

(* Among those that lower it most, the first in the order of the loops. *)
BestSwap(tiles, own) ==
  LET swaps == Swaps(tiles, own)
      peak == [s \in swaps |-> Peak(tiles, own, s)]
  IN CHOOSE s \in swaps : \A t \in swaps :
       \/ peak[s] < peak[t]
       \/ /\ peak[s] = peak[t]
          /\ s[1] < t[1] \/ (s[1] = t[1] /\ s[2] <= t[2])

Swapped(own, s) == [own EXCEPT ![s[1]] = own[s[2]], ![s[2]] = own[s[1]]]

(* The owners the greedy ends with: a swap moves two labels, and eplb_plan *)
(* stops at MaxMoves moves or when no swap lowers the peak.                *)
Owners(tiles) ==
  LET after[k \in 0 .. MaxMoves \div 2] ==
        IF k = 0 THEN Unmoved
        ELSE LET own == after[k - 1]
             IN IF Swaps(tiles, own) = {} THEN own
                ELSE Swapped(own, BestSwap(tiles, own))
  IN after[MaxMoves \div 2]

Incoming(own, r) == {lab \in Labels : own[lab] = r /\ RankOf(lab) # r}
Vacated(own, r) == {lab \in LabelsOf(r) : own[lab] # r}

(* The element of T with n smaller ones, and the one that has as many as  *)
(* x has in S.                                                             *)
Smaller(x, S) == {y \in S : y < x}
Nth(n, T) == CHOOSE y \in T : Cardinality(Smaller(y, T)) = n
Opposite(x, S, T) == Nth(Cardinality(Smaller(x, S)), T)

(* newlab: a label that stays keeps its slot; the incoming labels of a     *)
(* rank, in increasing order, take its vacated slots in increasing order.  *)
NewLabels(own) ==
  [lab \in Labels |->
     IF own[lab] = RankOf(lab) THEN lab
     ELSE Opposite(lab, Incoming(own, own[lab]), Vacated(own, own[lab]))]

(* The label whose weights slot lab takes over. *)
Source(own, lab) ==
  LET new == NewLabels(own) IN CHOOSE from \in Labels : new[from] = lab
Moved(own) == {lab \in Labels : own[lab] # RankOf(lab)}
=============================================================================
