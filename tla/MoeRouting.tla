----------------------------- MODULE MoeRouting -----------------------------
(***************************************************************************)
(* The experts of one layer, from the top-k to the residual, for more than *)
(* two ranks (src/src/hip/forward.hip): which rows are exchanged, where    *)
(* each (row, expert) pair is placed, which block multiplies it, and how   *)
(* its product finds the way back to the rank that owns the row.           *)
(*                                                                         *)
(* When the kernels of one rank may read what another wrote is the subject *)
(* of XPull; here a rank's stages wait for what they read.  Buffers start  *)
(* with what an earlier layer left in them: Stale.                         *)
(***************************************************************************)
EXTENDS Integers, Sequences, FiniteSets, FiniteSetsExt, Functions, SequencesExt

CONSTANTS EP,             \* EXPERT_PARALLELISM, more than 2
          BatchSize,      \* rows of a rank
          Epd,            \* experts per device
          BM,             \* MATMUL_MLP1_BLOCK_ROWS: rows of a block
          Lanes,          \* threads of getp_rowskip_build_all_kernel
          TopkChoices,    \* the top-k a row may have: sequences of experts
          MaxLive         \* bound: rows that are not finished

ASSUME RoutingAssumption ==
  /\ EP \in Nat /\ EP > 2
  /\ {BatchSize, Epd, BM, Lanes, MaxLive} \subseteq Nat \ {0}
  /\ TopkChoices # {} /\ TopkChoices \subseteq Seq(Nat)
  /\ \A tk, uk \in TopkChoices : Len(tk) = Len(uk)       \* experts_per_token

VARIABLES routed,   \* [row -> its top-k], as its owner computes it
          stage,    \* [rank -> the next thing its stream does]
          topk,     \* [rank -> [row -> ext_topk_i]]
          rows,     \* [rank -> [row -> ext_t_bf16: the row itself or Stale]]
          recv,     \* [rank -> [peer -> its rr list]]
          send,     \* [rank -> [slice -> its rs list]]
          bucket,   \* [rank -> its e_offsets and blk_offsets, by local expert]
          place,    \* [rank -> [pair -> pair_pos]]
          eAgg,     \* [rank -> [slice -> [position -> the sum packed there]]]
          x         \* [row -> the sums added to its residual, in order]

vars == <<routed, stage, topk, rows, recv, send, bucket, place, eAgg, x>>

Ranks == 0 .. EP - 1
Rows == 0 .. EP * BatchSize - 1
InSlice == 0 .. BatchSize - 1
SliceOf(b) == b \div BatchSize
RowOf(slice, i) == slice * BatchSize + i
Owns(r, e) == r * Epd <= e /\ e < (r + 1) * Epd      \* expert_start, expert_end
LocalExperts == 0 .. Epd - 1
Stale == -2
StaleSum == << <<Stale, Stale, Stale>> >>
Finished == <<-1>>               \* the top-k of a row whose request is done
NoList == [rank |-> [i \in InSlice |-> -1], idx |-> << >>]

Stages == <<"lists", "pull", "place", "gather", "reduce", "done">>
At(r, s) == Stages[stage[r]] = s
Done(r, s) == \E i \in 1 .. stage[r] - 1 : Stages[i] = s
NextStage(r) == stage' = [stage EXCEPT ![r] = @ + 1]

Init ==
  /\ routed \in [Rows -> TopkChoices \cup {Finished}]
  /\ Cardinality({b \in Rows : routed[b] # Finished}) <= MaxLive
  /\ stage = [r \in Ranks |-> 1]
  /\ topk = [r \in Ranks |-> [b \in Rows |-> IF SliceOf(b) = r THEN routed[b] ELSE <<Stale>>]]
  /\ rows = [r \in Ranks |-> [b \in Rows |-> IF SliceOf(b) = r THEN b ELSE Stale]]
  /\ recv = [r \in Ranks |-> [s \in Ranks |-> NoList]]
  /\ send = [r \in Ranks |-> [s \in Ranks |-> NoList]]
  /\ bucket = [r \in Ranks |-> [offset |-> << >>, block |-> << >>]]
  /\ place = [r \in Ranks |-> << >>]
  /\ eAgg = [r \in Ranks |-> [s \in Ranks |-> [i \in InSlice |-> StaleSum]]]
  /\ x = [b \in Rows |-> << >>]

(* The elements of a finite set of numbers, in ascending order: what a     *)
(* loop over an index collects.                                            *)
InOrder(S) ==
  [n \in 1 .. Cardinality(S) |-> CHOOSE i \in S : Cardinality({j \in S : j < i}) = n - 1]
-----------------------------------------------------------------------------
(* Compacting the marked rows of a slice, Lanes at a time: the place of a  *)
(* row among the marked ones of its pass, after those of earlier passes.   *)
Pass(i) == i \div Lanes
Before(marked, i) == Cardinality({j \in marked : Pass(j) = Pass(i) /\ j < i})
Carried(marked, i) == Cardinality({j \in marked : Pass(j) < Pass(i)})
Compact(marked) ==
  LET at(i) == Carried(marked, i) + Before(marked, i)
  IN  [rank |-> [i \in InSlice |-> IF i \in marked THEN at(i) ELSE -1],
       idx  |-> [n \in 1 .. Cardinality(marked) |-> CHOOSE i \in marked : at(i) = n - 1]]

NeedsFirst(r, tk) == Owns(r, tk[1])     \* Mutant: only the best expert counts
Needs(r, tk) == \E k \in DOMAIN tk : Owns(r, tk[k])

(* The rows of the own slice that each peer has an expert for.             *)
BuildLists(r) ==
  /\ At(r, "lists")
  /\ recv' = [recv EXCEPT ![r] = [s \in Ranks |->
       IF s = r THEN NoList
       ELSE Compact({i \in InSlice : Needs(s, topk[r][RowOf(r, i)])})]]
  /\ NextStage(r)
  /\ UNCHANGED <<routed, topk, rows, send, bucket, place, eAgg, x>>

(* All of a peer's top-k, and from its rows the ones on its list for us.   *)
Pulled(r, j) == {RowOf(j, i) : i \in {recv[j][r].idx[n] : n \in DOMAIN recv[j][r].idx}}
Pull(r) ==
  /\ At(r, "pull")
  /\ \A j \in Ranks : Done(j, "lists")
  /\ topk' = [topk EXCEPT ![r] = [b \in Rows |-> topk[SliceOf(b)][b]]]
  /\ rows' = [rows EXCEPT ![r] = [b \in Rows |->
       IF SliceOf(b) # r /\ b \in Pulled(r, SliceOf(b)) THEN rows[SliceOf(b)][b] ELSE @[b]]]
  /\ NextStage(r)
  /\ UNCHANGED <<routed, recv, send, bucket, place, eAgg, x>>
-----------------------------------------------------------------------------
(* A row's local pairs, packed to the front in the order of its top-k.     *)
Local(r, b) == {k \in DOMAIN topk[r][b] : Owns(r, topk[r][b][k])}
NLocal(r, b) == Cardinality(Local(r, b))
LocalPairs(r, b) ==
  LET ks == InOrder(Local(r, b))
  IN  [j \in 1 .. NLocal(r, b) |->
        [row |-> b, k |-> ks[j], expert |-> topk[r][b][ks[j]] - r * Epd]]
PairsOf(r) == UNION {{LocalPairs(r, b)[j] : j \in 1 .. NLocal(r, b)} : b \in Rows}

(* The pairs of the experts lie one after another (e_offsets), and so do   *)
(* the blocks of BM rows that will multiply them (blk_offsets).            *)
BlocksFloor(n) == n \div BM               \* Mutant: no block for the last rows
Blocks(n) == (n + BM - 1) \div BM
Scan(n) == [e \in 0 .. Epd |-> SumFunctionOnSet(n, {d \in LocalExperts : d < e})]
BucketOf(pairs) ==
  LET count == [e \in LocalExperts |-> Cardinality({p \in pairs : p.expert = e})]
  IN  [offset |-> Scan(count), block |-> Scan([e \in LocalExperts |-> Blocks(count[e])])]

(* The atomicAdds on an expert's counter come in any order.                *)
Arrivals(pairs) ==
  LET of == [e \in LocalExperts |-> SetToSeqs({p \in pairs : p.expert = e})]
  IN  {o \in [LocalExperts -> UNION {of[e] : e \in LocalExperts}] :
         \A e \in LocalExperts : o[e] \in of[e]}
Turn(order, p) == CHOOSE n \in DOMAIN order[p.expert] : order[p.expert][n] = p

(* From the pulled top-k: the rows of each peer that will get a sum from   *)
(* us, and a place for every pair.                                         *)
Place(r) ==
  /\ At(r, "place")
  /\ send' = [send EXCEPT ![r] = [s \in Ranks |->
       IF s = r THEN NoList ELSE Compact({i \in InSlice : NLocal(r, RowOf(s, i)) > 0})]]
  /\ LET pairs == PairsOf(r)
     IN  /\ bucket' = [bucket EXCEPT ![r] = BucketOf(pairs)]
         /\ \E order \in Arrivals(pairs) : place' = [place EXCEPT ![r] =
              [p \in pairs |-> bucket'[r].offset[p.expert] + Turn(order, p) - 1]]
  /\ NextStage(r)
  /\ UNCHANGED <<routed, topk, rows, recv, eAgg, x>>
-----------------------------------------------------------------------------
(* The grid is an upper bound from constants.  Block by finds its expert   *)
(* by bisection of blk_offsets - the last that starts at or before it -    *)
(* and returns when the expert has no rows left for it.                    *)
MaxPairs == EP * BatchSize * Len(CHOOSE tk \in TopkChoices : TRUE)
Grid == 0 .. (MaxPairs + BM - 1) \div BM + Epd - 1
ExpertOf(r, by) == Max({e \in LocalExperts : bucket[r].block[e] <= by})
PositionsOf(r, by) ==
  LET e     == ExpertOf(r, by)
      first == bucket[r].offset[e] + (by - bucket[r].block[e]) * BM
  IN  first .. Min({first + BM, bucket[r].offset[e + 1]}) - 1

(* mlp1 and mlp2: the block multiplies the row its position names with its *)
(* expert's weights; tok_idx and w are of the pair that was placed there.  *)
Products(r) ==
  LET blockOf == [by \in Grid |-> PositionsOf(r, by)]
  IN  [pos \in UNION {blockOf[by] : by \in Grid} |->
        LET by == CHOOSE c \in Grid : pos \in blockOf[c]
            p  == CHOOSE q \in DOMAIN place[r] : place[r][q] = pos
        IN  <<rows[r][p.row], r * Epd + ExpertOf(r, by), p.k>>]

SumOf(r, b, z) == [j \in 1 .. NLocal(r, b) |-> z[place[r][LocalPairs(r, b)[j]]]]

(* The sums of the own rows go to the residual, those of other slices to   *)
(* e_agg, packed; rows without a local expert are skipped.                 *)
Gather(r) ==
  /\ At(r, "gather")
  /\ LET z == Products(r)
     IN  /\ x' = [b \in Rows |-> IF SliceOf(b) = r THEN Append(x[b], SumOf(r, b, z)) ELSE x[b]]
         /\ eAgg' = [eAgg EXCEPT ![r] = [s \in Ranks |-> [n \in InSlice |->
              IF s # r /\ \E i \in InSlice : send[r][s].rank[i] = n
                THEN SumOf(r, RowOf(s, CHOOSE i \in InSlice : send[r][s].rank[i] = n), z)
                ELSE @[s][n]]]]
  /\ NextStage(r)
  /\ UNCHANGED <<routed, topk, rows, recv, send, bucket, place>>

(* Each peer's sums, in delta order: row i is at the place the own list    *)
(* gives it, and a row the peer has no expert for is skipped.              *)
PeerAt(r, d) == (r + d) % EP
Senders(r, i) == InOrder({d \in 1 .. EP - 1 : recv[r][PeerAt(r, d)].rank[i] >= 0})
ReceivedUnpacked(r, i) ==      \* Mutant: the packed sums are read by row
  [n \in DOMAIN Senders(r, i) |-> eAgg[PeerAt(r, Senders(r, i)[n])][r][i]]

Received(r, i) ==
  [n \in DOMAIN Senders(r, i) |->
    LET s == PeerAt(r, Senders(r, i)[n]) IN eAgg[s][r][recv[r][s].rank[i]]]

Reduce(r) ==
  /\ At(r, "reduce")
  /\ \A s \in Ranks : Done(s, "gather")
  /\ x' = [b \in Rows |->
       IF SliceOf(b) = r THEN x[b] \o Received(r, b - r * BatchSize) ELSE x[b]]
  /\ NextStage(r)
  /\ UNCHANGED <<routed, topk, rows, recv, send, bucket, place, eAgg>>

Finish == (\A r \in Ranks : At(r, "done")) /\ UNCHANGED vars

Next == \/ \E r \in Ranks : BuildLists(r) \/ Pull(r) \/ Place(r) \/ Gather(r) \/ Reduce(r)
        \/ Finish

Spec == Init /\ [][Next]_vars
-----------------------------------------------------------------------------
(* The two ends derive the list of the packed rows from different data -   *)
(* the sender from the pulled top-k and its own experts, the receiver from *)
(* its own top-k and the peer's range - and get the same list: "the same   *)
(* set" (src/src/hip/forward.hip:7966-7967).                               *)
ListsAgree ==
  \A r, s \in Ranks : r # s /\ Done(r, "place") => send[r][s] = recv[s][r]

(* Whatever the order of the atomics, the pairs of a rank get different    *)
(* places without a gap, and each place is multiplied by exactly one block *)
(* of the grid, with the weights of the pair's expert.                     *)
PairsPlacedOnce ==
  \A r \in Ranks : Done(r, "place") =>
    LET pairs == DOMAIN place[r]
        blockOf == [by \in Grid |-> PositionsOf(r, by)]
    IN  /\ {place[r][p] : p \in pairs} = 0 .. Cardinality(pairs) - 1
        /\ \A p \in pairs :
             /\ Cardinality({by \in Grid : place[r][p] \in blockOf[by]}) = 1
             /\ \A by \in Grid : place[r][p] \in blockOf[by] => ExpertOf(r, by) = p.expert

(* What the residual of row b must have had added, from its top-k alone:   *)
(* the products of the experts of its own rank in top-k order, and then    *)
(* those of each peer that has any, in delta order.                        *)
SumFrom(s, b) ==
  LET ks == InOrder({k \in DOMAIN routed[b] : Owns(s, routed[b][k])})
  IN  [n \in DOMAIN ks |-> <<b, routed[b][ks[n]], ks[n]>>]
Expected(b) ==
  LET o == SliceOf(b)
      ds == InOrder({d \in 1 .. EP - 1 : SumFrom(PeerAt(o, d), b) # << >>})
  IN  <<SumFrom(o, b)>> \o [n \in DOMAIN ds |-> SumFrom(PeerAt(o, ds[n]), b)]

(* Every token gets the product of each of its experts exactly once, from  *)
(* this layer's activations, and the sums are added in an order that       *)
(* depends neither on the atomics nor on which rank is faster.             *)
SumsReproducible == \A b \in Rows : At(SliceOf(b), "done") => x[b] = Expected(b)
=============================================================================
