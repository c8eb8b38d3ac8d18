---------------------------- MODULE CopyExchange ----------------------------
(***************************************************************************)
(* The exchange of a layer at EXPERT_PARALLELISM > 2 by peer copies, the   *)
(* build GETP_XPULL=0: each rank packs the rows its peers need, drains its *)
(* compute stream and meets them at the barrier, then pulls on its copy    *)
(* streams, which nothing else orders.  The partial sums come back the     *)
(* same way behind events of the peers, without a drain (GETP_EVAGG), the  *)
(* slice of the rank that pulls first being announced first (GETP_GPSLICE).*)
(*                                                                         *)
(* Place "acts" has the packed rows as well; "peer_acts" is what was       *)
(* pulled: rows, indices and top-k tables.  The row counts g_ag_cnt are    *)
(* exchanged between the drain and the barrier, by the host threads.       *)
(***************************************************************************)
EXTENDS Exchange

LOCAL INSTANCE SequencesExt

CONSTANT CopyStreams     \* n_copy_streams

(* GETP_CS(j): the stream of a rank's j-th pull; the 0th is memory_stream. *)
CopyStream(delta) == <<"copy", (delta - 1) % CopyStreams>>
CopyExchangeStreams == {Compute} \cup {CopyStream(delta) : delta \in 1 .. EP - 1}

Peer(d, delta) == PeersInDeltaOrder(d)[delta]
Pulled(d, delta) == <<"pull", d, delta>>        \* events_pull[delta - 1]
Fetched(d, delta) == <<"fetch", d, delta>>      \* events_e_agg[delta - 1]
FirstSlice(d, n) == <<"e_agg_first", d, Slot(n)>>
AllSlices(d, n) == <<"e_agg", d, Slot(n)>>
CopyExchangeEvents ==
  {Pulled(d, delta) : d \in Ranks, delta \in 1 .. EP - 1}
    \cup {Fetched(d, delta) : d \in Ranks, delta \in 1 .. EP - 1}
    \cup {FirstSlice(d, n) : d \in Ranks, n \in LayerNumbers}
    \cup {AllSlices(d, n) : d \in Ranks, n \in LayerNumbers}

ForPeers(instructions(_)) == FlattenSeq([delta \in 1 .. EP - 1 |-> instructions(delta)])

(* One pull of rows, indices and top-k tables: the peer's rows for d, in   *)
(* d's place.                                                              *)
PullFrom(d, n, delta) ==
  LET s == CopyStream(delta)
      q == Peer(d, delta)
  IN  << Kernel(s, n, {Acts(q)}, {PeerActs(d, q)}), Record(s, n, Pulled(d, delta)) >>

PullFromAll(d, n) ==
  ForPeers(LAMBDA delta : PullFrom(d, n, delta))
    \o ForPeers(LAMBDA delta : << WaitFor(Compute, n, Pulled(d, delta)) >>)

(* Mutant: no drain before the barrier.                                    *)
CopyAllGatherUndrained(d, n) ==
  OwnRows(d, n) \o << BarrierWait(n) >> \o PullFromAll(d, n)

(* The packed rows, the drain and the barrier, then the pulls.             *)
CopyAllGather(d, n) ==
  OwnRows(d, n) \o << DrainOf(Compute, n), BarrierWait(n) >> \o PullFromAll(d, n)

(* The expert MLPs and the slice of rank d - 1, which pulls from d first,  *)
(* with its event; the other slices and theirs; the barrier.               *)
GatherSlices(d, n) ==
  LET first == (d + EP - 1) % EP
  IN  Experts(d, n, {first})
        \o << Record(Compute, n, FirstSlice(d, n)),
              Kernel(Compute, n, {}, {EAgg(d, q, n) : q \in Peers(d) \ {first}}),
              Record(Compute, n, AllSlices(d, n)), BarrierWait(n) >>

(* One peer's partial sums for the own rows.                               *)
FetchFrom(d, n, delta) ==
  LET s == CopyStream(delta)
      q == Peer(d, delta)
  IN  << WaitFor(s, n, IF delta = 1 THEN FirstSlice(q, n) ELSE AllSlices(q, n)),
         Kernel(s, n, {EAgg(q, d, n)}, {PeerEAgg(d, q)}),
         Record(s, n, Fetched(d, delta)) >>

(* ... added to the residual stream, through the own row list.             *)
AddFrom(d, n, delta) ==
  << WaitFor(Compute, n, Fetched(d, delta)),
     Kernel(Compute, n, {Acts(d), PeerEAgg(d, Peer(d, delta))}, {}) >>

CopyReduceScatter(d, n) ==
  GatherSlices(d, n) \o ForPeers(LAMBDA delta : FetchFrom(d, n, delta))
                     \o ForPeers(LAMBDA delta : AddFrom(d, n, delta))
=============================================================================
