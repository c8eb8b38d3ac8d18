------------------------------- MODULE XPull --------------------------------
(***************************************************************************)
(* The exchange of a layer at EXPERT_PARALLELISM > 2 in the default build  *)
(* (GETP_XPULL, GETP_EVAGG): kernels on the compute stream read the peers' *)
(* memory, ordered by one event per layer and direction and a barrier of   *)
(* the host threads that makes sure the event has been recorded.           *)
(***************************************************************************)
EXTENDS Exchange

LOCAL INSTANCE SequencesExt

XPullEvents == {"ag", "e_agg"} \X Ranks \X {Slot(n) : n \in LayerNumbers}

(* xpull_ag_kernel: the rows this rank has experts for, and the top-k      *)
(* tables, from each peer's own slice into the copy of it here.            *)
XPullAg(d, n) == Kernel(Compute, n, {Acts(q) : q \in Peers(d)},
                        {PeerActs(d, q) : q \in Peers(d)})

(* xpull_rs_kernel: each peer's partial sums for the own rows, found       *)
(* through the own row lists, added to the residual stream.                *)
XPullRs(d, n) == Kernel(Compute, n,
                        {Acts(d)} \cup {EAgg(q, d, n) : q \in Peers(d)}, {})

(* Own rows, the event and the first barrier, a wait on every peer's event *)
(* and xpull_ag_kernel.                                                    *)
PeersAscending(d) == [k \in 1 .. EP - 1 |-> IF k <= d THEN k - 1 ELSE k]
AllGatherNoBarrier(d, n) ==          \* Mutant: no barrier after the record
  OwnRows(d, n)
    \o << Record(Compute, n, <<"ag", d, Slot(n)>>) >>
    \o [k \in 1 .. EP - 1 |->
          WaitFor(Compute, n, <<"ag", PeersAscending(d)[k], Slot(n)>>)]
    \o << XPullAg(d, n) >>
AllGather(d, n) ==
  OwnRows(d, n)
    \o << Record(Compute, n, <<"ag", d, Slot(n)>>), BarrierWait(n) >>
    \o [k \in 1 .. EP - 1 |->
          WaitFor(Compute, n, <<"ag", PeersAscending(d)[k], Slot(n)>>)]
    \o << XPullAg(d, n) >>

(* The experts, the event and the second barrier, a wait on every peer's   *)
(* event and xpull_rs_kernel.                                              *)
ReduceScatter(d, n) ==
  Experts(d, n, Peers(d))
    \o << Record(Compute, n, <<"e_agg", d, Slot(n)>>), BarrierWait(n) >>
    \o [k \in 1 .. EP - 1 |->
          WaitFor(Compute, n, <<"e_agg", PeersInDeltaOrder(d)[k], Slot(n)>>)]
    \o << XPullRs(d, n) >>

XPullProgram ==
  [d \in Ranks |-> FlattenSeq([n \in LayerNumbers |->
                     AllGather(d, n) \o ReduceScatter(d, n) \o StepEnd(n)])]
=============================================================================
