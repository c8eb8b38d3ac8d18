------------------------------ MODULE Exchange ------------------------------
(***************************************************************************)
(* What the exchanges of src/src/hip/forward.hip have in common: the ranks *)
(* of a replica, their memories and events, and the parts of a layer that  *)
(* are the same in every build.  Modules XPull, K2Pull and CopyPull put    *)
(* the parts together as the build options of getp_forward_120b do.        *)
(*                                                                         *)
(* Places of rank d:                                                       *)
(*   <<"acts", d>>   its own slice of ext_t_bf16 and the top-k tables, and *)
(*                   the row lists rr_idx, rr_cnt, rr_rank made from them  *)
(*   <<"peer_acts", d, q>>    q's slice, pulled into d's ext_t_bf16        *)
(*   <<"e_agg", d, q>>        the slice of ext_e_agg with the partial sums *)
(*                   of d's experts for q's rows; "e_agg2" is its twin     *)
(*   <<"peer_e_agg", d, q>>   that slice of q, copied to d                 *)
(* The residual stream and all scratch of a layer are touched by one       *)
(* stream only and are left out.                                           *)
(***************************************************************************)
EXTENDS Streams

CONSTANTS EP,        \* EXPERT_PARALLELISM
          Layers,    \* n_layers
          Steps,     \* token steps
          Slots,     \* events per rank and direction: 128
          AggBuffers \* e_agg buffers alternated by layer: 2

ASSUME ExchangeAssumption == /\ EP \in Nat \ {0}
                             /\ Layers \in Nat \ {0}
                             /\ Steps \in Nat
                             /\ Slots \in Nat \ {0}
                             /\ AggBuffers \in Nat \ {0}

Ranks == 0 .. EP - 1
Peers(d) == Ranks \ {d}

(* for (delta = 1; delta < EP; ++delta) ... (device_index + delta) % EP *)
PeersInDeltaOrder(d) == [delta \in 1 .. EP - 1 |-> (d + delta) % EP]

Compute == <<"compute", 0>>       \* compute_stream

Instruction(kind, s, n) == [do |-> kind, on |-> s, event |-> <<>>, layer |-> n,
                            reads |-> {}, writes |-> {}]
Kernel(s, n, reads, writes) ==
  [Instruction("kernel", s, n) EXCEPT !.reads = reads, !.writes = writes]
Record(s, n, event) == [Instruction("record", s, n) EXCEPT !.event = event]
WaitFor(s, n, event) == [Instruction("wait", s, n) EXCEPT !.event = event]
DrainOf(s, n) == Instruction("drain", s, n)
BarrierWait(n) == Instruction("barrier", Compute, n)

(* Layers are numbered over the run from 1; the code's l restarts at 0 in  *)
(* every step, and events and buffers go by it.                            *)
LayerOf(n) == (n - 1) % Layers
Slot(n) == LayerOf(n) % Slots
LayerNumbers == 1 .. Steps * Layers

Acts(d) == <<"acts", d>>
PeerActs(d, q) == <<"peer_acts", d, q>>
AllActs(d) == {Acts(d)} \cup {PeerActs(d, q) : q \in Peers(d)}

(* eagg_out: the two buffers alternate by layer parity. *)
EAgg(d, q, n) == <<IF LayerOf(n) % AggBuffers = 1 THEN "e_agg2" ELSE "e_agg", d, q>>
PeerEAgg(d, q) == <<"peer_e_agg", d, q>>

AllPlaces == {Acts(d) : d \in Ranks}
               \cup {"peer_acts", "e_agg", "e_agg2", "peer_e_agg"} \X Ranks \X Ranks

(* Attention, rmsnorm, router and top-k of the own rows, the row lists. *)
OwnRows(d, n) == << Kernel(Compute, n, {}, {Acts(d)}) >>

(* From map_global_to_local to moe_gather_pairs: the expert MLPs over the  *)
(* rows of all ranks; the partial sums for the ranks `for' go to e_agg.     *)
Experts(d, n, for) ==
  << Kernel(Compute, n, AllActs(d), {EAgg(d, q, n) : q \in for}) >>

(* EP = 2.  g_ev_sync[d][k % GETP_SYNC_SLOTS], k = 2l + 0 and 2l + 1. *)
Partner(d) == 1 - d
SyncEvent(d, n, point) == <<"sync", d, (2 * LayerOf(n) + point) % Slots>>
SyncEvents == {SyncEvent(d, n, point) : d \in Ranks, n \in LayerNumbers, point \in 0 .. 1}

(* sync_workers_dev(compute_stream, waiting, ..., 2l + point): the own     *)
(* record, a barrier so that the partner's is issued as well, and the wait *)
(* for it.  The first call of the process creates the events, drains and   *)
(* waits.                                                                  *)
SyncWorkersDev(d, n, point, waiting) ==
  (IF n = 1 /\ point = 0 THEN << DrainOf(Compute, n), BarrierWait(n) >> ELSE <<>>)
    \o << Record(Compute, n, SyncEvent(d, n, point)), BarrierWait(n),
          WaitFor(waiting, n, SyncEvent(Partner(d), n, point)) >>

(* After the last layer of a step: the tokens are read back, which drains  *)
(* the compute stream, and the decode loop waits for the other threads.    *)
StepEnd(n) == IF LayerOf(n) = Layers - 1
                THEN << DrainOf(Compute, n), BarrierWait(n) >> ELSE <<>>
=============================================================================
