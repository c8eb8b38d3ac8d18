------------------------------- MODULE K2Pull -------------------------------
(***************************************************************************)
(* The exchange of a layer at EXPERT_PARALLELISM = 2 in the default build  *)
(* (GETP_K2PULL, GETP_DEVSYNC, GETP_GP_OWN_LAST): the partner's memory is  *)
(* read by kernels on the compute stream, after an event of its own at     *)
(* each of the two sync points.                                            *)
(***************************************************************************)
EXTENDS Exchange

LOCAL INSTANCE SequencesExt

(* k2pull_copy of the partner's slice and top-k tables, and                *)
(* k2pull_add_kernel on its partial sums for the own rows.                 *)
K2PullCopy(d, n) ==
  Kernel(Compute, n, {Acts(Partner(d))}, {PeerActs(d, Partner(d))})
K2PullAdd(d, n) == Kernel(Compute, n, {EAgg(Partner(d), d, n)}, {})

SyncPoint1(d, n) == SyncWorkersDev(d, n, 0, Compute) \o << K2PullCopy(d, n) >>

(* The partner's slice is out: the event, and the partner's sums in place. *)
(* (The own rows, gathered in between, concern no peer.)                   *)
SyncPoint2(d, n) ==
  << Record(Compute, n, SyncEvent(d, n, 1)), BarrierWait(n),
     WaitFor(Compute, n, SyncEvent(Partner(d), n, 1)), K2PullAdd(d, n) >>

(* Mutant: a rank whose own rows have all ended returns from the forward   *)
(* pass at once, past the barriers of its layers, in which its partner     *)
(* waits for it.                                                           *)
K2PullProgramUnmet ==
  [d \in Ranks |-> FlattenSeq([n \in LayerNumbers |->
     (IF d = 1 THEN <<>>
      ELSE OwnRows(d, n) \o SyncPoint1(d, n) \o Experts(d, n, Peers(d)) \o SyncPoint2(d, n))
       \o StepEnd(n)])]

K2PullProgram ==
  [d \in Ranks |-> FlattenSeq([n \in LayerNumbers |->
     OwnRows(d, n) \o SyncPoint1(d, n) \o Experts(d, n, Peers(d))
       \o SyncPoint2(d, n) \o StepEnd(n)])]
=============================================================================
