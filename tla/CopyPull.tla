------------------------------ MODULE CopyPull ------------------------------
(***************************************************************************)
(* The exchange of a layer at EXPERT_PARALLELISM = 2 by peer copies, the   *)
(* build GETP_K2PULL=0: each rank pulls with hipMemcpyPeerAsync on its     *)
(* memory_stream, which waits for the partner's event; the compute stream  *)
(* waits for the copies, and nothing makes memory_stream wait for the      *)
(* compute stream of its own rank (forward.hip:8008-8027).                 *)
(***************************************************************************)
EXTENDS Exchange

LOCAL INSTANCE SequencesExt

Memory == <<"memory", 0>>          \* memory_stream: GETP_CS(0)
CopyPullStreams == {Compute, Memory}

PullEvent(d) == <<"pull", d>>      \* events_pull[0] of thread d
FetchEvent(d) == <<"fetch", d>>    \* events_e_agg[0] of thread d
CopyPullEvents == SyncEvents \cup {PullEvent(d) : d \in Ranks}
                             \cup {FetchEvent(d) : d \in Ranks}

(* Mutant: the compute stream does not wait for the copy. *)
PullActsUnjoined(d, n) ==
  SyncWorkersDev(d, n, 0, Memory)
    \o << Kernel(Memory, n, {Acts(Partner(d))}, {PeerActs(d, Partner(d))}),
          Record(Memory, n, PullEvent(d)) >>

(* The partner's slice and top-k tables. *)
PullActs(d, n) ==
  SyncWorkersDev(d, n, 0, Memory)
    \o << Kernel(Memory, n, {Acts(Partner(d))}, {PeerActs(d, Partner(d))}),
          Record(Memory, n, PullEvent(d)),
          WaitFor(Compute, n, PullEvent(d)) >>

(* The partner's partial sums, and getp_vecadd. *)
FetchEAgg(d, n) ==
  SyncWorkersDev(d, n, 1, Memory)
    \o << Kernel(Memory, n, {EAgg(Partner(d), d, n)}, {PeerEAgg(d, Partner(d))}),
          Record(Memory, n, FetchEvent(d)),
          WaitFor(Compute, n, FetchEvent(d)),
          Kernel(Compute, n, {PeerEAgg(d, Partner(d))}, {}) >>

CopyPullProgram ==
  [d \in Ranks |-> FlattenSeq([n \in LayerNumbers |->
     OwnRows(d, n) \o PullActs(d, n) \o Experts(d, n, Peers(d))
       \o FetchEAgg(d, n) \o StepEnd(n)])]
=============================================================================
