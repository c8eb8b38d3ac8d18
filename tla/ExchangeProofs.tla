---------------------------- MODULE ExchangeProofs ---------------------------
(***************************************************************************)
(* Proofs that the kernels of getp_forward_120b (src/src/hip/forward.hip)  *)
(* find in memory the partial sums and activations of their own layer, in  *)
(* the default builds of the exchange (modules XPull and K2Pull).          *)
(*                                                                         *)
(* 1. A plan is a program with the segment of each instruction - a record  *)
(*    begins one - and the barriers before it.  If it is in Lockstep, the  *)
(*    streams execute it in order and no kernel finds the data of another  *)
(*    layer (LockstepOrdered): a wait captures the record it is meant for, *)
(*    because a barrier is between them and no rank is two records ahead   *)
(*    of another, so a kernel that runs has every rank's earlier segments  *)
(*    behind it.                                                           *)
(* 2. Every program whose layers have the shape of the default builds is   *)
(*    in Lockstep (LayeredLockstep).                                       *)
(* 3. The programs of the two default builds have that shape, so they are  *)
(*    Ordered (XPullOrdered, K2PullOrdered).                               *)
(***************************************************************************)
EXTENDS XPull, K2Pull, NumberLemmas, SequenceTheorems

LOCAL INSTANCE SequencesExt

-----------------------------------------------------------------------------
(* The instructions of rank d in a plan, by kind; Queued are those that go *)
(* to a stream.                                                            *)
At(plan, d, kind) == {i \in 1 .. Len(plan.code[d]) : plan.code[d][i].do = kind}
Kernels(plan, d) == At(plan, d, "kernel")
Records(plan, d) == At(plan, d, "record")
Waits(plan, d) == At(plan, d, "wait")
Queued(plan, d) == Kernels(plan, d) \cup Records(plan, d) \cup Waits(plan, d)
Ins(plan, d, i) == plan.code[d][i]
Seg(plan, d, i) == plan.seg[d][i]
Bars(plan, d, i) == plan.bars[d][i]

(* All instructions are for the compute stream, and every record has an    *)
(* event.                                                                  *)
WellTyped(plan) ==
  /\ Compute \in StreamNames
  /\ plan.code \in [Devices -> Seq(InstructionSet)]
  /\ \A d \in Devices :
       /\ plan.seg[d] \in [1 .. Len(plan.code[d]) -> Nat]
       /\ plan.bars[d] \in [1 .. Len(plan.code[d]) + 1 -> Nat]
       /\ \A i \in 1 .. Len(plan.code[d]) : Ins(plan, d, i).on = Compute
       /\ \A r \in Records(plan, d) : Ins(plan, d, r).event \in Events

(* bars counts the barriers before each instruction.                       *)
CountsBarriers(plan) ==
  \A d \in Devices :
    /\ Bars(plan, d, 1) = 0
    /\ \A i \in 1 .. Len(plan.code[d]) :
         Bars(plan, d, i + 1) =
           Bars(plan, d, i) + (IF Ins(plan, d, i).do = "barrier" THEN 1 ELSE 0)

(* A record begins a segment: whatever is after it, and nothing before it, *)
(* is in its segment or a later one.                                       *)
RecordsSeparate(plan) ==
  \A d \in Devices : \A r \in Records(plan, d) :
    /\ Seg(plan, d, r) > 0
    /\ \A i \in 1 .. Len(plan.code[d]) : r <= i <=> Seg(plan, d, r) <= Seg(plan, d, i)

(* An event belongs to one rank, and is used again two segments later at   *)
(* the earliest: the two directions of a layer have different events.      *)
EventsDiffer(plan) ==
  \A d, q \in Devices : \A r \in Records(plan, d), s \in Records(plan, q) :
    Ins(plan, d, r).event = Ins(plan, q, s).event =>
      /\ d = q
      /\ \/ r = s
         \/ Seg(plan, d, r) >= Seg(plan, q, s) + 2
         \/ Seg(plan, q, s) >= Seg(plan, d, r) + 2

(* The wait j of d is for the record r that begins the same segment of q,  *)
(* in the same layer. A barrier separates them, and the record after next  *)
(* of q is behind one more.                                                *)
Meets(plan, d, j, q, r) ==
  /\ q # d /\ r \in Records(plan, q)
  /\ Ins(plan, q, r).event = Ins(plan, d, j).event
  /\ Ins(plan, q, r).layer = Ins(plan, d, j).layer
  /\ Seg(plan, q, r) = Seg(plan, d, j)
  /\ Bars(plan, q, r) < Bars(plan, d, j)
  /\ \A s \in Records(plan, q) :
       Seg(plan, q, s) >= Seg(plan, q, r) + 2 => Bars(plan, d, j) < Bars(plan, q, s)

WaitsMeet(plan) ==
  \A d \in Devices : \A j \in Waits(plan, d) :
    \E q \in Devices : \E r \in Records(plan, q) : Meets(plan, d, j, q, r)

(* After the first record, a kernel comes after waits of its segment for   *)
(* the records that begin that segment on all other ranks.                 *)
KernelsWait(plan) ==
  \A d \in Devices : \A i \in Kernels(plan, d) : \A q \in Devices \ {d} :
    Seg(plan, d, i) > 0 =>
      \E j \in Waits(plan, d), r \in Records(plan, q) :
         /\ j < i /\ Seg(plan, d, j) = Seg(plan, d, i)
         /\ Seg(plan, q, r) = Seg(plan, d, i)
         /\ Ins(plan, q, r).event = Ins(plan, d, j).event

(* Kernels of two ranks in the same segment have no place in common that   *)
(* either of them writes.                                                  *)
Disjoint(plan) ==
  \A d, q \in Devices : \A i \in Kernels(plan, d), k \in Kernels(plan, q) :
    d # q /\ Seg(plan, d, i) = Seg(plan, q, k) =>
      Ins(plan, d, i).writes \cap (Ins(plan, q, k).reads \cup Ins(plan, q, k).writes) = {}

(* What a kernel reads is written by a kernel of its layer in an earlier   *)
(* segment, or earlier on the same rank, and by no kernel of another layer *)
(* from there on until after the kernel that reads.                        *)
Supplied(plan) ==
  \A d \in Devices : \A i \in Kernels(plan, d) : \A a \in Ins(plan, d, i).reads :
    \E q \in Devices : \E w \in Kernels(plan, q) :
      /\ a \in Ins(plan, q, w).writes
      /\ Ins(plan, q, w).layer = Ins(plan, d, i).layer
      /\ IF q = d THEN w < i ELSE Seg(plan, q, w) < Seg(plan, d, i)
      /\ \A p \in Devices : \A v \in Kernels(plan, p) : a \in Ins(plan, p, v).writes =>
           /\ p = q
           /\ \/ v <= w
              \/ Ins(plan, p, v).layer = Ins(plan, d, i).layer
              \/ IF q = d THEN i <= v ELSE Seg(plan, d, i) < Seg(plan, p, v)

(* A plan of the exchange that keeps the ranks in lockstep. This is what   *)
(* the proof of order needs of a program, and the programs of the two      *)
(* default builds have it (XPullLayered, K2PullLayered).                   *)
Lockstep(plan) == /\ WellTyped(plan)
                  /\ CountsBarriers(plan)
                  /\ RecordsSeparate(plan)
                  /\ EventsDiffer(plan)
                  /\ WaitsMeet(plan)
                  /\ KernelsWait(plan)
                  /\ Disjoint(plan)
                  /\ Supplied(plan)
-----------------------------------------------------------------------------
(* The layers of a run in the default builds: all have the same Stride,    *)
(* after the last of a step there are a drain and a barrier (LastAt), and  *)
(* the first of the run of a pair (f = 1) has those as well, between the   *)
(* own rows and the record (FirstAt). Layer n begins at Base + FirstAt.    *)
Number == Steps * Layers
Stride == 2 * EP + 6
Base(f, n) == (n - 1) * Stride + 2 * ((n - 1) \div Layers) + 2 * f
BarBase(f, n) == 2 * (n - 1) + (n - 1) \div Layers + f
FirstAt(f, n) == IF n = 1 THEN 1 - 2 * f ELSE 1
LastAt(n) == IF LayerOf(n) = Layers - 1 THEN Stride + 2 ELSE Stride

(* The layer an instruction is in, and its place in it.                    *)
LayerAt(f, i) == CHOOSE n \in 1 .. Number + 1 : /\ Base(f, n) + FirstAt(f, n) <= i
                                                /\ i <= Base(f, n) + LastAt(n)
Local(f, i) == i - Base(f, LayerAt(f, i))

(* The segment and the barriers before the instruction at place p of layer *)
(* n: a layer has two records, at places 2 and EP + 5.                     *)
SegOf(n, p) == 2 * (n - 1) + (IF p < 2 THEN 0 ELSE IF p < EP + 5 THEN 1 ELSE 2)
BarsOf(f, n, p) ==
  IF n = 1 /\ p <= 1 THEN 0
  ELSE BarBase(f, n) + (IF p <= 3 THEN 0 ELSE IF p <= EP + 6 THEN 1
                        ELSE IF p <= Stride + 2 THEN 2 ELSE 3)

PlanOf(f, code) ==
  [code |-> code,
   seg |-> [d \in Ranks |-> [i \in 1 .. Len(code[d]) |-> SegOf(LayerAt(f, i), Local(f, i))]],
   bars |-> [d \in Ranks |-> [i \in 1 .. Len(code[d]) + 1 |->
                                BarsOf(f, LayerAt(f, i), Local(f, i))]]]
-----------------------------------------------------------------------------
(* The invariant. What is pending on the compute stream, and what has been *)
(* issued and executed.                                                    *)
Entries(d) == queue[d][Compute]
Pending(d) == {Entries(d)[k][1] : k \in 1 .. Len(Entries(d))}
Done(plan, d) == {i \in Queued(plan, d) : i < host[d] /\ i \notin Pending(d)}

HostInv(plan) ==
  /\ host \in [Devices -> Nat]
  /\ \A d \in Devices : host[d] \in 1 .. Len(plan.code[d]) + 1

QueueTypes ==
  /\ queue \in [Devices -> [StreamNames -> Seq(Nat \X Nat)]]
  /\ running \in [Devices -> [StreamNames -> BOOLEAN]]
  /\ \A d \in Devices, s \in StreamNames \ {Compute} :
       queue[d][s] = <<>> /\ running[d][s] = FALSE

(* The stream executes in the order of the program.                        *)
QueueOrder(plan) ==
  \A d \in Devices :
    /\ \A k \in 1 .. Len(Entries(d)) :
         Entries(d)[k][1] \in Queued(plan, d) /\ Entries(d)[k][1] < host[d]
    /\ \A k, l \in 1 .. Len(Entries(d)) : k < l => Entries(d)[k][1] < Entries(d)[l][1]
    /\ \A i \in Done(plan, d), k \in 1 .. Len(Entries(d)) : i < Entries(d)[k][1]
    /\ running[d][Compute] = TRUE =>
         Entries(d) # <<>> /\ Entries(d)[1][1] \in Kernels(plan, d)

BarrierInv(plan) ==
  /\ passed \in [Devices -> Nat] /\ inside \subseteq Devices
  /\ \A d \in Devices : passed[d] = Bars(plan, d, host[d])
  /\ \A d \in inside : host[d] \in At(plan, d, "barrier")
  /\ \A d, q \in Devices : passed[q] <= Sync!Entered(d)

(* What hipEventRecord last recorded: the record itself or a later one of  *)
(* the same event, that has been issued.                                   *)
LatestInv(plan) ==
  /\ latest \in [Events -> Nat]
  /\ \A q \in Devices : \A r \in Records(plan, q) : r < host[q] =>
       LET last == latest[Ins(plan, q, r).event]
       IN  /\ last \in Records(plan, q) /\ r <= last /\ last < host[q]
           /\ Ins(plan, q, last).event = Ins(plan, q, r).event

(* A wait on the stream has captured the record it is meant for.           *)
WaitInv(plan) ==
  \A d \in Devices : \A k \in 1 .. Len(Entries(d)) :
    Entries(d)[k][1] \in Waits(plan, d) =>
      \E q \in Devices : Meets(plan, d, Entries(d)[k][1], q, Entries(d)[k][2])

(* What has fired has been executed, and all records of the event before   *)
(* it.                                                                     *)
FiredInv(plan) ==
  /\ fired \in [Events -> Nat]
  /\ \A q \in Devices : \A r \in Records(plan, q) :
       r <= fired[Ins(plan, q, r).event] => r \in Done(plan, q)

(* A wait that is over has seen the record of its own segment executed.    *)
MetInv(plan) ==
  \A d, q \in Devices : \A j \in Waits(plan, d), r \in Records(plan, q) :
    /\ j \in Done(plan, d)
    /\ Ins(plan, q, r).event = Ins(plan, d, j).event
    /\ Seg(plan, q, r) = Seg(plan, d, j)
    => r \in Done(plan, q)

(* A place has the layer of the last of its writers that have been         *)
(* executed: of each rank, no writer after that one has been.              *)
ContentInv(plan) ==
  \A a \in Places : \A q \in Devices : \A w \in Kernels(plan, q) :
    w \in Done(plan, q) /\ a \in Ins(plan, q, w).writes =>
      \E p \in Devices : \E v \in Kernels(plan, p) :
        /\ v \in Done(plan, p) /\ a \in Ins(plan, p, v).writes
        /\ content[a] = Ins(plan, p, v).layer
        /\ p = q => w <= v

Inv(plan) == /\ plan.code = Program[build]
             /\ HostInv(plan)
             /\ QueueTypes
             /\ QueueOrder(plan)
             /\ BarrierInv(plan)
             /\ LatestInv(plan)
             /\ WaitInv(plan)
             /\ FiredInv(plan)
             /\ MetInv(plan)
             /\ ContentInv(plan)
-----------------------------------------------------------------------------
LEMMA PlanTypes ==
  ASSUME NEW plan, Lockstep(plan)
  PROVE  \A d \in Devices :
           /\ Len(plan.code[d]) \in Nat
           /\ \A i \in 1 .. Len(plan.code[d]) :
                /\ Ins(plan, d, i) \in InstructionSet
                /\ Seg(plan, d, i) \in Nat
                /\ Ins(plan, d, i).on = Compute
           /\ \A i \in 1 .. Len(plan.code[d]) + 1 : Bars(plan, d, i) \in Nat
           /\ \A r \in Records(plan, d) : Ins(plan, d, r).event \in Events
<1> SUFFICES ASSUME NEW d \in Devices
             PROVE  /\ Len(plan.code[d]) \in Nat
                    /\ \A i \in 1 .. Len(plan.code[d]) :
                         /\ Ins(plan, d, i) \in InstructionSet
                         /\ Seg(plan, d, i) \in Nat
                         /\ Ins(plan, d, i).on = Compute
                    /\ \A i \in 1 .. Len(plan.code[d]) + 1 : Bars(plan, d, i) \in Nat
                    /\ \A r \in Records(plan, d) : Ins(plan, d, r).event \in Events
  OBVIOUS
<1>1. plan.code[d] \in Seq(InstructionSet)
  BY DEF Lockstep, WellTyped
<1>2. /\ plan.seg[d] \in [1 .. Len(plan.code[d]) -> Nat]
      /\ plan.bars[d] \in [1 .. Len(plan.code[d]) + 1 -> Nat]
      /\ \A i \in 1 .. Len(plan.code[d]) : Ins(plan, d, i).on = Compute
      /\ \A r \in Records(plan, d) : Ins(plan, d, r).event \in Events
  BY DEF Lockstep, WellTyped
<1>3. /\ Len(plan.code[d]) \in Nat
      /\ \A i \in 1 .. Len(plan.code[d]) : Ins(plan, d, i) \in InstructionSet
  BY <1>1 DEF Ins
<1>4. /\ \A i \in 1 .. Len(plan.code[d]) : Seg(plan, d, i) \in Nat
      /\ \A i \in 1 .. Len(plan.code[d]) + 1 : Bars(plan, d, i) \in Nat
  BY <1>2 DEF Seg, Bars
<1> QED
  BY <1>2, <1>3, <1>4

LEMMA KindsOf ==
  ASSUME NEW plan, Lockstep(plan), NEW d \in Devices
  PROVE  /\ Queued(plan, d) \subseteq 1 .. Len(plan.code[d])
         /\ \A i \in 1 .. Len(plan.code[d]) :
              /\ i \in Kernels(plan, d) <=> Ins(plan, d, i).do = "kernel"
              /\ i \in Records(plan, d) <=> Ins(plan, d, i).do = "record"
              /\ i \in Waits(plan, d) <=> Ins(plan, d, i).do = "wait"
              /\ i \in At(plan, d, "barrier") <=> Ins(plan, d, i).do = "barrier"
              /\ i \in Queued(plan, d) <=> Ins(plan, d, i).do \in {"kernel", "record", "wait"}
         /\ Kernels(plan, d) \subseteq Queued(plan, d)
         /\ Records(plan, d) \subseteq Queued(plan, d)
         /\ Waits(plan, d) \subseteq Queued(plan, d)
         /\ At(plan, d, "barrier") \subseteq 1 .. Len(plan.code[d])
  BY DEF Queued, Kernels, Records, Waits, At, Ins

LEMMA CodeIs ==
  ASSUME NEW plan, Inv(plan), NEW d \in Devices
  PROVE  /\ Code(d) = plan.code[d]
         /\ \A i : Code(d)[i] = Ins(plan, d, i)
         /\ Instructions(d) = 1 .. Len(plan.code[d])
         /\ Current(d) = Ins(plan, d, host[d])
  BY DEF Inv, Code, Ins, Instructions, Current

-----------------------------------------------------------------------------
(* What a step does to the entries of the streams.                         *)
LEMMA Appended ==
  ASSUME QueueTypes, Compute \in StreamNames, NEW d \in Devices, NEW n \in Nat, NEW c \in Nat,
         queue' = [queue EXCEPT ![d][Compute] = Append(@, <<n, c>>)]
  PROVE  /\ queue' \in [Devices -> [StreamNames -> Seq(Nat \X Nat)]]
         /\ \A q \in Devices, s \in StreamNames \ {Compute} : queue'[q][s] = queue[q][s]
         /\ \A q \in Devices \ {d} : Entries(q)' = Entries(q)
         /\ Len(Entries(d)) \in Nat
         /\ Len(Entries(d)') = Len(Entries(d)) + 1
         /\ \A k \in 1 .. Len(Entries(d)) : Entries(d)'[k] = Entries(d)[k]
         /\ Entries(d)'[Len(Entries(d)) + 1] = <<n, c>>
         /\ Pending(d)' = Pending(d) \cup {n}
         /\ \A q \in Devices \ {d} : Pending(q)' = Pending(q)
<1> DEFINE e == Entries(d)
<1>1. e \in Seq(Nat \X Nat)
  BY DEF QueueTypes, Entries
<1>2. Entries(d)' = Append(e, <<n, c>>)
  BY DEF QueueTypes, Entries
<1>3. \A q \in Devices \ {d} : Entries(q)' = Entries(q)
  BY DEF QueueTypes, Entries
<1>4. \A q \in Devices, s \in StreamNames \ {Compute} : queue'[q][s] = queue[q][s]
  BY DEF QueueTypes
<1>5. queue' \in [Devices -> [StreamNames -> Seq(Nat \X Nat)]]
  <2>1. Append(e, <<n, c>>) \in Seq(Nat \X Nat)
    BY <1>1
  <2>2. queue' = [queue EXCEPT ![d] = [@ EXCEPT ![Compute] = Append(e, <<n, c>>)]]
    BY DEF Entries
  <2> HIDE DEF e
  <2> QED
    BY <2>1, <2>2 DEF QueueTypes
<1> HIDE DEF e
<1>6. /\ Len(e) \in Nat /\ Len(Entries(d)') = Len(e) + 1
      /\ \A k \in 1 .. Len(e) : Entries(d)'[k] = e[k]
      /\ Entries(d)'[Len(e) + 1] = <<n, c>>
  BY <1>1, <1>2
<1>7. Pending(d)' = Pending(d) \cup {n}
  <2>1. Pending(d)' = {Entries(d)'[k][1] : k \in 1 .. Len(e) + 1}
    BY <1>6 DEF Pending
  <2>2. Pending(d) = {e[k][1] : k \in 1 .. Len(e)}
    BY DEF Pending, e
  <2>3. <<n, c>>[1] = n
    OBVIOUS
  <2> QED
    BY <1>6, <2>1, <2>2, <2>3
<1>8. \A q \in Devices \ {d} : Pending(q)' = Pending(q)
  BY <1>3 DEF Pending
<1> QED
  BY <1>3, <1>4, <1>5, <1>6, <1>7, <1>8 DEF e

LEMMA Popped ==
  ASSUME QueueTypes, Compute \in StreamNames, NEW d \in Devices, Entries(d) # <<>>,
         queue' = [queue EXCEPT ![d][Compute] = Tail(@)]
  PROVE  /\ queue' \in [Devices -> [StreamNames -> Seq(Nat \X Nat)]]
         /\ \A q \in Devices, s \in StreamNames \ {Compute} : queue'[q][s] = queue[q][s]
         /\ \A q \in Devices \ {d} : Entries(q)' = Entries(q) /\ Pending(q)' = Pending(q)
         /\ Len(Entries(d)) \in Nat \ {0}
         /\ Len(Entries(d)') = Len(Entries(d)) - 1
         /\ \A k \in 1 .. Len(Entries(d)) - 1 : Entries(d)'[k] = Entries(d)[k + 1]
<1> DEFINE e == Entries(d)
<1>1. e \in Seq(Nat \X Nat) /\ e # <<>>
  BY DEF QueueTypes, Entries
<1>2. Entries(d)' = Tail(e)
  BY DEF QueueTypes, Entries
<1>3. \A q \in Devices \ {d} : Entries(q)' = Entries(q)
  BY DEF QueueTypes, Entries
<1>4. \A q \in Devices, s \in StreamNames \ {Compute} : queue'[q][s] = queue[q][s]
  BY DEF QueueTypes
<1>5. queue' \in [Devices -> [StreamNames -> Seq(Nat \X Nat)]]
  <2> DEFINE t == Tail(e)
  <2>1. t \in Seq(Nat \X Nat)
    BY <1>1
  <2> DEFINE row == [queue[d] EXCEPT ![Compute] = t]
  <2>2. queue' = [queue EXCEPT ![d] = row]
    BY DEF Entries
  <2> HIDE DEF t
  <2>3. row \in [StreamNames -> Seq(Nat \X Nat)]
    BY <2>1 DEF QueueTypes
  <2> HIDE DEF row
  <2> QED
    BY <2>2, <2>3 DEF QueueTypes
<1> HIDE DEF e
<1>6. /\ Len(e) \in Nat \ {0} /\ Len(Entries(d)') = Len(e) - 1
      /\ \A k \in 1 .. Len(e) - 1 : Entries(d)'[k] = e[k + 1]
  BY <1>1, <1>2
<1>7. \A q \in Devices \ {d} : Pending(q)' = Pending(q)
  BY <1>3 DEF Pending
<1> QED
  BY <1>3, <1>4, <1>5, <1>6, <1>7 DEF e

(* The entries, seen as pending instructions. *)
LEMMA PendingOrder ==
  ASSUME NEW plan, Lockstep(plan), Inv(plan), NEW d \in Devices
  PROVE  /\ \A i \in Done(plan, d), k \in Pending(d) : i < k
         /\ \A k \in Pending(d) : k \in Queued(plan, d) /\ k < host[d]
         /\ Entries(d) # <<>> =>
              /\ Len(Entries(d)) \in Nat \ {0}
              /\ Entries(d)[1] \in Nat \X Nat
              /\ Entries(d)[1][1] \in Pending(d)
              /\ \A k \in Pending(d) : Entries(d)[1][1] <= k
<1>1. Compute \in StreamNames
  BY DEF Lockstep, WellTyped
<1>2. Entries(d) \in Seq(Nat \X Nat)
  BY <1>1 DEF Inv, QueueTypes, Entries
<1>3. Pending(d) = {Entries(d)[k][1] : k \in 1 .. Len(Entries(d))}
  BY DEF Pending
<1>4. /\ \A k \in 1 .. Len(Entries(d)) :
           Entries(d)[k][1] \in Queued(plan, d) /\ Entries(d)[k][1] < host[d]
      /\ \A k, l \in 1 .. Len(Entries(d)) : k < l => Entries(d)[k][1] < Entries(d)[l][1]
      /\ \A i \in Done(plan, d), k \in 1 .. Len(Entries(d)) : i < Entries(d)[k][1]
  BY DEF Inv, QueueOrder
<1>5. \A k \in 1 .. Len(Entries(d)) : Entries(d)[k] \in Nat \X Nat /\ Entries(d)[k][1] \in Nat
  BY <1>2
<1>6. ASSUME Entries(d) # <<>>
      PROVE  /\ Len(Entries(d)) \in Nat \ {0}
             /\ Entries(d)[1] \in Nat \X Nat
             /\ Entries(d)[1][1] \in Pending(d)
             /\ \A k \in Pending(d) : Entries(d)[1][1] <= k
  <2>1. Len(Entries(d)) \in Nat \ {0}
    BY <1>2, <1>6
  <2>2. ASSUME NEW k \in 1 .. Len(Entries(d)) PROVE Entries(d)[1][1] <= Entries(d)[k][1]
    <3>1. k = 1 \/ 1 < k
      BY <2>1
    <3>2. Entries(d)[1][1] \in Nat /\ Entries(d)[k][1] \in Nat
      BY <1>5, <2>1
    <3> QED
      BY <1>4, <2>1, <3>1, <3>2
  <2> QED
    BY <1>3, <1>5, <2>1, <2>2
<1>7. \A i \in Done(plan, d), k \in Pending(d) : i < k
  BY <1>3, <1>4
<1>8. \A k \in Pending(d) : k \in Queued(plan, d) /\ k < host[d]
  BY <1>3, <1>4
<1> QED
  BY <1>6, <1>7, <1>8

(* What comes before an executed instruction has been executed.            *)
LEMMA DoneBefore ==
  ASSUME NEW plan, Lockstep(plan), Inv(plan), NEW d \in Devices,
         NEW i \in Done(plan, d), NEW j \in Queued(plan, d), j <= i
  PROVE  j \in Done(plan, d)
<1>1. i < host[d] /\ i \in Nat /\ j \in Nat /\ host[d] \in Nat
  BY KindsOf DEF Done, Inv, HostInv
<1>2. j \notin Pending(d)
  BY PendingOrder, <1>1
<1> QED
  BY <1>1, <1>2 DEF Done

(* ... and so has what comes before the entry at the head.                 *)
LEMMA DoneBeforeHead ==
  ASSUME NEW plan, Lockstep(plan), Inv(plan), NEW d \in Devices, Entries(d) # <<>>,
         NEW j \in Queued(plan, d), j < Entries(d)[1][1]
  PROVE  j \in Done(plan, d)
<1>1. Entries(d)[1][1] \in Nat /\ j \in Nat /\ host[d] \in Nat
  BY PendingOrder, KindsOf DEF Inv, HostInv
<1>2. Entries(d)[1][1] < host[d]
  BY PendingOrder
<1>3. j \notin Pending(d)
  BY PendingOrder, <1>1
<1> QED
  BY <1>1, <1>2, <1>3 DEF Done

-----------------------------------------------------------------------------
(* The invariant says that the exchange is ordered.                        *)

(* A kernel of q whose waits are over is in no later segment than an       *)
(* instruction of d that is still pending.                                 *)
LEMMA NotAhead ==
  ASSUME NEW plan, Lockstep(plan), Inv(plan), NEW d \in Devices, NEW q \in Devices, d # q,
         NEW i \in Pending(d), NEW k \in Kernels(plan, q),
         \A j \in Waits(plan, q) : j < k => j \in Done(plan, q)
  PROVE  Seg(plan, q, k) <= Seg(plan, d, i)
<1>1. i \in Queued(plan, d) /\ i \in 1 .. Len(plan.code[d]) /\ k \in 1 .. Len(plan.code[q])
  BY PendingOrder, KindsOf
<1>2. Seg(plan, q, k) \in Nat /\ Seg(plan, d, i) \in Nat
  BY <1>1, PlanTypes
<1>3. CASE Seg(plan, q, k) = 0
  BY <1>2, <1>3
<1>4. CASE Seg(plan, q, k) > 0
  <2>1. PICK j \in Waits(plan, q), r \in Records(plan, d) :
              /\ j < k /\ Seg(plan, q, j) = Seg(plan, q, k)
              /\ Seg(plan, d, r) = Seg(plan, q, k)
              /\ Ins(plan, d, r).event = Ins(plan, q, j).event
    BY <1>4 DEF Lockstep, KernelsWait
  <2>2. r \in Done(plan, d)
    BY <2>1 DEF Inv, MetInv
  <2>3. r < i /\ r \in Nat /\ i \in Nat
    BY <1>1, <2>2, PendingOrder, KindsOf
  <2>4. Seg(plan, d, r) <= Seg(plan, d, i)
    BY <1>1, <2>3 DEF Lockstep, RecordsSeparate
  <2> QED
    BY <2>1, <2>4
<1> QED
  BY <1>2, <1>3, <1>4

LEMMA ExecutingIs ==
  ASSUME NEW plan, Lockstep(plan), Inv(plan), NEW x \in Executing
  PROVE  /\ x[1] \in Devices /\ x[2] = Compute /\ x = <<x[1], Compute>>
         /\ Entries(x[1]) # <<>>
         /\ Entries(x[1])[1][1] \in Kernels(plan, x[1])
         /\ HeadOf(x[1], x[2]) = Ins(plan, x[1], Entries(x[1])[1][1])
         /\ \A j \in Queued(plan, x[1]) :
              j < Entries(x[1])[1][1] => j \in Done(plan, x[1])
<1>1. x \in Devices \X StreamNames /\ running[x[1]][x[2]]
  BY DEF Executing
<1>2. running[x[1]][x[2]] = TRUE
  BY <1>1 DEF Inv, QueueTypes
<1>3. x[1] \in Devices /\ x[2] = Compute /\ x = <<x[1], Compute>>
  BY <1>1, <1>2 DEF Inv, QueueTypes
<1>4. Entries(x[1]) # <<>> /\ Entries(x[1])[1][1] \in Kernels(plan, x[1])
  BY <1>2, <1>3 DEF Inv, QueueOrder
<1>5. HeadOf(x[1], x[2]) = Ins(plan, x[1], Entries(x[1])[1][1])
  BY <1>3, <1>4, CodeIs DEF HeadOf, Entries
<1>6. \A j \in Queued(plan, x[1]) : j < Entries(x[1])[1][1] => j \in Done(plan, x[1])
  BY <1>3, <1>4, DoneBeforeHead
<1> QED
  BY <1>3, <1>4, <1>5, <1>6

LEMMA SameSegment ==
  ASSUME NEW plan, Lockstep(plan), Inv(plan), NEW x \in Executing, NEW y \in Executing,
         x[1] # y[1]
  PROVE  Seg(plan, x[1], Entries(x[1])[1][1]) = Seg(plan, y[1], Entries(y[1])[1][1])
<1> DEFINE d == x[1]
           q == y[1]
           i == Entries(x[1])[1][1]
           k == Entries(y[1])[1][1]
<1>1. d \in Devices /\ q \in Devices /\ i \in Kernels(plan, d) /\ k \in Kernels(plan, q)
  BY ExecutingIs
<1>2. i \in Pending(d) /\ k \in Pending(q)
  BY ExecutingIs, PendingOrder
<1>3. /\ \A j \in Waits(plan, d) : j < i => j \in Done(plan, d)
      /\ \A j \in Waits(plan, q) : j < k => j \in Done(plan, q)
  BY <1>1, ExecutingIs, KindsOf
<1>4. Seg(plan, q, k) \in Nat /\ Seg(plan, d, i) \in Nat
  BY <1>1, KindsOf, PlanTypes
<1> HIDE DEF d, q, i, k
<1>5. Seg(plan, q, k) <= Seg(plan, d, i) /\ Seg(plan, d, i) <= Seg(plan, q, k)
  <2>1. d # q
    BY DEF d, q
  <2> QED
    BY <1>1, <1>2, <1>3, <2>1, NotAhead
<1> QED
  BY <1>4, <1>5 DEF d, q, i, k

LEMMA InvNoRace ==
  ASSUME NEW plan, Lockstep(plan), Inv(plan)
  PROVE  NoRace
<1> SUFFICES ASSUME NEW x \in Executing, NEW y \in Executing, x # y
             PROVE  HeadOf(x[1], x[2]).writes
                      \cap (HeadOf(y[1], y[2]).reads \cup HeadOf(y[1], y[2]).writes) = {}
  BY DEF NoRace
<1>1. x[1] # y[1]
  <2>1. x = <<x[1], Compute>> /\ y = <<y[1], Compute>>
    BY ExecutingIs
  <2> QED
    BY <2>1
<1>2. Seg(plan, x[1], Entries(x[1])[1][1]) = Seg(plan, y[1], Entries(y[1])[1][1])
  BY <1>1, SameSegment
<1>3. /\ x[1] \in Devices /\ y[1] \in Devices
      /\ Entries(x[1])[1][1] \in Kernels(plan, x[1])
      /\ Entries(y[1])[1][1] \in Kernels(plan, y[1])
      /\ HeadOf(x[1], x[2]) = Ins(plan, x[1], Entries(x[1])[1][1])
      /\ HeadOf(y[1], y[2]) = Ins(plan, y[1], Entries(y[1])[1][1])
  BY ExecutingIs
<1> QED
  BY <1>1, <1>2, <1>3 DEF Lockstep, Disjoint

LEMMA InvFreshReads ==
  ASSUME NEW plan, Lockstep(plan), Inv(plan)
  PROVE  FreshReads
<1> SUFFICES ASSUME NEW x \in Executing, NEW a \in HeadOf(x[1], x[2]).reads
             PROVE  content[a] = HeadOf(x[1], x[2]).layer
  BY DEF FreshReads
<1> DEFINE d == x[1]
           i == Entries(x[1])[1][1]
<1>1. /\ d \in Devices /\ i \in Kernels(plan, d) /\ HeadOf(x[1], x[2]) = Ins(plan, d, i)
      /\ \A j \in Queued(plan, d) : j < i => j \in Done(plan, d)
  BY ExecutingIs
<1>2. i \in Pending(d)
  BY ExecutingIs, PendingOrder
<1> HIDE DEF d, i
<1>3. i \in 1 .. Len(plan.code[d]) /\ Seg(plan, d, i) \in Nat
  BY <1>1, KindsOf, PlanTypes
<1>4. PICK q \in Devices : \E w \in Kernels(plan, q) :
        /\ a \in Ins(plan, q, w).writes
        /\ Ins(plan, q, w).layer = Ins(plan, d, i).layer
        /\ IF q = d THEN w < i ELSE Seg(plan, q, w) < Seg(plan, d, i)
        /\ \A p \in Devices : \A v \in Kernels(plan, p) : a \in Ins(plan, p, v).writes =>
             /\ p = q
             /\ \/ v <= w
                \/ Ins(plan, p, v).layer = Ins(plan, d, i).layer
                \/ IF q = d THEN i <= v ELSE Seg(plan, d, i) < Seg(plan, p, v)
  BY <1>1 DEF Lockstep, Supplied
<1>5. PICK w \in Kernels(plan, q) :
        /\ a \in Ins(plan, q, w).writes
        /\ Ins(plan, q, w).layer = Ins(plan, d, i).layer
        /\ IF q = d THEN w < i ELSE Seg(plan, q, w) < Seg(plan, d, i)
        /\ \A p \in Devices : \A v \in Kernels(plan, p) : a \in Ins(plan, p, v).writes =>
             /\ p = q
             /\ \/ v <= w
                \/ Ins(plan, p, v).layer = Ins(plan, d, i).layer
                \/ IF q = d THEN i <= v ELSE Seg(plan, d, i) < Seg(plan, p, v)
  BY <1>4
<1>6. w \in Queued(plan, q) /\ w \in 1 .. Len(plan.code[q]) /\ a \in Places
  <2>1. Ins(plan, q, w) \in InstructionSet
    BY PlanTypes, KindsOf
  <2> QED
    BY <1>5, <2>1, KindsOf DEF InstructionSet
<1>7. w \in Done(plan, q)
  <2>1. CASE q = d
    BY <1>1, <1>5, <1>6, <2>1
  <2>2. CASE q # d
    <3>1. Seg(plan, q, w) < Seg(plan, d, i) /\ Seg(plan, q, w) \in Nat
      BY <1>5, <1>6, <2>2, PlanTypes
    <3>2. PICK j \in Waits(plan, d), r \in Records(plan, q) :
              /\ j < i /\ Seg(plan, d, j) = Seg(plan, d, i)
              /\ Seg(plan, q, r) = Seg(plan, d, i)
              /\ Ins(plan, q, r).event = Ins(plan, d, j).event
      BY <1>1, <1>3, <2>2, <3>1 DEF Lockstep, KernelsWait
    <3>3. j \in Done(plan, d)
      BY <1>1, <3>2, KindsOf
    <3>4. r \in Done(plan, q)
      BY <3>2, <3>3, <1>1 DEF Inv, MetInv
    <3>5. ~(r <= w) /\ r \in Nat /\ w \in Nat
      BY <1>3, <1>6, <3>1, <3>2, KindsOf DEF Lockstep, RecordsSeparate
    <3> QED
      BY <1>6, <3>4, <3>5, DoneBefore
  <2> QED
    BY <2>1, <2>2
<1>8. PICK p \in Devices : \E v \in Kernels(plan, p) :
        /\ v \in Done(plan, p) /\ a \in Ins(plan, p, v).writes
        /\ content[a] = Ins(plan, p, v).layer
        /\ p = q => w <= v
  BY <1>5, <1>6, <1>7 DEF Inv, ContentInv
<1>9. PICK v \in Kernels(plan, p) :
        /\ v \in Done(plan, p) /\ a \in Ins(plan, p, v).writes
        /\ content[a] = Ins(plan, p, v).layer
        /\ p = q => w <= v
  BY <1>8
<1>10. p = q /\ v \in Queued(plan, q) /\ v \in Nat /\ w \in Nat /\ v \in 1 .. Len(plan.code[q])
  BY <1>5, <1>6, <1>9, KindsOf
<1>11. ~(IF q = d THEN i <= v ELSE Seg(plan, d, i) < Seg(plan, p, v))
  <2>1. CASE q = d
    <3>1. v < i
      BY <1>2, <1>9, <1>10, <2>1, PendingOrder
    <3> QED
      BY <1>3, <1>10, <2>1, <3>1
  <2>2. CASE q # d
    <3>1. \A j \in Waits(plan, q) : j < v => j \in Done(plan, q)
      BY <1>9, <1>10, DoneBefore, KindsOf
    <3>2. Seg(plan, q, v) <= Seg(plan, d, i)
      BY <1>1, <1>2, <1>9, <1>10, <2>2, <3>1, NotAhead
    <3>3. Seg(plan, q, v) \in Nat
      BY <1>10, PlanTypes
    <3> QED
      BY <1>3, <1>10, <2>2, <3>2, <3>3
  <2> QED
    BY <2>1, <2>2
<1>12. v <= w \/ Ins(plan, p, v).layer = Ins(plan, d, i).layer
  BY <1>5, <1>9, <1>11
<1> QED
  <2>1. CASE v <= w
    BY <1>1, <1>5, <1>9, <1>10, <2>1
  <2>2. CASE Ins(plan, p, v).layer = Ins(plan, d, i).layer
    BY <1>1, <1>9, <2>2
  <2> QED
    BY <1>12, <2>1, <2>2

LEMMA InvWaitsMatch ==
  ASSUME NEW plan, Lockstep(plan), Inv(plan)
  PROVE  WaitsMatch
<1> SUFFICES ASSUME NEW d \in Devices, NEW s \in StreamNames, queue[d][s] # <<>>,
                    NEW entry, entry = queue[d][s][Len(queue[d][s])],
                    Code(d)[entry[1]].do = "wait"
             PROVE  \E r \in Devices :
                      /\ entry[2] \in Instructions(r)
                      /\ Code(r)[entry[2]].do = "record"
                      /\ Code(r)[entry[2]].event = Code(d)[entry[1]].event
                      /\ Code(r)[entry[2]].layer = Code(d)[entry[1]].layer
  BY DEF WaitsMatch
<1>1. s = Compute /\ queue[d][s] = Entries(d)
  BY DEF Inv, QueueTypes, Entries
<1>2. Len(Entries(d)) \in 1 .. Len(Entries(d))
  BY <1>1, PendingOrder
<1>3. entry = Entries(d)[Len(Entries(d))]
  BY <1>1
<1>4. entry[1] \in Queued(plan, d)
  BY <1>2, <1>3 DEF Inv, QueueOrder
<1>5. entry[1] \in Waits(plan, d)
  BY <1>4, KindsOf, CodeIs
<1>6. PICK q \in Devices : Meets(plan, d, entry[1], q, entry[2])
  BY <1>2, <1>3, <1>5 DEF Inv, WaitInv
<1>7. /\ entry[2] \in Records(plan, q)
      /\ Ins(plan, q, entry[2]).event = Ins(plan, d, entry[1]).event
      /\ Ins(plan, q, entry[2]).layer = Ins(plan, d, entry[1]).layer
  BY <1>6 DEF Meets
<1>8. entry[2] \in 1 .. Len(plan.code[q]) /\ Ins(plan, q, entry[2]).do = "record"
  BY <1>7, KindsOf
<1>9. /\ Code(q)[entry[2]] = Ins(plan, q, entry[2])
      /\ Code(d)[entry[1]] = Ins(plan, d, entry[1])
      /\ Instructions(q) = 1 .. Len(plan.code[q])
  BY CodeIs
<1> QED
  BY <1>7, <1>8, <1>9
-----------------------------------------------------------------------------
(* The host threads' steps.                                                *)
LEMMA Issued ==
  ASSUME NEW plan, Lockstep(plan), Inv(plan), NEW d \in Devices, NEW c \in Nat,
         host[d] \in Queued(plan, d),
         Enqueue(d, c), Proceed(d), UNCHANGED running
  PROVE  /\ HostInv(plan)' /\ QueueTypes' /\ QueueOrder(plan)'
         /\ \A q \in Devices : Done(plan, q)' = Done(plan, q)
<1> DEFINE n == host[d]
           e == Entries(d)
<1>1. n \in 1 .. Len(plan.code[d]) /\ n \in Nat /\ Len(plan.code[d]) \in Nat
  BY KindsOf, PlanTypes
<1>2. Compute \in StreamNames /\ QueueTypes /\ HostInv(plan) /\ QueueOrder(plan)
  BY DEF Lockstep, WellTyped, Inv
<1>3. queue' = [queue EXCEPT ![d][Compute] = Append(@, <<n, c>>)]
  <2>1. Current(d).on = Compute
    BY <1>1, PlanTypes, CodeIs
  <2> QED
    BY <2>1 DEF Enqueue
<1>4. host' = [host EXCEPT ![d] = n + 1]
  BY DEF Proceed
<1>5. /\ queue' \in [Devices -> [StreamNames -> Seq(Nat \X Nat)]]
      /\ \A q \in Devices, s \in StreamNames \ {Compute} : queue'[q][s] = queue[q][s]
      /\ \A q \in Devices \ {d} : Entries(q)' = Entries(q)
      /\ Len(e) \in Nat
      /\ Len(Entries(d)') = Len(e) + 1
      /\ \A k \in 1 .. Len(e) : Entries(d)'[k] = e[k]
      /\ Entries(d)'[Len(e) + 1] = <<n, c>>
      /\ Pending(d)' = Pending(d) \cup {n}
      /\ \A q \in Devices \ {d} : Pending(q)' = Pending(q)
  BY <1>1, <1>2, <1>3, Appended
<1>6. HostInv(plan)'
  BY <1>1, <1>2, <1>4 DEF HostInv
<1>7. QueueTypes'
  BY <1>2, <1>5 DEF QueueTypes
<1>8. ASSUME NEW q \in Devices PROVE Done(plan, q)' = Done(plan, q)
  <2>1. CASE q = d
    <3>1. Pending(d)' = Pending(d) \cup {n} /\ host'[d] = n + 1
      BY <1>2, <1>4, <1>5 DEF HostInv
    <3>2. Queued(plan, d) \subseteq Nat
      BY KindsOf
    <3> QED
      BY <1>1, <2>1, <3>1, <3>2 DEF Done
  <2>2. CASE q # d
    BY <1>2, <1>4, <1>5, <2>2 DEF Done, HostInv
  <2> QED
    BY <2>1, <2>2
<1>9. QueueOrder(plan)'
  <2> SUFFICES ASSUME NEW q \in Devices
               PROVE  /\ \A k \in 1 .. Len(Entries(q)') :
                           Entries(q)'[k][1] \in Queued(plan, q) /\ Entries(q)'[k][1] < host'[q]
                      /\ \A k, l \in 1 .. Len(Entries(q)') :
                           k < l => Entries(q)'[k][1] < Entries(q)'[l][1]
                      /\ \A i \in Done(plan, q)', k \in 1 .. Len(Entries(q)') :
                           i < Entries(q)'[k][1]
                      /\ running'[q][Compute] = TRUE =>
                           Entries(q)' # <<>> /\ Entries(q)'[1][1] \in Kernels(plan, q)
    BY DEF QueueOrder
  <2>1. CASE q # d
    BY <1>2, <1>4, <1>5, <1>8, <2>1 DEF QueueOrder, HostInv
  <2>2. CASE q = d
    <3>1. /\ \A k \in 1 .. Len(e) : e[k][1] \in Queued(plan, d) /\ e[k][1] < n
          /\ \A k, l \in 1 .. Len(e) : k < l => e[k][1] < e[l][1]
          /\ \A i \in Done(plan, d), k \in 1 .. Len(e) : i < e[k][1]
          /\ running[d][Compute] = TRUE => e # <<>> /\ e[1][1] \in Kernels(plan, d)
      BY <1>2 DEF QueueOrder
    <3>2. host'[d] = n + 1
      BY <1>2, <1>4 DEF HostInv
    <3>3. \A i \in Done(plan, d) : i < n
      BY DEF Done
    <3>4. \A k \in 1 .. Len(e) : e[k][1] \in Nat
      BY <3>1, KindsOf
    <3>5. <<n, c>>[1] = n
      OBVIOUS
    <3>6. \A k \in 1 .. Len(e) + 1 :
            \/ k \in 1 .. Len(e) /\ Entries(d)'[k] = e[k]
            \/ k = Len(e) + 1 /\ Entries(d)'[k][1] = n
      BY <1>5, <3>5
    <3>7. \A k \in 1 .. Len(e) + 1 :
            Entries(d)'[k][1] \in Queued(plan, d) /\ Entries(d)'[k][1] < n + 1
      BY <1>1, <3>1, <3>4, <3>6
    <3>8. ASSUME NEW k \in 1 .. Len(e) + 1, NEW l \in 1 .. Len(e) + 1, k < l
          PROVE  Entries(d)'[k][1] < Entries(d)'[l][1]
      <4>1. k \in 1 .. Len(e) /\ Entries(d)'[k] = e[k]
        BY <1>5, <3>8
      <4>2. CASE l \in 1 .. Len(e)
        BY <1>5, <3>1, <3>8, <4>1, <4>2
      <4>3. CASE l = Len(e) + 1
        BY <3>1, <3>6, <4>1, <4>3, <1>5
      <4> QED
        BY <1>5, <4>2, <4>3
    <3>9. \A i \in Done(plan, d), k \in 1 .. Len(e) + 1 : i < Entries(d)'[k][1]
      BY <3>1, <3>3, <3>6
    <3>10. e \in Seq(Nat \X Nat) /\ Entries(d)' \in Seq(Nat \X Nat)
      BY <1>2, <1>7 DEF QueueTypes, Entries
    <3>11. running'[d][Compute] = TRUE =>
             Entries(d)' # <<>> /\ Entries(d)'[1][1] \in Kernels(plan, d)
      <4> SUFFICES ASSUME running'[d][Compute] = TRUE
                   PROVE  Entries(d)' # <<>> /\ Entries(d)'[1][1] \in Kernels(plan, d)
        OBVIOUS
      <4>1. e # <<>> /\ e[1][1] \in Kernels(plan, d)
        BY <3>1
      <4>2. 1 \in 1 .. Len(e) /\ Entries(d)' # <<>>
        <5> HIDE DEF e
        <5> QED
          BY <1>5, <3>10, <4>1
      <4> QED
        BY <1>5, <4>1, <4>2
    <3> QED
      BY <1>5, <1>8, <2>2, <3>2, <3>7, <3>8, <3>9, <3>11
  <2> QED
    BY <2>1, <2>2
<1> QED
  BY <1>6, <1>7, <1>8, <1>9

LEMMA Skipped ==
  ASSUME NEW plan, Lockstep(plan), Inv(plan), NEW d \in Devices,
         host[d] \in 1 .. Len(plan.code[d]), host[d] \notin Queued(plan, d),
         Proceed(d), UNCHANGED <<queue, running>>
  PROVE  /\ HostInv(plan)' /\ QueueTypes' /\ QueueOrder(plan)'
         /\ \A q \in Devices : Done(plan, q)' = Done(plan, q)
<1>1. HostInv(plan) /\ QueueTypes /\ QueueOrder(plan)
  BY DEF Inv
<1>2. host' = [host EXCEPT ![d] = host[d] + 1] /\ host[d] \in Nat
  BY <1>1 DEF Proceed, HostInv
<1>3. HostInv(plan)'
  BY <1>1, <1>2, PlanTypes DEF HostInv
<1>4. QueueTypes'
  BY <1>1 DEF QueueTypes
<1>5. \A q \in Devices : Entries(q)' = Entries(q) /\ Pending(q)' = Pending(q)
  BY DEF Entries, Pending
<1>6. ASSUME NEW q \in Devices PROVE Done(plan, q)' = Done(plan, q)
  <2>1. \A i \in Queued(plan, q) : i < host'[q] <=> i < host[q]
    <3>1. Queued(plan, q) \subseteq Nat
      BY KindsOf
    <3>2. CASE q = d
      <4>1. host'[d] = host[d] + 1
        BY <1>1, <1>2 DEF HostInv
      <4> QED
        BY <1>2, <3>1, <3>2, <4>1
    <3>3. CASE q # d
      BY <1>1, <1>2, <3>3 DEF HostInv
    <3> QED
      BY <3>2, <3>3
  <2> QED
    BY <1>5, <2>1 DEF Done
<1>7. QueueOrder(plan)'
  <2>1. \A q \in Devices : \A i \in Queued(plan, q) : i < host[q] => i < host'[q]
    <3>1. \A q \in Devices : Queued(plan, q) \subseteq Nat
      BY KindsOf
    <3> QED
      BY <1>1, <1>2, <3>1 DEF HostInv
  <2> QED
    BY <1>1, <1>5, <1>6, <2>1 DEF QueueOrder
<1> QED
  BY <1>3, <1>4, <1>6, <1>7

(* What does not execute anything keeps what is said about the executed.   *)
LEMMA Kept ==
  ASSUME NEW plan, Inv(plan), \A q \in Devices : Done(plan, q)' = Done(plan, q),
         UNCHANGED <<fired, content>>
  PROVE  FiredInv(plan)' /\ MetInv(plan)' /\ ContentInv(plan)'
<1>1. FiredInv(plan)'
  BY DEF Inv, FiredInv
<1>2. MetInv(plan)'
  BY DEF Inv, MetInv
<1>3. ContentInv(plan)'
  BY DEF Inv, ContentInv
<1> QED
  BY <1>1, <1>2, <1>3

LEMMA BarrierKept ==
  ASSUME NEW plan, Lockstep(plan), Inv(plan), NEW d \in Devices,
         host[d] \in 1 .. Len(plan.code[d]), host[d] \notin At(plan, d, "barrier"),
         Proceed(d), UNCHANGED <<passed, inside>>
  PROVE  BarrierInv(plan)'
<1>1. BarrierInv(plan) /\ host \in [Devices -> Nat]
  BY DEF Inv, HostInv
<1>2. host' = [host EXCEPT ![d] = host[d] + 1]
  BY DEF Proceed
<1>3. d \notin inside
  BY <1>1 DEF BarrierInv
<1>4. Bars(plan, d, host[d] + 1) = Bars(plan, d, host[d])
  <2>1. Ins(plan, d, host[d]).do # "barrier"
    BY KindsOf
  <2>2. Bars(plan, d, host[d] + 1) = Bars(plan, d, host[d]) + 0
    BY <2>1 DEF Lockstep, CountsBarriers
  <2>3. Bars(plan, d, host[d]) \in Nat
    BY PlanTypes
  <2> QED
    BY <2>2, <2>3
<1>5. \A q \in Devices : passed[q] = Bars(plan, q, host'[q])
  BY <1>1, <1>2, <1>4 DEF BarrierInv
<1>6. \A q \in inside : host'[q] \in At(plan, q, "barrier")
  BY <1>1, <1>2, <1>3 DEF BarrierInv
<1>7. \A q, p \in Devices : passed[p] <= Sync!Entered(q)
  BY <1>1 DEF BarrierInv
<1>8. \A q \in Devices : Sync!Entered(q)' = Sync!Entered(q)
  BY DEF Sync!Entered
<1> QED
  BY <1>1, <1>5, <1>6, <1>7, <1>8 DEF BarrierInv

LEMMA LatestKept ==
  ASSUME NEW plan, Lockstep(plan), Inv(plan), NEW d \in Devices,
         host[d] \in 1 .. Len(plan.code[d]), host[d] \notin Records(plan, d),
         Proceed(d), UNCHANGED latest
  PROVE  LatestInv(plan)'
<1>1. LatestInv(plan) /\ host \in [Devices -> Nat]
  BY DEF Inv, HostInv
<1>2. host' = [host EXCEPT ![d] = host[d] + 1]
  BY DEF Proceed
<1>3. \A q \in Devices : Records(plan, q) \subseteq Nat
  BY KindsOf
<1>4. \A q \in Devices : \A r \in Records(plan, q) : r < host'[q] <=> r < host[q]
  BY <1>1, <1>2, <1>3
<1> QED
  BY <1>1, <1>4 DEF LatestInv

LEMMA WaitKept ==
  ASSUME NEW plan, Inv(plan), UNCHANGED queue
  PROVE  WaitInv(plan)'
  BY DEF Inv, WaitInv, Entries

(* A kernel or a record leaves no new wait. *)
LEMMA WaitKeptIssued ==
  ASSUME NEW plan, Lockstep(plan), Inv(plan), NEW d \in Devices, NEW c \in Nat,
         host[d] \in Queued(plan, d), Enqueue(d, c),
         host[d] \in Waits(plan, d) => \E q \in Devices : Meets(plan, d, host[d], q, c)
  PROVE  WaitInv(plan)'
<1> DEFINE n == host[d]
           e == Entries(d)
<1>1. n \in 1 .. Len(plan.code[d]) /\ n \in Nat
  BY KindsOf
<1>2. Compute \in StreamNames /\ QueueTypes /\ WaitInv(plan)
  BY DEF Lockstep, WellTyped, Inv
<1>3. queue' = [queue EXCEPT ![d][Compute] = Append(@, <<n, c>>)]
  <2>1. Current(d).on = Compute
    BY <1>1, PlanTypes, CodeIs
  <2> QED
    BY <2>1 DEF Enqueue
<1>4. /\ queue' \in [Devices -> [StreamNames -> Seq(Nat \X Nat)]]
      /\ \A q \in Devices, s \in StreamNames \ {Compute} : queue'[q][s] = queue[q][s]
      /\ \A q \in Devices \ {d} : Entries(q)' = Entries(q)
      /\ Len(e) \in Nat
      /\ Len(Entries(d)') = Len(e) + 1
      /\ \A k \in 1 .. Len(e) : Entries(d)'[k] = e[k]
      /\ Entries(d)'[Len(e) + 1] = <<n, c>>
      /\ Pending(d)' = Pending(d) \cup {n}
      /\ \A q \in Devices \ {d} : Pending(q)' = Pending(q)
  BY <1>1, <1>2, <1>3, Appended
<1>5. ASSUME NEW q \in Devices, NEW k \in 1 .. Len(Entries(q)'),
             Entries(q)'[k][1] \in Waits(plan, q)
      PROVE  \E p \in Devices : Meets(plan, q, Entries(q)'[k][1], p, Entries(q)'[k][2])
  <2>1. CASE q # d
    BY <1>2, <1>4, <1>5, <2>1 DEF WaitInv
  <2>2. CASE q = d /\ k \in 1 .. Len(e)
    BY <1>2, <1>4, <1>5, <2>2 DEF WaitInv
  <2>3. CASE q = d /\ k = Len(e) + 1
    <3>1. Entries(q)'[k] = <<n, c>>
      BY <1>4, <2>3
    <3>2. <<n, c>>[1] = n /\ <<n, c>>[2] = c
      OBVIOUS
    <3> QED
      BY <1>5, <2>3, <3>1, <3>2
  <2>4. q = d => k \in 1 .. Len(e) \/ k = Len(e) + 1
    BY <1>4
  <2> QED
    BY <2>1, <2>2, <2>3, <2>4
<1> QED
  BY <1>5 DEF WaitInv

(* Barriers are counted upwards.                                           *)
LEMMA BarsGrow ==
  ASSUME NEW plan, Lockstep(plan), NEW d \in Devices
  PROVE  \A m, n \in 1 .. Len(plan.code[d]) + 1 : m <= n => Bars(plan, d, m) <= Bars(plan, d, n)
<1> DEFINE L == Len(plan.code[d])
           Grown(k) == \A m \in 1 .. L + 1 : m + k <= L + 1 =>
                         Bars(plan, d, m) <= Bars(plan, d, m + k)
           grown == {k \in Nat : Grown(k)}
<1>1. L \in Nat /\ \A i \in 1 .. L + 1 : Bars(plan, d, i) \in Nat
  BY PlanTypes
<1>2. \A i \in 1 .. L : Bars(plan, d, i) <= Bars(plan, d, i + 1)
  <2>1. \A i \in 1 .. L : \/ Bars(plan, d, i + 1) = Bars(plan, d, i) + 1
                          \/ Bars(plan, d, i + 1) = Bars(plan, d, i) + 0
    BY DEF Lockstep, CountsBarriers
  <2>2. \A i \in 1 .. L : Bars(plan, d, i) \in Nat
    BY <1>1
  <2> HIDE DEF L
  <2> QED
    BY <2>1, <2>2
<1> HIDE DEF L
<1>3. Grown(0)
  BY <1>1
<1>4. ASSUME NEW k \in Nat, Grown(k) PROVE Grown(k + 1)
  <2> SUFFICES ASSUME NEW m \in 1 .. L + 1, m + (k + 1) <= L + 1
               PROVE  Bars(plan, d, m) <= Bars(plan, d, m + (k + 1))
    OBVIOUS
  <2>1. m + k \in 1 .. L /\ (m + k) + 1 = m + (k + 1) /\ m + k <= L + 1
    BY <1>1
  <2>2. Bars(plan, d, m) <= Bars(plan, d, m + k)
    BY <1>4, <2>1
  <2>3. Bars(plan, d, m + k) <= Bars(plan, d, m + (k + 1))
    BY <1>2, <2>1
  <2>4. /\ Bars(plan, d, m) \in Nat /\ Bars(plan, d, m + k) \in Nat
        /\ Bars(plan, d, m + (k + 1)) \in Nat
    BY <1>1, <2>1
  <2> QED
    BY <2>2, <2>3, <2>4
<1>5. 0 \in grown /\ \A k \in grown : k + 1 \in grown
  <2> HIDE DEF Grown
  <2> QED
    BY <1>3, <1>4
<1> HIDE DEF grown
<1>6. \A k \in Nat : k \in grown
  BY <1>5, Induction
<1>7. \A k \in Nat : Grown(k)
  <2> HIDE DEF Grown
  <2> QED
    BY <1>6 DEF grown
<1>8. ASSUME NEW m \in 1 .. L + 1, NEW n \in 1 .. L + 1, m <= n
      PROVE  Bars(plan, d, m) <= Bars(plan, d, n)
  <2>1. n - m \in Nat /\ m + (n - m) = n /\ n <= L + 1
    BY <1>1, <1>8
  <2>2. Bars(plan, d, m) <= Bars(plan, d, m + (n - m))
    BY <1>7, <2>1
  <2> QED
    BY <2>1, <2>2
<1> QED
  BY <1>8 DEF L

(* How far a rank is, going by the barriers it has entered.                *)
LEMMA EnteredIs ==
  ASSUME NEW plan, Lockstep(plan), Inv(plan), NEW q \in Devices,
         NEW r \in Records(plan, q), host[q] <= r
  PROVE  Sync!Entered(q) <= Bars(plan, q, r)
<1>1. /\ host[q] \in 1 .. Len(plan.code[q]) + 1 /\ r \in 1 .. Len(plan.code[q])
      /\ Len(plan.code[q]) \in Nat
  BY PlanTypes, KindsOf DEF Inv, HostInv
<1>2. passed[q] = Bars(plan, q, host[q])
  BY DEF Inv, BarrierInv
<1>3. /\ Bars(plan, q, host[q]) \in Nat /\ Bars(plan, q, r) \in Nat
      /\ Bars(plan, q, host[q]) <= Bars(plan, q, r)
  BY <1>1, BarsGrow, PlanTypes
<1>4. CASE q \notin inside
  BY <1>2, <1>3, <1>4 DEF Sync!Entered
<1>5. CASE q \in inside
  <2>1. host[q] \in At(plan, q, "barrier")
    BY <1>5 DEF Inv, BarrierInv
  <2>2. host[q] \in 1 .. Len(plan.code[q]) /\ Ins(plan, q, host[q]).do = "barrier"
    BY <2>1, KindsOf
  <2>3. Bars(plan, q, host[q] + 1) = Bars(plan, q, host[q]) + 1
    BY <2>2 DEF Lockstep, CountsBarriers
  <2>4. host[q] # r
    BY <1>1, <2>2, KindsOf
  <2>5. host[q] + 1 \in 1 .. Len(plan.code[q]) + 1 /\ host[q] + 1 <= r
    BY <1>1, <2>2, <2>4
  <2>6. Bars(plan, q, host[q] + 1) <= Bars(plan, q, r)
    BY <1>1, <2>5, BarsGrow
  <2>7. Sync!Entered(q) = passed[q] + 1
    BY <1>5 DEF Sync!Entered
  <2> QED
    BY <1>2, <1>3, <2>3, <2>6, <2>7
<1> QED
  BY <1>4, <1>5

(* A wait that is put on a stream refers to the record it is about: that   *)
(* has been issued, as the barrier in between has been passed, and the     *)
(* next record of the same event has not, as no rank is two records ahead. *)
LEMMA WaitRefers ==
  ASSUME NEW plan, Lockstep(plan), Inv(plan), NEW d \in Devices, host[d] \in Waits(plan, d)
  PROVE  \E q \in Devices :
           Meets(plan, d, host[d], q, latest[Ins(plan, d, host[d]).event])
<1> DEFINE j == host[d]
<1>1. j \in 1 .. Len(plan.code[d]) /\ Ins(plan, d, j).do = "wait"
  BY KindsOf
<1>0. PICK q \in Devices : \E s \in Records(plan, q) : Meets(plan, d, j, q, s)
  BY DEF Lockstep, WaitsMeet
<1>2. PICK r \in Records(plan, q) : Meets(plan, d, j, q, r)
  BY <1>0
<1>3. /\ Ins(plan, q, r).event = Ins(plan, d, j).event
      /\ Bars(plan, q, r) < Bars(plan, d, j)
      /\ \A s \in Records(plan, q) :
           Seg(plan, q, s) >= Seg(plan, q, r) + 2 => Bars(plan, d, j) < Bars(plan, q, s)
  BY <1>2 DEF Meets
<1>4. d \notin inside
  <2>1. d \in inside => host[d] \in At(plan, d, "barrier")
    BY DEF Inv, BarrierInv
  <2> QED
    BY <1>1, <2>1, KindsOf
<1>5. /\ passed[d] = Bars(plan, d, j) /\ passed[q] = Bars(plan, q, host[q])
      /\ passed[d] <= Sync!Entered(q) /\ passed[q] <= Sync!Entered(d)
      /\ passed[d] \in Nat /\ passed[q] \in Nat
  BY DEF Inv, BarrierInv
<1>6. Sync!Entered(d) = passed[d] /\ Sync!Entered(q) \in Nat
  BY <1>4, <1>5 DEF Sync!Entered
<1>7. /\ r \in 1 .. Len(plan.code[q]) /\ host[q] \in 1 .. Len(plan.code[q]) + 1
      /\ Len(plan.code[q]) \in Nat /\ Bars(plan, q, r) \in Nat
  BY KindsOf, PlanTypes DEF Inv, HostInv
<1> HIDE DEF j
<1>8. r < host[q]
  <2>1. ASSUME host[q] <= r PROVE FALSE
    <3>1. Sync!Entered(q) <= Bars(plan, q, r)
      BY <2>1, EnteredIs
    <3> QED
      BY <1>3, <1>5, <1>6, <1>7, <3>1
  <2> QED
    BY <1>7, <2>1
<1>9. PICK last : /\ last = latest[Ins(plan, q, r).event]
                  /\ last \in Records(plan, q) /\ r <= last /\ last < host[q]
                  /\ Ins(plan, q, last).event = Ins(plan, q, r).event
  BY <1>8 DEF Inv, LatestInv
<1>10. last \in 1 .. Len(plan.code[q])
  BY <1>9, KindsOf
<1>11. /\ Seg(plan, q, last) \in Nat /\ Seg(plan, q, r) \in Nat
       /\ Seg(plan, q, r) <= Seg(plan, q, last)
  BY <1>7, <1>9, <1>10, PlanTypes DEF Lockstep, RecordsSeparate
<1>12. last = r \/ Seg(plan, q, last) >= Seg(plan, q, r) + 2
  <2>1. \/ last = r
        \/ Seg(plan, q, last) >= Seg(plan, q, r) + 2
        \/ Seg(plan, q, r) >= Seg(plan, q, last) + 2
    BY <1>9 DEF Lockstep, EventsDiffer
  <2> QED
    BY <1>11, <2>1
<1>13. ~(Seg(plan, q, last) >= Seg(plan, q, r) + 2)
  <2> SUFFICES ASSUME Seg(plan, q, last) >= Seg(plan, q, r) + 2 PROVE FALSE
    OBVIOUS
  <2>1. Bars(plan, d, j) < Bars(plan, q, last)
    BY <1>3, <1>9
  <2>2. Bars(plan, q, last) <= Bars(plan, q, host[q]) /\ Bars(plan, q, last) \in Nat
    <3>1. Bars(plan, q, last) \in Nat
      BY <1>10, PlanTypes
    <3>2. last \in 1 .. Len(plan.code[q]) + 1 /\ last <= host[q]
      BY <1>7, <1>9, <1>10
    <3> QED
      BY <1>7, <3>1, <3>2, BarsGrow
  <2> QED
    BY <1>5, <1>6, <2>1, <2>2
<1>14. latest[Ins(plan, d, j).event] = r
  BY <1>3, <1>9, <1>12, <1>13
<1> QED
  BY <1>2, <1>14 DEF j

LEMMA BarrierArrive ==
  ASSUME NEW plan, Lockstep(plan), Inv(plan), NEW d \in Devices,
         host[d] \in At(plan, d, "barrier"), Sync!Arrive(d), UNCHANGED host
  PROVE  BarrierInv(plan)'
<1>1. BarrierInv(plan)
  BY DEF Inv
<1>2. d \notin inside /\ inside' = inside \cup {d} /\ passed' = passed
  BY DEF Sync!Arrive
<1>3. ASSUME NEW q \in Devices
      PROVE  /\ Sync!Entered(q) <= Sync!Entered(q)'
             /\ Sync!Entered(q) \in Nat /\ Sync!Entered(q)' \in Nat
  BY <1>1, <1>2 DEF Sync!Entered, BarrierInv
<1>4. \A p, q \in Devices : passed[q] <= Sync!Entered(p)'
  <2> SUFFICES ASSUME NEW p \in Devices, NEW q \in Devices PROVE passed[q] <= Sync!Entered(p)'
    OBVIOUS
  <2>1. passed[q] <= Sync!Entered(p) /\ passed[q] \in Nat
    BY <1>1 DEF BarrierInv
  <2>2. Sync!Entered(p) <= Sync!Entered(p)' /\ Sync!Entered(p) \in Nat /\ Sync!Entered(p)' \in Nat
    BY <1>3
  <2> QED
    BY <2>1, <2>2
<1> QED
  BY <1>1, <1>2, <1>4 DEF BarrierInv

LEMMA BarrierLeave ==
  ASSUME NEW plan, Lockstep(plan), Inv(plan), NEW d \in Devices,
         host[d] \in At(plan, d, "barrier"), Sync!Leave(d), Proceed(d)
  PROVE  BarrierInv(plan)'
<1>1. BarrierInv(plan) /\ host \in [Devices -> Nat]
  BY DEF Inv, HostInv
<1>2. /\ d \in inside /\ inside' = inside \ {d}
      /\ \A u \in Devices : Sync!Entered(u) > passed[d]
      /\ passed' = [passed EXCEPT ![d] = passed[d] + 1]
  BY DEF Sync!Leave
<1>3. host' = [host EXCEPT ![d] = host[d] + 1]
  BY DEF Proceed
<1>4. /\ passed \in [Devices -> Nat] /\ passed' \in [Devices -> Nat]
      /\ passed'[d] = passed[d] + 1
      /\ \A q \in Devices \ {d} : passed'[q] = passed[q]
      /\ \A q \in Devices \ {d} : q \in inside' <=> q \in inside
      /\ d \notin inside'
  BY <1>1, <1>2 DEF BarrierInv
<1>5. ASSUME NEW q \in Devices PROVE Sync!Entered(q)' = Sync!Entered(q) /\ Sync!Entered(q) \in Nat
  <2>1. CASE q = d
    BY <1>2, <1>4, <2>1 DEF Sync!Entered
  <2>2. CASE q # d
    BY <1>4, <2>2 DEF Sync!Entered
  <2> QED
    BY <2>1, <2>2
<1>6. \A p, q \in Devices : passed'[q] <= Sync!Entered(p)'
  <2> SUFFICES ASSUME NEW p \in Devices, NEW q \in Devices PROVE passed'[q] <= Sync!Entered(p)
    BY <1>5
  <2>1. CASE q = d
    <3>1. Sync!Entered(p) > passed[d] /\ passed[d] \in Nat /\ Sync!Entered(p) \in Nat
      BY <1>2, <1>4, <1>5
    <3> QED
      BY <1>4, <2>1, <3>1
  <2>2. CASE q # d
    BY <1>1, <1>4, <2>2 DEF BarrierInv
  <2> QED
    BY <2>1, <2>2
<1>7. Bars(plan, d, host[d] + 1) = Bars(plan, d, host[d]) + 1
  <2>1. host[d] \in 1 .. Len(plan.code[d]) /\ Ins(plan, d, host[d]).do = "barrier"
    BY KindsOf
  <2> QED
    BY <2>1 DEF Lockstep, CountsBarriers
<1>8. \A q \in Devices : passed'[q] = Bars(plan, q, host'[q])
  <2> SUFFICES ASSUME NEW q \in Devices PROVE passed'[q] = Bars(plan, q, host'[q])
    OBVIOUS
  <2>1. CASE q = d
    BY <1>1, <1>3, <1>4, <1>7, <2>1 DEF BarrierInv
  <2>2. CASE q # d
    BY <1>1, <1>3, <1>4, <2>2 DEF BarrierInv
  <2> QED
    BY <2>1, <2>2
<1>9. \A q \in inside' : host'[q] \in At(plan, q, "barrier")
  BY <1>1, <1>2, <1>3 DEF BarrierInv
<1>10. inside' \subseteq Devices
  BY <1>1, <1>2 DEF BarrierInv
<1> QED
  BY <1>4, <1>6, <1>8, <1>9, <1>10 DEF BarrierInv

(* The instruction a host thread is at, by its kind.                       *)
LEMMA CurrentKind ==
  ASSUME NEW plan, Lockstep(plan), Inv(plan), NEW d \in Devices, NEW kind, AtInstruction(d, kind)
  PROVE  /\ host[d] \in 1 .. Len(plan.code[d]) /\ host[d] \in Nat
         /\ Ins(plan, d, host[d]).do = kind
         /\ Current(d) = Ins(plan, d, host[d])
         /\ plan.code \in [Devices -> Seq(InstructionSet)]
  BY CodeIs DEF AtInstruction, Lockstep, WellTyped

LEMMA KernelIssued ==
  ASSUME NEW plan, Lockstep(plan), Inv(plan), NEW d \in Devices, IssueKernel(d)
  PROVE  Inv(plan)'
<1>1. /\ AtInstruction(d, "kernel") /\ Enqueue(d, 0) /\ Proceed(d)
      /\ UNCHANGED <<build, running, latest, fired, content, passed, inside>>
  BY DEF IssueKernel
<1>2. host[d] \in 1 .. Len(plan.code[d]) /\ Ins(plan, d, host[d]).do = "kernel"
  BY <1>1, CurrentKind
<1>3. /\ host[d] \in Queued(plan, d) /\ host[d] \notin Waits(plan, d)
      /\ host[d] \notin Records(plan, d) /\ host[d] \notin At(plan, d, "barrier")
  BY <1>2, KindsOf
<1>4. /\ HostInv(plan)' /\ QueueTypes' /\ QueueOrder(plan)'
      /\ \A q \in Devices : Done(plan, q)' = Done(plan, q)
  BY <1>1, <1>3, Issued
<1>5. FiredInv(plan)' /\ MetInv(plan)' /\ ContentInv(plan)'
  BY <1>1, <1>4, Kept
<1>6. BarrierInv(plan)'
  BY <1>1, <1>2, <1>3, BarrierKept
<1>7. LatestInv(plan)'
  BY <1>1, <1>2, <1>3, LatestKept
<1>8. WaitInv(plan)'
  BY <1>1, <1>3, WaitKeptIssued
<1>9. (plan.code = Program[build])'
  BY <1>1 DEF Inv
<1> QED
  BY <1>4, <1>5, <1>6, <1>7, <1>8, <1>9 DEF Inv

LEMMA RecordIssued ==
  ASSUME NEW plan, Lockstep(plan), Inv(plan), NEW d \in Devices, IssueRecord(d)
  PROVE  Inv(plan)'
<1> DEFINE n == host[d]
<1>1. /\ AtInstruction(d, "record") /\ Enqueue(d, 0) /\ Proceed(d)
      /\ latest' = [latest EXCEPT ![Current(d).event] = n]
      /\ UNCHANGED <<build, running, fired, content, passed, inside>>
  BY DEF IssueRecord
<1>2. n \in 1 .. Len(plan.code[d]) /\ Ins(plan, d, n).do = "record" /\ Current(d) = Ins(plan, d, n)
  BY <1>1, CurrentKind
<1>3. /\ n \in Queued(plan, d) /\ n \notin Waits(plan, d)
      /\ n \in Records(plan, d) /\ n \notin At(plan, d, "barrier")
  BY <1>2, KindsOf
<1>4. /\ HostInv(plan)' /\ QueueTypes' /\ QueueOrder(plan)'
      /\ \A q \in Devices : Done(plan, q)' = Done(plan, q)
  BY <1>1, <1>3, Issued
<1>5. FiredInv(plan)' /\ MetInv(plan)' /\ ContentInv(plan)'
  BY <1>1, <1>4, Kept
<1>6. BarrierInv(plan)'
  BY <1>1, <1>2, <1>3, BarrierKept
<1>7. LatestInv(plan)'
  <2>1. LatestInv(plan) /\ host \in [Devices -> Nat]
    BY DEF Inv, HostInv
  <2>2. host' = [host EXCEPT ![d] = n + 1]
    BY <1>1 DEF Proceed
  <2>3. latest' = [latest EXCEPT ![Ins(plan, d, n).event] = n] /\ Ins(plan, d, n).event \in Events
    BY <1>1, <1>2, <1>3, PlanTypes
  <2>4. latest' \in [Events -> Nat]
    BY <2>1, <2>3 DEF LatestInv
  <2> SUFFICES ASSUME NEW q \in Devices, NEW r \in Records(plan, q), r < host'[q]
               PROVE  /\ latest'[Ins(plan, q, r).event] \in Records(plan, q)
                      /\ r <= latest'[Ins(plan, q, r).event]
                      /\ latest'[Ins(plan, q, r).event] < host'[q]
                      /\ Ins(plan, q, latest'[Ins(plan, q, r).event]).event
                           = Ins(plan, q, r).event
    BY <2>4 DEF LatestInv
  <2>5. r \in Nat /\ n \in Nat /\ Ins(plan, q, r).event \in Events
    BY <2>1, KindsOf, PlanTypes
  <2>6. CASE Ins(plan, q, r).event = Ins(plan, d, n).event
    <3>1. q = d
      BY <1>3, <2>6 DEF Lockstep, EventsDiffer
    <3>2. latest'[Ins(plan, q, r).event] = n
      BY <2>1, <2>3, <2>6 DEF LatestInv
    <3>3. host'[d] = n + 1
      BY <2>1, <2>2
    <3> QED
      BY <1>3, <2>5, <2>6, <3>1, <3>2, <3>3
  <2>7. CASE Ins(plan, q, r).event # Ins(plan, d, n).event
    <3>1. latest'[Ins(plan, q, r).event] = latest[Ins(plan, q, r).event]
      BY <2>1, <2>3, <2>5, <2>7 DEF LatestInv
    <3>2. r < host[q] /\ host[q] <= host'[q] /\ host[q] \in Nat /\ host'[q] \in Nat
      <4>1. CASE q = d
        <5>1. host'[d] = n + 1 /\ r # n
          BY <2>1, <2>2, <2>7, <4>1
        <5> QED
          BY <2>5, <4>1, <5>1
      <4>2. CASE q # d
        BY <2>1, <2>2, <4>2
      <4> QED
        BY <4>1, <4>2
    <3>3. PICK last : /\ last = latest[Ins(plan, q, r).event]
                      /\ last \in Records(plan, q) /\ r <= last /\ last < host[q]
                      /\ Ins(plan, q, last).event = Ins(plan, q, r).event
      BY <2>1, <3>2 DEF LatestInv
    <3>4. last \in Nat
      BY <3>3, KindsOf
    <3>5. last < host'[q]
      BY <3>2, <3>3, <3>4
    <3> QED
      BY <3>1, <3>3, <3>5
  <2> QED
    BY <2>6, <2>7
<1>8. WaitInv(plan)'
  BY <1>1, <1>3, WaitKeptIssued
<1>9. (plan.code = Program[build])'
  BY <1>1 DEF Inv
<1> QED
  BY <1>4, <1>5, <1>6, <1>7, <1>8, <1>9 DEF Inv

LEMMA WaitIssued ==
  ASSUME NEW plan, Lockstep(plan), Inv(plan), NEW d \in Devices, IssueWait(d)
  PROVE  Inv(plan)'
<1> DEFINE c == latest[Current(d).event]
<1>1. /\ AtInstruction(d, "wait") /\ Enqueue(d, c) /\ Proceed(d)
      /\ UNCHANGED <<build, running, latest, fired, content, passed, inside>>
  BY DEF IssueWait
<1>2. /\ host[d] \in 1 .. Len(plan.code[d]) /\ Ins(plan, d, host[d]).do = "wait"
      /\ c = latest[Ins(plan, d, host[d]).event]
  BY <1>1, CurrentKind
<1>3. /\ host[d] \in Queued(plan, d) /\ host[d] \in Waits(plan, d)
      /\ host[d] \notin Records(plan, d) /\ host[d] \notin At(plan, d, "barrier")
  BY <1>2, KindsOf
<1>4. \E q \in Devices : Meets(plan, d, host[d], q, c)
  BY <1>2, <1>3, WaitRefers
<1>5. c \in Nat
  BY <1>4, KindsOf DEF Meets
<1> HIDE DEF c
<1>6. /\ HostInv(plan)' /\ QueueTypes' /\ QueueOrder(plan)'
      /\ \A q \in Devices : Done(plan, q)' = Done(plan, q)
  BY <1>1, <1>3, <1>5, Issued
<1>7. FiredInv(plan)' /\ MetInv(plan)' /\ ContentInv(plan)'
  BY <1>1, <1>6, Kept
<1>8. BarrierInv(plan)'
  BY <1>1, <1>2, <1>3, BarrierKept
<1>9. LatestInv(plan)'
  BY <1>1, <1>2, <1>3, LatestKept
<1>10. WaitInv(plan)'
  BY <1>1, <1>3, <1>4, <1>5, WaitKeptIssued
<1>11. (plan.code = Program[build])'
  BY <1>1 DEF Inv
<1> QED
  BY <1>6, <1>7, <1>8, <1>9, <1>10, <1>11 DEF Inv

LEMMA Drained ==
  ASSUME NEW plan, Lockstep(plan), Inv(plan), NEW d \in Devices, Drain(d)
  PROVE  Inv(plan)'
<1>1. /\ AtInstruction(d, "drain") /\ Proceed(d)
      /\ UNCHANGED <<build, queue, running, latest, fired, content, passed, inside>>
  BY DEF Drain
<1>2. host[d] \in 1 .. Len(plan.code[d]) /\ Ins(plan, d, host[d]).do = "drain"
  BY <1>1, CurrentKind
<1>3. /\ host[d] \notin Queued(plan, d)
      /\ host[d] \notin Records(plan, d) /\ host[d] \notin At(plan, d, "barrier")
  BY <1>2, KindsOf
<1>4. /\ HostInv(plan)' /\ QueueTypes' /\ QueueOrder(plan)'
      /\ \A q \in Devices : Done(plan, q)' = Done(plan, q)
  BY <1>1, <1>2, <1>3, Skipped
<1>5. FiredInv(plan)' /\ MetInv(plan)' /\ ContentInv(plan)'
  BY <1>1, <1>4, Kept
<1>6. BarrierInv(plan)'
  BY <1>1, <1>2, <1>3, BarrierKept
<1>7. LatestInv(plan)'
  BY <1>1, <1>2, <1>3, LatestKept
<1>8. WaitInv(plan)'
  BY <1>1, WaitKept
<1>9. (plan.code = Program[build])'
  BY <1>1 DEF Inv
<1> QED
  BY <1>4, <1>5, <1>6, <1>7, <1>8, <1>9 DEF Inv

LEMMA Arrived ==
  ASSUME NEW plan, Lockstep(plan), Inv(plan), NEW d \in Devices, Arrive(d)
  PROVE  Inv(plan)'
<1>1. /\ AtInstruction(d, "barrier") /\ Sync!Arrive(d)
      /\ UNCHANGED <<build, host, queue, running, latest, fired, content>>
  BY DEF Arrive
<1>2. host[d] \in 1 .. Len(plan.code[d]) /\ Ins(plan, d, host[d]).do = "barrier"
  BY <1>1, CurrentKind
<1>3. host[d] \in At(plan, d, "barrier")
  BY <1>2, KindsOf
<1>4. BarrierInv(plan)'
  BY <1>1, <1>3, BarrierArrive
<1>5. HostInv(plan)'
  BY <1>1 DEF Inv, HostInv
<1>6. QueueTypes'
  BY <1>1 DEF Inv, QueueTypes
<1>7. \A q \in Devices : Entries(q)' = Entries(q) /\ Done(plan, q)' = Done(plan, q)
  BY <1>1 DEF Entries, Done, Pending
<1>8. QueueOrder(plan)'
  BY <1>1, <1>7 DEF Inv, QueueOrder
<1>9. FiredInv(plan)' /\ MetInv(plan)' /\ ContentInv(plan)'
  BY <1>1, <1>7, Kept
<1>10. LatestInv(plan)'
  BY <1>1 DEF Inv, LatestInv
<1>11. WaitInv(plan)'
  BY <1>1, WaitKept
<1>12. (plan.code = Program[build])'
  BY <1>1 DEF Inv
<1> QED
  BY <1>4, <1>5, <1>6, <1>8, <1>9, <1>10, <1>11, <1>12 DEF Inv

LEMMA Left ==
  ASSUME NEW plan, Lockstep(plan), Inv(plan), NEW d \in Devices, Leave(d)
  PROVE  Inv(plan)'
<1>1. /\ AtInstruction(d, "barrier") /\ Sync!Leave(d) /\ Proceed(d)
      /\ UNCHANGED <<build, queue, running, latest, fired, content>>
  BY DEF Leave
<1>2. host[d] \in 1 .. Len(plan.code[d]) /\ Ins(plan, d, host[d]).do = "barrier"
  BY <1>1, CurrentKind
<1>3. /\ host[d] \notin Queued(plan, d)
      /\ host[d] \notin Records(plan, d) /\ host[d] \in At(plan, d, "barrier")
  BY <1>2, KindsOf
<1>4. /\ HostInv(plan)' /\ QueueTypes' /\ QueueOrder(plan)'
      /\ \A q \in Devices : Done(plan, q)' = Done(plan, q)
  BY <1>1, <1>2, <1>3, Skipped
<1>5. FiredInv(plan)' /\ MetInv(plan)' /\ ContentInv(plan)'
  BY <1>1, <1>4, Kept
<1>6. BarrierInv(plan)'
  BY <1>1, <1>3, BarrierLeave
<1>7. LatestInv(plan)'
  BY <1>1, <1>2, <1>3, LatestKept
<1>8. WaitInv(plan)'
  BY <1>1, WaitKept
<1>9. (plan.code = Program[build])'
  BY <1>1 DEF Inv
<1> QED
  BY <1>4, <1>5, <1>6, <1>7, <1>8, <1>9 DEF Inv
-----------------------------------------------------------------------------
(* The streams' steps.                                                     *)
LEMMA OnlyCompute ==
  ASSUME NEW plan, Inv(plan), NEW d \in Devices, NEW s \in StreamNames,
         queue[d][s] # <<>> \/ running[d][s]
  PROVE  s = Compute /\ queue[d][s] = Entries(d)
<1>1. s \in StreamNames \ {Compute} => queue[d][s] = <<>> /\ running[d][s] = FALSE
  BY DEF Inv, QueueTypes
<1> QED
  BY <1>1 DEF Entries

LEMMA HeadIs ==
  ASSUME NEW plan, Lockstep(plan), Inv(plan), NEW d \in Devices, Entries(d) # <<>>
  PROVE  /\ Head(Entries(d)) = Entries(d)[1]
         /\ HeadOf(d, Compute) = Ins(plan, d, Entries(d)[1][1])
         /\ Code(d)[Head(queue[d][Compute])[1]] = Ins(plan, d, Entries(d)[1][1])
         /\ Entries(d)[1][1] \in Queued(plan, d)
         /\ Entries(d)[1][1] \in 1 .. Len(plan.code[d])
         /\ 1 \in 1 .. Len(Entries(d))
<1>1. Head(Entries(d)) = Entries(d)[1]
  OBVIOUS
<1>2. Entries(d)[1][1] \in Pending(d) /\ Len(Entries(d)) \in Nat \ {0}
  BY PendingOrder
<1>3. Entries(d)[1][1] \in Queued(plan, d) /\ Entries(d)[1][1] \in 1 .. Len(plan.code[d])
  BY <1>2, PendingOrder, KindsOf
<1>4. HeadOf(d, Compute) = Code(d)[Entries(d)[1][1]]
  BY <1>1 DEF HeadOf, Entries
<1> QED
  BY <1>1, <1>2, <1>3, <1>4, CodeIs DEF Entries

LEMMA Executed ==
  ASSUME NEW plan, Lockstep(plan), Inv(plan), NEW d \in Devices, Entries(d) # <<>>,
         Pop(d, Compute), UNCHANGED host,
         running' \in [Devices -> [StreamNames -> BOOLEAN]],
         \A q \in Devices, s \in StreamNames \ {Compute} : running'[q][s] = running[q][s],
         \A q \in Devices \ {d} : running'[q] = running[q],
         running'[d][Compute] = FALSE
  PROVE  /\ QueueTypes' /\ QueueOrder(plan)' /\ WaitInv(plan)'
         /\ \A i : i \in Done(plan, d)' <=> i \in Done(plan, d) \/ i = Entries(d)[1][1]
         /\ \A q \in Devices \ {d} : Done(plan, q)' = Done(plan, q)
<1> DEFINE e == Entries(d)
           i1 == Entries(d)[1][1]
<1>1. Compute \in StreamNames /\ QueueTypes /\ QueueOrder(plan) /\ WaitInv(plan)
  BY DEF Lockstep, WellTyped, Inv
<1>2. /\ queue' \in [Devices -> [StreamNames -> Seq(Nat \X Nat)]]
      /\ \A q \in Devices, s \in StreamNames \ {Compute} : queue'[q][s] = queue[q][s]
      /\ \A q \in Devices \ {d} : Entries(q)' = Entries(q) /\ Pending(q)' = Pending(q)
      /\ Len(e) \in Nat \ {0}
      /\ Len(Entries(d)') = Len(e) - 1
      /\ \A k \in 1 .. Len(e) - 1 : Entries(d)'[k] = e[k + 1]
  BY <1>1, Popped DEF Pop
<1>3. QueueTypes'
  BY <1>1, <1>2 DEF QueueTypes
<1>4. /\ \A k \in 1 .. Len(e) : e[k][1] \in Queued(plan, d) /\ e[k][1] < host[d]
      /\ \A k, l \in 1 .. Len(e) : k < l => e[k][1] < e[l][1]
      /\ \A i \in Done(plan, d), k \in 1 .. Len(e) : i < e[k][1]
  BY <1>1 DEF QueueOrder
<1>5. \A k \in 1 .. Len(e) : e[k][1] \in Nat
  BY <1>4, KindsOf
<1>6. i1 \in Queued(plan, d) /\ i1 \in Nat /\ i1 < host[d] /\ host[d] \in Nat /\ i1 = e[1][1]
  BY <1>2, <1>4, <1>5 DEF Inv, HostInv
<1> HIDE DEF e, i1
<1>7. \A k \in 1 .. Len(e) - 1 : k + 1 \in 1 .. Len(e) /\ i1 < e[k + 1][1]
  BY <1>2, <1>4, <1>6
<1>8. \A i : i \in Pending(d)' <=> i \in Pending(d) /\ i # i1
  <2>1. Pending(d)' = {Entries(d)'[k][1] : k \in 1 .. Len(e) - 1}
    BY <1>2 DEF Pending
  <2>2. Pending(d) = {e[k][1] : k \in 1 .. Len(e)}
    BY DEF Pending, e
  <2>3. ASSUME NEW i, i \in Pending(d)' PROVE i \in Pending(d) /\ i # i1
    <3>0. PICK k \in 1 .. Len(e) - 1 : i = Entries(d)'[k][1]
      BY <2>1, <2>3
    <3>1. i = e[k + 1][1]
      BY <1>2, <3>0
    <3>2. k + 1 \in 1 .. Len(e) /\ i1 < i /\ i \in Nat
      BY <1>5, <1>7, <3>1
    <3> QED
      BY <1>6, <2>2, <3>1, <3>2
  <2>4. ASSUME NEW i, i \in Pending(d), i # i1 PROVE i \in Pending(d)'
    <3>1. PICK k \in 1 .. Len(e) : i = e[k][1]
      BY <2>2, <2>4
    <3>2. k # 1
      BY <1>6, <2>4, <3>1
    <3>3. k - 1 \in 1 .. Len(e) - 1 /\ (k - 1) + 1 = k
      BY <1>2, <3>2
    <3>4. Entries(d)'[k - 1] = e[k]
      BY <1>2, <3>3
    <3> QED
      BY <2>1, <3>1, <3>3, <3>4
  <2> QED
    BY <2>3, <2>4
<1>9. \A i : i \in Done(plan, d)' <=> i \in Done(plan, d) \/ i = i1
  <2>1. i1 \in Pending(d)
    BY PendingOrder DEF i1
  <2> QED
    BY <1>6, <1>8, <2>1 DEF Done
<1>10. \A q \in Devices \ {d} : Done(plan, q)' = Done(plan, q)
  BY <1>2 DEF Done
<1>11. QueueOrder(plan)'
  <2> SUFFICES ASSUME NEW q \in Devices
               PROVE  /\ \A k \in 1 .. Len(Entries(q)') :
                           Entries(q)'[k][1] \in Queued(plan, q) /\ Entries(q)'[k][1] < host[q]
                      /\ \A k, l \in 1 .. Len(Entries(q)') :
                           k < l => Entries(q)'[k][1] < Entries(q)'[l][1]
                      /\ \A i \in Done(plan, q)', k \in 1 .. Len(Entries(q)') :
                           i < Entries(q)'[k][1]
                      /\ running'[q][Compute] = TRUE =>
                           Entries(q)' # <<>> /\ Entries(q)'[1][1] \in Kernels(plan, q)
    BY DEF QueueOrder
  <2>1. CASE q # d
    <3>1. Entries(q)' = Entries(q) /\ Done(plan, q)' = Done(plan, q) /\ running'[q] = running[q]
      BY <1>2, <1>10, <2>1
    <3> QED
      BY <1>1, <3>1 DEF QueueOrder
  <2>2. CASE q = d
    <3>1. \A k \in 1 .. Len(e) - 1 :
            Entries(d)'[k][1] \in Queued(plan, d) /\ Entries(d)'[k][1] < host[d]
      BY <1>2, <1>4, <1>7 DEF e
    <3>2. ASSUME NEW k \in 1 .. Len(e) - 1, NEW l \in 1 .. Len(e) - 1, k < l
          PROVE  Entries(d)'[k][1] < Entries(d)'[l][1]
      <4>1. k + 1 \in 1 .. Len(e) /\ l + 1 \in 1 .. Len(e) /\ k + 1 < l + 1
        BY <1>2, <3>2
      <4>2. e[k + 1][1] < e[l + 1][1]
        BY <1>4, <4>1 DEF e
      <4> QED
        BY <1>2, <4>2
    <3>3. ASSUME NEW i \in Done(plan, d)', NEW k \in 1 .. Len(e) - 1
          PROVE  i < Entries(d)'[k][1]
      <4>1. i \in Done(plan, d) \/ i = i1
        BY <1>9
      <4>2. k + 1 \in 1 .. Len(e) /\ Entries(d)'[k] = e[k + 1] /\ i1 < e[k + 1][1]
        BY <1>2, <1>7
      <4>3. i \in Done(plan, d) => i < e[k + 1][1]
        BY <1>4, <4>2 DEF e
      <4> QED
        BY <4>1, <4>2, <4>3
    <3> QED
      BY <1>2, <2>2, <3>1, <3>2, <3>3
  <2> QED
    BY <2>1, <2>2
<1>12. WaitInv(plan)'
  <2> SUFFICES ASSUME NEW q \in Devices, NEW k \in 1 .. Len(Entries(q)'),
                      Entries(q)'[k][1] \in Waits(plan, q)
               PROVE  \E p \in Devices :
                        Meets(plan, q, Entries(q)'[k][1], p, Entries(q)'[k][2])
    BY DEF WaitInv
  <2>1. CASE q # d
    BY <1>1, <1>2, <2>1 DEF WaitInv
  <2>2. CASE q = d
    <3>1. k + 1 \in 1 .. Len(e) /\ Entries(d)'[k] = e[k + 1]
      BY <1>2, <1>7, <2>2
    <3> QED
      BY <1>1, <2>2, <3>1 DEF WaitInv, e
  <2> QED
    BY <2>1, <2>2
<1> QED
  BY <1>3, <1>9, <1>10, <1>11, <1>12 DEF i1

LEMMA BeginKept ==
  ASSUME NEW plan, Lockstep(plan), Inv(plan), NEW d \in Devices, NEW s \in StreamNames,
         KernelBegins(d, s)
  PROVE  Inv(plan)'
<1>1. /\ AtHead(d, s, "kernel") /\ running' = [running EXCEPT ![d][s] = TRUE]
      /\ UNCHANGED <<queue, latest, fired, content, build, host, passed, inside>>
  BY DEF KernelBegins, hostVars
<1>2. s = Compute /\ Entries(d) # <<>>
  BY <1>1, OnlyCompute DEF AtHead
<1>3. Entries(d)[1][1] \in Kernels(plan, d)
  <2>1. Code(d)[Head(queue[d][Compute])[1]].do = "kernel"
    BY <1>1, <1>2 DEF AtHead
  <2>2. Ins(plan, d, Entries(d)[1][1]).do = "kernel"
    BY <1>2, <2>1, HeadIs
  <2> QED
    BY <1>2, <2>2, HeadIs, KindsOf
<1>4. QueueTypes'
  <2> DEFINE row == [running[d] EXCEPT ![s] = TRUE]
  <2>1. running' = [running EXCEPT ![d] = row]
    BY <1>1
  <2>2. /\ row \in [StreamNames -> BOOLEAN]
        /\ \A t \in StreamNames \ {Compute} : row[t] = running[d][t]
    BY <1>2 DEF Inv, QueueTypes
  <2> HIDE DEF row
  <2>3. running' \in [Devices -> [StreamNames -> BOOLEAN]]
    BY <2>1, <2>2 DEF Inv, QueueTypes
  <2>4. \A q \in Devices, t \in StreamNames \ {Compute} : running'[q][t] = running[q][t]
    BY <2>1, <2>2 DEF Inv, QueueTypes
  <2> QED
    BY <1>1, <2>3, <2>4 DEF Inv, QueueTypes
<1>5. \A q \in Devices : Entries(q)' = Entries(q) /\ Done(plan, q)' = Done(plan, q)
  BY <1>1 DEF Entries, Done, Pending
<1>6. \A q \in Devices \ {d} : running'[q] = running[q]
  BY <1>1 DEF Inv, QueueTypes
<1>7. QueueOrder(plan)'
  BY <1>1, <1>2, <1>3, <1>5, <1>6 DEF Inv, QueueOrder
<1>8. FiredInv(plan)' /\ MetInv(plan)' /\ ContentInv(plan)'
  BY <1>1, <1>5, Kept
<1>9. HostInv(plan)' /\ BarrierInv(plan)' /\ LatestInv(plan)'
  BY <1>1 DEF Inv, HostInv, BarrierInv, LatestInv, Sync!Entered
<1>10. WaitInv(plan)'
  BY <1>1, WaitKept
<1>11. (plan.code = Program[build])'
  BY <1>1 DEF Inv
<1> QED
  BY <1>4, <1>7, <1>8, <1>9, <1>10, <1>11 DEF Inv

LEMMA EndKept ==
  ASSUME NEW plan, Lockstep(plan), Inv(plan), NEW d \in Devices, NEW s \in StreamNames,
         KernelEnds(d, s)
  PROVE  Inv(plan)'
<1> DEFINE i1 == Entries(d)[1][1]
<1>1. /\ running[d][s] /\ running' = [running EXCEPT ![d][s] = FALSE]
      /\ content' = [a \in Places |->
           IF a \in HeadOf(d, s).writes THEN HeadOf(d, s).layer ELSE content[a]]
      /\ Pop(d, s)
      /\ UNCHANGED <<latest, fired, build, host, passed, inside>>
  BY DEF KernelEnds, hostVars
<1>2. s = Compute
  BY <1>1, OnlyCompute
<1>3. Entries(d) # <<>> /\ i1 \in Kernels(plan, d)
  <2>1. running[d][Compute] = TRUE
    BY <1>1, <1>2 DEF Inv, QueueTypes
  <2> QED
    BY <2>1 DEF Inv, QueueOrder
<1>4. HeadOf(d, s) = Ins(plan, d, i1) /\ i1 \in 1 .. Len(plan.code[d])
  BY <1>2, <1>3, HeadIs
<1>5. /\ running' \in [Devices -> [StreamNames -> BOOLEAN]]
      /\ \A q \in Devices, t \in StreamNames \ {Compute} : running'[q][t] = running[q][t]
      /\ \A q \in Devices \ {d} : running'[q] = running[q]
      /\ running'[d][Compute] = FALSE
  <2> DEFINE row == [running[d] EXCEPT ![s] = FALSE]
  <2>1. running' = [running EXCEPT ![d] = row]
    BY <1>1
  <2>2. /\ row \in [StreamNames -> BOOLEAN]
        /\ \A t \in StreamNames \ {Compute} : row[t] = running[d][t]
        /\ row[Compute] = FALSE
    BY <1>2 DEF Inv, QueueTypes
  <2> HIDE DEF row
  <2> QED
    BY <2>1, <2>2 DEF Inv, QueueTypes
<1>6. /\ QueueTypes' /\ QueueOrder(plan)' /\ WaitInv(plan)'
      /\ \A i : i \in Done(plan, d)' <=> i \in Done(plan, d) \/ i = i1
      /\ \A q \in Devices \ {d} : Done(plan, q)' = Done(plan, q)
  <2>1. Pop(d, Compute) /\ UNCHANGED host
    BY <1>1, <1>2
  <2> QED
    BY <1>3, <1>5, <2>1, Executed
<1> HIDE DEF i1
<1>7. \A q \in Devices : \A i \in Done(plan, q) : i \in Done(plan, q)'
  BY <1>6
<1>8. FiredInv(plan)'
  BY <1>1, <1>7 DEF Inv, FiredInv
<1>9. MetInv(plan)'
  <2>1. i1 \notin Waits(plan, d)
    BY <1>3, <1>4, KindsOf
  <2>2. \A q \in Devices : \A j \in Waits(plan, q) : j \in Done(plan, q)' => j \in Done(plan, q)
    BY <1>6, <2>1
  <2> QED
    BY <1>7, <2>2 DEF Inv, MetInv
<1>10. ContentInv(plan)'
  <2> SUFFICES ASSUME NEW a \in Places, NEW q \in Devices, NEW w \in Kernels(plan, q),
                      w \in Done(plan, q)', a \in Ins(plan, q, w).writes
               PROVE  \E p \in Devices : \E v \in Kernels(plan, p) :
                        /\ v \in Done(plan, p)' /\ a \in Ins(plan, p, v).writes
                        /\ content'[a] = Ins(plan, p, v).layer
                        /\ p = q => w <= v
    BY DEF ContentInv
  <2>1. CASE a \in Ins(plan, d, i1).writes
    <3>1. content'[a] = Ins(plan, d, i1).layer
      BY <1>1, <1>4, <2>1
    <3>2. d = q => w <= i1
      <4> SUFFICES ASSUME d = q PROVE w <= i1
        OBVIOUS
      <4>1. w \in Done(plan, d) \/ w = i1
        BY <1>6
      <4>2. i1 \in Pending(d) /\ i1 \in Nat /\ w \in Nat
        BY <1>3, <1>4, PendingOrder, KindsOf DEF i1
      <4> QED
        BY <4>1, <4>2, PendingOrder
    <3>3. i1 \in Done(plan, d)'
      BY <1>6
    <3> QED
      BY <1>3, <2>1, <3>1, <3>2, <3>3
  <2>2. CASE a \notin Ins(plan, d, i1).writes
    <3>1. content'[a] = content[a]
      BY <1>1, <1>4, <2>2
    <3>2. w \in Done(plan, q)
      BY <1>6, <2>2
    <3>3. PICK p \in Devices : \E v \in Kernels(plan, p) :
              /\ v \in Done(plan, p) /\ a \in Ins(plan, p, v).writes
              /\ content[a] = Ins(plan, p, v).layer
              /\ p = q => w <= v
      BY <3>2 DEF Inv, ContentInv
    <3> QED
      BY <1>7, <3>1, <3>3
  <2> QED
    BY <2>1, <2>2
<1>11. HostInv(plan)' /\ BarrierInv(plan)' /\ LatestInv(plan)'
  BY <1>1 DEF Inv, HostInv, BarrierInv, LatestInv, Sync!Entered
<1>12. (plan.code = Program[build])'
  BY <1>1 DEF Inv
<1> QED
  BY <1>6, <1>8, <1>9, <1>10, <1>11, <1>12 DEF Inv

(* What a stream takes off while no kernel runs on it. *)
LEMMA TakenOff ==
  ASSUME NEW plan, Lockstep(plan), Inv(plan), NEW d \in Devices, Entries(d) # <<>>,
         Entries(d)[1][1] \notin Kernels(plan, d),
         Pop(d, Compute), UNCHANGED <<running, content, latest, build, host, passed, inside>>
  PROVE  /\ (plan.code = Program[build])'
         /\ HostInv(plan)' /\ BarrierInv(plan)' /\ LatestInv(plan)'
         /\ QueueTypes' /\ QueueOrder(plan)' /\ WaitInv(plan)' /\ ContentInv(plan)'
         /\ \A i : i \in Done(plan, d)' <=> i \in Done(plan, d) \/ i = Entries(d)[1][1]
         /\ \A q \in Devices \ {d} : Done(plan, q)' = Done(plan, q)
<1> DEFINE i1 == Entries(d)[1][1]
<1>1. Compute \in StreamNames
  BY DEF Lockstep, WellTyped
<1>2. /\ running' \in [Devices -> [StreamNames -> BOOLEAN]]
      /\ \A q \in Devices, t \in StreamNames \ {Compute} : running'[q][t] = running[q][t]
      /\ \A q \in Devices \ {d} : running'[q] = running[q]
      /\ running'[d][Compute] = FALSE
  <2>1. running[d][Compute] # TRUE
    BY DEF Inv, QueueOrder
  <2>2. running \in [Devices -> [StreamNames -> BOOLEAN]] /\ running' = running
    BY DEF Inv, QueueTypes
  <2>3. running[d][Compute] \in BOOLEAN
    BY <1>1, <2>2
  <2>4. running[d][Compute] = FALSE
    BY <2>1, <2>3
  <2> QED
    BY <2>2, <2>4
<1>3. /\ QueueTypes' /\ QueueOrder(plan)' /\ WaitInv(plan)'
      /\ \A i : i \in Done(plan, d)' <=> i \in Done(plan, d) \/ i = i1
      /\ \A q \in Devices \ {d} : Done(plan, q)' = Done(plan, q)
  BY <1>2, Executed
<1> HIDE DEF i1
<1>4. ContentInv(plan)'
  <2>1. \A q \in Devices : \A w \in Kernels(plan, q) : w \in Done(plan, q)' <=> w \in Done(plan, q)
    BY <1>3 DEF i1
  <2>2. ContentInv(plan)
    BY DEF Inv
  <2> QED
    BY <2>1, <2>2 DEF ContentInv
<1>5. HostInv(plan)' /\ BarrierInv(plan)' /\ LatestInv(plan)'
  BY DEF Inv, HostInv, BarrierInv, LatestInv, Sync!Entered
<1>6. (plan.code = Program[build])'
  BY DEF Inv
<1> QED
  BY <1>3, <1>4, <1>5, <1>6 DEF i1

LEMMA RecordKept ==
  ASSUME NEW plan, Lockstep(plan), Inv(plan), NEW d \in Devices, NEW s \in StreamNames,
         RecordFires(d, s)
  PROVE  Inv(plan)'
<1> DEFINE i1 == Entries(d)[1][1]
<1>1. /\ AtHead(d, s, "record")
      /\ fired' = [fired EXCEPT ![HeadOf(d, s).event] = Head(queue[d][s])[1]]
      /\ Pop(d, s)
      /\ UNCHANGED <<running, latest, content, build, host, passed, inside>>
  BY DEF RecordFires, hostVars
<1>2. s = Compute /\ Entries(d) # <<>> /\ queue[d][s] = Entries(d)
  BY <1>1, OnlyCompute DEF AtHead
<1>3. Ins(plan, d, i1).do = "record" /\ HeadOf(d, s) = Ins(plan, d, i1) /\ Head(queue[d][s])[1] = i1
  BY <1>1, <1>2, HeadIs DEF AtHead
<1>4. /\ i1 \in Records(plan, d) /\ i1 \in Nat
      /\ i1 \notin Kernels(plan, d) /\ i1 \notin Waits(plan, d)
  BY <1>2, <1>3, HeadIs, KindsOf
<1>5. /\ (plan.code = Program[build])'
      /\ HostInv(plan)' /\ BarrierInv(plan)' /\ LatestInv(plan)'
      /\ QueueTypes' /\ QueueOrder(plan)' /\ WaitInv(plan)' /\ ContentInv(plan)'
      /\ \A i : i \in Done(plan, d)' <=> i \in Done(plan, d) \/ i = i1
      /\ \A q \in Devices \ {d} : Done(plan, q)' = Done(plan, q)
  BY <1>1, <1>2, <1>4, TakenOff
<1>6. \A j \in Queued(plan, d) : j < i1 => j \in Done(plan, d)
  BY <1>2, DoneBeforeHead
<1> HIDE DEF i1
<1>7. \A q \in Devices : \A i \in Done(plan, q) : i \in Done(plan, q)'
  BY <1>5
<1>8. MetInv(plan)'
  <2>1. \A q \in Devices : \A j \in Waits(plan, q) : j \in Done(plan, q)' => j \in Done(plan, q)
    BY <1>4, <1>5
  <2> QED
    BY <1>7, <2>1 DEF Inv, MetInv
<1>9. FiredInv(plan)'
  <2>1. fired \in [Events -> Nat] /\ FiredInv(plan)
    BY DEF Inv, FiredInv
  <2>2. fired' = [fired EXCEPT ![Ins(plan, d, i1).event] = i1] /\ Ins(plan, d, i1).event \in Events
    BY <1>1, <1>3, <1>4, PlanTypes
  <2>3. fired' \in [Events -> Nat]
    BY <1>4, <2>1, <2>2
  <2>4. ASSUME NEW q \in Devices, NEW r \in Records(plan, q),
               r <= fired'[Ins(plan, q, r).event]
        PROVE  r \in Done(plan, q)'
    <3>1. CASE Ins(plan, q, r).event = Ins(plan, d, i1).event
      <4>1. q = d
        BY <1>4, <3>1 DEF Lockstep, EventsDiffer
      <4>2. r <= i1 /\ r \in Queued(plan, d) /\ r \in Nat
        BY <2>1, <2>2, <2>4, <3>1, <4>1, KindsOf
      <4> QED
        BY <1>4, <1>5, <1>6, <4>1, <4>2
    <3>2. CASE Ins(plan, q, r).event # Ins(plan, d, i1).event
      <4>1. fired'[Ins(plan, q, r).event] = fired[Ins(plan, q, r).event]
        BY <2>1, <2>2, <3>2, PlanTypes
      <4> QED
        BY <1>7, <2>1, <2>4, <4>1 DEF FiredInv
    <3> QED
      BY <3>1, <3>2
  <2> QED
    BY <2>3, <2>4 DEF FiredInv
<1> QED
  BY <1>5, <1>8, <1>9 DEF Inv

LEMMA WaitOverKept ==
  ASSUME NEW plan, Lockstep(plan), Inv(plan), NEW d \in Devices, NEW s \in StreamNames,
         WaitIsOver(d, s)
  PROVE  Inv(plan)'
<1> DEFINE i1 == Entries(d)[1][1]
           c1 == Entries(d)[1][2]
<1>1. /\ AtHead(d, s, "wait")
      /\ fired[HeadOf(d, s).event] >= Head(queue[d][s])[2]
      /\ Pop(d, s)
      /\ UNCHANGED <<running, latest, fired, content, build, host, passed, inside>>
  BY DEF WaitIsOver, hostVars
<1>2. s = Compute /\ Entries(d) # <<>> /\ queue[d][s] = Entries(d)
  BY <1>1, OnlyCompute DEF AtHead
<1>3. /\ Ins(plan, d, i1).do = "wait" /\ HeadOf(d, s) = Ins(plan, d, i1)
      /\ Head(queue[d][s])[2] = c1
  BY <1>1, <1>2, HeadIs DEF AtHead
<1>4. i1 \in Waits(plan, d) /\ i1 \notin Kernels(plan, d)
  BY <1>2, <1>3, HeadIs, KindsOf
<1>5. /\ (plan.code = Program[build])'
      /\ HostInv(plan)' /\ BarrierInv(plan)' /\ LatestInv(plan)'
      /\ QueueTypes' /\ QueueOrder(plan)' /\ WaitInv(plan)' /\ ContentInv(plan)'
      /\ \A i : i \in Done(plan, d)' <=> i \in Done(plan, d) \/ i = i1
      /\ \A q \in Devices \ {d} : Done(plan, q)' = Done(plan, q)
  BY <1>1, <1>2, <1>4, TakenOff
<1>6. PICK q1 \in Devices : Meets(plan, d, i1, q1, c1)
  BY <1>2, <1>4, HeadIs DEF Inv, WaitInv
<1> HIDE DEF i1, c1
<1>7. \A q \in Devices : \A i \in Done(plan, q) : i \in Done(plan, q)'
  BY <1>5
<1>8. FiredInv(plan)'
  BY <1>1, <1>7 DEF Inv, FiredInv
<1>9. /\ c1 \in Records(plan, q1) /\ Ins(plan, q1, c1).event = Ins(plan, d, i1).event
      /\ Seg(plan, q1, c1) = Seg(plan, d, i1)
  BY <1>6 DEF Meets
<1>10. c1 \in Done(plan, q1)
  <2>1. c1 <= fired[Ins(plan, q1, c1).event]
    <3>1. fired[Ins(plan, d, i1).event] >= c1
      BY <1>1, <1>3
    <3> QED
      BY <1>9, <3>1
  <2> QED
    BY <1>9, <2>1 DEF Inv, FiredInv
<1>11. MetInv(plan)'
  <2> SUFFICES ASSUME NEW p \in Devices, NEW q \in Devices,
                      NEW j \in Waits(plan, p), NEW r \in Records(plan, q),
                      j \in Done(plan, p)',
                      Ins(plan, q, r).event = Ins(plan, p, j).event,
                      Seg(plan, q, r) = Seg(plan, p, j)
               PROVE  r \in Done(plan, q)'
    BY DEF MetInv
  <2>1. CASE j \in Done(plan, p)
    BY <1>7, <2>1 DEF Inv, MetInv
  <2>2. CASE p = d /\ j = i1
    <3>1. Ins(plan, q, r).event = Ins(plan, q1, c1).event /\ Seg(plan, q, r) = Seg(plan, q1, c1)
      BY <1>9, <2>2
    <3>2. q = q1 /\ r \in 1 .. Len(plan.code[q1]) /\ c1 \in 1 .. Len(plan.code[q1])
      BY <1>9, <3>1, KindsOf DEF Lockstep, EventsDiffer
    <3>3. Seg(plan, q1, r) \in Nat /\ Seg(plan, q1, c1) \in Nat
      BY <3>2, PlanTypes
    <3>4. r = c1
      BY <1>9, <3>1, <3>2, <3>3 DEF Lockstep, EventsDiffer
    <3> QED
      BY <1>7, <1>10, <3>2, <3>4
  <2> QED
    BY <1>5, <2>1, <2>2
<1> QED
  BY <1>5, <1>8, <1>11 DEF Inv
-----------------------------------------------------------------------------
LEMMA InitHolds ==
  ASSUME NEW plan, Lockstep(plan), Init, plan.code = Program[build]
  PROVE  Inv(plan)
<1>1. /\ host = [d \in Devices |-> 1]
      /\ queue = [d \in Devices |-> [s \in StreamNames |-> <<>>]]
      /\ running = [d \in Devices |-> [s \in StreamNames |-> FALSE]]
      /\ latest = [e \in Events |-> 0] /\ fired = [e \in Events |-> 0]
      /\ content = [a \in Places |-> 0]
      /\ passed = [d \in Devices |-> 0] /\ inside = {}
  BY DEF Init, Sync!RendezvousInit
<1>2. HostInv(plan)
  BY <1>1, PlanTypes DEF HostInv
<1>3. QueueTypes
  <2>1. <<>> \in Seq(Nat \X Nat)
    OBVIOUS
  <2> QED
    BY <1>1, <2>1 DEF QueueTypes
<1>4. Compute \in StreamNames
  BY DEF Lockstep, WellTyped
<1>5. \A d \in Devices : Entries(d) = <<>> /\ Len(Entries(d)) = 0
  BY <1>1, <1>4 DEF Entries
<1>6. \A d \in Devices : Done(plan, d) = {}
  <2>1. \A d \in Devices : \A i \in Queued(plan, d) : ~(i < host[d])
    BY <1>1, KindsOf
  <2> QED
    BY <2>1 DEF Done
<1>7. QueueOrder(plan)
  BY <1>1, <1>4, <1>5, <1>6 DEF QueueOrder
<1>8. BarrierInv(plan)
  BY <1>1 DEF BarrierInv, Lockstep, CountsBarriers, Sync!Entered
<1>9. LatestInv(plan)
  <2>1. \A d \in Devices : \A r \in Records(plan, d) : ~(r < host[d])
    BY <1>1, KindsOf
  <2> QED
    BY <1>1, <2>1 DEF LatestInv
<1>10. WaitInv(plan)
  BY <1>5 DEF WaitInv
<1>11. FiredInv(plan)
  <2>1. \A q \in Devices : \A r \in Records(plan, q) : ~(r <= fired[Ins(plan, q, r).event])
    BY <1>1, PlanTypes, KindsOf
  <2> QED
    BY <1>1, <2>1 DEF FiredInv
<1>12. MetInv(plan) /\ ContentInv(plan)
  BY <1>6 DEF MetInv, ContentInv
<1> QED
  BY <1>2, <1>3, <1>7, <1>8, <1>9, <1>10, <1>11, <1>12 DEF Inv

LEMMA NextKeeps ==
  ASSUME NEW plan, Lockstep(plan), Inv(plan), [Next]_vars
  PROVE  Inv(plan)'
<1>1. CASE UNCHANGED vars
  <2>1. UNCHANGED <<build, host, queue, running, latest, fired, content, passed, inside>>
    BY <1>1 DEF vars
  <2>2. \A q \in Devices : Entries(q)' = Entries(q) /\ Done(plan, q)' = Done(plan, q)
    BY <2>1 DEF Entries, Done, Pending
  <2>3. FiredInv(plan)' /\ MetInv(plan)' /\ ContentInv(plan)'
    BY <2>1, <2>2, Kept
  <2>4. HostInv(plan)' /\ BarrierInv(plan)' /\ LatestInv(plan)'
    BY <2>1 DEF Inv, HostInv, BarrierInv, LatestInv, Sync!Entered
  <2>5. WaitInv(plan)'
    BY <2>1, WaitKept
  <2>6. QueueTypes' /\ QueueOrder(plan)' /\ (plan.code = Program[build])'
    BY <2>1, <2>2 DEF Inv, QueueTypes, QueueOrder
  <2> QED
    BY <2>3, <2>4, <2>5, <2>6 DEF Inv
<1>2. CASE Terminated
  BY <1>1, <1>2 DEF Terminated
<1>3. ASSUME NEW d \in Devices, Host(d) PROVE Inv(plan)'
  BY <1>3, KernelIssued, RecordIssued, WaitIssued, Drained, Arrived, Left DEF Host
<1>4. ASSUME NEW d \in Devices, NEW s \in StreamNames, Stream(d, s) PROVE Inv(plan)'
  BY <1>4, BeginKept, EndKept, RecordKept, WaitOverKept DEF Stream
<1> QED
  BY <1>1, <1>2, <1>3, <1>4 DEF Next

(* What the lockstep of a program is for: in every behaviour of the host   *)
(* threads and streams that executes it, no two kernels race, every kernel *)
(* reads the data of its own layer, and every wait refers to the record of *)
(* its own layer.                                                          *)
THEOREM LockstepOrdered ==
  ASSUME NEW plan, Lockstep(plan), NEW b \in Builds, plan.code = Program[b]
  PROVE  Spec => [](build = b => Ordered /\ WaitsMatch)
<1>1. Init => (build = b => Inv(plan))
  BY InitHolds
<1>2. (build = b => Inv(plan)) /\ [Next]_vars => (build = b => Inv(plan))'
  <2> SUFFICES ASSUME build = b => Inv(plan), [Next]_vars, build' = b
               PROVE  Inv(plan)'
    OBVIOUS
  <2>1. build' = build
    BY DEF Next, Terminated, vars, hostVars, Host, Stream, IssueKernel, IssueRecord, IssueWait,
           Drain, Arrive, Leave, KernelBegins, KernelEnds, RecordFires, WaitIsOver
  <2> QED
    BY <2>1, NextKeeps
<1>3. (build = b => Inv(plan)) => (build = b => Ordered /\ WaitsMatch)
  BY InvNoRace, InvFreshReads, InvWaitsMatch DEF Ordered
<1> QED
  BY <1>1, <1>2, <1>3, PTL DEF Spec
-----------------------------------------------------------------------------
(* Where the instructions of a layer are.                                  *)
LEMMA Sizes ==
  /\ EP \in Nat \ {0} /\ Layers \in Nat \ {0} /\ Number \in Nat
  /\ Stride \in Nat /\ Stride = 2 * EP + 6 /\ LayerNumbers = 1 .. Number
  /\ \A n \in 1 .. Number + 1 :
       /\ LayerOf(n) \in 0 .. Layers - 1
       /\ (n - 1) \div Layers \in Nat /\ (n - 1) * Stride \in Nat
       /\ LastAt(n) \in {Stride, Stride + 2}
<1>1. EP \in Nat \ {0} /\ Layers \in Nat \ {0} /\ Steps \in Nat
  BY ExchangeAssumption
<1>2. Number \in Nat /\ LayerNumbers = 1 .. Number
  BY <1>1, ProductNat DEF Number, LayerNumbers
<1>3. Stride \in Nat /\ Stride = 2 * EP + 6
  BY <1>1 DEF Stride
<1>4. ASSUME NEW n \in 1 .. Number + 1
      PROVE  /\ LayerOf(n) \in 0 .. Layers - 1
             /\ (n - 1) \div Layers \in Nat /\ (n - 1) * Stride \in Nat
  <2>1. n - 1 \in Nat
    BY <1>2
  <2> QED
    BY <1>1, <1>3, <2>1, Division, ProductNat DEF LayerOf
<1>5. \A n \in 1 .. Number + 1 : LastAt(n) \in {Stride, Stride + 2}
  BY DEF LastAt
<1> QED
  BY <1>1, <1>2, <1>3, <1>4, <1>5

LEMMA BaseTypes ==
  ASSUME NEW f \in {0, 1}, NEW n \in 1 .. Number + 1
  PROVE  /\ Base(f, n) \in Nat /\ BarBase(f, n) \in Nat
         /\ FirstAt(f, n) \in {-1, 1}
         /\ n > 1 => FirstAt(f, n) = 1
         /\ n = 1 => Base(f, n) = 2 * f /\ BarBase(f, n) = f /\ FirstAt(f, n) = 1 - 2 * f
<1>1. n \in Nat /\ n - 1 \in Nat /\ (n - 1) \div Layers \in Nat /\ (n - 1) * Stride \in Nat
  BY Sizes
<1> DEFINE a == (n - 1) \div Layers
           c == (n - 1) * Stride
<1>2. n = 1 => a = 0 /\ c = 0
  <2>1. 0 \div Layers = 0 /\ 0 * Stride = 0
    <3>1. Layers \in Nat \ {0} /\ Stride \in Nat
      BY Sizes
    <3>2. (0 * Layers + 0) \div Layers = 0 /\ 0 * Layers + 0 = 0
      BY <3>1, DivisionUnique
    <3> QED
      BY <3>1, <3>2
  <2> QED
    BY <2>1
<1>3. Base(f, n) = c + 2 * a + 2 * f /\ BarBase(f, n) = 2 * (n - 1) + a + f
  BY DEF Base, BarBase
<1>4. FirstAt(f, n) = IF n = 1 THEN 1 - 2 * f ELSE 1
  BY DEF FirstAt
<1>5. a \in Nat /\ c \in Nat
  BY <1>1
<1> HIDE DEF a, c
<1> QED
  BY <1>1, <1>2, <1>3, <1>4, <1>5

LEMMA LayerTypes ==
  ASSUME NEW f \in {0, 1}
  PROVE  /\ Number \in Nat
         /\ \A m \in 1 .. Number + 1 : Base(f, m) \in Nat /\ FirstAt(f, m) \in {-1, 1}
                                        /\ LastAt(m) \in Nat /\ (m > 1 => FirstAt(f, m) = 1)
<1>1. ASSUME NEW m \in 1 .. Number + 1
      PROVE  Base(f, m) \in Nat /\ FirstAt(f, m) \in {-1, 1} /\ LastAt(m) \in Nat
               /\ (m > 1 => FirstAt(f, m) = 1)
  <2>1. Base(f, m) \in Nat /\ FirstAt(f, m) \in {-1, 1} /\ (m > 1 => FirstAt(f, m) = 1)
    BY BaseTypes
  <2>2. LastAt(m) \in Nat
    BY Sizes
  <2> QED
    BY <2>1, <2>2
<1> QED
  BY <1>1, Sizes

LEMMA NextBase ==
  ASSUME NEW f \in {0, 1}, NEW n \in 1 .. Number
  PROVE  /\ Base(f, n + 1) = Base(f, n) + LastAt(n)
         /\ BarBase(f, n + 1) = BarBase(f, n) + 2 + (IF LastAt(n) = Stride + 2 THEN 1 ELSE 0)
<1>1. /\ n \in Nat /\ n - 1 \in Nat /\ Layers \in Nat \ {0} /\ Stride \in Nat
      /\ n \in 1 .. Number + 1 /\ (n + 1) - 1 = n
  BY Sizes
<1> DEFINE a == (n - 1) \div Layers
           b == (n - 1) % Layers
<1>2. a \in Nat /\ b \in 0 .. Layers - 1 /\ n - 1 = a * Layers + b
  BY <1>1, Division
<1>3. n \div Layers = IF b = Layers - 1 THEN a + 1 ELSE a
  <2>1. a * Layers \in Nat /\ (a + 1) * Layers = a * Layers + Layers
    BY <1>1, <1>2, ProductNat
  <2> HIDE DEF a, b
  <2>2. CASE b = Layers - 1
    <3>1. n = (a + 1) * Layers + 0
      BY <1>1, <1>2, <2>1, <2>2
    <3>2. a + 1 \in Nat /\ 0 \in 0 .. Layers - 1
      BY <1>1, <1>2
    <3>3. ((a + 1) * Layers + 0) \div Layers = a + 1
      BY <1>1, <3>2, DivisionUnique
    <3> QED
      BY <2>2, <3>1, <3>3
  <2>3. CASE b # Layers - 1
    <3>1. n = a * Layers + (b + 1) /\ b + 1 \in 0 .. Layers - 1
      BY <1>1, <1>2, <2>1, <2>3
    <3>2. (a * Layers + (b + 1)) \div Layers = a
      BY <1>1, <1>2, <3>1, DivisionUnique
    <3> QED
      BY <2>3, <3>1, <3>2
  <2> QED
    BY <2>2, <2>3
<1>4. n * Stride = (n - 1) * Stride + Stride /\ (n - 1) * Stride \in Nat
  BY <1>1, Sizes
<1>5. LastAt(n) = IF b = Layers - 1 THEN Stride + 2 ELSE Stride
  BY DEF LastAt, LayerOf
<1>6. Base(f, n) = (n - 1) * Stride + 2 * a + 2 * f /\ BarBase(f, n) = 2 * (n - 1) + a + f
  BY DEF Base, BarBase
<1>7. /\ Base(f, n + 1) = n * Stride + 2 * (n \div Layers) + 2 * f
      /\ BarBase(f, n + 1) = 2 * n + (n \div Layers) + f
  BY <1>1 DEF Base, BarBase
<1> HIDE DEF a, b
<1>8. Base(f, n + 1) = Base(f, n) + LastAt(n)
  <2>1. CASE b = Layers - 1
    BY <1>1, <1>2, <1>3, <1>4, <1>5, <1>6, <1>7, <2>1
  <2>2. CASE b # Layers - 1
    BY <1>1, <1>2, <1>3, <1>4, <1>5, <1>6, <1>7, <2>2
  <2> QED
    BY <2>1, <2>2
<1>9. BarBase(f, n + 1) = BarBase(f, n) + 2 + (IF LastAt(n) = Stride + 2 THEN 1 ELSE 0)
  <2>1. CASE b = Layers - 1
    <3>1. LastAt(n) = Stride + 2 /\ n \div Layers = a + 1
      BY <1>3, <1>5, <2>1
    <3> QED
      BY <1>1, <1>2, <1>6, <1>7, <3>1
  <2>2. CASE b # Layers - 1
    <3>1. LastAt(n) = Stride /\ n \div Layers = a /\ LastAt(n) # Stride + 2
      BY <1>1, <1>3, <1>5, <2>2
    <3> QED
      BY <1>1, <1>2, <1>6, <1>7, <3>1
  <2> QED
    BY <2>1, <2>2
<1> QED
  BY <1>8, <1>9

(* Layers follow each other.                                               *)
LEMMA LaterBase ==
  ASSUME NEW f \in {0, 1}, NEW n \in 1 .. Number + 1, NEW m \in 1 .. Number + 1, n < m
  PROVE  /\ Base(f, n) + LastAt(n) <= Base(f, m)
         /\ BarBase(f, n) + 2 * (m - n) <= BarBase(f, m)
         /\ BarBase(f, n + 1) <= BarBase(f, m)
<1>1. n \in 1 .. Number /\ n + 1 \in 1 .. Number + 1 /\ n + 1 <= m
  BY Sizes
<1>2. \A k, l \in 1 .. Number + 1 : k <= l =>
        /\ (k - 1) * Stride <= (l - 1) * Stride
        /\ (k - 1) \div Layers <= (l - 1) \div Layers
  <2> SUFFICES ASSUME NEW k \in 1 .. Number + 1, NEW l \in 1 .. Number + 1, k <= l
               PROVE  /\ (k - 1) * Stride <= (l - 1) * Stride
                      /\ (k - 1) \div Layers <= (l - 1) \div Layers
    OBVIOUS
  <2>1. k - 1 \in Nat /\ l - 1 \in Nat /\ k - 1 <= l - 1 /\ Stride \in Nat /\ Layers \in Nat \ {0}
    BY Sizes
  <2>2. (k - 1) \div Layers <= (l - 1) \div Layers
    BY <2>1, DivisionMonotone
  <2>3. (k - 1) * Stride <= (l - 1) * Stride
    <3>1. CASE k = l
      BY <2>1, <3>1, ProductNat
    <3>2. CASE k < l
      <4>1. (k - 1) * Stride + Stride <= (l - 1) * Stride
        BY <2>1, <3>2, NextMultiple
      <4>2. (k - 1) * Stride \in Nat /\ (l - 1) * Stride \in Nat
        BY <2>1, ProductNat
      <4> QED
        BY <2>1, <4>1, <4>2
    <3> QED
      BY <2>1, <3>1, <3>2
  <2> QED
    BY <2>2, <2>3
<1>3. /\ \A k \in 1 .. Number + 1 : (k - 1) * Stride \in Nat /\ (k - 1) \div Layers \in Nat
      /\ Number \in Nat
  BY Sizes
<1>7. ASSUME NEW k \in 1 .. Number + 1, NEW l \in 1 .. Number + 1, k <= l
      PROVE  Base(f, k) <= Base(f, l) /\ BarBase(f, k) <= BarBase(f, l)
  <2> DEFINE a == (k - 1) * Stride
             b == (l - 1) * Stride
             u == (k - 1) \div Layers
             v == (l - 1) \div Layers
  <2>1. a <= b /\ u <= v /\ a \in Nat /\ b \in Nat /\ u \in Nat /\ v \in Nat
    BY <1>2, <1>3, <1>7
  <2>2. /\ Base(f, k) = a + 2 * u + 2 * f /\ Base(f, l) = b + 2 * v + 2 * f
        /\ BarBase(f, k) = 2 * (k - 1) + u + f /\ BarBase(f, l) = 2 * (l - 1) + v + f
    BY DEF Base, BarBase
  <2> HIDE DEF a, b, u, v
  <2> QED
    BY <1>3, <1>7, <2>1, <2>2
<1>4. Base(f, n + 1) <= Base(f, m)
  BY <1>1, <1>7
<1>5. BarBase(f, n + 1) <= BarBase(f, m)
  BY <1>1, <1>7
<1>6. BarBase(f, n) + 2 * (m - n) <= BarBase(f, m)
  BY <1>2, <1>3 DEF BarBase
<1> QED
  BY <1>1, <1>4, <1>5, <1>6, NextBase

LEMMA Placed ==
  ASSUME NEW f \in {0, 1}, NEW n \in 1 .. Number + 1, NEW p \in FirstAt(f, n) .. LastAt(n)
  PROVE  LayerAt(f, Base(f, n) + p) = n /\ Local(f, Base(f, n) + p) = p
<1> DEFINE i == Base(f, n) + p
           Within(m) == Base(f, m) + FirstAt(f, m) <= i /\ i <= Base(f, m) + LastAt(m)
<1>1. /\ Base(f, n) \in Nat /\ p \in Int /\ Number \in Nat
      /\ \A m \in 1 .. Number + 1 : Base(f, m) \in Nat /\ FirstAt(f, m) \in {-1, 1}
                                     /\ LastAt(m) \in Nat /\ (m > 1 => FirstAt(f, m) = 1)
  BY LayerTypes
<1>2. Within(n)
  BY <1>1
<1>3. ASSUME NEW m \in 1 .. Number + 1, Within(m) PROVE m = n
  <2>1. CASE m < n
    <3>1. Base(f, m) + LastAt(m) <= Base(f, n) /\ FirstAt(f, n) = 1
      BY <1>1, <2>1, LaterBase
    <3> QED
      BY <1>1, <1>3, <3>1
  <2>2. CASE n < m
    <3>1. Base(f, n) + LastAt(n) <= Base(f, m) /\ FirstAt(f, m) = 1
      BY <1>1, <2>2, LaterBase
    <3> QED
      BY <1>1, <1>3, <3>1
  <2> QED
    BY <1>1, <2>1, <2>2
<1>4. LayerAt(f, i) = CHOOSE m \in 1 .. Number + 1 : Within(m)
  BY DEF LayerAt
<1> HIDE DEF Within
<1>5. LayerAt(f, i) = n
  BY <1>2, <1>3, <1>4
<1>6. Local(f, i) = p
  BY <1>1, <1>5 DEF Local
<1> QED
  BY <1>5, <1>6

Length(f) == Base(f, Number + 1) + FirstAt(f, Number + 1) - 1

LEMMA Located ==
  ASSUME NEW f \in {0, 1}, NEW i \in 1 .. Length(f)
  PROVE  /\ LayerAt(f, i) \in 1 .. Number
         /\ Local(f, i) \in FirstAt(f, LayerAt(f, i)) .. LastAt(LayerAt(f, i))
         /\ i = Base(f, LayerAt(f, i)) + Local(f, i)
<1> DEFINE T == {n \in 1 .. Number + 1 : Base(f, n) + FirstAt(f, n) <= i}
<1>1. /\ Number \in Nat
      /\ \A m \in 1 .. Number + 1 : Base(f, m) \in Nat /\ FirstAt(f, m) \in {-1, 1}
                                     /\ LastAt(m) \in Nat /\ (m > 1 => FirstAt(f, m) = 1)
  BY LayerTypes
<1>2. i \in Nat /\ i >= 1 /\ Length(f) = Base(f, Number + 1) + FirstAt(f, Number + 1) - 1
      /\ i <= Length(f) /\ Length(f) \in Int
  BY <1>1 DEF Length
<1>3. 1 \in T
  BY <1>1, <1>2, BaseTypes
<1>4. T \subseteq 1 .. Number + 1
  OBVIOUS
<1>5. PICK n \in T : \A m \in T : m <= n
  <2> HIDE DEF T
  <2>1. T \in SUBSET Int /\ T # {}
    BY <1>1, <1>3, <1>4
  <2>2. IsFiniteSet(T)
    <3>1. IsFiniteSet(1 .. Number + 1)
      <4>1. 1 \in Int /\ Number + 1 \in Int
        BY <1>1
      <4> QED
        BY <4>1, FS_Interval
    <3> QED
      BY <1>4, <3>1, FS_Subset
  <2>3. \E x \in T : \A y \in T : x >= y
    BY <2>1, <2>2, LargestNumber
  <2> QED
    BY <1>1, <1>4, <2>3
<1>6. n \in 1 .. Number
  <2>1. Number + 1 \notin T
    BY <1>1, <1>2
  <2> QED
    BY <1>1, <1>4, <2>1
<1>7. n + 1 \in 1 .. Number + 1 /\ n + 1 \notin T
  BY <1>1, <1>5, <1>6
<1>8. /\ i < Base(f, n + 1) + FirstAt(f, n + 1) /\ FirstAt(f, n + 1) = 1
      /\ Base(f, n + 1) = Base(f, n) + LastAt(n)
  BY <1>1, <1>2, <1>6, <1>7, NextBase
<1>9. Base(f, n) + FirstAt(f, n) <= i
  OBVIOUS
<1> HIDE DEF T
<1>10. i - Base(f, n) \in FirstAt(f, n) .. LastAt(n) /\ Base(f, n) + (i - Base(f, n)) = i
  BY <1>1, <1>2, <1>6, <1>8, <1>9
<1>11. LayerAt(f, i) = n /\ Local(f, i) = i - Base(f, n)
  BY <1>1, <1>6, <1>10, Placed
<1> QED
  BY <1>6, <1>10, <1>11
-----------------------------------------------------------------------------
(* The shape of the two default programs.                                  *)
RecordAt(h) == IF h = 1 THEN 2 ELSE EP + 5
Triples == {1, 2} \X Ranks \X LayerNumbers

OthersActs(d) == {Acts(q) : q \in Peers(d)}
PulledActs(d) == {PeerActs(d, q) : q \in Peers(d)}
Sums(d, n) == {EAgg(d, q, n) : q \in Peers(d)}
Addends(d, n) == {Acts(d)} \cup {EAgg(q, d, n) : q \in Peers(d)}

IsKernel(i, n, reads, writes) ==
  i.do = "kernel" /\ i.layer = n /\ i.reads = reads /\ i.writes = writes

EventOf(ev, h, d, n) == ev[<<h, d, n>>]

Synchronises(ev, code, d, n, h, b) ==
  /\ /\ code[d][b].do = "record" /\ code[d][b].layer = n
     /\ code[d][b].event = EventOf(ev, h, d, n)
  /\ code[d][b + 1].do = "barrier"
  /\ \A p \in 2 .. EP :
       /\ code[d][b + p].do = "wait" /\ code[d][b + p].layer = n
       /\ \E q \in Peers(d) : code[d][b + p].event = EventOf(ev, h, q, n)
  /\ \A q \in Peers(d) : \E p \in 2 .. EP : code[d][b + p].event = EventOf(ev, h, q, n)

LayerIs(f, ev, code, d, n) ==
  LET b == Base(f, n)
  IN  /\ IsKernel(code[d][b + FirstAt(f, n)], n, {}, {Acts(d)})
      /\ FirstAt(f, n) = -1 => /\ code[d][b + 0].do = "drain"
                               /\ code[d][b + 1].do = "barrier"
      /\ \A h \in {1, 2} : Synchronises(ev, code, d, n, h, b + RecordAt(h))
      /\ IsKernel(code[d][b + (EP + 3)], n, OthersActs(d),
                  PulledActs(d))
      /\ IsKernel(code[d][b + (EP + 4)], n, AllActs(d), Sums(d, n))
      /\ \E reads : /\ IsKernel(code[d][b + Stride], n, reads, {})
                    /\ reads \subseteq Addends(d, n)
      /\ LastAt(n) = Stride + 2 => /\ code[d][b + (Stride + 1)].do = "drain"
                                   /\ code[d][b + (Stride + 2)].do = "barrier"

Layered(f, ev, code) ==
  /\ f \in {0, 1}
  /\ Devices = Ranks /\ Compute \in StreamNames
  /\ ev \in [Triples -> Events]
  /\ \A x, y \in Triples : ev[x] = ev[y] => x[1] = y[1] /\ x[2] = y[2]
  /\ code \in [Ranks -> Seq(InstructionSet)]
  /\ \A d \in Ranks : /\ Len(code[d]) = Length(f)
                      /\ \A i \in 1 .. Length(f) : code[d][i].on = Compute
                      /\ \A n \in LayerNumbers : LayerIs(f, ev, code, d, n)

LEMMA LengthIs ==
  ASSUME NEW f \in {0, 1}
  PROVE  /\ Length(f) \in Nat
         /\ Length(f) + 1 = Base(f, Number + 1) + FirstAt(f, Number + 1)
         /\ \A n \in LayerNumbers : \A p \in FirstAt(f, n) .. LastAt(n) :
              Base(f, n) + p \in 1 .. Length(f)
<1>1. /\ Number \in Nat /\ LayerNumbers = 1 .. Number
      /\ \A m \in 1 .. Number + 1 : Base(f, m) \in Nat /\ FirstAt(f, m) \in {-1, 1}
                                     /\ LastAt(m) \in Nat /\ (m > 1 => FirstAt(f, m) = 1)
  BY LayerTypes, Sizes
<1>2. Base(f, 1) = 2 * f /\ FirstAt(f, 1) = 1 - 2 * f
  BY <1>1, BaseTypes
<1>3. Length(f) = Base(f, Number + 1) + FirstAt(f, Number + 1) - 1
  BY DEF Length
<1>4. Number + 1 \in 1 .. Number + 1
  BY <1>1
<1>5. Length(f) \in Nat /\ Length(f) + 1 = Base(f, Number + 1) + FirstAt(f, Number + 1)
  <2>1. CASE Number = 0
    BY <1>1, <1>2, <1>3, <2>1
  <2>2. CASE Number # 0
    BY <1>1, <1>3, <1>4, <2>2
  <2> QED
    BY <2>1, <2>2
<1>6. ASSUME NEW n \in LayerNumbers, NEW p \in FirstAt(f, n) .. LastAt(n)
      PROVE  Base(f, n) + p \in 1 .. Length(f)
  <2>1. n \in 1 .. Number /\ n < Number + 1 /\ n \in 1 .. Number + 1
    BY <1>1
  <2>5. Base(f, n) + LastAt(n) <= Base(f, Number + 1)
    BY <1>4, <2>1, LaterBase
  <2>6. Number + 1 > 1
    BY <1>1, <2>1
  <2>2. Base(f, n) + LastAt(n) <= Base(f, Number + 1) /\ FirstAt(f, Number + 1) = 1
    BY <1>1, <1>4, <2>5, <2>6
  <2>3. Base(f, n) + FirstAt(f, n) >= 1
    BY <1>1, <1>2, <2>1
  <2>4. p \in Int /\ FirstAt(f, n) <= p /\ p <= LastAt(n)
    BY <1>1, <2>1
  <2>7. /\ Base(f, n) \in Nat /\ LastAt(n) \in Nat /\ FirstAt(f, n) \in Int
        /\ Base(f, Number + 1) \in Nat
    BY <1>1, <1>4, <2>1
  <2>8. Length(f) = Base(f, Number + 1)
    BY <1>3, <2>2, <2>7
  <2> QED
    BY <2>2, <2>3, <2>4, <2>7, <2>8
<1> QED
  BY <1>5, <1>6

LEMMA PlanAt ==
  ASSUME NEW f, NEW ev, NEW code, Layered(f, ev, code), NEW d \in Devices,
         NEW n \in LayerNumbers, NEW p \in FirstAt(f, n) .. LastAt(n)
  PROVE  /\ Base(f, n) + p \in 1 .. Len(code[d])
         /\ Ins(PlanOf(f, code), d, Base(f, n) + p) = code[d][Base(f, n) + p]
         /\ Seg(PlanOf(f, code), d, Base(f, n) + p) = SegOf(n, p)
         /\ Bars(PlanOf(f, code), d, Base(f, n) + p) = BarsOf(f, n, p)
<1> DEFINE i == Base(f, n) + p
<1>1. f \in {0, 1} /\ Devices = Ranks /\ Len(code[d]) = Length(f) /\ Length(f) \in Nat
  BY LengthIs DEF Layered
<1>2. i \in 1 .. Len(code[d])
  BY <1>1, LengthIs
<1>3. n \in 1 .. Number + 1
  BY Sizes
<1>4. LayerAt(f, i) = n /\ Local(f, i) = p
  BY <1>1, <1>3, Placed
<1> HIDE DEF i
<1>5. i \in 1 .. Len(code[d]) + 1
  BY <1>1, <1>2
<1>6. Ins(PlanOf(f, code), d, i) = code[d][i]
  BY DEF Ins, PlanOf
<1>7. Seg(PlanOf(f, code), d, i) = SegOf(n, p)
  BY <1>1, <1>2, <1>4 DEF Seg, PlanOf
<1>8. Bars(PlanOf(f, code), d, i) = BarsOf(f, n, p)
  BY <1>1, <1>4, <1>5 DEF Bars, PlanOf
<1> QED
  BY <1>2, <1>6, <1>7, <1>8 DEF i

(* What is at each place of a layer.                                       *)
LEMMA PlaceKind ==
  ASSUME NEW f, NEW ev, NEW code, Layered(f, ev, code), NEW d \in Devices,
         NEW n \in LayerNumbers, NEW p \in FirstAt(f, n) .. LastAt(n)
  PROVE  LET i == code[d][Base(f, n) + p]
         IN  /\ i.do = "kernel" <=> p \in {FirstAt(f, n), EP + 3, EP + 4, Stride}
             /\ i.do = "record" <=> p \in {2, EP + 5}
             /\ i.do = "wait" <=> p \in (4 .. EP + 2) \cup (EP + 7 .. Stride - 1)
             /\ i.do = "barrier" <=> \/ p \in {3, EP + 6, Stride + 2}
                                     \/ p = 1 /\ FirstAt(f, n) = -1
<1> DEFINE b == Base(f, n)
           i == code[d][b + p]
<1>1. /\ f \in {0, 1} /\ LayerIs(f, ev, code, d, n)
  BY DEF Layered
<1>2. /\ n \in 1 .. Number + 1 /\ EP \in Nat \ {0} /\ Stride = 2 * EP + 6
      /\ FirstAt(f, n) \in {-1, 1} /\ LastAt(n) \in {Stride, Stride + 2} /\ b \in Nat
      /\ Number \in Nat
  BY <1>1, LayerTypes, Sizes
<1>3. /\ code[d][b + FirstAt(f, n)].do = "kernel"
      /\ FirstAt(f, n) = -1 => code[d][b + 0].do = "drain" /\ code[d][b + 1].do = "barrier"
      /\ code[d][b + (EP + 3)].do = "kernel"
      /\ code[d][b + (EP + 4)].do = "kernel"
      /\ code[d][b + Stride].do = "kernel"
      /\ LastAt(n) = Stride + 2 => /\ code[d][b + (Stride + 1)].do = "drain"
                                   /\ code[d][b + (Stride + 2)].do = "barrier"
  BY <1>1 DEF LayerIs, IsKernel
<1>4. /\ code[d][b + 2].do = "record" /\ code[d][(b + 2) + 1].do = "barrier"
      /\ \A k \in 2 .. EP : code[d][(b + 2) + k].do = "wait"
      /\ code[d][b + (EP + 5)].do = "record" /\ code[d][(b + (EP + 5)) + 1].do = "barrier"
      /\ \A k \in 2 .. EP : code[d][(b + (EP + 5)) + k].do = "wait"
  <2>1. /\ Synchronises(ev, code, d, n, 1, b + RecordAt(1))
        /\ Synchronises(ev, code, d, n, 2, b + RecordAt(2))
    BY <1>1 DEF LayerIs
  <2>2. RecordAt(1) = 2 /\ RecordAt(2) = EP + 5
    BY DEF RecordAt
  <2> QED
    BY <2>1, <2>2 DEF Synchronises
<1> HIDE DEF b
<1>5. /\ (b + 2) + 1 = b + 3 /\ (b + (EP + 5)) + 1 = b + (EP + 6)
      /\ \A k \in 4 .. EP + 2 : k - 2 \in 2 .. EP /\ (b + 2) + (k - 2) = b + k
      /\ \A k \in EP + 7 .. Stride - 1 :
           k - (EP + 5) \in 2 .. EP /\ (b + (EP + 5)) + (k - (EP + 5)) = b + k
  BY <1>2
<1>6. /\ code[d][b + 3].do = "barrier" /\ code[d][b + (EP + 6)].do = "barrier"
      /\ \A k \in 4 .. EP + 2 : code[d][b + k].do = "wait"
      /\ \A k \in EP + 7 .. Stride - 1 : code[d][b + k].do = "wait"
  <2>1. ASSUME NEW k \in 4 .. EP + 2 PROVE code[d][b + k].do = "wait"
    <3>1. k - 2 \in 2 .. EP /\ (b + 2) + (k - 2) = b + k
      BY <1>5
    <3>2. code[d][(b + 2) + (k - 2)].do = "wait"
      BY <1>4, <3>1
    <3> QED
      BY <3>1, <3>2
  <2>2. ASSUME NEW k \in EP + 7 .. Stride - 1 PROVE code[d][b + k].do = "wait"
    <3>1. k - (EP + 5) \in 2 .. EP /\ (b + (EP + 5)) + (k - (EP + 5)) = b + k
      BY <1>5
    <3>2. code[d][(b + (EP + 5)) + (k - (EP + 5))].do = "wait"
      BY <1>4, <3>1
    <3> QED
      BY <3>1, <3>2
  <2> QED
    BY <1>4, <1>5, <2>1, <2>2
<1>7. p \in Int /\ FirstAt(f, n) <= p /\ p <= LastAt(n)
  BY <1>2
<1>8. \/ p = FirstAt(f, n)
      \/ p = 0 /\ FirstAt(f, n) = -1
      \/ p = 1 /\ FirstAt(f, n) = -1
      \/ p = 2 \/ p = 3 \/ p \in 4 .. EP + 2 \/ p = EP + 3 \/ p = EP + 4 \/ p = EP + 5
      \/ p = EP + 6 \/ p \in EP + 7 .. Stride - 1 \/ p = Stride
      \/ p = Stride + 1 /\ LastAt(n) = Stride + 2
      \/ p = Stride + 2 /\ LastAt(n) = Stride + 2
  BY <1>2, <1>7
<1>9. /\ i.do \in {"kernel", "record", "wait", "barrier", "drain"}
      /\ i.do = "kernel" <=> p \in {FirstAt(f, n), EP + 3, EP + 4, Stride}
      /\ i.do = "record" <=> p \in {2, EP + 5}
      /\ i.do = "wait" <=> p \in (4 .. EP + 2) \cup (EP + 7 .. Stride - 1)
      /\ i.do = "barrier" <=> \/ p \in {3, EP + 6, Stride + 2}
                              \/ p = 1 /\ FirstAt(f, n) = -1
  <2>1. CASE p = FirstAt(f, n)
    BY <1>2, <1>3, <2>1
  <2>2. CASE p = 0 /\ FirstAt(f, n) = -1
    BY <1>2, <1>3, <2>2
  <2>3. CASE p = 1 /\ FirstAt(f, n) = -1
    BY <1>2, <1>3, <2>3
  <2>4. CASE p = 2 \/ p = EP + 5
    BY <1>2, <1>4, <2>4
  <2>5. CASE p = 3 \/ p = EP + 6
    BY <1>2, <1>6, <2>5
  <2>6. CASE p \in 4 .. EP + 2
    BY <1>2, <1>6, <2>6
  <2>7. CASE p \in EP + 7 .. Stride - 1
    BY <1>2, <1>6, <2>7
  <2>8. CASE p = EP + 3 \/ p = EP + 4 \/ p = Stride
    BY <1>2, <1>3, <2>8
  <2>9. CASE p = Stride + 1 /\ LastAt(n) = Stride + 2
    BY <1>2, <1>3, <2>9
  <2>10. CASE p = Stride + 2 /\ LastAt(n) = Stride + 2
    BY <1>2, <1>3, <2>10
  <2> QED
    BY <1>8, <2>1, <2>2, <2>3, <2>4, <2>5, <2>6, <2>7, <2>8, <2>9, <2>10
<1> QED
  BY <1>9 DEF b

LEMMA PlanAtKinds ==
  ASSUME NEW f, NEW ev, NEW code, Layered(f, ev, code), NEW d \in Devices, NEW kind
  PROVE  /\ \A i : i \in At(PlanOf(f, code), d, kind) <=>
                     i \in 1 .. Len(code[d]) /\ code[d][i].do = kind
         /\ \A i \in 1 .. Len(code[d]) :
              \E n \in LayerNumbers : \E p \in FirstAt(f, n) .. LastAt(n) : i = Base(f, n) + p
<1>1. f \in {0, 1} /\ d \in Ranks /\ Len(code[d]) = Length(f)
  BY DEF Layered
<1>2. \A i \in 1 .. Len(code[d]) :
        \E n \in LayerNumbers : \E p \in FirstAt(f, n) .. LastAt(n) : i = Base(f, n) + p
  BY <1>1, Located, Sizes
<1>3. PlanOf(f, code).code = code
  BY DEF PlanOf
<1> QED
  BY <1>2, <1>3 DEF At

LEMMA LayerFacts ==
  ASSUME NEW f, NEW ev, NEW code, Layered(f, ev, code), NEW n \in LayerNumbers
  PROVE  /\ f \in {0, 1} /\ n \in 1 .. Number /\ n \in 1 .. Number + 1 /\ n \in Nat
         /\ EP \in Nat \ {0} /\ Stride = 2 * EP + 6 /\ Number \in Nat
         /\ FirstAt(f, n) \in {-1, 1} /\ LastAt(n) \in {Stride, Stride + 2}
         /\ Base(f, n) \in Nat /\ BarBase(f, n) \in Nat
         /\ RecordAt(1) = 2 /\ RecordAt(2) = EP + 5
<1>1. f \in {0, 1}
  BY DEF Layered
<1>2. n \in 1 .. Number /\ Number \in Nat /\ EP \in Nat \ {0} /\ Stride = 2 * EP + 6
  BY Sizes
<1>3. n \in 1 .. Number + 1 /\ n \in Nat
  BY <1>2
<1>4. FirstAt(f, n) \in {-1, 1} /\ LastAt(n) \in {Stride, Stride + 2}
      /\ Base(f, n) \in Nat /\ BarBase(f, n) \in Nat
  BY <1>1, <1>3, BaseTypes, Sizes
<1>5. RecordAt(1) = 2 /\ RecordAt(2) = EP + 5
  BY DEF RecordAt
<1> QED
  BY <1>1, <1>2, <1>3, <1>4, <1>5

LEMMA SyncsAt ==
  ASSUME NEW f, NEW ev, NEW code, Layered(f, ev, code), NEW d \in Devices,
         NEW n \in LayerNumbers, NEW h \in {1, 2}
  PROVE  Synchronises(ev, code, d, n, h, Base(f, n) + RecordAt(h))
<1>1. LayerIs(f, ev, code, d, n)
  BY DEF Layered
<1> QED
  BY <1>1 DEF LayerIs

(* The segments and the barriers of the halves of a layer.                 *)
SegIn(n, h) == 2 * (n - 1) + h
RecordIn(f, n, h) == Base(f, n) + RecordAt(h)
WaitsEnd(f, n, h) == Base(f, n) + RecordAt(h) + EP
BarsBefore(f, n, h) == BarBase(f, n) + (h - 1)
BarsAfter(f, n, h) == BarBase(f, n) + h

LEMMA RecordAtIs ==
  ASSUME NEW f, NEW ev, NEW code, Layered(f, ev, code), NEW d \in Devices,
         NEW n \in LayerNumbers, NEW h \in {1, 2}, NEW r, r = RecordIn(f, n, h)
  PROVE  /\ r \in Records(PlanOf(f, code), d)
         /\ Seg(PlanOf(f, code), d, r) = SegIn(n, h)
         /\ Bars(PlanOf(f, code), d, r) = BarsBefore(f, n, h)
         /\ Ins(PlanOf(f, code), d, r).event = EventOf(ev, h, d, n)
         /\ Ins(PlanOf(f, code), d, r).layer = n
<1> DEFINE plan == PlanOf(f, code)
<1>0. Synchronises(ev, code, d, n, h, Base(f, n) + RecordAt(h))
  BY SyncsAt
<1> DEFINE p == RecordAt(h)
<1>1. /\ n \in Nat /\ EP \in Nat \ {0} /\ Stride = 2 * EP + 6
      /\ FirstAt(f, n) \in {-1, 1} /\ LastAt(n) \in {Stride, Stride + 2}
      /\ BarBase(f, n) \in Nat
      /\ (h = 1 /\ p = 2) \/ (h = 2 /\ p = EP + 5)
  BY LayerFacts
<1> HIDE DEF p
<1>2. p \in FirstAt(f, n) .. LastAt(n) /\ p \in {2, EP + 5}
  BY <1>1
<1>3. /\ Base(f, n) + p \in 1 .. Len(code[d])
      /\ Ins(plan, d, Base(f, n) + p) = code[d][Base(f, n) + p]
      /\ Seg(plan, d, Base(f, n) + p) = SegOf(n, p)
      /\ Bars(plan, d, Base(f, n) + p) = BarsOf(f, n, p)
  BY <1>2, PlanAt
<1>4. SegOf(n, p) = SegIn(n, h)
  BY <1>1 DEF SegOf, SegIn
<1>5. BarsOf(f, n, p) = BarsBefore(f, n, h)
  BY <1>1 DEF BarsOf, BarsBefore, BarsAfter
<1>6. /\ code[d][Base(f, n) + p].do = "record" /\ code[d][Base(f, n) + p].layer = n
      /\ code[d][Base(f, n) + p].event = EventOf(ev, h, d, n)
  BY <1>0 DEF Synchronises, p
<1>7. Base(f, n) + p \in Records(plan, d)
  BY <1>3, <1>6, PlanAtKinds DEF Records
<1> QED
  BY <1>3, <1>4, <1>5, <1>6, <1>7 DEF p, RecordIn

LEMMA RecordsAre ==
  ASSUME NEW f, NEW ev, NEW code, Layered(f, ev, code), NEW d \in Devices,
         NEW r \in Records(PlanOf(f, code), d)
  PROVE  \E n \in LayerNumbers, h \in {1, 2} : r = RecordIn(f, n, h)
<1>1. r \in 1 .. Len(code[d]) /\ code[d][r].do = "record"
  BY PlanAtKinds DEF Records
<1>2. PICK n \in LayerNumbers : \E p \in FirstAt(f, n) .. LastAt(n) : r = Base(f, n) + p
  BY <1>1, PlanAtKinds
<1>3. PICK p \in FirstAt(f, n) .. LastAt(n) : r = Base(f, n) + p
  BY <1>2
<1>4. p \in {2, EP + 5}
  BY <1>1, <1>3, PlaceKind
<1>5. RecordAt(1) = 2 /\ RecordAt(2) = EP + 5
  BY DEF RecordAt
<1> QED
  BY <1>3, <1>4, <1>5 DEF RecordIn

LEMMA WaitAtIs ==
  ASSUME NEW f, NEW ev, NEW code, Layered(f, ev, code), NEW d \in Devices,
         NEW n \in LayerNumbers, NEW h \in {1, 2}, NEW k \in 2 .. EP,
         NEW j, j = Base(f, n) + RecordAt(h) + k
  PROVE  /\ j \in Waits(PlanOf(f, code), d)
         /\ j <= WaitsEnd(f, n, h)
         /\ Seg(PlanOf(f, code), d, j) = SegIn(n, h)
         /\ Bars(PlanOf(f, code), d, j) = BarsAfter(f, n, h)
         /\ Ins(PlanOf(f, code), d, j) = code[d][j]
         /\ Ins(PlanOf(f, code), d, j).layer = n
         /\ \E q \in Peers(d) : Ins(PlanOf(f, code), d, j).event = EventOf(ev, h, q, n)
<1> DEFINE plan == PlanOf(f, code)
           p == RecordAt(h) + k
<1>0. Synchronises(ev, code, d, n, h, Base(f, n) + RecordAt(h))
  BY SyncsAt
<1>1. /\ n \in Nat /\ EP \in Nat \ {0} /\ Stride = 2 * EP + 6
      /\ FirstAt(f, n) \in {-1, 1} /\ LastAt(n) \in {Stride, Stride + 2}
      /\ BarBase(f, n) \in Nat /\ Base(f, n) \in Nat
      /\ (h = 1 /\ RecordAt(h) = 2) \/ (h = 2 /\ RecordAt(h) = EP + 5)
  BY LayerFacts
<1>2. /\ j = Base(f, n) + p /\ j <= Base(f, n) + RecordAt(h) + EP
      /\ p \in FirstAt(f, n) .. LastAt(n)
      /\ (h = 1 /\ p \in 4 .. EP + 2) \/ (h = 2 /\ p \in EP + 7 .. Stride - 1)
  BY <1>1
<1> HIDE DEF p
<1>3. /\ j \in 1 .. Len(code[d])
      /\ Ins(plan, d, j) = code[d][j]
      /\ Seg(plan, d, j) = SegOf(n, p)
      /\ Bars(plan, d, j) = BarsOf(f, n, p)
  BY <1>2, PlanAt
<1>4. SegOf(n, p) = SegIn(n, h)
  BY <1>1, <1>2 DEF SegOf, SegIn
<1>5. BarsOf(f, n, p) = BarsAfter(f, n, h)
  BY <1>1, <1>2 DEF BarsOf, BarsAfter
<1>6. /\ code[d][j].do = "wait" /\ code[d][j].layer = n
      /\ \E q \in Peers(d) : code[d][j].event = EventOf(ev, h, q, n)
  BY <1>0 DEF Synchronises
<1>7. j \in Waits(plan, d)
  BY <1>3, <1>6, PlanAtKinds DEF Waits
<1>8. j <= WaitsEnd(f, n, h)
  BY <1>2 DEF WaitsEnd
<1> QED
  BY <1>3, <1>4, <1>5, <1>6, <1>7, <1>8

LEMMA WaitFound ==
  ASSUME NEW f, NEW ev, NEW code, Layered(f, ev, code), NEW d \in Devices,
         NEW n \in LayerNumbers, NEW h \in {1, 2}, NEW q \in Peers(d)
  PROVE  \E j \in Waits(PlanOf(f, code), d) :
           /\ j <= WaitsEnd(f, n, h)
           /\ Seg(PlanOf(f, code), d, j) = SegIn(n, h)
           /\ Ins(PlanOf(f, code), d, j).event = EventOf(ev, h, q, n)
<1>0. Synchronises(ev, code, d, n, h, Base(f, n) + RecordAt(h))
  BY SyncsAt
<1>1. PICK k \in 2 .. EP : code[d][Base(f, n) + RecordAt(h) + k].event = EventOf(ev, h, q, n)
  BY <1>0 DEF Synchronises
<1>2. PICK j : j = Base(f, n) + RecordAt(h) + k
  OBVIOUS
<1>3. /\ j \in Waits(PlanOf(f, code), d)
      /\ j <= WaitsEnd(f, n, h)
      /\ Seg(PlanOf(f, code), d, j) = SegIn(n, h)
      /\ Ins(PlanOf(f, code), d, j) = code[d][j]
  BY <1>2, WaitAtIs
<1>4. code[d][j].event = EventOf(ev, h, q, n)
  BY <1>1, <1>2
<1> QED
  BY <1>3, <1>4

LEMMA WaitsAre ==
  ASSUME NEW f, NEW ev, NEW code, Layered(f, ev, code), NEW d \in Devices,
         NEW j \in Waits(PlanOf(f, code), d)
  PROVE  \E n \in LayerNumbers, h \in {1, 2}, q \in Peers(d) :
           /\ Seg(PlanOf(f, code), d, j) = SegIn(n, h)
           /\ Bars(PlanOf(f, code), d, j) = BarsAfter(f, n, h)
           /\ Ins(PlanOf(f, code), d, j).event = EventOf(ev, h, q, n)
           /\ Ins(PlanOf(f, code), d, j).layer = n
<1>1. j \in 1 .. Len(code[d]) /\ code[d][j].do = "wait"
  BY PlanAtKinds DEF Waits
<1>2. PICK n \in LayerNumbers : \E p \in FirstAt(f, n) .. LastAt(n) : j = Base(f, n) + p
  BY <1>1, PlanAtKinds
<1>3. PICK p \in FirstAt(f, n) .. LastAt(n) : j = Base(f, n) + p
  BY <1>2
<1>4. p \in (4 .. EP + 2) \cup (EP + 7 .. Stride - 1)
  BY <1>1, <1>3, PlaceKind
<1>5. RecordAt(1) = 2 /\ RecordAt(2) = EP + 5 /\ EP \in Nat /\ Stride = 2 * EP + 6
      /\ Base(f, n) \in Nat
  BY LayerFacts
<1>6. \E h \in {1, 2}, k \in 2 .. EP : j = Base(f, n) + RecordAt(h) + k
  <2>1. CASE p \in 4 .. EP + 2
    <3>1. p - 2 \in 2 .. EP /\ j = Base(f, n) + RecordAt(1) + (p - 2)
      BY <1>3, <1>5, <2>1
    <3> QED
      BY <3>1
  <2>2. CASE p \in EP + 7 .. Stride - 1
    <3>1. p - (EP + 5) \in 2 .. EP /\ j = Base(f, n) + RecordAt(2) + (p - (EP + 5))
      BY <1>3, <1>5, <2>2
    <3> QED
      BY <3>1
  <2> QED
    BY <1>4, <2>1, <2>2
<1>7. PICK h \in {1, 2}, k \in 2 .. EP : j = Base(f, n) + RecordAt(h) + k
  BY <1>6
<1>8. /\ Seg(PlanOf(f, code), d, j) = SegIn(n, h)
      /\ Bars(PlanOf(f, code), d, j) = BarsAfter(f, n, h)
      /\ Ins(PlanOf(f, code), d, j).layer = n
      /\ \E q \in Peers(d) : Ins(PlanOf(f, code), d, j).event = EventOf(ev, h, q, n)
  BY <1>7, WaitAtIs
<1> QED
  BY <1>8

FirstIn(f, n) == Base(f, n) + FirstAt(f, n)
PullIn(f, n) == Base(f, n) + (EP + 3)
ExpertsIn(f, n) == Base(f, n) + (EP + 4)
AddIn(f, n) == Base(f, n) + Stride

LEMMA KernelAtIs ==
  ASSUME NEW f, NEW ev, NEW code, Layered(f, ev, code), NEW d \in Devices,
         NEW n \in LayerNumbers
  PROVE  /\ FirstIn(f, n) \in Kernels(PlanOf(f, code), d)
         /\ Seg(PlanOf(f, code), d, FirstIn(f, n)) = SegIn(n, 0)
         /\ IsKernel(Ins(PlanOf(f, code), d, FirstIn(f, n)), n, {}, {Acts(d)})
         /\ PullIn(f, n) \in Kernels(PlanOf(f, code), d)
         /\ Seg(PlanOf(f, code), d, PullIn(f, n)) = SegIn(n, 1)
         /\ IsKernel(Ins(PlanOf(f, code), d, PullIn(f, n)), n,
                     OthersActs(d), PulledActs(d))
         /\ ExpertsIn(f, n) \in Kernels(PlanOf(f, code), d)
         /\ Seg(PlanOf(f, code), d, ExpertsIn(f, n)) = SegIn(n, 1)
         /\ IsKernel(Ins(PlanOf(f, code), d, ExpertsIn(f, n)), n,
                     AllActs(d), Sums(d, n))
         /\ AddIn(f, n) \in Kernels(PlanOf(f, code), d)
         /\ Seg(PlanOf(f, code), d, AddIn(f, n)) = SegIn(n, 2)
         /\ \E reads : /\ IsKernel(Ins(PlanOf(f, code), d, AddIn(f, n)), n, reads, {})
                       /\ reads \subseteq Addends(d, n)
<1> DEFINE plan == PlanOf(f, code)
<1>1. ASSUME NEW p \in {FirstAt(f, n), EP + 3, EP + 4, Stride}
      PROVE  /\ Base(f, n) + p \in Kernels(plan, d)
             /\ Ins(plan, d, Base(f, n) + p) = code[d][Base(f, n) + p]
             /\ p = FirstAt(f, n) => Seg(plan, d, Base(f, n) + p) = SegIn(n, 0)
             /\ p \in {EP + 3, EP + 4} => Seg(plan, d, Base(f, n) + p) = SegIn(n, 1)
             /\ p = Stride => Seg(plan, d, Base(f, n) + p) = SegIn(n, 2)
  <2>1. /\ n \in Nat /\ EP \in Nat \ {0} /\ Stride = 2 * EP + 6
        /\ FirstAt(f, n) \in {-1, 1} /\ LastAt(n) \in {Stride, Stride + 2}
    BY LayerFacts
  <2>2. p \in FirstAt(f, n) .. LastAt(n)
    BY <2>1
  <2>3. /\ Base(f, n) + p \in 1 .. Len(code[d])
        /\ Ins(plan, d, Base(f, n) + p) = code[d][Base(f, n) + p]
        /\ Seg(plan, d, Base(f, n) + p) = SegOf(n, p)
    BY <2>2, PlanAt
  <2>4. code[d][Base(f, n) + p].do = "kernel"
    BY <2>2, PlaceKind
  <2>5. Base(f, n) + p \in Kernels(plan, d)
    BY <2>3, <2>4, PlanAtKinds DEF Kernels
  <2>6. /\ p = FirstAt(f, n) => SegOf(n, p) = SegIn(n, 0)
        /\ p \in {EP + 3, EP + 4} => SegOf(n, p) = SegIn(n, 1)
        /\ p = Stride => SegOf(n, p) = SegIn(n, 2)
    BY <2>1 DEF SegOf, SegIn
  <2> QED
    BY <2>3, <2>5, <2>6
<1>2. LayerIs(f, ev, code, d, n)
  BY DEF Layered
<1>3. /\ IsKernel(code[d][Base(f, n) + FirstAt(f, n)], n, {}, {Acts(d)})
      /\ IsKernel(code[d][Base(f, n) + (EP + 3)], n,
                  OthersActs(d), PulledActs(d))
      /\ IsKernel(code[d][Base(f, n) + (EP + 4)], n,
                  AllActs(d), Sums(d, n))
      /\ \E reads : /\ IsKernel(code[d][Base(f, n) + Stride], n, reads, {})
                    /\ reads \subseteq Addends(d, n)
  BY <1>2 DEF LayerIs
<1>4. /\ FirstIn(f, n) \in Kernels(plan, d)
      /\ Seg(plan, d, FirstIn(f, n)) = SegIn(n, 0)
      /\ Ins(plan, d, FirstIn(f, n)) = code[d][Base(f, n) + FirstAt(f, n)]
  BY <1>1 DEF FirstIn
<1>5. /\ PullIn(f, n) \in Kernels(plan, d)
      /\ Seg(plan, d, PullIn(f, n)) = SegIn(n, 1)
      /\ Ins(plan, d, PullIn(f, n)) = code[d][Base(f, n) + (EP + 3)]
  BY <1>1 DEF PullIn
<1>6. /\ ExpertsIn(f, n) \in Kernels(plan, d)
      /\ Seg(plan, d, ExpertsIn(f, n)) = SegIn(n, 1)
      /\ Ins(plan, d, ExpertsIn(f, n)) = code[d][Base(f, n) + (EP + 4)]
  BY <1>1 DEF ExpertsIn
<1>7. /\ AddIn(f, n) \in Kernels(plan, d)
      /\ Seg(plan, d, AddIn(f, n)) = SegIn(n, 2)
      /\ Ins(plan, d, AddIn(f, n)) = code[d][Base(f, n) + Stride]
  BY <1>1 DEF AddIn
<1> HIDE DEF plan
<1> QED
  BY <1>3, <1>4, <1>5, <1>6, <1>7 DEF plan

LEMMA KernelsAre ==
  ASSUME NEW f, NEW ev, NEW code, Layered(f, ev, code), NEW d \in Devices,
         NEW i \in Kernels(PlanOf(f, code), d)
  PROVE  \E n \in LayerNumbers :
           i \in {FirstIn(f, n), PullIn(f, n), ExpertsIn(f, n), AddIn(f, n)}
<1>1. i \in 1 .. Len(code[d]) /\ code[d][i].do = "kernel"
  BY PlanAtKinds DEF Kernels
<1>2. PICK n \in LayerNumbers : \E p \in FirstAt(f, n) .. LastAt(n) : i = Base(f, n) + p
  BY <1>1, PlanAtKinds
<1>3. PICK p \in FirstAt(f, n) .. LastAt(n) : i = Base(f, n) + p
  BY <1>2
<1>4. p \in {FirstAt(f, n), EP + 3, EP + 4, Stride}
  BY <1>1, <1>3, PlaceKind
<1> QED
  BY <1>3, <1>4 DEF FirstIn, PullIn, ExpertsIn, AddIn

LEMMA PlanBars ==
  ASSUME NEW f, NEW ev, NEW code, Layered(f, ev, code), NEW d \in Devices,
         NEW n \in 1 .. Number + 1, NEW p \in FirstAt(f, n) .. LastAt(n),
         Base(f, n) + p \in 1 .. Len(code[d]) + 1
  PROVE  Bars(PlanOf(f, code), d, Base(f, n) + p) = BarsOf(f, n, p)
<1>1. f \in {0, 1} /\ Devices = Ranks
  BY DEF Layered
<1>2. LayerAt(f, Base(f, n) + p) = n /\ Local(f, Base(f, n) + p) = p
  BY <1>1, Placed
<1> QED
  BY <1>1, <1>2 DEF Bars, PlanOf

(* The place after a place.                                                *)
LEMMA NextPlace ==
  ASSUME NEW f, NEW ev, NEW code, Layered(f, ev, code), NEW d \in Devices,
         NEW n \in LayerNumbers, NEW p \in FirstAt(f, n) .. LastAt(n)
  PROVE  /\ Base(f, n) + p \in 1 .. Len(code[d])
         /\ (Base(f, n) + p) + 1 \in 1 .. Len(code[d]) + 1
         /\ p < LastAt(n) => /\ p + 1 \in FirstAt(f, n) .. LastAt(n)
                             /\ (Base(f, n) + p) + 1 = Base(f, n) + (p + 1)
         /\ p = LastAt(n) => /\ n + 1 \in 1 .. Number + 1 /\ FirstAt(f, n + 1) = 1
                             /\ 1 \in FirstAt(f, n + 1) .. LastAt(n + 1)
                             /\ (Base(f, n) + p) + 1 = Base(f, n + 1) + 1
<1>1. /\ f \in {0, 1} /\ n \in 1 .. Number /\ n \in Nat /\ Number \in Nat
      /\ EP \in Nat \ {0} /\ Stride = 2 * EP + 6
      /\ FirstAt(f, n) \in {-1, 1} /\ LastAt(n) \in {Stride, Stride + 2}
      /\ Base(f, n) \in Nat
  BY LayerFacts
<1>2. Base(f, n) + p \in 1 .. Len(code[d]) /\ Len(code[d]) \in Nat
  BY <1>1, PlanAt, LengthIs DEF Layered
<1>3. p \in Int
  BY <1>1
<1>4. n + 1 \in 1 .. Number + 1 /\ n + 1 > 1
  BY <1>1
<1>5. FirstAt(f, n + 1) = 1 /\ LastAt(n + 1) \in {Stride, Stride + 2}
  BY <1>1, <1>4, BaseTypes, Sizes
<1>6. Base(f, n + 1) = Base(f, n) + LastAt(n)
  BY <1>1, NextBase
<1>7. /\ (Base(f, n) + p) + 1 \in 1 .. Len(code[d]) + 1
      /\ p < LastAt(n) => /\ p + 1 \in FirstAt(f, n) .. LastAt(n)
                          /\ (Base(f, n) + p) + 1 = Base(f, n) + (p + 1)
  BY <1>1, <1>2, <1>3
<1>8. 1 \in FirstAt(f, n + 1) .. LastAt(n + 1)
  BY <1>1, <1>5
<1>9. p = LastAt(n) => (Base(f, n) + p) + 1 = Base(f, n + 1) + 1
  BY <1>6
<1> QED
  BY <1>2, <1>4, <1>5, <1>7, <1>8, <1>9

LEMMA PlanWellTyped ==
  ASSUME NEW f, NEW ev, NEW code, Layered(f, ev, code)
  PROVE  WellTyped(PlanOf(f, code))
<1> DEFINE plan == PlanOf(f, code)
<1>1. /\ f \in {0, 1} /\ Devices = Ranks /\ Compute \in StreamNames /\ ev \in [Triples -> Events]
      /\ code \in [Ranks -> Seq(InstructionSet)]
      /\ \A d \in Ranks : Len(code[d]) = Length(f)
      /\ \A d \in Ranks : \A i \in 1 .. Length(f) : code[d][i].on = Compute
  BY DEF Layered
<1>2. Length(f) \in Nat /\ Length(f) + 1 = Base(f, Number + 1) + FirstAt(f, Number + 1)
  BY <1>1, LengthIs
<1>3. ASSUME NEW n \in 1 .. Number + 1, NEW p \in FirstAt(f, n) .. LastAt(n)
      PROVE  SegOf(n, p) \in Nat /\ BarsOf(f, n, p) \in Nat
  <2>1. /\ n \in Nat /\ n >= 1 /\ Stride \in Nat /\ EP \in Nat /\ BarBase(f, n) \in Nat
        /\ p \in Int
    BY <1>1, Sizes, BaseTypes
  <2> QED
    BY <2>1 DEF SegOf, BarsOf
<1>4. ASSUME NEW i \in 1 .. Length(f)
      PROVE  /\ SegOf(LayerAt(f, i), Local(f, i)) \in Nat
             /\ BarsOf(f, LayerAt(f, i), Local(f, i)) \in Nat
  <2>1. /\ LayerAt(f, i) \in 1 .. Number
        /\ Local(f, i) \in FirstAt(f, LayerAt(f, i)) .. LastAt(LayerAt(f, i))
    BY <1>1, Located
  <2>2. LayerAt(f, i) \in 1 .. Number + 1
    BY <2>1, Sizes
  <2> QED
    BY <2>1, <2>2, <1>3
<1>5. BarsOf(f, LayerAt(f, Length(f) + 1), Local(f, Length(f) + 1)) \in Nat
  <2>1. /\ Number + 1 \in 1 .. Number + 1
        /\ FirstAt(f, Number + 1) \in FirstAt(f, Number + 1) .. LastAt(Number + 1)
    <3>1. /\ Number \in Nat /\ Number + 1 \in 1 .. Number + 1 /\ Stride \in Nat /\ Stride >= 1
      BY Sizes
    <3>2. FirstAt(f, Number + 1) \in {-1, 1} /\ LastAt(Number + 1) \in {Stride, Stride + 2}
      BY <1>1, <3>1, BaseTypes, Sizes
    <3> QED
      BY <3>1, <3>2
  <2>2. /\ LayerAt(f, Length(f) + 1) = Number + 1
        /\ Local(f, Length(f) + 1) = FirstAt(f, Number + 1)
    BY <1>1, <1>2, <2>1, Placed
  <2> QED
    BY <2>1, <2>2, <1>3
<1>6. ASSUME NEW d \in Devices
      PROVE  /\ plan.seg[d] \in [1 .. Len(plan.code[d]) -> Nat]
             /\ plan.bars[d] \in [1 .. Len(plan.code[d]) + 1 -> Nat]
             /\ \A i \in 1 .. Len(plan.code[d]) : Ins(plan, d, i).on = Compute
             /\ \A r \in Records(plan, d) : Ins(plan, d, r).event \in Events
  <2>1. Len(plan.code[d]) = Length(f) /\ d \in Ranks /\ plan.code = code
    BY <1>1 DEF PlanOf
  <2>2. plan.seg[d] \in [1 .. Len(plan.code[d]) -> Nat]
    BY <1>1, <1>4, <2>1 DEF PlanOf
  <2>3. plan.bars[d] \in [1 .. Len(plan.code[d]) + 1 -> Nat]
    <3>1. \A i \in 1 .. Length(f) + 1 : BarsOf(f, LayerAt(f, i), Local(f, i)) \in Nat
      <4>1. \A i \in 1 .. Length(f) + 1 : i \in 1 .. Length(f) \/ i = Length(f) + 1
        BY <1>2
      <4> QED
        BY <4>1, <1>4, <1>5
    <3> QED
      BY <1>1, <2>1, <3>1 DEF PlanOf
  <2>4. \A i \in 1 .. Len(plan.code[d]) : Ins(plan, d, i).on = Compute
    BY <1>1, <2>1 DEF Ins
  <2>5. ASSUME NEW r \in Records(plan, d) PROVE Ins(plan, d, r).event \in Events
    <3>1. PICK n \in LayerNumbers, h \in {1, 2} : r = RecordIn(f, n, h)
      BY RecordsAre
    <3>2. Ins(plan, d, r).event = EventOf(ev, h, d, n)
      BY <3>1, RecordAtIs
    <3>3. <<h, d, n>> \in Triples
      BY <2>1 DEF Triples
    <3> QED
      BY <1>1, <3>1, <3>2, <3>3 DEF EventOf
  <2> QED
    BY <2>2, <2>3, <2>4, <2>5
<1>7. plan.code \in [Devices -> Seq(InstructionSet)]
  BY <1>1 DEF PlanOf
<1> QED
  BY <1>1, <1>6, <1>7 DEF WellTyped

LEMMA PlanCountsBarriers ==
  ASSUME NEW f, NEW ev, NEW code, Layered(f, ev, code)
  PROVE  CountsBarriers(PlanOf(f, code))
<1> DEFINE plan == PlanOf(f, code)
<1>1. f \in {0, 1} /\ Devices = Ranks /\ plan.code = code /\ Length(f) \in Nat
      /\ \A d \in Devices : Len(code[d]) = Length(f)
  BY LengthIs DEF Layered, PlanOf
<1>2. ASSUME NEW d \in Devices PROVE Bars(plan, d, 1) = 0
  <2>1. 1 \in 1 .. Number + 1 /\ 1 \in Nat /\ Stride \in Nat /\ Stride >= 1
    BY Sizes
  <2>2. Base(f, 1) = 2 * f /\ FirstAt(f, 1) = 1 - 2 * f /\ LastAt(1) \in {Stride, Stride + 2}
    BY <1>1, <2>1, BaseTypes, Sizes
  <2>3. /\ Base(f, 1) + FirstAt(f, 1) = 1 /\ FirstAt(f, 1) \in FirstAt(f, 1) .. LastAt(1)
        /\ 1 \in 1 .. Len(code[d]) + 1 /\ FirstAt(f, 1) <= 1
    BY <1>1, <2>1, <2>2
  <2>4. Bars(plan, d, 1) = BarsOf(f, 1, FirstAt(f, 1))
    BY <2>1, <2>3, PlanBars
  <2> QED
    BY <2>3, <2>4 DEF BarsOf
<1>3. ASSUME NEW d \in Devices, NEW i \in 1 .. Len(code[d])
      PROVE  Bars(plan, d, i + 1) =
               Bars(plan, d, i) + (IF Ins(plan, d, i).do = "barrier" THEN 1 ELSE 0)
  <2>1. PICK n \in LayerNumbers : \E p \in FirstAt(f, n) .. LastAt(n) : i = Base(f, n) + p
    BY PlanAtKinds
  <2>2. PICK p \in FirstAt(f, n) .. LastAt(n) : i = Base(f, n) + p
    BY <2>1
  <2>3. /\ f \in {0, 1} /\ n \in 1 .. Number /\ n \in Nat /\ EP \in Nat \ {0}
        /\ Stride = 2 * EP + 6 /\ Number \in Nat
        /\ FirstAt(f, n) \in {-1, 1} /\ LastAt(n) \in {Stride, Stride + 2}
        /\ BarBase(f, n) \in Nat /\ n \in 1 .. Number + 1
    BY LayerFacts
  <2>4. Ins(plan, d, i) = code[d][Base(f, n) + p] /\ Bars(plan, d, i) = BarsOf(f, n, p)
    BY <2>2, PlanAt
  <2>5. Ins(plan, d, i).do = "barrier"
          <=> (p \in {3, EP + 6, Stride + 2} \/ (p = 1 /\ FirstAt(f, n) = -1))
    BY <2>4, PlaceKind
  <2>6. n = 1 => BarBase(f, n) = f /\ FirstAt(f, n) = 1 - 2 * f
    BY <2>3, BaseTypes
  <2>7. n > 1 => FirstAt(f, n) = 1
    BY <2>3, BaseTypes
  <2>8. p \in Int /\ FirstAt(f, n) <= p /\ p <= LastAt(n)
    BY <2>3
  <2>9. CASE p < LastAt(n)
    <3>1. Bars(plan, d, i + 1) = BarsOf(f, n, p + 1)
      <4>1. p + 1 \in FirstAt(f, n) .. LastAt(n) /\ i + 1 = Base(f, n) + (p + 1)
            /\ i + 1 \in 1 .. Len(code[d]) + 1
        BY <2>2, <2>9, NextPlace
      <4> QED
        BY <2>3, <4>1, PlanBars
    <3> HIDE DEF plan
    <3>2. CASE n = 1
      BY <2>3, <2>4, <2>5, <2>6, <2>8, <2>9, <3>1, <3>2 DEF BarsOf
    <3>3. CASE n # 1
      BY <2>3, <2>4, <2>5, <2>7, <2>8, <2>9, <3>1, <3>3 DEF BarsOf
    <3> QED
      BY <3>2, <3>3
  <2>10. CASE p = LastAt(n)
    <3>1. /\ n + 1 \in 1 .. Number + 1 /\ 1 \in FirstAt(f, n + 1) .. LastAt(n + 1)
          /\ i + 1 = Base(f, n + 1) + 1 /\ i + 1 \in 1 .. Len(code[d]) + 1
      BY <2>2, <2>10, NextPlace
    <3>2. Bars(plan, d, i + 1) = BarsOf(f, n + 1, 1)
      BY <3>1, PlanBars
    <3>3. BarBase(f, n + 1) = BarBase(f, n) + 2 + (IF LastAt(n) = Stride + 2 THEN 1 ELSE 0)
      BY <2>3, NextBase
    <3>4. BarBase(f, n + 1) \in Nat
      BY <2>3, <3>1, BaseTypes
    <3> HIDE DEF plan
    <3>5. BarsOf(f, n + 1, 1) = BarBase(f, n + 1)
      BY <2>3, <3>4 DEF BarsOf
    <3>6. BarsOf(f, n, p) = BarBase(f, n) + 2
      BY <2>3, <2>10 DEF BarsOf
    <3>7. Ins(plan, d, i).do = "barrier" <=> LastAt(n) = Stride + 2
      BY <2>3, <2>5, <2>10
    <3> QED
      BY <2>3, <2>4, <3>2, <3>3, <3>5, <3>6, <3>7
  <2> QED
    BY <2>3, <2>8, <2>9, <2>10
<1> QED
  BY <1>1, <1>2, <1>3 DEF CountsBarriers
LEMMA PlanRecordsSeparate ==
  ASSUME NEW f, NEW ev, NEW code, Layered(f, ev, code)
  PROVE  RecordsSeparate(PlanOf(f, code))
<1> DEFINE plan == PlanOf(f, code)
<1>1. plan.code = code
  BY DEF PlanOf
<1>2. ASSUME NEW d \in Devices, NEW r \in Records(plan, d)
      PROVE  /\ Seg(plan, d, r) > 0
             /\ \A i \in 1 .. Len(code[d]) : r <= i <=> Seg(plan, d, r) <= Seg(plan, d, i)
  <2>1. PICK n \in LayerNumbers, h \in {1, 2} : r = RecordIn(f, n, h)
    BY RecordsAre
  <2>2. Seg(plan, d, r) = SegIn(n, h)
    BY <2>1, RecordAtIs
  <2>3. /\ f \in {0, 1} /\ n \in Nat /\ n >= 1 /\ n \in 1 .. Number + 1 /\ EP \in Nat \ {0}
        /\ Stride = 2 * EP + 6
        /\ Base(f, n) \in Nat /\ LastAt(n) \in {Stride, Stride + 2}
        /\ RecordAt(1) = 2 /\ RecordAt(2) = EP + 5
    BY LayerFacts
  <2>4. r = Base(f, n) + RecordAt(h) /\ Seg(plan, d, r) = 2 * (n - 1) + h
    BY <2>1, <2>2 DEF RecordIn, SegIn
  <2>6. RecordAt(h) \in Nat /\ 0 < RecordAt(h) /\ RecordAt(h) <= LastAt(n)
    BY <2>3
  <2>5. ASSUME NEW i \in 1 .. Len(code[d])
        PROVE  r <= i <=> Seg(plan, d, r) <= Seg(plan, d, i)
    <3>1. PICK m \in LayerNumbers : \E p \in FirstAt(f, m) .. LastAt(m) : i = Base(f, m) + p
      BY PlanAtKinds
    <3>2. PICK p \in FirstAt(f, m) .. LastAt(m) : i = Base(f, m) + p
      BY <3>1
    <3>3. /\ m \in Nat /\ m \in 1 .. Number + 1 /\ FirstAt(f, m) \in {-1, 1}
          /\ LastAt(m) \in {Stride, Stride + 2} /\ Base(f, m) \in Nat /\ m >= 1
      BY LayerFacts
    <3>4. Seg(plan, d, i) = SegOf(m, p)
      BY <3>2, PlanAt
    <3> HIDE DEF plan
    <3>5. /\ SegOf(m, p) \in Nat /\ 2 * (m - 1) <= SegOf(m, p) /\ SegOf(m, p) <= 2 * m
          /\ p \in Int /\ p <= LastAt(m)
      BY <2>3, <3>3 DEF SegOf
    <3>6. CASE m < n
      <4>1. Base(f, m) + LastAt(m) <= Base(f, n)
        BY <2>3, <3>3, <3>6, LaterBase
      <4>2. ~(r <= i)
        <5>1. Base(f, m) \in Nat /\ LastAt(m) \in Nat /\ Base(f, n) \in Nat
          BY <2>3, <3>3
        <5> QED
          BY <2>4, <2>6, <3>2, <3>5, <4>1, <5>1
      <4>3. ~(Seg(plan, d, r) <= Seg(plan, d, i))
        BY <2>3, <2>4, <3>3, <3>4, <3>5, <3>6
      <4> QED
        BY <4>2, <4>3
    <3>7. CASE n < m
      <4>1. Base(f, n) + LastAt(n) <= Base(f, m)
        BY <2>3, <3>3, <3>7, LaterBase
      <4>2. FirstAt(f, m) = 1
        <5>1. m > 1
          BY <2>3, <3>3, <3>7
        <5> QED
          BY <2>3, <3>3, <5>1, BaseTypes
      <4>3. r <= i
        <5>1. Base(f, m) \in Nat /\ LastAt(n) \in Nat /\ Base(f, n) \in Nat /\ 1 <= p
          BY <2>3, <3>3, <4>2
        <5> QED
          BY <2>4, <2>6, <3>2, <3>5, <4>1, <5>1
      <4>4. Seg(plan, d, r) <= Seg(plan, d, i)
        BY <2>3, <2>4, <3>3, <3>4, <3>5, <3>7
      <4> QED
        BY <4>3, <4>4
    <3>8. CASE n = m
      <4>1. r <= i <=> RecordAt(h) <= p
        BY <2>3, <2>4, <3>2, <3>5, <3>8
      <4>2. RecordAt(h) <= p <=> 2 * (n - 1) + h <= SegOf(n, p)
        <5>1. CASE h = 1
          BY <2>3, <3>5, <5>1 DEF SegOf
        <5>2. CASE h = 2
          BY <2>3, <3>5, <5>2 DEF SegOf
        <5> QED
          BY <5>1, <5>2
      <4> QED
        BY <2>4, <3>4, <3>8, <4>1, <4>2
    <3> QED
      BY <2>3, <3>3, <3>6, <3>7, <3>8
  <2> QED
    BY <2>3, <2>4, <2>5
<1> QED
  BY <1>1, <1>2 DEF RecordsSeparate

LEMMA PlanEventsDiffer ==
  ASSUME NEW f, NEW ev, NEW code, Layered(f, ev, code)
  PROVE  EventsDiffer(PlanOf(f, code))
<1> DEFINE plan == PlanOf(f, code)
<1> SUFFICES ASSUME NEW d \in Devices, NEW q \in Devices,
                    NEW r \in Records(plan, d), NEW s \in Records(plan, q),
                    Ins(plan, d, r).event = Ins(plan, q, s).event
             PROVE  /\ d = q
                    /\ \/ r = s
                       \/ Seg(plan, d, r) >= Seg(plan, q, s) + 2
                       \/ Seg(plan, q, s) >= Seg(plan, d, r) + 2
  BY DEF EventsDiffer
<1>1. PICK n \in LayerNumbers, h \in {1, 2} : r = RecordIn(f, n, h)
  BY RecordsAre
<1>2. PICK m \in LayerNumbers, k \in {1, 2} : s = RecordIn(f, m, k)
  BY RecordsAre
<1>3. Seg(plan, d, r) = SegIn(n, h) /\ Ins(plan, d, r).event = EventOf(ev, h, d, n)
  BY <1>1, RecordAtIs
<1>4. Seg(plan, q, s) = SegIn(m, k) /\ Ins(plan, q, s).event = EventOf(ev, k, q, m)
  BY <1>2, RecordAtIs
<1>5. h = k /\ d = q
  <2>1. /\ \A x, y \in Triples : ev[x] = ev[y] => x[1] = y[1] /\ x[2] = y[2]
        /\ Devices = Ranks
    BY DEF Layered
  <2>2. <<h, d, n>> \in Triples /\ <<k, q, m>> \in Triples
    BY <2>1 DEF Triples
  <2>3. ev[<<h, d, n>>] = ev[<<k, q, m>>]
    BY <1>3, <1>4 DEF EventOf
  <2>4. <<h, d, n>>[1] = <<k, q, m>>[1] /\ <<h, d, n>>[2] = <<k, q, m>>[2]
    BY <2>1, <2>2, <2>3
  <2> QED
    BY <2>4
<1> HIDE DEF plan
<1>6. n \in Nat /\ m \in Nat
  BY Sizes
<1>7. CASE n = m
  BY <1>1, <1>2, <1>5, <1>7
<1>8. CASE n # m
  BY <1>3, <1>4, <1>5, <1>6, <1>8 DEF SegIn
<1> QED
  BY <1>5, <1>7, <1>8

LEMMA PlanWaitsMeet ==
  ASSUME NEW f, NEW ev, NEW code, Layered(f, ev, code)
  PROVE  WaitsMeet(PlanOf(f, code))
<1> DEFINE plan == PlanOf(f, code)
<1> SUFFICES ASSUME NEW d \in Devices, NEW j \in Waits(plan, d)
             PROVE  \E q \in Devices : \E r \in Records(plan, q) : Meets(plan, d, j, q, r)
  BY DEF WaitsMeet
<1>1. PICK n \in LayerNumbers, h \in {1, 2}, q \in Peers(d) :
        /\ Seg(plan, d, j) = SegIn(n, h)
        /\ Bars(plan, d, j) = BarsAfter(f, n, h)
        /\ Ins(plan, d, j).event = EventOf(ev, h, q, n)
        /\ Ins(plan, d, j).layer = n
  BY WaitsAre
<1>2. q \in Devices /\ q # d /\ f \in {0, 1}
  BY DEF Layered, Peers
<1>3. PICK r : r = RecordIn(f, n, h)
  OBVIOUS
<1>4. /\ r \in Records(plan, q)
      /\ Seg(plan, q, r) = SegIn(n, h)
      /\ Bars(plan, q, r) = BarsBefore(f, n, h)
      /\ Ins(plan, q, r).event = EventOf(ev, h, q, n)
      /\ Ins(plan, q, r).layer = n
  BY <1>2, <1>3, RecordAtIs
<1>5. /\ n \in Nat /\ n \in 1 .. Number + 1 /\ BarBase(f, n) \in Nat
  BY LayerFacts
<1>6. Bars(plan, q, r) < Bars(plan, d, j)
  <2> HIDE DEF plan
  <2> QED
    BY <1>1, <1>4, <1>5 DEF BarsBefore, BarsAfter
<1>7. ASSUME NEW s \in Records(plan, q), Seg(plan, q, s) >= Seg(plan, q, r) + 2
      PROVE  Bars(plan, d, j) < Bars(plan, q, s)
  <2>1. PICK m \in LayerNumbers, k \in {1, 2} : s = RecordIn(f, m, k)
    BY <1>2, RecordsAre
  <2>2. Seg(plan, q, s) = SegIn(m, k) /\ Bars(plan, q, s) = BarsBefore(f, m, k)
    BY <1>2, <2>1, RecordAtIs
  <2>3. m \in Nat /\ m \in 1 .. Number + 1 /\ BarBase(f, m) \in Nat
    BY LayerFacts
  <2> HIDE DEF plan
  <2>4. 2 * (m - 1) + k >= 2 * (n - 1) + h + 2
    BY <1>4, <1>7, <2>2 DEF SegIn
  <2>5. n < m
    BY <1>5, <2>3, <2>4
  <2>6. BarBase(f, n) + 2 * (m - n) <= BarBase(f, m)
    BY <1>2, <1>5, <2>3, <2>5, LaterBase
  <2>7. BarBase(f, n) + h < BarBase(f, m) + (k - 1)
    BY <1>5, <2>3, <2>4, <2>5, <2>6
  <2> QED
    BY <1>1, <2>2, <2>7 DEF BarsBefore, BarsAfter
<1>8. Meets(plan, d, j, q, r)
  <2> HIDE DEF plan
  <2> QED
    BY <1>1, <1>2, <1>4, <1>6, <1>7 DEF Meets
<1> QED
  BY <1>2, <1>4, <1>8
(* The kernels of a layer, in their order.                                 *)
LEMMA KernelPlaces ==
  ASSUME NEW f \in {0, 1}, NEW n \in LayerNumbers
  PROVE  /\ FirstIn(f, n) \in Int /\ PullIn(f, n) \in Int
         /\ ExpertsIn(f, n) \in Int /\ AddIn(f, n) \in Int
         /\ WaitsEnd(f, n, 1) \in Int /\ WaitsEnd(f, n, 2) \in Int
         /\ FirstIn(f, n) < PullIn(f, n) /\ PullIn(f, n) < ExpertsIn(f, n)
         /\ FirstIn(f, n) < ExpertsIn(f, n) /\ FirstIn(f, n) < AddIn(f, n)
         /\ ExpertsIn(f, n) < AddIn(f, n)
         /\ WaitsEnd(f, n, 1) < PullIn(f, n) /\ WaitsEnd(f, n, 1) < ExpertsIn(f, n)
         /\ WaitsEnd(f, n, 2) < AddIn(f, n)
         /\ \A m \in LayerNumbers : n < m => /\ WaitsEnd(f, n, 2) < FirstIn(f, m)
                                             /\ FirstIn(f, n) < FirstIn(f, m)
                                             /\ PullIn(f, n) < PullIn(f, m)
                                             /\ ExpertsIn(f, n) < ExpertsIn(f, m)
                                             /\ AddIn(f, n) < FirstIn(f, m)
<1>1. /\ n \in 1 .. Number + 1 /\ EP \in Nat \ {0} /\ Stride = 2 * EP + 6
      /\ FirstAt(f, n) \in {-1, 1} /\ LastAt(n) \in {Stride, Stride + 2} /\ Base(f, n) \in Nat
      /\ RecordAt(1) = 2 /\ RecordAt(2) = EP + 5
  BY Sizes, BaseTypes DEF RecordAt
<1>2. /\ FirstIn(f, n) \in Int /\ PullIn(f, n) \in Int
      /\ ExpertsIn(f, n) \in Int /\ AddIn(f, n) \in Int
      /\ WaitsEnd(f, n, 1) \in Int /\ WaitsEnd(f, n, 2) \in Int
      /\ FirstIn(f, n) < PullIn(f, n) /\ PullIn(f, n) < ExpertsIn(f, n)
      /\ FirstIn(f, n) < ExpertsIn(f, n) /\ FirstIn(f, n) < AddIn(f, n)
      /\ ExpertsIn(f, n) < AddIn(f, n)
      /\ WaitsEnd(f, n, 1) < PullIn(f, n) /\ WaitsEnd(f, n, 1) < ExpertsIn(f, n)
      /\ WaitsEnd(f, n, 2) < AddIn(f, n)
  BY <1>1 DEF FirstIn, PullIn, ExpertsIn, AddIn, WaitsEnd
<1>3. ASSUME NEW m \in LayerNumbers, n < m
      PROVE  /\ WaitsEnd(f, n, 2) < FirstIn(f, m)
             /\ FirstIn(f, n) < FirstIn(f, m)
             /\ PullIn(f, n) < PullIn(f, m)
             /\ ExpertsIn(f, n) < ExpertsIn(f, m)
             /\ AddIn(f, n) < FirstIn(f, m)
  <2>1. m \in 1 .. Number + 1 /\ m > 1
    BY <1>1, <1>3, Sizes
  <2>2. Base(f, n) + LastAt(n) <= Base(f, m) /\ FirstAt(f, m) = 1 /\ Base(f, m) \in Nat
    BY <1>1, <1>3, <2>1, LaterBase, BaseTypes
  <2>3. Base(f, n) + Stride <= Base(f, m)
    BY <1>1, <2>2
  <2> QED
    BY <1>1, <2>2, <2>3 DEF FirstIn, PullIn, ExpertsIn, AddIn, WaitsEnd
<1> QED
  BY <1>2, <1>3

Role(f, d, n, i, seg, ins) ==
  \/ i = FirstIn(f, n) /\ seg = SegIn(n, 0) /\ IsKernel(ins, n, {}, {Acts(d)})
  \/ i = PullIn(f, n) /\ seg = SegIn(n, 1) /\ IsKernel(ins, n, OthersActs(d), PulledActs(d))
  \/ i = ExpertsIn(f, n) /\ seg = SegIn(n, 1) /\ IsKernel(ins, n, AllActs(d), Sums(d, n))
  \/ /\ i = AddIn(f, n) /\ seg = SegIn(n, 2)
     /\ \E reads : IsKernel(ins, n, reads, {}) /\ reads \subseteq Addends(d, n)

LEMMA KernelRoles ==
  ASSUME NEW f, NEW ev, NEW code, Layered(f, ev, code), NEW d \in Devices,
         NEW i \in Kernels(PlanOf(f, code), d)
  PROVE  \E n \in LayerNumbers :
           Role(f, d, n, i, Seg(PlanOf(f, code), d, i), Ins(PlanOf(f, code), d, i))
<1> DEFINE plan == PlanOf(f, code)
<1>1. PICK n \in LayerNumbers :
        i \in {FirstIn(f, n), PullIn(f, n), ExpertsIn(f, n), AddIn(f, n)}
  BY KernelsAre
<1>2. /\ Seg(plan, d, FirstIn(f, n)) = SegIn(n, 0)
      /\ IsKernel(Ins(plan, d, FirstIn(f, n)), n, {}, {Acts(d)})
  BY KernelAtIs
<1>3. /\ Seg(plan, d, PullIn(f, n)) = SegIn(n, 1)
      /\ IsKernel(Ins(plan, d, PullIn(f, n)), n, OthersActs(d), PulledActs(d))
  BY KernelAtIs
<1>4. /\ Seg(plan, d, ExpertsIn(f, n)) = SegIn(n, 1)
      /\ IsKernel(Ins(plan, d, ExpertsIn(f, n)), n, AllActs(d), Sums(d, n))
  BY KernelAtIs
<1>5. /\ Seg(plan, d, AddIn(f, n)) = SegIn(n, 2)
      /\ \E reads : /\ IsKernel(Ins(plan, d, AddIn(f, n)), n, reads, {})
                    /\ reads \subseteq Addends(d, n)
  BY KernelAtIs
<1> HIDE DEF plan
<1>6. Role(f, d, n, i, Seg(plan, d, i), Ins(plan, d, i))
  BY <1>1, <1>2, <1>3, <1>4, <1>5 DEF Role
<1> QED
  BY <1>6 DEF plan

LEMMA PlanKernelsWait ==
  ASSUME NEW f, NEW ev, NEW code, Layered(f, ev, code)
  PROVE  KernelsWait(PlanOf(f, code))
<1> DEFINE plan == PlanOf(f, code)
<1> SUFFICES ASSUME NEW d \in Devices, NEW i \in Kernels(plan, d), NEW q \in Devices \ {d},
                    Seg(plan, d, i) > 0
             PROVE  \E j \in Waits(plan, d), r \in Records(plan, q) :
                      /\ j < i /\ Seg(plan, d, j) = Seg(plan, d, i)
                      /\ Seg(plan, q, r) = Seg(plan, d, i)
                      /\ Ins(plan, q, r).event = Ins(plan, d, j).event
  BY DEF KernelsWait
<1>1. q \in Peers(d) /\ q \in Devices /\ f \in {0, 1}
  BY DEF Layered, Peers
<1>2. ASSUME NEW m \in LayerNumbers, NEW h \in {1, 2},
             WaitsEnd(f, m, h) \in Int, i \in Int, WaitsEnd(f, m, h) < i,
             Seg(plan, d, i) = SegIn(m, h)
      PROVE  \E j \in Waits(plan, d), r \in Records(plan, q) :
               /\ j < i /\ Seg(plan, d, j) = Seg(plan, d, i)
               /\ Seg(plan, q, r) = Seg(plan, d, i)
               /\ Ins(plan, q, r).event = Ins(plan, d, j).event
  <2>1. PICK j \in Waits(plan, d) : /\ j <= WaitsEnd(f, m, h)
                                    /\ Seg(plan, d, j) = SegIn(m, h)
                                    /\ Ins(plan, d, j).event = EventOf(ev, h, q, m)
    BY <1>1, WaitFound
  <2>2. PICK r : r = RecordIn(f, m, h)
    OBVIOUS
  <2>3. /\ r \in Records(plan, q) /\ Seg(plan, q, r) = SegIn(m, h)
        /\ Ins(plan, q, r).event = EventOf(ev, h, q, m)
    BY <1>1, <2>2, RecordAtIs
  <2>4. j \in Int
    BY PlanAtKinds DEF Waits
  <2>5. j < i
    BY <1>2, <2>1, <2>4
  <2> QED
    BY <1>2, <2>1, <2>3, <2>5
<1>3. PICK n \in LayerNumbers : Role(f, d, n, i, Seg(plan, d, i), Ins(plan, d, i))
  BY KernelRoles
<1>4. n \in Nat /\ n >= 1 /\ LayerNumbers = 1 .. Number /\ Number \in Nat
  BY Sizes
<1>5. CASE i = FirstIn(f, n) /\ Seg(plan, d, i) = SegIn(n, 0)
  <2>1. n > 1 /\ SegIn(n - 1, 2) = SegIn(n, 0)
    <3> HIDE DEF plan
    <3> QED
      BY <1>4, <1>5 DEF SegIn
  <2>2. n - 1 \in LayerNumbers /\ n - 1 < n
    BY <1>4, <2>1
  <2>3. PICK m \in LayerNumbers : m = n - 1
    BY <2>2
  <2>4. WaitsEnd(f, m, 2) \in Int /\ WaitsEnd(f, m, 2) < FirstIn(f, n) /\ FirstIn(f, n) \in Int
    BY <1>1, <2>2, <2>3, KernelPlaces
  <2>5. Seg(plan, d, i) = SegIn(m, 2)
    BY <1>5, <2>1, <2>3
  <2> HIDE DEF plan
  <2> QED
    BY <1>2, <1>5, <2>4, <2>5
<1>6. CASE i = PullIn(f, n) /\ Seg(plan, d, i) = SegIn(n, 1)
  <2>1. WaitsEnd(f, n, 1) \in Int /\ WaitsEnd(f, n, 1) < i /\ i \in Int
    BY <1>1, <1>6, KernelPlaces
  <2> HIDE DEF plan
  <2> QED
    BY <1>2, <1>6, <2>1
<1>7. CASE i = ExpertsIn(f, n) /\ Seg(plan, d, i) = SegIn(n, 1)
  <2>1. WaitsEnd(f, n, 1) \in Int /\ WaitsEnd(f, n, 1) < i /\ i \in Int
    BY <1>1, <1>7, KernelPlaces
  <2> HIDE DEF plan
  <2> QED
    BY <1>2, <1>7, <2>1
<1>8. CASE i = AddIn(f, n) /\ Seg(plan, d, i) = SegIn(n, 2)
  <2>1. WaitsEnd(f, n, 2) \in Int /\ WaitsEnd(f, n, 2) < i /\ i \in Int
    BY <1>1, <1>8, KernelPlaces
  <2> HIDE DEF plan
  <2> QED
    BY <1>2, <1>8, <2>1
<1> HIDE DEF plan
<1> QED
  BY <1>3, <1>5, <1>6, <1>7, <1>8 DEF Role
(* The places tell which part of the layer they belong to, and whose they  *)
(* are.                                                                    *)
LEMMA PlaceTags ==
  ASSUME NEW d, NEW q, NEW n
  PROVE  /\ Acts(d)[1] = "acts" /\ Acts(d)[2] = d
         /\ PeerActs(d, q)[1] = "peer_acts" /\ PeerActs(d, q)[2] = d /\ PeerActs(d, q)[3] = q
         /\ EAgg(d, q, n)[1] \in {"e_agg", "e_agg2"} /\ EAgg(d, q, n)[2] = d
         /\ EAgg(d, q, n)[3] = q
  BY DEF Acts, PeerActs, EAgg

(* What a kernel writes and reads, by its role.                            *)
LEMMA WrittenBy ==
  ASSUME NEW f, NEW d, NEW n, NEW i, NEW seg, NEW ins, Role(f, d, n, i, seg, ins),
         NEW a \in ins.writes
  PROVE  /\ a[2] = d /\ ins.layer = n
         /\ \/ a = Acts(d) /\ a[1] = "acts" /\ i = FirstIn(f, n) /\ seg = SegIn(n, 0)
            \/ /\ \E q \in Peers(d) : a = PeerActs(d, q)
               /\ a[1] = "peer_acts" /\ i = PullIn(f, n) /\ seg = SegIn(n, 1)
            \/ /\ \E q \in Peers(d) : a = EAgg(d, q, n)
               /\ a[1] \in {"e_agg", "e_agg2"} /\ i = ExpertsIn(f, n) /\ seg = SegIn(n, 1)
<1>1. CASE i = FirstIn(f, n) /\ seg = SegIn(n, 0) /\ IsKernel(ins, n, {}, {Acts(d)})
  BY <1>1, PlaceTags DEF IsKernel
<1>2. CASE i = PullIn(f, n) /\ seg = SegIn(n, 1) /\ IsKernel(ins, n, OthersActs(d), PulledActs(d))
  <2>1. PICK q \in Peers(d) : a = PeerActs(d, q)
    BY <1>2 DEF IsKernel, PulledActs
  <2> QED
    BY <1>2, <2>1, PlaceTags DEF IsKernel
<1>3. CASE i = ExpertsIn(f, n) /\ seg = SegIn(n, 1) /\ IsKernel(ins, n, AllActs(d), Sums(d, n))
  <2>1. PICK q \in Peers(d) : a = EAgg(d, q, n)
    BY <1>3 DEF IsKernel, Sums
  <2> QED
    BY <1>3, <2>1, PlaceTags DEF IsKernel
<1>4. CASE \E reads : IsKernel(ins, n, reads, {})
  BY <1>4 DEF IsKernel
<1> QED
  BY <1>1, <1>2, <1>3, <1>4 DEF Role

LEMMA ReadBy ==
  ASSUME NEW f, NEW d, NEW n, NEW i, NEW seg, NEW ins, Role(f, d, n, i, seg, ins),
         NEW a \in ins.reads
  PROVE  /\ ins.layer = n
         /\ \/ a = Acts(d) /\ (\/ i = ExpertsIn(f, n) /\ seg = SegIn(n, 1)
                               \/ i = AddIn(f, n) /\ seg = SegIn(n, 2))
            \/ (\E q \in Peers(d) : a = Acts(q)) /\ i = PullIn(f, n) /\ seg = SegIn(n, 1)
            \/ (\E q \in Peers(d) : a = PeerActs(d, q)) /\ i = ExpertsIn(f, n) /\ seg = SegIn(n, 1)
            \/ (\E q \in Peers(d) : a = EAgg(q, d, n)) /\ i = AddIn(f, n) /\ seg = SegIn(n, 2)
<1>1. CASE i = FirstIn(f, n) /\ seg = SegIn(n, 0) /\ IsKernel(ins, n, {}, {Acts(d)})
  BY <1>1 DEF IsKernel
<1>2. CASE i = PullIn(f, n) /\ seg = SegIn(n, 1) /\ IsKernel(ins, n, OthersActs(d), PulledActs(d))
  BY <1>2 DEF IsKernel, OthersActs
<1>3. CASE i = ExpertsIn(f, n) /\ seg = SegIn(n, 1) /\ IsKernel(ins, n, AllActs(d), Sums(d, n))
  BY <1>3 DEF IsKernel, AllActs
<1>4. CASE /\ i = AddIn(f, n) /\ seg = SegIn(n, 2)
           /\ \E reads : IsKernel(ins, n, reads, {}) /\ reads \subseteq Addends(d, n)
  BY <1>4 DEF IsKernel, Addends
<1> QED
  BY <1>1, <1>2, <1>3, <1>4 DEF Role

(* Segments of different halves differ.                                    *)
LEMMA SegmentsApart ==
  ASSUME NEW n \in LayerNumbers, NEW m \in LayerNumbers
  PROVE  /\ SegIn(n, 0) \in Nat /\ SegIn(n, 1) \in Nat /\ SegIn(n, 2) \in Nat
         /\ SegIn(n, 0) # SegIn(m, 1) /\ SegIn(n, 1) # SegIn(m, 2)
         /\ SegIn(n, 0) < SegIn(n, 1) /\ SegIn(n, 1) < SegIn(n, 2)
         /\ n < m => SegIn(n, 1) < SegIn(m, 0) /\ SegIn(n, 2) < SegIn(m, 1)
<1>1. n \in Nat /\ m \in Nat /\ n >= 1 /\ m >= 1
  BY Sizes
<1> QED
  BY <1>1 DEF SegIn

LEMMA PlanDisjoint ==
  ASSUME NEW f, NEW ev, NEW code, Layered(f, ev, code)
  PROVE  Disjoint(PlanOf(f, code))
<1> DEFINE plan == PlanOf(f, code)
<1> SUFFICES ASSUME NEW d \in Devices, NEW q \in Devices,
                    NEW i \in Kernels(plan, d), NEW k \in Kernels(plan, q),
                    d # q, Seg(plan, d, i) = Seg(plan, q, k),
                    NEW a \in Ins(plan, d, i).writes,
                    a \in Ins(plan, q, k).reads \cup Ins(plan, q, k).writes
             PROVE  FALSE
  BY DEF Disjoint
<1>1. PICK n \in LayerNumbers : Role(f, d, n, i, Seg(plan, d, i), Ins(plan, d, i))
  BY KernelRoles
<1>2. PICK m \in LayerNumbers : Role(f, q, m, k, Seg(plan, q, k), Ins(plan, q, k))
  BY KernelRoles
<1> HIDE DEF plan
<1>3. /\ a[2] = d
      /\ \/ a[1] = "acts" /\ Seg(plan, d, i) = SegIn(n, 0)
         \/ a[1] = "peer_acts"
         \/ a[1] \in {"e_agg", "e_agg2"} /\ Seg(plan, d, i) = SegIn(n, 1)
  BY <1>1, WrittenBy
<1>4. a \notin Ins(plan, q, k).writes
  <2>1. a \in Ins(plan, q, k).writes => a[2] = q
    BY <1>2, WrittenBy
  <2> QED
    BY <1>3, <2>1
<1>5. a \in Ins(plan, q, k).reads
  BY <1>4
<1>6. \/ a = Acts(q)
      \/ (\E p \in Peers(q) : a = Acts(p)) /\ Seg(plan, q, k) = SegIn(m, 1)
      \/ \E p \in Peers(q) : a = PeerActs(q, p)
      \/ (\E p \in Peers(q) : a = EAgg(p, q, m)) /\ Seg(plan, q, k) = SegIn(m, 2)
  BY <1>2, <1>5, ReadBy
<1>7. \/ a[2] = q
      \/ a[1] = "acts" /\ Seg(plan, q, k) = SegIn(m, 1)
      \/ a[1] \in {"e_agg", "e_agg2"} /\ Seg(plan, q, k) = SegIn(m, 2)
  BY <1>6, PlaceTags
<1>8. SegIn(n, 0) # SegIn(m, 1) /\ SegIn(n, 1) # SegIn(m, 2)
  BY SegmentsApart
<1> QED
  BY <1>3, <1>7, <1>8
(* A kernel finds the data of its layer if the kernel w of the layer that  *)
(* writes them comes before it and the writer of the next layer does not.  *)
SuppliedBy(plan, d, i, a, q, w) ==
  /\ a \in Ins(plan, q, w).writes
  /\ Ins(plan, q, w).layer = Ins(plan, d, i).layer
  /\ IF q = d THEN w < i ELSE Seg(plan, q, w) < Seg(plan, d, i)
  /\ \A p \in Devices : \A v \in Kernels(plan, p) : a \in Ins(plan, p, v).writes =>
       /\ p = q
       /\ \/ v <= w
          \/ Ins(plan, p, v).layer = Ins(plan, d, i).layer
          \/ IF q = d THEN i <= v ELSE Seg(plan, d, i) < Seg(plan, p, v)

LEMMA PlanSupplied ==
  ASSUME NEW f, NEW ev, NEW code, Layered(f, ev, code)
  PROVE  Supplied(PlanOf(f, code))
<1> DEFINE plan == PlanOf(f, code)
<1> SUFFICES ASSUME NEW d \in Devices, NEW i \in Kernels(plan, d),
                    NEW a \in Ins(plan, d, i).reads
             PROVE  \E q \in Devices : \E w \in Kernels(plan, q) : SuppliedBy(plan, d, i, a, q, w)
  BY DEF Supplied, SuppliedBy
<1>1. PICK n \in LayerNumbers : Role(f, d, n, i, Seg(plan, d, i), Ins(plan, d, i))
  BY KernelRoles
<1>2. f \in {0, 1} /\ n \in Nat /\ LayerNumbers \subseteq Nat
  BY Sizes DEF Layered
<1>3. Ins(plan, d, i).layer = n
  BY <1>1, ReadBy
<1>4. ASSUME NEW p \in Devices, NEW v \in Kernels(plan, p), a \in Ins(plan, p, v).writes
      PROVE  \E m \in LayerNumbers :
               /\ a[2] = p /\ Ins(plan, p, v).layer = m
               /\ \/ a[1] = "acts" /\ v = FirstIn(f, m) /\ Seg(plan, p, v) = SegIn(m, 0)
                  \/ a[1] = "peer_acts" /\ v = PullIn(f, m) /\ Seg(plan, p, v) = SegIn(m, 1)
                  \/ /\ a[1] \in {"e_agg", "e_agg2"} /\ v = ExpertsIn(f, m)
                     /\ Seg(plan, p, v) = SegIn(m, 1)
  <2>1. PICK m \in LayerNumbers : Role(f, p, m, v, Seg(plan, p, v), Ins(plan, p, v))
    BY KernelRoles
  <2> HIDE DEF plan
  <2>2. /\ a[2] = p /\ Ins(plan, p, v).layer = m
        /\ \/ a[1] = "acts" /\ v = FirstIn(f, m) /\ Seg(plan, p, v) = SegIn(m, 0)
           \/ a[1] = "peer_acts" /\ v = PullIn(f, m) /\ Seg(plan, p, v) = SegIn(m, 1)
           \/ /\ a[1] \in {"e_agg", "e_agg2"} /\ v = ExpertsIn(f, m)
              /\ Seg(plan, p, v) = SegIn(m, 1)
    BY <1>4, <2>1, WrittenBy
  <2> QED
    BY <2>2
<1>5. /\ FirstIn(f, n) \in Kernels(plan, d) /\ PullIn(f, n) \in Kernels(plan, d)
      /\ IsKernel(Ins(plan, d, FirstIn(f, n)), n, {}, {Acts(d)})
      /\ IsKernel(Ins(plan, d, PullIn(f, n)), n, OthersActs(d), PulledActs(d))
  BY KernelAtIs
<1>6. ASSUME NEW q \in Peers(d)
      PROVE  /\ q \in Devices /\ q # d
             /\ FirstIn(f, n) \in Kernels(plan, q) /\ ExpertsIn(f, n) \in Kernels(plan, q)
             /\ Seg(plan, q, FirstIn(f, n)) = SegIn(n, 0)
             /\ Seg(plan, q, ExpertsIn(f, n)) = SegIn(n, 1)
             /\ IsKernel(Ins(plan, q, FirstIn(f, n)), n, {}, {Acts(q)})
             /\ IsKernel(Ins(plan, q, ExpertsIn(f, n)), n, AllActs(q), Sums(q, n))
  <2>1. q \in Devices /\ q # d
    BY DEF Layered, Peers
  <2> QED
    BY <2>1, KernelAtIs
<1> HIDE DEF plan
<1>7. /\ FirstIn(f, n) \in Int /\ PullIn(f, n) \in Int /\ ExpertsIn(f, n) \in Int
      /\ AddIn(f, n) \in Int
      /\ FirstIn(f, n) < PullIn(f, n) /\ PullIn(f, n) < ExpertsIn(f, n)
      /\ FirstIn(f, n) < ExpertsIn(f, n) /\ ExpertsIn(f, n) < AddIn(f, n)
      /\ FirstIn(f, n) < AddIn(f, n)
  BY <1>2, KernelPlaces
<1>8. ASSUME NEW m \in LayerNumbers, m < n
      PROVE  /\ FirstIn(f, m) <= FirstIn(f, n) /\ PullIn(f, m) <= PullIn(f, n)
             /\ ExpertsIn(f, m) <= ExpertsIn(f, n)
  <2>1. /\ FirstIn(f, m) < FirstIn(f, n) /\ PullIn(f, m) < PullIn(f, n)
        /\ ExpertsIn(f, m) < ExpertsIn(f, n)
        /\ FirstIn(f, m) \in Int /\ PullIn(f, m) \in Int /\ ExpertsIn(f, m) \in Int
    BY <1>2, <1>8, KernelPlaces
  <2> QED
    BY <1>7, <2>1
<1>9. ASSUME NEW m \in LayerNumbers, n < m
      PROVE  /\ ExpertsIn(f, n) <= FirstIn(f, m) /\ AddIn(f, n) <= FirstIn(f, m)
             /\ ExpertsIn(f, n) <= PullIn(f, m)
             /\ SegIn(n, 1) < SegIn(m, 0) /\ SegIn(n, 2) < SegIn(m, 1)
  <2>1. AddIn(f, n) < FirstIn(f, m)
    BY <1>2, <1>9, KernelPlaces
  <2>2. FirstIn(f, m) \in Int /\ PullIn(f, m) \in Int /\ FirstIn(f, m) < PullIn(f, m)
    BY <1>2, KernelPlaces
  <2>3. SegIn(n, 1) < SegIn(m, 0) /\ SegIn(n, 2) < SegIn(m, 1)
    BY <1>9, SegmentsApart
  <2> QED
    BY <1>7, <2>1, <2>2, <2>3
<1>10. SegIn(n, 0) < SegIn(n, 1) /\ SegIn(n, 1) < SegIn(n, 2)
  BY SegmentsApart
<1>11. \A m \in LayerNumbers : m < n \/ m = n \/ n < m
  BY <1>2
<1>12. CASE /\ a = Acts(d)
            /\ \/ i = ExpertsIn(f, n) /\ Seg(plan, d, i) = SegIn(n, 1)
               \/ i = AddIn(f, n) /\ Seg(plan, d, i) = SegIn(n, 2)
  <2> DEFINE w == FirstIn(f, n)
  <2>1. a[1] = "acts" /\ a[2] = d
    BY <1>12, PlaceTags
  <2>2. a \in Ins(plan, d, w).writes /\ Ins(plan, d, w).layer = n /\ w < i
    BY <1>5, <1>7, <1>12 DEF IsKernel
  <2>3. ASSUME NEW p \in Devices, NEW v \in Kernels(plan, p), a \in Ins(plan, p, v).writes
        PROVE  p = d /\ (v <= w \/ Ins(plan, p, v).layer = n \/ i <= v)
    <3>1. PICK m \in LayerNumbers : /\ a[2] = p /\ Ins(plan, p, v).layer = m
                                    /\ v = FirstIn(f, m)
      BY <1>4, <2>1, <2>3
    <3> QED
      BY <1>8, <1>9, <1>11, <1>12, <2>1, <3>1
  <2>4. SuppliedBy(plan, d, i, a, d, w)
    BY <1>3, <2>2, <2>3 DEF SuppliedBy
  <2> QED
    BY <1>5, <2>4
<1>13. CASE (\E q \in Peers(d) : a = Acts(q)) /\ i = PullIn(f, n) /\ Seg(plan, d, i) = SegIn(n, 1)
  <2> DEFINE w == FirstIn(f, n)
  <2>0. PICK q \in Peers(d) : a = Acts(q)
    BY <1>13
  <2>1. a[1] = "acts" /\ a[2] = q /\ q \in Devices /\ q # d
    BY <1>6, <2>0, PlaceTags
  <2>2. /\ w \in Kernels(plan, q) /\ a \in Ins(plan, q, w).writes /\ Ins(plan, q, w).layer = n
        /\ Seg(plan, q, w) < Seg(plan, d, i)
    BY <1>6, <1>10, <1>13, <2>0 DEF IsKernel
  <2>3. ASSUME NEW p \in Devices, NEW v \in Kernels(plan, p), a \in Ins(plan, p, v).writes
        PROVE  p = q /\ (v <= w \/ Ins(plan, p, v).layer = n \/ Seg(plan, d, i) < Seg(plan, p, v))
    <3>1. PICK m \in LayerNumbers : /\ a[2] = p /\ Ins(plan, p, v).layer = m
                                    /\ v = FirstIn(f, m) /\ Seg(plan, p, v) = SegIn(m, 0)
      BY <1>4, <2>1, <2>3
    <3> QED
      BY <1>8, <1>9, <1>11, <1>13, <2>1, <3>1
  <2>4. SuppliedBy(plan, d, i, a, q, w)
    BY <1>3, <2>1, <2>2, <2>3 DEF SuppliedBy
  <2> QED
    BY <2>1, <2>2, <2>4
<1>14. CASE (\E q \in Peers(d) : a = PeerActs(d, q)) /\ i = ExpertsIn(f, n)
  <2> DEFINE w == PullIn(f, n)
  <2>1. a[1] = "peer_acts" /\ a[2] = d
    BY <1>14, PlaceTags
  <2>2. a \in Ins(plan, d, w).writes /\ Ins(plan, d, w).layer = n /\ w < i
    BY <1>5, <1>7, <1>14 DEF IsKernel, PulledActs
  <2>3. ASSUME NEW p \in Devices, NEW v \in Kernels(plan, p), a \in Ins(plan, p, v).writes
        PROVE  p = d /\ (v <= w \/ Ins(plan, p, v).layer = n \/ i <= v)
    <3>1. PICK m \in LayerNumbers : /\ a[2] = p /\ Ins(plan, p, v).layer = m
                                    /\ v = PullIn(f, m)
      BY <1>4, <2>1, <2>3
    <3> QED
      BY <1>8, <1>9, <1>11, <1>14, <2>1, <3>1
  <2>4. SuppliedBy(plan, d, i, a, d, w)
    BY <1>3, <2>2, <2>3 DEF SuppliedBy
  <2> QED
    BY <1>5, <2>4
<1>15. CASE /\ \E q \in Peers(d) : a = EAgg(q, d, n)
            /\ i = AddIn(f, n) /\ Seg(plan, d, i) = SegIn(n, 2)
  <2> DEFINE w == ExpertsIn(f, n)
  <2>0. PICK q \in Peers(d) : a = EAgg(q, d, n)
    BY <1>15
  <2>1. a[1] \in {"e_agg", "e_agg2"} /\ a[2] = q /\ q \in Devices /\ q # d
    <3>1. EAgg(q, d, n)[1] \in {"e_agg", "e_agg2"} /\ EAgg(q, d, n)[2] = q
      BY PlaceTags
    <3>2. q \in Devices /\ q # d
      BY <1>6
    <3> QED
      BY <2>0, <3>1, <3>2
  <2>2. a \in Sums(q, n)
    BY <2>0, <2>1 DEF Sums, Peers, Layered
  <2>3. /\ w \in Kernels(plan, q) /\ a \in Ins(plan, q, w).writes /\ Ins(plan, q, w).layer = n
        /\ Seg(plan, q, w) < Seg(plan, d, i)
    BY <1>6, <1>10, <1>15, <2>0, <2>2 DEF IsKernel
  <2>4. ASSUME NEW p \in Devices, NEW v \in Kernels(plan, p), a \in Ins(plan, p, v).writes
        PROVE  p = q /\ (v <= w \/ Ins(plan, p, v).layer = n \/ Seg(plan, d, i) < Seg(plan, p, v))
    <3>1. PICK m \in LayerNumbers : /\ a[2] = p /\ Ins(plan, p, v).layer = m
                                    /\ v = ExpertsIn(f, m) /\ Seg(plan, p, v) = SegIn(m, 1)
      BY <1>4, <2>1, <2>4
    <3> QED
      BY <1>8, <1>9, <1>11, <1>15, <2>1, <3>1
  <2>5. SuppliedBy(plan, d, i, a, q, w)
    BY <1>3, <2>1, <2>3, <2>4 DEF SuppliedBy
  <2> QED
    BY <2>1, <2>3, <2>5
<1>16. \/ a = Acts(d) /\ (\/ i = ExpertsIn(f, n) /\ Seg(plan, d, i) = SegIn(n, 1)
                          \/ i = AddIn(f, n) /\ Seg(plan, d, i) = SegIn(n, 2))
       \/ (\E q \in Peers(d) : a = Acts(q)) /\ i = PullIn(f, n) /\ Seg(plan, d, i) = SegIn(n, 1)
       \/ (\E q \in Peers(d) : a = PeerActs(d, q)) /\ i = ExpertsIn(f, n)
       \/ /\ \E q \in Peers(d) : a = EAgg(q, d, n)
          /\ i = AddIn(f, n) /\ Seg(plan, d, i) = SegIn(n, 2)
  BY <1>1, ReadBy
<1> QED
  BY <1>12, <1>13, <1>14, <1>15, <1>16

(* The hypotheses of LockstepOrdered hold for every program of this shape. *)
LEMMA LayeredLockstep ==
  ASSUME NEW f, NEW ev, NEW code, Layered(f, ev, code)
  PROVE  Lockstep(PlanOf(f, code))
  BY PlanWellTyped, PlanCountsBarriers, PlanRecordsSeparate, PlanEventsDiffer, PlanWaitsMeet,
     PlanKernelsWait, PlanDisjoint, PlanSupplied DEF Lockstep
-----------------------------------------------------------------------------
(* The partial concatenations that FlattenSeq chooses.                     *)
Flattening(c, seqs) ==
  c = [i \in 1 .. Len(seqs) |-> IF i = 1 THEN seqs[i] ELSE c[i - 1] \o seqs[i]]

(* What a concatenation holds, by places in the two sequences.              *)
Joined(u, s, t) == /\ Len(u) = Len(s) + Len(t)
                   /\ \A i \in 1 .. Len(s) : u[i] = s[i]
                   /\ \A k \in 1 .. Len(t) : u[Len(s) + k] = t[k]

LEMMA ConcatIs ==
  ASSUME NEW S, NEW s \in Seq(S), NEW t \in Seq(S)
  PROVE  s \o t \in Seq(S) /\ Joined(s \o t, s, t)
<1>1. s \o t \in Seq(S) /\ Len(s \o t) = Len(s) + Len(t) /\ Len(s) \in Nat /\ Len(t) \in Nat
  BY ConcatProperties
<1>2. \A i \in 1 .. Len(s) + Len(t) :
        (s \o t)[i] = IF i <= Len(s) THEN s[i] ELSE t[i - Len(s)]
  BY ConcatProperties
<1>3. ASSUME NEW i \in 1 .. Len(s) PROVE (s \o t)[i] = s[i]
  BY <1>1, <1>2
<1>4. ASSUME NEW k \in 1 .. Len(t) PROVE (s \o t)[Len(s) + k] = t[k]
  <2>1. Len(s) + k \in 1 .. Len(s) + Len(t) /\ ~(Len(s) + k <= Len(s))
        /\ (Len(s) + k) - Len(s) = k
    BY <1>1
  <2> QED
    BY <1>2, <2>1
<1> QED
  BY <1>1, <1>3, <1>4 DEF Joined

LEMMA FlatteningExists ==
  ASSUME NEW S, NEW N \in Nat, NEW seqs \in [1 .. N -> Seq(S)]
  PROVE  \E c : Flattening(c, seqs)
<1> DEFINE G == [p \in (1 .. N) \X Seq(S) |-> p[2] \o seqs[p[1]]]
<1>1. <<>> \in Seq(S)
  BY EmptySeq
<1>2. G \in [(1 .. N) \X Seq(S) -> Seq(S)]
  <2>1. ASSUME NEW p \in (1 .. N) \X Seq(S) PROVE p[2] \o seqs[p[1]] \in Seq(S)
    <3>1. p[1] \in 1 .. N /\ p[2] \in Seq(S)
      OBVIOUS
    <3> QED
      BY <3>1, ConcatProperties
  <2> QED
    BY <2>1
<1>3. PICK F : Recursive(F, N, Seq(S), <<>>, G)
  <2> HIDE DEF G
  <2> QED
    BY <1>1, <1>2, Recursion
<1>4. /\ F \in [0 .. N -> Seq(S)] /\ F[0] = <<>>
      /\ \A n \in 1 .. N : F[n] = F[n - 1] \o seqs[n]
  <2>1. /\ F \in [0 .. N -> Seq(S)] /\ F[0] = <<>>
        /\ \A n \in 1 .. N : F[n] = G[<<n, F[n - 1]>>]
    <3> HIDE DEF G
    <3> QED
      BY <1>3 DEF Recursive
  <2>2. ASSUME NEW n \in 1 .. N PROVE F[n] = F[n - 1] \o seqs[n]
    <3>0. n - 1 \in 0 .. N
      OBVIOUS
    <3>1. F[n - 1] \in Seq(S) /\ <<n, F[n - 1]>> \in (1 .. N) \X Seq(S)
      <4>1. F[n - 1] \in Seq(S)
        BY <2>1, <3>0
      <4> QED
        BY <4>1
    <3>2. G[<<n, F[n - 1]>>] = F[n - 1] \o seqs[n]
      BY <3>1
    <3> HIDE DEF G
    <3> QED
      BY <2>1, <3>2
  <2> QED
    BY <2>1, <2>2
<1> DEFINE c == [i \in 1 .. N |-> F[i]]
<1>5. Len(seqs) = N
  OBVIOUS
<1>6. ASSUME NEW i \in 1 .. N
      PROVE  F[i] = IF i = 1 THEN seqs[i] ELSE c[i - 1] \o seqs[i]
  <2>1. CASE i = 1
    <3>1. 1 \in 1 .. N /\ 1 - 1 = 0
      BY <2>1
    <3>2. F[1] = F[0] \o seqs[1] /\ seqs[1] \in Seq(S)
      BY <1>4, <3>1
    <3>3. F[0] \o seqs[1] = seqs[1]
      BY <1>4, <3>2, ConcatEmptySeq
    <3> QED
      BY <2>1, <3>2, <3>3
  <2>2. CASE i # 1
    <3>1. i - 1 \in 1 .. N
      BY <2>2
    <3> QED
      BY <1>4, <2>2, <3>1
  <2> QED
    BY <2>1, <2>2
<1>7. c = [i \in 1 .. N |-> IF i = 1 THEN seqs[i] ELSE c[i - 1] \o seqs[i]]
  BY <1>6
<1> HIDE DEF c
<1> QED
  BY <1>5, <1>7 DEF Flattening

LEMMA FlatteningChosen ==
  ASSUME NEW S, NEW N \in Nat, NEW seqs \in [1 .. N -> Seq(S)], N # 0
  PROVE  \E c : Flattening(c, seqs) /\ FlattenSeq(seqs) = c[N]
<1> DEFINE c == CHOOSE x : Flattening(x, seqs)
<1>1. Len(seqs) = N
  OBVIOUS
<1>2. Flattening(c, seqs)
  BY FlatteningExists
<1>3. FlattenSeq(seqs) = c[N]
  BY <1>1 DEF FlattenSeq, Flattening
<1> QED
  BY <1>2, <1>3

(* Each element of the n-th of the sequences has its place after the       *)
(* off[n] elements of the sequences before.                                *)
(* u has the N sequences one after the other, the n-th after off[n]        *)
(* elements.                                                               *)
Laid(u, seqs, off, N) ==
  /\ Len(u) = off[N + 1]
  /\ \A n \in 1 .. N : \A k \in 1 .. Len(seqs[n]) : u[off[n] + k] = seqs[n][k]

LEMMA FlattenIs ==
  ASSUME NEW S, NEW N \in Nat, NEW seqs \in [1 .. N -> Seq(S)],
         NEW off \in [1 .. N + 1 -> Nat], off[1] = 0,
         \A n \in 1 .. N : off[n + 1] = off[n] + Len(seqs[n])
  PROVE  FlattenSeq(seqs) \in Seq(S) /\ Laid(FlattenSeq(seqs), seqs, off, N)
<1>1. CASE N = 0
  <2>1. Len(seqs) = 0 /\ seqs \in Seq(S)
    BY <1>1
  <2>2. FlattenSeq(seqs) = seqs
    BY <2>1 DEF FlattenSeq
  <2> QED
    BY <1>1, <2>1, <2>2 DEF Laid
<1>2. CASE N # 0
  <2>1. PICK c : Flattening(c, seqs) /\ FlattenSeq(seqs) = c[N]
    BY <1>2, FlatteningChosen
  <2>2. \A i \in 1 .. N : c[i] = IF i = 1 THEN seqs[i] ELSE c[i - 1] \o seqs[i]
    <3>1. Len(seqs) = N
      OBVIOUS
    <3> QED
      BY <2>1, <3>1 DEF Flattening
  <2> DEFINE Good(m) == m + 1 <= N =>
               /\ c[m + 1] \in Seq(S) /\ Len(c[m + 1]) = off[m + 2]
               /\ \A n \in 1 .. m + 1 : \A k \in 1 .. Len(seqs[n]) :
                    off[n] + k <= off[m + 2] /\ c[m + 1][off[n] + k] = seqs[n][k]
             good == {m \in Nat : Good(m)}
  <2>3. 0 \in good
    <3>1. c[1] = seqs[1] /\ seqs[1] \in Seq(S) /\ off[2] = Len(seqs[1]) /\ 1 \in 1 .. N
      <4>1. 1 \in 1 .. N /\ 1 + 1 = 2
        BY <1>2
      <4>2. off[1 + 1] = off[1] + Len(seqs[1]) /\ seqs[1] \in Seq(S) /\ Len(seqs[1]) \in Nat
        BY <4>1
      <4> QED
        BY <2>2, <4>1, <4>2
    <3> QED
      BY <3>1
  <2>4. ASSUME NEW m \in Nat, m \in good PROVE m + 1 \in good
    <3> SUFFICES ASSUME m + 2 <= N
                 PROVE  /\ c[m + 2] \in Seq(S) /\ Len(c[m + 2]) = off[m + 3]
                        /\ \A n \in 1 .. m + 2 : \A k \in 1 .. Len(seqs[n]) :
                             /\ off[n] + k <= off[m + 3]
                             /\ c[m + 2][off[n] + k] = seqs[n][k]
      <4>1. (m + 1) + 1 = m + 2 /\ (m + 1) + 2 = m + 3
        OBVIOUS
      <4> QED
        BY <4>1
    <3>1. /\ m + 1 \in 1 .. N /\ m + 2 \in 1 .. N /\ (m + 2) - 1 = m + 1 /\ m + 2 # 1
          /\ (m + 2) + 1 = m + 3 /\ m + 1 <= N
      OBVIOUS
    <3>2. /\ c[m + 1] \in Seq(S) /\ Len(c[m + 1]) = off[m + 2]
          /\ \A n \in 1 .. m + 1 : \A k \in 1 .. Len(seqs[n]) :
               off[n] + k <= off[m + 2] /\ c[m + 1][off[n] + k] = seqs[n][k]
      BY <2>4, <3>1
    <3>3. c[m + 2] = c[m + 1] \o seqs[m + 2] /\ seqs[m + 2] \in Seq(S)
      BY <2>2, <3>1
    <3>4. off[m + 3] = off[m + 2] + Len(seqs[m + 2]) /\ off[m + 2] \in Nat
          /\ Len(seqs[m + 2]) \in Nat
      BY <3>1, <3>3
    <3>5. /\ c[m + 2] \in Seq(S) /\ Len(c[m + 2]) = off[m + 3]
          /\ \A i \in 1 .. off[m + 2] : c[m + 2][i] = c[m + 1][i]
          /\ \A k \in 1 .. Len(seqs[m + 2]) : c[m + 2][off[m + 2] + k] = seqs[m + 2][k]
      <4> DEFINE s == c[m + 1]
                 t == seqs[m + 2]
                 a == off[m + 2]
      <4>1. s \in Seq(S) /\ t \in Seq(S) /\ Len(s) = a /\ c[m + 2] = s \o t
            /\ off[m + 3] = a + Len(t)
        BY <3>2, <3>3, <3>4
      <4>0. off[m + 2] \in Nat /\ Len(seqs[m + 2]) \in Nat
        BY <3>4
      <4> HIDE DEF s, t, a
      <4>2. /\ s \o t \in Seq(S) /\ Len(s \o t) = a + Len(t)
            /\ \A i \in 1 .. a : (s \o t)[i] = s[i]
            /\ \A k \in 1 .. Len(t) : (s \o t)[a + k] = t[k]
        <5>1. s \in Seq(S) /\ t \in Seq(S) /\ Len(s) = a
          BY <4>1
        <5>2. s \o t \in Seq(S) /\ Joined(s \o t, s, t)
          BY <5>1, ConcatIs
        <5> QED
          BY <5>1, <5>2 DEF Joined
      <4> QED
        BY <4>1, <4>2 DEF s, t, a
    <3>6. ASSUME NEW n \in 1 .. m + 2, NEW k \in 1 .. Len(seqs[n])
          PROVE  off[n] + k <= off[m + 3] /\ c[m + 2][off[n] + k] = seqs[n][k]
      <4>1. n \in 1 .. N /\ seqs[n] \in Seq(S)
        BY <3>1
      <4>2. off[n] \in Nat /\ Len(seqs[n]) \in Nat
        BY <4>1
      <4>3. CASE n = m + 2
        <5>1. off[n] + k <= off[m + 3]
          <6> DEFINE a == off[n]  z == off[m + 3]
          <6>1. z = a + Len(seqs[n]) /\ a \in Nat /\ Len(seqs[n]) \in Nat
            BY <3>4, <4>2, <4>3
          <6> HIDE DEF a, z
          <6>2. a + k <= z
            BY <6>1
          <6> QED
            BY <6>2 DEF a, z
        <5> QED
          BY <3>5, <4>3, <5>1
      <4>4. CASE n # m + 2
        <5>1. n \in 1 .. m + 1
          BY <4>4
        <5>2. off[n] + k <= off[m + 2] /\ c[m + 1][off[n] + k] = seqs[n][k]
          BY <3>2, <5>1
        <5> DEFINE i == off[n] + k  y == off[m + 2]  z == off[m + 3]
        <5>3. i \in Nat /\ 1 <= i
          <6> DEFINE a == off[n]
          <6>1. a \in Nat /\ k \in Nat /\ 1 <= k
            BY <4>2
          <6> HIDE DEF a
          <6>2. a + k \in Nat /\ 1 <= a + k
            BY <6>1
          <6> QED
            BY <6>2 DEF a
        <5>4. z = y + Len(seqs[m + 2]) /\ y \in Nat /\ Len(seqs[m + 2]) \in Nat /\ i <= y
              /\ c[m + 1][i] = seqs[n][k] /\ (\A j \in 1 .. y : c[m + 2][j] = c[m + 1][j])
          BY <3>4, <3>5, <5>2
        <5> HIDE DEF i, y, z
        <5>5. i \in 1 .. y /\ i <= z
          <6> DEFINE l == Len(seqs[m + 2])
          <6>1. z = y + l /\ y \in Nat /\ l \in Nat /\ i <= y
            BY <5>4
          <6> HIDE DEF l
          <6> QED
            BY <5>3, <6>1
        <5>6. i <= z /\ c[m + 2][i] = seqs[n][k]
          BY <5>4, <5>5
        <5> QED
          BY <5>6 DEF i, z
      <4> QED
        BY <4>3, <4>4
    <3> QED
      BY <3>5, <3>6
  <2> HIDE DEF good
  <2>5. \A m \in Nat : m \in good
    BY <2>3, <2>4, Induction
  <2>6. N - 1 \in good /\ (N - 1) + 1 = N /\ (N - 1) + 2 = N + 1 /\ N - 1 \in Nat
    BY <1>2, <2>5
  <2>7. Good(N - 1)
    BY <2>6 DEF good
  <2> QED
    BY <2>1, <2>6, <2>7 DEF Laid
<1> QED
  BY <1>1, <1>2

(* A replica of the default build of more than two GPUs: its events and    *)
(* places are among those of the model. The event of half h of layer n of  *)
(* rank d is XPullMark[<<h, d, n>>].                                       *)
XPullSetting == /\ Devices = Ranks /\ Compute \in StreamNames
                /\ XPullEvents \subseteq Events /\ AllPlaces \subseteq Places
XPullMark == [x \in Triples |-> <<IF x[1] = 1 THEN "ag" ELSE "e_agg", x[2], Slot(x[3])>>]

(* The instructions as the model makes them.                               *)
LEMMA InstructionTypes ==
  ASSUME Compute \in StreamNames, NEW n \in Nat
  PROVE  /\ \A R, W \in SUBSET Places : Kernel(Compute, n, R, W) \in InstructionSet
         /\ \A e \in Events : /\ Record(Compute, n, e) \in InstructionSet
                              /\ WaitFor(Compute, n, e) \in InstructionSet
         /\ DrainOf(Compute, n) \in InstructionSet /\ BarrierWait(n) \in InstructionSet
  BY DEF Kernel, Record, WaitFor, DrainOf, BarrierWait, Instruction, InstructionSet

LEMMA InstructionFields ==
  ASSUME NEW n
  PROVE  /\ \A R, W : /\ IsKernel(Kernel(Compute, n, R, W), n, R, W)
                      /\ Kernel(Compute, n, R, W).on = Compute
         /\ \A e : /\ Record(Compute, n, e).do = "record" /\ Record(Compute, n, e).layer = n
                   /\ Record(Compute, n, e).event = e /\ Record(Compute, n, e).on = Compute
                   /\ WaitFor(Compute, n, e).do = "wait" /\ WaitFor(Compute, n, e).layer = n
                   /\ WaitFor(Compute, n, e).event = e /\ WaitFor(Compute, n, e).on = Compute
         /\ DrainOf(Compute, n).do = "drain" /\ BarrierWait(n).do = "barrier"
         /\ DrainOf(Compute, n).on = Compute /\ BarrierWait(n).on = Compute
  BY DEF Kernel, Record, WaitFor, DrainOf, BarrierWait, Instruction, IsKernel

(* One half of a layer at EP > 2: a kernel, the record, the barrier,       *)
(* waits, a kernel.                                                        *)
HalfOf(u, a, r, b, w, z) ==
  /\ Len(u) = Len(w) + 4
  /\ u[1] = a /\ u[2] = r /\ u[3] = b /\ u[Len(w) + 4] = z
  /\ \A k \in 1 .. Len(w) : u[3 + k] = w[k]

LEMMA HalfIs ==
  ASSUME NEW S, NEW a \in S, NEW r \in S, NEW b \in S, NEW w \in Seq(S), NEW z \in S
  PROVE  /\ <<a>> \o <<r, b>> \o w \o <<z>> \in Seq(S)
         /\ HalfOf(<<a>> \o <<r, b>> \o w \o <<z>>, a, r, b, w, z)
  BY DEF HalfOf

LEMMA PlacesAre ==
  ASSUME AllPlaces \subseteq Places, NEW d \in Ranks, NEW n
  PROVE  /\ Acts(d) \in Places /\ \A q \in Ranks : /\ PeerActs(d, q) \in Places
                                                   /\ EAgg(d, q, n) \in Places
  BY DEF AllPlaces, Acts, PeerActs, EAgg

LEMMA PlaceSets ==
  ASSUME AllPlaces \subseteq Places, NEW d \in Ranks, NEW n
  PROVE  /\ {Acts(d)} \in SUBSET Places /\ OthersActs(d) \in SUBSET Places
         /\ PulledActs(d) \in SUBSET Places /\ AllActs(d) \in SUBSET Places
         /\ Sums(d, n) \in SUBSET Places /\ Addends(d, n) \in SUBSET Places
<1>1. \A p \in Ranks : Acts(p) \in Places
  BY PlacesAre
<1>2. \A p, q \in Ranks : PeerActs(p, q) \in Places /\ EAgg(p, q, n) \in Places
  BY PlacesAre
<1> QED
  BY <1>1, <1>2 DEF OthersActs, PulledActs, AllActs, Sums, Addends, Peers

(* Both orders in which the code goes through the peers reach each of      *)
(* them.                                                                   *)
Enumerates(w, d) == /\ w \in [1 .. EP - 1 -> Peers(d)]
                    /\ \A q \in Peers(d) : \E k \in 1 .. EP - 1 : w[k] = q

LEMMA AscendingEnumerates ==
  ASSUME NEW d \in Ranks
  PROVE  Enumerates(PeersAscending(d), d)
<1>1. EP \in Nat \ {0}
  BY ExchangeAssumption
<1>2. PeersAscending(d) \in [1 .. EP - 1 -> Peers(d)]
  BY <1>1 DEF PeersAscending, Peers, Ranks
<1>3. ASSUME NEW q \in Peers(d) PROVE \E k \in 1 .. EP - 1 : PeersAscending(d)[k] = q
  <2>1. CASE q < d
    <3>1. q + 1 \in 1 .. EP - 1 /\ PeersAscending(d)[q + 1] = q
      BY <1>1, <2>1 DEF PeersAscending, Peers, Ranks
    <3> QED
      BY <3>1
  <2>2. CASE ~(q < d)
    <3>1. q \in 1 .. EP - 1 /\ PeersAscending(d)[q] = q
      BY <1>1, <2>2 DEF PeersAscending, Peers, Ranks
    <3> QED
      BY <3>1
  <2> QED
    BY <2>1, <2>2
<1> QED
  BY <1>2, <1>3 DEF Enumerates

LEMMA DeltaEnumerates ==
  ASSUME NEW d \in Ranks
  PROVE  Enumerates(PeersInDeltaOrder(d), d)
<1>1. EP \in Nat \ {0} /\ d \in Nat /\ d < EP
  BY ExchangeAssumption DEF Ranks
<1>2. ASSUME NEW q \in Ranks PROVE q % EP = q /\ (q + EP) % EP = q
  <2>1. q \in 0 .. EP - 1 /\ 0 \in Nat /\ 1 \in Nat /\ 0 * EP + q = q /\ 1 * EP + q = q + EP
    BY <1>1 DEF Ranks
  <2>2. (0 * EP + q) % EP = q /\ (1 * EP + q) % EP = q
    BY <1>1, <2>1, DivisionUnique
  <2> QED
    BY <2>1, <2>2
<1>3. ASSUME NEW k \in 1 .. EP - 1 PROVE (d + k) % EP \in Peers(d)
  <2>1. d + k \in Nat /\ d < d + k /\ d + k < d + EP
    BY <1>1
  <2>2. (d + k) % EP \in 0 .. EP - 1
    BY <1>1, <2>1, Division
  <2>3. d % EP # (d + k) % EP
    BY <1>1, <2>1, NearRemainders
  <2> QED
    BY <1>2, <2>2, <2>3 DEF Peers, Ranks
<1>4. ASSUME NEW q \in Peers(d) PROVE \E k \in 1 .. EP - 1 : (d + k) % EP = q
  <2>1. q \in Ranks /\ q # d /\ q \in Nat /\ q < EP
    BY <1>1 DEF Peers, Ranks
  <2>2. CASE d < q
    <3>1. q - d \in 1 .. EP - 1 /\ d + (q - d) = q
      BY <1>1, <2>1, <2>2
    <3> QED
      BY <1>2, <2>1, <3>1
  <2>3. CASE ~(d < q)
    <3>1. (q + EP) - d \in 1 .. EP - 1 /\ d + ((q + EP) - d) = q + EP
      BY <1>1, <2>1, <2>3
    <3> QED
      BY <1>2, <2>1, <3>1
  <2> QED
    BY <2>2, <2>3
<1> QED
  BY <1>3, <1>4 DEF Enumerates, PeersInDeltaOrder

(* Synchronises, for a block of instructions on its own: the block of a    *)
(* layer is ahead of the place numbers by two in the first layer of a      *)
(* pair.                                                                   *)
SyncIn(ev, u, b, d, n, h) ==
  /\ /\ u[b].do = "record" /\ u[b].layer = n
     /\ u[b].event = EventOf(ev, h, d, n)
  /\ u[b + 1].do = "barrier"
  /\ \A p \in 2 .. EP : /\ u[b + p].do = "wait" /\ u[b + p].layer = n
                        /\ \E q \in Peers(d) : u[b + p].event = EventOf(ev, h, q, n)
  /\ \A q \in Peers(d) : \E p \in 2 .. EP : u[b + p].event = EventOf(ev, h, q, n)

Ahead(f, n) == 1 - FirstAt(f, n)
Start(f, n) == Base(f, n) + FirstAt(f, n) - 1

Starts(f) == [n \in 1 .. Number + 1 |-> Start(f, n)]

BlockIs(f, ev, u, d, n) ==
  /\ u \in Seq(InstructionSet) /\ Len(u) = LastAt(n) + Ahead(f, n)
  /\ \A i \in 1 .. Len(u) : u[i].on = Compute
  /\ IsKernel(u[1], n, {}, {Acts(d)})
  /\ FirstAt(f, n) = -1 => u[2].do = "drain" /\ u[3].do = "barrier"
  /\ \A h \in {1, 2} : SyncIn(ev, u, Ahead(f, n) + RecordAt(h), d, n, h)
  /\ IsKernel(u[Ahead(f, n) + (EP + 3)], n, OthersActs(d), PulledActs(d))
  /\ IsKernel(u[Ahead(f, n) + (EP + 4)], n, AllActs(d), Sums(d, n))
  /\ \E reads : /\ IsKernel(u[Ahead(f, n) + Stride], n, reads, {})
                /\ reads \subseteq Addends(d, n)
  /\ LastAt(n) = Stride + 2 => /\ u[Ahead(f, n) + (Stride + 1)].do = "drain"
                               /\ u[Ahead(f, n) + (Stride + 2)].do = "barrier"

LEMMA SyncsWithin ==
  ASSUME NEW ev, NEW code, NEW u, NEW d, NEW n, NEW h, NEW b \in Int, NEW c \in Int,
         SyncIn(ev, u, c, d, n, h), \A p \in 0 .. EP : code[d][b + p] = u[c + p]
  PROVE  Synchronises(ev, code, d, n, h, b)
<1>1. EP \in Nat \ {0}
  BY ExchangeAssumption
<1>2. code[d][b] = u[c] /\ code[d][b + 1] = u[c + 1]
  <2>1. 0 \in 0 .. EP /\ 1 \in 0 .. EP /\ b + 0 = b /\ c + 0 = c
    BY <1>1
  <2> QED
    BY <2>1
<1>3. \A p \in 2 .. EP : code[d][b + p] = u[c + p]
  BY <1>1
<1> QED
  BY <1>2, <1>3 DEF SyncIn, Synchronises

(* The blocks of a rank, one after the other.                              *)
LEMMA BlocksInOrder ==
  ASSUME NEW f \in {0, 1}, NEW ev, NEW d, NEW blocks \in [LayerNumbers -> Seq(InstructionSet)],
         \A n \in LayerNumbers : BlockIs(f, ev, blocks[n], d, n)
  PROVE  /\ FlattenSeq(blocks) \in Seq(InstructionSet)
         /\ Laid(FlattenSeq(blocks), blocks, Starts(f), Number)
<1> DEFINE off == Starts(f)
<1>1. /\ Number \in Nat /\ LayerNumbers = 1 .. Number
      /\ \A m \in 1 .. Number + 1 : Base(f, m) \in Nat /\ FirstAt(f, m) \in {-1, 1}
                                     /\ LastAt(m) \in Nat /\ (m > 1 => FirstAt(f, m) = 1)
  BY LayerTypes, Sizes
<1>2. Start(f, 1) = 0
  <2>1. 1 \in 1 .. Number + 1
    BY <1>1
  <2>2. Base(f, 1) = 2 * f /\ FirstAt(f, 1) = 1 - 2 * f
    BY <2>1, BaseTypes
  <2> QED
    BY <2>2 DEF Start
<1>3. ASSUME NEW n \in 1 .. Number + 1 PROVE Start(f, n) \in Nat
  <2>1. CASE n = 1
    BY <1>2, <2>1
  <2>2. CASE n # 1
    BY <1>1, <2>2 DEF Start
  <2> QED
    BY <2>1, <2>2
<1>4. ASSUME NEW n \in 1 .. Number
      PROVE  Start(f, n + 1) = Start(f, n) + Len(blocks[n])
  <2>1. /\ n \in 1 .. Number + 1 /\ n + 1 \in 1 .. Number + 1 /\ n + 1 > 1
    BY <1>1
  <2>2. Base(f, n + 1) = Base(f, n) + LastAt(n) /\ FirstAt(f, n + 1) = 1
    BY <1>1, <2>1, NextBase
  <2>3. Len(blocks[n]) = LastAt(n) + Ahead(f, n)
    BY <1>1 DEF BlockIs
  <2> DEFINE b == Base(f, n)
             a == FirstAt(f, n)
             l == LastAt(n)
             k == Len(blocks[n])
  <2>4. /\ b \in Nat /\ a \in Int /\ l \in Nat /\ k = l + (1 - a)
        /\ Start(f, n + 1) = (b + l) + 1 - 1
    BY <1>1, <2>1, <2>2, <2>3 DEF Ahead, Start
  <2> HIDE DEF b, a, l, k
  <2>5. Start(f, n + 1) = (b + a - 1) + k
    BY <2>4
  <2> QED
    BY <2>4, <2>5 DEF b, a, l, k, Start
<1>5. /\ off \in [1 .. Number + 1 -> Nat] /\ off[1] = 0 /\ off[Number + 1] = Start(f, Number + 1)
      /\ \A n \in 1 .. Number : off[n] = Start(f, n) /\ off[n + 1] = off[n] + Len(blocks[n])
  <2>1. 1 \in 1 .. Number + 1 /\ Number + 1 \in 1 .. Number + 1
        /\ \A n \in 1 .. Number : n \in 1 .. Number + 1 /\ n + 1 \in 1 .. Number + 1
    BY <1>1
  <2>2. off \in [1 .. Number + 1 -> Nat] /\ \A n \in 1 .. Number + 1 : off[n] = Start(f, n)
    BY <1>3 DEF Starts
  <2> HIDE DEF off
  <2> QED
    BY <1>2, <1>4, <2>1, <2>2
<1> HIDE DEF off
<1>6. blocks \in [1 .. Number -> Seq(InstructionSet)]
  BY <1>1
<1>7. FlattenSeq(blocks) \in Seq(InstructionSet) /\ Laid(FlattenSeq(blocks), blocks, off, Number)
  <2>1. /\ off[1] = 0 /\ off \in [1 .. Number + 1 -> Nat]
        /\ \A n \in 1 .. Number : off[n + 1] = off[n] + Len(blocks[n])
    BY <1>5
  <2> QED
    BY <1>1, <1>6, <2>1, FlattenIs
<1> QED
  BY <1>7 DEF off

LEMMA BlocksLayered ==
  ASSUME NEW f \in {0, 1}, NEW ev, NEW code, NEW d,
         NEW blocks \in [LayerNumbers -> Seq(InstructionSet)],
         \A n \in LayerNumbers : BlockIs(f, ev, blocks[n], d, n),
         code[d] = FlattenSeq(blocks)
  PROVE  /\ code[d] \in Seq(InstructionSet) /\ Len(code[d]) = Length(f)
         /\ \A i \in 1 .. Length(f) : code[d][i].on = Compute
         /\ \A n \in LayerNumbers : LayerIs(f, ev, code, d, n)
<1>1. /\ EP \in Nat \ {0} /\ Stride \in Nat /\ Stride = 2 * EP + 6
      /\ Number \in Nat /\ LayerNumbers = 1 .. Number
      /\ \A m \in 1 .. Number + 1 : Base(f, m) \in Nat /\ FirstAt(f, m) \in {-1, 1}
                                     /\ LastAt(m) \in {Stride, Stride + 2}
  BY LayerTypes, Sizes
<1>2. /\ code[d] \in Seq(InstructionSet) /\ Len(code[d]) = Length(f)
      /\ \A n \in LayerNumbers : \A k \in 1 .. Len(blocks[n]) :
           code[d][Start(f, n) + k] = blocks[n][k]
  <2>1. code[d] \in Seq(InstructionSet) /\ Laid(code[d], blocks, Starts(f), Number)
    BY BlocksInOrder
  <2>2. /\ Starts(f)[Number + 1] = Length(f)
        /\ \A n \in LayerNumbers : Starts(f)[n] = Start(f, n)
    <3>1. Number + 1 \in 1 .. Number + 1 /\ LayerNumbers \subseteq 1 .. Number + 1
      BY <1>1
    <3> QED
      BY <3>1 DEF Starts, Start, Length
  <2> QED
    BY <1>1, <2>1, <2>2 DEF Laid
<1>3. ASSUME NEW n \in LayerNumbers, NEW p \in FirstAt(f, n) .. LastAt(n)
      PROVE  /\ code[d][Base(f, n) + p] = blocks[n][Ahead(f, n) + p]
             /\ Ahead(f, n) + p \in 1 .. Len(blocks[n])
  <2>1. Len(blocks[n]) = LastAt(n) + Ahead(f, n)
    BY DEF BlockIs
  <2>2. n \in 1 .. Number + 1
    BY <1>1
  <2> DEFINE b == Base(f, n)
             a == FirstAt(f, n)
             l == LastAt(n)
             m == Len(blocks[n])
  <2>3. /\ b \in Nat /\ a \in Int /\ l \in Int /\ m = l + (1 - a) /\ p \in a .. l
        /\ Ahead(f, n) = 1 - a /\ Start(f, n) = b + a - 1
    BY <1>1, <2>1, <2>2 DEF Ahead, Start
  <2> HIDE DEF b, a, l, m
  <2>4. /\ Ahead(f, n) + p \in 1 .. m
        /\ Start(f, n) + (Ahead(f, n) + p) = b + p
    BY <2>3
  <2> QED
    BY <1>2, <2>4 DEF m, b
<1>4. ASSUME NEW i \in 1 .. Length(f) PROVE code[d][i].on = Compute
  <2>1. /\ LayerAt(f, i) \in LayerNumbers
        /\ Local(f, i) \in FirstAt(f, LayerAt(f, i)) .. LastAt(LayerAt(f, i))
        /\ i = Base(f, LayerAt(f, i)) + Local(f, i)
    BY <1>1, Located
  <2> DEFINE n == LayerAt(f, i)
             p == Local(f, i)
  <2>2. n \in LayerNumbers /\ p \in FirstAt(f, n) .. LastAt(n) /\ i = Base(f, n) + p
    BY <2>1
  <2> HIDE DEF n, p
  <2>3. code[d][i] = blocks[n][Ahead(f, n) + p] /\ Ahead(f, n) + p \in 1 .. Len(blocks[n])
    BY <1>3, <2>2
  <2> QED
    BY <2>2, <2>3 DEF BlockIs
<1>5. ASSUME NEW n \in LayerNumbers PROVE LayerIs(f, ev, code, d, n)
  <2>1. BlockIs(f, ev, blocks[n], d, n)
    OBVIOUS
  <2>2. /\ FirstAt(f, n) \in {-1, 1} /\ LastAt(n) \in {Stride, Stride + 2}
        /\ Base(f, n) \in Nat /\ Ahead(f, n) = 1 - FirstAt(f, n) /\ Ahead(f, n) \in Int
    BY <1>1 DEF Ahead
  <2>3. \A p \in FirstAt(f, n) .. LastAt(n) :
          code[d][Base(f, n) + p] = blocks[n][Ahead(f, n) + p]
    BY <1>3
  <2>4. /\ code[d][Base(f, n) + FirstAt(f, n)] = blocks[n][1]
        /\ code[d][Base(f, n) + (EP + 3)] = blocks[n][Ahead(f, n) + (EP + 3)]
        /\ code[d][Base(f, n) + (EP + 4)] = blocks[n][Ahead(f, n) + (EP + 4)]
        /\ code[d][Base(f, n) + Stride] = blocks[n][Ahead(f, n) + Stride]
    <3>1. /\ FirstAt(f, n) \in FirstAt(f, n) .. LastAt(n)
          /\ Ahead(f, n) + FirstAt(f, n) = 1
          /\ EP + 3 \in FirstAt(f, n) .. LastAt(n) /\ EP + 4 \in FirstAt(f, n) .. LastAt(n)
          /\ Stride \in FirstAt(f, n) .. LastAt(n)
      <4> DEFINE a == FirstAt(f, n)
                 l == LastAt(n)
      <4>1. /\ a \in {-1, 1} /\ l \in {Stride, Stride + 2} /\ Ahead(f, n) = 1 - a
            /\ EP \in Nat \ {0} /\ Stride = 2 * EP + 6
        BY <1>1, <2>2
      <4> HIDE DEF a, l
      <4>2. /\ a \in a .. l /\ Ahead(f, n) + a = 1 /\ EP + 3 \in a .. l /\ EP + 4 \in a .. l
            /\ Stride \in a .. l
        BY <4>1
      <4> QED
        BY <4>2 DEF a, l
    <3> QED
      BY <2>3, <3>1
  <2>5. FirstAt(f, n) = -1 => /\ code[d][Base(f, n) + 0] = blocks[n][2]
                              /\ code[d][Base(f, n) + 1] = blocks[n][3]
    <3> SUFFICES ASSUME FirstAt(f, n) = -1
                 PROVE  /\ code[d][Base(f, n) + 0] = blocks[n][2]
                        /\ code[d][Base(f, n) + 1] = blocks[n][3]
      OBVIOUS
    <3>1. /\ 0 \in FirstAt(f, n) .. LastAt(n) /\ 1 \in FirstAt(f, n) .. LastAt(n)
          /\ Ahead(f, n) + 0 = 2 /\ Ahead(f, n) + 1 = 3
      BY <1>1, <2>2
    <3> QED
      BY <2>3, <3>1
  <2>6. LastAt(n) = Stride + 2 =>
          /\ code[d][Base(f, n) + (Stride + 1)] = blocks[n][Ahead(f, n) + (Stride + 1)]
          /\ code[d][Base(f, n) + (Stride + 2)] = blocks[n][Ahead(f, n) + (Stride + 2)]
    <3>1. LastAt(n) = Stride + 2 => /\ Stride + 1 \in FirstAt(f, n) .. LastAt(n)
                                    /\ Stride + 2 \in FirstAt(f, n) .. LastAt(n)
      BY <1>1, <2>2
    <3> QED
      BY <2>3, <3>1
  <2>7. ASSUME NEW h \in {1, 2}
        PROVE  Synchronises(ev, code, d, n, h, Base(f, n) + RecordAt(h))
    <3>1. /\ RecordAt(h) \in Nat
          /\ \A p \in 0 .. EP : RecordAt(h) + p \in FirstAt(f, n) .. LastAt(n)
      BY <1>1, <2>2 DEF RecordAt
    <3> DEFINE r == RecordAt(h)
               b == Base(f, n)
               a == Ahead(f, n)
    <3>2. r \in Nat /\ b \in Nat /\ a \in Int /\ b + r \in Int /\ a + r \in Int
      BY <2>2, <3>1
    <3>3. \A p \in 0 .. EP : code[d][b + (r + p)] = blocks[n][a + (r + p)]
      BY <2>3, <3>1
    <3>4. SyncIn(ev, blocks[n], a + r, d, n, h)
      BY <2>1 DEF BlockIs
    <3> HIDE DEF r, b, a
    <3>5. ASSUME NEW p \in 0 .. EP PROVE code[d][(b + r) + p] = blocks[n][(a + r) + p]
      <4>1. (b + r) + p = b + (r + p) /\ (a + r) + p = a + (r + p)
        BY <1>1, <3>2
      <4> QED
        BY <3>3, <4>1
    <3>6. Synchronises(ev, code, d, n, h, b + r)
      BY <3>2, <3>4, <3>5, SyncsWithin
    <3> QED
      BY <3>6 DEF b, r
  <2> QED
    BY <2>1, <2>4, <2>5, <2>6, <2>7 DEF BlockIs, LayerIs
<1> QED
  BY <1>2, <1>4, <1>5

LEMMA SyncShifted ==
  ASSUME NEW ev, NEW u, NEW v, NEW d, NEW n, NEW h, NEW b \in Int, NEW c \in Int,
         SyncIn(ev, u, c, d, n, h), \A p \in 0 .. EP : v[b + p] = u[c + p]
  PROVE  SyncIn(ev, v, b, d, n, h)
<1>1. EP \in Nat \ {0}
  BY ExchangeAssumption
<1>2. v[b] = u[c] /\ v[b + 1] = u[c + 1]
  <2>1. 0 \in 0 .. EP /\ 1 \in 0 .. EP /\ b + 0 = b /\ c + 0 = c
    BY <1>1
  <2> QED
    BY <2>1
<1>3. \A p \in 2 .. EP : v[b + p] = u[c + p]
  BY <1>1
<1> QED
  BY <1>2, <1>3 DEF SyncIn

(* The waits on the events of the peers, in an order of the peers.         *)
WaitsFor(ev, peers, n, h) ==
  [k \in 1 .. EP - 1 |-> WaitFor(Compute, n, EventOf(ev, h, peers[k], n))]

LEMMA WaitsForIs ==
  ASSUME Compute \in StreamNames, NEW ev, NEW peers, NEW n \in Nat, NEW h, NEW d,
         Enumerates(peers, d), \A q \in Peers(d) : EventOf(ev, h, q, n) \in Events
  PROVE  /\ WaitsFor(ev, peers, n, h) \in Seq(InstructionSet)
         /\ Len(WaitsFor(ev, peers, n, h)) = EP - 1
         /\ \A k \in 1 .. EP - 1 : WaitsFor(ev, peers, n, h)[k].on = Compute
<1>1. EP - 1 \in Nat
  BY ExchangeAssumption
<1>2. ASSUME NEW k \in 1 .. EP - 1
      PROVE  /\ WaitFor(Compute, n, EventOf(ev, h, peers[k], n)) \in InstructionSet
             /\ WaitFor(Compute, n, EventOf(ev, h, peers[k], n)).on = Compute
  <2>1. EventOf(ev, h, peers[k], n) \in Events
    BY DEF Enumerates
  <2> QED
    BY <2>1, InstructionTypes, InstructionFields
<1>3. WaitsFor(ev, peers, n, h) \in [1 .. EP - 1 -> InstructionSet]
  BY <1>2 DEF WaitsFor
<1> QED
  BY <1>1, <1>2, <1>3 DEF WaitsFor

(* A record, a barrier and the waits for the peers, as they stand in a     *)
(* half of a layer.                                                        *)
LEMMA HalfSyncs ==
  ASSUME NEW ev, NEW u, NEW a, NEW z, NEW d \in Ranks, NEW n \in Nat, NEW h, NEW peers,
         Enumerates(peers, d),
         HalfOf(u, a, Record(Compute, n, EventOf(ev, h, d, n)), BarrierWait(n),
                WaitsFor(ev, peers, n, h), z),
         Len(WaitsFor(ev, peers, n, h)) = EP - 1
  PROVE  SyncIn(ev, u, 2, d, n, h)
<1>1. EP \in Nat \ {0}
  BY ExchangeAssumption
<1>2. /\ u[2] = Record(Compute, n, EventOf(ev, h, d, n)) /\ u[2 + 1] = BarrierWait(n)
      /\ \A k \in 1 .. EP - 1 : u[3 + k] = WaitFor(Compute, n, EventOf(ev, h, peers[k], n))
  <2>1. \A k \in 1 .. EP - 1 :
          WaitsFor(ev, peers, n, h)[k] = WaitFor(Compute, n, EventOf(ev, h, peers[k], n))
    BY DEF WaitsFor
  <2> DEFINE w == WaitsFor(ev, peers, n, h)
  <2>2. /\ u[2] = Record(Compute, n, EventOf(ev, h, d, n)) /\ u[3] = BarrierWait(n)
        /\ \A k \in 1 .. EP - 1 : u[3 + k] = w[k]
    <3> HIDE DEF w
    <3>1. Len(w) = EP - 1
      BY DEF w
    <3> QED
      BY <3>1 DEF HalfOf, w
  <2>3. 2 + 1 = 3
    OBVIOUS
  <2> QED
    BY <2>1, <2>2, <2>3
<1>3. ASSUME NEW p \in 2 .. EP
      PROVE  /\ p - 1 \in 1 .. EP - 1 /\ peers[p - 1] \in Peers(d)
             /\ u[2 + p] = WaitFor(Compute, n, EventOf(ev, h, peers[p - 1], n))
  <2>1. p - 1 \in 1 .. EP - 1 /\ 3 + (p - 1) = 2 + p
    BY <1>1
  <2> QED
    BY <1>2, <2>1 DEF Enumerates
<1>4. ASSUME NEW p \in 2 .. EP
      PROVE  /\ u[2 + p].do = "wait" /\ u[2 + p].layer = n
             /\ \E q \in Peers(d) : u[2 + p].event = EventOf(ev, h, q, n)
  BY <1>3, InstructionFields
<1>5. ASSUME NEW q \in Peers(d)
      PROVE  \E p \in 2 .. EP : u[2 + p].event = EventOf(ev, h, q, n)
  <2>1. PICK k \in 1 .. EP - 1 : peers[k] = q
    BY DEF Enumerates
  <2>2. k + 1 \in 2 .. EP /\ 2 + (k + 1) = 3 + k
    BY <1>1
  <2>3. u[2 + (k + 1)] = WaitFor(Compute, n, EventOf(ev, h, q, n))
    BY <1>2, <2>1, <2>2
  <2> QED
    BY <2>2, <2>3, InstructionFields
<1>6. /\ u[2].do = "record" /\ u[2].layer = n /\ u[2].event = EventOf(ev, h, d, n)
      /\ u[2 + 1].do = "barrier"
  BY <1>2, InstructionFields
<1> QED
  BY <1>4, <1>5, <1>6 DEF SyncIn

LEMMA XPullEventsAre ==
  ASSUME XPullSetting, NEW d \in Ranks, NEW n \in LayerNumbers
  PROVE  /\ EventOf(XPullMark, 1, d, n) = <<"ag", d, Slot(n)>>
         /\ EventOf(XPullMark, 2, d, n) = <<"e_agg", d, Slot(n)>>
         /\ \A h \in {1, 2} : EventOf(XPullMark, h, d, n) \in Events
<1>1. <<1, d, n>> \in Triples /\ <<2, d, n>> \in Triples
  BY DEF Triples
<1>2. /\ EventOf(XPullMark, 1, d, n) = <<"ag", d, Slot(n)>>
      /\ EventOf(XPullMark, 2, d, n) = <<"e_agg", d, Slot(n)>>
  BY <1>1 DEF EventOf, XPullMark
<1>3. <<"ag", d, Slot(n)>> \in Events /\ <<"e_agg", d, Slot(n)>> \in Events
  BY DEF XPullSetting, XPullEvents
<1> QED
  BY <1>2, <1>3

Half(first, ev, d, n, h, peers, last) ==
  <<first>> \o <<Record(Compute, n, EventOf(ev, h, d, n)), BarrierWait(n)>>
    \o WaitsFor(ev, peers, n, h) \o <<last>>
HalfShape(u, ev, d, n, h, first, last) ==
  /\ u \in Seq(InstructionSet) /\ Len(u) = EP + 3
  /\ \A i \in 1 .. EP + 3 : u[i].on = Compute
  /\ SyncIn(ev, u, 2, d, n, h)
  /\ u[1] = first /\ u[EP + 3] = last

LEMMA HalfShaped ==
  ASSUME Compute \in StreamNames, NEW ev, NEW d \in Ranks, NEW n \in Nat, NEW h, NEW peers,
         NEW first \in InstructionSet, NEW last \in InstructionSet,
         first.on = Compute, last.on = Compute, Enumerates(peers, d),
         \A q \in Ranks : EventOf(ev, h, q, n) \in Events
  PROVE  HalfShape(Half(first, ev, d, n, h, peers, last), ev, d, n, h, first, last)
<1> DEFINE r == Record(Compute, n, EventOf(ev, h, d, n))
           b == BarrierWait(n)
           w == WaitsFor(ev, peers, n, h)
           u == Half(first, ev, d, n, h, peers, last)
<1>1. r \in InstructionSet /\ b \in InstructionSet /\ r.on = Compute /\ b.on = Compute
  BY InstructionTypes, InstructionFields
<1>2. w \in Seq(InstructionSet) /\ Len(w) = EP - 1 /\ \A k \in 1 .. EP - 1 : w[k].on = Compute
  <2>1. \A q \in Peers(d) : EventOf(ev, h, q, n) \in Events
    BY DEF Peers
  <2> QED
    BY <2>1, WaitsForIs
<1>3. u \in Seq(InstructionSet) /\ HalfOf(u, first, r, b, w, last)
  <2>1. u = <<first>> \o <<r, b>> \o w \o <<last>>
    BY DEF Half
  <2> HIDE DEF r, b, w, u
  <2> QED
    BY <1>1, <1>2, <2>1, HalfIs
<1>4. SyncIn(ev, u, 2, d, n, h)
  <2> HIDE DEF u
  <2> QED
    BY <1>2, <1>3, HalfSyncs
<1> HIDE DEF r, b, w, u
<1>5. EP \in Nat \ {0}
  BY ExchangeAssumption
<1>6. /\ Len(u) = EP + 3 /\ u[1] = first /\ u[2] = r /\ u[3] = b /\ u[EP + 3] = last
      /\ \A k \in 1 .. EP - 1 : u[3 + k] = w[k]
  <2>1. Len(w) + 4 = EP + 3
    BY <1>2, <1>5
  <2> QED
    BY <1>2, <1>3, <2>1 DEF HalfOf
<1>7. ASSUME NEW i \in 1 .. EP + 3 PROVE u[i].on = Compute
  <2>1. i \in {1, 2, 3, EP + 3} \/ (i - 3 \in 1 .. EP - 1 /\ 3 + (i - 3) = i)
    BY <1>5
  <2>2. CASE i \in {1, 2, 3, EP + 3}
    BY <1>1, <1>6, <2>2
  <2>3. CASE i - 3 \in 1 .. EP - 1 /\ 3 + (i - 3) = i
    BY <1>2, <1>6, <2>3
  <2> QED
    BY <2>1, <2>2, <2>3
<1>8. HalfShape(u, ev, d, n, h, first, last)
  BY <1>3, <1>4, <1>6, <1>7 DEF HalfShape
<1> QED
  BY <1>8 DEF u

(* AllGather and ReduceScatter are such halves.                            *)
LEMMA XPullHalves ==
  ASSUME XPullSetting, NEW d \in Ranks, NEW n \in LayerNumbers
  PROVE  /\ HalfShape(AllGather(d, n), XPullMark, d, n, 1,
                      Kernel(Compute, n, {}, {Acts(d)}),
                      Kernel(Compute, n, OthersActs(d), PulledActs(d)))
         /\ HalfShape(ReduceScatter(d, n), XPullMark, d, n, 2,
                      Kernel(Compute, n, AllActs(d), Sums(d, n)),
                      Kernel(Compute, n, Addends(d, n), {}))
<1>1. n \in Nat /\ Compute \in StreamNames /\ AllPlaces \subseteq Places
  BY Sizes DEF XPullSetting
<1>2. /\ Kernel(Compute, n, {}, {Acts(d)}) \in InstructionSet
      /\ Kernel(Compute, n, OthersActs(d), PulledActs(d)) \in InstructionSet
      /\ Kernel(Compute, n, AllActs(d), Sums(d, n)) \in InstructionSet
      /\ Kernel(Compute, n, Addends(d, n), {}) \in InstructionSet
  BY <1>1, PlaceSets, InstructionTypes
<1>3. \A R, W : Kernel(Compute, n, R, W).on = Compute
  BY DEF Kernel, Instruction
<1>4. ASSUME NEW h \in {1, 2}, NEW q \in Ranks PROVE EventOf(XPullMark, h, q, n) \in Events
  BY XPullEventsAre
<1>5. AllGather(d, n) = Half(Kernel(Compute, n, {}, {Acts(d)}), XPullMark, d, n, 1,
                             PeersAscending(d),
                             Kernel(Compute, n, OthersActs(d), PulledActs(d)))
  <2>1. ASSUME NEW k \in 1 .. EP - 1
        PROVE  EventOf(XPullMark, 1, PeersAscending(d)[k], n)
                 = <<"ag", PeersAscending(d)[k], Slot(n)>>
    BY XPullEventsAre, AscendingEnumerates DEF Enumerates, Peers
  <2>2. [k \in 1 .. EP - 1 |-> WaitFor(Compute, n, <<"ag", PeersAscending(d)[k], Slot(n)>>)]
          = WaitsFor(XPullMark, PeersAscending(d), n, 1)
    BY <2>1 DEF WaitsFor
  <2>3. EventOf(XPullMark, 1, d, n) = <<"ag", d, Slot(n)>>
    BY XPullEventsAre
  <2> QED
    BY <2>2, <2>3 DEF AllGather, OwnRows, XPullAg, Half, OthersActs, PulledActs
<1>6. ReduceScatter(d, n) = Half(Kernel(Compute, n, AllActs(d), Sums(d, n)), XPullMark, d, n, 2,
                                 PeersInDeltaOrder(d),
                                 Kernel(Compute, n, Addends(d, n), {}))
  <2>1. ASSUME NEW k \in 1 .. EP - 1
        PROVE  EventOf(XPullMark, 2, PeersInDeltaOrder(d)[k], n)
                 = <<"e_agg", PeersInDeltaOrder(d)[k], Slot(n)>>
    BY XPullEventsAre, DeltaEnumerates DEF Enumerates, Peers
  <2>2. [k \in 1 .. EP - 1 |-> WaitFor(Compute, n, <<"e_agg", PeersInDeltaOrder(d)[k], Slot(n)>>)]
          = WaitsFor(XPullMark, PeersInDeltaOrder(d), n, 2)
    BY <2>1 DEF WaitsFor
  <2>3. EventOf(XPullMark, 2, d, n) = <<"e_agg", d, Slot(n)>>
    BY XPullEventsAre
  <2> QED
    BY <2>2, <2>3 DEF ReduceScatter, Experts, XPullRs, Half, Sums, Addends
<1>7. Enumerates(PeersAscending(d), d) /\ Enumerates(PeersInDeltaOrder(d), d)
  BY AscendingEnumerates, DeltaEnumerates
<1>8. HalfShape(AllGather(d, n), XPullMark, d, n, 1, Kernel(Compute, n, {}, {Acts(d)}),
                Kernel(Compute, n, OthersActs(d), PulledActs(d)))
  BY <1>1, <1>2, <1>3, <1>4, <1>5, <1>7, HalfShaped
<1>9. HalfShape(ReduceScatter(d, n), XPullMark, d, n, 2,
                Kernel(Compute, n, AllActs(d), Sums(d, n)),
                Kernel(Compute, n, Addends(d, n), {}))
  BY <1>1, <1>2, <1>3, <1>4, <1>6, <1>7, HalfShaped
<1> QED
  BY <1>8, <1>9

LEMMA StepEndIs ==
  ASSUME Compute \in StreamNames, NEW n \in LayerNumbers
  PROVE  /\ StepEnd(n) \in Seq(InstructionSet) /\ Len(StepEnd(n)) = LastAt(n) - Stride
         /\ \A i \in 1 .. Len(StepEnd(n)) : StepEnd(n)[i].on = Compute
         /\ LastAt(n) = Stride + 2 => StepEnd(n)[1].do = "drain" /\ StepEnd(n)[2].do = "barrier"
<1>1. n \in Nat /\ Stride \in Nat
  BY Sizes
<1>2. DrainOf(Compute, n) \in InstructionSet /\ BarrierWait(n) \in InstructionSet
  BY <1>1, InstructionTypes
<1>3. /\ DrainOf(Compute, n).do = "drain" /\ BarrierWait(n).do = "barrier"
      /\ DrainOf(Compute, n).on = Compute /\ BarrierWait(n).on = Compute
  BY InstructionFields
<1>4. CASE LayerOf(n) = Layers - 1
  <2>1. StepEnd(n) = <<DrainOf(Compute, n), BarrierWait(n)>> /\ LastAt(n) = Stride + 2
    BY <1>4 DEF StepEnd, LastAt
  <2> QED
    BY <1>1, <1>2, <1>3, <2>1
<1>5. CASE LayerOf(n) # Layers - 1
  <2>1. StepEnd(n) = <<>> /\ LastAt(n) = Stride
    BY <1>5 DEF StepEnd, LastAt
  <2> QED
    BY <1>1, <2>1
<1> QED
  BY <1>4, <1>5

(* Two halves and the end of the step make a layer of the default program. *)
LEMMA XPullBlock ==
  ASSUME XPullSetting, NEW d \in Ranks, NEW n \in LayerNumbers
  PROVE  BlockIs(0, XPullMark, AllGather(d, n) \o ReduceScatter(d, n) \o StepEnd(n), d, n)
<1> DEFINE a == AllGather(d, n)
           r == ReduceScatter(d, n)
           e == StepEnd(n)
           v == a \o r
           u == v \o e
           S == InstructionSet
           l == LastAt(n)
<1>1. /\ HalfShape(a, XPullMark, d, n, 1, Kernel(Compute, n, {}, {Acts(d)}),
                   Kernel(Compute, n, OthersActs(d), PulledActs(d)))
      /\ HalfShape(r, XPullMark, d, n, 2, Kernel(Compute, n, AllActs(d), Sums(d, n)),
                   Kernel(Compute, n, Addends(d, n), {}))
  BY XPullHalves
<1>2. /\ e \in Seq(S) /\ Len(e) = l - Stride /\ \A i \in 1 .. Len(e) : e[i].on = Compute
      /\ l = Stride + 2 => e[1].do = "drain" /\ e[2].do = "barrier"
  BY StepEndIs DEF XPullSetting
<1>3. /\ EP \in Nat \ {0} /\ Stride \in Nat /\ Stride = 2 * EP + 6
      /\ l \in {Stride, Stride + 2} /\ n \in 1 .. Number + 1 /\ n \in Nat
  BY Sizes
<1>4. FirstAt(0, n) = 1 /\ Ahead(0, n) = 0
  BY <1>3 DEF FirstAt, Ahead
<1> HIDE DEF a, r, e, S, l
<1>5. /\ a \in Seq(S) /\ r \in Seq(S) /\ Len(a) = EP + 3 /\ Len(r) = EP + 3
      /\ \A i \in 1 .. EP + 3 : a[i].on = Compute /\ r[i].on = Compute
      /\ SyncIn(XPullMark, a, 2, d, n, 1) /\ SyncIn(XPullMark, r, 2, d, n, 2)
      /\ a[1] = Kernel(Compute, n, {}, {Acts(d)})
      /\ a[EP + 3] = Kernel(Compute, n, OthersActs(d), PulledActs(d))
      /\ r[1] = Kernel(Compute, n, AllActs(d), Sums(d, n))
      /\ r[EP + 3] = Kernel(Compute, n, Addends(d, n), {})
  BY <1>1 DEF HalfShape, S
<1>6. v \in Seq(S) /\ Joined(v, a, r) /\ u \in Seq(S) /\ Joined(u, v, e)
  <2>1. v \in Seq(S) /\ Joined(v, a, r)
    BY <1>5, ConcatIs
  <2> HIDE DEF v
  <2> QED
    BY <1>2, <2>1, ConcatIs
<1> HIDE DEF v, u
<1>7. /\ Len(v) = Stride /\ Len(u) = l
      /\ \A i \in 1 .. EP + 3 : u[i] = a[i]
      /\ \A i \in 1 .. EP + 3 : u[(EP + 3) + i] = r[i]
      /\ \A i \in 1 .. Len(e) : u[Stride + i] = e[i]
  <2>1. Len(v) = Stride /\ (\A i \in 1 .. EP + 3 : v[i] = a[i])
        /\ (\A i \in 1 .. EP + 3 : v[(EP + 3) + i] = r[i])
    BY <1>3, <1>5, <1>6 DEF Joined
  <2>2. Len(u) = Stride + (l - Stride) /\ (\A i \in 1 .. Stride : u[i] = v[i])
        /\ (\A i \in 1 .. Len(e) : u[Stride + i] = e[i])
    BY <1>2, <1>6, <2>1 DEF Joined
  <2>3. \A i \in 1 .. EP + 3 : i \in 1 .. Stride /\ (EP + 3) + i \in 1 .. Stride
    BY <1>3
  <2> QED
    BY <1>3, <2>1, <2>2, <2>3
<1>8. ASSUME NEW i \in 1 .. Len(u) PROVE u[i].on = Compute
  <2>1. CASE i \in 1 .. EP + 3
    BY <1>5, <1>7, <2>1
  <2>2. CASE i - (EP + 3) \in 1 .. EP + 3
    <3>1. (EP + 3) + (i - (EP + 3)) = i
      BY <1>3, <1>7
    <3> QED
      BY <1>5, <1>7, <2>2, <3>1
  <2>3. CASE i - Stride \in 1 .. Len(e)
    <3>1. Stride + (i - Stride) = i
      BY <1>3, <1>7
    <3> QED
      BY <1>2, <1>7, <2>3, <3>1
  <2>4. \/ i \in 1 .. EP + 3 \/ i - (EP + 3) \in 1 .. EP + 3 \/ i - Stride \in 1 .. Len(e)
    BY <1>2, <1>3, <1>7
  <2> QED
    BY <2>1, <2>2, <2>3, <2>4
<1>9. /\ SyncIn(XPullMark, u, 0 + RecordAt(1), d, n, 1)
      /\ SyncIn(XPullMark, u, 0 + RecordAt(2), d, n, 2)
  <2>1. 0 + RecordAt(1) = 2 /\ 0 + RecordAt(2) = EP + 5 /\ EP + 5 \in Int
    BY <1>3 DEF RecordAt
  <2>2. ASSUME NEW p \in 0 .. EP
        PROVE  u[2 + p] = a[2 + p] /\ u[(EP + 5) + p] = r[2 + p]
    <3>1. 2 + p \in 1 .. EP + 3 /\ (EP + 3) + (2 + p) = (EP + 5) + p
      BY <1>3
    <3>2. u[(EP + 3) + (2 + p)] = r[2 + p] /\ u[2 + p] = a[2 + p]
      BY <1>7, <3>1
    <3> QED
      BY <3>1, <3>2
  <2>3. SyncIn(XPullMark, u, 2, d, n, 1)
    BY <1>5, <2>2, SyncShifted
  <2>4. SyncIn(XPullMark, u, EP + 5, d, n, 2)
    BY <1>5, <2>1, <2>2, SyncShifted
  <2> QED
    BY <2>1, <2>3, <2>4
<1>10. /\ u[1] = Kernel(Compute, n, {}, {Acts(d)})
       /\ u[0 + (EP + 3)] = Kernel(Compute, n, OthersActs(d), PulledActs(d))
       /\ u[0 + (EP + 4)] = Kernel(Compute, n, AllActs(d), Sums(d, n))
       /\ u[0 + Stride] = Kernel(Compute, n, Addends(d, n), {})
  <2>1. /\ 1 \in 1 .. EP + 3 /\ EP + 3 \in 1 .. EP + 3
        /\ 0 + (EP + 3) = EP + 3 /\ 0 + (EP + 4) = (EP + 3) + 1 /\ 0 + Stride = (EP + 3) + (EP + 3)
    BY <1>3
  <2> QED
    BY <1>5, <1>7, <2>1
<1>11. l = Stride + 2 => u[0 + (Stride + 1)].do = "drain" /\ u[0 + (Stride + 2)].do = "barrier"
  <2> SUFFICES ASSUME l = Stride + 2
               PROVE  u[0 + (Stride + 1)].do = "drain" /\ u[0 + (Stride + 2)].do = "barrier"
    OBVIOUS
  <2>1. /\ 1 \in 1 .. Len(e) /\ 2 \in 1 .. Len(e)
        /\ 0 + (Stride + 1) = Stride + 1 /\ 0 + (Stride + 2) = Stride + 2
    BY <1>2, <1>3
  <2> QED
    BY <1>2, <1>7, <2>1
<1>12. \A R, W : IsKernel(Kernel(Compute, n, R, W), n, R, W)
  BY InstructionFields
<1>13. BlockIs(0, XPullMark, u, d, n)
  <2>1. Len(u) = LastAt(n) + Ahead(0, n) /\ FirstAt(0, n) # -1
    BY <1>3, <1>4, <1>7 DEF l
  <2>2. \A h \in {1, 2} : SyncIn(XPullMark, u, Ahead(0, n) + RecordAt(h), d, n, h)
    BY <1>4, <1>9
  <2> QED
    BY <1>4, <1>6, <1>8, <1>10, <1>11, <1>12, <2>1, <2>2 DEF BlockIs, S, l
<1> QED
  BY <1>13 DEF u, v, a, r, e

(* The program of the default build has the shape of LayeredLockstep.      *)
LEMMA XPullLayered ==
  ASSUME XPullSetting
  PROVE  Layered(0, XPullMark, XPullProgram)
<1>1. Devices = Ranks /\ Compute \in StreamNames
  BY DEF XPullSetting
<1>2. XPullMark \in [Triples -> Events]
  <2>1. ASSUME NEW x \in Triples
        PROVE  <<IF x[1] = 1 THEN "ag" ELSE "e_agg", x[2], Slot(x[3])>> \in Events
    <3>1. x[1] \in {1, 2} /\ x[2] \in Ranks /\ x[3] \in LayerNumbers
      BY DEF Triples
    <3> QED
      BY <3>1 DEF XPullSetting, XPullEvents
  <2> QED
    BY <2>1 DEF XPullMark
<1>3. \A x, y \in Triples : XPullMark[x] = XPullMark[y] => x[1] = y[1] /\ x[2] = y[2]
  BY DEF XPullMark, Triples
<1>4. ASSUME NEW d \in Ranks
      PROVE  /\ XPullProgram[d] \in Seq(InstructionSet) /\ Len(XPullProgram[d]) = Length(0)
             /\ \A i \in 1 .. Length(0) : XPullProgram[d][i].on = Compute
             /\ \A n \in LayerNumbers : LayerIs(0, XPullMark, XPullProgram, d, n)
  <2> DEFINE Block(n) == AllGather(d, n) \o ReduceScatter(d, n) \o StepEnd(n)
             blocks == [n \in LayerNumbers |-> Block(n)]
  <2>1. XPullProgram[d] = FlattenSeq(blocks)
    BY DEF XPullProgram
  <2>2. \A n \in LayerNumbers : BlockIs(0, XPullMark, Block(n), d, n)
    BY XPullBlock
  <2> HIDE DEF Block
  <2>3. blocks \in [LayerNumbers -> Seq(InstructionSet)]
    BY <2>2 DEF BlockIs
  <2>4. \A n \in LayerNumbers : BlockIs(0, XPullMark, blocks[n], d, n)
    BY <2>2
  <2> HIDE DEF blocks
  <2> QED
    BY <2>1, <2>3, <2>4, BlocksLayered
<1>5. XPullProgram \in [Ranks -> Seq(InstructionSet)]
  BY <1>4 DEF XPullProgram
<1> QED
  BY <1>1, <1>2, <1>3, <1>4, <1>5 DEF Layered

(* In the default build at EXPERT_PARALLELISM > 2 (GETP_XPULL,             *)
(* GETP_EVAGG), for any number of ranks, layers, steps, event slots and    *)
(* e_agg buffers: no two kernels that touch the same place of any memory   *)
(* run at the same time, each kernel finds the data of its own layer in    *)
(* every place it reads, and every wait captures the record of its own     *)
(* layer. Events and buffers are reused by later layers and steps; nothing *)
(* orders the streams but these events and what the host puts between its  *)
(* calls, the two barriers of a layer and the drain that ends a step.      *)
THEOREM XPullOrdered ==
  ASSUME XPullSetting, NEW b \in Builds, Program[b] = XPullProgram
  PROVE  Spec => [](build = b => Ordered /\ WaitsMatch)
<1>1. Lockstep(PlanOf(0, XPullProgram))
  BY XPullLayered, LayeredLockstep
<1>2. PlanOf(0, XPullProgram).code = Program[b]
  BY DEF PlanOf
<1> QED
  BY <1>1, <1>2, LockstepOrdered

(* A pair of GPUs in the default build. GETP_SYNC_SLOTS is even, so the    *)
(* two points of a layer never have the same event.                        *)
K2PullSetting == /\ EP = 2 /\ Slots % 2 = 0
                 /\ Devices = Ranks /\ Compute \in StreamNames
                 /\ SyncEvents \subseteq Events /\ AllPlaces \subseteq Places
K2PullMark == [x \in Triples |-> SyncEvent(x[2], x[3], x[1] - 1)]

(* A layer of a pair. pre is empty but for the first layer of the run.     *)
PairOf(u, first, pre, r, b, w, c, x, s, v, z, e) ==
  /\ Len(u) = Len(pre) + Len(e) + 10
  /\ u[1] = first /\ \A k \in 1 .. Len(pre) : u[1 + k] = pre[k]
  /\ u[Len(pre) + 2] = r /\ u[Len(pre) + 3] = b /\ u[Len(pre) + 4] = w
  /\ u[Len(pre) + 5] = c /\ u[Len(pre) + 6] = x
  /\ u[Len(pre) + 7] = s /\ u[Len(pre) + 8] = b /\ u[Len(pre) + 9] = v
  /\ u[Len(pre) + 10] = z
  /\ \A k \in 1 .. Len(e) : u[(Len(pre) + 10) + k] = e[k]

LEMMA PairIs ==
  ASSUME NEW S, NEW first \in S, NEW pre \in Seq(S), NEW r \in S, NEW b \in S, NEW w \in S,
         NEW c \in S, NEW x \in S, NEW s \in S, NEW v \in S, NEW z \in S, NEW e \in Seq(S)
  PROVE  LET u == <<first>> \o (pre \o <<r, b, w>> \o <<c>>) \o <<x>>
                    \o <<s, b, v, z>> \o e
         IN  u \in Seq(S) /\ PairOf(u, first, pre, r, b, w, c, x, s, v, z, e)
<1> DEFINE f == pre \o <<r, b, w>> \o <<c>>
           g == <<first>> \o f \o <<x>>
           h == g \o <<s, b, v, z>>
           u == h \o e
           l == Len(pre)
<1>1. /\ f \in Seq(S) /\ Len(f) = l + 4 /\ l \in Nat
      /\ \A k \in 1 .. l : f[k] = pre[k]
      /\ f[l + 1] = r /\ f[l + 2] = b /\ f[l + 3] = w /\ f[l + 4] = c
  OBVIOUS
<1> HIDE DEF f, l
<1>2. /\ g \in Seq(S) /\ Len(g) = l + 6
      /\ g[1] = first /\ g[l + 6] = x
      /\ \A k \in 1 .. l + 4 : g[1 + k] = f[k]
  BY <1>1
<1> HIDE DEF g
<1>3. /\ h \in Seq(S) /\ Len(h) = l + 10
      /\ \A k \in 1 .. l + 6 : h[k] = g[k]
      /\ h[l + 7] = s /\ h[l + 8] = b /\ h[l + 9] = v /\ h[l + 10] = z
  BY <1>1, <1>2
<1> HIDE DEF h
<1>4. u \in Seq(S) /\ Joined(u, h, e) /\ Len(e) \in Nat
  BY <1>3, ConcatIs
<1> HIDE DEF u
<1>5. /\ Len(u) = (l + 10) + Len(e)
      /\ \A k \in 1 .. l + 10 : u[k] = h[k]
      /\ \A k \in 1 .. Len(e) : u[(l + 10) + k] = e[k]
  BY <1>3, <1>4 DEF Joined
<1>6. /\ u[1] = first /\ u[l + 6] = x /\ \A k \in 1 .. l + 4 : u[1 + k] = f[k]
  <2>1. /\ 1 \in 1 .. l + 6 /\ l + 6 \in 1 .. l + 6 /\ l + 6 \in 1 .. l + 10 /\ 1 \in 1 .. l + 10
        /\ \A k \in 1 .. l + 4 : 1 + k \in 1 .. l + 6 /\ 1 + k \in 1 .. l + 10
    BY <1>1
  <2> QED
    BY <1>2, <1>3, <1>5, <2>1
<1>7. u[l + 7] = s /\ u[l + 8] = b /\ u[l + 9] = v /\ u[l + 10] = z
  <2>1. l + 7 \in 1 .. l + 10 /\ l + 8 \in 1 .. l + 10 /\ l + 9 \in 1 .. l + 10
        /\ l + 10 \in 1 .. l + 10
    BY <1>1
  <2> QED
    BY <1>3, <1>5, <2>1
<1>8. /\ \A k \in 1 .. l : u[1 + k] = pre[k]
      /\ u[l + 2] = r /\ u[l + 3] = b /\ u[l + 4] = w /\ u[l + 5] = c
  <2>1. /\ l + 1 \in 1 .. l + 4 /\ l + 2 \in 1 .. l + 4 /\ l + 3 \in 1 .. l + 4
        /\ l + 4 \in 1 .. l + 4 /\ 1 + (l + 1) = l + 2 /\ 1 + (l + 2) = l + 3
        /\ 1 + (l + 3) = l + 4 /\ 1 + (l + 4) = l + 5
        /\ \A k \in 1 .. l : k \in 1 .. l + 4
    BY <1>1
  <2>2. /\ u[1 + (l + 1)] = f[l + 1] /\ u[1 + (l + 2)] = f[l + 2]
        /\ u[1 + (l + 3)] = f[l + 3] /\ u[1 + (l + 4)] = f[l + 4]
        /\ \A k \in 1 .. l : u[1 + k] = f[k]
    BY <1>6, <2>1
  <2> QED
    BY <1>1, <2>1, <2>2
<1>9. Len(u) = (l + Len(e)) + 10
  BY <1>1, <1>4, <1>5
<1>10. PairOf(u, first, pre, r, b, w, c, x, s, v, z, e)
  BY <1>5, <1>6, <1>7, <1>8, <1>9 DEF PairOf, l
<1>11. u = <<first>> \o (pre \o <<r, b, w>> \o <<c>>) \o <<x>> \o <<s, b, v, z>> \o e
  BY DEF u, h, g, f
<1> QED
  BY <1>4, <1>10, <1>11

(* The parity of a slot tells the point.                                   *)
LEMMA SyncEventsDiffer ==
  ASSUME Slots % 2 = 0, NEW a \in Nat, NEW b \in Nat, NEW p \in 0 .. 1, NEW q \in 0 .. 1,
         (2 * a + p) % Slots = (2 * b + q) % Slots
  PROVE  p = q
<1>1. Slots \in Nat \ {0}
  BY ExchangeAssumption
<1> DEFINE h == Slots \div 2
           i == (2 * a + p) \div Slots
           j == (2 * b + q) \div Slots
           t == (2 * a + p) % Slots
<1>2. h \in Nat /\ Slots = 2 * h
  BY <1>1
<1>3. 2 * a + p \in Nat /\ 2 * b + q \in Nat
  OBVIOUS
<1>4. /\ i \in Nat /\ j \in Nat /\ t \in Nat
      /\ 2 * a + p = i * Slots + t /\ 2 * b + q = j * Slots + t
  <2> DEFINE x == 2 * a + p
             y == 2 * b + q
  <2>1. x \in Nat /\ y \in Nat /\ x % Slots = y % Slots
    BY <1>3
  <2> HIDE DEF x, y
  <2>2. /\ x \div Slots \in Nat /\ x % Slots \in 0 .. Slots - 1
        /\ x = (x \div Slots) * Slots + (x % Slots)
        /\ y \div Slots \in Nat /\ y = (y \div Slots) * Slots + (y % Slots)
    BY <1>1, <2>1, Division
  <2>3. x % Slots \in Nat
    BY <1>1, <2>2
  <2> QED
    BY <2>1, <2>2, <2>3 DEF x, y
<1> HIDE DEF h, i, j, t
<1>5. i * h \in Nat /\ j * h \in Nat /\ i * Slots = 2 * (i * h) /\ j * Slots = 2 * (j * h)
  BY <1>2, <1>4, ProductNat
<1> DEFINE m == i * h
           n == j * h
<1>6. m \in Nat /\ n \in Nat /\ 2 * a + p = 2 * m + t /\ 2 * b + q = 2 * n + t
  BY <1>4, <1>5
<1> HIDE DEF m, n
<1> QED
  BY <1>4, <1>6

LEMMA PartnerIs ==
  ASSUME EP = 2, NEW d \in Ranks
  PROVE  Partner(d) \in Ranks /\ Peers(d) = {Partner(d)}
  BY DEF Partner, Ranks, Peers

LEMMA SyncEventsAre ==
  ASSUME K2PullSetting, NEW d \in Ranks, NEW n \in LayerNumbers
  PROVE  /\ EventOf(K2PullMark, 1, d, n) = SyncEvent(d, n, 0)
         /\ EventOf(K2PullMark, 2, d, n) = SyncEvent(d, n, 1)
         /\ SyncEvent(d, n, 0) \in Events /\ SyncEvent(d, n, 1) \in Events
<1>1. <<1, d, n>> \in Triples /\ <<2, d, n>> \in Triples /\ 1 - 1 = 0 /\ 2 - 1 = 1
  BY DEF Triples
<1>2. /\ EventOf(K2PullMark, 1, d, n) = SyncEvent(d, n, 0)
      /\ EventOf(K2PullMark, 2, d, n) = SyncEvent(d, n, 1)
  BY <1>1 DEF EventOf, K2PullMark
<1>3. SyncEvent(d, n, 0) \in SyncEvents /\ SyncEvent(d, n, 1) \in SyncEvents
  BY DEF SyncEvents
<1> QED
  BY <1>2, <1>3 DEF K2PullSetting

LEMMA PairSyncs ==
  ASSUME EP = 2, NEW ev, NEW u, NEW d \in Ranks, NEW n, NEW h, NEW c \in Int, NEW e, NEW g,
         EventOf(ev, h, d, n) = e, EventOf(ev, h, Partner(d), n) = g,
         u[c] = Record(Compute, n, e), u[c + 1] = BarrierWait(n),
         u[c + 2] = WaitFor(Compute, n, g)
  PROVE  SyncIn(ev, u, c, d, n, h)
<1>1. \A p \in 2 .. EP : p = 2
  OBVIOUS
<1>2. Partner(d) \in Peers(d) /\ \A q \in Peers(d) : q = Partner(d)
  BY PartnerIs
<1>3. /\ u[c].do = "record" /\ u[c].layer = n /\ u[c].event = EventOf(ev, h, d, n)
      /\ u[c + 1].do = "barrier"
      /\ u[c + 2].do = "wait" /\ u[c + 2].layer = n
      /\ u[c + 2].event = EventOf(ev, h, Partner(d), n)
  BY InstructionFields
<1>4. 2 \in 2 .. EP
  OBVIOUS
<1> QED
  BY <1>1, <1>2, <1>3, <1>4 DEF SyncIn

(* A layer of a pair: the two points, with the experts in between.         *)
LEMMA K2PullBlock ==
  ASSUME K2PullSetting, NEW d \in Ranks, NEW n \in LayerNumbers
  PROVE  BlockIs(1, K2PullMark, OwnRows(d, n) \o SyncPoint1(d, n) \o Experts(d, n, Peers(d))
                                  \o SyncPoint2(d, n) \o StepEnd(n), d, n)
<1> DEFINE first == Kernel(Compute, n, {}, {Acts(d)})
           pre == IF n = 1 THEN <<DrainOf(Compute, n), BarrierWait(n)>> ELSE <<>>
           r == Record(Compute, n, SyncEvent(d, n, 0))
           b == BarrierWait(n)
           w == WaitFor(Compute, n, SyncEvent(Partner(d), n, 0))
           c == Kernel(Compute, n, OthersActs(d), PulledActs(d))
           x == Kernel(Compute, n, AllActs(d), Sums(d, n))
           s == Record(Compute, n, SyncEvent(d, n, 1))
           v == WaitFor(Compute, n, SyncEvent(Partner(d), n, 1))
           z == Kernel(Compute, n, {EAgg(Partner(d), d, n)}, {})
           e == StepEnd(n)
           u == <<first>> \o (pre \o <<r, b, w>> \o <<c>>) \o <<x>> \o <<s, b, v, z>> \o e
           S == InstructionSet
           a == Ahead(1, n)
           l == LastAt(n)
<1>1. /\ EP = 2 /\ Stride = 10 /\ l \in {Stride, Stride + 2}
      /\ n \in 1 .. Number + 1 /\ n \in Nat /\ Compute \in StreamNames /\ AllPlaces \subseteq Places
  BY Sizes DEF K2PullSetting
<1>2. u = OwnRows(d, n) \o SyncPoint1(d, n) \o Experts(d, n, Peers(d))
            \o SyncPoint2(d, n) \o StepEnd(n)
  <2>1. /\ OthersActs(d) = {Acts(Partner(d))} /\ PulledActs(d) = {PeerActs(d, Partner(d))}
    BY <1>1, PartnerIs DEF OthersActs, PulledActs
  <2> QED
    BY <2>1 DEF OwnRows, SyncPoint1, SyncWorkersDev, K2PullCopy, Experts, SyncPoint2, K2PullAdd,
                Sums
<1>3. /\ r \in S /\ w \in S /\ s \in S /\ v \in S
      /\ r.on = Compute /\ w.on = Compute /\ s.on = Compute /\ v.on = Compute
  <2>1. /\ SyncEvent(d, n, 0) \in Events /\ SyncEvent(Partner(d), n, 0) \in Events
        /\ SyncEvent(d, n, 1) \in Events /\ SyncEvent(Partner(d), n, 1) \in Events
    BY <1>1, PartnerIs, SyncEventsAre
  <2> QED
    BY <1>1, <2>1, InstructionTypes, InstructionFields
<1>4. /\ first \in S /\ c \in S /\ x \in S /\ z \in S
      /\ first.on = Compute /\ c.on = Compute /\ x.on = Compute /\ z.on = Compute
  <2>1. {EAgg(Partner(d), d, n)} \in SUBSET Places
    BY <1>1, PartnerIs, PlacesAre
  <2>2. \A R, W : Kernel(Compute, n, R, W).on = Compute
    BY DEF Kernel, Instruction
  <2> QED
    BY <1>1, <2>1, <2>2, PlaceSets, InstructionTypes
<1>5. b \in S /\ b.on = Compute /\ DrainOf(Compute, n) \in S /\ DrainOf(Compute, n).on = Compute
      /\ b.do = "barrier" /\ DrainOf(Compute, n).do = "drain"
  BY <1>1, InstructionTypes, InstructionFields
<1>6. /\ pre \in Seq(S) /\ Len(pre) = a /\ a \in {0, 2} /\ (FirstAt(1, n) = -1 <=> a = 2)
      /\ (\A k \in 1 .. a : pre[k].on = Compute)
      /\ (a = 2 => pre[1].do = "drain" /\ pre[2].do = "barrier")
  <2>1. CASE n = 1
    <3>1. pre = <<DrainOf(Compute, n), b>> /\ FirstAt(1, n) = -1 /\ a = 2
      BY <2>1 DEF FirstAt, Ahead
    <3> QED
      BY <1>5, <3>1
  <2>2. CASE n # 1
    <3>1. pre = <<>> /\ FirstAt(1, n) = 1 /\ a = 0
      BY <2>2 DEF FirstAt, Ahead
    <3> QED
      BY <3>1
  <2> QED
    BY <2>1, <2>2
<1>7. /\ e \in Seq(S) /\ Len(e) = l - Stride /\ \A i \in 1 .. Len(e) : e[i].on = Compute
      /\ l = Stride + 2 => e[1].do = "drain" /\ e[2].do = "barrier"
  BY <1>1, StepEndIs
<1>8. /\ IsKernel(first, n, {}, {Acts(d)}) /\ IsKernel(c, n, OthersActs(d), PulledActs(d))
      /\ IsKernel(x, n, AllActs(d), Sums(d, n))
      /\ IsKernel(z, n, {EAgg(Partner(d), d, n)}, {})
      /\ {EAgg(Partner(d), d, n)} \subseteq Addends(d, n)
  <2>1. \A R, W : IsKernel(Kernel(Compute, n, R, W), n, R, W)
    BY InstructionFields
  <2>2. EAgg(Partner(d), d, n) \in Addends(d, n)
    BY <1>1, PartnerIs DEF Addends
  <2> QED
    BY <2>1, <2>2
<1> HIDE DEF first, pre, c, x, z, e, S, a, l
<1>9. u \in Seq(S) /\ PairOf(u, first, pre, r, b, w, c, x, s, v, z, e)
  <2> HIDE DEF r, b, w, s, v
  <2> QED
    BY <1>3, <1>4, <1>5, <1>6, <1>7, PairIs
<1> HIDE DEF u
<1>10. /\ Len(u) = l + a
       /\ u[1] = first /\ (\A k \in 1 .. a : u[1 + k] = pre[k])
       /\ u[a + 2] = r /\ u[a + 3] = b /\ u[a + 4] = w /\ u[a + 5] = c /\ u[a + 6] = x
       /\ u[a + 7] = s /\ u[a + 8] = b /\ u[a + 9] = v /\ u[a + 10] = z
       /\ \A k \in 1 .. Len(e) : u[(a + 10) + k] = e[k]
  <2> HIDE DEF r, b, w, s, v
  <2>1. Len(u) = a + Len(e) + 10
    BY <1>6, <1>9 DEF PairOf
  <2>2. Len(u) = l + a
    BY <1>1, <1>6, <1>7, <2>1
  <2> QED
    BY <1>6, <1>9, <2>2 DEF PairOf
<1>11. ASSUME NEW i \in 1 .. Len(u) PROVE u[i].on = Compute
  <2> HIDE DEF r, b, w, s, v
  <2>1. CASE i - 1 \in 1 .. a
    <3>1. 1 + (i - 1) = i
      BY <1>1, <1>6, <1>10
    <3> QED
      BY <1>6, <1>10, <2>1, <3>1
  <2>2. CASE i - (a + 10) \in 1 .. Len(e)
    <3>1. (a + 10) + (i - (a + 10)) = i
      BY <1>1, <1>6, <1>10
    <3> QED
      BY <1>7, <1>10, <2>2, <3>1
  <2>3. CASE i \in {1, a + 2, a + 3, a + 4, a + 5, a + 6, a + 7, a + 8, a + 9, a + 10}
    BY <1>3, <1>4, <1>5, <1>10, <2>3
  <2>4. \/ i - 1 \in 1 .. a \/ i - (a + 10) \in 1 .. Len(e)
        \/ i \in {1, a + 2, a + 3, a + 4, a + 5, a + 6, a + 7, a + 8, a + 9, a + 10}
    BY <1>1, <1>6, <1>7, <1>10
  <2> QED
    BY <2>1, <2>2, <2>3, <2>4
<1>12. ASSUME NEW h \in {1, 2} PROVE SyncIn(K2PullMark, u, a + RecordAt(h), d, n, h)
  <2>1. /\ RecordAt(1) = 2 /\ RecordAt(2) = 7
        /\ (a + 2) + 1 = a + 3 /\ (a + 2) + 2 = a + 4
        /\ (a + 7) + 1 = a + 8 /\ (a + 7) + 2 = a + 9 /\ a + 2 \in Int /\ a + 7 \in Int
    BY <1>1, <1>6 DEF RecordAt
  <2>2. Partner(d) \in Ranks
    BY <1>1, PartnerIs
  <2>3. SyncIn(K2PullMark, u, a + 2, d, n, 1)
    <3>1. /\ EventOf(K2PullMark, 1, d, n) = SyncEvent(d, n, 0)
          /\ EventOf(K2PullMark, 1, Partner(d), n) = SyncEvent(Partner(d), n, 0)
      BY <2>2, SyncEventsAre
    <3> DEFINE o == a + 2
               e0 == SyncEvent(d, n, 0)
               e1 == SyncEvent(Partner(d), n, 0)
    <3>2. /\ u[o] = Record(Compute, n, e0) /\ u[o + 1] = BarrierWait(n)
          /\ u[o + 2] = WaitFor(Compute, n, e1) /\ o \in Int
      BY <1>10, <2>1
    <3> HIDE DEF o, e0, e1
    <3>3. EventOf(K2PullMark, 1, d, n) = e0 /\ EventOf(K2PullMark, 1, Partner(d), n) = e1
      BY <3>1 DEF e0, e1
    <3>4. SyncIn(K2PullMark, u, o, d, n, 1)
      BY <1>1, <3>2, <3>3, PairSyncs
    <3> QED
      BY <3>4 DEF o
  <2>4. SyncIn(K2PullMark, u, a + 7, d, n, 2)
    <3>1. /\ EventOf(K2PullMark, 2, d, n) = SyncEvent(d, n, 1)
          /\ EventOf(K2PullMark, 2, Partner(d), n) = SyncEvent(Partner(d), n, 1)
      BY <2>2, SyncEventsAre
    <3> DEFINE o == a + 7
               e0 == SyncEvent(d, n, 1)
               e1 == SyncEvent(Partner(d), n, 1)
    <3>2. /\ u[o] = Record(Compute, n, e0) /\ u[o + 1] = BarrierWait(n)
          /\ u[o + 2] = WaitFor(Compute, n, e1) /\ o \in Int
      BY <1>10, <2>1
    <3> HIDE DEF o, e0, e1
    <3>3. EventOf(K2PullMark, 2, d, n) = e0 /\ EventOf(K2PullMark, 2, Partner(d), n) = e1
      BY <3>1 DEF e0, e1
    <3>4. SyncIn(K2PullMark, u, o, d, n, 2)
      BY <1>1, <3>2, <3>3, PairSyncs
    <3> QED
      BY <3>4 DEF o
  <2> QED
    BY <2>1, <2>3, <2>4
<1> HIDE DEF r, b, w, s, v
<1>13. BlockIs(1, K2PullMark, u, d, n)
  <2>1. /\ EP + 3 = 5 /\ EP + 4 = 6 /\ Stride = 10
    BY <1>1
  <2>2. FirstAt(1, n) = -1 => u[2].do = "drain" /\ u[3].do = "barrier"
    <3> SUFFICES ASSUME FirstAt(1, n) = -1 PROVE u[2].do = "drain" /\ u[3].do = "barrier"
      OBVIOUS
    <3>1. 1 \in 1 .. a /\ 2 \in 1 .. a /\ 1 + 1 = 2 /\ 1 + 2 = 3
      BY <1>6
    <3> QED
      BY <1>6, <1>10, <3>1
  <2>3. l = Stride + 2 => u[a + (Stride + 1)].do = "drain" /\ u[a + (Stride + 2)].do = "barrier"
    <3> SUFFICES ASSUME l = Stride + 2
                 PROVE  u[a + (Stride + 1)].do = "drain" /\ u[a + (Stride + 2)].do = "barrier"
      OBVIOUS
    <3>1. /\ 1 \in 1 .. Len(e) /\ 2 \in 1 .. Len(e)
          /\ (a + 10) + 1 = a + (Stride + 1) /\ (a + 10) + 2 = a + (Stride + 2)
      BY <1>1, <1>6, <1>7
    <3> QED
      BY <1>7, <1>10, <3>1
  <2>4. IsKernel(u[a + Stride], n, {EAgg(Partner(d), d, n)}, {})
    BY <1>8, <1>10, <2>1
  <2> QED
    BY <1>8, <1>9, <1>10, <1>11, <1>12, <2>1, <2>2, <2>3, <2>4 DEF BlockIs, S, a, l
<1> QED
  BY <1>2, <1>13

LEMMA K2PullLayered ==
  ASSUME K2PullSetting
  PROVE  Layered(1, K2PullMark, K2PullProgram)
<1>1. Devices = Ranks /\ Compute \in StreamNames
  BY DEF K2PullSetting
<1>2. K2PullMark \in [Triples -> Events]
  <2>1. ASSUME NEW x \in Triples PROVE SyncEvent(x[2], x[3], x[1] - 1) \in Events
    <3>1. x[1] - 1 \in 0 .. 1 /\ x[2] \in Ranks /\ x[3] \in LayerNumbers
      BY DEF Triples
    <3> QED
      BY <3>1 DEF K2PullSetting, SyncEvents
  <2> QED
    BY <2>1 DEF K2PullMark
<1>3. ASSUME NEW x \in Triples, NEW y \in Triples, K2PullMark[x] = K2PullMark[y]
      PROVE  x[1] = y[1] /\ x[2] = y[2]
  <2>1. /\ x[1] \in {1, 2} /\ y[1] \in {1, 2} /\ x[1] - 1 \in 0 .. 1 /\ y[1] - 1 \in 0 .. 1
        /\ x[3] \in LayerNumbers /\ y[3] \in LayerNumbers
    BY DEF Triples
  <2>2. /\ x[2] = y[2]
        /\ (2 * LayerOf(x[3]) + (x[1] - 1)) % Slots = (2 * LayerOf(y[3]) + (y[1] - 1)) % Slots
    BY <1>3 DEF K2PullMark, SyncEvent
  <2>3. LayerOf(x[3]) \in Nat /\ LayerOf(y[3]) \in Nat
    BY <2>1, Sizes
  <2>4. x[1] - 1 = y[1] - 1
    BY <2>1, <2>2, <2>3, SyncEventsDiffer DEF K2PullSetting
  <2> QED
    BY <2>1, <2>2, <2>4
<1>4. ASSUME NEW d \in Ranks
      PROVE  /\ K2PullProgram[d] \in Seq(InstructionSet) /\ Len(K2PullProgram[d]) = Length(1)
             /\ \A i \in 1 .. Length(1) : K2PullProgram[d][i].on = Compute
             /\ \A n \in LayerNumbers : LayerIs(1, K2PullMark, K2PullProgram, d, n)
  <2> DEFINE Block(n) == OwnRows(d, n) \o SyncPoint1(d, n) \o Experts(d, n, Peers(d))
                           \o SyncPoint2(d, n) \o StepEnd(n)
             blocks == [n \in LayerNumbers |-> Block(n)]
  <2>1. K2PullProgram[d] = FlattenSeq(blocks)
    BY DEF K2PullProgram
  <2>2. \A n \in LayerNumbers : BlockIs(1, K2PullMark, Block(n), d, n)
    BY K2PullBlock
  <2> HIDE DEF Block
  <2>3. blocks \in [LayerNumbers -> Seq(InstructionSet)]
    BY <2>2 DEF BlockIs
  <2>4. \A n \in LayerNumbers : BlockIs(1, K2PullMark, blocks[n], d, n)
    BY <2>2
  <2> HIDE DEF blocks
  <2> QED
    BY <2>1, <2>3, <2>4, BlocksLayered
<1>5. K2PullProgram \in [Ranks -> Seq(InstructionSet)]
  BY <1>4 DEF K2PullProgram
<1> QED
  BY <1>1, <1>2, <1>3, <1>4, <1>5 DEF Layered

(* The same for a pair of GPUs in the default build (GETP_K2PULL,          *)
(* GETP_DEVSYNC), for any number of layers and steps and any even number   *)
(* of event slots.                                                         *)
THEOREM K2PullOrdered ==
  ASSUME K2PullSetting, NEW b \in Builds, Program[b] = K2PullProgram
  PROVE  Spec => [](build = b => Ordered /\ WaitsMatch)
<1>1. Lockstep(PlanOf(1, K2PullProgram))
  BY K2PullLayered, LayeredLockstep
<1>2. PlanOf(1, K2PullProgram).code = Program[b]
  BY DEF PlanOf
<1> QED
  BY <1>1, <1>2, LockstepOrdered
=============================================================================
