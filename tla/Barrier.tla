------------------------------ MODULE Barrier -------------------------------
(***************************************************************************)
(* The spin barrier of src/include/barrier.hpp, shared by the host threads *)
(* of one model replica and reused for every wait of a run: two per layer  *)
(* and one per token step.                                                 *)
(*                                                                         *)
(*   void wait() {                                                         *)
(*     int p = phase.load(relaxed);                    \* LoadPhase        *)
(*     if (count.fetch_add(1) == n_threads - 1) {      \* FetchAddCount    *)
(*       count.store(0);                               \* ResetCount       *)
(*       phase.fetch_add(1);                           \* AdvancePhase     *)
(*     } else while (phase.load(acquire) == p) yield();   \* SpinExit      *)
(*   }                                                                     *)
(*                                                                         *)
(* Memory order.  A plain load of phase may return any value of its        *)
(* modification order that is not older than the last one the thread has   *)
(* observed: `seen' records that lower bound and a load picks any value    *)
(* from seen[t] to phase.  The fetch_adds are read-modify-writes and act   *)
(* on the latest value.  The stores are releases, so their order is kept.  *)
(*                                                                         *)
(* Width.  phase is an int that wraps.  Here it counts the increments, and *)
(* the code compares it modulo PhaseWidth (2^32 in the build).             *)
(***************************************************************************)
EXTENDS Naturals, FiniteSets

CONSTANTS Threads,     \* the host threads sharing the barrier
          Waits,       \* how many times each of them calls wait()
          PhaseWidth   \* number of values the int phase can hold

ASSUME BarrierAssumption == /\ IsFiniteSet(Threads)
                            /\ Threads # {}
                            /\ Waits \in Nat
                            /\ PhaseWidth \in Nat
                            /\ PhaseWidth > 1

VARIABLES count,   \* the atomic count
          phase,   \* increments of the atomic phase so far
          seen,    \* seen[t]: the newest value of phase thread t has observed
          p,       \* p[t]: the local variable p of wait()
          returned,  \* returned[t]: the calls of wait() the caller has got back from
          stage    \* where thread t stands in wait(); "out" when not in it

bvars == <<count, phase, seen, p, returned, stage>>

NThreads == Cardinality(Threads)     \* n_threads

BarrierInit ==
  /\ count = 0
  /\ phase = 0
  /\ seen = [t \in Threads |-> 0]
  /\ p = [t \in Threads |-> 0]
  /\ returned = [t \in Threads |-> 0]
  /\ stage = [t \in Threads |-> "out"]

GoTo(t, from, to) == /\ stage[t] = from
                     /\ stage' = [stage EXCEPT ![t] = to]

Return(t) == returned' = [returned EXCEPT ![t] = @ + 1]

(* int p = phase.load(relaxed).  A thread calls wait() Waits times. *)
LoadPhase(t) ==
  /\ returned[t] < Waits
  /\ GoTo(t, "out", "loaded")
  /\ \E v \in seen[t] .. phase : /\ p' = [p EXCEPT ![t] = v]
                                 /\ seen' = [seen EXCEPT ![t] = v]
  /\ UNCHANGED <<count, phase, returned>>

(* Mutant: the last-arriver test is off by one and not an equality. *)
FetchAddCountEarly(t) ==
  /\ GoTo(t, "loaded", IF count >= NThreads - 2 THEN "last" ELSE "spin")
  /\ count' = count + 1
  /\ UNCHANGED <<phase, seen, p, returned>>

(* count.fetch_add(1) == n_threads - 1 decides who is last. *)
FetchAddCount(t) ==
  /\ GoTo(t, "loaded", IF count = NThreads - 1 THEN "last" ELSE "spin")
  /\ count' = count + 1
  /\ UNCHANGED <<phase, seen, p, returned>>

(* Mutant: the store that empties the barrier is missing. *)
ResetCountMissing(t) ==
  /\ GoTo(t, "last", "reset")
  /\ UNCHANGED <<count, phase, seen, p, returned>>

(* count.store(0): the last one empties the barrier ... *)
ResetCount(t) ==
  /\ GoTo(t, "last", "reset")
  /\ count' = 0
  /\ UNCHANGED <<phase, seen, p, returned>>

(* phase.fetch_add(1): ... and then lets the others go. *)
AdvancePhase(t) ==
  /\ GoTo(t, "reset", "out")
  /\ phase' = phase + 1
  /\ seen' = [seen EXCEPT ![t] = phase + 1]
  /\ Return(t)
  /\ UNCHANGED <<count, p>>

(* Mutant: the waiter yields once instead of looping on phase. *)
SpinExitUnchecked(t) ==
  /\ GoTo(t, "spin", "out")
  /\ \E v \in seen[t] .. phase : seen' = [seen EXCEPT ![t] = v]
  /\ Return(t)
  /\ UNCHANGED <<count, phase, p>>

(* A waiter returns once a load of phase differs from p. *)
SpinExit(t) ==
  /\ GoTo(t, "spin", "out")
  /\ \E v \in seen[t] .. phase : /\ v % PhaseWidth # p[t] % PhaseWidth
                                 /\ seen' = [seen EXCEPT ![t] = v]
  /\ Return(t)
  /\ UNCHANGED <<count, phase, p>>

(* Mutant: the last arriver bumps phase first and empties the barrier after. *)
WaitPhaseFirst(t) ==
  \/ LoadPhase(t)
  \/ FetchAddCount(t)
  \/ /\ GoTo(t, "last", "reset")
     /\ phase' = phase + 1
     /\ seen' = [seen EXCEPT ![t] = phase + 1]
     /\ UNCHANGED <<count, p, returned>>
  \/ /\ GoTo(t, "reset", "out")
     /\ count' = 0
     /\ Return(t)
     /\ UNCHANGED <<phase, seen, p>>
  \/ SpinExit(t)

Wait(t) == \/ LoadPhase(t)
           \/ FetchAddCount(t)
           \/ ResetCount(t)
           \/ AdvancePhase(t)
           \/ SpinExit(t)

(* Every thread has returned from its last wait(). *)
Finished == \A t \in Threads : stage[t] = "out" /\ returned[t] = Waits

Terminated == Finished /\ UNCHANGED bvars

BarrierNext == Terminated \/ \E t \in Threads : Wait(t)

BarrierSpec == BarrierInit /\ [][BarrierNext]_bvars

(* The threads are pinned to distinct cores and yield while they spin, so  *)
(* each of them keeps running (src/src/getp/run.cpp:196-199).              *)
FairBarrier == BarrierSpec /\ \A t \in Threads : WF_bvars(Wait(t))
-----------------------------------------------------------------------------
TypeOK == /\ count \in 0 .. NThreads
          /\ phase \in Nat
          /\ seen \in [Threads -> Nat]
          /\ p \in [Threads -> Nat]
          /\ returned \in [Threads -> 0 .. Waits]
          /\ stage \in [Threads -> {"out", "loaded", "last", "reset", "spin"}]

(* A thread that has entered the wait it is in: it has added itself to     *)
(* count and has not yet returned.                                         *)
Entering(t) == stage[t] \in {"last", "reset", "spin"}

(* No thread returns from its k-th wait before every thread has entered    *)
(* its own k-th: what the callers of wait() rely on when one of them reads *)
(* what the others wrote before it (src/src/getp/run.cpp:269-270).         *)
NoEarlyDeparture ==
  \A t, u \in Threads :
     returned[t] <= returned[u] + (IF Entering(u) THEN 1 ELSE 0)

(* phase never runs two ahead of a waiter's p: a late spinner always sees  *)
(* a phase different from its own, however narrow the counter, and the     *)
(* relaxed load at the top of wait() never returns a stale phase.          *)
SpinnerNotOvertaken ==
  \A t \in Threads : /\ stage[t] = "spin" => phase \in {p[t], p[t] + 1}
                     /\ stage[t] = "loaded" => p[t] = phase

(* At most one thread finds itself last, and while it resets the barrier   *)
(* every other thread is held in the spin loop of the same wait.           *)
OneLast ==
  \A t, u \in Threads :
     (stage[t] \in {"last", "reset"} /\ u # t) => (stage[u] = "spin" /\ p[u] = phase)

(* The barrier of the code implements the abstract rendezvous. *)
Abstract == INSTANCE Rendezvous WITH passed <- returned,
                                     inside <- {t \in Threads : Entering(t)}

ImplementsRendezvous == Abstract!RendezvousSpec

(* Every thread returns from all its waits: nobody is left spinning. *)
EveryoneReturns == <>Finished
=============================================================================
