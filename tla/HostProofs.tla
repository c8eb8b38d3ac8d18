----------------------------- MODULE HostProofs -----------------------------
(***************************************************************************)
(* Proofs about the host side: the barrier the host threads of a replica   *)
(* synchronise through (module Barrier), and the run of getp that starts   *)
(* and joins those threads (module Driver).  The two share no state.       *)
(*                                                                         *)
(* The barrier, for any finite set of threads, any number of waits and any *)
(* width of phase.  Its invariants are not inductive: they do not say what *)
(* count is.  BarrierInv adds that every thread outside the spin loop has  *)
(* seen the current phase, that a spinner is at most one phase behind, and *)
(* that count is the number of threads held in the spin loop of the        *)
(* current phase, except between the last arrival and the phase increment. *)
(*                                                                         *)
(* The driver, for any workloads: any number of devices, requests, prompts *)
(* and experts, any defaults and caps of the batch.  First the layout:     *)
(* once the asserts of warm_up and inference have held, the rows of all    *)
(* devices make up Round requests that follow idx, without a gap and       *)
(* without an overlap, also where the 120B model loops.  Then the          *)
(* invariant IInv: the requests before idx, and those of the devices that  *)
(* are done, have one answer, and the others have none; a rank that is     *)
(* done has met its peers; and the blocks that are allocated are, at every *)
(* point of the run, the fixed ones, those the chunks before have left,    *)
(* those of the threads that decode, and the staging of the moves.         *)
(***************************************************************************)
EXTENDS Driver, Barrier, NumberLemmas, FiniteSetTheorems

(***************************************************************************)
(* The barrier                                                             *)
(***************************************************************************)
(* The threads held in the spin loop of the current phase. *)
Held == {t \in Threads : stage[t] = "spin" /\ p[t] = phase}

IsLast(t) == stage[t] \in {"last", "reset"}

PhaseInv ==
  \A t \in Threads :
    /\ returned[t] = seen[t]
    /\ stage[t] # "spin" => seen[t] = phase
    /\ stage[t] # "out" => p[t] = seen[t]
    /\ stage[t] = "spin" => phase \in {p[t], p[t] + 1}
    /\ stage[t] # "out" => returned[t] < Waits

CountInv ==
  /\ (\A t \in Threads : ~IsLast(t)) => count = Cardinality(Held)
  /\ \A t \in Threads : /\ stage[t] = "last" => count = NThreads
                        /\ stage[t] = "reset" => count = 0

BarrierInv == TypeOK /\ PhaseInv /\ OneLast /\ CountInv

-----------------------------------------------------------------------------
(* Any number of threads is a natural number and bounds its subsets. *)
LEMMA Counting ==
  /\ NThreads \in Nat \ {0}
  /\ \A S \in SUBSET Threads : /\ IsFiniteSet(S)
                               /\ Cardinality(S) \in 0 .. NThreads
                               /\ Cardinality(S) = NThreads => S = Threads
<1>1. NThreads \in Nat
  BY FS_CardinalityType, BarrierAssumption DEF NThreads
<1>2. NThreads # 0
  BY FS_EmptySet, BarrierAssumption DEF NThreads
<1>3. ASSUME NEW S \in SUBSET Threads
      PROVE  /\ IsFiniteSet(S)
             /\ Cardinality(S) \in 0 .. NThreads
             /\ Cardinality(S) = NThreads => S = Threads
  BY FS_Subset, FS_CardinalityType, BarrierAssumption, <1>1 DEF NThreads
<1> QED
  BY <1>1, <1>2, <1>3

(* A thread outside Held that finds count = NThreads - 1 finds all others in it. *)
LEMMA AllButOne ==
  ASSUME NEW S \in SUBSET Threads, NEW t \in Threads, t \notin S
  PROVE  /\ Cardinality(S \cup {t}) = Cardinality(S) + 1
         /\ Cardinality(S) <= NThreads - 1
         /\ Cardinality(S) = NThreads - 1 => S = Threads \ {t}
<1>1. Cardinality(S \cup {t}) = Cardinality(S) + 1
  BY FS_AddElement, Counting
<1>2. S \cup {t} \in SUBSET Threads
  OBVIOUS
<1>3. Cardinality(S) <= NThreads - 1
  BY <1>1, <1>2, Counting
<1>4. Cardinality(S) = NThreads - 1 => S \cup {t} = Threads
  BY <1>1, <1>2, Counting
<1> QED
  BY <1>1, <1>3, <1>4

(* BarrierInv holds initially and every step of a thread keeps it. *)
LEMMA BarrierInitInv == BarrierInit => BarrierInv
<1> SUFFICES ASSUME BarrierInit PROVE BarrierInv
  OBVIOUS
<1>1. Held = {}
  BY DEF BarrierInit, Held
<1>2. Cardinality(Held) = 0
  BY <1>1, FS_EmptySet
<1> QED
  BY <1>2, Counting, BarrierAssumption
     DEF BarrierInit, BarrierInv, TypeOK, PhaseInv, OneLast, CountInv, IsLast

LEMMA BarrierNextInv == BarrierInv /\ [BarrierNext]_bvars => BarrierInv'
<1> SUFFICES ASSUME BarrierInv, [BarrierNext]_bvars PROVE BarrierInv'
  OBVIOUS
<1> USE DEF BarrierInv
<1>0. Held \in SUBSET Threads
  BY DEF Held
<1>1. ASSUME NEW t \in Threads, LoadPhase(t) PROVE BarrierInv'
  <2>1. /\ seen[t] = phase /\ stage[t] = "out"
        /\ \A u \in Threads : ~IsLast(u)
    BY <1>1 DEF LoadPhase, GoTo, PhaseInv, OneLast, IsLast
  <2>2. /\ p' = [p EXCEPT ![t] = phase] /\ seen' = seen
        /\ stage' = [stage EXCEPT ![t] = "loaded"]
        /\ UNCHANGED <<count, phase, returned>>
        /\ returned[t] < Waits
    BY <1>1, <2>1 DEF LoadPhase, GoTo, TypeOK
  <2>3. Held' = Held
    BY <2>1, <2>2 DEF Held, TypeOK
  <2>4. \A u \in Threads : ~IsLast(u)'
    BY <2>1, <2>2 DEF IsLast, TypeOK
  <2>5. TypeOK'
    BY <2>2 DEF TypeOK
  <2>6. PhaseInv'
    BY <2>1, <2>2 DEF PhaseInv, TypeOK
  <2>7. OneLast'
    BY <2>4 DEF OneLast, IsLast
  <2>8. CountInv'
    BY <2>1, <2>2, <2>3, <2>4 DEF CountInv, IsLast
  <2> QED
    BY <2>5, <2>6, <2>7, <2>8
<1>2. ASSUME NEW t \in Threads, FetchAddCount(t) PROVE BarrierInv'
  <2>1. /\ stage[t] = "loaded" /\ p[t] = phase /\ seen[t] = phase
        /\ \A u \in Threads : ~IsLast(u)
        /\ t \notin Held
    BY <1>2 DEF FetchAddCount, GoTo, PhaseInv, OneLast, IsLast, Held
  <2>2. count = Cardinality(Held)
    BY <2>1 DEF CountInv
  <2>3. /\ count' = count + 1 /\ count <= NThreads - 1 /\ count' \in 0 .. NThreads
    BY <1>2, <2>1, <2>2, <1>0, AllButOne, Counting DEF FetchAddCount
  <2>4. CASE count = NThreads - 1
    <3>1. /\ stage' = [stage EXCEPT ![t] = "last"] /\ UNCHANGED <<phase, seen, p, returned>>
      BY <1>2, <2>4 DEF FetchAddCount, GoTo
    <3>2. \A u \in Threads \ {t} : stage[u] = "spin" /\ p[u] = phase
      BY <2>1, <2>2, <2>4, <1>0, AllButOne DEF Held
    <3>3. TypeOK'
      BY <3>1, <2>3 DEF TypeOK
    <3>4. PhaseInv'
      BY <3>1, <2>1 DEF PhaseInv, TypeOK
    <3>5. OneLast'
      BY <3>1, <3>2 DEF OneLast, TypeOK
    <3>6. CountInv'
      <4>1. count' = NThreads
        BY <2>3, <2>4, Counting DEF TypeOK
      <4>2. /\ stage'[t] = "last"
            /\ \A u \in Threads \ {t} : stage'[u] = "spin"
        BY <3>1, <3>2 DEF TypeOK
      <4> QED
        BY <4>1, <4>2 DEF CountInv, IsLast
    <3> QED
      BY <3>3, <3>4, <3>5, <3>6
  <2>5. CASE count # NThreads - 1
    <3>1. /\ stage' = [stage EXCEPT ![t] = "spin"] /\ UNCHANGED <<phase, seen, p, returned>>
      BY <1>2, <2>5 DEF FetchAddCount, GoTo
    <3>2. Held' = Held \cup {t}
      BY <3>1, <2>1 DEF Held, TypeOK
    <3>3. Cardinality(Held') = count'
      BY <3>2, <2>1, <2>2, <2>3, <1>0, AllButOne
    <3>4. \A u \in Threads : ~IsLast(u)'
      BY <3>1, <2>1 DEF IsLast, TypeOK
    <3>5. TypeOK'
      BY <3>1, <2>3 DEF TypeOK
    <3>6. PhaseInv'
      BY <3>1, <2>1 DEF PhaseInv, TypeOK
    <3>7. OneLast' /\ CountInv'
      BY <3>3, <3>4 DEF OneLast, CountInv, IsLast
    <3> QED
      BY <3>5, <3>6, <3>7
  <2> QED
    BY <2>4, <2>5
<1>3. ASSUME NEW t \in Threads, ResetCount(t) PROVE BarrierInv'
  <2>1. /\ stage[t] = "last" /\ stage' = [stage EXCEPT ![t] = "reset"] /\ count' = 0
        /\ UNCHANGED <<phase, seen, p, returned>>
    BY <1>3 DEF ResetCount, GoTo
  <2>2. \A u \in Threads \ {t} : stage[u] = "spin" /\ p[u] = phase
    BY <2>1 DEF OneLast
  <2>3. TypeOK'
    BY <2>1, Counting DEF TypeOK
  <2>4. PhaseInv'
    BY <2>1 DEF PhaseInv, TypeOK
  <2>5. OneLast'
    BY <2>1, <2>2 DEF OneLast, TypeOK
  <2>6. CountInv'
    <3>1. /\ stage'[t] = "reset"
          /\ \A u \in Threads \ {t} : stage'[u] = "spin"
      BY <2>1, <2>2 DEF TypeOK
    <3> QED
      BY <3>1, <2>1 DEF CountInv, IsLast
  <2> QED
    BY <2>3, <2>4, <2>5, <2>6
<1>4. ASSUME NEW t \in Threads, AdvancePhase(t) PROVE BarrierInv'
  <2>1. /\ stage[t] = "reset" /\ stage' = [stage EXCEPT ![t] = "out"]
        /\ phase' = phase + 1 /\ seen' = [seen EXCEPT ![t] = phase + 1]
        /\ returned' = [returned EXCEPT ![t] = @ + 1]
        /\ UNCHANGED <<count, p>>
    BY <1>4 DEF AdvancePhase, GoTo, Return
  <2>2. /\ \A u \in Threads \ {t} : stage[u] = "spin" /\ p[u] = phase /\ seen[u] = phase
        /\ seen[t] = phase /\ returned[t] = phase
        /\ count = 0
    BY <2>1 DEF OneLast, PhaseInv, CountInv
  <2>3. Held' = {}
    BY <2>1, <2>2 DEF Held, TypeOK
  <2>4. Cardinality(Held') = 0
    BY <2>3, FS_EmptySet
  <2>5. \A u \in Threads : ~IsLast(u)'
    BY <2>1, <2>2 DEF IsLast, TypeOK
  <2>6. returned[t] < Waits
    BY <2>1 DEF PhaseInv
  <2>7. TypeOK'
    BY <2>1, <2>6, BarrierAssumption DEF TypeOK
  <2>8. PhaseInv'
    BY <2>1, <2>2 DEF PhaseInv, TypeOK
  <2>9. OneLast' /\ CountInv'
    BY <2>1, <2>2, <2>4, <2>5 DEF OneLast, CountInv, IsLast
  <2> QED
    BY <2>7, <2>8, <2>9
<1>5. ASSUME NEW t \in Threads, SpinExit(t) PROVE BarrierInv'
  <2>1. PICK v \in seen[t] .. phase : /\ v % PhaseWidth # p[t] % PhaseWidth
                                      /\ seen' = [seen EXCEPT ![t] = v]
    BY <1>5 DEF SpinExit
  <2>2. /\ stage[t] = "spin" /\ stage' = [stage EXCEPT ![t] = "out"]
        /\ returned' = [returned EXCEPT ![t] = @ + 1]
        /\ UNCHANGED <<count, phase, p>>
    BY <1>5 DEF SpinExit, GoTo, Return
  <2>3. v # p[t]
    BY <2>1
  <2>4. v = p[t] + 1 /\ v = phase /\ seen[t] = p[t] /\ returned[t] = p[t]
    BY <2>1, <2>2, <2>3 DEF PhaseInv, TypeOK
  <2>5. \A u \in Threads : ~IsLast(u)
    BY <2>2, <2>4 DEF OneLast, IsLast, TypeOK
  <2>6. Held' = Held
    BY <2>2, <2>4 DEF Held, TypeOK
  <2>7. \A u \in Threads : ~IsLast(u)'
    BY <2>2, <2>5 DEF IsLast, TypeOK
  <2>8. returned[t] < Waits
    BY <2>2 DEF PhaseInv
  <2>9. TypeOK'
    BY <2>1, <2>2, <2>4, <2>8, BarrierAssumption DEF TypeOK
  <2>10. PhaseInv'
    BY <2>1, <2>2, <2>4 DEF PhaseInv, TypeOK
  <2>11. OneLast' /\ CountInv'
    BY <2>2, <2>5, <2>6, <2>7 DEF OneLast, CountInv, IsLast
  <2> QED
    BY <2>9, <2>10, <2>11
<1>6. CASE UNCHANGED bvars
  BY <1>6 DEF bvars, TypeOK, PhaseInv, OneLast, CountInv, Held, IsLast
<1>7. CASE Terminated
  BY <1>6, <1>7 DEF Terminated
<1> QED
  BY <1>1, <1>2, <1>3, <1>4, <1>5, <1>6, <1>7 DEF BarrierNext, Wait

(* The strengthening is an invariant of the barrier. *)
THEOREM BarrierInvariant == BarrierSpec => []BarrierInv
BY BarrierInitInv, BarrierNextInv, PTL DEF BarrierSpec

-----------------------------------------------------------------------------
(* The variables keep their types: count never exceeds the threads, and no *)
(* thread returns more often than it has called wait().                    *)
THEOREM TypeCorrect == BarrierSpec => []TypeOK
BY BarrierInvariant, PTL DEF BarrierInv

(* Only one thread finds itself last, and it resets the barrier while all  *)
(* the others are held: the two stores of wait() race with nobody.         *)
THEOREM LastIsAlone == BarrierSpec => []OneLast
BY BarrierInvariant, PTL DEF BarrierInv

(* A spinner is at most one phase behind and the relaxed load is exact.    *)
THEOREM SpinnersKeepUp == BarrierSpec => []SpinnerNotOvertaken
<1>1. BarrierInv => SpinnerNotOvertaken
  BY DEF BarrierInv, PhaseInv, SpinnerNotOvertaken
<1> QED
  BY <1>1, BarrierInvariant, PTL

(* Under BarrierInv, a thread has returned from as many waits as phase says, or  *)
(* is the spinner that has not noticed the last increment.                 *)
LEMMA ReturnedPhase ==
  ASSUME BarrierInv, NEW t \in Threads
  PROVE  /\ returned[t] \in Nat
         /\ returned[t] = phase \/ (stage[t] = "spin" /\ returned[t] = phase - 1)
BY DEF BarrierInv, TypeOK, PhaseInv

(* No thread returns from its k-th wait before all have entered theirs.    *)
THEOREM NobodyLeavesEarly == BarrierSpec => []NoEarlyDeparture
<1>1. BarrierInv => NoEarlyDeparture
  <2> SUFFICES ASSUME BarrierInv, NEW t \in Threads, NEW u \in Threads
               PROVE  returned[t] <= returned[u] + (IF Entering(u) THEN 1 ELSE 0)
    BY DEF NoEarlyDeparture
  <2> QED
    BY ReturnedPhase DEF Entering, BarrierInv, TypeOK
<1> QED
  BY <1>1, BarrierInvariant, PTL

-----------------------------------------------------------------------------
(* The refinement: the initial state maps to the initial state, FetchAddCount *)
(* is Arrive, AdvancePhase and SpinExit are Leave, the rest stutters.      *)
LEMMA StepSimulation ==
  BarrierInv /\ [BarrierNext]_bvars => [Abstract!RendezvousNext]_(Abstract!rvars)
<1> DEFINE inside == {t \in Threads : Entering(t)}
<1> SUFFICES ASSUME BarrierInv, [BarrierNext]_bvars
             PROVE  [Abstract!RendezvousNext]_(Abstract!rvars)
  OBVIOUS
<1> USE DEF BarrierInv
<1>1. ASSUME NEW t \in Threads, LoadPhase(t) PROVE UNCHANGED Abstract!rvars
  <2>1. returned' = returned /\ inside' = inside
    BY <1>1 DEF LoadPhase, GoTo, Entering, TypeOK
  <2> QED
    BY <2>1 DEF Abstract!rvars
<1>2. ASSUME NEW t \in Threads, FetchAddCount(t) PROVE Abstract!Arrive(t)
  <2>1. returned' = returned /\ t \notin inside /\ inside' = inside \cup {t}
    BY <1>2 DEF FetchAddCount, GoTo, Entering, TypeOK
  <2> QED
    BY <2>1 DEF Abstract!Arrive
<1>3. ASSUME NEW t \in Threads, ResetCount(t) PROVE UNCHANGED Abstract!rvars
  <2>1. returned' = returned /\ inside' = inside
    BY <1>3 DEF ResetCount, GoTo, Entering, TypeOK
  <2> QED
    BY <2>1 DEF Abstract!rvars
<1>4. ASSUME NEW t \in Threads, AdvancePhase(t) PROVE Abstract!Leave(t)
  <2>1. /\ returned' = [returned EXCEPT ![t] = @ + 1]
        /\ t \in inside /\ inside' = inside \ {t}
    BY <1>4 DEF AdvancePhase, GoTo, Return, Entering, TypeOK
  <2>2. ASSUME NEW u \in Threads PROVE Abstract!Entered(u) > returned[t]
    <3>1. stage[t] = "reset" /\ returned[t] = phase /\ phase \in Nat
      BY <1>4 DEF AdvancePhase, GoTo, PhaseInv, TypeOK
    <3>2. u # t => stage[u] = "spin" /\ p[u] = phase /\ returned[u] = phase
      BY <3>1 DEF OneLast, PhaseInv
    <3> QED
      BY <3>1, <3>2 DEF Abstract!Entered, Entering
  <2> QED
    BY <2>1, <2>2 DEF Abstract!Leave
<1>5. ASSUME NEW t \in Threads, SpinExit(t) PROVE Abstract!Leave(t)
  <2>1. /\ returned' = [returned EXCEPT ![t] = @ + 1]
        /\ t \in inside /\ inside' = inside \ {t}
    BY <1>5 DEF SpinExit, GoTo, Return, Entering, TypeOK
  <2>2. stage[t] = "spin" /\ returned[t] = phase - 1
    <3>1. PICK v \in seen[t] .. phase : v % PhaseWidth # p[t] % PhaseWidth
      BY <1>5 DEF SpinExit
    <3>2. v # p[t]
      BY <3>1
    <3> QED
      BY <1>5, <3>2 DEF SpinExit, GoTo, PhaseInv, TypeOK
  <2>3. ASSUME NEW u \in Threads PROVE Abstract!Entered(u) > returned[t]
    BY <2>2, ReturnedPhase DEF Abstract!Entered, Entering, TypeOK
  <2> QED
    BY <2>1, <2>3 DEF Abstract!Leave
<1>6. ASSUME UNCHANGED bvars PROVE UNCHANGED Abstract!rvars
  BY <1>6 DEF bvars, Abstract!rvars, Entering
<1> QED
  BY <1>1, <1>2, <1>3, <1>4, <1>5, <1>6
     DEF BarrierNext, Wait, Terminated, Abstract!RendezvousNext

(* The counting barrier implements the rendezvous its callers rely on. *)
THEOREM Refinement == BarrierSpec => ImplementsRendezvous
<1>1. BarrierInit => Abstract!RendezvousInit
  BY DEF BarrierInit, Abstract!RendezvousInit, Entering
<1> QED
  BY <1>1, BarrierInvariant, StepSimulation, PTL
     DEF BarrierSpec, ImplementsRendezvous, Abstract!RendezvousSpec

(***************************************************************************)
(* The driver                                                              *)
(***************************************************************************)
Early == {"getp", "warm_up", "upload", "inference"}
Late == {"write", "finish", "done"}

(* What warm_up lets through, and what the asserts of inference do. *)
Accepted == ~Refused /\ LayoutHolds /\ (Is120bPath \/ OneBatchEach)

(* The requests that the decoding threads of all devices take at a time.   *)
Round == workload.devices * BATCH_SIZE
Tokens == [q \in Requests |-> TokensOf(q)]

TypeInv ==
  /\ workload \in Workloads
  /\ pc \in Early \cup Late \cup {"generate", "failed"}
  /\ idx \in Nat
  /\ answered \in [Requests -> {0, 1}]
  /\ num_token_out \in [Devices -> Int]
  /\ total \in Int
  /\ running \in SUBSET Devices

(* Between two chunks; a replica of the 20B model has one.                 *)
ChunkInv ==
  /\ idx + Round <= workload.count
  /\ IF Is120bPath THEN \E k \in 0 .. idx : idx = k * Chunk ELSE idx = 0

(* Those before idx are answered, and those of the devices that are done.  *)
ServeInv ==
  /\ pc \in Early => idx = 0 /\ total = 0 /\ \A q \in Requests : answered[q] = 0
  /\ pc \in {"upload", "inference"} => ~Refused
  /\ pc = "generate" =>
       /\ Accepted /\ ChunkInv
       /\ \A q \in Requests :
            answered[q] = IF q < idx \/ \E d \in Devices \ running : q \in Rows(d) THEN 1 ELSE 0
       /\ total = SumFunctionOnSet(Tokens, 0 .. idx - 1)
       /\ \A d \in Devices \ running : num_token_out[d] = SumFunctionOnSet(Tokens, Rows(d))
  /\ pc \in Late =>
       /\ \A q \in Requests : answered[q] = 1
       /\ total = SumFunctionOnSet(Tokens, Requests)

Read == On({Host}, {"str_reqs", "tok_gens"})
Created == Read \cup On({Host}, {"dev_transformers", "workers"}) \cup On(Devices, {"DeviceTransformer"})
Uploaded(ds) == On(ds, TransformerBlocks)
Extended == On({Host}, {"g_ext"}) \cup On(Devices, ExtBlocks \cup {"comm"})

Base == Created \cup Uploaded(Devices) \cup Extended

(* What the chunks before this one have left, what the threads of this one *)
(* keep, and what they will give back.                                     *)
Earlier == (IF idx = 0 THEN {} ELSE On(Devices, DeviceBlocks)) \cup Devices \X ThreadBlocks \X Decoded
Current == On(begun, DeviceBlocks) \cup OfThread(begun, FirstBlocks)
             \cup OfThread(Devices \ running, LastBlocks)
InUse == On(begun \cap running, {"pinned_tokens"})

(* The blocks that are allocated at each point of the run; the staging of  *)
(* the moves comes and goes while the threads decode.                      *)
HeapInv ==
  /\ ~stray
  /\ pc = "getp" => heap = {}
  /\ pc = "warm_up" => heap = Read
  /\ pc = "upload" => heap = Created \cup Uploaded(Devices \ running)
  /\ pc = "inference" => heap = Base
  /\ pc = "generate" =>
       heap \ Staging(Devices) = Base \cup SyncPoints \cup Earlier \cup Current \cup InUse
  /\ pc \in {"write", "finish"} =>
       heap \ Staging(Devices) = Base \cup SyncPoints \cup Earlier
  /\ pc = "done" => heap \ Staging(Devices) = Left

(* A rank that is done has met its peers, and a rank that has begun shows  *)
(* them the buffers of its own thread.                                     *)
PublishInv ==
  /\ begun \in SUBSET Devices
  /\ published \in [Devices -> Int]
  /\ pc \in Early => begun = {}
  /\ pc = "generate" =>
       /\ \A d \in Devices \ running : Group(d) \subseteq begun
       /\ EXPERT_PARALLELISM > 2 => \A d \in begun : published[d] = idx

IInv == TypeInv /\ ServeInv /\ PublishInv /\ HeapInv

-----------------------------------------------------------------------------
LEMMA WorkloadType ==
  ASSUME workload \in Workloads
  PROVE  /\ workload.devices \in Nat \ {0} /\ workload.count \in Nat
         /\ workload.experts \in Nat /\ workload.fixed \in Nat
BY DriverAssumption

LEMMA Ranks ==
  ASSUME workload \in Workloads
  PROVE  EXPERT_PARALLELISM \in Nat \ {0}
BY WorkloadType DEF EXPERT_PARALLELISM

(* A batch has a row: the devices divide the requests, of which there are  *)
(* some, or the batch is a constant of the code or set by hand.            *)
LEMMA Batch ==
  ASSUME workload \in Workloads
  PROVE  BATCH_SIZE \in Nat \ {0}
<1>1. CASE FollowsInput
  <2>1. /\ workload.count > 0 /\ workload.count % workload.devices = 0
        /\ workload.count \in Nat /\ workload.devices \in Nat \ {0}
    BY <1>1, WorkloadType DEF FollowsInput
  <2>2. /\ InputRows \in Nat
        /\ workload.count = InputRows * workload.devices + (workload.count % workload.devices)
    BY <2>1, Division DEF InputRows
  <2>3. InputRows # 0
    BY <2>1, <2>2
  <2> QED
    BY <1>1, <2>2, <2>3 DEF BATCH_SIZE
<1>2. CASE ~FollowsInput
  BY <1>2, WorkloadType, DriverAssumption DEF BATCH_SIZE
<1> QED
  BY <1>1, <1>2

(* What the asserts establish, for one replica of the 120B model on eight  *)
(* devices and for replicas of the 20B model with one batch each.          *)
LEMMA Layout ==
  ASSUME workload \in Workloads, Accepted
  PROVE  /\ NParallel \in Nat /\ workload.devices = NParallel * EXPERT_PARALLELISM
         /\ Chunk \in Nat \ {0} /\ Round \in Nat \ {0}
         /\ RequestsPerModel \in Nat
         /\ Is120bPath => /\ NParallel = 1 /\ Round = Chunk
                          /\ RequestsPerModel = workload.count
                          /\ \E k \in Nat : workload.count = k * Chunk
         /\ ~Is120bPath => RequestsPerModel = Chunk /\ workload.count = Round
<1> DEFINE D == workload.devices
           N == workload.count
           E == EXPERT_PARALLELISM
           B == BATCH_SIZE
           P == NParallel
<1>1. /\ D \in Nat \ {0} /\ N \in Nat /\ E \in Nat \ {0} /\ B \in Nat \ {0}
  BY WorkloadType, Ranks, Batch
<1>2. D % E = 0
  BY DEF Accepted, Refused
<1>3. P \in Nat /\ D = P * E
  <2>1. D \div E \in Nat /\ D = (D \div E) * E + (D % E)
    BY <1>1, Division
  <2>2. (D \div E) * E \in Nat
    BY <1>1, <2>1, ProductNat
  <2> QED
    BY <1>2, <2>1, <2>2 DEF NParallel
<1>4. Chunk = E * B /\ Round = D * B
  BY DEF Chunk, Round
<1>5. Chunk \in Nat \ {0} /\ Round \in Nat \ {0}
  <2> HIDE DEF D, E, B
  <2>1. \A m, n \in Nat \ {0} : m * n \in Nat \ {0}
    <3>1. ASSUME NEW m \in Nat \ {0}, NEW n \in Nat \ {0} PROVE m * n \in Nat \ {0}
      <4>1. 0 * n + n <= m * n
        BY NextMultiple
      <4> QED
        BY <4>1, ProductNat
    <3> QED
      BY <3>1
  <2> QED
    BY <1>1, <1>4, <2>1
<1>6. ASSUME Is120bPath
      PROVE  /\ P = 1 /\ Round = Chunk /\ RequestsPerModel = N
             /\ \E k \in Nat : N = k * Chunk
  <2>1. E = 8 /\ D = 8
    BY <1>6 DEF Is120bPath, EXPERT_PARALLELISM
  <2>2. P = 1
    BY <2>1 DEF NParallel
  <2>3. RequestEnd(0) = N /\ RequestStart(0) = 0
    <3>1. RequestEnd(0) = N
      BY <2>2 DEF RequestEnd
    <3>2. PerModel = N \div 1
      BY <2>2 DEF PerModel
    <3>3. PerModel \in Nat
      BY <1>1, <3>2, Division
    <3>4. 0 \div 8 = 0 /\ 0 * PerModel = 0
      BY <3>3
    <3> QED
      BY <2>1, <3>1, <3>4 DEF RequestStart
  <2>4. 0 \in Leaders
    BY <1>1, <2>1 DEF Leaders, Devices
  <2>5. (N - 0) % Chunk = 0
    BY <2>3, <2>4 DEF Accepted, LayoutHolds
  <2>6. N % Chunk = 0
    BY <1>1, <2>5
  <2>7. N \div Chunk \in Nat /\ N = (N \div Chunk) * Chunk + (N % Chunk)
    BY <1>1, <1>5, Division
  <2>8. N = (N \div Chunk) * Chunk
    BY <1>5, <2>6, <2>7, ProductNat
  <2>9. RequestsPerModel = N
    BY <1>1, <2>3 DEF RequestsPerModel
  <2> QED
    BY <1>4, <2>1, <2>2, <2>7, <2>8, <2>9
<1>7. ASSUME ~Is120bPath
      PROVE  RequestsPerModel = Chunk /\ N = Round
  <2>1. P * RequestsPerModel = N /\ RequestsPerModel = Chunk
    BY <1>7 DEF Accepted, OneBatchEach
  <2>2. N = P * (E * B) /\ Round = (P * E) * B
    BY <1>3, <1>4, <2>1
  <2>3. \A x, y, z \in Nat : x * (y * z) = (x * y) * z
    OBVIOUS
  <2> QED
    BY <1>1, <1>3, <2>1, <2>2, <2>3
<1> QED
  BY <1>1, <1>3, <1>5, <1>6, <1>7

(* A device's rows are the next BATCH_SIZE requests after those of the     *)
(* devices before it, whatever its replica and its rank.                   *)
LEMMA RowsAre ==
  ASSUME workload \in Workloads, Accepted, idx \in Nat, NEW d \in Devices
  PROVE  /\ d \in Nat /\ d < workload.devices
         /\ d * BATCH_SIZE \in Nat
         /\ Rows(d) = {idx + d * BATCH_SIZE + b : b \in 0 .. BATCH_SIZE - 1}
<1> DEFINE E == EXPERT_PARALLELISM
           B == BATCH_SIZE
           R == RequestsPerModel
           m == d \div E
           r == d % E
<1>1. /\ workload.devices \in Nat /\ E \in Nat \ {0} /\ B \in Nat \ {0} /\ R \in Nat
      /\ d \in Nat /\ d < workload.devices
  BY WorkloadType, Ranks, Batch, Layout DEF Devices
<1>2. m \in Nat /\ r \in Nat /\ r < E /\ d = m * E + r
  <2>1. E \in Nat \ {0} /\ d \in Nat
    BY <1>1
  <2> HIDE DEF E
  <2>2. m \in Nat /\ r \in 0 .. E - 1 /\ d = m * E + r
    BY <2>1, Division
  <2> QED
    BY <2>1, <2>2
<1>3. d * B \in Nat
  BY <1>1, ProductNat
<1>4. m * R + r * B = d * B
  <2>1. CASE Is120bPath
    <3>1. workload.devices = E
      BY <2>1, <1>1, Layout
    <3>2. m = 0
      <4>1. m * E < E
        BY <1>1, <1>2, <3>1, ProductNat
      <4>2. m > 0 => 0 * E + E <= m * E
        BY <1>1, <1>2, NextMultiple
      <4> QED
        BY <1>1, <1>2, <4>1, <4>2, ProductNat
    <3>3. r = d
      BY <1>1, <1>2, <3>2
    <3>4. 0 * R = 0
      BY <1>1
    <3> QED
      BY <1>3, <3>2, <3>3, <3>4
  <2>2. CASE ~Is120bPath
    <3>1. R = E * B
      BY <2>2, Layout DEF Chunk
    <3>2. \A x, y, z, w \in Nat : x * (y * z) + w * z = (x * y + w) * z
      OBVIOUS
    <3>3. m * (E * B) + r * B = (m * E + r) * B
      BY <1>1, <1>2, <3>2
    <3> QED
      BY <1>2, <3>1, <3>3
  <2> QED
    BY <2>1, <2>2
<1>5. m * R \in Nat /\ r * B \in Nat
  BY <1>1, <1>2, ProductNat
<1>6. Rows(d) = {idx + m * R + r * B + b : b \in 0 .. B - 1}
  BY DEF Rows
<1>7. \A b \in 0 .. B - 1 : idx + m * R + r * B + b = idx + d * B + b
  BY <1>1, <1>3, <1>4, <1>5
<1> HIDE DEF m, r, B, R, E
<1>8. Rows(d) = {idx + d * B + b : b \in 0 .. B - 1}
  BY <1>6, <1>7
<1> QED
  BY <1>1, <1>3, <1>8 DEF B

(* The devices share a round out: every request of it is in the rows of    *)
(* one device, and no other request is in any.                             *)
LEMMA RowsDealt ==
  ASSUME workload \in Workloads, Accepted, idx \in Nat
  PROVE  /\ \A d \in Devices : IsFiniteSet(Rows(d)) /\ Rows(d) \subseteq idx .. idx + Round - 1
         /\ \A d, e \in Devices : d # e => Rows(d) \cap Rows(e) = {}
         /\ \A q \in idx .. idx + Round - 1 : \E d \in Devices : q \in Rows(d)
<1> DEFINE B == BATCH_SIZE
           D == workload.devices
<1>1. B \in Nat \ {0} /\ D \in Nat \ {0} /\ Round \in Nat /\ Round = D * B
  BY WorkloadType, Batch, Layout DEF Round
<1>2. \A d \in Devices : /\ d \in Nat /\ d < D /\ d * B \in Nat
                         /\ Rows(d) = {idx + d * B + b : b \in 0 .. B - 1}
  BY RowsAre
<1>3. \A d \in Nat : d < D => d \in Devices
  BY <1>1 DEF Devices
<1> HIDE DEF B, D
<1>4. ASSUME NEW d \in Devices
      PROVE  IsFiniteSet(Rows(d)) /\ Rows(d) \subseteq idx .. idx + Round - 1
  <2>1. d * B + B <= D * B
    BY <1>1, <1>2, NextMultiple
  <2>2. Rows(d) \subseteq idx .. idx + Round - 1
    BY <1>1, <1>2, <2>1
  <2>3. IsFiniteSet(idx .. idx + Round - 1)
    BY <1>1, FS_Interval
  <2> QED
    BY <2>2, <2>3, FS_Subset
<1>5. ASSUME NEW d \in Devices, NEW e \in Devices, NEW q \in Rows(d) \cap Rows(e)
      PROVE  d = e
  <2>1. PICK b \in 0 .. B - 1 : q = idx + d * B + b
    BY <1>2
  <2>2. PICK c \in 0 .. B - 1 : q = idx + e * B + c
    BY <1>2, <1>5
  <2>3. d \in Nat /\ e \in Nat /\ d * B \in Nat /\ e * B \in Nat
    BY <1>2
  <2>4. d * B + b = e * B + c
    BY <1>1, <2>1, <2>2, <2>3
  <2> QED
    BY <1>1, <2>3, <2>4, SamePair
<1>6. ASSUME NEW q \in idx .. idx + Round - 1
      PROVE  \E d \in Devices : q \in Rows(d)
  <2> DEFINE r == q - idx
             d == r \div B
             b == r % B
  <2>1. r \in Nat /\ r < D * B
    BY <1>1
  <2> HIDE DEF r
  <2>2. d \in Nat /\ b \in 0 .. B - 1 /\ r = d * B + b
    BY <1>1, <2>1, Division
  <2> HIDE DEF d, b
  <2>3. d * B \in Nat
    BY <1>1, <2>2, ProductNat
  <2>4. d < D
    <3>1. SUFFICES ASSUME D <= d PROVE FALSE
      BY <1>1, <2>2
    <3>2. D * B <= d * B
      <4>1. D < d => D * B + B <= d * B
        BY <1>1, <2>2, NextMultiple
      <4> QED
        BY <1>1, <2>2, <2>3, <3>1, <4>1, ProductNat
    <3> QED
      BY <1>1, <2>1, <2>2, <2>3, <3>2, ProductNat
  <2>5. q = idx + d * B + b
    BY <1>1, <2>2, <2>3 DEF r
  <2> QED
    BY <1>2, <1>3, <2>2, <2>4, <2>5
<1> QED
  BY <1>4, <1>5, <1>6

LEMMA TokensType ==
  ASSUME workload \in Workloads
  PROVE  /\ IsFiniteSet(Requests) /\ IsFiniteSet(Devices)
         /\ \A q \in Requests : q \in Nat /\ Tokens[q] = TokensOf(q) /\ Tokens[q] \in Int
<1>1. workload.count \in Nat /\ workload.devices \in Nat
  BY WorkloadType
<1>2. IsFiniteSet(Requests) /\ IsFiniteSet(Devices)
  <2>1. 0 \in Int /\ workload.count - 1 \in Int /\ workload.devices - 1 \in Int
    BY <1>1
  <2>2. IsFiniteSet(0 .. workload.count - 1) /\ IsFiniteSet(0 .. workload.devices - 1)
    BY <2>1, FS_Interval
  <2> QED
    BY <2>2 DEF Requests, Devices
<1> QED
  BY <1>1, <1>2 DEF Requests, Tokens, TokensOf

(* The sum that Generate computes is the sum over the device's rows. *)
LEMMA RowSum ==
  ASSUME workload \in Workloads, Accepted, idx \in Nat, idx + Round <= workload.count,
         NEW d \in Devices
  PROVE  /\ Rows(d) \subseteq Requests
         /\ SumFunction([q \in Rows(d) |-> TokensOf(q)]) = SumFunctionOnSet(Tokens, Rows(d))
         /\ SumFunctionOnSet(Tokens, Rows(d)) \in Int
<1> DEFINE f == [q \in Rows(d) |-> TokensOf(q)]
<1>1. IsFiniteSet(Rows(d)) /\ Rows(d) \subseteq idx .. idx + Round - 1
  BY RowsDealt
<1>2. workload.count \in Nat /\ Round \in Nat
  BY WorkloadType, Layout
<1>3. Rows(d) \subseteq Requests
  BY <1>1, <1>2 DEF Requests
<1>4. \A q \in Rows(d) : f[q] = Tokens[q] /\ f[q] \in Int
  BY <1>3, TokensType
<1>5. SumFunction(f) = SumFunctionOnSet(f, Rows(d))
  BY SumFunctionIs
<1> HIDE DEF f
<1>6. SumFunctionOnSet(f, Rows(d)) = SumFunctionOnSet(Tokens, Rows(d))
  BY <1>1, <1>4, SumSame
<1>7. SumFunctionOnSet(Tokens, Rows(d)) \in Int
  BY <1>1, <1>4, SumStep
<1> QED
  BY <1>3, <1>5, <1>6, <1>7 DEF f

(* When all devices are done, their counts add up to the round's tokens.   *)
LEMMA RoundSum ==
  ASSUME workload \in Workloads, Accepted, idx \in Nat, idx + Round <= workload.count,
         num_token_out \in [Devices -> Int],
         \A d \in Devices : num_token_out[d] = SumFunctionOnSet(Tokens, Rows(d)),
         total = SumFunctionOnSet(Tokens, 0 .. idx - 1)
  PROVE  /\ total + SumFunction(num_token_out) = SumFunctionOnSet(Tokens, 0 .. idx + Round - 1)
         /\ SumFunctionOnSet(Tokens, 0 .. idx + Round - 1) \in Int
<1> DEFINE P == [d \in Devices |-> Rows(d)]
           done == 0 .. idx - 1
           round == idx .. idx + Round - 1
<1>1. Round \in Nat /\ workload.count \in Nat
  BY Layout, WorkloadType
<1>2. IsFiniteSet(done) /\ IsFiniteSet(round) /\ done \cap round = {}
  <2>1. 0 \in Int /\ idx \in Int /\ idx - 1 \in Int /\ idx + Round - 1 \in Int
    BY <1>1
  <2>2. IsFiniteSet(done) /\ IsFiniteSet(round)
    BY <2>1, FS_Interval
  <2>3. done \cap round = {}
    BY <1>1
  <2> QED
    BY <2>2, <2>3
<1>3. done \cup round = 0 .. idx + Round - 1
  BY <1>1
<1>4. \A q \in done \cup round : Tokens[q] \in Int
  BY <1>1, TokensType DEF Requests
<1>5. \A d \in Devices : P[d] = Rows(d)
  OBVIOUS
<1>6. Whole(P, Devices) = round
  BY <1>5, RowsDealt DEF Whole
<1>7. /\ \A d \in Devices : IsFiniteSet(P[d]) /\ \A q \in P[d] : Tokens[q] \in Int
      /\ \A d, e \in Devices : d # e => P[d] \cap P[e] = {}
      /\ \A d \in Devices : num_token_out[d] = SumFunctionOnSet(Tokens, P[d])
  BY <1>4, <1>5, RowsDealt
<1> HIDE DEF P, done, round
<1>8. SumFunctionOnSet(num_token_out, Devices) = SumFunctionOnSet(Tokens, Whole(P, Devices))
  BY <1>7, TokensType, SumOfParts
<1>9. SumFunction(num_token_out) = SumFunctionOnSet(num_token_out, Devices)
  BY SumFunctionIs
<1>10. SumFunctionOnSet(Tokens, done \cup round)
         = SumFunctionOnSet(Tokens, done) + SumFunctionOnSet(Tokens, round)
  BY <1>2, <1>4, SumUnion
<1>11. IsFiniteSet(done \cup round)
  BY <1>2, FS_Union
<1>12. SumFunctionOnSet(Tokens, done \cup round) \in Int
  BY <1>4, <1>11, SumStep
<1>13. total = SumFunctionOnSet(Tokens, done)
  BY DEF done
<1> QED
  BY <1>3, <1>6, <1>8, <1>9, <1>10, <1>12, <1>13

(* The experts of a group's ranks follow one another; those that are left  *)
(* when the number of ranks does not divide them are nowhere.              *)
LEMMA Covered ==
  ASSUME workload \in Workloads, NEW leader \in Leaders, NEW e \in 0 .. workload.experts - 1
  PROVE  Cardinality({d \in leader .. leader + EXPERT_PARALLELISM - 1 :
                        ExpertStart(d) <= e /\ e < ExpertEnd(d)})
           = (IF e < workload.experts - (workload.experts % EXPERT_PARALLELISM) THEN 1 ELSE 0)
<1> DEFINE E == EXPERT_PARALLELISM
           N == workload.experts
           k == ExpertsPerDevice
           group == leader .. leader + E - 1
           Holds(d) == ExpertStart(d) <= e /\ e < ExpertEnd(d)
           holders == {d \in group : Holds(d)}
<1>1. E \in Nat \ {0} /\ N \in Nat
  BY WorkloadType, Ranks
<1>2. leader \in Nat /\ leader % E = 0
  BY WorkloadType DEF Leaders, Devices
<1>3. /\ k \in Nat /\ N % E \in 0 .. E - 1 /\ N = k * E + (N % E)
  BY <1>1, Division DEF ExpertsPerDevice
<1>4. \A d : ExpertStart(d) = k * (d % E) /\ ExpertEnd(d) = k * ((d % E) + 1)
  BY DEF ExpertStart, ExpertEnd
<1> HIDE DEF E, N, k
<1>5. N - (N % E) = k * E /\ k * E \in Nat
  BY <1>1, <1>3, ProductNat
<1>6. ASSUME NEW d \in group
      PROVE  /\ d - leader \in 0 .. E - 1
             /\ ExpertStart(d) = k * (d - leader)
             /\ ExpertEnd(d) = k * (d - leader) + k
             /\ k * (d - leader) \in Nat
  <2> DEFINE i == d - leader
             q == leader \div E
  <2>1. i \in 0 .. E - 1 /\ d = leader + i
    BY <1>1, <1>2
  <2>2. q \in Nat /\ leader = q * E + (leader % E)
    BY <1>1, <1>2, Division
  <2> HIDE DEF i, q
  <2>3. d = q * E + i
    BY <1>1, <1>2, <2>1, <2>2, ProductNat
  <2>4. d % E = i
    BY <1>1, <2>1, <2>2, <2>3, DivisionUnique
  <2>5. ExpertStart(d) = k * i /\ ExpertEnd(d) = k * (i + 1)
    BY <1>4, <2>4
  <2>6. \A x, y \in Nat : x * (y + 1) = x * y + x /\ x * y \in Nat
    BY ProductNat
  <2> QED
    BY <1>1, <1>3, <2>1, <2>5, <2>6 DEF i
<1> HIDE DEF group
<1>7. CASE e < k * E
  <2>1. k # 0
    BY <1>1, <1>7
  <2> DEFINE i == e \div k
             r == e % k
             h == leader + i
  <2>2. e \in Nat /\ k \in Nat \ {0}
    BY <1>3, <2>1
  <2>3. i \in Nat /\ r \in 0 .. k - 1 /\ e = i * k + r
    BY <2>2, Division
  <2> HIDE DEF i, r
  <2>4. \A x, y \in Nat : x * y = y * x
    OBVIOUS
  <2>5. i < E
    <3>1. SUFFICES ASSUME E <= i PROVE FALSE
      BY <1>1, <2>3
    <3>2. E < i => E * k + k <= i * k
      BY <1>1, <2>2, <2>3, NextMultiple
    <3>3. E * k \in Nat /\ i * k \in Nat /\ E * k = k * E
      BY <1>1, <2>2, <2>3, <2>4, ProductNat
    <3>4. E * k <= i * k
      <4>1. CASE E = i
        BY <3>3, <4>1
      <4>2. CASE E < i
        BY <2>2, <3>2, <3>3, <4>2
      <4> QED
        BY <1>1, <2>3, <3>1, <4>1, <4>2
    <3> QED
      BY <1>7, <2>2, <2>3, <3>3, <3>4
  <2>6. h \in group /\ h - leader = i
    BY <1>1, <1>2, <2>3, <2>5 DEF group
  <2>7. i * k = k * i /\ k * i \in Nat
    BY <2>2, <2>3, <2>4, ProductNat
  <2>8. ExpertStart(h) = k * i /\ ExpertEnd(h) = k * i + k
    BY <1>6, <2>6
  <2>9. Holds(h)
    BY <2>2, <2>3, <2>7, <2>8
  <2>10. ASSUME NEW d \in group, Holds(d) PROVE d = h
    <3> DEFINE j == d - leader
    <3>1. /\ j \in 0 .. E - 1 /\ k * j \in Nat
          /\ k * j <= e /\ e < k * j + k
      BY <1>6, <2>10
    <3>2. d = leader + j
      BY <1>1, <1>2 DEF group
    <3> HIDE DEF j
    <3>3. j \in Nat /\ k * j = j * k
      BY <1>1, <2>2, <2>4, <3>1
    <3>4. e - k * j \in 0 .. k - 1 /\ j * k + (e - k * j) = i * k + r
      BY <2>2, <2>3, <3>1, <3>3
    <3>5. j = i
      BY <2>2, <2>3, <3>3, <3>4, SamePair
    <3> QED
      BY <3>2, <3>5
  <2> HIDE DEF Holds, h
  <2>11. holders = {h}
    BY <2>6, <2>9, <2>10
  <2>12. Cardinality({h}) = 1
    BY FS_Singleton
  <2> QED
    BY <1>5, <1>7, <2>11, <2>12 DEF E, N, group, Holds
<1>8. CASE ~(e < k * E)
  <2>1. ASSUME NEW d \in group, Holds(d) PROVE FALSE
    <3>1. /\ d - leader \in 0 .. E - 1 /\ k * (d - leader) \in Nat
          /\ e < k * (d - leader) + k
      BY <1>6, <2>1
    <3>2. \A x, y \in Nat : x * y = y * x
      OBVIOUS
    <3>3. (d - leader) * k + k <= E * k
      BY <1>1, <1>3, <3>1, NextMultiple
    <3>4. (d - leader) * k = k * (d - leader) /\ E * k = k * E
      BY <1>1, <1>3, <3>1, <3>2
    <3> QED
      BY <1>3, <1>5, <1>8, <3>1, <3>3, <3>4
  <2> HIDE DEF Holds
  <2>2. holders = {}
    BY <2>1
  <2>3. Cardinality({}) = 0
    BY FS_EmptySet
  <2> QED
    BY <1>5, <1>8, <2>2, <2>3 DEF E, N, group, Holds
<1> QED
  BY <1>7, <1>8

-----------------------------------------------------------------------------
LEMMA WorkloadFixed ==
  ASSUME [Next]_vars
  PROVE  workload' = workload
BY DEF Next, Main, Ended, Stop, ReadInput, WarmUp, Upload, Allocate, Inference, Begin, Generate, Join,
       WriteOutput, Finish, vars

LEMMA LayoutFixed ==
  ASSUME workload' = workload
  PROVE  /\ Devices' = Devices /\ Requests' = Requests /\ Tokens' = Tokens
         /\ Refused' = Refused /\ Accepted' = Accepted
         /\ Round' = Round /\ Chunk' = Chunk /\ Is120bPath' = Is120bPath
         /\ idx' = idx => \A d : Rows(d)' = Rows(d)
         /\ EXPERT_PARALLELISM' = EXPERT_PARALLELISM /\ \A d : Group(d)' = Group(d)
<1>1. /\ Devices' = Devices /\ Requests' = Requests /\ Tokens' = Tokens
  BY DEF Devices, Requests, Tokens, TokensOf
<1>2. /\ EXPERT_PARALLELISM' = EXPERT_PARALLELISM
      /\ FollowsInput' = FollowsInput /\ InputRows' = InputRows /\ Cap' = Cap
  BY DEF EXPERT_PARALLELISM, FollowsInput, InputRows, Cap
<1>3. BATCH_SIZE' = BATCH_SIZE
  BY <1>2 DEF BATCH_SIZE
<1>4. Refused' = Refused /\ NParallel' = NParallel
  BY <1>2 DEF Refused, NParallel
<1>5. PerModel' = PerModel
  BY <1>4 DEF PerModel
<1>6. \A d : RequestStart(d)' = RequestStart(d) /\ RequestEnd(d)' = RequestEnd(d)
  BY <1>2, <1>4, <1>5 DEF RequestStart, RequestEnd
<1>7. RequestsPerModel' = RequestsPerModel
  BY <1>6 DEF RequestsPerModel
<1>8. Chunk' = Chunk /\ Round' = Round /\ Is120bPath' = Is120bPath
  BY <1>2, <1>3 DEF Chunk, Round, Is120bPath
<1>9. Leaders' = Leaders
  BY <1>1, <1>2 DEF Leaders
<1>10. LayoutHolds' = LayoutHolds /\ OneBatchEach' = OneBatchEach
  BY <1>4, <1>6, <1>7, <1>8, <1>9 DEF LayoutHolds, OneBatchEach
<1>11. Accepted' = Accepted
  BY <1>4, <1>8, <1>10 DEF Accepted
<1>12. idx' = idx => \A d : Rows(d)' = Rows(d)
  BY <1>2, <1>3, <1>7 DEF Rows
<1>13. \A d : Group(d)' = Group(d)
  BY <1>1, <1>2 DEF Group
<1> QED
  BY <1>1, <1>2, <1>4, <1>8, <1>11, <1>12, <1>13

-----------------------------------------------------------------------------
LEMMA InitInv == Init => IInv
<1> SUFFICES ASSUME Init PROVE IInv
  OBVIOUS
<1>1. TypeInv
  BY DEF Init, TypeInv, Early
<1>2. ServeInv
  BY DEF Init, ServeInv, Early, Late
<1>3. HeapInv
  BY DEF Init, HeapInv
<1>4. PublishInv
  BY DEF Init, PublishInv, Null
<1> QED
  BY <1>1, <1>2, <1>3, <1>4 DEF IInv

(* Before the threads decode, nothing is answered and nothing is counted.  *)
LEMMA EarlyStep ==
  ASSUME TypeInv, ServeInv, workload' = workload, pc \in Early, pc' \in Early \cup {"failed"},
         UNCHANGED <<idx, answered, num_token_out, total>>, running' \in SUBSET Devices,
         pc' \in {"upload", "inference"} => ~Refused
  PROVE  TypeInv' /\ ServeInv'
<1>1. TypeInv'
  BY LayoutFixed DEF TypeInv
<1>2. pc' \notin Late \cup {"generate"}
  BY DEF Early, Late
<1>3. ServeInv'
  BY <1>2, LayoutFixed DEF ServeInv, Late
<1> QED
  BY <1>1, <1>3

LEMMA StopStep ==
  ASSUME TypeInv, Stop
  PROVE  TypeInv' /\ ServeInv'
<1>1. /\ workload' = workload /\ pc' = "failed"
      /\ UNCHANGED <<running, idx, answered, num_token_out, total>>
  BY DEF Stop, Goto, decoding
<1>2. TypeInv'
  BY <1>1, LayoutFixed DEF TypeInv
<1>3. ServeInv'
  BY <1>1 DEF ServeInv, Early, Late
<1> QED
  BY <1>2, <1>3

(* Nothing changes that the answers depend on. *)
LEMMA LateStep ==
  ASSUME TypeInv, ServeInv, workload' = workload, pc \in Late, pc' \in Late,
         UNCHANGED <<running, idx, answered, num_token_out, total>>
  PROVE  TypeInv' /\ ServeInv'
<1>1. TypeInv'
  BY LayoutFixed DEF TypeInv
<1>2. pc' \notin Early \cup {"generate"} /\ pc' \notin {"upload", "inference"}
  BY DEF Early, Late
<1>3. (\A q \in Requests : answered[q] = 1) /\ total = SumFunctionOnSet(Tokens, Requests)
  BY DEF ServeInv
<1>4. ServeInv'
  BY <1>2, <1>3, LayoutFixed DEF ServeInv
<1> QED
  BY <1>1, <1>4

(* The first chunk is there, because the requests of a replica make up     *)
(* whole chunks and there are some.                                        *)
LEMMA InferenceServes ==
  ASSUME TypeInv, ServeInv, Inference
  PROVE  TypeInv' /\ ServeInv'
<1>1. CASE Stop
  BY <1>1, StopStep
<1>2. CASE ~Stop
  <2>1. /\ pc = "inference" /\ LayoutHolds /\ (Is120bPath \/ OneBatchEach)
        /\ IF idx < RequestsPerModel THEN running' = Devices /\ pc' = "generate"
                                     ELSE running' = {} /\ pc' = "write"
        /\ UNCHANGED <<workload, idx, answered, num_token_out, total>>
    BY <1>2 DEF Inference, Goto, decoding
  <2>2. /\ Accepted /\ idx = 0 /\ total = 0 /\ workload \in Workloads
        /\ \A q \in Requests : answered[q] = 0
    BY <2>1 DEF ServeInv, Early, Accepted, TypeInv
  <2>3. TypeInv'
    BY <2>1, LayoutFixed DEF TypeInv, Late
  <2>4. SumFunctionOnSet(Tokens, {}) = 0
    BY SumEmpty
  <2>5. /\ Round \in Nat \ {0} /\ Chunk \in Nat \ {0} /\ workload.count \in Nat
        /\ RequestsPerModel \in Nat
    BY <2>2, Layout, WorkloadType
  <2>6. CASE idx < RequestsPerModel
    <3>1. pc' = "generate" /\ running' = Devices
      BY <2>1, <2>6
    <3>2. Round <= workload.count
      <4>1. CASE Is120bPath
        <5>1. Round = Chunk /\ RequestsPerModel = workload.count
          BY <2>2, <4>1, Layout
        <5>2. PICK k \in Nat : workload.count = k * Chunk
          BY <2>2, <4>1, Layout
        <5>3. 0 < k
          BY <2>2, <2>5, <2>6, <5>1, <5>2
        <5>4. 0 * Chunk + Chunk <= k * Chunk
          BY <2>5, <5>3, NextMultiple
        <5> QED
          BY <2>5, <5>1, <5>2, <5>4
      <4>2. CASE ~Is120bPath
        BY <2>2, <2>5, <4>2, Layout
      <4> QED
        BY <4>1, <4>2
    <3>3. idx + Round <= workload.count
      BY <2>2, <2>5, <3>2
    <3>4. 0 \in 0 .. idx /\ idx = 0 * Chunk
      BY <2>2, <2>5
    <3>5. ChunkInv
      BY <2>2, <3>3, <3>4 DEF ChunkInv
    <3>6. ChunkInv'
      BY <2>1, <3>5, LayoutFixed DEF ChunkInv
    <3>7. Accepted'
      BY <2>1, <2>2, LayoutFixed
    <3>8. \A q \in Requests : ~(q < idx)
      BY <2>2, <2>5 DEF Requests
    <3>9. 0 .. idx - 1 = {}
      BY <2>2
    <3>10. total' = SumFunctionOnSet(Tokens, 0 .. idx - 1)'
      BY <2>1, <2>2, <2>4, <3>9, LayoutFixed
    <3>11. Devices' \ running' = {}
      BY <2>1, <3>1, LayoutFixed
    <3>12. Requests' = Requests /\ UNCHANGED <<idx, answered>>
      BY <2>1, LayoutFixed
    <3>13. \A q \in Requests' : answered'[q] = IF q < idx' \/ \E d \in Devices' \ running' : q \in Rows(d)' THEN 1 ELSE 0
      BY <2>2, <3>8, <3>11, <3>12
    <3>14. \A d \in Devices' \ running' : num_token_out'[d] = SumFunctionOnSet(Tokens, Rows(d))'
      BY <3>11
    <3> QED
      BY <2>3, <3>1, <3>6, <3>7, <3>10, <3>13, <3>14 DEF ServeInv, Early, Late
  <2>7. CASE ~(idx < RequestsPerModel)
    <3>1. pc' = "write"
      BY <2>1, <2>7
    <3>2. RequestsPerModel = 0
      BY <2>2, <2>5, <2>7
    <3>3. Is120bPath
      BY <2>2, <2>5, <3>2, Layout
    <3>4. workload.count = 0
      BY <2>2, <3>2, <3>3, Layout
    <3>5. Requests = {}
      BY <3>4 DEF Requests
    <3>6. Requests' = {} /\ total' = SumFunctionOnSet(Tokens, Requests)'
      BY <2>1, <2>2, <2>4, <3>5, LayoutFixed
    <3> QED
      BY <2>3, <3>1, <3>6 DEF ServeInv, Early, Late
  <2> QED
    BY <2>6, <2>7
<1> QED
  BY <1>1, <1>2

(* A device answers its rows, which no device has answered before it.      *)
LEMMA GenerateServes ==
  ASSUME TypeInv, ServeInv, NEW d \in Devices, Generate(d)
  PROVE  TypeInv' /\ ServeInv'
<1>1. /\ pc = "generate" /\ d \in running
      /\ answered' = [q \in Requests |-> answered[q] + (IF q \in Rows(d) THEN 1 ELSE 0)]
      /\ num_token_out' = [num_token_out EXCEPT ![d] = SumFunction([q \in Rows(d) |-> TokensOf(q)])]
      /\ running' = running \ {d}
      /\ UNCHANGED <<workload, pc, idx, total>>
  BY DEF Generate
<1>2. /\ Accepted /\ ChunkInv /\ workload \in Workloads /\ idx \in Nat
      /\ idx + Round <= workload.count /\ running \in SUBSET Devices
      /\ answered \in [Requests -> {0, 1}] /\ num_token_out \in [Devices -> Int]
  BY <1>1 DEF ServeInv, TypeInv, ChunkInv
<1>3. /\ \A q \in Requests : answered[q] = IF q < idx \/ \E e \in Devices \ running : q \in Rows(e) THEN 1 ELSE 0
      /\ total = SumFunctionOnSet(Tokens, 0 .. idx - 1)
      /\ \A e \in Devices \ running : num_token_out[e] = SumFunctionOnSet(Tokens, Rows(e))
  BY <1>1 DEF ServeInv
<1>4. /\ SumFunction([q \in Rows(d) |-> TokensOf(q)]) = SumFunctionOnSet(Tokens, Rows(d))
      /\ SumFunctionOnSet(Tokens, Rows(d)) \in Int
  BY <1>2, RowSum
<1>5. /\ \A e \in Devices : e # d => Rows(e) \cap Rows(d) = {}
      /\ Rows(d) \subseteq idx .. idx + Round - 1
  BY <1>2, RowsDealt
<1>6. Devices \ running' = (Devices \ running) \cup {d}
  BY <1>1
<1>7. ASSUME NEW q \in Requests
      PROVE  /\ answered'[q] = IF q < idx \/ \E e \in Devices \ running' : q \in Rows(e) THEN 1 ELSE 0
             /\ answered'[q] \in {0, 1}
  <2>1. CASE q \in Rows(d)
    <3>1. ~(q < idx)
      BY <1>2, <1>5, <2>1
    <3>2. \A e \in Devices \ running : q \notin Rows(e)
      BY <1>1, <1>5, <2>1
    <3>3. answered[q] = 0
      BY <1>3, <3>1, <3>2
    <3>4. answered'[q] = 1
      BY <1>1, <2>1, <3>3
    <3> QED
      BY <1>6, <2>1, <3>4
  <2>2. CASE q \notin Rows(d)
    <3>1. answered[q] \in {0, 1}
      BY <1>2
    <3>2. answered'[q] = answered[q]
      BY <1>1, <2>2, <3>1
    <3> QED
      BY <1>3, <1>6, <2>2, <3>1, <3>2
  <2> QED
    BY <2>1, <2>2
<1>8. answered' \in [Requests -> {0, 1}]
  BY <1>1, <1>7
<1>9. num_token_out' \in [Devices -> Int]
  BY <1>1, <1>2, <1>4
<1>10. \A e \in Devices \ running' : num_token_out'[e] = SumFunctionOnSet(Tokens, Rows(e))
  <2>1. num_token_out'[d] = SumFunctionOnSet(Tokens, Rows(d))
    BY <1>1, <1>2, <1>4
  <2>2. \A e \in Devices : e # d => num_token_out'[e] = num_token_out[e]
    BY <1>1, <1>2
  <2> QED
    BY <1>3, <1>6, <2>1, <2>2
<1>11. TypeInv'
  BY <1>1, <1>2, <1>8, <1>9, LayoutFixed DEF TypeInv
<1>12. ChunkInv' /\ Accepted'
  BY <1>1, <1>2, LayoutFixed DEF ChunkInv
<1>13. /\ Devices' = Devices /\ Requests' = Requests /\ Tokens' = Tokens
       /\ pc' = "generate" /\ idx' = idx /\ total' = total /\ \A e : Rows(e)' = Rows(e)
  BY <1>1, LayoutFixed
<1>14. \A q \in Requests' :
         answered'[q] = IF q < idx' \/ \E e \in Devices' \ running' : q \in Rows(e)' THEN 1 ELSE 0
  BY <1>7, <1>13
<1>15. total' = SumFunctionOnSet(Tokens, 0 .. idx - 1)'
  BY <1>3, <1>13
<1>16. \A e \in Devices' \ running' : num_token_out'[e] = SumFunctionOnSet(Tokens, Rows(e))'
  BY <1>10, <1>13
<1> QED
  BY <1>11, <1>12, <1>13, <1>14, <1>15, <1>16 DEF ServeInv, Early, Late

(* The last thread of a round is joined: the next round of the 120B model  *)
(* fits in what is left, and when none is left all requests are answered.  *)
LEMMA JoinServes ==
  ASSUME TypeInv, ServeInv, Join
  PROVE  TypeInv' /\ ServeInv'
<1>1. /\ pc = "generate" /\ running = {}
      /\ total' = total + SumFunction(num_token_out)
      /\ idx' = idx + Chunk
      /\ IF Is120bPath /\ idx' < RequestsPerModel THEN running' = Devices /\ UNCHANGED pc
                                                  ELSE running' = {} /\ pc' = "write"
      /\ UNCHANGED <<workload, answered, num_token_out>>
  BY DEF Join, Goto
<1>2. /\ Accepted /\ ChunkInv /\ workload \in Workloads /\ idx \in Nat
      /\ idx + Round <= workload.count
      /\ answered \in [Requests -> {0, 1}] /\ num_token_out \in [Devices -> Int]
  BY <1>1 DEF ServeInv, TypeInv, ChunkInv
<1>3. /\ \A q \in Requests : answered[q] = IF q < idx \/ \E d \in Devices \ running : q \in Rows(d) THEN 1 ELSE 0
      /\ total = SumFunctionOnSet(Tokens, 0 .. idx - 1)
      /\ \A d \in Devices \ running : num_token_out[d] = SumFunctionOnSet(Tokens, Rows(d))
  BY <1>1 DEF ServeInv
<1>4. Devices \ running = Devices
  BY <1>1
<1>5. /\ Round \in Nat \ {0} /\ Chunk \in Nat \ {0} /\ workload.count \in Nat
      /\ RequestsPerModel \in Nat
  BY <1>2, Layout, WorkloadType
<1>6. /\ total' = SumFunctionOnSet(Tokens, 0 .. idx + Round - 1)
      /\ total' \in Int
  BY <1>1, <1>2, <1>3, <1>4, RoundSum
<1>7. \A q \in Requests : answered[q] = IF q < idx + Round THEN 1 ELSE 0
  <2>1. /\ \A d \in Devices : Rows(d) \subseteq idx .. idx + Round - 1
        /\ \A q \in idx .. idx + Round - 1 : \E d \in Devices : q \in Rows(d)
    BY <1>2, RowsDealt
  <2>2. ASSUME NEW q \in Requests
        PROVE  q < idx + Round <=> q < idx \/ \E d \in Devices : q \in Rows(d)
    <3>1. q \in Nat
      BY <1>5 DEF Requests
    <3>2. CASE q < idx
      BY <1>2, <1>5, <3>1, <3>2
    <3>3. CASE ~(q < idx)
      <4>1. q < idx + Round <=> q \in idx .. idx + Round - 1
        BY <1>2, <1>5, <3>1, <3>3
      <4> QED
        BY <2>1, <3>3, <4>1
    <3> QED
      BY <3>2, <3>3
  <2> QED
    BY <1>3, <1>4, <2>2
<1>8. TypeInv'
  <2>1. idx' \in Nat /\ total' \in Int
    BY <1>1, <1>2, <1>5, <1>6
  <2>2. pc' \in {"generate", "write"} /\ running' \in SUBSET Devices
    BY <1>1
  <2> QED
    BY <1>1, <1>2, <2>1, <2>2, LayoutFixed DEF TypeInv, Late
<1>9. CASE Is120bPath /\ idx' < RequestsPerModel
  <2>1. pc' = "generate" /\ running' = Devices
    BY <1>1, <1>9
  <2>2. Round = Chunk /\ RequestsPerModel = workload.count
    BY <1>2, <1>9, Layout
  <2>3. PICK n \in Nat : workload.count = n * Chunk
    BY <1>2, <1>9, Layout
  <2>4. PICK k \in 0 .. idx : idx = k * Chunk
    BY <1>2, <1>9 DEF ChunkInv
  <2>5. idx' = (k + 1) * Chunk
    BY <1>1, <1>5, <2>4
  <2>6. k + 1 < n
    <3>1. SUFFICES ASSUME n <= k + 1 PROVE FALSE
      BY <1>2, <2>4
    <3>2. n < k + 1 => n * Chunk + Chunk <= (k + 1) * Chunk
      BY <1>2, <1>5, <2>4, NextMultiple
    <3>3. n * Chunk <= (k + 1) * Chunk
      <4>1. CASE n = k + 1
        BY <1>5, <2>3, <4>1
      <4>2. CASE n < k + 1
        <5>1. n * Chunk \in Nat /\ (k + 1) * Chunk \in Nat
          BY <1>2, <1>5, <2>4, ProductNat
        <5> QED
          BY <1>5, <3>2, <4>2, <5>1
      <4> QED
        BY <1>2, <2>4, <3>1, <4>1, <4>2
    <3> QED
      BY <1>5, <1>9, <1>2, <2>2, <2>3, <2>5, <3>3
  <2>7. (k + 1) * Chunk + Chunk <= n * Chunk
    BY <1>2, <1>5, <2>4, <2>6, NextMultiple
  <2>8. idx' + Round <= workload.count
    BY <1>5, <2>2, <2>3, <2>5, <2>7
  <2>9. k + 1 \in 0 .. idx'
    BY <1>1, <1>2, <1>5, <2>4
  <2>10. ChunkInv'
    <3>1. Round' = Round /\ Chunk' = Chunk /\ Is120bPath'
      BY <1>1, <1>9, LayoutFixed
    <3>2. workload' = workload
      BY <1>1
    <3> QED
      BY <2>5, <2>8, <2>9, <3>1, <3>2 DEF ChunkInv
  <2>11. /\ Devices' = Devices /\ Requests' = Requests /\ Tokens' = Tokens /\ Accepted'
         /\ answered' = answered
    BY <1>1, <1>2, LayoutFixed
  <2>12. Devices' \ running' = {} /\ idx' = idx + Round
    BY <1>1, <2>1, <2>2, <2>11
  <2>13. \A q \in Requests' :
           answered'[q] = IF q < idx' \/ \E d \in Devices' \ running' : q \in Rows(d)' THEN 1 ELSE 0
    BY <1>7, <2>11, <2>12
  <2>14. total' = SumFunctionOnSet(Tokens, 0 .. idx - 1)'
    <3>1. idx' - 1 = idx + Round - 1
      BY <1>2, <1>5, <2>12
    <3> QED
      BY <1>6, <2>11, <3>1
  <2>15. \A d \in Devices' \ running' : num_token_out'[d] = SumFunctionOnSet(Tokens, Rows(d))'
    BY <2>12
  <2> QED
    BY <1>8, <2>1, <2>10, <2>11, <2>13, <2>14, <2>15 DEF ServeInv, Early, Late
<1>10. CASE ~(Is120bPath /\ idx' < RequestsPerModel)
  <2>1. pc' = "write"
    BY <1>1, <1>10
  <2>2. idx + Round = workload.count
    <3>1. CASE Is120bPath
      <4>1. Round = Chunk /\ RequestsPerModel = workload.count
        BY <1>2, <3>1, Layout
      <4>2. workload.count <= idx + Round
        BY <1>1, <1>2, <1>5, <1>10, <3>1, <4>1
      <4> QED
        BY <1>2, <1>5, <4>2
    <3>2. CASE ~Is120bPath
      BY <1>2, <1>5, <3>2, Layout DEF ChunkInv
    <3> QED
      BY <3>1, <3>2
  <2>3. 0 .. idx + Round - 1 = Requests
    <3>1. idx + Round - 1 = workload.count - 1
      BY <1>2, <1>5, <2>2
    <3> QED
      BY <3>1 DEF Requests
  <2>4. \A q \in Requests : q < idx + Round
    BY <1>5, <2>2 DEF Requests
  <2>5. /\ \A q \in Requests : answered[q] = 1
        /\ total' = SumFunctionOnSet(Tokens, Requests)
    BY <1>6, <1>7, <2>3, <2>4
  <2>6. /\ \A q \in Requests' : answered'[q] = 1
        /\ total' = SumFunctionOnSet(Tokens, Requests)'
    BY <1>1, <2>5, LayoutFixed
  <2> QED
    BY <1>8, <2>1, <2>6 DEF ServeInv, Early, Late
<1> QED
  BY <1>9, <1>10

(* A step that leaves alone all that the answers depend on. *)
LEMMA IdleStep ==
  ASSUME TypeInv, ServeInv,
         UNCHANGED <<workload, pc, running, idx, answered, num_token_out, total>>
  PROVE  TypeInv' /\ ServeInv'
<1>1. TypeInv'
  BY LayoutFixed DEF TypeInv
<1>2. ChunkInv' = ChunkInv
  BY LayoutFixed DEF ChunkInv
<1>3. /\ Devices' = Devices /\ Requests' = Requests /\ Tokens' = Tokens
      /\ Refused' = Refused /\ Accepted' = Accepted /\ \A d : Rows(d)' = Rows(d)
  BY LayoutFixed
<1>4. ServeInv'
  BY <1>2, <1>3 DEF ServeInv
<1> QED
  BY <1>1, <1>4

LEMMA ServeStep ==
  ASSUME TypeInv, ServeInv, [Next]_vars
  PROVE  TypeInv' /\ ServeInv'
<1>0. workload' = workload /\ Devices' = Devices
  BY WorkloadFixed, LayoutFixed
<1>1. CASE ReadInput
  <2>1. CASE Stop
    BY <2>1, StopStep
  <2>2. CASE ~Stop
    <3>1. /\ pc = "getp" /\ pc' = "warm_up"
          /\ UNCHANGED <<running, idx, answered, num_token_out, total>>
      BY <1>1, <2>2 DEF ReadInput, Goto, decoding
    <3>2. running' \in SUBSET Devices
      BY <3>1 DEF TypeInv
    <3> QED
      BY <1>0, <3>1, <3>2, EarlyStep DEF Early
  <2> QED
    BY <2>1, <2>2
<1>2. CASE WarmUp
  <2>1. CASE Stop
    BY <2>1, StopStep
  <2>2. CASE ~Stop
    <3>1. /\ pc = "warm_up" /\ pc' = "upload" /\ ~Refused /\ running' = Devices
          /\ UNCHANGED <<idx, answered, num_token_out, total>>
      BY <1>2, <2>2 DEF WarmUp, Goto, decoding
    <3> QED
      BY <1>0, <3>1, EarlyStep DEF Early
  <2> QED
    BY <2>1, <2>2
<1>3. CASE Allocate
  <2>1. /\ pc = "upload" /\ pc' = "inference"
        /\ UNCHANGED <<running, idx, answered, num_token_out, total>>
    BY <1>3 DEF Allocate, Goto, decoding
  <2>2. ~Refused /\ running' \in SUBSET Devices
    BY <2>1 DEF ServeInv, TypeInv
  <2> QED
    BY <1>0, <2>1, <2>2, EarlyStep DEF Early
<1>4. CASE Inference
  BY <1>4, InferenceServes
<1>5. CASE Join
  BY <1>5, JoinServes
<1>6. CASE WriteOutput \/ Finish
  <2>1. /\ pc \in Late /\ pc' \in Late
        /\ UNCHANGED <<running, idx, answered, num_token_out, total>>
    BY <1>6 DEF WriteOutput, Finish, Goto, Late, decoding
  <2> QED
    BY <1>0, <2>1, LateStep
<1>7. ASSUME NEW d \in Devices, Upload(d) PROVE TypeInv' /\ ServeInv'
  <2>1. /\ pc = "upload" /\ pc' = "upload" /\ running' = running \ {d}
        /\ UNCHANGED <<idx, answered, num_token_out, total>>
    BY <1>7 DEF Upload, decoding
  <2>2. ~Refused /\ running' \in SUBSET Devices
    BY <2>1 DEF ServeInv, TypeInv
  <2> QED
    BY <1>0, <2>1, <2>2, EarlyStep DEF Early
<1>8. ASSUME NEW d \in Devices, Generate(d) PROVE TypeInv' /\ ServeInv'
  BY <1>8, GenerateServes
<1>9. ASSUME NEW d \in Devices, Begin(d) PROVE TypeInv' /\ ServeInv'
  <2>1. CASE Stop
    BY <2>1, StopStep
  <2>2. CASE ~Stop
    <3>1. UNCHANGED <<workload, pc, running, idx, answered, num_token_out, total>>
      BY <1>9, <2>2 DEF Begin
    <3> QED
      BY <3>1, IdleStep
  <2> QED
    BY <2>1, <2>2
<1>10. CASE UNCHANGED vars
  BY <1>10, IdleStep DEF vars
<1> QED
  BY <1>1, <1>2, <1>3, <1>4, <1>5, <1>6, <1>7, <1>8, <1>9, <1>10 DEF Next, Main, Ended

-----------------------------------------------------------------------------
(* A device meets the others of its group at the barrier before it is      *)
(* done, and none of them ends its chunk before all threads are joined.    *)
LEMMA PublishStep ==
  ASSUME TypeInv, ServeInv, PublishInv, [Next]_vars
  PROVE  PublishInv'
<1>0. /\ workload' = workload /\ Devices' = Devices
      /\ EXPERT_PARALLELISM' = EXPERT_PARALLELISM /\ \A d : Group(d)' = Group(d)
  BY WorkloadFixed, LayoutFixed
<1>1. /\ begun \in SUBSET Devices /\ published \in [Devices -> Int]
      /\ running \in SUBSET Devices /\ idx \in Nat
  BY DEF PublishInv, TypeInv
<1>2. CASE pc' = "failed" /\ UNCHANGED <<begun, published>>
  BY <1>0, <1>1, <1>2 DEF PublishInv, Early
<1>3. CASE pc \in Early /\ pc' \in Early /\ UNCHANGED <<begun, published>>
  BY <1>0, <1>1, <1>3 DEF PublishInv, Early
<1>4. CASE pc' \in Late /\ begun' \in {{}, begun} /\ UNCHANGED published
  BY <1>0, <1>1, <1>4 DEF PublishInv, Early, Late
<1>5. CASE pc' = "generate" /\ begun' = {} /\ running' = Devices /\ UNCHANGED published
  BY <1>0, <1>1, <1>5 DEF PublishInv
<1>6. ASSUME NEW d \in Devices, Begin(d), ~Stop PROVE PublishInv'
  <2>1. /\ pc = "generate" /\ begun' = begun \cup {d}
        /\ published' = IF EXPERT_PARALLELISM > 2 THEN [published EXCEPT ![d] = idx] ELSE published
        /\ UNCHANGED <<pc, running, idx>>
    BY <1>6 DEF Begin
  <2>2. /\ \A e \in Devices \ running : Group(e) \subseteq begun
        /\ EXPERT_PARALLELISM > 2 => \A e \in begun : published[e] = idx
    BY <2>1 DEF PublishInv
  <2>3. published' \in [Devices -> Int]
    BY <1>1, <2>1
  <2>4. EXPERT_PARALLELISM > 2 => \A e \in begun' : published'[e] = idx
    BY <1>1, <2>1, <2>2
  <2> QED
    BY <1>0, <1>1, <2>1, <2>2, <2>3, <2>4 DEF PublishInv, Early
<1>7. ASSUME NEW d \in Devices, Generate(d) PROVE PublishInv'
  <2>1. /\ pc = "generate" /\ Group(d) \subseteq begun /\ running' = running \ {d}
        /\ UNCHANGED <<pc, begun, published, idx>>
    BY <1>7 DEF Generate
  <2>2. \A e \in Devices \ running' : Group(e) \subseteq begun
    BY <2>1 DEF PublishInv
  <2> QED
    BY <1>0, <1>1, <2>1, <2>2 DEF PublishInv, Early
<1>8. CASE UNCHANGED vars
  <2>1. UNCHANGED <<pc, running, begun, published, idx>>
    BY <1>8 DEF vars
  <2> QED
    BY <1>0, <2>1 DEF PublishInv
<1>9. CASE ReadInput \/ WarmUp \/ Allocate
  BY <1>2, <1>3, <1>9 DEF ReadInput, WarmUp, Allocate, Stop, Goto, decoding, Early
<1>10. CASE Inference
  <2>1. CASE Stop
    BY <1>2, <2>1 DEF Stop, Goto, decoding
  <2>2. CASE ~Stop
    <3>1. /\ pc = "inference" /\ UNCHANGED <<begun, published>>
          /\ \/ pc' = "generate" /\ running' = Devices
             \/ pc' = "write"
      BY <1>10, <2>2 DEF Inference, Goto, decoding
    <3>2. begun' = {}
      BY <3>1 DEF PublishInv, Early
    <3> QED
      BY <1>4, <1>5, <3>1, <3>2 DEF Late
  <2> QED
    BY <2>1, <2>2
<1>11. CASE Join
  BY <1>4, <1>5, <1>11 DEF Join, Goto, Late
<1>12. CASE WriteOutput \/ Finish
  BY <1>4, <1>12 DEF WriteOutput, Finish, Goto, decoding, Late
<1>13. ASSUME NEW d \in Devices, Upload(d) PROVE PublishInv'
  BY <1>3, <1>13 DEF Upload, decoding, Early
<1>14. ASSUME NEW d \in Devices, Begin(d), Stop PROVE PublishInv'
  BY <1>2, <1>14 DEF Stop, Goto, decoding
<1> QED
  BY <1>6, <1>7, <1>8, <1>9, <1>10, <1>11, <1>12, <1>13, <1>14 DEF Next, Main, Ended

-----------------------------------------------------------------------------
(* Every extension that ext_alloc_device makes has its pointer tested in   *)
(* ext_free_all, nothing else of a device goes with them, and no two of    *)
(* the parts that come and go differently have a field in common.          *)
LEMMA BlockNames ==
  /\ ExtBlocks \subseteq ExtFreed
  /\ (TransformerBlocks \cup DeviceBlocks \cup ThreadBlocks)
       \cap (ExtBlocks \cup {"DeviceTransformer", "comm"}) = {}
  /\ {"pinned_tokens", "g_eplb_stage"}
       \cap (TransformerBlocks \cup DeviceBlocks \cup ThreadBlocks \cup ExtBlocks) = {}
  /\ EXPERT_PARALLELISM > 2 => PeerBlocks \subseteq FirstBlocks
<1>1. ExtBlocks \subseteq ExtFreed
  BY DEF ExtBlocks, GroupBlocks, ExtFreed
<1>2. (TransformerBlocks \cup DeviceBlocks \cup ThreadBlocks)
        \cap (ExtFreed \cup {"DeviceTransformer", "comm"}) = {}
  BY DEF ExtFreed, TransformerBlocks, WeightBlocks, RunStateBlocks, StreamBlocks,
         DeviceBlocks, ThreadBlocks, FirstBlocks, LastBlocks, RowListBlocks, PeerBlocks
<1>3. {"pinned_tokens", "g_eplb_stage"}
        \cap (TransformerBlocks \cup DeviceBlocks \cup ThreadBlocks \cup ExtFreed) = {}
  BY DEF ExtFreed, TransformerBlocks, WeightBlocks, RunStateBlocks, StreamBlocks,
         DeviceBlocks, ThreadBlocks, FirstBlocks, LastBlocks, RowListBlocks, PeerBlocks
<1>4. EXPERT_PARALLELISM > 2 => PeerBlocks \subseteq FirstBlocks
  BY DEF FirstBlocks, RowListBlocks
<1> QED
  BY <1>1, <1>2, <1>3, <1>4

LEMMA BlocksFixed ==
  ASSUME workload' = workload
  PROVE  /\ Created' = Created /\ Base' = Base /\ SyncPoints' = SyncPoints
         /\ Devices' = Devices /\ (\A ds : Uploaded(ds)' = Uploaded(ds)) /\ Read' = Read
         /\ DeviceBlocks' = DeviceBlocks /\ FirstBlocks' = FirstBlocks /\ LastBlocks' = LastBlocks
         /\ ThreadBlocks' = ThreadBlocks /\ Staging(Devices)' = Staging(Devices)
<1>1. Devices' = Devices /\ EXPERT_PARALLELISM' = EXPERT_PARALLELISM /\ Is120bPath' = Is120bPath
  BY LayoutFixed
<1>2. ExtBlocks' = ExtBlocks
  BY <1>1 DEF ExtBlocks, GroupBlocks
<1>3. Read' = Read /\ (\A ds : Uploaded(ds)' = Uploaded(ds)) /\ Staging(Devices)' = Staging(Devices)
  BY <1>1 DEF Read, Uploaded, Staging, On, TransformerBlocks, WeightBlocks, RunStateBlocks, StreamBlocks
<1>4. Created' = Created /\ Extended' = Extended
  BY <1>1, <1>2, <1>3 DEF Created, Extended, On
<1>5. Base' = Base
  BY <1>1, <1>3, <1>4 DEF Base, Uploaded, On, TransformerBlocks, WeightBlocks, RunStateBlocks, StreamBlocks
<1>6. SyncPoints' = SyncPoints
  BY <1>1 DEF SyncPoints, NParallel
<1>7. DeviceBlocks' = DeviceBlocks /\ FirstBlocks' = FirstBlocks /\ LastBlocks' = LastBlocks
  BY <1>1 DEF DeviceBlocks, FirstBlocks, LastBlocks, RowListBlocks, PeerBlocks
<1>8. ThreadBlocks' = ThreadBlocks
  BY <1>7 DEF ThreadBlocks
<1> QED
  BY <1>1, <1>3, <1>4, <1>5, <1>6, <1>7, <1>8

(* What stays to the end of a chunk is neither the tokens of a thread nor  *)
(* the staging of a move.                                                  *)
LEMMA Lasting ==
  ASSUME NEW b \in Base \cup SyncPoints \cup Earlier \cup Current
  PROVE  b[2] \notin {"pinned_tokens", "g_eplb_stage"}
<1>1. {"pinned_tokens", "g_eplb_stage"}
        \cap (TransformerBlocks \cup DeviceBlocks \cup ThreadBlocks \cup ExtBlocks) = {}
  BY BlockNames
<1>2. ThreadBlocks = FirstBlocks \cup LastBlocks
  BY DEF ThreadBlocks
<1>3. CASE b \in Base
  BY <1>1, <1>3 DEF Base, Created, Read, Uploaded, Extended, On
<1>4. CASE b \in SyncPoints
  BY <1>4 DEF SyncPoints
<1>5. CASE b \in Earlier
  BY <1>1, <1>5 DEF Earlier, On
<1>6. CASE b \in Current
  BY <1>1, <1>2, <1>6 DEF Current, On, OfThread
<1> QED
  BY <1>3, <1>4, <1>5, <1>6

(* The chunks are joined one Chunk of requests apart.                      *)
LEMMA DecodedNext ==
  ASSUME workload \in Workloads, Accepted, ChunkInv, idx \in Nat, idx' = idx + Chunk,
         workload' = workload
  PROVE  Decoded' = Decoded \cup {idx}
<1>1. Chunk \in Nat \ {0} /\ Chunk' = Chunk
  BY Batch, Ranks, ProductNat, LayoutFixed DEF Chunk
<1>2. PICK k \in Nat : idx = k * Chunk
  <2>1. idx = 0 => idx = 0 * Chunk
    BY <1>1
  <2> QED
    BY <2>1 DEF ChunkInv
<1>3. idx % Chunk = 0
  <2> DEFINE c == Chunk
  <2>1. c \in Nat \ {0} /\ 0 \in 0 .. c - 1
    BY <1>1
  <2>2. (k * c + 0) % c = 0
    BY <2>1, DivisionUnique
  <2>3. k * c + 0 = k * c
    BY <2>1, ProductNat
  <2> QED
    BY <1>2, <2>2, <2>3
<1>4. ASSUME NEW n \in Nat, idx < n, n < idx + Chunk PROVE n % Chunk # 0
  BY <1>1, <1>3, <1>4, NearRemainders
<1>5. Decoded' = {n \in 0 .. (idx + Chunk) - 1 : n % Chunk = 0}
  BY <1>1 DEF Decoded
<1>6. ASSUME NEW n \in 0 .. (idx + Chunk) - 1, n % Chunk = 0 PROVE n \in Decoded \cup {idx}
  <2>1. n \in Nat /\ n < idx + Chunk
    BY <1>1
  <2>2. ~(idx < n)
    BY <1>4, <1>6, <2>1
  <2>3. n = idx \/ n \in 0 .. idx - 1
    BY <2>1, <2>2
  <2> QED
    BY <1>6, <2>3 DEF Decoded
<1>7. ASSUME NEW n \in Decoded \cup {idx} PROVE n \in 0 .. (idx + Chunk) - 1 /\ n % Chunk = 0
  <2>1. n \in 0 .. idx /\ n % Chunk = 0
    BY <1>3, <1>7 DEF Decoded
  <2> HIDE DEF Decoded
  <2> QED
    BY <1>1, <2>1
<1> QED
  BY <1>5, <1>6, <1>7

(* What finish gives back was there, and the rest is Left.                 *)
LEMMA FinishFrees ==
  ASSUME workload \in Workloads
  PROVE  LET all == Base \cup SyncPoints \cup Earlier
             freed == On(Devices, {"DeviceTransformer", "comm"})
                        \union On(Devices, ExtFreed \intersect ExtBlocks)
                        \union On({Host}, {"g_ext", "dev_transformers"})
         IN  freed \subseteq all /\ all \ freed = Left
<1>1. Host \notin Devices
  BY WorkloadType DEF Host, Devices
<1>2. ExtFreed \cap ExtBlocks = ExtBlocks
  BY BlockNames
<1> DEFINE host == {"str_reqs", "tok_gens", "dev_transformers", "workers", "g_ext"}
           gone == {"DeviceTransformer", "comm"} \cup ExtBlocks
           device == TransformerBlocks \cup gone
           freed == On(Devices, {"DeviceTransformer", "comm"})
                      \union On(Devices, ExtFreed \intersect ExtBlocks)
                      \union On({Host}, {"g_ext", "dev_transformers"})
           left == On({Host}, {"str_reqs", "tok_gens", "workers"}) \cup On(Devices, TransformerBlocks)
<1>3. Base = On({Host}, host) \cup On(Devices, device)
  BY DEF Base, Created, Uploaded, Extended, Read, On
<1>4. freed = On({Host}, {"g_ext", "dev_transformers"}) \cup On(Devices, gone)
  BY <1>2 DEF On
<1>5. On({Host}, host) \ On({Host}, {"g_ext", "dev_transformers"})
        = On({Host}, {"str_reqs", "tok_gens", "workers"})
  BY DEF On
<1>6. On(Devices, device) \ On(Devices, gone) = On(Devices, TransformerBlocks)
  <2>1. device \ gone = TransformerBlocks
    BY BlockNames
  <2> HIDE DEF device, gone
  <2> QED
    BY <2>1 DEF On
<1>7. \A A, B : On({Host}, A) \cap On(Devices, B) = {}
  BY <1>1 DEF On
<1>8. freed \subseteq Base
  BY <1>3, <1>4 DEF On
<1>9. SyncPoints \cap freed = {}
  <2>1. \A b \in SyncPoints : b[1] = Host /\ b[2] = "sync_point"
    BY DEF SyncPoints
  <2>2. \A b \in freed : b[1] \in Devices \/ b[2] \in {"g_ext", "dev_transformers"}
    BY <1>4 DEF On
  <2> QED
    BY <1>1, <2>1, <2>2
<1>10. Earlier \cap freed = {}
  <2>1. \A b \in Earlier : b[1] \in Devices /\ b[2] \in DeviceBlocks \cup ThreadBlocks
    BY DEF Earlier, On
  <2>2. \A b \in freed : b[1] = Host \/ b[2] \in gone
    BY <1>4 DEF On
  <2>3. (DeviceBlocks \cup ThreadBlocks) \cap gone = {}
    BY BlockNames
  <2> HIDE DEF freed, gone
  <2> QED
    BY <1>1, <2>1, <2>2, <2>3
<1>11. Left = left \cup SyncPoints \cup Earlier
  BY DEF Left, Earlier, On
<1>12. (Base \cup SyncPoints \cup Earlier) \ freed = Left
  <2>1. Base \ freed = left
    <3> HIDE DEF freed, left, host, device, gone
    <3> QED
      BY <1>3, <1>4, <1>5, <1>6, <1>7 DEF left
  <2> HIDE DEF freed, left
  <2> QED
    BY <1>9, <1>10, <1>11, <2>1
<1> QED
  BY <1>8, <1>12

(* No chunk has been decoded, and no thread has begun.                     *)
LEMMA InferenceHolds ==
  ASSUME TypeInv, ServeInv, PublishInv, HeapInv, Inference, ~Stop
  PROVE  HeapInv'
<1>1. /\ pc = "inference" /\ workload' = workload /\ UNCHANGED <<stray, idx, begun>>
      /\ heap' = heap \cup SyncPoints
      /\ (pc' = "generate" /\ running' = Devices) \/ pc' = "write"
  BY DEF Inference, Goto, decoding
<1>2. idx = 0 /\ begun = {} /\ heap = Base /\ ~stray
  BY <1>1 DEF ServeInv, PublishInv, HeapInv, Early
<1>3. /\ Base' = Base /\ SyncPoints' = SyncPoints /\ Devices' = Devices
      /\ Staging(Devices)' = Staging(Devices)
  BY <1>1, BlocksFixed
<1>4. (Base \cup SyncPoints) \ Staging(Devices) = Base \cup SyncPoints
  <2>1. \A b \in Staging(Devices) : b[2] = "g_eplb_stage"
    BY DEF Staging, On
  <2> QED
    BY <2>1, Lasting
<1>5. Decoded' = {}
  BY <1>1, <1>2 DEF Decoded
<1>6. Earlier' = {}
  BY <1>1, <1>2, <1>5 DEF Earlier
<1>7. pc' = "generate" => Current' = {} /\ InUse' = {}
  BY <1>1, <1>2, <1>3 DEF Current, InUse, On, OfThread
<1> QED
  BY <1>1, <1>2, <1>3, <1>4, <1>6, <1>7 DEF HeapInv

LEMMA BeginHolds ==
  ASSUME HeapInv, NEW d \in Devices, Begin(d), ~Stop
  PROVE  HeapInv'
<1> DEFINE kept == On({d}, DeviceBlocks) \cup OfThread({d}, FirstBlocks)
           tokens == On({d}, {"pinned_tokens"})
<1>1. /\ pc = "generate" /\ pc' = "generate" /\ d \in running
      /\ workload' = workload /\ UNCHANGED <<stray, running, idx>>
      /\ begun' = begun \cup {d}
  BY DEF Begin
<1>2. heap' = heap \cup kept \cup tokens
  BY DEF Begin, On
<1>3. ~stray /\ heap \ Staging(Devices) = Base \cup SyncPoints \cup Earlier \cup Current \cup InUse
  BY <1>1 DEF HeapInv
<1>4. /\ Base' = Base /\ SyncPoints' = SyncPoints /\ Devices' = Devices
      /\ DeviceBlocks' = DeviceBlocks /\ FirstBlocks' = FirstBlocks /\ LastBlocks' = LastBlocks
      /\ ThreadBlocks' = ThreadBlocks /\ Staging(Devices)' = Staging(Devices)
  BY <1>1, BlocksFixed
<1>5. Decoded' = Decoded
  BY <1>1, LayoutFixed DEF Decoded
<1>6. Earlier' = Earlier
  BY <1>1, <1>4, <1>5 DEF Earlier, On
<1>7. Current' = Current \cup kept
  BY <1>1, <1>4 DEF Current, On, OfThread
<1>8. InUse' = InUse \cup tokens
  BY <1>1 DEF InUse, On
<1>9. (kept \cup tokens) \cap Staging(Devices) = {}
  <2>1. "g_eplb_stage" \notin DeviceBlocks \cup FirstBlocks
    BY BlockNames DEF ThreadBlocks
  <2>2. \A b \in kept \cup tokens : b[2] # "g_eplb_stage"
    BY <2>1 DEF On, OfThread
  <2>3. \A b \in Staging(Devices) : b[2] = "g_eplb_stage"
    BY DEF Staging, On
  <2> QED
    BY <2>2, <2>3
<1>10. heap' \ Staging(Devices) = (heap \ Staging(Devices)) \cup kept \cup tokens
  <2> HIDE DEF kept, tokens
  <2> QED
    BY <1>2, <1>9
<1>11. heap' \ Staging(Devices)' = (Base \cup SyncPoints \cup Earlier \cup Current \cup InUse)'
  <2> HIDE DEF kept, tokens
  <2> QED
    BY <1>3, <1>4, <1>6, <1>7, <1>8, <1>10
<1> QED
  BY <1>1, <1>3, <1>11 DEF HeapInv

LEMMA GenerateHolds ==
  ASSUME PublishInv, HeapInv, NEW d \in Devices, Generate(d)
  PROVE  HeapInv'
<1> DEFINE kept == OfThread({d}, LastBlocks)
           tokens == On({d}, {"pinned_tokens"})
<1>1. /\ pc = "generate" /\ pc' = "generate" /\ d \in running /\ Group(d) \subseteq begun
      /\ workload' = workload /\ UNCHANGED <<begun, idx>>
      /\ running' = running \ {d}
      /\ stray' = (stray \/ ~(tokens \subseteq heap))
  BY DEF Generate
<1>2. PICK staging \in StagingAfter(d) :
        heap' = (heap \ (Staging({d}) \cup tokens)) \cup staging \cup kept
  BY DEF Generate
<1>3. staging \subseteq Staging(Devices) /\ Staging({d}) \subseteq Staging(Devices)
  BY DEF StagingAfter, Staging, On
<1>4. ~stray /\ heap \ Staging(Devices) = Base \cup SyncPoints \cup Earlier \cup Current \cup InUse
  BY <1>1 DEF HeapInv
<1>5. /\ Base' = Base /\ SyncPoints' = SyncPoints /\ Devices' = Devices
      /\ DeviceBlocks' = DeviceBlocks /\ FirstBlocks' = FirstBlocks /\ LastBlocks' = LastBlocks
      /\ ThreadBlocks' = ThreadBlocks /\ Staging(Devices)' = Staging(Devices)
  BY <1>1, BlocksFixed
<1>6. Decoded' = Decoded
  BY <1>1, LayoutFixed DEF Decoded
<1>7. Earlier' = Earlier
  BY <1>1, <1>5, <1>6 DEF Earlier, On
<1>8. Current' = Current \cup kept
  BY <1>1, <1>5 DEF Current, On, OfThread
<1>9. InUse' = InUse \ tokens
  BY <1>1 DEF InUse, On
<1>10. d \in begun
  BY <1>1 DEF Group
<1>11. tokens \subseteq InUse
  BY <1>1, <1>10 DEF InUse, On
<1>12. ~stray'
  <2> HIDE DEF tokens
  <2> QED
    BY <1>1, <1>4, <1>11
<1>13. (Base \cup SyncPoints \cup Earlier \cup Current) \cap tokens = {}
  <2>1. \A b \in tokens : b[2] = "pinned_tokens"
    BY DEF On
  <2> HIDE DEF tokens
  <2> QED
    BY <2>1, Lasting
<1>14. kept \cap Staging(Devices) = {} /\ kept \cap tokens = {}
  <2>1. {"pinned_tokens", "g_eplb_stage"} \cap LastBlocks = {}
    BY BlockNames DEF ThreadBlocks
  <2>2. \A b \in kept : b[2] \notin {"pinned_tokens", "g_eplb_stage"}
    BY <2>1 DEF OfThread
  <2>3. \A b \in Staging(Devices) \cup tokens : b[2] \in {"pinned_tokens", "g_eplb_stage"}
    BY DEF Staging, On
  <2> HIDE DEF kept, tokens
  <2> QED
    BY <2>2, <2>3
<1>15. heap' \ Staging(Devices) = ((heap \ Staging(Devices)) \ tokens) \cup kept
  <2> HIDE DEF kept, tokens
  <2> QED
    BY <1>2, <1>3, <1>14
<1>16. heap' \ Staging(Devices)' = (Base \cup SyncPoints \cup Earlier \cup Current \cup InUse)'
  <2> HIDE DEF kept, tokens
  <2> QED
    BY <1>4, <1>5, <1>7, <1>8, <1>9, <1>13, <1>15
<1> QED
  BY <1>1, <1>12, <1>16 DEF HeapInv

LEMMA JoinHolds ==
  ASSUME TypeInv, ServeInv, PublishInv, HeapInv, Join
  PROVE  HeapInv'
<1>1. /\ pc = "generate" /\ running = {} /\ workload' = workload /\ UNCHANGED <<heap, stray>>
      /\ idx' = idx + Chunk /\ begun' = {}
      /\ (pc' = "generate" /\ running' = Devices) \/ pc' = "write"
  BY DEF Join, Goto
<1>2. workload \in Workloads /\ Accepted /\ ChunkInv /\ idx \in Nat
  BY <1>1 DEF TypeInv, ServeInv
<1>3. ~stray /\ heap \ Staging(Devices) = Base \cup SyncPoints \cup Earlier \cup Current \cup InUse
  BY <1>1 DEF HeapInv
<1>4. begun = Devices
  <2>1. ASSUME NEW d \in Devices PROVE d \in begun
    <3>1. Group(d) \subseteq begun
      BY <1>1 DEF PublishInv
    <3> QED
      BY <3>1 DEF Group
  <2> QED
    BY <2>1 DEF PublishInv
<1>5. /\ Base' = Base /\ SyncPoints' = SyncPoints /\ Devices' = Devices
      /\ DeviceBlocks' = DeviceBlocks /\ ThreadBlocks' = ThreadBlocks
      /\ Staging(Devices)' = Staging(Devices)
  BY <1>1, BlocksFixed
<1>6. idx' # 0
  <2>1. Chunk \in Nat \ {0}
    BY <1>2, Batch, Ranks, ProductNat DEF Chunk
  <2> QED
    BY <1>1, <1>2, <2>1
<1>7. Decoded' = Decoded \cup {idx}
  BY <1>1, <1>2, DecodedNext
<1>8. Earlier' = On(Devices, DeviceBlocks) \cup Devices \X ThreadBlocks \X (Decoded \cup {idx})
  BY <1>5, <1>6, <1>7 DEF Earlier, On
<1>9. Current = On(Devices, DeviceBlocks) \cup Devices \X ThreadBlocks \X {idx} /\ InUse = {}
  BY <1>1, <1>4 DEF Current, InUse, OfThread, On, ThreadBlocks
<1>10. Earlier' = Earlier \cup Current
  BY <1>8, <1>9 DEF Earlier
<1>11. pc' = "generate" => Current' = {} /\ InUse' = {}
  BY <1>1, <1>5 DEF Current, InUse, On, OfThread
<1> QED
  BY <1>1, <1>3, <1>5, <1>9, <1>10, <1>11 DEF HeapInv

LEMMA FinishHolds ==
  ASSUME TypeInv, HeapInv, Finish
  PROVE  HeapInv'
<1> DEFINE freed == On(Devices, {"DeviceTransformer", "comm"})
                      \union On(Devices, ExtFreed \intersect ExtBlocks)
                      \union On({Host}, {"g_ext", "dev_transformers"})
           all == Base \cup SyncPoints \cup Earlier
<1>1. /\ pc = "finish" /\ pc' = "done" /\ workload' = workload /\ idx' = idx
      /\ heap' = heap \ freed /\ stray' = (stray \/ ~(freed \subseteq heap))
  BY DEF Finish, Goto, decoding
<1>2. ~stray /\ heap \ Staging(Devices) = all
  BY <1>1 DEF HeapInv
<1>3. freed \subseteq all /\ all \ freed = Left
  BY FinishFrees DEF TypeInv
<1>4. Left' = Left
  <2>1. /\ Devices' = Devices /\ SyncPoints' = SyncPoints
        /\ DeviceBlocks' = DeviceBlocks /\ ThreadBlocks' = ThreadBlocks
    BY <1>1, BlocksFixed
  <2>2. Decoded' = Decoded
    BY <1>1, LayoutFixed DEF Decoded
  <2> QED
    BY <1>1, <2>1, <2>2 DEF Left, On, TransformerBlocks, WeightBlocks, RunStateBlocks, StreamBlocks
<1>5. Staging(Devices)' = Staging(Devices)
  BY <1>1, BlocksFixed
<1> HIDE DEF freed, all
<1>6. ~stray' /\ heap' \ Staging(Devices)' = Left'
  BY <1>1, <1>2, <1>3, <1>4, <1>5
<1> QED
  BY <1>1, <1>6 DEF HeapInv

LEMMA HeapStep ==
  ASSUME TypeInv, ServeInv, PublishInv, HeapInv, [Next]_vars
  PROVE  HeapInv'
<1>0. /\ workload' = workload /\ Created' = Created /\ Base' = Base
      /\ Devices' = Devices /\ (\A ds : Uploaded(ds)' = Uploaded(ds)) /\ Read' = Read
  BY WorkloadFixed, BlocksFixed
<1>1. CASE Stop
  <2>1. pc' = "failed" /\ UNCHANGED <<heap, stray>>
    BY <1>1 DEF Stop, Goto
  <2> QED
    BY <2>1 DEF HeapInv
<1>2. CASE ReadInput /\ ~Stop
  <2>1. pc = "getp" /\ pc' = "warm_up" /\ heap' = heap \cup Read /\ stray' = stray
    BY <1>2 DEF ReadInput, Goto, Read
  <2> QED
    BY <1>0, <2>1 DEF HeapInv
<1>3. CASE WarmUp /\ ~Stop
  <2>1. /\ pc = "warm_up" /\ pc' = "upload" /\ stray' = stray /\ running' = Devices
        /\ heap' = heap \union On({Host}, {"dev_transformers", "workers"})
                        \union On(Devices, {"DeviceTransformer"})
    BY <1>3 DEF WarmUp, Goto
  <2>2. heap' = Created
    BY <2>1 DEF HeapInv, Created
  <2>3. Uploaded(Devices \ Devices) = {}
    BY DEF Uploaded, On
  <2> QED
    BY <1>0, <2>1, <2>2, <2>3 DEF HeapInv
<1>4. CASE Allocate
  <2>1. /\ pc = "upload" /\ running = {} /\ pc' = "inference" /\ stray' = stray
        /\ heap' = heap \cup Extended
    BY <1>4 DEF Allocate, Goto, Extended
  <2>2. Devices \ running = Devices
    BY <2>1
  <2> QED
    BY <1>0, <2>1, <2>2 DEF HeapInv, Base
<1>5. CASE Inference /\ ~Stop
  BY <1>5, InferenceHolds
<1>6. CASE Join
  BY <1>6, JoinHolds
<1>7. CASE Finish
  BY <1>7, FinishHolds
<1>8. ASSUME NEW d \in Devices, Upload(d) PROVE HeapInv'
  <2>1. /\ pc = "upload" /\ pc' = "upload" /\ stray' = stray /\ d \in running
        /\ running' = running \ {d} /\ heap' = heap \cup On({d}, TransformerBlocks)
    BY <1>8 DEF Upload
  <2>2. Devices \ running' = (Devices \ running) \cup {d}
    BY <2>1
  <2>3. Uploaded(Devices \ running') = Uploaded(Devices \ running) \cup On({d}, TransformerBlocks)
    BY <2>2 DEF Uploaded, On
  <2> QED
    BY <1>0, <2>1, <2>3 DEF HeapInv
<1>9. ASSUME NEW d \in Devices, Begin(d), ~Stop PROVE HeapInv'
  BY <1>9, BeginHolds
<1>10. ASSUME NEW d \in Devices, Generate(d) PROVE HeapInv'
  BY <1>10, GenerateHolds
<1>11. CASE UNCHANGED vars \/ WriteOutput
  <2>1. /\ UNCHANGED <<workload, heap, stray, running, begun, idx>>
        /\ pc' = pc \/ (pc = "write" /\ pc' = "finish")
    BY <1>11 DEF vars, WriteOutput, Goto, decoding
  <2>2. /\ SyncPoints' = SyncPoints /\ Staging(Devices)' = Staging(Devices)
        /\ DeviceBlocks' = DeviceBlocks /\ FirstBlocks' = FirstBlocks /\ LastBlocks' = LastBlocks
        /\ ThreadBlocks' = ThreadBlocks
    BY <1>0, BlocksFixed
  <2>3. Decoded' = Decoded
    BY <1>0, <2>1, LayoutFixed DEF Decoded
  <2>4. Earlier' = Earlier /\ Current' = Current /\ InUse' = InUse
    BY <1>0, <2>1, <2>2, <2>3 DEF Earlier, Current, InUse, On, OfThread
  <2>5. Left' = Left
    BY <1>0, <2>1, <2>2, <2>3
       DEF Left, On, TransformerBlocks, WeightBlocks, RunStateBlocks, StreamBlocks
  <2> QED
    BY <1>0, <2>1, <2>2, <2>4, <2>5 DEF HeapInv
<1> QED
  BY <1>1, <1>2, <1>3, <1>4, <1>5, <1>6, <1>7, <1>8, <1>9, <1>10, <1>11 DEF Next, Main, Ended

-----------------------------------------------------------------------------
THEOREM Invariant == Spec => []IInv
<1>1. Init => IInv
  BY InitInv
<1>2. IInv /\ [Next]_vars => IInv'
  BY ServeStep, PublishStep, HeapStep DEF IInv
<1> QED
  BY <1>1, <1>2, PTL DEF Spec

(* ServedOnce: when the answers are written every request was answered by  *)
(* one row, and the tokens counted are those of all requests, once each    *)
(* (run.cpp:330-360 and 516-544), for any number of devices and requests.  *)
THEOREM Served == Spec => []ServedOnce
<1>1. ASSUME IInv PROVE ServedOnce
  <2>1. \A q \in Requests : answered[q] <= 1
    <3>1. answered \in [Requests -> {0, 1}]
      BY <1>1 DEF IInv, TypeInv
    <3> QED
      BY <3>1
  <2>2. ASSUME pc \in Late
        PROVE  /\ \A q \in Requests : answered[q] = 1
               /\ total = SumFunction([q \in Requests |-> TokensOf(q)])
    <3>1. (\A q \in Requests : answered[q] = 1) /\ total = SumFunctionOnSet(Tokens, Requests)
      BY <1>1, <2>2 DEF IInv, ServeInv
    <3>2. DOMAIN Tokens = Requests
      BY DEF Tokens
    <3>3. SumFunction(Tokens) = SumFunctionOnSet(Tokens, Requests)
      BY <3>2, SumFunctionIs
    <3> QED
      BY <3>1, <3>3 DEF Tokens
  <2> QED
    BY <2>1, <2>2 DEF ServedOnce, Late
<1> QED
  BY <1>1, Invariant, PTL

(* ExpertsCovered: each replica holds every expert on one device, except   *)
(* the last n_experts % EXPERT_PARALLELISM (run.cpp:115-123), for any      *)
(* number of devices and experts.                                          *)
THEOREM Experts == Spec => []ExpertsCovered
<1>1. ASSUME IInv PROVE ExpertsCovered
  <2>1. workload \in Workloads
    BY <1>1 DEF IInv, TypeInv
  <2> QED
    BY <2>1, Covered DEF ExpertsCovered
<1> QED
  BY <1>1, Invariant, PTL

(* MemoryHeld: while a rank decodes every device has all of its blocks,    *)
(* and a rank that is done went to its peers by the pointers of their      *)
(* current threads (forward.hip:7415-7440); nothing is freed that is not   *)
(* allocated; and a finished run leaves what the commented-out cleanup     *)
(* would free (run.cpp:152-168), the barriers of the replicas, and what    *)
(* getp_forward_120b allocated on its first call in every thread of every  *)
(* chunk, for any number of devices, requests and chunks.                  *)
THEOREM Memory == Spec => []MemoryHeld
<1>1. ASSUME IInv PROVE MemoryHeld
  <2>1. HeapInv /\ PublishInv
    BY <1>1 DEF IInv
  <2>2. ~stray
    BY <2>1 DEF HeapInv
  <2>3. ASSUME pc = "generate"
        PROVE  /\ On(Devices, TransformerBlocks \union ExtBlocks) \subseteq heap
               /\ OfThread(begun, FirstBlocks) \subseteq heap
    <3>1. Base \subseteq heap /\ Current \subseteq heap
      BY <2>1, <2>3 DEF HeapInv
    <3>2. On(Devices, TransformerBlocks \union ExtBlocks) \subseteq Base
      BY DEF Base, Uploaded, Extended, On
    <3>3. OfThread(begun, FirstBlocks) \subseteq Current
      BY DEF Current
    <3> QED
      BY <3>1, <3>2, <3>3
  <2>4. ASSUME pc = "generate", EXPERT_PARALLELISM > 2, NEW d \in Devices \ running, NEW q \in Group(d)
        PROVE  /\ published[q] = idx
               /\ {q} \X PeerBlocks \X {published[q]} \subseteq heap
    <3>1. q \in begun /\ published[q] = idx
      BY <2>1, <2>4 DEF PublishInv
    <3>2. {q} \X PeerBlocks \X {idx} \subseteq OfThread(begun, FirstBlocks)
      BY <2>4, <3>1, BlockNames DEF OfThread
    <3> QED
      BY <2>3, <2>4, <3>1, <3>2
  <2>5. pc = "done" => heap \ Staging(Devices) = Left
    BY <2>1 DEF HeapInv
  <2> QED
    BY <2>2, <2>3, <2>4, <2>5 DEF MemoryHeld
<1> QED
  BY <1>1, Invariant, PTL
=============================================================================
