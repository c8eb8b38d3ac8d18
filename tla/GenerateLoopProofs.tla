------------------------- MODULE GenerateLoopProofs -------------------------
(***************************************************************************)
(* Proofs about the batched decoding loop, for any number of threads,      *)
(* rows, chunks and waits inside a forward pass, any prompts and length    *)
(* budgets, and any tokens.                                                *)
(*                                                                         *)
(* First the control: the host threads leave the loop together, and        *)
(* thread_states stands still while any of them reads it.  Neither follows *)
(* from itself, as both depend on how far apart the threads can be.  IInv  *)
(* says how many waits a thread has passed at each point of its step, and  *)
(* what is known of thread_states to those who have scanned it.            *)
(*                                                                         *)
(* Then what the loop writes: the outputs are well formed, the token count *)
(* is right, and every request decodes as if it were alone (module         *)
(* Decode).  The invariant relates the slot of a row's request to its epos *)
(* and mask.  That no write of another row falls into the slot rests on    *)
(* the geometry of the arena, and on the first part for when a thread      *)
(* finishes.                                                               *)
(***************************************************************************)
EXTENDS GenerateLoop, NumberLemmas, Sequences

(* The waits of a step, and of the first n steps. *)
Cycle == ForwardWaits + 1
Waits(n) == n * Cycle

Between == {"encode", "loop", "scan", "finish", "done"}

ControlOK ==
  /\ steps \in Nat
  /\ pc \in [Threads -> Between \cup {"forward", "sync"}]
  /\ forwardLeft \in [Threads -> 0 .. ForwardWaits]
  /\ scanned \in [Threads -> 0 .. EP]
  /\ threadStates \in [Threads -> {0, 1}]
  /\ pos \in [Threads -> Nat]
  /\ passed \in [Threads -> Nat]
  /\ inside \in SUBSET Threads

(* Where a thread stands tells how many waits it has passed, and whether   *)
(* it may be in one.                                                       *)
Place ==
  \A t \in Threads :
    /\ pc[t] = "encode" => pos[t] = 0
    /\ pc[t] = "scan" => pos[t] > 0
    /\ pc[t] \in Between => passed[t] = Waits(pos[t])
    /\ pc[t] = "forward" => /\ passed[t] = Waits(pos[t]) + ForwardWaits - forwardLeft[t]
                            /\ pos[t] + 1 < steps
    /\ pc[t] = "sync" => pos[t] > 0 /\ passed[t] = Waits(pos[t]) - 1
    /\ t \in inside => \/ pc[t] = "sync"
                       \/ pc[t] = "forward" /\ forwardLeft[t] > 0

(* The barrier: nobody has passed a wait that another has not entered. *)
Together == \A t, u \in Threads : passed[t] <= Sync!Entered(u)

(* What a thread has scanned is still zero. *)
ScannedZero ==
  \A t, j \in Threads : pc[t] = "scan" /\ j < scanned[t] => threadStates[j] = 0

(* While one has yet to scan, another goes on only if some entry is set;   *)
(* one has stopped before the budget only if none is.                      *)
GoesOn ==
  \A t, u \in Threads :
    /\ pc[t] \in {"sync", "scan"} /\ pc[u] \in {"loop", "forward"}
    /\ pos[t] = pos[u] /\ pos[u] + 1 < steps
    => \E j \in Threads : threadStates[j] # 0
Stopped ==
  \A t, j \in Threads :
    pc[t] \in {"finish", "done"} /\ pos[t] > 0 /\ pos[t] + 1 < steps
      => threadStates[j] = 0

IInv == /\ ControlOK /\ Place /\ Together /\ ScannedZero /\ GoesOn /\ Stopped
        /\ LeaveTogether
-----------------------------------------------------------------------------
(* Steps take Cycle waits each, so of two different numbers of steps the   *)
(* smaller one is a whole step of waits short of the larger.               *)
LEMMA WaitsGrow ==
  /\ ForwardWaits \in Nat /\ ForwardWaits > 0 /\ EP \in Nat
  /\ Cycle = ForwardWaits + 1
  /\ Waits(0) = 0
  /\ \A n \in Nat : Waits(n) \in Nat /\ Waits(n + 1) = Waits(n) + Cycle
  /\ \A m, n \in Nat : m < n => Waits(m) + Cycle <= Waits(n)
<1>1. ForwardWaits \in Nat /\ ForwardWaits > 0 /\ EP \in Nat /\ Cycle \in Nat
  BY LoopAssumption DEF Cycle
<1>2. ASSUME NEW n \in Nat PROVE n * Cycle \in Nat /\ (n + 1) * Cycle = n * Cycle + Cycle
  BY <1>1
<1>3. ASSUME NEW m \in Nat, NEW n \in Nat, m < n PROVE m * Cycle + Cycle <= n * Cycle
  <2>1. n - m - 1 \in Nat
    BY <1>3
  <2>2. (n - m - 1) * Cycle \in Nat
    BY <2>1, <1>2
  <2>3. n * Cycle = m * Cycle + Cycle + (n - m - 1) * Cycle
    BY <1>1
  <2> QED
    BY <2>2, <2>3, <1>1
<1> QED
  BY <1>1, <1>2, <1>3 DEF Waits, Cycle

(* A thread between two steps holds all others at the same step: they have *)
(* yet to leave its last wait, or stand between the steps as well, or have *)
(* not passed a wait of the next.                                          *)
LEMMA Neighbours ==
  ASSUME ControlOK, Place, Together, NEW t \in Threads, NEW u \in Threads,
         pc[t] \in Between, pos[t] > 0
  PROVE  /\ pos[u] = pos[t]
         /\ \/ pc[u] = "sync" /\ u \in inside
            \/ pc[u] \in Between \ {"encode"}
            \/ pc[u] = "forward" /\ forwardLeft[u] = ForwardWaits
<1>1. /\ passed[t] = Waits(pos[t]) /\ t \notin inside
      /\ pos[t] \in Nat /\ pos[u] \in Nat
      /\ passed[t] \in Nat /\ passed[u] \in Nat
      /\ forwardLeft[u] \in 0 .. ForwardWaits
  BY DEF ControlOK, Place, Between
<1>2. /\ passed[u] <= passed[t]
      /\ passed[t] <= passed[u] + (IF u \in inside THEN 1 ELSE 0)
  BY <1>1 DEF Together, Sync!Entered
<1>3. /\ Waits(pos[t]) \in Nat /\ Waits(pos[u]) \in Nat
      /\ pos[t] < pos[u] => Waits(pos[t]) + Cycle <= Waits(pos[u])
      /\ pos[u] < pos[t] => Waits(pos[u]) + Cycle <= Waits(pos[t])
      /\ Cycle = ForwardWaits + 1 /\ ForwardWaits \in Nat /\ ForwardWaits > 0
  BY <1>1, WaitsGrow
<1>4. CASE pc[u] = "sync"
  <2>1. passed[u] = Waits(pos[u]) - 1
    BY <1>4 DEF Place
  <2> QED
    BY <2>1, <1>1, <1>2, <1>3, <1>4
<1>5. CASE pc[u] \in Between
  <2>1. passed[u] = Waits(pos[u]) /\ (pc[u] = "encode" => pos[u] = 0)
    BY <1>5 DEF Place
  <2>2. u \notin inside
    BY <1>5 DEF Place, Between
  <2> QED
    BY <2>1, <2>2, <1>1, <1>2, <1>3, <1>5
<1>6. CASE pc[u] = "forward"
  <2>1. /\ passed[u] = Waits(pos[u]) + ForwardWaits - forwardLeft[u]
        /\ u \in inside => forwardLeft[u] > 0
    BY <1>6 DEF Place
  <2> QED
    BY <2>1, <1>1, <1>2, <1>3, <1>6
<1> QED
  BY <1>4, <1>5, <1>6 DEF ControlOK

(* When a forward pass is over, nobody is between two steps any more, and  *)
(* nobody has left a step that another has yet to scan.                    *)
LEMMA StepDecided ==
  ASSUME ControlOK, Place, Together, NEW v \in Threads,
         pc[v] = "forward", forwardLeft[v] = 0
  PROVE  /\ \A t \in Threads : pc[t] \in Between => pos[t] = 0 /\ pc[t] # "scan"
         /\ \A t, u \in Threads :
              pc[t] \in {"sync", "scan"} /\ pc[u] \in {"loop", "forward"} => pos[t] # pos[u]
         /\ \A u \in Threads : pc[u] \in {"loop", "forward"} => pos[u] # pos[v] + 1
<1>1. ForwardWaits > 0 /\ ForwardWaits \in Nat /\ Cycle = ForwardWaits + 1
  BY WaitsGrow
<1>2. ASSUME NEW t \in Threads, pc[t] \in Between
      PROVE  pos[t] = 0 /\ pc[t] # "scan"
  <2>1. pos[t] \in Nat /\ pc[v] \notin Between
    BY DEF ControlOK, Between
  <2>2. ~(pos[t] > 0)
    BY <1>1, <1>2, <2>1, Neighbours
  <2> QED
    BY <2>1, <2>2 DEF Place
<1>3. /\ v \notin inside /\ passed[v] = Waits(pos[v]) + ForwardWaits
      /\ pos[v] \in Nat /\ Waits(pos[v]) \in Nat
      /\ Waits(pos[v] + 1) = Waits(pos[v]) + Cycle
  <2>1. pos[v] \in Nat /\ v \notin inside
    BY DEF ControlOK, Place
  <2>2. Waits(pos[v]) \in Nat /\ Waits(pos[v] + 1) = Waits(pos[v]) + Cycle
    BY <2>1, WaitsGrow
  <2>3. passed[v] = Waits(pos[v]) + ForwardWaits - 0
    BY DEF Place
  <2> QED
    BY <1>1, <2>1, <2>2, <2>3
<1>4. ASSUME NEW u \in Threads, pc[u] \in {"loop", "forward"}
      PROVE  /\ passed[u] >= Waits(pos[u]) /\ passed[u] <= passed[v]
             /\ pos[u] \in Nat /\ Waits(pos[u]) \in Nat /\ passed[u] \in Nat
  <2>1. pos[u] \in Nat /\ forwardLeft[u] \in 0 .. ForwardWaits /\ passed[u] \in Nat
    BY DEF ControlOK
  <2>2. Waits(pos[u]) \in Nat
    BY <2>1, WaitsGrow
  <2>3. passed[u] >= Waits(pos[u])
    BY <1>1, <1>4, <2>1, <2>2 DEF Place, Between
  <2>4. passed[u] <= passed[v]
    BY <1>3, <2>1 DEF Together, Sync!Entered, ControlOK
  <2> QED
    BY <2>1, <2>2, <2>3, <2>4
<1>5. ASSUME NEW u \in Threads, pc[u] \in {"loop", "forward"}, pos[u] = pos[v] + 1
      PROVE  FALSE
  BY <1>1, <1>3, <1>4, <1>5
<1>6. ASSUME NEW t \in Threads, NEW u \in Threads, pc[t] \in {"sync", "scan"},
             pc[u] \in {"loop", "forward"}, pos[t] = pos[u]
      PROVE  FALSE
  <2>1. pc[t] = "sync"
    BY <1>2, <1>6 DEF Between
  <2>2. /\ passed[t] = Waits(pos[t]) - 1 /\ passed[t] \in Nat
        /\ passed[v] <= passed[t] + 1
    BY <2>1, <1>3 DEF Place, ControlOK, Together, Sync!Entered
  <2>3. passed[v] = Waits(pos[u])
    BY <2>2, <1>1, <1>3, <1>4, <1>6
  <2>4. /\ pos[u] < pos[v] => Waits(pos[u]) + Cycle <= Waits(pos[v])
        /\ pos[v] < pos[u] => Waits(pos[v]) + Cycle <= Waits(pos[u])
    BY <1>3, <1>4, <1>6, WaitsGrow
  <2>5. /\ pos[u] \in Nat /\ Waits(pos[u]) \in Nat
        /\ Waits(pos[u]) = Waits(pos[v]) + ForwardWaits
    BY <2>3, <1>3, <1>4, <1>6
  <2>6. CASE pos[u] = pos[v]
    BY <2>5, <2>6, <1>1, <1>3
  <2>7. CASE pos[u] < pos[v]
    BY <2>4, <2>5, <2>7, <1>1, <1>3
  <2>8. CASE pos[v] < pos[u]
    BY <2>4, <2>5, <2>8, <1>1, <1>3
  <2> QED
    BY <2>5, <2>6, <2>7, <2>8, <1>3
<1> QED
  BY <1>2, <1>5, <1>6
-----------------------------------------------------------------------------
(* A fresh chunk, at the start and after a join. *)
Fresh ==
  /\ steps \in Nat
  /\ FreshThreads(pc, forwardLeft, scanned, threadStates, pos, epos, mask, passed, inside)

LEMMA FreshIInv == Fresh => IInv
<1> SUFFICES ASSUME Fresh PROVE IInv
  OBVIOUS
<1> USE DEF Fresh, FreshThreads
<1>1. 0 \in 0 .. EP /\ 0 \in 0 .. ForwardWaits /\ Waits(0) = 0
  BY WaitsGrow
<1>2. ControlOK
  BY <1>1 DEF ControlOK, Between
<1>3. Place
  BY <1>1 DEF Place, Between
<1>4. Together
  BY DEF Together, Sync!Entered
<1>5. ScannedZero /\ GoesOn /\ Stopped /\ LeaveTogether
  BY DEF ScannedZero, GoesOn, Stopped, LeaveTogether
<1> QED
  BY <1>2, <1>3, <1>4, <1>5 DEF IInv

(* The first chunk starts with it. *)
LEMMA InitIInv == Init => IInv
<1> SUFFICES ASSUME Init PROVE IInv
  OBVIOUS
<1>1. steps \in Nat
  BY LoopAssumption DEF Init
<1> QED
  BY <1>1, FreshIInv DEF Init, Fresh

(* The same of the state after a step. *)
LEMMA FreshNext == Fresh' => IInv'
BY FreshIInv, PTL

(* What IInv speaks of. *)
Unmoved == UNCHANGED <<steps, controlVars, threadStates, pos, passed, inside>>

(* A step that leaves all that alone, such as exit(). *)
LEMMA UnmovedIInv == IInv /\ Unmoved => IInv'
<1> SUFFICES ASSUME IInv, Unmoved PROVE IInv'
  OBVIOUS
<1> USE DEF IInv, Unmoved, controlVars
<1>1. ControlOK'
  BY DEF ControlOK
<1>2. Place'
  BY DEF Place, Waits, Cycle
<1>3. Together'
  BY DEF Together, Sync!Entered
<1>4. ScannedZero' /\ GoesOn' /\ Stopped' /\ LeaveTogether'
  BY DEF ScannedZero, GoesOn, Stopped, LeaveTogether
<1> QED
  BY <1>1, <1>2, <1>3, <1>4

(* A thread that goes from one point between two steps to another.  What   *)
(* it has to show is what the others may rely on.                          *)
LEMMA MoveBetween ==
  ASSUME IInv, NEW v \in Threads, NEW label \in Between,
         pc[v] \in Between, pc' = [pc EXCEPT ![v] = label],
         UNCHANGED <<steps, forwardLeft, threadStates, pos, passed, inside>>,
         scanned' \in [Threads -> 0 .. EP],
         \A t \in Threads : pc'[t] = "scan" => pc[t] = "scan" /\ scanned'[t] = scanned[t],
         label \notin {"encode", "scan"},
         label = "loop" /\ pos[v] > 0 /\ pos[v] + 1 < steps
           => \E j \in Threads : threadStates[j] # 0,
         label \in {"finish", "done"} /\ pos[v] > 0 /\ pos[v] + 1 < steps
           => \A j \in Threads : threadStates[j] = 0,
         label \in {"finish", "done"} /\ pos[v] > 0
           => \A u \in Threads : pc[u] # "forward" /\ (pc[u] = "loop" => pos[u] + 1 >= steps)
  PROVE  IInv'
<1> USE DEF IInv
<1>1. ControlOK'
  BY DEF ControlOK, Between
<1>2. Place'
  BY DEF Place, ControlOK, Between, Waits, Cycle
<1>3. Together'
  BY DEF Together, Sync!Entered
<1>4. ScannedZero'
  BY DEF ScannedZero
<1>5. GoesOn'
  <2> SUFFICES ASSUME NEW t \in Threads, NEW u \in Threads,
                      pc'[t] \in {"sync", "scan"}, pc'[u] \in {"loop", "forward"},
                      pos[t] = pos[u], pos[u] + 1 < steps
               PROVE  \E j \in Threads : threadStates[j] # 0
    BY DEF GoesOn
  <2>1. pc[t] \in {"sync", "scan"} /\ pos[t] > 0
    BY DEF ControlOK, Place, Between
  <2>2. CASE u = v
    BY <2>1, <2>2 DEF ControlOK, Between
  <2>3. CASE u # v
    BY <2>1, <2>3 DEF ControlOK, GoesOn
  <2> QED
    BY <2>2, <2>3
<1>6. Stopped'
  BY DEF Stopped, ControlOK
<1>7. LeaveTogether'
  <2> SUFFICES ASSUME NEW t \in Threads, NEW u \in Threads,
                      pc'[t] \in {"finish", "done"}, pos[t] # 0
               PROVE  /\ pos[u] = pos[t]
                      /\ pc'[u] \in {"sync", "scan", "loop", "finish", "done"}
                      /\ pc'[u] = "sync" => u \in inside
                      /\ pc'[u] = "loop" => pos[u] + 1 >= steps
    BY DEF LeaveTogether
  <2>0. pos[t] \in Nat /\ pos[t] > 0 /\ pos[u] \in Nat /\ steps \in Nat
    BY DEF ControlOK
  <2>1. pc[t] \in Between
    BY DEF ControlOK, Between
  <2>2. /\ pos[u] = pos[t]
        /\ \/ pc[u] = "sync" /\ u \in inside
           \/ pc[u] \in Between \ {"encode"}
           \/ pc[u] = "forward" /\ forwardLeft[u] = ForwardWaits
    BY <2>0, <2>1, Neighbours
  <2>3. pc[u] # "forward"
    BY <2>0, <2>2 DEF LeaveTogether, ControlOK
  <2>4. pc'[u] \in {"sync", "scan", "loop", "finish", "done"}
        /\ (pc'[u] = "sync" => u \in inside)
    BY <2>2, <2>3 DEF ControlOK, Between
  <2>5. ASSUME pc'[u] = "loop" PROVE pos[u] + 1 >= steps
    <3>1. CASE t = v
      <4>1. u # v /\ pc[u] = "loop"
        BY <2>5, <3>1 DEF ControlOK
      <4> QED
        BY <2>0, <3>1, <4>1 DEF ControlOK
    <3>2. CASE t # v /\ u # v
      BY <2>0, <2>5, <3>2 DEF LeaveTogether, ControlOK
    <3>3. CASE t # v /\ u = v
      <4>1. pc[t] \in {"finish", "done"} /\ label = "loop"
        BY <2>5, <3>3 DEF ControlOK
      <4>2. CASE pos[u] + 1 < steps
        BY <2>0, <2>2, <3>3, <4>1, <4>2 DEF Stopped
      <4> QED
        BY <2>0, <4>2
    <3> QED
      BY <3>1, <3>2, <3>3
  <2> QED
    BY <2>2, <2>4, <2>5
<1> QED
  BY <1>1, <1>2, <1>3, <1>4, <1>5, <1>6, <1>7
-----------------------------------------------------------------------------
(* The barrier alone: entering and leaving keep the threads together. *)
LEMMA ArriveTogether ==
  ASSUME ControlOK, Together, NEW v \in Threads, Sync!Arrive(v)
  PROVE  Together' /\ inside' \in SUBSET Threads /\ passed' = passed
BY DEF ControlOK, Together, Sync!Arrive, Sync!Entered

LEMMA LeaveTogetherStep ==
  ASSUME ControlOK, Together, NEW v \in Threads, Sync!Leave(v)
  PROVE  /\ Together' /\ inside' = inside \ {v} /\ v \in inside
         /\ passed' = [passed EXCEPT ![v] = @ + 1]
         /\ passed' \in [Threads -> Nat]
<1>1. /\ v \in inside /\ inside' = inside \ {v}
      /\ passed' = [passed EXCEPT ![v] = @ + 1] /\ passed' \in [Threads -> Nat]
      /\ \A u \in Threads : passed[v] < Sync!Entered(u)
  BY DEF ControlOK, Sync!Leave, Sync!Entered
<1>2. \A u \in Threads : Sync!Entered(u)' = Sync!Entered(u)
  BY <1>1 DEF ControlOK, Sync!Entered
<1>3. \A u \in Threads : Sync!Entered(u) \in Nat
  BY DEF ControlOK, Sync!Entered
<1>4. ASSUME NEW t \in Threads, NEW u \in Threads PROVE passed'[t] <= Sync!Entered(u)'
  BY <1>1, <1>2, <1>3 DEF ControlOK, Together
<1> QED
  BY <1>1, <1>4 DEF Together

(* A thread enters a wait of the forward pass or of the step. *)
LEMMA ArriveIInv ==
  ASSUME IInv, NEW v \in Threads, Sync!Arrive(v),
         pc[v] = "sync" \/ (pc[v] = "forward" /\ forwardLeft[v] > 0),
         UNCHANGED <<steps, controlVars, threadStates, pos>>
  PROVE  IInv'
<1> USE DEF IInv, controlVars
<1>1. Together' /\ inside' \in SUBSET Threads /\ passed' = passed /\ inside' = inside \cup {v}
  BY ArriveTogether DEF Sync!Arrive
<1>2. ControlOK'
  BY <1>1 DEF ControlOK
<1>3. Place'
  BY <1>1 DEF Place, Waits, Cycle
<1>4. ScannedZero' /\ GoesOn' /\ Stopped'
  BY DEF ScannedZero, GoesOn, Stopped
<1>5. LeaveTogether'
  BY <1>1 DEF LeaveTogether
<1> QED
  BY <1>1, <1>2, <1>3, <1>4, <1>5

(* A thread leaves a wait of the forward pass: one less to go. *)
LEMMA ForwardLeaveIInv ==
  ASSUME IInv, NEW v \in Threads, ForwardLeave(v)
  PROVE  IInv'
<1> USE DEF IInv
<1>1. /\ Sync!Leave(v) /\ pc[v] = "forward"
      /\ forwardLeft' = [forwardLeft EXCEPT ![v] = @ - 1]
      /\ UNCHANGED <<steps, pc, scanned, threadStates, pos>>
  BY DEF ForwardLeave, At, requestVars, rowVars
<1>2. /\ Together' /\ inside' = inside \ {v} /\ v \in inside
      /\ passed' = [passed EXCEPT ![v] = @ + 1] /\ passed' \in [Threads -> Nat]
  BY <1>1, LeaveTogetherStep
<1>3. forwardLeft[v] \in 1 .. ForwardWaits /\ ForwardWaits \in Nat
  <2>1. forwardLeft[v] > 0
    BY <1>1, <1>2 DEF Place
  <2> QED
    BY <2>1, WaitsGrow DEF ControlOK
<1>4. ControlOK'
  BY <1>1, <1>2, <1>3 DEF ControlOK
<1>5. Place'
  <2> SUFFICES ASSUME NEW t \in Threads
               PROVE  /\ pc[t] = "encode" => pos[t] = 0
                      /\ pc[t] = "scan" => pos[t] > 0
                      /\ pc[t] \in Between => passed'[t] = Waits(pos[t])
                      /\ pc[t] = "forward" =>
                           /\ passed'[t] = Waits(pos[t]) + ForwardWaits - forwardLeft'[t]
                           /\ pos[t] + 1 < steps
                      /\ pc[t] = "sync" => pos[t] > 0 /\ passed'[t] = Waits(pos[t]) - 1
                      /\ t \in inside' => \/ pc[t] = "sync"
                                          \/ pc[t] = "forward" /\ forwardLeft'[t] > 0
    BY <1>1 DEF Place, Waits, Cycle
  <2>1. CASE t = v
    <3>1. pos[v] \in Nat /\ Waits(pos[v]) \in Nat /\ pos[v] + 1 < steps
          /\ passed[v] = Waits(pos[v]) + ForwardWaits - forwardLeft[v] /\ passed[v] \in Nat
      BY <1>1, WaitsGrow DEF ControlOK, Place
    <3>2. passed'[v] = Waits(pos[v]) + ForwardWaits - forwardLeft'[v]
      BY <1>1, <1>2, <1>3, <3>1 DEF ControlOK
    <3> QED
      BY <1>1, <1>2, <2>1, <3>1, <3>2 DEF Between
  <2>2. CASE t # v
    BY <1>1, <1>2, <2>2 DEF Place, ControlOK
  <2> QED
    BY <2>1, <2>2
<1>6. ScannedZero' /\ GoesOn' /\ Stopped'
  BY <1>1 DEF ScannedZero, GoesOn, Stopped
<1>7. LeaveTogether'
  BY <1>1, <1>2 DEF LeaveTogether
<1> QED
  BY <1>2, <1>4, <1>5, <1>6, <1>7

(* A thread leaves the wait of the step and starts its scan. *)
LEMMA SyncLeaveIInv ==
  ASSUME IInv, NEW v \in Threads, SyncLeave(v)
  PROVE  IInv'
<1> USE DEF IInv
<1>1. /\ Sync!Leave(v) /\ pc[v] = "sync" /\ pc' = [pc EXCEPT ![v] = "scan"]
      /\ scanned' = [scanned EXCEPT ![v] = 0]
      /\ UNCHANGED <<steps, forwardLeft, threadStates, pos>>
  BY DEF SyncLeave, At, GoTo, requestVars, rowVars
<1>2. /\ Together' /\ inside' = inside \ {v} /\ v \in inside
      /\ passed' = [passed EXCEPT ![v] = @ + 1] /\ passed' \in [Threads -> Nat]
  BY <1>1, LeaveTogetherStep
<1>3. 0 \in 0 .. EP
  BY WaitsGrow
<1>4. ControlOK'
  BY <1>1, <1>2, <1>3 DEF ControlOK, Between
<1>5. Place'
  <2>1. pos[v] > 0 /\ pos[v] \in Nat /\ passed[v] = Waits(pos[v]) - 1 /\ Waits(pos[v]) \in Nat
    BY <1>1, WaitsGrow DEF ControlOK, Place
  <2>2. passed'[v] = Waits(pos[v])
    BY <1>2, <2>1 DEF ControlOK
  <2>3. ASSUME NEW t \in Threads, t # v
        PROVE  passed'[t] = passed[t] /\ pc'[t] = pc[t] /\ (t \in inside' <=> t \in inside)
    BY <1>1, <1>2, <2>3 DEF ControlOK
  <2>4. pc'[v] = "scan" /\ v \notin inside'
    BY <1>1, <1>2 DEF ControlOK
  <2> SUFFICES ASSUME NEW t \in Threads
               PROVE  /\ pc'[t] = "encode" => pos[t] = 0
                      /\ pc'[t] = "scan" => pos[t] > 0
                      /\ pc'[t] \in Between => passed'[t] = Waits(pos[t])
                      /\ pc'[t] = "forward" =>
                           /\ passed'[t] = Waits(pos[t]) + ForwardWaits - forwardLeft[t]
                           /\ pos[t] + 1 < steps
                      /\ pc'[t] = "sync" => pos[t] > 0 /\ passed'[t] = Waits(pos[t]) - 1
                      /\ t \in inside' => \/ pc'[t] = "sync"
                                          \/ pc'[t] = "forward" /\ forwardLeft[t] > 0
    BY <1>1 DEF Place, Waits, Cycle
  <2>5. CASE t = v
    BY <2>1, <2>2, <2>4, <2>5
  <2>6. CASE t # v
    BY <2>3, <2>6 DEF Place
  <2> QED
    BY <2>5, <2>6
<1>6. ScannedZero'
  BY <1>1, WaitsGrow DEF ScannedZero, ControlOK, Threads
<1>7. GoesOn' /\ Stopped'
  BY <1>1 DEF GoesOn, Stopped, ControlOK
<1>8. LeaveTogether'
  BY <1>1, <1>2 DEF LeaveTogether, ControlOK
<1> QED
  BY <1>2, <1>4, <1>5, <1>6, <1>7, <1>8

(* The whole body of the loop after the forward pass. *)
LEMMA AdvanceIInv ==
  ASSUME IInv, NEW v \in Threads, Advance(v)
  PROVE  IInv'
<1> USE DEF IInv
<1>1. /\ pc[v] = "forward" /\ forwardLeft[v] = 0
      /\ pos' = [pos EXCEPT ![v] = @ + 1] /\ pc' = [pc EXCEPT ![v] = "sync"]
      /\ threadStates' \in [Threads -> {0, 1}]
      /\ UNCHANGED <<steps, forwardLeft, scanned, passed, inside>>
  BY DEF Advance, At, GoTo, ControlOK, requestVars, barrierVars
<1>2. /\ \A t \in Threads : pc[t] \in Between => pos[t] = 0 /\ pc[t] # "scan"
      /\ \A t, u \in Threads :
           pc[t] \in {"sync", "scan"} /\ pc[u] \in {"loop", "forward"} => pos[t] # pos[u]
      /\ \A u \in Threads : pc[u] \in {"loop", "forward"} => pos[u] # pos[v] + 1
  BY <1>1, StepDecided
<1>3. /\ pos[v] \in Nat /\ pos'[v] = pos[v] + 1 /\ pc'[v] = "sync" /\ v \notin inside
      /\ passed'[v] = Waits(pos'[v]) - 1
  <2>1. pos[v] \in Nat /\ pos'[v] = pos[v] + 1 /\ pc'[v] = "sync" /\ v \notin inside
    BY <1>1 DEF ControlOK, Place
  <2>2. passed[v] = Waits(pos[v]) + ForwardWaits - 0
    BY <1>1 DEF Place
  <2>3. /\ Waits(pos[v]) \in Nat /\ Waits(pos[v] + 1) = Waits(pos[v]) + Cycle
        /\ Cycle = ForwardWaits + 1 /\ ForwardWaits \in Nat
    BY <2>1, WaitsGrow
  <2>4. passed'[v] = Waits(pos[v] + 1) - 1
    BY <1>1, <2>2, <2>3
  <2> QED
    BY <2>1, <2>4
<1>4. ASSUME NEW t \in Threads, t # v PROVE pos'[t] = pos[t] /\ pc'[t] = pc[t]
  BY <1>1, <1>4 DEF ControlOK
<1>5. ControlOK'
  BY <1>1, <1>3 DEF ControlOK, Between
<1>6. Place'
  <2> SUFFICES ASSUME NEW t \in Threads
               PROVE  /\ pc'[t] = "encode" => pos'[t] = 0
                      /\ pc'[t] = "scan" => pos'[t] > 0
                      /\ pc'[t] \in Between => passed'[t] = Waits(pos'[t])
                      /\ pc'[t] = "forward" =>
                           /\ passed'[t] = Waits(pos'[t]) + ForwardWaits - forwardLeft[t]
                           /\ pos'[t] + 1 < steps
                      /\ pc'[t] = "sync" => pos'[t] > 0 /\ passed'[t] = Waits(pos'[t]) - 1
                      /\ t \in inside => \/ pc'[t] = "sync"
                                         \/ pc'[t] = "forward" /\ forwardLeft[t] > 0
    BY <1>1 DEF Place, Waits, Cycle
  <2>1. CASE t = v
    BY <1>3, <2>1 DEF Between
  <2>2. CASE t # v
    BY <1>1, <1>4, <2>2 DEF Place
  <2> QED
    BY <2>1, <2>2
<1>7. Together'
  BY <1>1 DEF Together, Sync!Entered
<1>8. ScannedZero'
  BY <1>2, <1>3, <1>4 DEF ScannedZero, Between
<1>9. GoesOn'
  <2> SUFFICES ASSUME NEW t \in Threads, NEW u \in Threads,
                      pc'[t] \in {"sync", "scan"}, pc'[u] \in {"loop", "forward"},
                      pos'[t] = pos'[u]
               PROVE  FALSE
    BY DEF GoesOn
  <2>1. u # v
    BY <1>3
  <2> QED
    BY <1>2, <1>3, <1>4, <2>1
<1>10. Stopped'
  BY <1>2, <1>3, <1>4 DEF Stopped, Between
<1>11. LeaveTogether'
  BY <1>2, <1>3, <1>4 DEF LeaveTogether, Between
<1> QED
  BY <1>5, <1>6, <1>7, <1>8, <1>9, <1>10, <1>11

(* The scan of thread_states. *)
LEMMA ScanIInv ==
  ASSUME IInv, NEW v \in Threads, Scan(v)
  PROVE  IInv'
<1> USE DEF IInv
<1>1. /\ pc[v] = "scan" /\ UNCHANGED <<steps, forwardLeft, threadStates, pos, passed, inside>>
      /\ pos[v] > 0 /\ scanned[v] \in 0 .. EP /\ EP \in Nat
  BY WaitsGrow DEF Scan, At, requestVars, barrierVars, rowVars, ControlOK, Place
<1>2. CASE scanned[v] = EP /\ GoTo(v, "finish") /\ UNCHANGED scanned
  <2>1. \A j \in Threads : threadStates[j] = 0
    BY <1>1, <1>2 DEF ScannedZero, Threads
  <2>2. ASSUME NEW u \in Threads
        PROVE  pc[u] # "forward" /\ (pc[u] = "loop" => pos[u] + 1 >= steps)
    <3>1. pos[u] = pos[v] /\ pos[u] \in Nat /\ steps \in Nat
      BY <1>1, Neighbours DEF Between, ControlOK
    <3>2. pc[u] = "forward" => pos[u] + 1 < steps
      BY DEF Place
    <3> QED
      BY <1>1, <2>1, <3>1, <3>2 DEF GoesOn
  <2>3. /\ pc' = [pc EXCEPT ![v] = "finish"] /\ scanned' \in [Threads -> 0 .. EP]
        /\ \A t \in Threads : pc'[t] = "scan" => pc[t] = "scan" /\ scanned'[t] = scanned[t]
    BY <1>2 DEF GoTo, ControlOK
  <2> QED
    BY <1>1, <2>1, <2>2, <2>3, MoveBetween DEF Between
<1>3. CASE /\ scanned[v] < EP /\ threadStates[scanned[v]] = 0
           /\ scanned' = [scanned EXCEPT ![v] = @ + 1] /\ UNCHANGED pc
  <2>1. ControlOK'
    BY <1>1, <1>3 DEF ControlOK
  <2>2. Place'
    BY <1>1, <1>3 DEF Place, Waits, Cycle
  <2>3. Together'
    BY <1>1 DEF Together, Sync!Entered
  <2>4. ScannedZero'
    BY <1>1, <1>3 DEF ScannedZero, ControlOK, Threads
  <2>5. GoesOn' /\ Stopped' /\ LeaveTogether'
    BY <1>1, <1>3 DEF GoesOn, Stopped, LeaveTogether
  <2> QED
    BY <2>1, <2>2, <2>3, <2>4, <2>5
<1>4. CASE /\ scanned[v] < EP /\ threadStates[scanned[v]] # 0
           /\ GoTo(v, "loop") /\ UNCHANGED scanned
  <2>1. \E j \in Threads : threadStates[j] # 0
    BY <1>1, <1>4 DEF Threads
  <2>2. /\ pc' = [pc EXCEPT ![v] = "loop"] /\ scanned' \in [Threads -> 0 .. EP]
        /\ \A t \in Threads : pc'[t] = "scan" => pc[t] = "scan" /\ scanned'[t] = scanned[t]
    BY <1>4 DEF GoTo, ControlOK
  <2> QED
    BY <1>1, <2>1, <2>2, MoveBetween DEF Between
<1> QED
  BY <1>2, <1>3, <1>4 DEF Scan

(* The loop test. *)
LEMMA LoopTestIInv ==
  ASSUME IInv, NEW v \in Threads, LoopTest(v)
  PROVE  IInv'
<1> USE DEF IInv
<1>1. /\ pc[v] = "loop" /\ UNCHANGED <<steps, scanned, threadStates, pos, passed, inside>>
      /\ pos[v] \in Nat /\ steps \in Nat
  BY DEF LoopTest, At, requestVars, barrierVars, rowVars, ControlOK
<1>2. CASE /\ pos[v] + 1 < steps /\ GoTo(v, "forward")
           /\ forwardLeft' = [forwardLeft EXCEPT ![v] = ForwardWaits]
  <2>1. /\ pc'[v] = "forward" /\ forwardLeft'[v] = ForwardWaits /\ v \notin inside
        /\ passed[v] = Waits(pos[v]) /\ Waits(pos[v]) \in Nat
        /\ ForwardWaits \in Nat /\ ForwardWaits > 0
    BY <1>1, <1>2, WaitsGrow DEF GoTo, ControlOK, Place, Between
  <2>2. ASSUME NEW t \in Threads, t # v PROVE pc'[t] = pc[t] /\ forwardLeft'[t] = forwardLeft[t]
    BY <1>2, <2>2 DEF GoTo, ControlOK
  <2>3. ControlOK'
    BY <1>1, <1>2, <2>1 DEF ControlOK, GoTo
  <2>4. Place'
    <3> SUFFICES ASSUME NEW t \in Threads
                 PROVE  /\ pc'[t] = "encode" => pos[t] = 0
                        /\ pc'[t] = "scan" => pos[t] > 0
                        /\ pc'[t] \in Between => passed[t] = Waits(pos[t])
                        /\ pc'[t] = "forward" =>
                             /\ passed[t] = Waits(pos[t]) + ForwardWaits - forwardLeft'[t]
                             /\ pos[t] + 1 < steps
                        /\ pc'[t] = "sync" => pos[t] > 0 /\ passed[t] = Waits(pos[t]) - 1
                        /\ t \in inside => \/ pc'[t] = "sync"
                                           \/ pc'[t] = "forward" /\ forwardLeft'[t] > 0
      BY <1>1 DEF Place, Waits, Cycle
    <3>1. CASE t = v
      BY <1>2, <2>1, <3>1 DEF Between
    <3>2. CASE t # v
      BY <2>2, <3>2 DEF Place
    <3> QED
      BY <3>1, <3>2
  <2>5. Together'
    BY <1>1 DEF Together, Sync!Entered
  <2>6. ScannedZero' /\ Stopped'
    BY <1>1, <2>1, <2>2 DEF ScannedZero, Stopped
  <2>7. GoesOn'
    <3> SUFFICES ASSUME NEW t \in Threads, NEW u \in Threads,
                        pc'[t] \in {"sync", "scan"}, pc'[u] \in {"loop", "forward"},
                        pos[t] = pos[u], pos[u] + 1 < steps
                 PROVE  \E j \in Threads : threadStates[j] # 0
      BY <1>1 DEF GoesOn
    <3>1. pc[t] \in {"sync", "scan"} /\ pc[u] \in {"loop", "forward"}
      BY <1>1, <2>1, <2>2
    <3> QED
      BY <3>1 DEF GoesOn
  <2>8. LeaveTogether'
    <3> SUFFICES ASSUME NEW t \in Threads, NEW u \in Threads,
                        pc'[t] \in {"finish", "done"}, pos[t] # 0
                 PROVE  /\ pos[u] = pos[t]
                        /\ pc'[u] \in {"sync", "scan", "loop", "finish", "done"}
                        /\ pc'[u] = "sync" => u \in inside
                        /\ pc'[u] = "loop" => pos[u] + 1 >= steps
      BY <1>1 DEF LeaveTogether
    <3>1. pc[t] = pc'[t]
      BY <2>1, <2>2
    <3>2. /\ pos[u] = pos[t]
          /\ pc[u] \in {"sync", "scan", "loop", "finish", "done"}
          /\ pc[u] = "sync" => u \in inside
          /\ pc[u] = "loop" => pos[u] + 1 >= steps
      BY <3>1 DEF LeaveTogether
    <3>3. u # v
      BY <1>1, <1>2, <3>2
    <3> QED
      BY <2>2, <3>2, <3>3
  <2> QED
    BY <2>3, <2>4, <2>5, <2>6, <2>7, <2>8
<1>3. CASE ~(pos[v] + 1 < steps) /\ GoTo(v, "finish") /\ UNCHANGED forwardLeft
  <2>1. ASSUME NEW u \in Threads, pos[v] > 0
        PROVE  pc[u] # "forward" /\ (pc[u] = "loop" => pos[u] + 1 >= steps)
    <3>1. pos[u] = pos[v]
      BY <1>1, <2>1, Neighbours DEF Between
    <3>2. pc[u] = "forward" => pos[u] + 1 < steps
      BY DEF Place
    <3> QED
      BY <1>1, <1>3, <3>1, <3>2
  <2>2. /\ pc' = [pc EXCEPT ![v] = "finish"] /\ scanned' \in [Threads -> 0 .. EP]
        /\ \A t \in Threads : pc'[t] = "scan" => pc[t] = "scan" /\ scanned'[t] = scanned[t]
    BY <1>1, <1>3 DEF GoTo, ControlOK
  <2> QED
    BY <1>1, <1>3, <2>1, <2>2, MoveBetween DEF Between
<1> QED
  BY <1>2, <1>3 DEF LoopTest

(* Tokenising goes on to the loop or ends the process. *)
LEMMA EncodeIInv ==
  ASSUME IInv, NEW v \in Threads, Encode(v)
  PROVE  IInv'
<1>1. CASE ExitProcess
  BY <1>1, UnmovedIInv DEF ExitProcess, Unmoved, requestVars, barrierVars, rowVars
<1>2. CASE /\ GoTo(v, "loop")
           /\ UNCHANGED <<requestVars, mainVars, forwardLeft, scanned,
                          barrierVars, rowVars, outputVars, threadStates>>
  <2>1. pc[v] = "encode" /\ ~(pos[v] > 0)
    BY DEF IInv, Place, Encode, At
  <2>2. /\ pc' = [pc EXCEPT ![v] = "loop"] /\ scanned' \in [Threads -> 0 .. EP]
        /\ UNCHANGED <<steps, forwardLeft, scanned, threadStates, pos, passed, inside>>
    BY <1>2 DEF GoTo, IInv, ControlOK, requestVars, barrierVars, rowVars
  <2>3. \A t \in Threads : pc'[t] = "scan" => pc[t] = "scan" /\ scanned'[t] = scanned[t]
    BY <2>2 DEF IInv, ControlOK
  <2> QED
    BY <2>1, <2>2, <2>3, MoveBetween DEF Between
<1> QED
  BY <1>1, <1>2 DEF Encode

(* So does writing the sentinels, for a thread out of the loop. *)
LEMMA FinishIInv ==
  ASSUME IInv, NEW v \in Threads, Finish(v)
  PROVE  IInv'
<1>1. CASE ExitProcess
  BY <1>1, UnmovedIInv DEF ExitProcess, Unmoved, requestVars, barrierVars, rowVars
<1>2. CASE /\ GoTo(v, "done")
           /\ UNCHANGED <<requestVars, mainVars, forwardLeft, scanned,
                          barrierVars, rowVars, threadStates>>
  <2>1. pc[v] = "finish"
    BY DEF Finish, At
  <2>2. /\ pc' = [pc EXCEPT ![v] = "done"] /\ scanned' \in [Threads -> 0 .. EP]
        /\ UNCHANGED <<steps, forwardLeft, scanned, threadStates, pos, passed, inside>>
    BY <1>2 DEF GoTo, IInv, ControlOK, requestVars, barrierVars, rowVars
  <2>3. \A t \in Threads : pc'[t] = "scan" => pc[t] = "scan" /\ scanned'[t] = scanned[t]
    BY <2>2 DEF IInv, ControlOK
  <2>4. pos[v] > 0 /\ pos[v] + 1 < steps => \A j \in Threads : threadStates[j] = 0
    BY <2>1 DEF IInv, Stopped
  <2>5. pos[v] > 0 =>
          \A u \in Threads : pc[u] # "forward" /\ (pc[u] = "loop" => pos[u] + 1 >= steps)
    BY <2>1 DEF IInv, LeaveTogether, ControlOK
  <2> QED
    BY <2>1, <2>2, <2>3, <2>4, <2>5, MoveBetween DEF Between
<1> QED
  BY <1>1, <1>2 DEF Finish

(* After a join there is a fresh chunk or nothing moves any more. *)
LEMMA JoinIInv == IInv /\ Join => IInv'
<1> SUFFICES ASSUME IInv, Join PROVE IInv'
  OBVIOUS
<1>1. CASE FreshThreads(pc', forwardLeft', scanned', threadStates', pos', epos', mask',
                        passed', inside')
  <2>1. steps' \in Nat /\ workload' = workload
    BY DEF Join, requestVars, IInv, ControlOK
  <2> QED
    BY <1>1, <2>1, FreshNext DEF Fresh, FreshThreads, Rows, BatchSize, Threads
<1>2. CASE UNCHANGED <<controlVars, barrierVars, rowVars, threadStates>>
  BY <1>2, UnmovedIInv DEF Join, Unmoved, requestVars, barrierVars, rowVars
<1> QED
  BY <1>1, <1>2 DEF Join

(* Every step keeps the threads as far apart as IInv says. *)
LEMMA NextIInv == IInv /\ [Next]_vars => IInv'
<1> SUFFICES ASSUME IInv, [Next]_vars PROVE IInv'
  OBVIOUS
<1>1. CASE Join
  BY <1>1, JoinIInv
<1>2. CASE Terminated \/ UNCHANGED vars
  BY <1>2, UnmovedIInv DEF Terminated, vars, Unmoved, requestVars, barrierVars, rowVars
<1>3. ASSUME NEW v \in Threads, HostThread(v) PROVE IInv'
  <2>1. CASE Encode(v)
    BY <2>1, EncodeIInv
  <2>2. CASE LoopTest(v)
    BY <2>2, LoopTestIInv
  <2>3. CASE ForwardArrive(v)
    BY <2>3, ArriveIInv DEF ForwardArrive, At, requestVars, rowVars
  <2>4. CASE ForwardLeave(v)
    BY <2>4, ForwardLeaveIInv
  <2>5. CASE Advance(v)
    BY <2>5, AdvanceIInv
  <2>6. CASE SyncArrive(v)
    BY <2>6, ArriveIInv DEF SyncArrive, At, requestVars, rowVars
  <2>7. CASE SyncLeave(v)
    BY <2>7, SyncLeaveIInv
  <2>8. CASE Scan(v)
    BY <2>8, ScanIInv
  <2>9. CASE Finish(v)
    BY <2>9, FinishIInv
  <2> QED
    BY <1>3, <2>1, <2>2, <2>3, <2>4, <2>5, <2>6, <2>7, <2>8, <2>9 DEF HostThread
<1> QED
  BY <1>1, <1>2, <1>3 DEF Next

(* thread_states changes at the end of a forward pass and at a join, and   *)
(* at neither is any thread scanning it.                                   *)
LEMMA StepLeavesReaders ==
  IInv /\ [Next]_vars =>
    [threadStates' # threadStates => \A t \in Threads : pc[t] # "scan"]_vars
<1> SUFFICES ASSUME IInv, Next, threadStates' # threadStates, NEW t \in Threads
             PROVE  pc[t] # "scan"
  OBVIOUS
<1>1. CASE Join
  BY <1>1 DEF Join
<1>2. ASSUME NEW v \in Threads, HostThread(v) PROVE Advance(v)
  BY <1>2 DEF HostThread, Encode, ExitProcess, LoopTest, ForwardArrive, ForwardLeave,
              SyncArrive, SyncLeave, Scan, Finish
<1>3. ASSUME NEW v \in Threads, Advance(v) PROVE pc[t] # "scan"
  BY <1>3, StepDecided DEF Advance, At, IInv, Between
<1>4. ~Terminated
  BY DEF Terminated, vars
<1> QED
  BY <1>1, <1>2, <1>3, <1>4 DEF Next
-----------------------------------------------------------------------------
(* The inductive invariant holds throughout, so in particular entries of   *)
(* thread_states are 0 or 1 and a thread counts its waits as the others    *)
(* do: passed[t] is settled by where t stands (ControlOK, Place).          *)
THEOREM ThreadsInStep == Spec => []IInv
BY InitIInv, NextIInv, PTL DEF Spec

(* However many GPUs a replica has, and whatever tokens come back: once a  *)
(* host thread has left the loop of coop_getp_generate, no other is in a   *)
(* forward pass, or short of the last sync_point.wait().                   *)
THEOREM ThreadsLeaveTogether == Spec => []LeaveTogether
<1>1. IInv => LeaveTogether
  BY DEF IInv
<1> QED
  BY <1>1, ThreadsInStep, PTL

(* is_all_zero reads thread_states without a lock, and no entry is written *)
(* while any host thread is reading.                                       *)
THEOREM ReadersSeeNoWrite == Spec => FrozenWhileRead
<1>1. Spec => []IInv /\ [][Next]_vars
  BY ThreadsInStep, PTL DEF Spec
<1> QED
  BY <1>1, StepLeavesReaders, PTL DEF FrozenWhileRead
-----------------------------------------------------------------------------
(* The requests of the chunk that is being decoded are those of its rows;  *)
(* the ones before are Completed, the ones after still wait.               *)
Size == EP * BatchSize
Waiting(q) == q >= (chunk + 1) * EP * BatchSize

(* In the arena g, slot q holds n tokens, of which only the last may be a  *)
(* stop token, then last, and zeros.                                       *)
SlotHolds(g, q, n, last) ==
  /\ n \in 0 .. steps - nPrompt[q]
  /\ \A k \in 0 .. n - 1 : g[SlotStart(q) + k] \in Tokens
  /\ \A k \in 0 .. n - 2 : g[SlotStart(q) + k] # Stop
  /\ g[SlotStart(q) + n] = last
  /\ \A k \in n + 1 .. steps : g[SlotStart(q) + k] = 0
EndsInStop(g, q, n) == n > 0 /\ g[SlotStart(q) + (n - 1)] = Stop

(* The tokens row b has generated. *)
Count(b) == IF epos[b] >= Prompt(b) THEN epos[b] - Prompt(b) + 1 ELSE 0

DataOK ==
  /\ workload \in Workloads
  /\ steps = workload.steps
  /\ nPrompt \in [Requests -> workload.prompts]
  /\ tokGens \in [Arena -> Tokens \cup {0, Sentinel}]
  /\ chunk \in 0 .. Chunks
  /\ main \in {"running", "returned", "exited"}
  /\ main = "returned" <=> chunk = Chunks
  /\ accTokenOut \in Int
  /\ epos \in [Rows -> Nat \cup {-1}]
  /\ mask \in [Rows -> BOOLEAN]
  /\ numTokenOut \in [Threads -> Int]

ThreadInv(t) ==
  /\ pos[t] = 0 \/ pos[t] + 1 <= steps
  /\ threadStates[t] = 0 => \A b \in RowsOf(t) : ~mask[b]
  /\ pc[t] = "finish" => pos[t] + 1 >= steps \/ threadStates[t] = 0
  /\ pc[t] = "done" => numTokenOut[t] = SumFunction([b \in RowsOf(t) |-> EndOf(b)])

(* A live row is at the position of its thread; the others have got a stop *)
(* token at theirs.                                                        *)
RowInv(t, b) ==
  /\ pc[t] # "encode" => Prompt(b) >= 1
  /\ mask[b] => epos[b] = IF pos[t] = 0 THEN -1 ELSE pos[t]
  /\ ~mask[b] => pc[t] # "encode" /\ epos[b] \in Prompt(b) .. pos[t]
  /\ pc[t] = "done" => epos[b] # -1 /\ (mask[b] => pos[t] + 1 = steps)

SlotInv(t, b) ==
  Alone(Request(b)) =>
    /\ SlotHolds(tokGens, Request(b), Count(b), IF pc[t] = "done" THEN Sentinel ELSE 0)
    /\ ~mask[b] <=> EndsInStop(tokGens, Request(b), Count(b))

ChunkInv ==
  chunk < Chunks =>
    \A t \in Threads : ThreadInv(t) /\ \A b \in RowsOf(t) : RowInv(t, b) /\ SlotInv(t, b)

WaitingInv == \A q \in Requests : Waiting(q) /\ Alone(q) => SlotHolds(tokGens, q, 0, 0)

DataInv == DataOK /\ ChunkInv /\ WaitingInv /\ OutputsWellFormed /\ CountMatchesOutput
-----------------------------------------------------------------------------
(* The numbers of rows, requests and cells. *)
LEMMA SizesOK ==
  ASSUME DataOK
  PROVE  /\ EP \in Nat \ {0} /\ BatchSize \in Nat \ {0} /\ NumReqs \in Nat \ {0}
         /\ Size \in Nat \ {0} /\ Chunks \in Nat /\ NumReqs = Chunks * Size
         /\ steps \in Nat /\ chunk \in Nat
         /\ \A q \in Requests : q \in Nat /\ nPrompt[q] \in Nat
<1>1. /\ EP \in Nat \ {0} /\ BatchSize \in Nat \ {0} /\ NumReqs \in Nat \ {0}
      /\ NumReqs % (EP * BatchSize) = 0 /\ steps \in Nat /\ workload.prompts \in SUBSET Nat
  BY LoopAssumption DEF DataOK, BatchSize
<1>2. Size \in Nat \ {0}
  BY <1>1 DEF Size
<1>3. NumReqs % Size = 0 /\ Chunks = NumReqs \div Size
  BY <1>1 DEF Size, Chunks
<1>4. Chunks \in Nat /\ NumReqs = Chunks * Size
  BY <1>1, <1>2, <1>3
<1> QED
  BY <1>1, <1>2, <1>4 DEF DataOK, Requests

(* Each row of the chunk is one thread's. *)
LEMMA RowsDealt ==
  ASSUME DataOK
  PROVE  /\ \A t \in Threads : RowsOf(t) \in SUBSET Rows
         /\ \A t, u \in Threads : \A b \in RowsOf(t) : b \in RowsOf(u) => t = u
         /\ \A b \in Rows : \E t \in Threads : b \in RowsOf(t)
<1> DEFINE B == BatchSize
<1>1. /\ EP \in Nat \ {0} /\ B \in Nat \ {0}
      /\ Rows = 0 .. EP * B - 1
      /\ \A t : RowsOf(t) = t * B .. (t + 1) * B - 1
  BY SizesOK DEF Rows, RowsOf
<1> HIDE DEF B
<1>2. ASSUME NEW t \in Threads
      PROVE  t \in Nat /\ t * B \in Nat /\ (t + 1) * B = t * B + B /\ t * B + B <= EP * B /\ EP * B \in Nat
  <2>1. t \in Nat /\ t < EP /\ t \in Int /\ EP \in Nat
    BY <1>1 DEF Threads
  <2> QED
    BY <1>1, <2>1, NextMultiple, ProductNat
<1> DEFINE First(t) == t * B
<1>r. ASSUME NEW t \in Threads
      PROVE  First(t) \in Nat /\ RowsOf(t) = First(t) .. (First(t) + B) - 1
  <2>1. (t + 1) * B = First(t) + B
    BY <1>2
  <2>2. RowsOf(t) = First(t) .. (t + 1) * B - 1
    BY <1>1
  <2> QED
    BY <1>2, <2>1, <2>2
<1>3. ASSUME NEW t \in Threads PROVE RowsOf(t) \in SUBSET Rows
  BY <1>1, <1>2
<1>4. ASSUME NEW t \in Threads, NEW u \in Threads, NEW b \in RowsOf(t), b \in RowsOf(u) PROVE t = u
  <2> DEFINE p == First(t)
             r == First(u)
             i == b - p
             j == b - r
  <2>1. /\ p \in Nat /\ r \in Nat /\ t \in Nat /\ u \in Nat
        /\ b \in p .. (p + B) - 1 /\ b \in r .. (r + B) - 1
    BY <1>2, <1>r, <1>4
  <2> HIDE DEF p, r
  <2>2. i \in 0 .. B - 1 /\ j \in 0 .. B - 1 /\ p + i = r + j
    BY <1>1, <2>1
  <2> HIDE DEF i, j
  <2>3. B \in Nat /\ t * B + i = u * B + j
    BY <1>1, <2>2 DEF p, r
  <2> QED
    BY <2>1, <2>2, <2>3, SamePair
<1>5. ASSUME NEW b \in Rows PROVE \E t \in Threads : b \in RowsOf(t)
  <2>1. b \in Nat /\ b < EP * B /\ b \in Int
    BY <1>1
  <2>2. /\ b \div B \in Nat /\ b % B \in 0 .. B - 1 /\ b = (b \div B) * B + (b % B)
    BY <1>1, <2>1, Division
  <2>3. b \div B < EP
    BY <1>1, <2>1
  <2>4. b \div B \in Threads
    BY <1>1, <2>2, <2>3 DEF Threads
  <2>5. ((b \div B) + 1) * B = (b \div B) * B + B
    BY <1>1, <2>2
  <2>6. b \in RowsOf(b \div B)
    <3> DEFINE p == First(b \div B)
    <3>1. p \in Nat /\ b = p + (b % B) /\ RowsOf(b \div B) = p .. (p + B) - 1
      BY <1>r, <2>2, <2>4
    <3> HIDE DEF p
    <3> QED
      BY <1>1, <2>1, <2>2, <3>1
  <2> QED
    BY <2>4, <2>6
<1> QED
  BY <1>3, <1>4, <1>5

(* The requests of the chunk are those of its rows. *)
LEMMA RequestsDealt ==
  ASSUME DataOK
  PROVE  /\ chunk < Chunks =>
              /\ \A b \in Rows : Request(b) \in Requests /\ ~Completed(Request(b)) /\ ~Waiting(Request(b))
              /\ \A b, c \in Rows : Request(b) = Request(c) => b = c
         /\ \A q \in Requests : ~Completed(q) /\ ~Waiting(q) =>
              chunk < Chunks /\ \E b \in Rows : q = Request(b)
         /\ \A q \in Requests : Waiting(q) => ~Completed(q) /\ chunk < Chunks
<1> DEFINE p == chunk * Size
           n == Chunks * Size
<1>1. /\ EP \in Nat \ {0} /\ BatchSize \in Nat \ {0} /\ Size \in Nat \ {0} /\ chunk \in Nat /\ Chunks \in Nat
      /\ chunk <= Chunks /\ NumReqs = n
  BY SizesOK DEF DataOK
<1>2. chunk * EP * BatchSize = p /\ (chunk + 1) * EP * BatchSize = p + Size /\ EP * BatchSize = Size
  BY <1>1 DEF Size
<1>3. p \in Nat /\ n \in Nat
  BY <1>1, ProductNat
<1>4. chunk < Chunks => p + Size <= n
  BY <1>1, NextMultiple
<1>5. chunk = Chunks => p = n
  OBVIOUS
<1> HIDE DEF p, n
<1>6. /\ \A q : Completed(q) <=> q < p
      /\ \A q : Waiting(q) <=> q >= p + Size
      /\ \A b : Request(b) = p + b
      /\ Rows = 0 .. Size - 1 /\ Requests = 0 .. n - 1
  BY <1>1, <1>2 DEF Completed, Waiting, Request, Rows, Requests
<1>7. ASSUME NEW q \in Requests, ~Completed(q), ~Waiting(q)
      PROVE  chunk < Chunks /\ \E b \in Rows : q = Request(b)
  <2>1. q \in Nat /\ p <= q /\ q < p + Size /\ q < n
    BY <1>1, <1>3, <1>6, <1>7
  <2>2. q - p \in Rows /\ q = Request(q - p)
    BY <1>1, <1>3, <1>6, <2>1
  <2> QED
    BY <1>1, <1>3, <1>5, <2>1, <2>2
<1>8. ASSUME NEW q \in Requests, Waiting(q)
      PROVE  ~Completed(q) /\ chunk < Chunks
  BY <1>1, <1>3, <1>5, <1>6, <1>8
<1>9. ASSUME chunk < Chunks, NEW b \in Rows
      PROVE  Request(b) \in Requests /\ ~Completed(Request(b)) /\ ~Waiting(Request(b))
  BY <1>1, <1>3, <1>4, <1>6, <1>9
<1>10. ASSUME chunk < Chunks, NEW b \in Rows, NEW c \in Rows, Request(b) = Request(c)
       PROVE  b = c
  BY <1>3, <1>6, <1>10
<1> QED
  BY <1>7, <1>8, <1>9, <1>10

(* Slots lie side by side in the arena. *)
LEMMA SlotsApart ==
  ASSUME DataOK
  PROVE  /\ \A q \in Requests : SlotStart(q) \in Nat
         /\ \A q \in Requests : \A k \in 0 .. steps : SlotStart(q) + k \in Arena /\ SlotStart(q) + k \in Slot(q)
         /\ \A q, r \in Requests : \A k \in 0 .. steps : SlotStart(r) + k \in Slot(q) => r = q
         /\ \A q, r \in Requests : \A k, l \in 0 .. steps :
              SlotStart(r) + k = SlotStart(q) + l => r = q /\ k = l
<1> DEFINE w == steps + 1
<1>1. steps \in Nat /\ w \in Nat \ {0} /\ NumReqs \in Nat /\ 0 .. steps = 0 .. w - 1
  BY SizesOK
<1>2. ASSUME NEW q \in Requests
      PROVE  q \in Nat /\ SlotStart(q) = q * w /\ q * w \in Nat /\ q * w + w <= NumReqs * w /\ NumReqs * w \in Nat
  <2>1. q \in Nat /\ q < NumReqs /\ w \in Nat
    BY <1>1 DEF Requests
  <2> QED
    BY <1>1, <2>1, NextMultiple, ProductNat DEF SlotStart
<1>3. Arena = 0 .. NumReqs * w - 1
  BY DEF Arena
<1> HIDE DEF w
<1>4. ASSUME NEW q \in Requests, NEW k \in 0 .. steps
      PROVE  SlotStart(q) + k \in Arena /\ SlotStart(q) + k \in Slot(q)
  <2>1. SlotStart(q) \in Nat /\ SlotStart(q) + w <= NumReqs * w /\ NumReqs * w \in Nat /\ k < w
    BY <1>1, <1>2
  <2> QED
    BY <1>1, <1>3, <2>1 DEF Slot
<1>5. ASSUME NEW q \in Requests, NEW r \in Requests, NEW k \in 0 .. steps, NEW l \in 0 .. steps,
             SlotStart(r) + k = SlotStart(q) + l
      PROVE  r = q /\ k = l
  <2>1. r \in Nat /\ q \in Nat /\ w \in Nat /\ k \in 0 .. w - 1 /\ l \in 0 .. w - 1 /\ r * w + k = q * w + l
    BY <1>1, <1>2, <1>5
  <2> QED
    BY <2>1, SamePair
<1>6. ASSUME NEW q \in Requests, NEW r \in Requests, NEW k \in 0 .. steps, SlotStart(r) + k \in Slot(q)
      PROVE  r = q
  <2>1. SlotStart(q) \in Nat /\ SlotStart(r) \in Nat
    BY <1>2
  <2> DEFINE l == (SlotStart(r) + k) - SlotStart(q)
  <2>2. l \in 0 .. steps /\ SlotStart(r) + k = SlotStart(q) + l
    BY <1>1, <1>6, <2>1 DEF Slot
  <2> HIDE DEF l
  <2> QED
    BY <2>2, <1>5
<1> QED
  BY <1>2, <1>4, <1>5, <1>6

(* Where a slot holds n tokens, Output and Ended are what they say. *)
LEMMA HoldsOutput ==
  ASSUME DataOK, NEW q \in Requests, NEW n, NEW last \in {0, Sentinel}, SlotHolds(tokGens, q, n, last)
  PROVE  /\ n \in Nat /\ n + nPrompt[q] <= steps
         /\ Stored(q) = n
<1>1. steps \in Nat /\ nPrompt[q] \in Nat
  BY SizesOK
<1>2. n \in Nat /\ n + nPrompt[q] <= steps
  BY <1>1 DEF SlotHolds
<1> DEFINE s == SlotStart(q)
<1>3. s \in Nat
  BY SlotsApart
<1>4. Slot(q) = s .. s + steps
  BY DEF Slot
<1>5. /\ \A k \in 0 .. n - 1 : tokGens[s + k] \in Tokens
      /\ \A k \in n .. steps : tokGens[s + k] \notin Tokens
  BY <1>1, <1>2 DEF SlotHolds, Tokens, Text, Stop, Sentinel
<1> HIDE DEF s
<1>6. {k \in Slot(q) : tokGens[k] \in Tokens} = s .. (s + n) - 1
  <2>1. ASSUME NEW k \in Slot(q), tokGens[k] \in Tokens PROVE k \in s .. (s + n) - 1
    <3>1. k - s \in 0 .. steps /\ s + (k - s) = k
      BY <1>1, <1>3, <1>4
    <3>2. ~(k - s \in n .. steps)
      BY <1>5, <2>1, <3>1
    <3> QED
      BY <1>1, <1>2, <1>3, <1>4, <3>1, <3>2
  <2>2. ASSUME NEW k \in s .. (s + n) - 1 PROVE k \in Slot(q) /\ tokGens[k] \in Tokens
    <3>1. k - s \in 0 .. n - 1 /\ s + (k - s) = k
      BY <1>1, <1>2, <1>3
    <3>2. k \in Slot(q)
      BY <1>1, <1>2, <1>3, <1>4
    <3> QED
      BY <1>5, <3>1, <3>2
  <2> QED
    BY <2>1, <2>2
<1>7. Cardinality(s .. (s + n) - 1) = n
  <2>1. s \in Int /\ (s + n) - 1 \in Int
    BY <1>2, <1>3
  <2>2. Cardinality(s .. (s + n) - 1) = IF s > (s + n) - 1 THEN 0 ELSE ((s + n) - 1) - s + 1
    BY <2>1, FS_Interval
  <2> QED
    BY <1>2, <1>3, <2>2
<1> QED
  BY <1>2, <1>6, <1>7 DEF Stored
-----------------------------------------------------------------------------
(* What the two steps that write the arena do to the slots. *)
LEMMA Running ==
  ASSUME DataInv, main = "running", NEW t \in Threads
  PROVE  /\ chunk < Chunks /\ ThreadInv(t)
         /\ RowsOf(t) \in SUBSET Rows
         /\ \A b \in RowsOf(t) : /\ RowInv(t, b) /\ SlotInv(t, b)
                                 /\ Request(b) \in Requests /\ Prompt(b) \in Nat
                                 /\ epos[b] \in Nat \cup {-1} /\ mask[b] \in BOOLEAN
<1>1. DataOK /\ chunk \in Nat /\ Chunks \in Nat /\ chunk < Chunks
  <2>1. DataOK
    BY DEF DataInv
  <2>2. chunk \in Nat /\ Chunks \in Nat /\ chunk <= Chunks /\ chunk # Chunks
    BY <2>1, SizesOK DEF DataOK
  <2> QED
    BY <2>1, <2>2
<1>2. ThreadInv(t) /\ \A b \in RowsOf(t) : RowInv(t, b) /\ SlotInv(t, b)
  BY <1>1 DEF DataInv, ChunkInv
<1>3. RowsOf(t) \in SUBSET Rows
  BY <1>1, RowsDealt
<1>4. \A b \in RowsOf(t) : Request(b) \in Requests
  BY <1>1, <1>3, RequestsDealt
<1>5. \A b \in RowsOf(t) : Prompt(b) \in Nat
  BY <1>1, <1>4, SizesOK DEF Prompt
<1>6. \A b \in RowsOf(t) : epos[b] \in Nat \cup {-1} /\ mask[b] \in BOOLEAN
  BY <1>1, <1>3 DEF DataOK
<1> QED
  BY <1>1, <1>2, <1>3, <1>4, <1>5, <1>6

LEMMA AdvanceSlots ==
  ASSUME IInv, DataInv, NEW t \in Threads, Advance(t)
  PROVE  LET at == pos[t] + 1
             g == tokGens
             h == tokGens'
         IN  /\ h \in [Arena -> Tokens \cup {0, Sentinel}]
             /\ at \in Nat /\ at >= 1 /\ at + 1 <= steps
             /\ \A b \in Generating(t) :
                  /\ b \in RowsOf(t) /\ mask[b]
                  /\ at - Prompt(b) \in 0 .. steps
                  /\ h[SlotStart(Request(b)) + (at - Prompt(b))] \in Tokens
                  /\ mask'[b] <=> h[SlotStart(Request(b)) + (at - Prompt(b))] # Stop
             /\ \A q \in Requests : \A k \in 0 .. steps :
                  (~\E b \in Generating(t) : q = Request(b) /\ k = at - Prompt(b))
                  => h[SlotStart(q) + k] = g[SlotStart(q) + k]
             /\ \A b \in Rows \ Generating(t) : mask'[b] = mask[b]
             /\ mask' \in [Rows -> BOOLEAN]
<1> DEFINE at == pos[t] + 1
           Cell(b) == SlotStart(Request(b)) + (at - Prompt(b))
<1>0. main = "running" /\ pc[t] = "forward" /\ DataOK
  BY DEF Advance, At, DataInv
<1>1. at \in Nat /\ at >= 1 /\ at + 1 <= steps /\ steps \in Nat
  <2>1. pos[t] \in Nat /\ steps \in Nat
    BY DEF IInv, ControlOK
  <2>2. pos[t] + 1 < steps
    BY <1>0 DEF IInv, Place
  <2> QED
    BY <2>1, <2>2
<1>2. \A b \in Generating(t) : /\ b \in RowsOf(t) /\ b \in Rows /\ mask[b]
                               /\ Request(b) \in Requests /\ Prompt(b) \in Nat /\ at >= Prompt(b)
  BY <1>0, Running DEF Generating, LiveRows
<1>3. \A b \in Generating(t) : at - Prompt(b) \in 0 .. steps
  BY <1>1, <1>2
<1>4. \A b, c \in Generating(t) : Cell(b) = Cell(c) => b = c
  <2> SUFFICES ASSUME NEW b \in Generating(t), NEW c \in Generating(t), Cell(b) = Cell(c)
               PROVE  b = c
    OBVIOUS
  <2>1. Request(b) = Request(c)
    BY <1>0, <1>2, <1>3, SlotsApart
  <2>2. chunk < Chunks
    BY <1>0, Running
  <2> QED
    BY <1>0, <1>2, <2>1, <2>2, RequestsDealt
<1>5. \A b \in Generating(t) : Cell(b) \in Arena
  BY <1>0, <1>2, <1>3, SlotsApart
<1>6. \A b \in Generating(t) : OutputCell(b, at) = Cell(b)
  BY DEF OutputCell
<1>7. PICK next \in [Generating(t) -> Tokens] :
        /\ tokGens' = [k \in Arena |->
             LET rows == {b \in Generating(t) : OutputCell(b, at) = k}
             IN IF rows = {} THEN tokGens[k] ELSE next[CHOOSE b \in rows : TRUE]]
        /\ mask' = [b \in Rows |-> mask[b] /\ (b \in Generating(t) => next[b] # Stop)]
  BY DEF Advance
<1> DEFINE RowsAt(k) == {b \in Generating(t) : OutputCell(b, at) = k}
<1>8. ASSUME NEW k \in Arena
      PROVE  tokGens'[k] = IF RowsAt(k) = {} THEN tokGens[k] ELSE next[CHOOSE b \in RowsAt(k) : TRUE]
  BY <1>7
<1>9. ASSUME NEW b \in Generating(t) PROVE tokGens'[Cell(b)] = next[b]
  <2>1. RowsAt(Cell(b)) = {b}
    BY <1>4, <1>6
  <2>2. (CHOOSE c \in {b} : TRUE) = b
    OBVIOUS
  <2> HIDE DEF RowsAt, Cell
  <2>3. Cell(b) \in Arena /\ RowsAt(Cell(b)) # {}
    BY <1>5, <2>1
  <2>4. tokGens'[Cell(b)] = next[CHOOSE c \in RowsAt(Cell(b)) : TRUE]
    BY <1>8, <2>3
  <2> QED
    BY <2>1, <2>2, <2>4
<1>10. ASSUME NEW q \in Requests, NEW k \in 0 .. steps,
              ~\E b \in Generating(t) : q = Request(b) /\ k = at - Prompt(b)
       PROVE  tokGens'[SlotStart(q) + k] = tokGens[SlotStart(q) + k]
  <2>1. ASSUME NEW b \in Generating(t), Cell(b) = SlotStart(q) + k PROVE FALSE
    <3>1. Request(b) = q /\ at - Prompt(b) = k
      BY <1>0, <1>2, <1>3, <2>1, SlotsApart
    <3> QED
      BY <1>10, <3>1
  <2>2. RowsAt(SlotStart(q) + k) = {}
    BY <1>6, <2>1
  <2>3. SlotStart(q) + k \in Arena
    BY <1>0, SlotsApart
  <2> HIDE DEF RowsAt
  <2> QED
    BY <1>8, <2>2, <2>3
<1>11. tokGens' \in [Arena -> Tokens \cup {0, Sentinel}]
  <2>1. ASSUME NEW k \in Arena PROVE tokGens'[k] \in Tokens \cup {0, Sentinel}
    <3>1. CASE RowsAt(k) = {}
      BY <1>0, <1>8, <3>1 DEF DataOK
    <3>2. CASE RowsAt(k) # {}
      <4>1. PICK b \in Generating(t) : k = Cell(b)
        BY <1>6, <3>2
      <4> QED
        BY <1>9, <4>1
    <3> QED
      BY <3>1, <3>2
  <2> QED
    BY <1>7, <2>1
<1>12. \A b \in Generating(t) : next[b] \in Tokens /\ (mask'[b] <=> next[b] # Stop)
  BY <1>2, <1>7
<1>13. \A b \in Rows \ Generating(t) : mask'[b] = mask[b]
  BY <1>0, <1>7 DEF DataOK
<1>14. mask' \in [Rows -> BOOLEAN]
  BY <1>0, <1>7 DEF DataOK
<1> QED
  BY <1>1, <1>2, <1>3, <1>9, <1>10, <1>11, <1>12, <1>13, <1>14

(* Where a row's output ends once its thread is out of the loop.  If the   *)
(* prompt is longer than the budget, that is in front of the slot.         *)
LEMMA RowEnds ==
  ASSUME IInv, DataInv, main = "running", NEW t \in Threads, pc[t] \in {"finish", "done"},
         NEW b \in RowsOf(t), epos[b] # -1
  PROVE  /\ EndOf(b) \in Int /\ EndOf(b) <= steps - Prompt(b)
         /\ EndOf(b) < 0 => EndOf(b) = steps - Prompt(b)
         /\ EndOf(b) >= 0 => EndOf(b) \in 0 .. steps
         /\ Prompt(b) <= steps => EndOf(b) = Count(b) /\ Count(b) \in 0 .. steps
         /\ mask[b] => pos[t] + 1 = steps /\ (Prompt(b) <= steps => Count(b) = steps - Prompt(b))
<1>1. /\ pos[t] \in Nat /\ steps \in Nat /\ Prompt(b) \in Nat /\ Prompt(b) >= 1
      /\ epos[b] \in Nat /\ mask[b] \in BOOLEAN
      /\ ThreadInv(t) /\ RowInv(t, b)
  BY Running DEF RowInv, IInv, ControlOK
<1>2. mask[b] => pos[t] # 0 /\ epos[b] = pos[t] /\ pos[t] + 1 = steps
  BY <1>1 DEF ThreadInv, RowInv
<1>3. ~mask[b] => epos[b] >= Prompt(b) /\ epos[b] <= pos[t] /\ (pos[t] = 0 \/ pos[t] + 1 <= steps)
  BY <1>1 DEF ThreadInv, RowInv
<1> QED
  BY <1>1, <1>2, <1>3 DEF EndOf, Count

LEMMA FinishSlots ==
  ASSUME IInv, DataInv, NEW t \in Threads, Finish(t), \A b \in RowsOf(t) : epos[b] # -1
  PROVE  LET g == tokGens
             h == tokGens'
         IN  /\ h \in [Arena -> Tokens \cup {0, Sentinel}]
             /\ \A b \in RowsOf(t) : Alone(Request(b)) => h[SlotStart(Request(b)) + Count(b)] = Sentinel
             /\ \A q \in Requests : \A k \in 0 .. steps :
                  Alone(q) /\ (~\E b \in RowsOf(t) : q = Request(b) /\ k = Count(b))
                  => h[SlotStart(q) + k] = g[SlotStart(q) + k]
<1>0. main = "running" /\ pc[t] = "finish" /\ DataOK
  BY DEF Finish, At, DataInv
<1>1. \A k \in Arena : tokGens'[k] = IF \E b \in RowsOf(t) : k = SlotStart(Request(b)) + EndOf(b)
                                       THEN Sentinel ELSE tokGens[k]
  BY DEF Finish
<1>2. tokGens' = [k \in Arena |-> tokGens'[k]]
  BY DEF Finish
<1>3. tokGens' \in [Arena -> Tokens \cup {0, Sentinel}]
  BY <1>0, <1>1, <1>2 DEF DataOK
<1>4. ASSUME NEW b \in RowsOf(t), Alone(Request(b))
      PROVE  tokGens'[SlotStart(Request(b)) + Count(b)] = Sentinel
  <2>1. Prompt(b) <= steps
    BY <1>4 DEF Alone, Prompt
  <2>2. EndOf(b) = Count(b) /\ Count(b) \in 0 .. steps
    BY <1>0, <2>1, RowEnds
  <2>3. Request(b) \in Requests
    BY <1>0, Running
  <2>4. SlotStart(Request(b)) + Count(b) \in Arena
    BY <1>0, <2>2, <2>3, SlotsApart
  <2> QED
    BY <1>1, <2>2, <2>4
<1>5. ASSUME NEW q \in Requests, NEW k \in 0 .. steps, Alone(q),
             ~\E b \in RowsOf(t) : q = Request(b) /\ k = Count(b)
      PROVE  tokGens'[SlotStart(q) + k] = tokGens[SlotStart(q) + k]
  <2>1. SlotStart(q) + k \in Arena /\ SlotStart(q) + k \in Slot(q)
    BY <1>0, SlotsApart
  <2>2. ASSUME NEW b \in RowsOf(t), SlotStart(q) + k = SlotStart(Request(b)) + EndOf(b) PROVE FALSE
    <3>1. Request(b) \in Requests /\ Prompt(b) = nPrompt[Request(b)] /\ Prompt(b) \in Nat /\ steps \in Nat
      BY <1>0, Running, SizesOK DEF Prompt
    <3>2. EndOf(b) \in Int /\ (EndOf(b) < 0 => EndOf(b) = steps - Prompt(b)) /\ (EndOf(b) >= 0 => EndOf(b) \in 0 .. steps)
      BY <1>0, RowEnds
    <3>3. Request(b) = q
      <4>1. CASE EndOf(b) >= 0
        <5>1. EndOf(b) \in 0 .. steps
          BY <3>2, <4>1
        <5> QED
          BY <1>0, <2>2, <3>1, <5>1, SlotsApart
      <4>2. CASE EndOf(b) < 0
        <5>1. SlotStart(Request(b)) + steps - nPrompt[Request(b)] \in Slot(q)
          BY <2>1, <2>2, <3>1, <3>2, <4>2
        <5> QED
          BY <1>5, <3>1, <5>1 DEF Alone, Undisturbed
      <4> QED
        BY <3>2, <4>1, <4>2
    <3>4. Prompt(b) <= steps
      BY <1>5, <3>1, <3>3 DEF Alone
    <3>5. EndOf(b) = Count(b) /\ Count(b) \in 0 .. steps
      BY <1>0, <3>4, RowEnds
    <3>6. k = Count(b)
      BY <1>0, <2>2, <3>1, <3>3, <3>5, SlotsApart
    <3> QED
      BY <1>5, <3>3, <3>6
  <2> QED
    BY <1>1, <2>1, <2>2
<1> QED
  BY <1>3, <1>4, <1>5
-----------------------------------------------------------------------------
(* No step changes the requests, so slots and rows stay where they are.    *)
LEMMA Fixed ==
  ASSUME UNCHANGED requestVars
  PROVE  /\ BatchSize' = BatchSize /\ Chunks' = Chunks /\ Rows' = Rows /\ Arena' = Arena
         /\ \A t : RowsOf(t)' = RowsOf(t)
         /\ \A q : SlotStart(q)' = SlotStart(q) /\ Slot(q)' = Slot(q) /\ (Alone(q)' <=> Alone(q))
<1>1. workload' = workload /\ steps' = steps /\ nPrompt' = nPrompt
  BY DEF requestVars
<1>2. BatchSize' = BatchSize /\ Chunks' = Chunks /\ Rows' = Rows /\ Arena' = Arena
  BY <1>1 DEF BatchSize, Chunks, Rows, Arena
<1>3. \A t : RowsOf(t)' = RowsOf(t)
  BY <1>2 DEF RowsOf
<1>4. \A q : SlotStart(q)' = SlotStart(q)
  BY <1>1 DEF SlotStart
<1>5. \A q : Slot(q)' = Slot(q)
  BY <1>1, <1>4 DEF Slot
<1>6. \A q : Alone(q)' <=> Alone(q)
  BY <1>1, <1>4, <1>5 DEF Alone, Undisturbed
<1> QED
  BY <1>2, <1>3, <1>4, <1>5, <1>6

LEMMA FixedChunk ==
  ASSUME UNCHANGED requestVars, chunk' = chunk
  PROVE  \A q : /\ Request(q)' = Request(q) /\ Prompt(q)' = Prompt(q)
                /\ Completed(q)' <=> Completed(q)
                /\ Waiting(q)' <=> Waiting(q)
<1>1. BatchSize' = BatchSize /\ nPrompt' = nPrompt
  BY Fixed DEF requestVars
<1> QED
  BY <1>1 DEF Request, Prompt, Completed, Waiting

LEMMA HoldsPrimed ==
  ASSUME UNCHANGED requestVars, NEW q, NEW n, NEW last
  PROVE  /\ SlotHolds(tokGens, q, n, last)' <=> SlotHolds(tokGens', q, n, last)
         /\ EndsInStop(tokGens, q, n)' <=> EndsInStop(tokGens', q, n)
<1>1. SlotStart(q)' = SlotStart(q) /\ steps' = steps /\ nPrompt' = nPrompt
  BY Fixed DEF requestVars
<1> QED
  BY <1>1 DEF SlotHolds, EndsInStop

LEMMA SlotPrimed ==
  ASSUME UNCHANGED requestVars, chunk' = chunk, NEW t, NEW b
  PROVE  SlotInv(t, b)' <=>
           (Alone(Request(b)) =>
              /\ SlotHolds(tokGens', Request(b), Count(b)', IF pc'[t] = "done" THEN Sentinel ELSE 0)
              /\ ~mask'[b] <=> EndsInStop(tokGens', Request(b), Count(b)'))
<1>1. SlotStart(Request(b))' = SlotStart(Request(b)) /\ steps' = steps /\ nPrompt' = nPrompt
  BY Fixed, FixedChunk DEF requestVars
<1>2. Request(b)' = Request(b) /\ (Alone(Request(b))' <=> Alone(Request(b)))
  BY Fixed, FixedChunk
<1> QED
  BY <1>1, <1>2 DEF SlotInv, SlotHolds, EndsInStop

(* A slot that is left alone holds what it held. *)
LEMMA SlotKept ==
  ASSUME DataOK, NEW q \in Requests, NEW n, NEW last, NEW g, NEW h,
         \A k \in 0 .. steps : h[SlotStart(q) + k] = g[SlotStart(q) + k],
         n \in 0 .. steps - nPrompt[q]
  PROVE  /\ SlotHolds(h, q, n, last) <=> SlotHolds(g, q, n, last)
         /\ EndsInStop(h, q, n) <=> EndsInStop(g, q, n)
<1>1. steps \in Nat /\ nPrompt[q] \in Nat
  BY SizesOK
<1>2. /\ n \in 0 .. steps
      /\ n > 0 => n - 1 \in 0 .. steps
      /\ \A k \in 0 .. n - 1 : k \in 0 .. steps
      /\ \A k \in 0 .. n - 2 : k \in 0 .. steps
      /\ \A k \in n + 1 .. steps : k \in 0 .. steps
  BY <1>1
<1>3. n \in Nat
  BY <1>1
<1>4. \A k \in 0 .. n - 1 : h[SlotStart(q) + k] = g[SlotStart(q) + k]
  BY <1>2
<1>5. \A k \in 0 .. n - 2 : h[SlotStart(q) + k] = g[SlotStart(q) + k]
  BY <1>2
<1>6. \A k \in n + 1 .. steps : h[SlotStart(q) + k] = g[SlotStart(q) + k]
  BY <1>2
<1>7. h[SlotStart(q) + n] = g[SlotStart(q) + n]
  BY <1>2
<1>8. n > 0 => h[SlotStart(q) + (n - 1)] = g[SlotStart(q) + (n - 1)]
  BY <1>2
<1>9. (n > 0 /\ h[SlotStart(q) + (n - 1)] = Stop) <=> (n > 0 /\ g[SlotStart(q) + (n - 1)] = Stop)
  BY <1>8
<1> QED
  BY <1>4, <1>5, <1>6, <1>7, <1>9 DEF SlotHolds, EndsInStop

LEMMA WellFormedIs ==
  ASSUME DataOK, NEW q \in Requests
  PROVE  WellFormed(q) <=>
           \E n \in 0 .. steps - nPrompt[q] :
             SlotHolds(tokGens, q, n, Sentinel) /\ (n < steps - nPrompt[q] => EndsInStop(tokGens, q, n))
BY DEF WellFormed, SlotHolds, EndsInStop

LEMMA WellFormedPrimed ==
  ASSUME UNCHANGED requestVars, NEW q \in Requests
  PROVE  WellFormed(q)' <=>
           \E n \in 0 .. steps - nPrompt[q] :
             SlotHolds(tokGens', q, n, Sentinel) /\ (n < steps - nPrompt[q] => EndsInStop(tokGens', q, n))
<1>1. SlotStart(q)' = SlotStart(q) /\ steps' = steps /\ nPrompt' = nPrompt
  BY Fixed DEF requestVars
<1> QED
  BY <1>1 DEF WellFormed, SlotHolds, EndsInStop

LEMMA AllAlone ==
  ASSUME DataOK, \A q \in Requests : nPrompt[q] <= steps
  PROVE  \A q \in Requests : Alone(q)
<1> SUFFICES ASSUME NEW q \in Requests, NEW r \in Requests \ {q},
                    SlotStart(r) + steps - nPrompt[r] \in Slot(q)
             PROVE  FALSE
  BY DEF Alone, Undisturbed
<1>1. steps - nPrompt[r] \in 0 .. steps
  BY SizesOK
<1>2. SlotStart(r) + (steps - nPrompt[r]) \in Slot(q)
  OBVIOUS
<1> QED
  BY <1>1, <1>2, SlotsApart

(* Steps that do not write to completed requests keep what is said of      *)
(* them.                                                                   *)
LEMMA OutputsKept ==
  ASSUME DataInv, UNCHANGED requestVars, chunk' = chunk, accTokenOut' = accTokenOut,
         \A q \in Requests : Completed(q) /\ Alone(q) =>
           \A k \in 0 .. steps : tokGens'[SlotStart(q) + k] = tokGens[SlotStart(q) + k]
  PROVE  OutputsWellFormed' /\ CountMatchesOutput'
<1>0. DataOK /\ nPrompt' = nPrompt /\ steps' = steps
  BY DEF DataInv, requestVars
<1>1. ASSUME NEW q \in Requests, Completed(q), Alone(q) PROVE WellFormed(q)'
  <2>1. WellFormed(q)
    BY <1>1 DEF DataInv, OutputsWellFormed
  <2>2. PICK n \in 0 .. steps - nPrompt[q] :
          SlotHolds(tokGens, q, n, Sentinel) /\ (n < steps - nPrompt[q] => EndsInStop(tokGens, q, n))
    BY <1>0, <2>1, WellFormedIs
  <2>3. \A k \in 0 .. steps : tokGens'[SlotStart(q) + k] = tokGens[SlotStart(q) + k]
    BY <1>1
  <2>4. SlotHolds(tokGens', q, n, Sentinel) /\ (n < steps - nPrompt[q] => EndsInStop(tokGens', q, n))
    BY <1>0, <2>2, <2>3, SlotKept
  <2> QED
    BY <2>4, WellFormedPrimed
<1>2. \A q : (Completed(q)' <=> Completed(q)) /\ (Alone(q)' <=> Alone(q))
  BY Fixed, FixedChunk
<1>3. OutputsWellFormed'
  BY <1>1, <1>2 DEF OutputsWellFormed
<1>4. ASSUME \A q \in Requests : nPrompt[q] <= steps
      PROVE  accTokenOut' = SumFunction([q \in {r \in Requests : Completed(r)'} |-> Stored(q)'])
  <2>1. ASSUME NEW q \in Requests, Completed(q) PROVE Stored(q)' = Stored(q)
    <3>1. \A k \in 0 .. steps : tokGens'[SlotStart(q) + k] = tokGens[SlotStart(q) + k]
      BY <1>0, <1>4, <2>1, AllAlone
    <3>2. \A k \in Slot(q) : k - SlotStart(q) \in 0 .. steps /\ SlotStart(q) + (k - SlotStart(q)) = k
      BY <1>0, SlotsApart, SizesOK DEF Slot
    <3>3. \A k \in Slot(q) : tokGens'[k] = tokGens[k]
      BY <3>1, <3>2
    <3>4. Slot(q)' = Slot(q)
      BY Fixed
    <3>5. {k \in Slot(q) : tokGens'[k] \in Tokens} = {k \in Slot(q) : tokGens[k] \in Tokens}
      BY <3>3
    <3> QED
      BY <3>4, <3>5 DEF Stored
  <2>2. {r \in Requests : Completed(r)'} = {r \in Requests : Completed(r)}
    BY <1>2
  <2>3. [q \in {r \in Requests : Completed(r)'} |-> Stored(q)'] = [q \in {r \in Requests : Completed(r)} |-> Stored(q)]
    BY <2>1, <2>2
  <2>4. accTokenOut = SumFunction([q \in {r \in Requests : Completed(r)} |-> Stored(q)])
    BY <1>4 DEF DataInv, CountMatchesOutput
  <2> QED
    BY <2>3, <2>4
<1>5. CountMatchesOutput'
  BY <1>0, <1>4 DEF CountMatchesOutput
<1> QED
  BY <1>3, <1>5

LEMMA WaitingKept ==
  ASSUME DataInv, UNCHANGED requestVars, chunk' = chunk,
         \A q \in Requests : Waiting(q) /\ Alone(q) =>
           \A k \in 0 .. steps : tokGens'[SlotStart(q) + k] = tokGens[SlotStart(q) + k]
  PROVE  WaitingInv'
<1>0. DataOK
  BY DEF DataInv
<1> SUFFICES ASSUME NEW q \in Requests, Waiting(q), Alone(q) PROVE SlotHolds(tokGens, q, 0, 0)'
  BY Fixed, FixedChunk DEF WaitingInv
<1>1. SlotHolds(tokGens, q, 0, 0)
  BY DEF DataInv, WaitingInv
<1>2. 0 \in 0 .. steps - nPrompt[q]
  BY <1>1 DEF SlotHolds
<1>3. SlotHolds(tokGens', q, 0, 0)
  BY <1>0, <1>1, <1>2, SlotKept
<1> QED
  BY <1>3, HoldsPrimed

(* A thread whose rows and slots a step does not change. *)
ThreadKept(u) ==
  /\ pos'[u] = pos[u] /\ threadStates'[u] = threadStates[u] /\ numTokenOut'[u] = numTokenOut[u]
  /\ pc'[u] = "done" <=> pc[u] = "done"
  /\ pc'[u] = "finish" => pc[u] = "finish" \/ pos[u] + 1 >= steps \/ threadStates[u] = 0
  /\ pc'[u] = "encode" => pc[u] = "encode"
  /\ pc'[u] # "encode" => pc[u] # "encode" \/ \A b \in RowsOf(u) : Prompt(b) >= 1
  /\ \A b \in RowsOf(u) :
       /\ epos'[b] = epos[b] /\ mask'[b] = mask[b]
       /\ Alone(Request(b)) =>
            \A k \in 0 .. steps : tokGens'[SlotStart(Request(b)) + k] = tokGens[SlotStart(Request(b)) + k]

LEMMA ThreadKeeps ==
  ASSUME DataInv, chunk < Chunks, UNCHANGED requestVars, chunk' = chunk, NEW u \in Threads, ThreadKept(u)
  PROVE  ThreadInv(u)' /\ \A b \in RowsOf(u) : RowInv(u, b)' /\ SlotInv(u, b)'
<1>0. DataOK /\ steps' = steps /\ RowsOf(u)' = RowsOf(u)
  BY Fixed DEF DataInv, requestVars
<1>1. /\ ThreadInv(u) /\ \A b \in RowsOf(u) : RowInv(u, b) /\ SlotInv(u, b)
      /\ \A b \in RowsOf(u) : b \in Rows /\ Request(b) \in Requests
  <2>1. ThreadInv(u) /\ \A b \in RowsOf(u) : RowInv(u, b) /\ SlotInv(u, b)
    BY DEF DataInv, ChunkInv
  <2>2. \A b \in RowsOf(u) : b \in Rows
    BY <1>0, RowsDealt
  <2>3. \A b \in RowsOf(u) : Request(b) \in Requests
    BY <1>0, <2>2, RequestsDealt
  <2> QED
    BY <2>1, <2>2, <2>3
<1>2. \A b \in RowsOf(u) : Prompt(b)' = Prompt(b) /\ EndOf(b)' = EndOf(b) /\ Count(b)' = Count(b)
  <2>1. \A b : Prompt(b)' = Prompt(b)
    BY FixedChunk
  <2> QED
    BY <2>1 DEF ThreadKept, EndOf, Count
<1>3. ThreadInv(u)'
  <2>1. [b \in RowsOf(u) |-> EndOf(b)]' = [b \in RowsOf(u) |-> EndOf(b)]
    BY <1>0, <1>2
  <2>2. threadStates'[u] = 0 => \A b \in RowsOf(u) : ~mask'[b]
    BY <1>1 DEF ThreadInv, ThreadKept
  <2>3. pc'[u] = "finish" => pos'[u] + 1 >= steps \/ threadStates'[u] = 0
    BY <1>1 DEF ThreadInv, ThreadKept
  <2>4. pos'[u] = 0 \/ pos'[u] + 1 <= steps
    BY <1>1 DEF ThreadInv, ThreadKept
  <2>5. pc'[u] = "done" => numTokenOut'[u] = SumFunction([b \in RowsOf(u) |-> EndOf(b)])
    BY <1>1 DEF ThreadInv, ThreadKept
  <2> QED
    BY <1>0, <2>1, <2>2, <2>3, <2>4, <2>5 DEF ThreadInv
<1>4. ASSUME NEW b \in RowsOf(u) PROVE RowInv(u, b)'
  BY <1>0, <1>1, <1>2 DEF RowInv, ThreadKept
<1>5. ASSUME NEW b \in RowsOf(u) PROVE SlotInv(u, b)'
  <2> SUFFICES ASSUME Alone(Request(b))
               PROVE  /\ SlotHolds(tokGens', Request(b), Count(b), IF pc'[u] = "done" THEN Sentinel ELSE 0)
                      /\ ~mask'[b] <=> EndsInStop(tokGens', Request(b), Count(b))
    BY <1>2, SlotPrimed
  <2>1. /\ SlotHolds(tokGens, Request(b), Count(b), IF pc[u] = "done" THEN Sentinel ELSE 0)
        /\ ~mask[b] <=> EndsInStop(tokGens, Request(b), Count(b))
    BY <1>1 DEF SlotInv
  <2>2. Count(b) \in 0 .. steps - nPrompt[Request(b)]
    BY <2>1 DEF SlotHolds
  <2>3. \A k \in 0 .. steps : tokGens'[SlotStart(Request(b)) + k] = tokGens[SlotStart(Request(b)) + k]
    BY DEF ThreadKept
  <2>4. (pc'[u] = "done" <=> pc[u] = "done") /\ mask'[b] = mask[b]
    BY DEF ThreadKept
  <2>5. /\ \A last : SlotHolds(tokGens', Request(b), Count(b), last) <=> SlotHolds(tokGens, Request(b), Count(b), last)
        /\ EndsInStop(tokGens', Request(b), Count(b)) <=> EndsInStop(tokGens, Request(b), Count(b))
    BY <1>0, <1>1, <2>2, <2>3, SlotKept
  <2> QED
    BY <2>1, <2>4, <2>5
<1> QED
  BY <1>3, <1>4, <1>5

(* Steps that change neither rows nor outputs. *)
LEMMA QuietData ==
  ASSUME DataInv,
         UNCHANGED <<requestVars, chunk, accTokenOut, rowVars, outputVars, threadStates>>,
         main' = main \/ (main = "running" /\ main' = "exited"),
         chunk < Chunks => \A u \in Threads : ThreadKept(u)
  PROVE  DataInv'
<1>1. /\ UNCHANGED requestVars /\ chunk' = chunk /\ accTokenOut' = accTokenOut /\ tokGens' = tokGens
      /\ workload' = workload /\ steps' = steps /\ nPrompt' = nPrompt /\ epos' = epos /\ mask' = mask
      /\ numTokenOut' = numTokenOut
  BY DEF requestVars, rowVars, outputVars
<1>2. DataOK'
  <2>1. Arena' = Arena /\ Chunks' = Chunks /\ Rows' = Rows
    BY <1>1, Fixed
  <2> QED
    BY <1>1, <2>1 DEF DataInv, DataOK
<1>3. ChunkInv'
  <2>1. Chunks' = Chunks /\ \A u : RowsOf(u)' = RowsOf(u)
    BY <1>1, Fixed
  <2>2. chunk < Chunks => \A u \in Threads : ThreadInv(u)' /\ \A b \in RowsOf(u) : RowInv(u, b)' /\ SlotInv(u, b)'
    BY <1>1, ThreadKeeps
  <2> QED
    BY <1>1, <2>1, <2>2 DEF ChunkInv
<1>4. WaitingInv' /\ OutputsWellFormed' /\ CountMatchesOutput'
  BY <1>1, WaitingKept, OutputsKept
<1> QED
  BY <1>2, <1>3, <1>4 DEF DataInv

LEMMA QuietSteps ==
  ASSUME IInv, DataInv, NEW t \in Threads,
         \/ Encode(t) \/ LoopTest(t) \/ ForwardArrive(t) \/ ForwardLeave(t)
         \/ SyncArrive(t) \/ SyncLeave(t) \/ Scan(t)
  PROVE  DataInv'
<1>0. /\ pc \in [Threads -> Between \cup {"forward", "sync"}] /\ pos \in [Threads -> Nat] /\ steps \in Nat
      /\ scanned \in [Threads -> 0 .. EP] /\ EP \in Nat
  BY LoopAssumption DEF IInv, ControlOK
<1>1. /\ UNCHANGED <<requestVars, chunk, accTokenOut, rowVars, outputVars, threadStates>>
      /\ main' = main \/ (main = "running" /\ main' = "exited")
      /\ pos' = pos /\ epos' = epos /\ mask' = mask /\ tokGens' = tokGens /\ numTokenOut' = numTokenOut
      /\ threadStates' = threadStates
  BY DEF Encode, LoopTest, ForwardArrive, ForwardLeave, SyncArrive, SyncLeave, Scan, ExitProcess, At,
         mainVars, rowVars, outputVars
<1>2. ASSUME chunk < Chunks, NEW u \in Threads PROVE ThreadKept(u)
  <2> DEFINE Moves == /\ pc'[u] = "done" <=> pc[u] = "done"
                      /\ pc'[u] = "finish" => pc[u] = "finish" \/ pos[u] + 1 >= steps \/ threadStates[u] = 0
                      /\ pc'[u] = "encode" => pc[u] = "encode"
                      /\ pc'[u] # "encode" => pc[u] # "encode" \/ \A b \in RowsOf(u) : Prompt(b) >= 1
  <2>1. ASSUME pc'[u] = pc[u] PROVE Moves
    <3>1. pc[u] = "finish" => pos[u] + 1 >= steps \/ threadStates[u] = 0
      BY <1>2 DEF DataInv, ChunkInv, ThreadInv
    <3> QED
      BY <2>1, <3>1
  <2>2. ASSUME Encode(t) PROVE Moves
    <3>1. pc[t] = "encode" /\ (pc' = pc \/ (pc' = [pc EXCEPT ![t] = "loop"] /\ ~\E b \in RowsOf(t) : Prompt(b) < 1))
      BY <2>2 DEF Encode, At, ExitProcess, GoTo, controlVars
    <3>2. \A b \in RowsOf(t) : Prompt(b) \in Nat
      BY <2>2, Running DEF Encode, At
    <3> QED
      BY <1>0, <2>1, <3>1, <3>2
  <2>3. ASSUME LoopTest(t) PROVE Moves
    <3>1. pc[t] = "loop" /\ pc' = [pc EXCEPT ![t] = IF pos[t] + 1 < steps THEN "forward" ELSE "finish"]
      BY <2>3 DEF LoopTest, At, GoTo
    <3> QED
      BY <1>0, <2>1, <3>1
  <2>4. ASSUME ForwardArrive(t) \/ ForwardLeave(t) \/ SyncArrive(t) PROVE Moves
    <3>1. pc' = pc
      BY <2>4 DEF ForwardArrive, ForwardLeave, SyncArrive, controlVars
    <3> QED
      BY <2>1, <3>1
  <2>5. ASSUME SyncLeave(t) PROVE Moves
    <3>1. pc[t] = "sync" /\ pc' = [pc EXCEPT ![t] = "scan"]
      BY <2>5 DEF SyncLeave, At, GoTo
    <3> QED
      BY <1>0, <2>1, <3>1
  <2>6. ASSUME Scan(t) PROVE Moves
    <3>1. /\ pc[t] = "scan"
          /\ \/ pc' = pc
             \/ pc' = [pc EXCEPT ![t] = "loop"]
             \/ scanned[t] = EP /\ pc' = [pc EXCEPT ![t] = "finish"]
      BY <2>6 DEF Scan, At, GoTo
    <3>2. scanned[t] = EP => threadStates[t] = 0
      <4>1. t < EP
        BY <1>0 DEF Threads
      <4> QED
        BY <3>1, <4>1 DEF IInv, ScannedZero
    <3> QED
      BY <1>0, <2>1, <3>1, <3>2
  <2>7. Moves
    BY <2>2, <2>3, <2>4, <2>5, <2>6
  <2> QED
    BY <1>1, <2>7 DEF ThreadKept
<1> QED
  BY <1>1, <1>2, QuietData

LEMMA AdvanceData ==
  ASSUME IInv, DataInv, NEW t \in Threads, Advance(t)
  PROVE  DataInv'
<1> DEFINE at == pos[t] + 1
           Written(q, k) == \E b \in Generating(t) : q = Request(b) /\ k = at - Prompt(b)
<1>0. /\ main = "running" /\ pc[t] = "forward" /\ DataOK /\ chunk < Chunks
      /\ UNCHANGED requestVars /\ chunk' = chunk /\ accTokenOut' = accTokenOut /\ main' = main
      /\ numTokenOut' = numTokenOut /\ steps' = steps /\ workload' = workload /\ nPrompt' = nPrompt
      /\ pos' = [pos EXCEPT ![t] = at] /\ pc' = [pc EXCEPT ![t] = "sync"]
      /\ epos' = [b \in Rows |-> IF b \in LiveRows(t) THEN at ELSE epos[b]]
      /\ threadStates' = [threadStates EXCEPT ![t] = IF \A b \in RowsOf(t) : ~mask'[b] THEN 0 ELSE @]
  <2>1. main = "running"
    BY DEF Advance, At
  <2> QED
    BY <2>1, Running DEF Advance, At, GoTo, DataInv, mainVars, requestVars
<1>1. /\ tokGens' \in [Arena -> Tokens \cup {0, Sentinel}]
      /\ at \in Nat /\ at >= 1 /\ at + 1 <= steps
      /\ \A b \in Generating(t) :
           /\ b \in RowsOf(t) /\ mask[b]
           /\ at - Prompt(b) \in 0 .. steps
           /\ tokGens'[SlotStart(Request(b)) + (at - Prompt(b))] \in Tokens
           /\ mask'[b] <=> tokGens'[SlotStart(Request(b)) + (at - Prompt(b))] # Stop
      /\ \A q \in Requests : \A k \in 0 .. steps :
           ~Written(q, k) => tokGens'[SlotStart(q) + k] = tokGens[SlotStart(q) + k]
      /\ \A b \in Rows \ Generating(t) : mask'[b] = mask[b]
      /\ mask' \in [Rows -> BOOLEAN]
  BY AdvanceSlots
<1>2. /\ steps \in Nat /\ pos[t] \in Nat /\ pos \in [Threads -> Nat] /\ threadStates \in [Threads -> {0, 1}]
      /\ pc \in [Threads -> Between \cup {"forward", "sync"}]
      /\ epos \in [Rows -> Nat \cup {-1}] /\ mask \in [Rows -> BOOLEAN]
  BY <1>0 DEF IInv, ControlOK, DataOK
<1>3. DataOK'
  <2>1. epos' \in [Rows -> Nat \cup {-1}]
    BY <1>0, <1>1, <1>2
  <2>2. Arena' = Arena /\ Chunks' = Chunks /\ Rows' = Rows
    BY <1>0, Fixed
  <2>3. tokGens' \in [Arena -> Tokens \cup {0, Sentinel}] /\ mask' \in [Rows -> BOOLEAN]
    BY <1>1
  <2> QED
    BY <1>0, <2>1, <2>2, <2>3 DEF DataOK
<1>4. \A b \in Generating(t) : b \in RowsOf(t) /\ b \in Rows
  BY <1>0, <1>1, RowsDealt
<1>5. \A b \in Generating(t) : ~Waiting(Request(b)) /\ ~Completed(Request(b))
  BY <1>0, <1>4, RequestsDealt
<1>6. OutputsWellFormed' /\ CountMatchesOutput'
  <2>1. \A q \in Requests : Completed(q) => \A k \in 0 .. steps : ~Written(q, k)
    BY <1>5
  <2>2. \A q \in Requests : Completed(q) /\ Alone(q) =>
          \A k \in 0 .. steps : tokGens'[SlotStart(q) + k] = tokGens[SlotStart(q) + k]
    BY <1>1, <2>1
  <2> QED
    BY <1>0, <2>2, OutputsKept
<1>7. WaitingInv'
  <2>1. \A q \in Requests : Waiting(q) => \A k \in 0 .. steps : ~Written(q, k)
    BY <1>5
  <2>2. \A q \in Requests : Waiting(q) /\ Alone(q) =>
          \A k \in 0 .. steps : tokGens'[SlotStart(q) + k] = tokGens[SlotStart(q) + k]
    BY <1>1, <2>1
  <2> QED
    BY <1>0, <2>2, WaitingKept
<1>8. ASSUME NEW u \in Threads, u # t
      PROVE  ThreadInv(u)' /\ \A b \in RowsOf(u) : RowInv(u, b)' /\ SlotInv(u, b)'
  <2>1. /\ pos'[u] = pos[u] /\ pc'[u] = pc[u] /\ threadStates'[u] = threadStates[u]
        /\ numTokenOut'[u] = numTokenOut[u]
    BY <1>0, <1>2, <1>8
  <2>2. pc[u] = "finish" => pos[u] + 1 >= steps \/ threadStates[u] = 0
    BY <1>0, Running DEF ThreadInv
  <2>3. ASSUME NEW b \in RowsOf(u)
        PROVE  /\ epos'[b] = epos[b] /\ mask'[b] = mask[b]
               /\ \A k \in 0 .. steps :
                    tokGens'[SlotStart(Request(b)) + k] = tokGens[SlotStart(Request(b)) + k]
    <3>1. b \in Rows /\ b \notin RowsOf(t)
      BY <1>0, <1>8, RowsDealt
    <3>2. b \notin LiveRows(t) /\ b \notin Generating(t)
      BY <3>1 DEF LiveRows, Generating
    <3>3. Request(b) \in Requests /\ \A c \in Generating(t) : Request(b) # Request(c)
      BY <1>0, <1>4, <3>1, <3>2, RequestsDealt
    <3>4. \A k \in 0 .. steps : ~Written(Request(b), k)
      BY <3>3
    <3> HIDE DEF Written
    <3> QED
      BY <1>0, <1>1, <3>1, <3>2, <3>3, <3>4
  <2>4. ThreadKept(u)
    BY <2>1, <2>2, <2>3 DEF ThreadKept
  <2> QED
    BY <1>0, <2>4, ThreadKeeps
<1>9. ThreadInv(t) /\ \A b \in RowsOf(t) : /\ RowInv(t, b) /\ SlotInv(t, b) /\ b \in Rows
                                          /\ Request(b) \in Requests /\ Prompt(b) \in Nat
                                          /\ Prompt(b) = nPrompt[Request(b)]
  BY <1>0, Running DEF Prompt
<1>10. pc'[t] = "sync" /\ pos'[t] = at /\ at # 0
  BY <1>0, <1>1, <1>2
<1>11. ASSUME NEW b \in RowsOf(t)
       PROVE  /\ mask'[b] => mask[b]
              /\ epos'[b] = IF mask[b] THEN at ELSE epos[b]
              /\ Prompt(b) >= 1
              /\ mask[b] => epos[b] = IF pos[t] = 0 THEN -1 ELSE pos[t]
              /\ ~mask[b] => epos[b] \in Prompt(b) .. pos[t]
              /\ b \in Generating(t) <=> mask[b] /\ at >= Prompt(b)
  <2>1. b \in LiveRows(t) <=> mask[b]
    BY DEF LiveRows
  <2>2. b \in Generating(t) <=> mask[b] /\ at >= Prompt(b)
    BY DEF Generating, LiveRows
  <2>3. mask'[b] => mask[b]
    BY <1>1, <1>9
  <2>4. epos'[b] = IF mask[b] THEN at ELSE epos[b]
    BY <1>0, <1>9, <2>1
  <2>5. /\ Prompt(b) >= 1
        /\ mask[b] => epos[b] = IF pos[t] = 0 THEN -1 ELSE pos[t]
        /\ ~mask[b] => epos[b] \in Prompt(b) .. pos[t]
    BY <1>0, <1>9 DEF RowInv
  <2> QED
    BY <2>2, <2>3, <2>4, <2>5
<1>12. ThreadInv(t)'
  <2>1. RowsOf(t)' = RowsOf(t)
    BY <1>0, Fixed
  <2>2. threadStates'[t] = 0 => \A b \in RowsOf(t) : ~mask'[b]
    <3>1. threadStates'[t] = IF \A b \in RowsOf(t) : ~mask'[b] THEN 0 ELSE threadStates[t]
      BY <1>0, <1>2
    <3>2. threadStates[t] = 0 => \A b \in RowsOf(t) : ~mask[b]
      BY <1>9 DEF ThreadInv
    <3> QED
      BY <1>11, <3>1, <3>2
  <2> QED
    BY <1>0, <1>1, <1>10, <2>1, <2>2 DEF ThreadInv
<1>13. ASSUME NEW b \in RowsOf(t) PROVE RowInv(t, b)'
  <2>1. Prompt(b)' = Prompt(b)
    BY <1>0, FixedChunk
  <2>2. ~mask'[b] => epos'[b] \in Prompt(b) .. at
    <3>1. CASE ~mask[b]
      BY <1>2, <1>9, <1>11, <3>1
    <3>2. CASE mask[b] /\ ~mask'[b]
      <4>1. b \in Generating(t)
        BY <1>1, <1>9, <3>2
      <4> QED
        BY <1>1, <1>9, <1>11, <3>2, <4>1
    <3> QED
      BY <3>1, <3>2
  <2> QED
    BY <1>10, <1>11, <2>1, <2>2 DEF RowInv
<1>14. ASSUME NEW b \in RowsOf(t) PROVE SlotInv(t, b)'
  <2> DEFINE q == Request(b)
             n == Count(b)
             m == Count(b)'
             s == SlotStart(q)
  <2> SUFFICES ASSUME Alone(q)
               PROVE  SlotHolds(tokGens', q, m, 0) /\ (~mask'[b] <=> EndsInStop(tokGens', q, m))
    BY <1>0, <1>10, SlotPrimed
  <2>1. SlotHolds(tokGens, q, n, 0) /\ (~mask[b] <=> EndsInStop(tokGens, q, n))
    BY <1>0, <1>9 DEF SlotInv
  <2>2. Prompt(b)' = Prompt(b) /\ Prompt(b) = nPrompt[q] /\ q \in Requests /\ Prompt(b) \in Nat
    BY <1>0, <1>9, FixedChunk
  <2>3. n \in 0 .. steps - nPrompt[q]
    BY <2>1 DEF SlotHolds
  <2>4. CASE b \notin Generating(t)
    <3>1. \A c \in Generating(t) : q # Request(c)
      BY <1>0, <1>4, <1>9, <2>4, RequestsDealt
    <3>2. \A k \in 0 .. steps : ~Written(q, k)
      BY <3>1
    <3>3. m = n
      BY <1>1, <1>2, <1>9, <1>11, <2>2, <2>4 DEF Count
    <3>4. mask'[b] = mask[b]
      BY <1>1, <1>9, <2>4
    <3>5. \A k \in 0 .. steps : tokGens'[SlotStart(q) + k] = tokGens[SlotStart(q) + k]
      BY <1>1, <2>2, <3>2
    <3> HIDE DEF n, m, q
    <3>6. SlotHolds(tokGens', q, n, 0) /\ (~mask[b] <=> EndsInStop(tokGens', q, n))
      BY <1>0, <2>1, <2>2, <2>3, <3>5, SlotKept
    <3> QED
      BY <3>3, <3>4, <3>6
  <2>5. CASE b \in Generating(t)
    <3>1. at - Prompt(b) = n /\ m = n + 1 /\ n + 1 <= steps - nPrompt[q] /\ n \in Nat
      BY <1>1, <1>2, <1>9, <1>11, <2>2, <2>5 DEF Count
    <3>2. \A k \in 0 .. steps : k # n => ~Written(q, k)
      <4> SUFFICES ASSUME NEW k \in 0 .. steps, NEW c \in Generating(t), q = Request(c), k = at - Prompt(c)
                   PROVE  k = n
        OBVIOUS
      <4>1. c = b
        BY <1>0, <1>4, <1>9, RequestsDealt
      <4> QED
        BY <3>1, <4>1
    <3>3. \A k \in 0 .. steps : k # n => tokGens'[s + k] = tokGens[s + k]
      BY <1>1, <2>2, <3>2
    <3>4. tokGens'[s + n] \in Tokens /\ (mask'[b] <=> tokGens'[s + n] # Stop)
      BY <1>1, <2>5, <3>1
    <3>5. ~EndsInStop(tokGens, q, n)
      BY <1>1, <2>1, <2>5
    <3>6. /\ \A k \in 0 .. n - 1 : tokGens[s + k] \in Tokens
          /\ \A k \in 0 .. n - 2 : tokGens[s + k] # Stop
          /\ \A k \in n + 1 .. steps : tokGens[s + k] = 0
          /\ n > 0 => tokGens[s + (n - 1)] # Stop
      BY <2>1, <3>5 DEF SlotHolds, EndsInStop
    <3>7. steps \in Nat /\ nPrompt[q] \in Nat
      BY <1>2, <2>2
    <3>8. SlotHolds(tokGens', q, n + 1, 0)
      <4> HIDE DEF n, q, s
      <4>1. n + 1 \in 0 .. steps - nPrompt[q]
        BY <3>1, <3>7
      <4>2. \A k \in 0 .. (n + 1) - 1 : tokGens'[s + k] \in Tokens
        BY <3>1, <3>3, <3>4, <3>6, <3>7
      <4>3. \A k \in 0 .. (n + 1) - 2 : tokGens'[s + k] # Stop
        <5> SUFFICES ASSUME NEW k \in 0 .. (n + 1) - 2 PROVE tokGens'[s + k] # Stop
          OBVIOUS
        <5>1. k \in 0 .. steps /\ k # n /\ (k \in 0 .. n - 2 \/ (n > 0 /\ k = n - 1))
          BY <3>1, <3>7
        <5> QED
          BY <3>3, <3>6, <5>1
      <4>4. tokGens'[s + (n + 1)] = 0
        BY <3>1, <3>3, <3>6, <3>7
      <4>5. \A k \in (n + 1) + 1 .. steps : tokGens'[s + k] = 0
        BY <3>1, <3>3, <3>6, <3>7
      <4> QED
        BY <4>1, <4>2, <4>3, <4>4, <4>5 DEF SlotHolds, s
    <3>9. EndsInStop(tokGens', q, n + 1) <=> ~mask'[b]
      <4>1. (n + 1) - 1 = n /\ n + 1 > 0
        BY <3>1
      <4>2. mask'[b] \in BOOLEAN
        BY <1>1, <1>9
      <4> HIDE DEF n, q
      <4> QED
        BY <3>4, <4>1, <4>2 DEF EndsInStop
    <3> QED
      BY <3>1, <3>8, <3>9
  <2> QED
    BY <2>4, <2>5
<1>15. ChunkInv'
  <2>1. \A u : RowsOf(u)' = RowsOf(u)
    BY <1>0, Fixed
  <2>2. \A u \in Threads : ThreadInv(u)' /\ \A b \in RowsOf(u) : RowInv(u, b)' /\ SlotInv(u, b)'
    BY <1>8, <1>12, <1>13, <1>14
  <2> QED
    BY <2>1, <2>2 DEF ChunkInv
<1> QED
  BY <1>3, <1>6, <1>7, <1>15 DEF DataInv

LEMMA FinishData ==
  ASSUME IInv, DataInv, NEW t \in Threads, Finish(t)
  PROVE  DataInv'
<1>0. main = "running" /\ pc[t] = "finish" /\ DataOK /\ chunk < Chunks
  <2>1. main = "running" /\ pc[t] = "finish"
    BY DEF Finish, At
  <2> QED
    BY <2>1, Running DEF DataInv
<1>p. pc \in [Threads -> Between \cup {"forward", "sync"}] /\ steps \in Nat /\ pos \in [Threads -> Nat]
  BY DEF IInv, ControlOK
<1>k. \A u \in Threads : pc[u] = "finish" => pos[u] + 1 >= steps \/ threadStates[u] = 0
  BY <1>0, Running DEF ThreadInv
<1>1. CASE \E b \in RowsOf(t) : epos[b] = -1
  <2>1. /\ UNCHANGED <<requestVars, chunk, accTokenOut, rowVars, outputVars, threadStates>>
        /\ main' = "exited" /\ pc' = pc
        /\ pos' = pos /\ epos' = epos /\ mask' = mask /\ tokGens' = tokGens /\ numTokenOut' = numTokenOut
        /\ threadStates' = threadStates
    BY <1>1 DEF Finish, ExitProcess, controlVars, rowVars, outputVars
  <2>2. \A u \in Threads : ThreadKept(u)
    BY <1>k, <2>1 DEF ThreadKept
  <2> QED
    BY <1>0, <2>1, <2>2, QuietData
<1>2. CASE \A b \in RowsOf(t) : epos[b] # -1
  <2> DEFINE Written(q, k) == \E b \in RowsOf(t) : q = Request(b) /\ k = Count(b)
  <2>1. /\ UNCHANGED requestVars /\ chunk' = chunk /\ accTokenOut' = accTokenOut /\ main' = main
        /\ pos' = pos /\ epos' = epos /\ mask' = mask /\ threadStates' = threadStates
        /\ steps' = steps /\ workload' = workload /\ nPrompt' = nPrompt
        /\ numTokenOut' = [numTokenOut EXCEPT ![t] = SumFunction([b \in RowsOf(t) |-> EndOf(b)])]
        /\ pc' = [pc EXCEPT ![t] = "done"]
    BY <1>2 DEF Finish, GoTo, mainVars, rowVars, requestVars
  <2>2. /\ tokGens' \in [Arena -> Tokens \cup {0, Sentinel}]
        /\ \A b \in RowsOf(t) : Alone(Request(b)) => tokGens'[SlotStart(Request(b)) + Count(b)] = Sentinel
        /\ \A q \in Requests : \A k \in 0 .. steps :
             Alone(q) /\ ~Written(q, k) => tokGens'[SlotStart(q) + k] = tokGens[SlotStart(q) + k]
    BY <1>2, FinishSlots
  <2>3. \A b \in RowsOf(t) : b \in Rows /\ Request(b) \in Requests /\ ~Waiting(Request(b)) /\ ~Completed(Request(b))
    BY <1>0, RowsDealt, RequestsDealt
  <2>4. DataOK'
    <3>1. SumFunction([b \in RowsOf(t) |-> EndOf(b)]) \in Int
      <4> DEFINE f == [b \in RowsOf(t) |-> EndOf(b)]
      <4>1. IsFiniteSet(Rows)
        <5>1. 0 \in Int /\ EP * BatchSize - 1 \in Int
          BY <1>0, SizesOK
        <5> QED
          BY <5>1, FS_Interval DEF Rows
      <4>2. IsFiniteSet(RowsOf(t)) /\ \A b \in RowsOf(t) : f[b] \in Int /\ DOMAIN f = RowsOf(t)
        <5>1. RowsOf(t) \in SUBSET Rows
          BY <2>3
        <5>2. IsFiniteSet(RowsOf(t))
          BY <4>1, <5>1, FS_Subset
        <5>3. \A b \in RowsOf(t) : EndOf(b) \in Int
          BY <1>0, <1>2, RowEnds
        <5> QED
          BY <5>2, <5>3
      <4>3. DOMAIN f = RowsOf(t)
        OBVIOUS
      <4> HIDE DEF f
      <4>4. SumFunctionOnSet(f, RowsOf(t)) \in Int
        BY <4>2, SumStep
      <4>5. SumFunction(f) = SumFunctionOnSet(f, DOMAIN f)
        BY SumFunctionIs
      <4> QED
        BY <4>3, <4>4, <4>5 DEF f
    <3>2. Arena' = Arena /\ Chunks' = Chunks /\ Rows' = Rows
      BY <2>1, Fixed
    <3> QED
      BY <1>0, <2>1, <2>2, <3>1, <3>2 DEF DataOK
  <2>5. OutputsWellFormed' /\ CountMatchesOutput'
    <3>1. \A q \in Requests : Completed(q) => \A k \in 0 .. steps : ~Written(q, k)
      BY <2>3
    <3> QED
      BY <2>1, <2>2, <3>1, OutputsKept
  <2>6. WaitingInv'
    <3>1. \A q \in Requests : Waiting(q) => \A k \in 0 .. steps : ~Written(q, k)
      BY <2>3
    <3> QED
      BY <2>1, <2>2, <3>1, WaitingKept
  <2>7. ASSUME NEW u \in Threads, u # t
        PROVE  ThreadInv(u)' /\ \A b \in RowsOf(u) : RowInv(u, b)' /\ SlotInv(u, b)'
    <3>1. /\ pos'[u] = pos[u] /\ pc'[u] = pc[u] /\ threadStates'[u] = threadStates[u]
          /\ numTokenOut'[u] = numTokenOut[u]
      BY <1>0, <1>p, <2>1, <2>7 DEF DataOK
    <3>2. ASSUME NEW b \in RowsOf(u), Alone(Request(b)), NEW k \in 0 .. steps
          PROVE  tokGens'[SlotStart(Request(b)) + k] = tokGens[SlotStart(Request(b)) + k]
      <4>1. b \in Rows /\ b \notin RowsOf(t)
        BY <1>0, <2>7, RowsDealt
      <4>2. Request(b) \in Requests /\ \A c \in RowsOf(t) : Request(b) # Request(c)
        BY <1>0, <2>3, <4>1, RequestsDealt
      <4>3. ~Written(Request(b), k)
        BY <4>2
      <4> HIDE DEF Written
      <4> QED
        BY <2>2, <3>2, <4>2, <4>3
    <3>3. ThreadKept(u)
      BY <1>k, <2>1, <3>1, <3>2 DEF ThreadKept
    <3> QED
      BY <1>0, <2>1, <3>3, ThreadKeeps
  <2>8. ThreadInv(t) /\ \A b \in RowsOf(t) : RowInv(t, b) /\ SlotInv(t, b)
    BY <1>0, Running
  <2>9. pc'[t] = "done" /\ numTokenOut'[t] = SumFunction([b \in RowsOf(t) |-> EndOf(b)])
    BY <1>0, <1>p, <2>1 DEF DataOK
  <2>10. \A b \in RowsOf(t) : Prompt(b)' = Prompt(b) /\ EndOf(b)' = EndOf(b) /\ Count(b)' = Count(b)
    <3>1. \A b : Prompt(b)' = Prompt(b)
      BY <2>1, FixedChunk
    <3> QED
      BY <2>1, <3>1 DEF EndOf, Count
  <2>11. ThreadInv(t)'
    <3>1. RowsOf(t)' = RowsOf(t)
      BY <2>1, Fixed
    <3>2. [b \in RowsOf(t) |-> EndOf(b)]' = [b \in RowsOf(t) |-> EndOf(b)]
      BY <2>10, <3>1
    <3> QED
      BY <2>1, <2>8, <2>9, <3>1, <3>2 DEF ThreadInv
  <2>12. ASSUME NEW b \in RowsOf(t) PROVE RowInv(t, b)'
    <3>1. mask[b] => pos[t] + 1 = steps
      BY <1>0, <1>2, RowEnds
    <3> QED
      BY <1>0, <1>2, <2>1, <2>8, <2>9, <2>10, <3>1 DEF RowInv
  <2>13. ASSUME NEW b \in RowsOf(t) PROVE SlotInv(t, b)'
    <3> DEFINE q == Request(b)
               n == Count(b)
               s == SlotStart(q)
    <3> SUFFICES ASSUME Alone(q)
                 PROVE  SlotHolds(tokGens', q, n, Sentinel) /\ (~mask[b] <=> EndsInStop(tokGens', q, n))
      BY <2>1, <2>9, <2>10, SlotPrimed
    <3>1. SlotHolds(tokGens, q, n, 0) /\ (~mask[b] <=> EndsInStop(tokGens, q, n))
      BY <1>0, <2>8 DEF SlotInv
    <3>2. q \in Requests /\ steps \in Nat /\ nPrompt[q] \in Nat
      BY <1>0, <2>3, SizesOK
    <3>3. tokGens'[s + n] = Sentinel
      BY <2>2
    <3>4. n \in 0 .. steps - nPrompt[q]
      BY <3>1 DEF SlotHolds
    <3>5. \A k \in 0 .. steps : k # n => tokGens'[s + k] = tokGens[s + k]
      <4> SUFFICES ASSUME NEW k \in 0 .. steps, k # n PROVE ~Written(q, k)
        BY <2>2, <3>2
      <4>1. \A c \in RowsOf(t) : q = Request(c) => c = b
        BY <1>0, <2>3, RequestsDealt
      <4> QED
        BY <4>1
    <3> HIDE DEF q, n, s
    <3>6. /\ n \in Nat /\ n <= steps
          /\ \A k \in 0 .. n - 1 : k \in 0 .. steps /\ k # n
          /\ \A k \in 0 .. n - 2 : k \in 0 .. steps /\ k # n
          /\ \A k \in n + 1 .. steps : k \in 0 .. steps /\ k # n
          /\ n > 0 => n - 1 \in 0 .. steps /\ n - 1 # n
      BY <3>2, <3>4
    <3>7. /\ \A k \in 0 .. n - 1 : tokGens'[s + k] = tokGens[s + k]
          /\ \A k \in 0 .. n - 2 : tokGens'[s + k] = tokGens[s + k]
          /\ \A k \in n + 1 .. steps : tokGens'[s + k] = tokGens[s + k]
          /\ n > 0 => tokGens'[s + (n - 1)] = tokGens[s + (n - 1)]
      BY <3>5, <3>6
    <3>8. SlotHolds(tokGens', q, n, Sentinel)
      BY <3>1, <3>3, <3>7 DEF SlotHolds, s
    <3>9. EndsInStop(tokGens', q, n) <=> EndsInStop(tokGens, q, n)
      BY <3>7 DEF EndsInStop, s
    <3> QED
      BY <3>1, <3>8, <3>9
  <2>14. ChunkInv'
    <3>1. \A u : RowsOf(u)' = RowsOf(u)
      BY <2>1, Fixed
    <3>2. \A u \in Threads : ThreadInv(u)' /\ \A b \in RowsOf(u) : RowInv(u, b)' /\ SlotInv(u, b)'
      BY <2>7, <2>11, <2>12, <2>13
    <3> QED
      BY <3>1, <3>2 DEF ChunkInv
  <2> QED
    BY <2>4, <2>5, <2>6, <2>14 DEF DataInv
<1> QED
  BY <1>1, <1>2
-----------------------------------------------------------------------------
(* The end of a chunk. *)
LEMMA ChunkDone ==
  ASSUME IInv, DataInv, main = "running", \A t \in Threads : pc[t] = "done", NEW b \in Rows
  PROVE  /\ EndOf(b) \in Int
         /\ Alone(Request(b)) => WellFormed(Request(b)) /\ Stored(Request(b)) = EndOf(b)
<1>0. DataOK
  BY DEF DataInv
<1>1. PICK t \in Threads : b \in RowsOf(t)
  BY <1>0, RowsDealt
<1>2. /\ pc[t] = "done" /\ RowInv(t, b) /\ SlotInv(t, b) /\ epos[b] # -1
      /\ Request(b) \in Requests /\ Prompt(b) = nPrompt[Request(b)]
  BY <1>1, Running DEF RowInv, Prompt
<1>3. EndOf(b) \in Int
  BY <1>1, <1>2, RowEnds
<1>4. ASSUME Alone(Request(b)) PROVE WellFormed(Request(b)) /\ Stored(Request(b)) = EndOf(b)
  <2>1. /\ SlotHolds(tokGens, Request(b), Count(b), Sentinel)
        /\ ~mask[b] <=> EndsInStop(tokGens, Request(b), Count(b))
    BY <1>2, <1>4 DEF SlotInv
  <2>2. Prompt(b) <= steps
    BY <1>2, <1>4 DEF Alone
  <2>3. EndOf(b) = Count(b) /\ (mask[b] => Count(b) = steps - Prompt(b))
    BY <1>1, <1>2, <2>2, RowEnds
  <2>4. Count(b) \in 0 .. steps - nPrompt[Request(b)]
    BY <2>1 DEF SlotHolds
  <2>5. Count(b) < steps - nPrompt[Request(b)] => EndsInStop(tokGens, Request(b), Count(b))
    BY <1>2, <2>1, <2>3, <2>4
  <2>6. WellFormed(Request(b))
    BY <1>0, <1>2, <2>1, <2>4, <2>5, WellFormedIs
  <2>7. Stored(Request(b)) = Count(b)
    BY <1>0, <1>2, <2>1, HoldsOutput
  <2> QED
    BY <2>3, <2>6, <2>7
<1> QED
  BY <1>3, <1>4

(* The rows move on to the next requests. *)
LEMMA NextRequests ==
  ASSUME DataOK, UNCHANGED requestVars, chunk < Chunks, chunk' = chunk + 1
  PROVE  /\ chunk + 1 < Chunks => \A b \in Rows : Request(b)' \in Requests /\ Waiting(Request(b)')
         /\ \A q \in Requests : Waiting(q)' => Waiting(q)
         /\ \A q \in Requests : Completed(q)' <=> Completed(q) \/ \E b \in Rows : q = Request(b)
<1> DEFINE p == chunk * Size
           r == (chunk + 1) * Size
           n == Chunks * Size
<1>1. /\ EP \in Nat \ {0} /\ BatchSize \in Nat \ {0} /\ Size \in Nat \ {0} /\ chunk \in Nat /\ Chunks \in Nat
      /\ NumReqs = n
  BY SizesOK
<1>2. BatchSize' = BatchSize
  BY Fixed
<1>3. /\ chunk * EP * BatchSize = p /\ (chunk + 1) * EP * BatchSize = r
      /\ (chunk' + 1) * EP * BatchSize' = r + Size /\ chunk' * EP * BatchSize' = r
      /\ EP * BatchSize = Size
  BY <1>1, <1>2 DEF Size
<1>4. p \in Nat /\ r \in Nat /\ n \in Nat /\ r = p + Size /\ r <= n
  <2>1. p \in Nat /\ r \in Nat /\ n \in Nat /\ p + Size <= n
    BY <1>1, ProductNat, NextMultiple
  <2>2. r = p + Size
    BY <1>1
  <2> QED
    BY <2>1, <2>2
<1>5. chunk + 1 < Chunks => r + Size <= n
  <2>1. chunk + 1 \in Nat /\ Size \in Nat /\ Chunks \in Nat
    BY <1>1
  <2> QED
    BY <2>1, NextMultiple
<1> HIDE DEF p, r, n
<1>6. /\ \A q : Completed(q) <=> q < p
      /\ \A q : Completed(q)' <=> q < r
      /\ \A q : Waiting(q) <=> q >= r
      /\ \A q : Waiting(q)' <=> q >= r + Size
      /\ \A b : Request(b) = p + b
      /\ \A b : Request(b)' = r + b
      /\ Rows = 0 .. Size - 1 /\ Requests = 0 .. n - 1
  BY <1>1, <1>3 DEF Completed, Waiting, Request, Rows, Requests
<1>7. ASSUME chunk + 1 < Chunks, NEW b \in Rows PROVE Request(b)' \in Requests /\ Waiting(Request(b)')
  BY <1>1, <1>4, <1>5, <1>6, <1>7
<1>8. ASSUME NEW q \in Requests, Waiting(q)' PROVE Waiting(q)
  BY <1>1, <1>4, <1>6, <1>8
<1>9. ASSUME NEW q \in Requests PROVE Completed(q)' <=> Completed(q) \/ \E b \in Rows : q = Request(b)
  <2>1. q \in Nat /\ q < n
    BY <1>4, <1>6
  <2>2. CASE q < p
    BY <1>1, <1>4, <1>6, <2>1, <2>2
  <2>3. CASE q >= p /\ q < r
    <3>1. q - p \in Rows /\ q = Request(q - p)
      BY <1>1, <1>4, <1>6, <2>1, <2>3
    <3> QED
      BY <1>6, <2>3, <3>1
  <2>4. CASE q >= r
    BY <1>1, <1>4, <1>6, <2>1, <2>4
  <2> QED
    BY <1>4, <2>1, <2>2, <2>3, <2>4
<1> QED
  BY <1>7, <1>8, <1>9

(* The counts of the threads add up to the tokens of the chunk. *)
LEMMA ChunkTotal ==
  ASSUME IInv, DataInv, main = "running", \A t \in Threads : pc[t] = "done",
         \A q \in Requests : nPrompt[q] <= steps, NEW f, \A q \in Requests : f[q] = Stored(q)
  PROVE  SumFunction(numTokenOut) = SumFunctionOnSet(f, {Request(b) : b \in Rows})
<1> DEFINE g == [b \in Rows |-> EndOf(b)]
           h == [b \in Rows |-> Request(b)]
           P == [t \in Threads |-> RowsOf(t)]
<1>0. DataOK
  BY DEF DataInv
<1>1. IsFiniteSet(Rows) /\ IsFiniteSet(Threads)
  <2>1. 0 \in Int /\ EP * BatchSize - 1 \in Int /\ EP - 1 \in Int
    BY <1>0, SizesOK
  <2> QED
    BY <2>1, FS_Interval DEF Rows, Threads
<1>2. \A b \in Rows : g[b] = EndOf(b) /\ g[b] \in Int
  BY ChunkDone
<1>3. /\ \A t \in Threads : P[t] = RowsOf(t) /\ P[t] \in SUBSET Rows /\ IsFiniteSet(P[t])
      /\ \A b : b \in Rows <=> \E t \in Threads : b \in P[t]
      /\ \A t, u \in Threads : t # u => P[t] \cap P[u] = {}
  <2>1. /\ \A t \in Threads : RowsOf(t) \in SUBSET Rows
        /\ \A t, u \in Threads : \A b \in RowsOf(t) : b \in RowsOf(u) => t = u
        /\ \A b \in Rows : \E t \in Threads : b \in RowsOf(t)
    BY <1>0, RowsDealt
  <2>2. \A t \in Threads : P[t] = RowsOf(t)
    OBVIOUS
  <2> HIDE DEF P
  <2>3. \A t \in Threads : IsFiniteSet(P[t])
    BY <1>1, <2>1, <2>2, FS_Subset
  <2> QED
    BY <2>1, <2>2, <2>3
<1> HIDE DEF P
<1>4. \A t \in Threads : numTokenOut[t] = SumFunctionOnSet(g, P[t])
  <2> SUFFICES ASSUME NEW t \in Threads PROVE numTokenOut[t] = SumFunctionOnSet(g, P[t])
    OBVIOUS
  <2> DEFINE e == [b \in RowsOf(t) |-> EndOf(b)]
  <2>1. numTokenOut[t] = SumFunction(e)
    BY Running DEF ThreadInv
  <2>2. DOMAIN e = P[t] /\ \A b \in P[t] : e[b] = EndOf(b) /\ b \in Rows
    BY <1>3
  <2> HIDE DEF e, g
  <2>3. SumFunction(e) = SumFunctionOnSet(e, P[t])
    BY <2>2, SumFunctionIs
  <2>4. \A b \in P[t] : e[b] = g[b] /\ e[b] \in Int
    BY <1>2, <2>2
  <2>5. SumFunctionOnSet(e, P[t]) = SumFunctionOnSet(g, P[t])
    BY <1>3, <2>4, SumSame
  <2> QED
    BY <2>1, <2>3, <2>5
<1> HIDE DEF g
<1>5. SumFunctionOnSet(numTokenOut, Threads) = SumFunctionOnSet(g, Rows)
  <2>1. \A t \in Threads : IsFiniteSet(P[t]) /\ \A b \in P[t] : g[b] \in Int
    BY <1>2, <1>3
  <2>2. \A t, u \in Threads : t # u => P[t] \cap P[u] = {}
    BY <1>3
  <2>3. IsFiniteSet(Threads)
    BY <1>1
  <2> DEFINE S == Threads
             total == numTokenOut
  <2>4. /\ IsFiniteSet(S) /\ \A t \in S : IsFiniteSet(P[t]) /\ \A b \in P[t] : g[b] \in Int
        /\ \A t, u \in S : t # u => P[t] \cap P[u] = {}
        /\ \A t \in S : total[t] = SumFunctionOnSet(g, P[t])
    BY <1>4, <2>1, <2>2, <2>3
  <2>5. Whole(P, S) = Rows
    BY <1>3 DEF Whole
  <2> HIDE DEF S, total
  <2>6. SumFunctionOnSet(total, S) = SumFunctionOnSet(g, Rows)
    BY <2>4, <2>5, SumOfParts
  <2> QED
    BY <2>6 DEF S, total
<1>6. /\ \A b, c \in Rows : h[b] = h[c] => b = c
      /\ \A b \in Rows : g[b] = f[h[b]] /\ g[b] \in Int
      /\ {h[b] : b \in Rows} = {Request(b) : b \in Rows}
  <2>1. \A b \in Rows : h[b] = Request(b)
    OBVIOUS
  <2>2. EP # 0 /\ EP \in Nat /\ 0 \in Threads
    BY <1>0, SizesOK DEF Threads
  <2>3. chunk < Chunks
    BY <2>2, Running
  <2>4. \A b \in Rows : Request(b) \in Requests
    BY <1>0, <2>3, RequestsDealt
  <2>5. \A b, c \in Rows : Request(b) = Request(c) => b = c
    BY <1>0, <2>3, RequestsDealt
  <2>6. \A b \in Rows : Stored(Request(b)) = EndOf(b)
    BY <1>0, <2>4, AllAlone, ChunkDone
  <2> HIDE DEF h
  <2> QED
    BY <1>2, <2>1, <2>4, <2>5, <2>6
<1> HIDE DEF h
<1>7. SumFunctionOnSet(f, {h[b] : b \in Rows}) = SumFunctionOnSet(g, Rows)
  BY <1>1, <1>6, SumRenamed
<1>8. DOMAIN numTokenOut = Threads
  BY <1>0 DEF DataOK
<1>9. SumFunction(numTokenOut) = SumFunctionOnSet(numTokenOut, Threads)
  BY <1>8, SumFunctionIs
<1> QED
  BY <1>3, <1>5, <1>6, <1>7, <1>9

LEMMA StoredNat ==
  ASSUME DataOK, NEW q \in Requests
  PROVE  Stored(q) \in Nat
<1>1. SlotStart(q) \in Int /\ SlotStart(q) + steps \in Int
  BY SlotsApart, SizesOK
<1>2. IsFiniteSet(Slot(q))
  BY <1>1, FS_Interval DEF Slot
<1>3. IsFiniteSet({k \in Slot(q) : tokGens[k] \in Tokens})
  BY <1>2, FS_Subset
<1> QED
  BY <1>3, FS_CardinalityType DEF Stored

(* Before the first step of a chunk. *)
FreshRows ==
  /\ pc = [t \in Threads |-> "encode"]
  /\ threadStates = [t \in Threads |-> 1]
  /\ pos = [t \in Threads |-> 0]
  /\ epos = [b \in Rows |-> -1]
  /\ mask = [b \in Rows |-> TRUE]

LEMMA FreshChunk ==
  ASSUME DataOK, FreshRows,
         chunk < Chunks => \A b \in Rows : Alone(Request(b)) => SlotHolds(tokGens, Request(b), 0, 0)
  PROVE  ChunkInv
<1> SUFFICES ASSUME chunk < Chunks, NEW t \in Threads
             PROVE  ThreadInv(t) /\ \A b \in RowsOf(t) : RowInv(t, b) /\ SlotInv(t, b)
  BY DEF ChunkInv
<1>1. /\ pc[t] = "encode" /\ threadStates[t] = 1 /\ pos[t] = 0
      /\ \A b \in RowsOf(t) : b \in Rows /\ epos[b] = -1 /\ mask[b] = TRUE
  BY RowsDealt DEF FreshRows
<1>2. ThreadInv(t)
  BY <1>1 DEF ThreadInv
<1>3. ASSUME NEW b \in RowsOf(t) PROVE RowInv(t, b) /\ SlotInv(t, b)
  <2>1. Prompt(b) \in Nat
    BY <1>1, RequestsDealt, SizesOK DEF Prompt
  <2>2. Count(b) = 0
    BY <1>1, <2>1 DEF Count
  <2>3. RowInv(t, b)
    BY <1>1 DEF RowInv
  <2>4. SlotInv(t, b)
    BY <1>1, <2>2 DEF SlotInv, EndsInStop
  <2> QED
    BY <2>3, <2>4
<1> QED
  BY <1>2, <1>3

LEMMA FreshChunkNext == 
  (/\ DataOK /\ FreshRows
   /\ chunk < Chunks => \A b \in Rows : Alone(Request(b)) => SlotHolds(tokGens, Request(b), 0, 0))'
  => ChunkInv'
BY FreshChunk, PTL

LEMMA JoinData ==
  ASSUME IInv, DataInv, Join
  PROVE  DataInv'
<1>0. /\ main = "running" /\ \A t \in Threads : pc[t] = "done"
      /\ UNCHANGED requestVars /\ tokGens' = tokGens /\ numTokenOut' = numTokenOut
      /\ chunk' = chunk + 1 /\ accTokenOut' = accTokenOut + SumFunction(numTokenOut)
      /\ workload' = workload /\ steps' = steps /\ nPrompt' = nPrompt
  BY DEF Join, requestVars, outputVars
<1>1. DataOK /\ chunk < Chunks /\ chunk \in Nat /\ Chunks \in Nat
  <2>1. DataOK
    BY DEF DataInv
  <2>2. 0 \in Threads
    BY <2>1, SizesOK DEF Threads
  <2> QED
    BY <1>0, <2>1, <2>2, Running, SizesOK
<1>2. /\ Arena' = Arena /\ Chunks' = Chunks /\ Rows' = Rows
      /\ \A q : (Alone(q)' <=> Alone(q)) /\ SlotStart(q)' = SlotStart(q) /\ Slot(q)' = Slot(q)
  BY <1>0, Fixed
<1>3. SumFunction(numTokenOut) \in Int
  <2>1. IsFiniteSet(Threads)
    <3>1. 0 \in Int /\ EP - 1 \in Int
      BY <1>1, SizesOK
    <3> QED
      BY <3>1, FS_Interval DEF Threads
  <2>2. DOMAIN numTokenOut = Threads /\ \A t \in Threads : numTokenOut[t] \in Int
    BY <1>1 DEF DataOK
  <2>3. SumFunction(numTokenOut) = SumFunctionOnSet(numTokenOut, Threads)
    BY <2>2, SumFunctionIs
  <2>4. SumFunctionOnSet(numTokenOut, Threads) \in Int
    BY <2>1, <2>2, SumStep
  <2> QED
    BY <2>3, <2>4
<1>4. /\ chunk + 1 < Chunks => FreshRows' /\ main' = main
      /\ ~(chunk + 1 < Chunks) => main' = "returned" /\ UNCHANGED rowVars
  <2>1. chunk + 1 < Chunks => FreshRows' /\ main' = main
    BY <1>2 DEF Join, FreshThreads, FreshRows
  <2>2. ~(chunk + 1 < Chunks) => main' = "returned" /\ UNCHANGED rowVars
    BY DEF Join
  <2> QED
    BY <2>1, <2>2
<1>5. DataOK'
  <2>1. epos' \in [Rows -> Nat \cup {-1}] /\ mask' \in [Rows -> BOOLEAN]
    <3>1. CASE chunk + 1 < Chunks
      BY <1>2, <1>4, <3>1 DEF FreshRows
    <3>2. CASE ~(chunk + 1 < Chunks)
      BY <1>1, <1>4, <3>2 DEF rowVars, DataOK
    <3> QED
      BY <3>1, <3>2
  <2>2. chunk' \in 0 .. Chunks /\ main' \in {"running", "returned", "exited"} /\ (main' = "returned" <=> chunk' = Chunks)
    BY <1>0, <1>1, <1>4
  <2>3. accTokenOut' \in Int
    BY <1>0, <1>1, <1>3 DEF DataOK
  <2> QED
    BY <1>0, <1>1, <1>2, <2>1, <2>2, <2>3 DEF DataOK
<1>6. WaitingInv'
  <2> SUFFICES ASSUME NEW q \in Requests, Waiting(q)', Alone(q) PROVE SlotHolds(tokGens, q, 0, 0)'
    BY <1>2 DEF WaitingInv
  <2>1. Waiting(q)
    BY <1>0, <1>1, NextRequests
  <2>2. SlotHolds(tokGens, q, 0, 0)
    BY <2>1 DEF DataInv, WaitingInv
  <2> QED
    BY <1>0, <2>2, HoldsPrimed
<1>7. ChunkInv'
  <2>1. CASE ~(chunk + 1 < Chunks)
    BY <1>0, <1>2, <2>1 DEF ChunkInv
  <2>2. CASE chunk + 1 < Chunks
    <3>1. ASSUME NEW b \in Rows, Alone(Request(b))' PROVE SlotHolds(tokGens, Request(b), 0, 0)'
      <4> DEFINE q == Request(b)'
      <4>1. q \in Requests /\ Waiting(q)
        BY <1>0, <1>1, <2>2, NextRequests
      <4>2. Alone(q)
        <5>1. Alone(Request(b))' <=> Alone(q)
          BY <1>0, <1>2 DEF Alone, Undisturbed
        <5> QED
          BY <3>1, <5>1
      <4>3. SlotHolds(tokGens, q, 0, 0)
        BY <4>1, <4>2 DEF DataInv, WaitingInv
      <4>4. SlotStart(Request(b))' = SlotStart(q)
        BY <1>0 DEF SlotStart
      <4>5. SlotHolds(tokGens, Request(b), 0, 0)' <=> SlotHolds(tokGens, q, 0, 0)
        BY <1>0, <4>4 DEF SlotHolds
      <4> QED
        BY <4>3, <4>5
    <3> QED
      BY <1>2, <1>4, <1>5, <2>2, <3>1, FreshChunkNext
  <2> QED
    BY <2>1, <2>2
<1>8. \A q \in Requests : Completed(q)' <=> Completed(q) \/ \E b \in Rows : q = Request(b)
  BY <1>0, <1>1, NextRequests
<1>9. OutputsWellFormed'
  <2> SUFFICES ASSUME NEW q \in Requests, Completed(q)', Alone(q) PROVE WellFormed(q)'
    BY <1>2 DEF OutputsWellFormed
  <2>1. WellFormed(q)' <=> WellFormed(q)
    BY <1>0, <1>2 DEF WellFormed
  <2>2. CASE Completed(q)
    BY <2>1, <2>2 DEF DataInv, OutputsWellFormed
  <2>3. CASE \E b \in Rows : q = Request(b)
    BY <1>0, <2>1, <2>3, ChunkDone
  <2> QED
    BY <1>8, <2>2, <2>3
<1>10. CountMatchesOutput'
  <2> SUFFICES ASSUME \A q \in Requests : nPrompt[q] <= steps
               PROVE  accTokenOut' = SumFunction([q \in {r \in Requests : Completed(r)'} |-> Stored(q)'])
    BY <1>0 DEF CountMatchesOutput
  <2> DEFINE f == [q \in Requests |-> Stored(q)]
             A == {r \in Requests : Completed(r)}
             B == {Request(b) : b \in Rows}
             C == {r \in Requests : Completed(r)'}
  <2>1. \A q : Stored(q)' = Stored(q)
    BY <1>0, <1>2 DEF Stored
  <2>2. /\ \A b \in Rows : Request(b) \in Requests /\ ~Completed(Request(b))
    BY <1>1, RequestsDealt
  <2>3. C = A \cup B /\ A \cap B = {} /\ A \in SUBSET Requests /\ B \in SUBSET Requests
    BY <1>8, <2>2
  <2>4. IsFiniteSet(Requests)
    <3>1. 0 \in Int /\ NumReqs - 1 \in Int
      BY <1>1, SizesOK
    <3> QED
      BY <3>1, FS_Interval DEF Requests
  <2>5. IsFiniteSet(A) /\ IsFiniteSet(B) /\ IsFiniteSet(C) /\ C \in SUBSET Requests
    BY <2>3, <2>4, FS_Subset
  <2>6. \A q \in Requests : f[q] = Stored(q) /\ f[q] \in Int
    BY <1>1, StoredNat
  <2>7. SumFunction(numTokenOut) = SumFunctionOnSet(f, B)
    BY <1>0, <2>6, ChunkTotal
  <2>8. accTokenOut = SumFunction([q \in A |-> Stored(q)])
    BY DEF DataInv, CountMatchesOutput
  <2> DEFINE fa == [q \in A |-> Stored(q)]
             fc == [q \in C |-> Stored(q)']
  <2>9. DOMAIN fa = A /\ \A q \in A : fa[q] = Stored(q)
    OBVIOUS
  <2>10. DOMAIN fc = C /\ \A q \in C : fc[q] = Stored(q)
    BY <2>1
  <2> HIDE DEF f, A, B, C, fa, fc
  <2>11. SumFunction(fa) = SumFunctionOnSet(f, A)
    <3>1. \A q \in A : fa[q] = f[q] /\ fa[q] \in Int
      BY <2>3, <2>6, <2>9
    <3>2. SumFunctionOnSet(fa, A) = SumFunctionOnSet(f, A)
      BY <2>5, <3>1, SumSame
    <3> QED
      BY <2>9, <3>2, SumFunctionIs
  <2>12. SumFunction(fc) = SumFunctionOnSet(f, C)
    <3>1. \A q \in C : fc[q] = f[q] /\ fc[q] \in Int
      BY <2>5, <2>6, <2>10
    <3>2. SumFunctionOnSet(fc, C) = SumFunctionOnSet(f, C)
      BY <2>5, <3>1, SumSame
    <3> QED
      BY <2>10, <3>2, SumFunctionIs
  <2>13. SumFunctionOnSet(f, A \cup B) = SumFunctionOnSet(f, A) + SumFunctionOnSet(f, B)
    <3>1. \A q \in A \cup B : f[q] \in Int
      BY <2>3, <2>6
    <3> QED
      BY <2>3, <2>5, <3>1, SumUnion
  <2>14. accTokenOut = SumFunction(fa)
    BY <2>8 DEF fa
  <2>15. accTokenOut' = SumFunctionOnSet(f, A) + SumFunctionOnSet(f, B)
    BY <1>0, <2>7, <2>11, <2>14
  <2>16. accTokenOut' = SumFunction(fc)
    BY <2>3, <2>12, <2>13, <2>15
  <2> QED
    BY <2>16 DEF fc, C
<1> QED
  BY <1>5, <1>6, <1>7, <1>9, <1>10 DEF DataInv

LEMMA InitData == Init => DataInv
<1> SUFFICES ASSUME Init PROVE DataInv
  OBVIOUS
<1>1. /\ workload \in Workloads /\ steps = workload.steps /\ nPrompt \in [Requests -> workload.prompts]
      /\ tokGens = [k \in Arena |-> 0] /\ chunk = 0 /\ main = "running" /\ accTokenOut = 0
      /\ numTokenOut = [t \in Threads |-> 0]
      /\ epos = [b \in Rows |-> -1] /\ mask = [b \in Rows |-> TRUE]
      /\ FreshRows
  BY DEF Init, FreshThreads, FreshRows
<1>2. Chunks \in Nat /\ Chunks # 0
  <2> DEFINE s == EP * workload.batch
  <2>1. /\ EP \in Nat \ {0} /\ workload.batch \in Nat \ {0} /\ NumReqs \in Nat \ {0}
        /\ NumReqs % s = 0
    BY <1>1, LoopAssumption
  <2>2. s \in Nat \ {0} /\ Chunks = NumReqs \div s
    BY <2>1 DEF Chunks, BatchSize
  <2> HIDE DEF s
  <2> QED
    BY <2>1, <2>2
<1>3. DataOK
  BY <1>1, <1>2 DEF DataOK
<1>4. ASSUME NEW q \in Requests, Alone(q) PROVE SlotHolds(tokGens, q, 0, 0)
  <2>1. \A k \in 0 .. steps : tokGens[SlotStart(q) + k] = 0
    BY <1>1, <1>3, <1>4, SlotsApart
  <2>2. 0 \in 0 .. steps - nPrompt[q] /\ 0 \in 0 .. steps /\ steps \in Nat
    BY <1>3, <1>4, SizesOK DEF Alone
  <2> QED
    BY <2>1, <2>2 DEF SlotHolds
<1>5. ChunkInv
  BY <1>1, <1>3, <1>4, RequestsDealt, FreshChunk
<1>6. \A q \in Requests : ~Completed(q)
  <2>1. EP \in Nat /\ BatchSize \in Nat /\ chunk * EP * BatchSize = 0
    BY <1>1, <1>3, SizesOK
  <2> QED
    BY <2>1 DEF Completed, Requests
<1>7. CountMatchesOutput
  <2> DEFINE C == {r \in Requests : Completed(r)}
             f == [q \in C |-> Stored(q)]
  <2>1. DOMAIN f = {}
    BY <1>6
  <2> HIDE DEF f
  <2>2. SumFunction(f) = 0
    BY <2>1, SumFunctionIs, SumEmpty
  <2> QED
    BY <1>1, <2>2 DEF CountMatchesOutput, f
<1> QED
  BY <1>3, <1>4, <1>5, <1>6, <1>7 DEF DataInv, WaitingInv, OutputsWellFormed

LEMMA SameData == DataInv /\ UNCHANGED vars => DataInv'
<1> SUFFICES ASSUME DataInv, UNCHANGED vars PROVE DataInv'
  OBVIOUS
<1>1. /\ UNCHANGED <<requestVars, chunk, accTokenOut, rowVars, outputVars, threadStates>> /\ main' = main /\ pc' = pc
      /\ pos' = pos /\ epos' = epos /\ mask' = mask /\ tokGens' = tokGens /\ numTokenOut' = numTokenOut
  BY DEF vars, mainVars, rowVars, outputVars, controlVars
<1>2. chunk < Chunks => \A u \in Threads : ThreadKept(u)
  BY <1>1 DEF ThreadKept, DataInv, ChunkInv, ThreadInv
<1> QED
  BY <1>1, <1>2, QuietData

LEMMA NextData == IInv /\ DataInv /\ [Next]_vars => DataInv'
<1> SUFFICES ASSUME IInv, DataInv, [Next]_vars PROVE DataInv'
  OBVIOUS
<1>1. CASE Join
  BY <1>1, JoinData
<1>2. CASE UNCHANGED vars \/ Terminated
  BY <1>2, SameData DEF Terminated
<1>3. ASSUME NEW t \in Threads, HostThread(t) PROVE DataInv'
  BY <1>3, QuietSteps, AdvanceData, FinishData DEF HostThread
<1> QED
  BY <1>1, <1>2, <1>3 DEF Next

(* What the slots, the counts and the rows of the chunk are, at every step *)
(* of the decoding.                                                        *)
THEOREM Slots == Spec => []DataInv
BY InitData, NextData, ThreadsInStep, PTL DEF Spec

(* The variables of the loop keep their types: the unlocked thread_states  *)
(* hold 0 or 1, epos is a position or still -1, and every cell of the      *)
(* arena holds a token, the sentinel or the 0 it was allocated with.       *)
THEOREM TypeCorrect == Spec => []TypeOK
<1>1. IInv /\ DataInv => TypeOK
  BY DEF IInv, DataInv, ControlOK, DataOK, TypeOK, Between
<1> QED
  BY <1>1, Slots, ThreadsInStep, PTL

(* The output of every request of the chunks that have been joined is      *)
(* tokens up to the first stop token or the budget, then the sentinel,     *)
(* whatever the prompts beside it, unless a prompt exceeds the budget and  *)
(* its terminator falls into the slot.                                     *)
THEOREM OutputsTheorem == Spec => []OutputsWellFormed
<1>1. DataInv => OutputsWellFormed
  BY DEF DataInv
<1> QED
  BY <1>1, Slots, PTL

(* The count behind the throughput figure is the number of tokens in the   *)
(* slots, if no prompt exceeds the budget.                                 *)
THEOREM CountTheorem == Spec => []CountMatchesOutput
<1>1. DataInv => CountMatchesOutput
  BY DEF DataInv
<1> QED
  BY <1>1, Slots, PTL
-----------------------------------------------------------------------------
(* The loop implements Decode: forward steps extend outputs, the end of a  *)
(* thread closes them, and every other step keeps them.                    *)

(* The tokens of a slot that holds n. *)
Taken(g, q, n) == [i \in 1 .. n |-> g[SlotStart(q) + i - 1]]

LEMMA OutputOf ==
  DataOK =>
    \A q \in Requests : \A n : \A last \in {0, Sentinel} :
      Alone(q) /\ SlotHolds(tokGens, q, n, last) =>
        Output(q) = Taken(tokGens, q, n) /\ (Ended(q) <=> last = Sentinel)
<1> SUFFICES ASSUME DataOK, NEW q \in Requests, NEW n, NEW last \in {0, Sentinel},
                    Alone(q), SlotHolds(tokGens, q, n, last)
             PROVE  Output(q) = Taken(tokGens, q, n) /\ (Ended(q) <=> last = Sentinel)
  OBVIOUS
<1>1. Stored(q) = n
  BY HoldsOutput
<1>2. tokGens[SlotStart(q) + n] = last
  BY DEF SlotHolds
<1> QED
  BY <1>1, <1>2 DEF Output, Ended, Taken

LEMMA OutputOfNext ==
  DataOK' =>
    (\A q \in Requests : \A n : \A last \in {0, Sentinel} :
       Alone(q) /\ SlotHolds(tokGens, q, n, last) =>
         Output(q) = Taken(tokGens, q, n) /\ (Ended(q) <=> last = Sentinel))'
BY OutputOf, PTL

LEMMA OutputAfter ==
  ASSUME DataOK', UNCHANGED requestVars, NEW q \in Requests, NEW n, NEW last \in {0, Sentinel},
         Alone(q), SlotHolds(tokGens', q, n, last)
  PROVE  Output(q)' = Taken(tokGens', q, n) /\ (Ended(q)' <=> last = Sentinel)
<1>1. Alone(q)' /\ SlotHolds(tokGens, q, n, last)'
  BY Fixed, HoldsPrimed
<1>2. Output(q)' = Taken(tokGens, q, n)' /\ (Ended(q)' <=> last = Sentinel)
  <2>1. \A m : \A end \in {0, Sentinel} :
          Alone(q)' /\ SlotHolds(tokGens, q, m, end)' =>
            Output(q)' = Taken(tokGens, q, m)' /\ (Ended(q)' <=> end = Sentinel)
    BY OutputOfNext
  <2> QED
    BY <1>1, <2>1
<1>3. Taken(tokGens, q, n)' = Taken(tokGens', q, n)
  BY Fixed DEF Taken
<1> QED
  BY <1>2, <1>3

(* A slot that no other request's terminator falls into always holds some  *)
(* tokens.                                                                 *)
LEMMA SlotState ==
  ASSUME DataInv, NEW q \in Requests, Alone(q)
  PROVE  \E n \in Nat, last \in {0, Sentinel} : SlotHolds(tokGens, q, n, last)
<1>1. DataOK
  BY DEF DataInv
<1>2. CASE Completed(q)
  <2>1. WellFormed(q)
    BY <1>2 DEF DataInv, OutputsWellFormed
  <2>2. PICK n \in 0 .. steps - nPrompt[q] : SlotHolds(tokGens, q, n, Sentinel)
    BY <1>1, <2>1, WellFormedIs
  <2>3. n \in Nat
    BY <1>1, <2>2, HoldsOutput
  <2> QED
    BY <2>2, <2>3
<1>3. CASE Waiting(q)
  <2>1. SlotHolds(tokGens, q, 0, 0)
    BY <1>3 DEF DataInv, WaitingInv
  <2> QED
    BY <2>1
<1>4. CASE ~Completed(q) /\ ~Waiting(q)
  <2>1. PICK b \in Rows : chunk < Chunks /\ q = Request(b)
    BY <1>1, <1>4, RequestsDealt
  <2>2. PICK t \in Threads : b \in RowsOf(t)
    BY <1>1, RowsDealt
  <2>3. SlotHolds(tokGens, q, Count(b), IF pc[t] = "done" THEN Sentinel ELSE 0)
    BY <2>1, <2>2 DEF DataInv, ChunkInv, SlotInv
  <2>4. Count(b) \in Nat
    BY <1>1, <2>3, HoldsOutput
  <2> QED
    BY <2>3, <2>4
<1> QED
  BY <1>2, <1>3, <1>4

(* What the actions of Decode say of the slots. *)
LEMMA SingleIs ==
  ASSUME NEW q \in Requests
  PROVE  /\ Single!Extend(q) <=>
              /\ ~Ended(q) /\ ~Ended(q)'
              /\ ~(Len(Output(q)) > 0 /\ Output(q)[Len(Output(q))] = Stop)
              /\ ~(Len(Output(q)) + nPrompt[q] >= steps)
              /\ \E token \in Tokens : Output(q)' = Append(Output(q), token)
         /\ Single!Close(q) <=>
              /\ ~Ended(q) /\ Ended(q)'
              /\ \/ Len(Output(q)) > 0 /\ Output(q)[Len(Output(q))] = Stop
                 \/ Len(Output(q)) + nPrompt[q] >= steps
              /\ Output(q)' = Output(q)
         /\ Output(q)' = Output(q) /\ (Ended(q)' <=> Ended(q)) => Single!Keep(q)
<1>1. Single!Extend(q) <=>
        /\ ~Ended(q) /\ ~Ended(q)'
        /\ ~(Len(Output(q)) > 0 /\ Output(q)[Len(Output(q))] = Stop)
        /\ ~(Len(Output(q)) + nPrompt[q] >= steps)
        /\ \E token \in Tokens : Output(q)' = Append(Output(q), token)
  BY DEF Single!Extend, Single!Stopped, Single!Full
<1>2. Single!Close(q) <=>
        /\ ~Ended(q) /\ Ended(q)'
        /\ \/ Len(Output(q)) > 0 /\ Output(q)[Len(Output(q))] = Stop
           \/ Len(Output(q)) + nPrompt[q] >= steps
        /\ Output(q)' = Output(q)
  BY DEF Single!Close, Single!Stopped, Single!Full
<1>3. Output(q)' = Output(q) /\ (Ended(q)' <=> Ended(q)) => Single!Keep(q)
  <2>1. Output(q)' = Output(q) /\ (Ended(q)' <=> Ended(q)) => Ended(q)' = Ended(q)
    BY DEF Ended
  <2> QED
    BY <2>1 DEF Single!Keep
<1> QED
  BY <1>1, <1>2, <1>3

LEMMA TakenIs ==
  ASSUME DataOK, NEW q \in Requests, NEW n, NEW last \in {0, Sentinel},
         SlotHolds(tokGens, q, n, last)
  PROVE  /\ Taken(tokGens, q, n) \in Seq(Tokens) /\ Len(Taken(tokGens, q, n)) = n /\ n \in Nat
         /\ n > 0 /\ Taken(tokGens, q, n)[n] = Stop <=> EndsInStop(tokGens, q, n)
<1>1. n \in Nat /\ SlotStart(q) \in Nat
  BY HoldsOutput, SlotsApart
<1>2. \A i \in 1 .. n : i - 1 \in 0 .. n - 1 /\ SlotStart(q) + i - 1 = SlotStart(q) + (i - 1)
  BY <1>1
<1>3. \A i \in 1 .. n : tokGens[SlotStart(q) + i - 1] \in Tokens
  BY <1>2 DEF SlotHolds
<1>4. Taken(tokGens, q, n) \in Seq(Tokens) /\ Len(Taken(tokGens, q, n)) = n
  BY <1>1, <1>3 DEF Taken
<1>5. n > 0 => Taken(tokGens, q, n)[n] = tokGens[SlotStart(q) + (n - 1)]
  BY <1>1 DEF Taken
<1> QED
  BY <1>1, <1>4, <1>5 DEF EndsInStop

(* One more token in the slot extends the output. *)
LEMMA StepExtends ==
  ASSUME DataOK, DataOK', UNCHANGED requestVars, NEW q \in Requests, Alone(q), NEW n,
         SlotHolds(tokGens, q, n, 0), SlotHolds(tokGens', q, n + 1, 0), ~EndsInStop(tokGens, q, n),
         \A k \in 0 .. n - 1 : tokGens'[SlotStart(q) + k] = tokGens[SlotStart(q) + k]
  PROVE  Single!Extend(q)
<1> DEFINE s == SlotStart(q)
<1>1. /\ Taken(tokGens, q, n) \in Seq(Tokens) /\ Len(Taken(tokGens, q, n)) = n /\ n \in Nat
      /\ ~(n > 0 /\ Taken(tokGens, q, n)[n] = Stop)
  BY TakenIs
<1>2. Output(q) = Taken(tokGens, q, n) /\ ~Ended(q)
  BY OutputOf DEF Sentinel
<1>3. Output(q)' = Taken(tokGens', q, n + 1) /\ ~Ended(q)'
  BY OutputAfter DEF Sentinel
<1>4. steps \in Nat /\ nPrompt[q] \in Nat /\ n + 1 \in 0 .. steps - nPrompt[q] /\ s \in Nat
  BY SizesOK, SlotsApart DEF SlotHolds
<1>5. n + nPrompt[q] < steps
  BY <1>1, <1>4
<1>6. tokGens'[s + n] \in Tokens
  <2>1. n \in 0 .. (n + 1) - 1
    BY <1>1
  <2> QED
    BY <2>1 DEF SlotHolds
<1>7. Taken(tokGens', q, n + 1) = Append(Taken(tokGens, q, n), tokGens'[s + n])
  <2>1. \A i \in 1 .. n : tokGens'[s + i - 1] = tokGens[s + i - 1]
    <3> SUFFICES ASSUME NEW i \in 1 .. n PROVE tokGens'[s + i - 1] = tokGens[s + i - 1]
      OBVIOUS
    <3>1. i - 1 \in 0 .. n - 1 /\ s + i - 1 = s + (i - 1)
      BY <1>1, <1>4
    <3> QED
      BY <3>1
  <2>2. s + (n + 1) - 1 = s + n
    BY <1>1, <1>4
  <2>3. Append(Taken(tokGens, q, n), tokGens'[s + n])
        = [i \in 1 .. n + 1 |-> IF i = n + 1 THEN tokGens'[s + n] ELSE Taken(tokGens, q, n)[i]]
    BY <1>1, <1>6
  <2>4. \A i \in 1 .. n + 1 :
          tokGens'[s + i - 1] = IF i = n + 1 THEN tokGens'[s + n] ELSE Taken(tokGens, q, n)[i]
    <3> SUFFICES ASSUME NEW i \in 1 .. n + 1
                 PROVE  tokGens'[s + i - 1] = IF i = n + 1 THEN tokGens'[s + n] ELSE Taken(tokGens, q, n)[i]
      OBVIOUS
    <3>1. CASE i = n + 1
      BY <2>2, <3>1
    <3>2. CASE i # n + 1
      <4>1. i \in 1 .. n
        BY <1>1, <3>2
      <4> QED
        BY <2>1, <3>2, <4>1 DEF Taken
    <3> QED
      BY <3>1, <3>2
  <2> QED
    BY <2>3, <2>4 DEF Taken
<1>8. ~(Len(Output(q)) > 0 /\ Output(q)[Len(Output(q))] = Stop)
  BY <1>1, <1>2
<1>9. ~(Len(Output(q)) + nPrompt[q] >= steps)
  BY <1>1, <1>2, <1>4, <1>5
<1> QED
  BY <1>2, <1>3, <1>6, <1>7, <1>8, <1>9, SingleIs

(* The sentinel after the last token closes the output. *)
LEMMA StepCloses ==
  ASSUME DataOK, DataOK', UNCHANGED requestVars, NEW q \in Requests, Alone(q), NEW n,
         SlotHolds(tokGens, q, n, 0), SlotHolds(tokGens', q, n, Sentinel),
         EndsInStop(tokGens, q, n) \/ n = steps - nPrompt[q],
         \A k \in 0 .. n - 1 : tokGens'[SlotStart(q) + k] = tokGens[SlotStart(q) + k]
  PROVE  Single!Close(q)
<1>1. /\ Len(Taken(tokGens, q, n)) = n /\ n \in Nat
      /\ n > 0 /\ Taken(tokGens, q, n)[n] = Stop <=> EndsInStop(tokGens, q, n)
  BY TakenIs
<1>2. Output(q) = Taken(tokGens, q, n) /\ ~Ended(q)
  BY OutputOf DEF Sentinel
<1>3. Output(q)' = Taken(tokGens', q, n) /\ Ended(q)'
  BY OutputAfter
<1>4. Taken(tokGens', q, n) = Taken(tokGens, q, n)
  <2>1. SlotStart(q) \in Nat
    BY SlotsApart
  <2>2. \A i \in 1 .. n : i - 1 \in 0 .. n - 1 /\ SlotStart(q) + i - 1 = SlotStart(q) + (i - 1)
    BY <1>1, <2>1
  <2>3. \A i \in 1 .. n : tokGens'[SlotStart(q) + i - 1] = tokGens[SlotStart(q) + i - 1]
    BY <2>2
  <2> QED
    BY <2>3 DEF Taken
<1>5. \/ Len(Output(q)) > 0 /\ Output(q)[Len(Output(q))] = Stop
      \/ Len(Output(q)) + nPrompt[q] >= steps
  BY <1>1, <1>2, SizesOK
<1> QED
  BY <1>2, <1>3, <1>4, <1>5, SingleIs

(* A slot nobody writes to, and one that is left out of the mapping, keep  *)
(* their output.                                                           *)
LEMMA StepKeeps ==
  ASSUME DataInv, DataOK', UNCHANGED requestVars, NEW q \in Requests,
         Alone(q) => \A k \in 0 .. steps : tokGens'[SlotStart(q) + k] = tokGens[SlotStart(q) + k]
  PROVE  Single!Keep(q)
<1>0. DataOK
  BY DEF DataInv
<1>1. CASE ~Alone(q)
  <2>1. ~Alone(q)'
    BY <1>1, Fixed
  <2> QED
    BY <1>1, <2>1, SingleIs DEF Output, Ended
<1>2. CASE Alone(q)
  <2>1. PICK n \in Nat, last \in {0, Sentinel} : SlotHolds(tokGens, q, n, last)
    BY <1>2, SlotState
  <2>2. n \in 0 .. steps - nPrompt[q]
    BY <2>1 DEF SlotHolds
  <2>3. SlotHolds(tokGens', q, n, last)
    BY <1>0, <1>2, <2>1, <2>2, SlotKept
  <2>4. Output(q) = Taken(tokGens, q, n) /\ (Ended(q) <=> last = Sentinel)
    BY <1>0, <1>2, <2>1, OutputOf
  <2>5. Output(q)' = Taken(tokGens', q, n) /\ (Ended(q)' <=> last = Sentinel)
    BY <1>2, <2>3, OutputAfter
  <2>6. Taken(tokGens', q, n) = Taken(tokGens, q, n)
    <3>1. SlotStart(q) \in Nat /\ steps \in Nat /\ nPrompt[q] \in Nat
      BY <1>0, SlotsApart, SizesOK
    <3>2. \A i \in 1 .. n : i - 1 \in 0 .. steps /\ SlotStart(q) + i - 1 = SlotStart(q) + (i - 1)
      BY <2>2, <3>1
    <3>3. \A i \in 1 .. n : tokGens'[SlotStart(q) + i - 1] = tokGens[SlotStart(q) + i - 1]
      BY <1>2, <3>2
    <3> QED
      BY <3>3 DEF Taken
  <2> QED
    BY <2>4, <2>5, <2>6, SingleIs
<1> QED
  BY <1>1, <1>2

LEMMA AdvanceExtends ==
  ASSUME IInv, DataInv, DataInv', NEW t \in Threads, Advance(t), NEW q \in Requests
  PROVE  Single!Extend(q) \/ Single!Keep(q)
<1> DEFINE at == pos[t] + 1
           Written(r, k) == \E b \in Generating(t) : r = Request(b) /\ k = at - Prompt(b)
<1>0. /\ main = "running" /\ pc[t] = "forward" /\ DataOK /\ DataOK' /\ chunk < Chunks
      /\ UNCHANGED requestVars /\ chunk' = chunk
      /\ pos[t] \in Nat /\ pc'[t] = "sync"
      /\ epos' = [b \in Rows |-> IF b \in LiveRows(t) THEN at ELSE epos[b]]
  <2>1. main = "running" /\ pc[t] = "forward" /\ pc' = [pc EXCEPT ![t] = "sync"]
    BY DEF Advance, At, GoTo
  <2>2. pc \in [Threads -> Between \cup {"forward", "sync"}] /\ pos \in [Threads -> Nat]
    BY DEF IInv, ControlOK
  <2> QED
    BY <2>1, <2>2, Running DEF Advance, DataInv, mainVars
<1>1. \A k \in 0 .. steps : ~Written(q, k) => tokGens'[SlotStart(q) + k] = tokGens[SlotStart(q) + k]
  BY AdvanceSlots
<1>2. CASE ~Alone(q) \/ ~\E b \in Generating(t) : q = Request(b)
  BY <1>0, <1>1, <1>2, StepKeeps
<1>3. CASE Alone(q) /\ \E b \in Generating(t) : q = Request(b)
  <2>1. PICK b \in Generating(t) : q = Request(b)
    BY <1>3
  <2>2. b \in RowsOf(t) /\ b \in Rows /\ mask[b] /\ at >= Prompt(b) /\ Prompt(b) \in Nat /\ b \in LiveRows(t)
    BY <1>0, Running DEF Generating, LiveRows
  <2> DEFINE n == Count(b)
  <2>3. SlotHolds(tokGens, q, n, 0) /\ ~EndsInStop(tokGens, q, n) /\ RowInv(t, b)
    BY <1>0, <1>3, <2>1, <2>2, Running DEF SlotInv
  <2>4. SlotHolds(tokGens', q, Count(b)', 0)
    <3>1. b \in RowsOf(t)' /\ chunk' < Chunks'
      BY <1>0, <2>2, Fixed
    <3>2. SlotInv(t, b)'
      BY <3>1 DEF DataInv, ChunkInv
    <3> QED
      BY <1>0, <1>3, <2>1, <3>2, SlotPrimed
  <2>5. Count(b)' = n + 1 /\ at - Prompt(b) = n /\ n \in Nat
    <3>1. epos'[b] = at /\ Prompt(b)' = Prompt(b)
      BY <1>0, <2>2, FixedChunk
    <3>2. Prompt(b) >= 1 /\ epos[b] = IF pos[t] = 0 THEN -1 ELSE pos[t]
      BY <1>0, <2>2, <2>3 DEF RowInv
    <3> QED
      BY <1>0, <2>2, <3>1, <3>2 DEF Count
  <2>6. \A k \in 0 .. steps : k # n => ~Written(q, k)
    <3> SUFFICES ASSUME NEW k \in 0 .. steps, NEW c \in Generating(t), q = Request(c), k = at - Prompt(c)
                 PROVE  k = n
      OBVIOUS
    <3>1. c \in Rows
      BY <1>0, Running DEF Generating, LiveRows
    <3>2. c = b
      BY <1>0, <2>1, <2>2, <3>1, RequestsDealt
    <3> QED
      BY <2>5, <3>2
  <2>7. \A k \in 0 .. n - 1 : tokGens'[SlotStart(q) + k] = tokGens[SlotStart(q) + k]
    <3>1. steps \in Nat /\ nPrompt[q] \in Nat /\ n <= steps - nPrompt[q]
      BY <1>0, <2>3, SizesOK DEF SlotHolds
    <3>2. \A k \in 0 .. n - 1 : k \in 0 .. steps /\ k # n
      BY <2>5, <3>1
    <3> QED
      BY <1>1, <2>6, <3>2
  <2>8. SlotHolds(tokGens', q, n + 1, 0)
    BY <2>4, <2>5
  <2> HIDE DEF n
  <2> QED
    BY <1>0, <1>3, <2>3, <2>7, <2>8, StepExtends
<1> QED
  BY <1>2, <1>3

LEMMA FinishCloses ==
  ASSUME IInv, DataInv, DataInv', NEW t \in Threads, Finish(t), \A b \in RowsOf(t) : epos[b] # -1,
         NEW q \in Requests
  PROVE  Single!Close(q) \/ Single!Keep(q)
<1> DEFINE Written(r, k) == \E b \in RowsOf(t) : r = Request(b) /\ k = Count(b)
<1>0. /\ main = "running" /\ pc[t] = "finish" /\ DataOK /\ DataOK' /\ chunk < Chunks
      /\ UNCHANGED requestVars /\ chunk' = chunk
      /\ epos' = epos /\ pc'[t] = "done"
  <2>1. main = "running" /\ pc[t] = "finish" /\ pc' = [pc EXCEPT ![t] = "done"]
    BY DEF Finish, At, GoTo
  <2>2. pc \in [Threads -> Between \cup {"forward", "sync"}]
    BY DEF IInv, ControlOK
  <2> QED
    BY <2>1, <2>2, Running DEF Finish, DataInv, mainVars, rowVars
<1>1. Alone(q) => \A k \in 0 .. steps :
        ~Written(q, k) => tokGens'[SlotStart(q) + k] = tokGens[SlotStart(q) + k]
  BY FinishSlots
<1>2. CASE ~Alone(q) \/ ~\E b \in RowsOf(t) : q = Request(b)
  BY <1>0, <1>1, <1>2, StepKeeps
<1>3. CASE Alone(q) /\ \E b \in RowsOf(t) : q = Request(b)
  <2>1. PICK b \in RowsOf(t) : q = Request(b)
    BY <1>3
  <2>2. b \in Rows /\ Prompt(b) = nPrompt[q] /\ Prompt(b) <= steps
    BY <1>0, <1>3, <2>1, Running DEF Alone, Prompt
  <2> DEFINE n == Count(b)
  <2>3. /\ SlotHolds(tokGens, q, n, 0)
        /\ mask[b] \/ EndsInStop(tokGens, q, n)
    BY <1>0, <1>3, <2>1, Running DEF SlotInv
  <2>4. EndsInStop(tokGens, q, n) \/ n = steps - nPrompt[q]
    BY <1>0, <2>1, <2>2, <2>3, RowEnds
  <2>5. SlotHolds(tokGens', q, n, Sentinel)
    <3>1. b \in RowsOf(t)' /\ chunk' < Chunks'
      BY <1>0, <2>1, Fixed
    <3>2. SlotInv(t, b)'
      BY <3>1 DEF DataInv, ChunkInv
    <3>3. Count(b)' = n
      BY <1>0, FixedChunk DEF Count
    <3> QED
      BY <1>0, <1>3, <2>1, <3>2, <3>3, SlotPrimed
  <2>6. \A k \in 0 .. steps : k # n => ~Written(q, k)
    <3> SUFFICES ASSUME NEW c \in RowsOf(t), q = Request(c)
                 PROVE  Count(c) = n
      OBVIOUS
    <3>1. c \in Rows
      BY <1>0, Running
    <3>2. c = b
      BY <1>0, <2>1, <2>2, <3>1, RequestsDealt
    <3> QED
      BY <3>2
  <2>7. \A k \in 0 .. n - 1 : tokGens'[SlotStart(q) + k] = tokGens[SlotStart(q) + k]
    <3>1. steps \in Nat /\ nPrompt[q] \in Nat /\ n \in Nat /\ n <= steps - nPrompt[q]
      BY <1>0, <2>3, SizesOK DEF SlotHolds
    <3>2. \A k \in 0 .. n - 1 : k \in 0 .. steps /\ k # n
      BY <3>1
    <3> QED
      BY <1>1, <1>3, <2>6, <3>2
  <2> HIDE DEF n
  <2> QED
    BY <1>0, <1>3, <2>3, <2>4, <2>5, <2>7, StepCloses
<1> QED
  BY <1>2, <1>3

LEMMA NextDecodes ==
  ASSUME IInv, DataInv, DataInv', [Next]_vars
  PROVE  Single!DecodeNext
<1>0. DataOK /\ DataOK'
  BY DEF DataInv
<1>1. UNCHANGED requestVars
  BY DEF Next, HostThread, Join, Terminated, Encode, LoopTest, ForwardArrive, ForwardLeave, Advance,
         SyncArrive, SyncLeave, Scan, Finish, ExitProcess, vars
<1>2. ASSUME tokGens' = tokGens PROVE \A q \in Requests : Single!Keep(q)
  BY <1>0, <1>1, <1>2, StepKeeps
<1>3. \A q \in Requests : Single!Extend(q) \/ Single!Close(q) \/ Single!Keep(q)
  <2>1. CASE Join \/ Terminated \/ UNCHANGED vars
    BY <1>2, <2>1 DEF Join, Terminated, outputVars, vars
  <2>2. ASSUME NEW t \in Threads, HostThread(t)
        PROVE  \A q \in Requests : Single!Extend(q) \/ Single!Close(q) \/ Single!Keep(q)
    <3>1. CASE Advance(t)
      BY <3>1, AdvanceExtends
    <3>2. CASE Finish(t) /\ \A b \in RowsOf(t) : epos[b] # -1
      BY <3>2, FinishCloses
    <3>3. CASE Finish(t) /\ \E b \in RowsOf(t) : epos[b] = -1
      BY <1>2, <3>3 DEF Finish, ExitProcess, outputVars
    <3>4. CASE Encode(t) \/ LoopTest(t) \/ ForwardArrive(t) \/ ForwardLeave(t)
               \/ SyncArrive(t) \/ SyncLeave(t) \/ Scan(t)
      BY <1>2, <3>4 DEF Encode, LoopTest, ForwardArrive, ForwardLeave, SyncArrive, SyncLeave, Scan,
                        ExitProcess, outputVars
    <3> QED
      BY <2>2, <3>1, <3>2, <3>3, <3>4 DEF HostThread
  <2> QED
    BY <2>1, <2>2 DEF Next
<1> QED
  BY <1>1, <1>3 DEF Single!DecodeNext, requestVars

LEMMA InitDecodes == Init => Single!DecodeInit
<1> SUFFICES ASSUME Init, NEW q \in Requests PROVE Output(q) = << >> /\ ~Ended(q)
  BY DEF Single!DecodeInit, Ended
<1>1. DataInv /\ DataOK
  BY InitData DEF DataInv
<1>2. CASE ~Alone(q)
  BY <1>2 DEF Output, Ended
<1>3. CASE Alone(q)
  <2>1. SlotHolds(tokGens, q, 0, 0)
    <3>1. \A k \in 0 .. steps : tokGens[SlotStart(q) + k] = 0
      BY <1>1, SlotsApart DEF Init
    <3>2. 0 \in 0 .. steps - nPrompt[q] /\ 0 \in 0 .. steps /\ steps \in Nat
      BY <1>1, <1>3, SizesOK DEF Alone
    <3> QED
      BY <3>1, <3>2 DEF SlotHolds
  <2>2. Output(q) = Taken(tokGens, q, 0) /\ ~Ended(q)
    BY <1>1, <1>3, <2>1, OutputOf DEF Sentinel
  <2>3. Taken(tokGens, q, 0) = << >>
    BY DEF Taken
  <2> QED
    BY <2>2, <2>3
<1> QED
  BY <1>2, <1>3

(* Decoding in batches, in step, over a shared arena, does for every       *)
(* request what decoding it alone would do (module Decode): its output     *)
(* grows by a token at a time, up to a stop token or the budget, and is    *)
(* then closed for good.                                                   *)
THEOREM DecodesAlone == Spec => ImplementsDecode
<1>1. IInv /\ DataInv /\ DataInv' /\ [Next]_vars => [Single!DecodeNext]_Single!dvars
  BY NextDecodes
<1> QED
  BY <1>1, InitDecodes, Slots, ThreadsInStep, PTL DEF Spec, ImplementsDecode, Single!DecodeSpec
=============================================================================
