----------------------------- MODULE Rendezvous -----------------------------
(***************************************************************************)
(* What a reusable barrier promises to the host threads of one model       *)
(* replica (src/include/barrier.hpp): a thread that has entered its k-th   *)
(* wait leaves it only after every thread has entered its own k-th wait.   *)
(* Threads leave one by one, so a fast thread may be in its (k+1)-th wait  *)
(* while a slow one is still leaving the k-th.                             *)
(*                                                                         *)
(* Module Barrier shows that the counting barrier of the code implements   *)
(* this specification; the modules of the components that synchronise      *)
(* through a barrier use the actions Arrive and Leave of this one.         *)
(***************************************************************************)
EXTENDS Naturals

CONSTANT Threads      \* the host threads that share the barrier

VARIABLES passed,     \* passed[t]: the waits thread t has returned from
          inside      \* the threads that have entered a wait and not left it

rvars == <<passed, inside>>

RendezvousInit == /\ passed = [t \in Threads |-> 0]
                  /\ inside = {}

(* The waits thread t has entered so far. *)
Entered(t) == passed[t] + (IF t \in inside THEN 1 ELSE 0)

Arrive(t) == /\ t \notin inside
             /\ inside' = inside \cup {t}
             /\ UNCHANGED passed

Leave(t) == /\ t \in inside
            /\ \A u \in Threads : Entered(u) > passed[t]
            /\ inside' = inside \ {t}
            /\ passed' = [passed EXCEPT ![t] = @ + 1]

RendezvousNext == \E t \in Threads : Arrive(t) \/ Leave(t)

RendezvousSpec == RendezvousInit /\ [][RendezvousNext]_rvars
=============================================================================
