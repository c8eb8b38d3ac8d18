------------------------------ MODULE Streams -------------------------------
(***************************************************************************)
(* Host threads driving GPU streams: the part of the HIP runtime that      *)
(* src/src/hip/forward.hip relies on for the exchange of activations       *)
(* between the GPUs of a replica.                                          *)
(*                                                                         *)
(* Each device has one host thread.  The thread runs a program: it puts    *)
(* kernels, event records and event waits on streams and goes on without   *)
(* waiting for them, except at a drain (hipStreamSynchronize) and at the   *)
(* barrier it shares with the other threads.  A stream executes its        *)
(* entries in order, concurrently with everything else.                    *)
(*                                                                         *)
(* hipStreamWaitEvent refers to the record that is the event's latest at   *)
(* the time of the CALL; if there is none the wait is over at once.        *)
(*                                                                         *)
(* An instruction is a record                                              *)
(*   do      "kernel", "record", "wait", "drain" or "barrier"              *)
(*   on      the stream it goes to (or drains)                             *)
(*   event   the event it records or waits for                             *)
(*   layer   the layer of the run it belongs to, counted over all steps    *)
(*   reads   the places a kernel reads                                     *)
(*   writes  the places a kernel writes                                    *)
(* A place holds the number of the layer that wrote it last, and a kernel  *)
(* must find its own layer's number in every place it reads.               *)
(***************************************************************************)
EXTENDS Naturals, Sequences, FiniteSets

CONSTANTS Devices,      \* the GPUs of the replica, one host thread each
          StreamNames,  \* the streams of a device
          Events,       \* the events of all devices
          Places,       \* the places in the memories of all devices
          Builds,       \* the build variants to look at
          Program       \* Program[b][d]: in build b, the instructions of d's
                        \* host thread

InstructionSet == [do     : {"kernel", "record", "wait", "drain", "barrier"},
                   on     : StreamNames,
                   event  : Events \cup {<<>>},
                   layer  : Nat,
                   reads  : SUBSET Places,
                   writes : SUBSET Places]

ASSUME ProgramAssumption == /\ IsFiniteSet(Devices)
                            /\ Devices # {}
                            /\ Program \in [Builds -> [Devices -> Seq(InstructionSet)]]

VARIABLES build,    \* the build this run is of
          host,     \* host[d]: the instruction d's host thread is at
          queue,    \* queue[d][s]: what has been put on a stream and not done;
                    \* an entry is <<instruction, captured record>>
          running,  \* running[d][s]: the kernel at the head is executing
          latest,   \* latest[e]: the last issued record of event e, 0 for none
          fired,    \* fired[e]: the last record of e that has been executed
          content,  \* content[a]: the layer that last wrote place a
          passed, inside   \* the host threads' barrier

Code(d) == Program[build][d]
Instructions(d) == 1 .. Len(Code(d))

hostVars == <<build, host, passed, inside>>
vars == <<build, host, queue, running, latest, fired, content, passed, inside>>

Sync == INSTANCE Rendezvous WITH Threads <- Devices

Init == /\ build \in Builds
        /\ host = [d \in Devices |-> 1]
        /\ queue = [d \in Devices |-> [s \in StreamNames |-> <<>>]]
        /\ running = [d \in Devices |-> [s \in StreamNames |-> FALSE]]
        /\ latest = [e \in Events |-> 0]
        /\ fired = [e \in Events |-> 0]
        /\ content = [a \in Places |-> 0]
        /\ Sync!RendezvousInit
-----------------------------------------------------------------------------
(* The host threads. *)
AtInstruction(d, kind) == /\ host[d] \in Instructions(d)
                          /\ Code(d)[host[d]].do = kind
Current(d) == Code(d)[host[d]]
Proceed(d) == host' = [host EXCEPT ![d] = @ + 1]

Enqueue(d, captured) ==
  queue' = [queue EXCEPT ![d][Current(d).on] = Append(@, <<host[d], captured>>)]

(* kernel<<<..., stream>>>(...) *)
IssueKernel(d) ==
  /\ AtInstruction(d, "kernel")
  /\ Enqueue(d, 0) /\ Proceed(d)
  /\ UNCHANGED <<build, running, latest, fired, content, passed, inside>>

(* hipEventRecord(event, stream) *)
IssueRecord(d) ==
  /\ AtInstruction(d, "record")
  /\ Enqueue(d, 0) /\ Proceed(d)
  /\ latest' = [latest EXCEPT ![Current(d).event] = host[d]]
  /\ UNCHANGED <<build, running, fired, content, passed, inside>>

(* hipStreamWaitEvent(stream, event) *)
IssueWait(d) ==
  /\ AtInstruction(d, "wait")
  /\ Enqueue(d, latest[Current(d).event]) /\ Proceed(d)
  /\ UNCHANGED <<build, running, latest, fired, content, passed, inside>>

(* hipStreamSynchronize(stream) *)
Drain(d) ==
  /\ AtInstruction(d, "drain")
  /\ queue[d][Current(d).on] = <<>>
  /\ Proceed(d)
  /\ UNCHANGED <<build, queue, running, latest, fired, content, passed, inside>>

(* sync_point.wait(), see module Rendezvous. *)
Arrive(d) ==
  /\ AtInstruction(d, "barrier")
  /\ Sync!Arrive(d)
  /\ UNCHANGED <<build, host, queue, running, latest, fired, content>>

Leave(d) ==
  /\ AtInstruction(d, "barrier")
  /\ Sync!Leave(d) /\ Proceed(d)
  /\ UNCHANGED <<build, queue, running, latest, fired, content>>

Host(d) == \/ IssueKernel(d)
           \/ IssueRecord(d)
           \/ IssueWait(d)
           \/ Drain(d)
           \/ Arrive(d)
           \/ Leave(d)
-----------------------------------------------------------------------------
(* The streams. *)
AtHead(d, s, kind) == /\ queue[d][s] # <<>>
                      /\ Code(d)[Head(queue[d][s])[1]].do = kind
HeadOf(d, s) == Code(d)[Head(queue[d][s])[1]]
Pop(d, s) == queue' = [queue EXCEPT ![d][s] = Tail(@)]

KernelBegins(d, s) ==
  /\ AtHead(d, s, "kernel") /\ ~running[d][s]
  /\ running' = [running EXCEPT ![d][s] = TRUE]
  /\ UNCHANGED <<queue, latest, fired, content, hostVars>>

KernelEnds(d, s) ==
  /\ running[d][s]
  /\ running' = [running EXCEPT ![d][s] = FALSE]
  /\ content' = [a \in Places |->
       IF a \in HeadOf(d, s).writes THEN HeadOf(d, s).layer ELSE content[a]]
  /\ Pop(d, s)
  /\ UNCHANGED <<latest, fired, hostVars>>

RecordFires(d, s) ==
  /\ AtHead(d, s, "record")
  /\ fired' = [fired EXCEPT ![HeadOf(d, s).event] = Head(queue[d][s])[1]]
  /\ Pop(d, s)
  /\ UNCHANGED <<running, latest, content, hostVars>>

WaitIsOver(d, s) ==
  /\ AtHead(d, s, "wait")
  /\ fired[HeadOf(d, s).event] >= Head(queue[d][s])[2]
  /\ Pop(d, s)
  /\ UNCHANGED <<running, latest, fired, content, hostVars>>

Stream(d, s) == \/ KernelBegins(d, s)
                \/ KernelEnds(d, s)
                \/ RecordFires(d, s)
                \/ WaitIsOver(d, s)

Finished(d) == /\ host[d] = Len(Code(d)) + 1
               /\ \A s \in StreamNames : queue[d][s] = <<>>

Terminated == (\A d \in Devices : Finished(d)) /\ UNCHANGED vars

Next == \/ Terminated
        \/ \E d \in Devices : Host(d) \/ \E s \in StreamNames : Stream(d, s)

Spec == Init /\ [][Next]_vars

(* The same executions with the host threads as far ahead as they get: a   *)
(* stream moves only when no host thread can.  A host step only appends to *)
(* a queue and looks at no stream, a drain excepted, so in any execution   *)
(* it can be taken before the stream steps ahead of it without a change to *)
(* what the streams do or the waits refer to: Ordered and WaitsMatch are   *)
(* violated here if they are in Spec, and a deadlock is reached here if    *)
(* one is there.                                                           *)
HostCanStep(d) ==
  /\ host[d] \in Instructions(d)
  /\ Current(d).do = "drain" => queue[d][Current(d).on] = <<>>
  /\ Current(d).do = "barrier" /\ d \in inside =>
       \A u \in Devices : Sync!Entered(u) > passed[d]

NextHostFirst ==
  \/ Terminated
  \/ \E d \in Devices : Host(d)
  \/ /\ \A d \in Devices : ~HostCanStep(d)
     /\ \E d \in Devices, s \in StreamNames : Stream(d, s)

HostFirstSpec == Init /\ [][NextHostFirst]_vars

(* As long as a host thread or a stream can go on, one of them does.  That *)
(* is less than every thread and stream being run fairly, and enough: none *)
(* has a loop, so none can hold up another by running itself.              *)
FairSpec == Spec /\ WF_vars(Next)
-----------------------------------------------------------------------------
(* The kernels executing now. *)
Executing == {x \in Devices \X StreamNames : running[x[1]][x[2]]}

(* Two kernels that execute at the same time never touch the same place,   *)
(* on any device, when one of them writes it.                              *)
NoRace ==
  \A x, y \in Executing :
     x # y => HeadOf(x[1], x[2]).writes
                \cap (HeadOf(y[1], y[2]).reads \cup HeadOf(y[1], y[2]).writes) = {}

(* A kernel finds its own layer's data in every place it reads, for as     *)
(* long as it executes: neither an older layer's nor a newer one's.        *)
FreshReads ==
  \A x \in Executing :
     \A a \in HeadOf(x[1], x[2]).reads : content[a] = HeadOf(x[1], x[2]).layer

(* The exchange is ordered: whatever runs at the same time, on whichever   *)
(* devices, a kernel neither races with another nor reads another layer's  *)
(* data.                                                                   *)
Ordered == NoRace /\ FreshReads

(* Every wait, when it is put on a stream, refers to the record its layer  *)
(* is about: not to the previous step's, and not to nothing.               *)
WaitsMatch ==
  \A d \in Devices, s \in StreamNames :
     queue[d][s] # <<>> =>
       LET entry == queue[d][s][Len(queue[d][s])]
           wait == Code(d)[entry[1]]
       IN wait.do = "wait" =>
            \E r \in Devices :
               /\ entry[2] \in Instructions(r)
               /\ Code(r)[entry[2]].do = "record"
               /\ Code(r)[entry[2]].event = wait.event
               /\ Code(r)[entry[2]].layer = wait.layer

(* Every host thread gets through its program and every stream empties:    *)
(* no cycle of event waits and barriers.                                   *)
Completes == <>(\A d \in Devices : Finished(d))
=============================================================================
