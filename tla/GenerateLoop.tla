---------------------------- MODULE GenerateLoop ----------------------------
(***************************************************************************)
(* Batched decoding of the requests of one model replica:                  *)
(* Model_120b::distribute_requests and coop_getp_generate of               *)
(* src/src/getp/run.cpp.  (Model_20b has the same loop; its replicas do    *)
(* one chunk each and share nothing but the output arena.)                 *)
(*                                                                         *)
(* The main thread cuts the requests into chunks.  For each chunk it       *)
(* starts one host thread per GPU, each with its own rows, a fresh         *)
(* thread_states array and a fresh Barrier, and joins them.  The threads   *)
(* advance all rows by one position per step.  A thread whose rows are all *)
(* finished clears its entry of thread_states, and all leave the loop at   *)
(* the step at which every entry is clear.                                 *)
(*                                                                         *)
(* getp_forward_120b is seen through what the loop depends on: it crosses  *)
(* the barrier ForwardWaits times (two waits per layer) and returns some   *)
(* token for every row.                                                    *)
(***************************************************************************)
EXTENDS Integers, FiniteSets, Functions

CONSTANTS EP,            \* EXPERT_PARALLELISM: threads (GPUs) of the replica
          NumReqs,       \* requests of the replica
          ForwardWaits,  \* waits inside one call of getp_forward_120b
          Workloads      \* what a run may be: a record of
                         \*   batch    BATCH_SIZE: rows per thread
                         \*   steps    max_seq_len of the requests
                         \*   prompts  token counts the encoder may return

ASSUME LoopAssumption ==
  /\ EP \in Nat \ {0}
  /\ NumReqs \in Nat \ {0}
  /\ ForwardWaits \in Nat \ {0}
  /\ \A w \in Workloads : /\ w.batch \in Nat \ {0}
                          /\ NumReqs % (EP * w.batch) = 0
                          /\ w.steps \in Nat
                          /\ w.prompts \in SUBSET Nat

VARIABLES workload,     \* the workload of this run
          steps,        \* its length budget
          nPrompt,      \* nPrompt[q]: tokens in the prompt of request q
          tokGens,      \* the arena Requests::tok_gens, one slot per request
          chunk,        \* the chunk being decoded, from 0
          main,         \* the main thread: "running", "returned" or "exited"
          accTokenOut,  \* acc_token_out of distribute_requests
          pc,           \* pc[t]: where thread t stands
          forwardLeft,  \* forwardLeft[t]: waits left in the current forward
          scanned,      \* scanned[t]: entries of thread_states read as zero
          threadStates, \* the shared array thread_states
          pos,          \* pos[t]
          epos,         \* epos[b], b a row of the chunk
          mask,         \* mask[b]
          numTokenOut,  \* nums_token_out[t]
          passed, inside   \* the chunk's barrier (module Rendezvous)

requestVars == <<workload, steps, nPrompt>>
mainVars == <<chunk, main, accTokenOut>>
controlVars == <<pc, forwardLeft, scanned>>
barrierVars == <<passed, inside>>
rowVars == <<pos, epos, mask>>
outputVars == <<tokGens, numTokenOut>>
vars == <<requestVars, mainVars, controlVars, barrierVars, rowVars, outputVars,
          threadStates>>

BatchSize == workload.batch
Chunks == NumReqs \div (EP * BatchSize)     \* of EP * BatchSize requests each

Threads == 0 .. EP - 1
Rows == 0 .. EP * BatchSize - 1                 \* the rows of a chunk
RowsOf(t) == t * BatchSize .. (t + 1) * BatchSize - 1
Requests == 0 .. NumReqs - 1
Request(b) == chunk * EP * BatchSize + b        \* idx0 + idx + b
Prompt(b) == nPrompt[Request(b)]

(* The tokens the loop tells apart: ordinary ones, and <|endoftext|> and   *)
(* <|return|>, which finish a row.  An unwritten arena cell is 0 (calloc)  *)
(* and a finished sequence ends with -1.                                   *)
Text == 1
Stop == 2
Tokens == {Text, Stop}
Sentinel == -1

(* get_tok_gen_ptr: slots of max_seq_len + 1 ints, side by side. *)
SlotStart(q) == q * (steps + 1)
Arena == 0 .. NumReqs * (steps + 1) - 1
Slot(q) == SlotStart(q) .. SlotStart(q) + steps

Sync == INSTANCE Rendezvous
-----------------------------------------------------------------------------
(* The state a chunk's threads start in: a new barrier, every entry of     *)
(* thread_states 1, every row live and without a position.                 *)
FreshThreads(pcs, left, scans, states, ps, es, ms, waits, waiting) ==
  /\ pcs = [t \in Threads |-> "encode"]
  /\ left = [t \in Threads |-> 0]
  /\ scans = [t \in Threads |-> 0]
  /\ states = [t \in Threads |-> 1]
  /\ ps = [t \in Threads |-> 0]
  /\ es = [b \in Rows |-> -1]
  /\ ms = [b \in Rows |-> TRUE]
  /\ waits = [t \in Threads |-> 0]
  /\ waiting = {}

Init == /\ workload \in Workloads
        /\ steps = workload.steps
        /\ nPrompt \in [Requests -> workload.prompts]
        /\ tokGens = [k \in Arena |-> 0]
        /\ chunk = 0
        /\ main = "running"
        /\ accTokenOut = 0
        /\ numTokenOut = [t \in Threads |-> 0]
        /\ FreshThreads(pc, forwardLeft, scanned, threadStates, pos, epos, mask,
                        passed, inside)

At(t, label) == main = "running" /\ pc[t] = label
GoTo(t, label) == pc' = [pc EXCEPT ![t] = label]

(* exit(EXIT_FAILURE) in any thread ends the process. *)
ExitProcess == /\ main' = "exited"
               /\ UNCHANGED <<requestVars, chunk, accTokenOut, controlVars,
                              barrierVars, rowVars, outputVars, threadStates>>

(* Tokenising the thread's prompts; one without tokens ends the process    *)
(* with "bad prompt".                                                      *)
Encode(t) ==
  /\ At(t, "encode")
  /\ IF \E b \in RowsOf(t) : Prompt(b) < 1
       THEN ExitProcess
       ELSE /\ GoTo(t, "loop")
            /\ UNCHANGED <<requestVars, mainVars, forwardLeft, scanned,
                           barrierVars, rowVars, outputVars, threadStates>>

(* while (pos + 1 < steps): another forward pass, or out of the loop. *)
LoopTest(t) ==
  /\ At(t, "loop")
  /\ IF pos[t] + 1 < steps
       THEN /\ GoTo(t, "forward")
            /\ forwardLeft' = [forwardLeft EXCEPT ![t] = ForwardWaits]
       ELSE /\ GoTo(t, "finish")
            /\ UNCHANGED forwardLeft
  /\ UNCHANGED <<requestVars, mainVars, scanned, barrierVars, rowVars,
                 outputVars, threadStates>>

(* One of the waits inside getp_forward_120b. *)
ForwardArrive(t) ==
  /\ At(t, "forward") /\ forwardLeft[t] > 0
  /\ Sync!Arrive(t)
  /\ UNCHANGED <<requestVars, mainVars, controlVars, rowVars, outputVars,
                 threadStates>>

ForwardLeave(t) ==
  /\ At(t, "forward")
  /\ Sync!Leave(t)
  /\ forwardLeft' = [forwardLeft EXCEPT ![t] = @ - 1]
  /\ UNCHANGED <<requestVars, mainVars, pc, scanned, rowVars, outputVars,
                 threadStates>>

LiveRowsUnmasked(t) == RowsOf(t)     \* Mutant: mask is not looked at

(* A live row takes its next token: the next one of the prompt, or from    *)
(* the end of the prompt on the predicted one, which is stored as well.    *)
(* No prompt has a stop token: merges never make a special token           *)
(* (get_merge_rank, src/src/tokenizer.cpp).                                *)
LiveRows(t) == {b \in RowsOf(t) : mask[b]}
Generating(t) == {b \in LiveRows(t) : pos[t] + 1 >= Prompt(b)}
OutputCell(b, at) == SlotStart(Request(b)) + at - Prompt(b)

(* Mutant: thread_states is decremented at every step of a thread without  *)
(* live rows.                                                              *)
AdvanceDecrements(t) ==
  LET at == pos[t] + 1 IN
  /\ At(t, "forward") /\ forwardLeft[t] = 0
  /\ pos' = [pos EXCEPT ![t] = at]
  /\ epos' = [b \in Rows |-> IF b \in LiveRows(t) THEN at ELSE epos[b]]
  /\ \E next \in [Generating(t) -> Tokens] :
       /\ tokGens' = [k \in Arena |->
            LET rows == {b \in Generating(t) : OutputCell(b, at) = k}
            IN IF rows = {} THEN tokGens[k] ELSE next[CHOOSE b \in rows : TRUE]]
       /\ mask' = [b \in Rows |->
            mask[b] /\ (b \in Generating(t) => next[b] # Stop)]
  /\ threadStates' = [threadStates EXCEPT
       ![t] = IF \A b \in RowsOf(t) : ~mask'[b] THEN @ - 1 ELSE @]
  /\ GoTo(t, "sync")
  /\ UNCHANGED <<requestVars, mainVars, forwardLeft, scanned, barrierVars,
                 numTokenOut>>

(* getp_forward_120b has returned next_gpu.  Rows that got a stop token    *)
(* are masked; a thread left without live rows clears its entry.           *)
Advance(t) ==
  LET at == pos[t] + 1 IN
  /\ At(t, "forward") /\ forwardLeft[t] = 0
  /\ pos' = [pos EXCEPT ![t] = at]
  /\ epos' = [b \in Rows |-> IF b \in LiveRows(t) THEN at ELSE epos[b]]
  /\ \E next \in [Generating(t) -> Tokens] :
       /\ tokGens' = [k \in Arena |->
            LET rows == {b \in Generating(t) : OutputCell(b, at) = k}
            IN IF rows = {} THEN tokGens[k] ELSE next[CHOOSE b \in rows : TRUE]]
       /\ mask' = [b \in Rows |->
            mask[b] /\ (b \in Generating(t) => next[b] # Stop)]
  /\ threadStates' = [threadStates EXCEPT
       ![t] = IF \A b \in RowsOf(t) : ~mask'[b] THEN 0 ELSE @]
  /\ GoTo(t, "sync")
  /\ UNCHANGED <<requestVars, mainVars, forwardLeft, scanned, barrierVars,
                 numTokenOut>>

(* sync_point.wait() at the end of the step. *)
SyncArrive(t) ==
  /\ At(t, "sync")
  /\ Sync!Arrive(t)
  /\ UNCHANGED <<requestVars, mainVars, controlVars, rowVars, outputVars,
                 threadStates>>

SyncLeaveAtOnce(t) ==                \* Mutant: no wait for the other threads
  /\ At(t, "sync")
  /\ t \in inside
  /\ inside' = inside \ {t}
  /\ passed' = [passed EXCEPT ![t] = @ + 1]
  /\ scanned' = [scanned EXCEPT ![t] = 0]
  /\ GoTo(t, "scan")
  /\ UNCHANGED <<requestVars, mainVars, forwardLeft, rowVars, outputVars,
                 threadStates>>

SyncLeave(t) ==
  /\ At(t, "sync")
  /\ Sync!Leave(t)
  /\ scanned' = [scanned EXCEPT ![t] = 0]
  /\ GoTo(t, "scan")
  /\ UNCHANGED <<requestVars, mainVars, forwardLeft, rowVars, outputVars,
                 threadStates>>

(* Mutant: the scan waits until every entry is zero.                       *)
ScanSpins(t) ==
  /\ At(t, "scan")
  /\ \/ /\ scanned[t] = EP
        /\ GoTo(t, "finish")
        /\ UNCHANGED scanned
     \/ /\ scanned[t] < EP /\ threadStates[scanned[t]] = 0
        /\ scanned' = [scanned EXCEPT ![t] = @ + 1]
        /\ UNCHANGED pc
     \/ /\ scanned[t] < EP /\ threadStates[scanned[t]] # 0
        /\ UNCHANGED <<pc, scanned>>
  /\ UNCHANGED <<requestVars, mainVars, forwardLeft, barrierVars, rowVars,
                 outputVars, threadStates>>

(* is_all_zero(thread_states): entry by entry and without a lock, up to    *)
(* the first that is not zero.                                             *)
Scan(t) ==
  /\ At(t, "scan")
  /\ \/ /\ scanned[t] = EP
        /\ GoTo(t, "finish")
        /\ UNCHANGED scanned
     \/ /\ scanned[t] < EP /\ threadStates[scanned[t]] = 0
        /\ scanned' = [scanned EXCEPT ![t] = @ + 1]
        /\ UNCHANGED pc
     \/ /\ scanned[t] < EP /\ threadStates[scanned[t]] # 0
        /\ GoTo(t, "loop")
        /\ UNCHANGED scanned
  /\ UNCHANGED <<requestVars, mainVars, forwardLeft, barrierVars, rowVars,
                 outputVars, threadStates>>

(* epos - nums_prompt_tokens + 1: where row b is terminated, and the       *)
(* number of tokens it counts.                                             *)
EndOfShort(b) == epos[b] - Prompt(b)     \* Mutant: off by one
EndOf(b) == epos[b] - Prompt(b) + 1

(* After the loop: "bad epos" if no step was taken, else the sentinels and *)
(* the thread's token count.  A prompt longer than steps makes EndOf       *)
(* negative, and the sentinel lands in an earlier slot of the arena; what  *)
(* lies before the arena is not modelled.                                  *)
Finish(t) ==
  /\ At(t, "finish")
  /\ IF \E b \in RowsOf(t) : epos[b] = -1
       THEN ExitProcess
       ELSE /\ tokGens' = [k \in Arena |->
                 IF \E b \in RowsOf(t) : k = SlotStart(Request(b)) + EndOf(b)
                   THEN Sentinel ELSE tokGens[k]]
            /\ numTokenOut' = [numTokenOut EXCEPT
                 ![t] = SumFunction([b \in RowsOf(t) |-> EndOf(b)])]
            /\ GoTo(t, "done")
            /\ UNCHANGED <<requestVars, mainVars, forwardLeft, scanned,
                           barrierVars, rowVars, threadStates>>

(* Mutant: the count of the last chunk replaces the sum. *)
JoinOverwrites ==
  /\ main = "running" /\ \A t \in Threads : pc[t] = "done"
  /\ accTokenOut' = SumFunction(numTokenOut)
  /\ chunk' = chunk + 1
  /\ IF chunk + 1 < Chunks
       THEN /\ FreshThreads(pc', forwardLeft', scanned', threadStates', pos',
                            epos', mask', passed', inside')
            /\ UNCHANGED main
       ELSE /\ main' = "returned"
            /\ UNCHANGED <<controlVars, barrierVars, rowVars, threadStates>>
  /\ UNCHANGED <<requestVars, outputVars>>

(* The main thread joins the chunk's threads, adds up their counts, and    *)
(* starts the next chunk's threads.                                        *)
Join ==
  /\ main = "running" /\ \A t \in Threads : pc[t] = "done"
  /\ accTokenOut' = accTokenOut + SumFunction(numTokenOut)
  /\ chunk' = chunk + 1
  /\ IF chunk + 1 < Chunks
       THEN /\ FreshThreads(pc', forwardLeft', scanned', threadStates', pos',
                            epos', mask', passed', inside')
            /\ UNCHANGED main
       ELSE /\ main' = "returned"
            /\ UNCHANGED <<controlVars, barrierVars, rowVars, threadStates>>
  /\ UNCHANGED <<requestVars, outputVars>>

Terminated == main # "running" /\ UNCHANGED vars

HostThread(t) == \/ Encode(t)
                 \/ LoopTest(t)
                 \/ ForwardArrive(t)
                 \/ ForwardLeave(t)
                 \/ Advance(t)
                 \/ SyncArrive(t)
                 \/ SyncLeave(t)
                 \/ Scan(t)
                 \/ Finish(t)

Next == Join \/ Terminated \/ \E t \in Threads : HostThread(t)

Spec == Init /\ [][Next]_vars

(* Every host thread keeps running, pinned to a core of its own; the main  *)
(* thread only joins.                                                      *)
FairSpec == Spec /\ WF_vars(Join) /\ \A t \in Threads : WF_vars(HostThread(t))
-----------------------------------------------------------------------------
TypeOK ==
  /\ workload \in Workloads
  /\ steps = workload.steps
  /\ nPrompt \in [Requests -> workload.prompts]
  /\ tokGens \in [Arena -> Tokens \cup {0, Sentinel}]
  /\ chunk \in 0 .. Chunks
  /\ main \in {"running", "returned", "exited"}
  /\ accTokenOut \in Int
  /\ pc \in [Threads -> {"encode", "loop", "forward", "sync", "scan", "finish",
                         "done"}]
  /\ forwardLeft \in [Threads -> 0 .. ForwardWaits]
  /\ scanned \in [Threads -> 0 .. EP]
  /\ threadStates \in [Threads -> {0, 1}]
  /\ pos \in [Threads -> Nat]
  /\ epos \in [Rows -> Nat \cup {-1}]
  /\ mask \in [Rows -> BOOLEAN]
  /\ numTokenOut \in [Threads -> Int]
  /\ passed \in [Threads -> Nat]
  /\ inside \in SUBSET Threads

(* All threads leave the loop at the same step: once one has left, no peer *)
(* is in a forward pass, or short of the last wait, where it would spin    *)
(* for ever.                                                               *)
LeaveTogether ==
  \A t, u \in Threads :
     pc[t] \in {"finish", "done"} =>
        \/ pos[t] = 0                       \* no step at all: steps <= 1
        \/ /\ pos[u] = pos[t]
           /\ pc[u] \in {"sync", "scan", "loop", "finish", "done"}
           /\ pc[u] = "sync" => u \in inside
           /\ pc[u] = "loop" => pos[u] + 1 >= steps

(* thread_states is read after the wait and without a lock; every thread   *)
(* sees the same values because nobody writes an entry while any thread is *)
(* still reading (docs/SERVING.md:638-641).                                *)
FrozenWhileRead ==
  [][threadStates' # threadStates => \A t \in Threads : pc[t] # "scan"]_vars

(* A request whose slot no terminator of another request falls into. *)
Undisturbed(q) ==
  \A r \in Requests \ {q} : SlotStart(r) + steps - nPrompt[r] \notin Slot(q)

Alone(q) == nPrompt[q] <= steps /\ Undisturbed(q)

Completed(q) == q < chunk * EP * BatchSize

(* A finished slot holds tokens up to the first stop token or the step     *)
(* budget, then the sentinel, and nothing was written after it.            *)
WellFormed(q) ==
  \E n \in 0 .. steps - nPrompt[q] :
     /\ \A k \in 0 .. n - 1 : tokGens[SlotStart(q) + k] \in Tokens
     /\ \A k \in 0 .. n - 2 : tokGens[SlotStart(q) + k] # Stop
     /\ n < steps - nPrompt[q] => n > 0 /\ tokGens[SlotStart(q) + n - 1] = Stop
     /\ tokGens[SlotStart(q) + n] = Sentinel
     /\ \A k \in n + 1 .. steps : tokGens[SlotStart(q) + k] = 0

(* Every request decoded so far has a well-formed output, unless its own   *)
(* prompt or one whose terminator falls into its slot exceeds the budget   *)
(* (docs/SERVING.md:782-785).                                              *)
OutputsWellFormed ==
  \A q \in Requests :
     Completed(q) /\ Alone(q) => WellFormed(q)

(* The tokens stored in slot q before the sentinel. *)
Stored(q) == Cardinality({k \in Slot(q) : tokGens[k] \in Tokens})

(* The count behind the throughput figure is the number of tokens written, *)
(* when every prompt fits the budget.                                      *)
CountMatchesOutput ==
  (\A q \in Requests : nPrompt[q] <= steps) =>
     accTokenOut = SumFunction([q \in {r \in Requests : Completed(r)} |-> Stored(q)])

(* Every request decodes as if it were alone (module Decode), however long *)
(* the prompts next to it: the slot of a request holds its output and its  *)
(* sentinel closes it.  A slot that is overrun (see OutputsWellFormed) is  *)
(* left out of the mapping.                                                *)
Output(q) == IF Alone(q)
               THEN [i \in 1 .. Stored(q) |-> tokGens[SlotStart(q) + i - 1]]
               ELSE << >>
Ended(q) == Alone(q) /\ tokGens[SlotStart(q) + Stored(q)] = Sentinel

Single == INSTANCE Decode WITH
            StopToken <- Stop,
            out <- [q \in Requests |-> Output(q)],
            closed <- [q \in Requests |-> Ended(q)]

ImplementsDecode == Single!DecodeSpec

(* The run ends: all chunks are joined, or a bad prompt or a budget of     *)
(* less than two steps ends the process.                                   *)
Terminates ==
  <>(\/ main = "returned"
     \/ main = "exited" /\ (steps <= 1 \/ \E q \in Requests : nPrompt[q] = 0))
=============================================================================
