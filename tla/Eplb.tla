-------------------------------- MODULE Eplb --------------------------------
(***************************************************************************)
(* Moving experts between the GPUs of a replica while it decodes: the      *)
(* EPLB blocks of getp_forward_120b (src/src/hip/forward.hip), run by one  *)
(* host thread per rank.                                                   *)
(*                                                                         *)
(* At the start of a move step the ranks publish the tiles each of their   *)
(* weight slots cost over the counted steps, make the same plan, agree     *)
(* that all of them have room for the experts they receive, and exchange   *)
(* them layer by layer through a staging buffer.  The router writes        *)
(* labels, so a rank's label table says where each expert is.              *)
(*                                                                         *)
(* The layers of a step are seen as one action between two crossings of    *)
(* the barrier: they use the tables and slots of all ranks.                *)
(***************************************************************************)
EXTENDS EplbPlan, Sequences

CONSTANTS Layers,       \* n_layers
          MaxSteps,     \* token steps of the run
          At,           \* GETP_EPLB_AT: 40
          Period,       \* GETP_EPLB_PERIOD: 100
          Window,       \* GETP_EPLB_WINDOW: 32
          TileChoices,  \* tiles a slot may have cost
          BorrowRoom    \* experts that fit into z_partial

ASSUME EplbAssumption == /\ Layers \in Nat \ {0}
                         /\ {MaxSteps, At, Window, BorrowRoom} \subseteq Nat
                         /\ Period \in Nat \ {0}
                         /\ Window <= At
                         /\ TileChoices \subseteq Nat

VARIABLES step,       \* g_eplb_step[r]
          counted,    \* counted[r]: steps counted in eplb_acc since it was cleared
          tiles,      \* g_eplb_tiles, what rank r has published, by layer and label
          plan,       \* plan[r][l]: the owners rank r has worked out
          stageCap,   \* g_eplb_stage_cap[r]
          stage,      \* stage[r]: the experts in r's staging buffer
          ok,         \* g_eplb_ok[r]
          slots,      \* slots[l][lab]: the expert whose weights are in slot lab
          label,      \* eplb_label[r][l][e] and its device copy
          layer,      \* layer[r]: the layer rank r is moving
          done,       \* done[r]: experts of that layer staged or installed
          pc,
          passed, inside   \* the barrier (module Rendezvous)

moveVars == <<tiles, plan, stageCap, stage, ok, layer, done>>
placeVars == <<slots, label>>
stepVars == <<step, counted>>
barrierVars == <<passed, inside>>
vars == <<stepVars, moveVars, placeVars, pc, barrierVars>>

Sync == INSTANCE Rendezvous WITH Threads <- Ranks

LayerSet == 0 .. Layers - 1
Experts == Labels

Init == /\ step = [r \in Ranks |-> 0]
        /\ counted = [r \in Ranks |-> 0]
        /\ tiles = [l \in LayerSet |-> [lab \in Labels |-> 0]]
        /\ plan = [r \in Ranks |-> [l \in LayerSet |-> Unmoved]]
        /\ stageCap = [r \in Ranks |-> 0]
        /\ stage = [r \in Ranks |-> <<>>]
        /\ ok = [r \in Ranks |-> FALSE]
        /\ slots = [l \in LayerSet |-> [lab \in Labels |-> lab]]
        /\ label = [r \in Ranks |-> [l \in LayerSet |-> [e \in Experts |-> e]]]
        /\ layer = [r \in Ranks |-> 0]
        /\ done = [r \in Ranks |-> 0]
        /\ pc = [r \in Ranks |-> "step"]
        /\ Sync!RendezvousInit

GoTo(r, from, to) == pc[r] = from /\ pc' = [pc EXCEPT ![r] = to]
-----------------------------------------------------------------------------
(* eplb_move_now and eplb_count. *)
MoveNow(r) == step[r] >= At /\ (step[r] - At) % Period = 0
CountNow(r) == /\ step[r] + Window >= At
               /\ (step[r] + Window - At) % Period < Window

(* The start of a step: a move, or straight to the layers. *)
BeginStep(r) ==
  /\ step[r] < MaxSteps
  /\ GoTo(r, "step", IF MoveNow(r) THEN "publish" ELSE "layers")
  /\ UNCHANGED <<stepVars, moveVars, placeVars, barrierVars>>

(* Mutant: the plan is made without waiting for the peers' counts. *)
PublishAlone(r) ==
  /\ GoTo(r, "publish", "plan")
  /\ \E cost \in [LayerSet -> [LabelsOf(r) -> TileChoices]] :
       tiles' = [l \in LayerSet |-> [lab \in Labels |->
                   IF lab \in LabelsOf(r) THEN cost[l][lab] ELSE tiles[l][lab]]]
  /\ UNCHANGED <<stepVars, plan, stageCap, stage, ok, layer, done, placeVars,
                 barrierVars>>

(* The counts are copied to the host.  What they are is the routing's      *)
(* business.                                                               *)
Publish(r) ==
  /\ GoTo(r, "publish", "published")
  /\ \E cost \in [LayerSet -> [LabelsOf(r) -> TileChoices]] :
       tiles' = [l \in LayerSet |-> [lab \in Labels |->
                   IF lab \in LabelsOf(r) THEN cost[l][lab] ELSE tiles[l][lab]]]
  /\ UNCHANGED <<stepVars, plan, stageCap, stage, ok, layer, done, placeVars,
                 barrierVars>>

(* Arriving at and leaving the four waits of a move and those of the step. *)
WaitsThen == [published |-> "plan", voted |-> "decide", staged |-> "install",
              cleared |-> "layers", computed |-> "step"]

Arrive(r) == /\ pc[r] \in DOMAIN WaitsThen
             /\ Sync!Arrive(r)
             /\ UNCHANGED <<stepVars, moveVars, placeVars, pc>>

Leave(r) == /\ pc[r] \in DOMAIN WaitsThen
            /\ Sync!Leave(r)
            /\ pc' = [pc EXCEPT ![r] = WaitsThen[@]]
            /\ UNCHANGED <<stepVars, moveVars, placeVars>>

(* incoming[l]: the slots rank r receives an expert for, in the order of   *)
(* the labels they come from.                                              *)
IncomingSlots(r, l) ==
  LET from == Incoming(plan[r][l], r)
      new == NewLabels(plan[r][l])
  IN [k \in 1 .. Cardinality(from) |-> new[Nth(k - 1, from)]]
MostIncoming(own, r) == Max({Cardinality(Incoming(own[l], r)) : l \in LayerSet})

(* The plan, and room for the experts of the fullest layer: the buffer is  *)
(* large enough, or can be allocated anew, or z_partial is borrowed.       *)
Vote(r) ==
  LET own == [l \in LayerSet |-> Owners(tiles[l])]
      need == MostIncoming(own, r)
  IN /\ GoTo(r, "plan", "voted")
     /\ plan' = [plan EXCEPT ![r] = own]
     /\ \/ /\ need <= stageCap[r]
           /\ ok' = [ok EXCEPT ![r] = TRUE]
           /\ UNCHANGED stageCap
        \/ /\ need > stageCap[r]       \* hipMalloc succeeds
           /\ stageCap' = [stageCap EXCEPT ![r] = need]
           /\ ok' = [ok EXCEPT ![r] = TRUE]
        \/ /\ need > stageCap[r]       \* hipMalloc fails
           /\ stageCap' = [stageCap EXCEPT ![r] = 0]
           /\ ok' = [ok EXCEPT ![r] = need <= BorrowRoom]
     /\ UNCHANGED <<stepVars, tiles, stage, layer, done, placeVars, barrierVars>>

(* all_ok && moved > 0 *)
Decide(r) ==
  /\ GoTo(r, "decide", IF /\ \A q \in Ranks : ok[q]
                          /\ \E l \in LayerSet : Moved(plan[r][l]) # {}
                         THEN "stage" ELSE "clear")
  /\ layer' = [layer EXCEPT ![r] = 0]
  /\ done' = [done EXCEPT ![r] = 0]
  /\ stage' = [stage EXCEPT ![r] = <<>>]
  /\ UNCHANGED <<stepVars, tiles, plan, stageCap, ok, placeVars, barrierVars>>

Received(r) == IncomingSlots(r, layer[r])

(* Mutant: a rank installs without waiting for those that still read. *)
StageUnguarded(r) ==
  /\ \/ /\ pc[r] = "stage" /\ done[r] < Len(Received(r))
        /\ stage' = [stage EXCEPT ![r] =
             Append(@, slots[layer[r]][Source(plan[r][layer[r]],
                                              Received(r)[done[r] + 1])])]
        /\ done' = [done EXCEPT ![r] = @ + 1]
        /\ UNCHANGED pc
     \/ /\ GoTo(r, "stage", "install")
        /\ done[r] = Len(Received(r))
        /\ done' = [done EXCEPT ![r] = 0]
        /\ UNCHANGED stage
  /\ UNCHANGED <<stepVars, tiles, plan, stageCap, ok, layer, placeVars, barrierVars>>

(* One expert is copied from a peer's slot into the staging buffer; after  *)
(* the last the rank waits for the others.                                 *)
Stage(r) ==
  /\ \/ /\ pc[r] = "stage" /\ done[r] < Len(Received(r))
        /\ stage' = [stage EXCEPT ![r] =
             Append(@, slots[layer[r]][Source(plan[r][layer[r]],
                                              Received(r)[done[r] + 1])])]
        /\ done' = [done EXCEPT ![r] = @ + 1]
        /\ UNCHANGED pc
     \/ /\ GoTo(r, "stage", "staged")
        /\ done[r] = Len(Received(r))
        /\ done' = [done EXCEPT ![r] = 0]
        /\ UNCHANGED stage
  /\ UNCHANGED <<stepVars, tiles, plan, stageCap, ok, layer, placeVars, barrierVars>>

(* One expert is copied into a vacated slot; after the last comes the next *)
(* layer.                                                                  *)
Install(r) ==
  /\ \/ /\ pc[r] = "install" /\ done[r] < Len(Received(r))
        /\ slots' = [slots EXCEPT ![layer[r]][Received(r)[done[r] + 1]] =
                       stage[r][done[r] + 1]]
        /\ done' = [done EXCEPT ![r] = @ + 1]
        /\ UNCHANGED <<layer, stage, pc>>
     \/ /\ GoTo(r, "install", IF layer[r] + 1 < Layers THEN "stage" ELSE "relabel")
        /\ done[r] = Len(Received(r))
        /\ layer' = [layer EXCEPT ![r] = @ + 1]
        /\ done' = [done EXCEPT ![r] = 0]
        /\ stage' = [stage EXCEPT ![r] = <<>>]
        /\ UNCHANGED slots
  /\ UNCHANGED <<stepVars, tiles, plan, stageCap, ok, label, barrierVars>>

(* Mutant: the tables of the later layers are not rewritten. *)
RelabelFirstLayer(r) ==
  /\ GoTo(r, "relabel", "clear")
  /\ label' = [label EXCEPT ![r][0] =
       LET new == NewLabels(plan[r][0]) IN [e \in Experts |-> new[@[e]]]]
  /\ UNCHANGED <<stepVars, moveVars, slots, barrierVars>>

(* eplb_label[x] = newlab[eplb_label[x]] *)
Relabel(r) ==
  /\ GoTo(r, "relabel", "clear")
  /\ label' = [label EXCEPT ![r] =
       [l \in LayerSet |-> LET new == NewLabels(plan[r][l])
                           IN [e \in Experts |-> new[@[l][e]]]]]
  /\ UNCHANGED <<stepVars, moveVars, slots, barrierVars>>

(* eplb_acc is cleared, with or without a move. *)
Clear(r) ==
  /\ GoTo(r, "clear", "cleared")
  /\ counted' = [counted EXCEPT ![r] = 0]
  /\ UNCHANGED <<step, moveVars, placeVars, barrierVars>>

(* The layers of the step. *)
Compute(r) ==
  /\ GoTo(r, "layers", "computed")
  /\ counted' = [counted EXCEPT ![r] = IF CountNow(r) THEN @ + 1 ELSE @]
  /\ step' = [step EXCEPT ![r] = @ + 1]
  /\ UNCHANGED <<moveVars, placeVars, barrierVars>>

Terminated == /\ \A r \in Ranks : pc[r] = "step" /\ step[r] = MaxSteps
              /\ UNCHANGED vars

Rank(r) == \/ BeginStep(r)
           \/ Publish(r)
           \/ Arrive(r)
           \/ Leave(r)
           \/ Vote(r)
           \/ Decide(r)
           \/ Stage(r)
           \/ Install(r)
           \/ Relabel(r)
           \/ Clear(r)
           \/ Compute(r)

Next == Terminated \/ \E r \in Ranks : Rank(r)

Spec == Init /\ [][Next]_vars
-----------------------------------------------------------------------------
(* While a rank computes the layers of a step, the slot under the label it *)
(* gives an expert holds that expert, whichever rank the slot is on.       *)
RightExperts ==
  \A r \in Ranks : pc[r] = "layers" =>
     \A l \in LayerSet, e \in Experts : slots[l][label[r][l][e]] = e

(* No expert's weights are lost half way through a move: a slot or a       *)
(* staging buffer of the layer being moved holds them.                     *)
NoExpertLost ==
  \A l \in LayerSet, e \in Experts :
     \/ \E lab \in Labels : slots[l][lab] = e
     \/ \E r \in Ranks : layer[r] = l /\ e \in Range(stage[r])

(* A move is prepared alike everywhere.  All ranks work out the same plan, *)
(* or they would wait for each other at different points and install       *)
(* different labels; it is planned from exactly the Window steps before    *)
(* it; and no staging buffer is filled beyond the room that was voted for. *)
MovesPrepared ==
  /\ \A r, q \in Ranks : pc[r] = "voted" /\ pc[q] = "voted" => plan[r] = plan[q]
  /\ \A r \in Ranks : pc[r] = "publish" => counted[r] = Window
  /\ \A r \in Ranks : Len(stage[r]) <= Max({stageCap[r], BorrowRoom})
=============================================================================
