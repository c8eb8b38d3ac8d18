------------------------------ MODULE MCXPull -------------------------------
(* Instances of the exchanges of more than two GPUs, evaluated once: the   *)
(* default build over all layers and steps; two layers in a row of a build *)
(* with a single event per rank and direction and a single e_agg buffer,   *)
(* where the code has 128 and two; and a layer of the copying build with   *)
(* the next one up to its partial sums.                                    *)
EXTENDS XPull, CopyExchange

LOCAL INSTANCE SequencesExt

OneEvent(event) == IF event = <<>> THEN event ELSE <<event[1], event[2], 0>>
OneBuffer(places) == {IF a[1] = "e_agg2" THEN [a EXCEPT ![1] = "e_agg"] ELSE a : a \in places}
WithoutMargins(i) == [i EXCEPT !.event = OneEvent(@),
                               !.reads = OneBuffer(@), !.writes = OneBuffer(@)]
BackToBack(d) == FlattenSeq([n \in 1 .. 2 |-> AllGather(d, n) \o ReduceScatter(d, n)])

MCRanks == Ranks
MCBuilds == {"xpull", "margins", "copy"}
Margins == [d \in Ranks |-> [k \in 1 .. Len(BackToBack(d)) |->
                               WithoutMargins(BackToBack(d)[k])]]
Copying == [d \in Ranks |-> CopyAllGather(d, 1) \o CopyReduceScatter(d, 1)
                               \o CopyAllGather(d, 2) \o GatherSlices(d, 2)]
MCProgram == [b \in MCBuilds |-> IF b = "xpull" THEN XPullProgram
                                 ELSE IF b = "margins" THEN Margins ELSE Copying]
MCEvents == XPullEvents \cup CopyExchangeEvents
MCStreams == CopyExchangeStreams
MCPlaces == AllPlaces
=============================================================================
