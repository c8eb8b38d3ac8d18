------------------------------- MODULE MCPair -------------------------------
(* The two ways a pair of ranks exchanges activations: by kernels that     *)
(* read the partner's memory, and by peer copies.                          *)
EXTENDS K2Pull, CopyPull

MCBuilds == {"k2pull", "copy"}
MCRanks == Ranks
MCProgram == [b \in MCBuilds |->
                IF b = "k2pull" THEN K2PullProgram ELSE CopyPullProgram]
MCEvents == CopyPullEvents
MCPlaces == AllPlaces
MCStreams == CopyPullStreams
=============================================================================
