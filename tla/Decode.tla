------------------------------- MODULE Decode -------------------------------
(***************************************************************************)
(* What batched decoding promises for each request on its own: its output  *)
(* grows by one token at a time, up to a stop token or to the step budget  *)
(* less its prompt, and is then closed for good.  Requests are independent *)
(* of each other, so one step may advance any of them.                     *)
(*                                                                         *)
(* Module GenerateLoop shows that the lockstep loop of the host threads,   *)
(* its shared masks and the flat output arena implement this.              *)
(***************************************************************************)
EXTENDS Naturals, Sequences

CONSTANTS Requests, Tokens, StopToken

VARIABLES steps,     \* the step budget
          nPrompt,   \* nPrompt[q]: tokens in the prompt of request q
          out,       \* out[q]: the tokens generated for request q
          closed     \* closed[q]: the output of request q is complete

dvars == <<steps, nPrompt, out, closed>>

Stopped(q) == Len(out[q]) > 0 /\ out[q][Len(out[q])] = StopToken
Full(q) == Len(out[q]) + nPrompt[q] >= steps

DecodeInit == /\ out = [q \in Requests |-> <<>>]
              /\ closed = [q \in Requests |-> FALSE]

Extend(q) == /\ ~closed[q] /\ ~closed'[q]
             /\ ~Stopped(q) /\ ~Full(q)
             /\ \E token \in Tokens : out'[q] = Append(out[q], token)

Close(q) == /\ ~closed[q] /\ closed'[q]
            /\ Stopped(q) \/ Full(q)
            /\ out'[q] = out[q]

Keep(q) == out'[q] = out[q] /\ closed'[q] = closed[q]

DecodeNext == /\ UNCHANGED <<steps, nPrompt>>
              /\ \A q \in Requests : Extend(q) \/ Close(q) \/ Keep(q)

DecodeSpec == DecodeInit /\ [][DecodeNext]_dvars
=============================================================================
