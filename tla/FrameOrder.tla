----------------------------- MODULE FrameOrder -----------------------------
(***************************************************************************)
(* What a video encoder promises to the code that feeds it: frames come    *)
(* back through the output callback in the order in which they were        *)
(* accepted, each exactly once, and tearing the encoder down waits for     *)
(* every accepted frame.  Threads, queues and locks are invisible here;    *)
(* MjpegEncoder implements this specification.                             *)
(***************************************************************************)
EXTENDS Naturals, Sequences

CONSTANT Cookies          \* what identifies a frame to its owner

VARIABLES accepted,       \* cookies handed to the encoder, in call order
          delivered,      \* cookies handed to the output callback, in call order
          phase           \* "open", "draining" (teardown began) or "closed"

orderVars == <<accepted, delivered, phase>>

Init == /\ accepted = << >>
        /\ delivered = << >>
        /\ phase = "open"

Accept(c) == /\ phase = "open"
             /\ accepted' = Append(accepted, c)
             /\ UNCHANGED <<delivered, phase>>

Deliver == /\ Len(delivered) < Len(accepted)
           /\ delivered' = Append(delivered, accepted[Len(delivered) + 1])
           /\ UNCHANGED <<accepted, phase>>

Drain == /\ phase = "open"
         /\ phase' = "draining"
         /\ UNCHANGED <<accepted, delivered>>

Close == /\ phase = "draining"
         /\ delivered = accepted
         /\ phase' = "closed"
         /\ UNCHANGED <<accepted, delivered>>

Next == \/ \E c \in Cookies : Accept(c)
        \/ Deliver
        \/ Drain
        \/ Close

Safety == Init /\ [][Next]_orderVars

Spec == Safety /\ WF_orderVars(Deliver) /\ WF_orderVars(Close)
=============================================================================
