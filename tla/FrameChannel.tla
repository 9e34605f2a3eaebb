---------------------------- MODULE FrameChannel ----------------------------
(***************************************************************************)
(* What one direction of the bridge between the IP stack and the USB host  *)
(* promises: a bounded channel that hands over every accepted frame        *)
(* exactly once, in order, and unchanged.  A frame offered while its first *)
(* ring is full is refused, and a refused frame leaves no trace.  The      *)
(* promise ends, for good, when the other side breaks the connection.      *)
(***************************************************************************)
EXTENDS Naturals, Sequences

CONSTANTS Frames,    \* what a frame is to the properties
          Capacity   \* frames that may be under way at once

VARIABLES inflight,  \* frames accepted and not yet handed over, oldest first
          broken

vars == <<inflight, broken>>

Init == inflight = <<>> /\ broken = FALSE

Accept(f) ==
    /\ ~broken
    /\ Len(inflight) < Capacity
    /\ inflight' = Append(inflight, f)
    /\ UNCHANGED broken

HandOver ==
    /\ inflight # <<>>
    /\ inflight' = Tail(inflight)
    /\ UNCHANGED broken

Break ==
    /\ ~broken
    /\ broken' = TRUE
    /\ inflight' = <<>>

Next == HandOver \/ Break \/ \E f \in Frames : Accept(f)

Spec     == Init /\ [][Next]_vars
FairSpec == Spec /\ WF_vars(HandOver)
=============================================================================
