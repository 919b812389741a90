---------------------------- MODULE FrameChannel ----------------------------
(***************************************************************************)
(* What the framing promises its users: a channel that hands over frames   *)
(* exactly as they were accepted, in the order they were accepted, each at *)
(* most once.  A frame may be lost; nothing is invented or altered.        *)
(***************************************************************************)
EXTENDS Sequences, SequencesExt

CONSTANT Frames

VARIABLES
    queue,      \* accepted frames that may still come out
    delivered   \* frames handed over, oldest first

Init == queue = <<>> /\ delivered = <<>>

Accept(f) ==
    /\ queue' = Append(queue, f)
    /\ UNCHANGED delivered

HandOver ==
    /\ queue # <<>>
    /\ delivered' = Append(delivered, Head(queue))
    /\ queue' = Tail(queue)

Lose ==
    /\ queue # <<>>
    /\ queue' = Tail(queue)
    /\ UNCHANGED delivered

Next == (\E f \in Frames : Accept(f)) \/ HandOver \/ Lose

Spec == Init /\ [][Next]_<<queue, delivered>>

=============================================================================
