---------------------------- MODULE UsockDecoder ----------------------------
(***************************************************************************)
(* The USOCK link with a record of what the receiver heard, to say what a  *)
(* frame handed over owes to the bytes on the line, disturbed or not.      *)
(***************************************************************************)
EXTENDS Usock

VARIABLES
    heard,      \* every byte readLoop gave to processByte
    used        \* how many it had been given when it last handed over a frame

history == <<heard, used>>

HeardInit ==
    /\ Init
    /\ heard = <<>>
    /\ used = 0

\* readLoop gives a byte to processByte, which may hand over a frame.
HeardByte ==
    /\ ReadByte
    /\ heard' = Append(heard, wire[1][pos + 1])
    /\ used' = IF delivered' = delivered THEN used ELSE Len(heard')

HeardNext ==
    \/ \E id \in FrameIDs, data \in Payloads :
         WriteWithFrameID(id, data) /\ UNCHANGED history
    \/ HeardByte
    \/ Disturb /\ UNCHANGED history

HeardSpec == HeardInit /\ [][HeardNext]_<<vars, history>>

\* The read loop runs as long as the port is open; the peer may stop sending.
FairHeardSpec == HeardSpec /\ WF_<<vars, history>>(HeardByte)

-----------------------------------------------------------------------------
\* A frame is handed over only when the bytes heard last are that frame with
\* both checksums right, none of them part of an earlier frame: processByte
\* takes nothing from a frame it gave up, whatever the line does.
Decoder == INSTANCE FrameDecoder WITH Bytes <- 0..255
ImplementsDecoder == Decoder!Spec
=============================================================================
