---------------------------- MODULE FrameDecoder ----------------------------
(***************************************************************************)
(* What the USOCK receiver promises about the bytes it is given, on any    *)
(* line: it hands over a frame only when the bytes heard last are that     *)
(* frame on the wire, with both checksums right, and no byte is used for   *)
(* two frames.                                                             *)
(***************************************************************************)
EXTENDS Integers, Sequences

CONSTANTS
    Bytes,                  \* the values of a byte
    SyncByte1, SyncByte2,   \* the two bytes that open a frame
    MaxPayloadLength,       \* longest payload
    CRC(_)                  \* the checksum

VARIABLES
    heard,      \* every byte the receiver was given, oldest first
    used,       \* how many of them came before or in the last frame handed over
    delivered   \* frames handed over, oldest first

decoder == <<heard, used, delivered>>

TwoBytes(word) == <<word % 256, word \div 256>>

\* The header of a frame that announces n bytes of payload, and the frame.
Opening(id, n)  == <<SyncByte1, SyncByte2, id, n % 256, n \div 256>>
Announced(f, n) ==
    Opening(f.ID, n) \o TwoBytes(CRC(Opening(f.ID, n))) \o f.Data \o TwoBytes(CRC(f.Data))

\* The one way a frame can differ from its announcement: one that announces no
\* payload is handed over with one byte.
Lengths(f) == {Len(f.Data)} \cup (IF Len(f.Data) = 1 THEN {0} ELSE {})

\* The frame that bytes s hold after the first k, if it ends with the last one.
FrameAfter(s, k) == [ID |-> s[k + 3], Data |-> SubSeq(s, k + 8, Len(s) - 2)]

Init ==
    /\ heard = <<>>
    /\ used = 0
    /\ delivered = <<>>

Hear ==
    /\ \E b \in Bytes : heard' = Append(heard, b)
    /\ UNCHANGED <<used, delivered>>

HandOver ==
    /\ \E b \in Bytes : heard' = Append(heard, b)
    /\ used' = Len(heard')
    /\ \E k \in used..(Len(heard') - 10) :
         LET f == FrameAfter(heard', k)
         IN  /\ Len(f.Data) <= MaxPayloadLength
             /\ \E n \in Lengths(f) :
                  SubSeq(heard', k + 1, Len(heard')) = Announced(f, n)
             /\ delivered' = Append(delivered, f)

Next == Hear \/ HandOver

Spec == Init /\ [][Next]_decoder
=============================================================================
