------------------------------- MODULE Usock -------------------------------
(***************************************************************************)
(* The USOCK framing protocol of pkg/usock: the frames WriteWithFrameID    *)
(* builds, and the byte-at-a-time receiver processByte, which hunts for    *)
(* two sync bytes, checks a header checksum, collects the announced number *)
(* of payload bytes and hands the frame over if the payload checksum fits. *)
(*                                                                         *)
(* The two ends are joined by a UART that may lose, change or insert bytes *)
(* and may lose the end of a frame (the sender restarts).  The checksum is *)
(* a parameter: what is proved holds for every checksum function.          *)
(***************************************************************************)
EXTENDS Integers, Sequences, FiniteSets, SequencesExt

CONSTANTS
    SyncByte1, SyncByte2,   \* the two bytes that open a frame
    MaxPayloadLength,       \* longest payload either side accepts
    CRC(_),                 \* calculateCRC16(data, 0)
    FrameIDs, Payloads,     \* what the peer sends
    NoiseBytes,             \* values a disturbed or stray byte takes
    MaxSent, MaxNoise       \* bounds: frames sent, disturbances of the line

Byte == {b \in Nat : b < 256}
Word == {w \in Nat : w < 65536}

ASSUME SyncAssumption == SyncByte1 \in Byte /\ SyncByte2 \in Byte
ASSUME LengthAssumption == MaxPayloadLength \in Word \ {0}
ASSUME PeerAssumption == /\ FrameIDs \subseteq Byte
                         /\ NoiseBytes \subseteq Byte
                         /\ \A data \in Payloads : data \in Seq(Byte)
ASSUME BoundAssumption == MaxSent \in Nat /\ MaxNoise \in Nat

VARIABLES
    state,      \* USOCK.state
    frame,      \* USOCK.frame: the frame being received
    buffer,     \* USOCK.buffer: the bytes the next checksum covers
    delivered,  \* frames handed to the handler, oldest first
    sent,       \* frames the peer has put on the line, oldest first
    wire,       \* their bytes, one sequence per frame, not all read yet
    pos,        \* bytes of wire[1] already read
    noise       \* disturbances so far

rx   == <<state, frame, buffer, delivered>>
line == <<sent, wire, pos, noise>>
vars == <<rx, line>>

States == {"Sync1", "Sync2", "FrameID", "PayloadLen1", "PayloadLen2",
           "HeaderCRC1", "HeaderCRC2", "Payload", "PayloadCRC1", "PayloadCRC2"}

-----------------------------------------------------------------------------
(* The frame on the line.                                                  *)

Low(word)  == word % 256
High(word) == word \div 256

Header(f) == <<SyncByte1, SyncByte2, f.ID, Low(Len(f.Data)), High(Len(f.Data))>>

Checksum(data) == <<Low(CRC(data)), High(CRC(data))>>

Encode(f) == Header(f) \o Checksum(Header(f)) \o f.Data \o Checksum(f.Data)

-----------------------------------------------------------------------------
(* The receiver: one action per state of processByte.                      *)

EmptyFrame == [ID |-> 0, PayloadLen |-> 0, HeaderCRC |-> 0,
               Payload |-> <<>>, PayloadCRC |-> 0]

\* Sync1 without the reset of the buffer.
Sync1KeepsBuffer(b) ==
    /\ state = "Sync1"
    /\ \/ /\ b = SyncByte1
          /\ state' = "Sync2"
          /\ buffer' = Append(buffer, b)
       \/ /\ b # SyncByte1
          /\ UNCHANGED <<state, buffer>>
    /\ UNCHANGED <<frame, delivered>>

Sync1(b) ==
    /\ state = "Sync1"
    /\ \/ /\ b = SyncByte1
          /\ state' = "Sync2"
          /\ buffer' = <<b>>
       \/ /\ b # SyncByte1
          /\ UNCHANGED <<state, buffer>>
    /\ UNCHANGED <<frame, delivered>>

Sync2(b) ==
    /\ state = "Sync2"
    /\ \/ /\ b = SyncByte2
          /\ state' = "FrameID"
          /\ buffer' = Append(buffer, b)
       \/ /\ b # SyncByte2
          /\ state' = "Sync1"
          /\ UNCHANGED buffer
    /\ UNCHANGED <<frame, delivered>>

\* FrameID with the byte read as a signed one.
FrameIDSigned(b) ==
    /\ state = "FrameID"
    /\ state' = "PayloadLen1"
    /\ frame' = [frame EXCEPT !.ID = IF b > 127 THEN b - 256 ELSE b]
    /\ buffer' = Append(buffer, b)
    /\ UNCHANGED delivered

FrameID(b) ==
    /\ state = "FrameID"
    /\ state' = "PayloadLen1"
    /\ frame' = [frame EXCEPT !.ID = b]
    /\ buffer' = Append(buffer, b)
    /\ UNCHANGED delivered

PayloadLen1(b) ==
    /\ state = "PayloadLen1"
    /\ state' = "PayloadLen2"
    /\ frame' = [frame EXCEPT !.PayloadLen = b]
    /\ buffer' = Append(buffer, b)
    /\ UNCHANGED delivered

\* The computed checksum stored here is overwritten by the received one.
PayloadLen2(b) ==
    LET length == frame.PayloadLen + 256 * b
    IN  /\ state = "PayloadLen2"
        /\ buffer' = Append(buffer, b)
        /\ frame' = [frame EXCEPT !.PayloadLen = length, !.HeaderCRC = CRC(buffer')]
        /\ state' = IF length > MaxPayloadLength THEN "Sync1" ELSE "HeaderCRC1"
        /\ UNCHANGED delivered

HeaderCRC1(b) ==
    /\ state = "HeaderCRC1"
    /\ state' = "HeaderCRC2"
    /\ frame' = [frame EXCEPT !.HeaderCRC = b]
    /\ UNCHANGED <<buffer, delivered>>

\* HeaderCRC2 without the reset of the buffer.
HeaderCRC2KeepsBuffer(b) ==
    LET received == frame.HeaderCRC + 256 * b
    IN  /\ state = "HeaderCRC2"
        /\ state' = IF CRC(buffer) = received THEN "Payload" ELSE "Sync1"
        /\ frame' = [frame EXCEPT !.HeaderCRC = received, !.Payload = <<>>]
        /\ UNCHANGED <<buffer, delivered>>

\* HeaderCRC2 without the reset of the payload.
HeaderCRC2KeepsPayload(b) ==
    LET received == frame.HeaderCRC + 256 * b
    IN  /\ state = "HeaderCRC2"
        /\ state' = IF CRC(buffer) = received THEN "Payload" ELSE "Sync1"
        /\ frame' = [frame EXCEPT !.HeaderCRC = received]
        /\ buffer' = <<>>
        /\ UNCHANGED delivered

HeaderCRC2(b) ==
    LET received == frame.HeaderCRC + 256 * b
    IN  /\ state = "HeaderCRC2"
        /\ \/ /\ CRC(buffer) # received
              /\ state' = "Sync1"
              /\ frame' = [frame EXCEPT !.HeaderCRC = received]
              /\ UNCHANGED buffer
           \/ /\ CRC(buffer) = received
              /\ state' = "Payload"
              /\ frame' = [frame EXCEPT !.HeaderCRC = received, !.Payload = <<>>]
              /\ buffer' = <<>>
        /\ UNCHANGED delivered

\* Payload that compares the length with > instead of >=.
PayloadOneMore(b) ==
    LET collected == Append(frame.Payload, b)
    IN  /\ state = "Payload"
        /\ buffer' = Append(buffer, b)
        /\ state' = IF Len(collected) > frame.PayloadLen THEN "PayloadCRC1" ELSE state
        /\ frame' = [frame EXCEPT !.Payload = collected]
        /\ UNCHANGED delivered

\* The byte is appended before the length is compared: even a frame that
\* announces no payload collects one byte.
Payload(b) ==
    LET collected == Append(frame.Payload, b)
        complete  == Len(collected) >= frame.PayloadLen
    IN  /\ state = "Payload"
        /\ buffer' = Append(buffer, b)
        /\ \/ /\ complete
              /\ state' = "PayloadCRC1"
              /\ frame' = [frame EXCEPT !.Payload = collected,
                                        !.PayloadCRC = CRC(buffer')]
           \/ /\ ~complete
              /\ frame' = [frame EXCEPT !.Payload = collected]
              /\ UNCHANGED state
        /\ UNCHANGED delivered

PayloadCRC1(b) ==
    /\ state = "PayloadCRC1"
    /\ state' = "PayloadCRC2"
    /\ frame' = [frame EXCEPT !.PayloadCRC = b]
    /\ UNCHANGED <<buffer, delivered>>

\* PayloadCRC2 that stays where it is when the checksum is wrong.
PayloadCRC2Stuck(b) ==
    LET received == frame.PayloadCRC + 256 * b
    IN  /\ state = "PayloadCRC2"
        /\ frame' = [frame EXCEPT !.PayloadCRC = received]
        /\ \/ CRC(buffer) # received /\ UNCHANGED <<state, delivered>>
           \/ /\ CRC(buffer) = received
              /\ state' = "Sync1"
              /\ delivered' = Append(delivered, [ID |-> frame.ID, Data |-> frame.Payload])
        /\ UNCHANGED buffer

\* PayloadCRC2 that hands the frame over unchecked.
PayloadCRC2Unchecked(b) ==
    /\ state = "PayloadCRC2"
    /\ state' = "Sync1"
    /\ delivered' = Append(delivered, [ID |-> frame.ID, Data |-> frame.Payload])
    /\ UNCHANGED <<frame, buffer>>

PayloadCRC2(b) ==
    LET received == frame.PayloadCRC + 256 * b
    IN  /\ state = "PayloadCRC2"
        /\ state' = "Sync1"
        /\ frame' = [frame EXCEPT !.PayloadCRC = received]
        /\ \/ /\ CRC(buffer) # received
              /\ UNCHANGED delivered
           \/ /\ CRC(buffer) = received
              /\ delivered' = Append(delivered, [ID |-> frame.ID, Data |-> frame.Payload])
        /\ UNCHANGED buffer

processByte(b) ==
    \/ Sync1(b)       \/ Sync2(b)
    \/ FrameID(b)     \/ PayloadLen1(b) \/ PayloadLen2(b)
    \/ HeaderCRC1(b)  \/ HeaderCRC2(b)
    \/ Payload(b)     \/ PayloadCRC1(b) \/ PayloadCRC2(b)

-----------------------------------------------------------------------------
(* The line.                                                               *)

\* A frame longer than MaxPayloadLength is refused, the others are written
\* in one piece.
WriteWithFrameID(id, data) ==
    LET f == [ID |-> id, Data |-> data]
    IN  /\ Len(sent) < MaxSent
        /\ Len(data) <= MaxPayloadLength
        /\ sent' = Append(sent, f)
        /\ wire' = Append(wire, Encode(f))
        /\ UNCHANGED <<rx, pos, noise>>

\* readLoop takes the next byte off the port and processes it.
ReadByte ==
    /\ wire # <<>>
    /\ processByte(wire[1][pos + 1])
    /\ \/ /\ pos + 1 = Len(wire[1])
          /\ wire' = Tail(wire)
          /\ pos' = 0
       \/ /\ pos + 1 < Len(wire[1])
          /\ pos' = pos + 1
          /\ UNCHANGED wire
    /\ UNCHANGED <<sent, noise>>

\* What becomes of bytes w when one disturbance hits them after the first p.
Disturbed(w, p) ==
    LET later == (p + 1)..Len(w)
    IN  {RemoveAt(w, j) : j \in later}                            \* one byte lost
        \cup {[w EXCEPT ![j] = b] : j \in later, b \in NoiseBytes}  \* or changed
        \cup {InsertAt(w, j, b) : j \in later, b \in NoiseBytes}    \* a stray byte
        \cup {SubSeq(w, 1, j) : j \in later}                        \* the end lost

Disturb ==
    /\ noise < MaxNoise
    /\ \E k \in 1..Len(wire) :
         LET p == IF k = 1 THEN pos ELSE 0
         IN  \E w \in Disturbed(wire[k], p) :
                /\ Len(w) > p
                /\ wire' = [wire EXCEPT ![k] = w]
    /\ noise' = noise + 1
    /\ UNCHANGED <<rx, sent, pos>>

-----------------------------------------------------------------------------
Init ==
    /\ state = "Sync1"
    /\ frame = EmptyFrame
    /\ buffer = <<>>
    /\ delivered = <<>>
    /\ sent = <<>>
    /\ wire = <<>>
    /\ pos = 0
    /\ noise = 0

Next ==
    \/ \E id \in FrameIDs, data \in Payloads : WriteWithFrameID(id, data)
    \/ ReadByte
    \/ Disturb

Spec == Init /\ [][Next]_vars

-----------------------------------------------------------------------------
(* Properties.                                                             *)

FrameType == [ID : Byte, Data : Seq(Byte)]

\* Each variable has the type its Go declaration gives it.
TypeOK ==
    /\ state \in States
    /\ frame \in [ID : Byte, PayloadLen : Word, HeaderCRC : Word,
                  Payload : Seq(Byte), PayloadCRC : Word]
    /\ buffer \in Seq(Byte)
    /\ delivered \in Seq(FrameType)
    /\ sent \in Seq(FrameType)
    /\ wire \in Seq(Seq(Byte) \ {<<>>})
    /\ pos \in Nat
    /\ noise \in 0..MaxNoise

\* Bytes consumed since the receiver last hunted for a frame.
Position ==
    CASE state = "Sync1"       -> 0
      [] state = "Sync2"       -> 1
      [] state = "FrameID"     -> 2
      [] state = "PayloadLen1" -> 3
      [] state = "PayloadLen2" -> 4
      [] state = "HeaderCRC1"  -> 5
      [] state = "HeaderCRC2"  -> 6
      [] state = "Payload"     -> 7 + Len(frame.Payload)
      [] state = "PayloadCRC1" -> 7 + Len(frame.Payload)
      [] state = "PayloadCRC2" -> 8 + Len(frame.Payload)

\* Whatever arrives, the receiver is back hunting for a frame after at most
\* MaxPayloadLength + 9 bytes: there is no timeout in readLoop, so this bound
\* is all that ends a frame whose tail never comes.
BoundedFrame == Position <= MaxPayloadLength + 8

\* No byte leaves the receiver where it was inside a frame: each one either
\* moves it one byte on or sends it back to hunting.
EveryByteAdvances == [][state' = "Sync1" \/ Position' = Position + 1]_rx

\* When a checksum is compared, the bytes it covers are exactly the fields
\* acted on afterwards: the header with the ID and the length in use, or the
\* payload about to be handed over.  (buffer is shared by both checks.)
ChecksumCoversFields ==
    /\ state \in {"HeaderCRC1", "HeaderCRC2"} =>
         buffer = <<SyncByte1, SyncByte2, frame.ID,
                    Low(frame.PayloadLen), High(frame.PayloadLen)>>
    /\ state \in {"Payload", "PayloadCRC1", "PayloadCRC2"} => buffer = frame.Payload

NonEmpty(s) == \A i \in DOMAIN s : s[i].Data # <<>>

\* On an undisturbed line every frame with a payload is handed over intact and
\* in order, as soon as its last byte has been read.
CleanLine == noise = 0 /\ NonEmpty(sent)
CleanDelivery == CleanLine => delivered = SubSeq(sent, 1, Len(sent) - Len(wire))

\* Frame f is next on the line, and the receiver, which was hunting when its
\* first byte came, is as far into it as has been read.
Frames      == [ID : FrameIDs, Data : Payloads]
Encodings   == {<<f, Encode(f)>> : f \in Frames}
Fits(f)     == f.Data # <<>> /\ Len(f.Data) <= MaxPayloadLength
Arriving(f) == Fits(f) /\ wire # <<>> /\ <<f, wire[1]>> \in Encodings /\ pos = Position

\* Whatever the line did before, a frame that reaches a hunting receiver and is
\* not itself disturbed is handed over with its last byte.
ArrivesWhole ==
    [][\A f \in Frames :
          Arriving(f) /\ noise' = noise =>
             \/ Arriving(f)'
             \/ wire' = Tail(wire) /\ delivered' = Append(delivered, f)]_vars

\* One disturbance costs at most the frame it hits and those that lie, in whole
\* or in part, in the longest frame a receiver that saw its header may still be
\* waiting for.  A frame without payload costs no more: it takes a byte of its
\* checksum for payload, and what follows for the rest of it.  (For frames with
\* no sync byte after the first: one inside may open a frame of its own.)
SyncFree(s)   == \A i \in DOMAIN s : SyncByte1 \notin ToSet(Tail(Encode(s[i])))
Empty(f)      == f.Data = <<>>
Faults        == noise + Cardinality({i \in DOMAIN sent : Empty(sent[i])})
ShortestFrame == 10
Cost          == 2 + (MaxPayloadLength + 7) \div ShortestFrame
LossBound     == wire = <<>> /\ SyncFree(sent) => Len(sent) - Len(delivered) <= Cost * Faults

\* On an undisturbed line the read loop eventually hands over the n-th frame.
CleanFrameArrives ==
    \A n \in 1..MaxSent :
        Len(sent) >= n /\ CleanLine ~> Len(delivered) >= n \/ ~CleanLine

\* Frames come out unaltered, in order and at most once, disturbed or not.
Channel == INSTANCE FrameChannel WITH
    queue <- SubSeq(sent, Len(sent) - Len(wire) + 1, Len(sent))
ImplementsChannel == Channel!Spec

=============================================================================
