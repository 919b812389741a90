---------------------------- MODULE UsockProofs ----------------------------
(***************************************************************************)
(* Theorems about the USOCK link, for every checksum function, payload     *)
(* set, noise and bound.                                                   *)
(***************************************************************************)
EXTENDS Usock, FiniteSetTheorems, SequenceTheorems, TLAPS

\* calculateCRC16 returns a uint16 for every sequence of bytes.
CRCTyped == \A data \in Seq(Byte) : CRC(data) \in Word

-----------------------------------------------------------------------------
(* The invariant of the receiver.                                          *)

\* The half-built 16-bit fields hold one byte when the other one arrives, so
\* the `|= b << 8` of the code never overflows.
HalfWords ==
    /\ state = "PayloadLen2" => frame.PayloadLen \in Byte
    /\ state = "HeaderCRC2" => frame.HeaderCRC \in Byte
    /\ state = "PayloadCRC2" => frame.PayloadCRC \in Byte

\* What the shared buffer holds while the header arrives.
HeaderBuffer ==
    /\ state = "Sync2" => Len(buffer) = 1
    /\ state = "FrameID" => Len(buffer) = 2
    /\ state = "PayloadLen1" => Len(buffer) = 3
    /\ state = "PayloadLen2" => Len(buffer) = 4
    /\ state \in {"Sync2", "FrameID", "PayloadLen1", "PayloadLen2"} =>
         buffer[1] = SyncByte1
    /\ state \in {"FrameID", "PayloadLen1", "PayloadLen2"} => buffer[2] = SyncByte2
    /\ state \in {"PayloadLen1", "PayloadLen2"} => buffer[3] = frame.ID
    /\ state = "PayloadLen2" => buffer[4] = frame.PayloadLen

\* No length beyond the limit is ever acted on.
Lengths ==
    /\ state \in {"HeaderCRC1", "HeaderCRC2", "Payload"} =>
         frame.PayloadLen <= MaxPayloadLength
    /\ state = "Payload" => Len(frame.Payload) < MaxPayloadLength
    /\ state = "Payload" => \/ frame.Payload = <<>>
                            \/ Len(frame.Payload) < frame.PayloadLen
    /\ state \in {"PayloadCRC1", "PayloadCRC2"} =>
         Len(frame.Payload) <= MaxPayloadLength

FrameFields == [ID : Byte, PayloadLen : Word, HeaderCRC : Word,
                Payload : Seq(Byte), PayloadCRC : Word]

\* The receiver's part of the invariant: it is kept whatever byte arrives.
Receiver == /\ state \in States
            /\ frame \in FrameFields
            /\ buffer \in Seq(Byte)
            /\ delivered \in Seq(FrameType)
            /\ HalfWords
            /\ HeaderBuffer
            /\ Lengths
            /\ ChecksumCoversFields

-----------------------------------------------------------------------------
(* Words and their two bytes.                                              *)

LEMMA BytesOfWord ==
    ASSUME NEW w \in Word
    PROVE  Low(w) \in Byte /\ High(w) \in Byte /\ Low(w) + 256 * High(w) = w
  BY DEF Word, Byte, Low, High

LEMMA WordOfBytes ==
    ASSUME NEW a \in Byte, NEW b \in Byte
    PROVE  /\ a + 256 * b \in Word
           /\ Low(a + 256 * b) = a
           /\ High(a + 256 * b) = b
  <1>1. a + 256 * b \in Word BY DEF Word, Byte
  <1>2. Low(a + 256 * b) = a BY DEF Byte, Low
  <1>3. High(a + 256 * b) = b BY DEF Byte, High
  <1> QED BY <1>1, <1>2, <1>3

LEMMA ByteIsWord == Byte \subseteq Word
  BY DEF Byte, Word

LEMMA AppendByte ==
    ASSUME NEW s \in Seq(Byte), NEW b \in Byte, NEW k \in Nat, Len(s) = k
    PROVE  /\ Append(s, b) \in Seq(Byte)
           /\ Len(Append(s, b)) = k + 1
           /\ Append(s, b)[k + 1] = b
           /\ \A i \in 1..k : Append(s, b)[i] = s[i]
  BY AppendProperties

LEMMA FiveBytes ==
    ASSUME NEW S, NEW s \in Seq(S), Len(s) = 5
    PROVE  s = <<s[1], s[2], s[3], s[4], s[5]>>
  OBVIOUS


LEMMA ProcessByteKeepsReceiver ==
    ASSUME CRCTyped, Receiver, NEW b \in Byte, processByte(b)
    PROVE  Receiver'
  <1> USE SyncAssumption, LengthAssumption, ByteIsWord
  <1>t. /\ state \in States
        /\ frame \in FrameFields
        /\ buffer \in Seq(Byte)
        /\ delivered \in Seq(FrameType)
    BY DEF Receiver
  <1>s. HalfWords /\ HeaderBuffer /\ Lengths /\ ChecksumCoversFields
    BY DEF Receiver
  <1> SUFFICES /\ state' \in States
               /\ frame' \in FrameFields
               /\ buffer' \in Seq(Byte)
               /\ delivered' \in Seq(FrameType)
               /\ (HalfWords /\ HeaderBuffer /\ Lengths /\ ChecksumCoversFields)'
    BY DEF Receiver
  <1>1. CASE Sync1(b)
    <2>1. CASE b = SyncByte1
      <3>1. state' = "Sync2" /\ buffer' = <<b>> /\ frame' = frame /\ delivered' = delivered
        BY <1>1, <2>1 DEF Sync1
      <3>2. buffer' \in Seq(Byte) /\ Len(buffer') = 1 /\ buffer'[1] = SyncByte1
        BY <3>1, <2>1
      <3> QED
        BY <3>1, <3>2, <1>t DEF States, HalfWords, HeaderBuffer, Lengths, ChecksumCoversFields
    <2>2. CASE b # SyncByte1
      BY <1>1, <2>2, <1>t DEF Sync1, States, HalfWords, HeaderBuffer, Lengths, ChecksumCoversFields
    <2> QED BY <2>1, <2>2
  <1>2. CASE Sync2(b)
    <2>1. CASE b = SyncByte2
      <3>1. state = "Sync2" /\ state' = "FrameID" /\ buffer' = Append(buffer, b)
              /\ frame' = frame /\ delivered' = delivered
        BY <1>2, <2>1 DEF Sync2
      <3>2. Len(buffer) = 1 /\ buffer[1] = SyncByte1
        BY <3>1, <1>s DEF HeaderBuffer
      <3>3. /\ buffer' \in Seq(Byte) /\ Len(buffer') = 2
            /\ buffer'[1] = SyncByte1 /\ buffer'[2] = SyncByte2
        BY <3>1, <3>2, <2>1, <1>t, AppendByte
      <3> QED
        BY <3>1, <3>3, <1>t DEF States, HalfWords, HeaderBuffer, Lengths, ChecksumCoversFields
    <2>2. CASE b # SyncByte2
      BY <1>2, <2>2, <1>t DEF Sync2, States, HalfWords, HeaderBuffer, Lengths, ChecksumCoversFields
    <2> QED BY <2>1, <2>2
  <1>3. CASE FrameID(b)
    <2>1. /\ state = "FrameID" /\ state' = "PayloadLen1" /\ buffer' = Append(buffer, b)
          /\ frame' = [frame EXCEPT !.ID = b] /\ delivered' = delivered
      BY <1>3 DEF FrameID
    <2>2. Len(buffer) = 2 /\ buffer[1] = SyncByte1 /\ buffer[2] = SyncByte2
      BY <2>1, <1>s DEF HeaderBuffer
    <2>3. frame' \in FrameFields /\ frame'.ID = b
      BY <2>1, <1>t DEF FrameFields
    <2>4. /\ buffer' \in Seq(Byte) /\ Len(buffer') = 3
          /\ buffer'[1] = SyncByte1 /\ buffer'[2] = SyncByte2 /\ buffer'[3] = frame'.ID
      BY <2>1, <2>2, <2>3, <1>t, AppendByte
    <2> QED
      BY <2>1, <2>3, <2>4, <1>t DEF States, HalfWords, HeaderBuffer, Lengths, ChecksumCoversFields
  <1>4. CASE PayloadLen1(b)
    <2>1. /\ state = "PayloadLen1" /\ state' = "PayloadLen2" /\ buffer' = Append(buffer, b)
          /\ frame' = [frame EXCEPT !.PayloadLen = b] /\ delivered' = delivered
      BY <1>4 DEF PayloadLen1
    <2>2. /\ Len(buffer) = 3 /\ buffer[1] = SyncByte1 /\ buffer[2] = SyncByte2
          /\ buffer[3] = frame.ID
      BY <2>1, <1>s DEF HeaderBuffer
    <2>3. frame' \in FrameFields /\ frame'.ID = frame.ID /\ frame'.PayloadLen = b
      BY <2>1, <1>t DEF FrameFields
    <2>4. /\ buffer' \in Seq(Byte) /\ Len(buffer') = 4
          /\ buffer'[1] = SyncByte1 /\ buffer'[2] = SyncByte2 /\ buffer'[3] = frame'.ID
          /\ buffer'[4] = frame'.PayloadLen
      <3>1. /\ Len(buffer') = 3 + 1 /\ buffer'[3 + 1] = b
            /\ \A i \in 1..3 : buffer'[i] = buffer[i]
        BY <2>1, <2>2, <1>t, AppendByte
      <3> QED
        BY <3>1, <2>1, <2>2, <2>3, <1>t, AppendByte
    <2> QED
      BY <2>1, <2>3, <2>4, <1>t DEF States, HalfWords, HeaderBuffer, Lengths, ChecksumCoversFields
  <1>5. CASE PayloadLen2(b)
    <2> DEFINE length == frame.PayloadLen + 256 * b
    <2>1. /\ state = "PayloadLen2" /\ buffer' = Append(buffer, b)
          /\ frame' = [frame EXCEPT !.PayloadLen = length, !.HeaderCRC = CRC(buffer')]
          /\ state' = IF length > MaxPayloadLength THEN "Sync1" ELSE "HeaderCRC1"
          /\ delivered' = delivered
      BY <1>5 DEF PayloadLen2
    <2>2. /\ Len(buffer) = 4 /\ buffer[1] = SyncByte1 /\ buffer[2] = SyncByte2
          /\ buffer[3] = frame.ID /\ buffer[4] = frame.PayloadLen
          /\ frame.PayloadLen \in Byte
      BY <2>1, <1>s DEF HeaderBuffer, HalfWords
    <2>3. /\ length \in Word /\ Low(length) = frame.PayloadLen /\ High(length) = b
      BY <2>2, WordOfBytes
    <2> HIDE DEF length
    <2>4. /\ buffer' \in Seq(Byte) /\ Len(buffer') = 5
          /\ buffer'[1] = SyncByte1 /\ buffer'[2] = SyncByte2 /\ buffer'[3] = frame.ID
          /\ buffer'[4] = frame.PayloadLen /\ buffer'[5] = b
      BY <2>1, <2>2, <1>t, AppendByte
    <2>5. /\ frame' \in FrameFields /\ frame'.ID = frame.ID
          /\ frame'.PayloadLen = length
      BY <2>1, <2>3, <2>4, <1>t DEF FrameFields, CRCTyped
    <2>6. buffer' = <<SyncByte1, SyncByte2, frame'.ID,
                      Low(frame'.PayloadLen), High(frame'.PayloadLen)>>
      <3>1. buffer' = <<buffer'[1], buffer'[2], buffer'[3], buffer'[4], buffer'[5]>>
        BY <2>4, FiveBytes
      <3> QED BY <3>1, <2>3, <2>4, <2>5
    <2>7. state' = "Sync1" \/ (state' = "HeaderCRC1" /\ frame'.PayloadLen <= MaxPayloadLength)
      BY <2>1, <2>3, <2>5 DEF Word
    <2> QED
      BY <2>1, <2>4, <2>5, <2>6, <2>7, <1>t
        DEF States, HalfWords, HeaderBuffer, Lengths, ChecksumCoversFields
  <1>6. CASE HeaderCRC1(b)
    BY <1>t, <1>s, <1>6 DEF HeaderCRC1, FrameFields, States, HalfWords, HeaderBuffer,
        Lengths, ChecksumCoversFields
  <1>7. CASE HeaderCRC2(b)
    <2> DEFINE received == frame.HeaderCRC + 256 * b
    <2>1. state = "HeaderCRC2" /\ delivered' = delivered
      BY <1>7 DEF HeaderCRC2
    <2>2. received \in Word /\ frame.PayloadLen <= MaxPayloadLength
      BY <2>1, <1>s, WordOfBytes DEF HalfWords, Lengths
    <2>3. CASE CRC(buffer) # received
      <3>1. /\ state' = "Sync1" /\ buffer' = buffer
            /\ frame' = [frame EXCEPT !.HeaderCRC = received]
        BY <1>7, <2>3 DEF HeaderCRC2
      <3> HIDE DEF received
      <3>2. frame' \in FrameFields
        BY <3>1, <2>2, <1>t DEF FrameFields
      <3> QED
        BY <3>1, <3>2, <2>1, <1>t DEF States, HalfWords, HeaderBuffer, Lengths, ChecksumCoversFields
    <2>4. CASE CRC(buffer) = received
      <3>1. /\ state' = "Payload" /\ buffer' = <<>>
            /\ frame' = [frame EXCEPT !.HeaderCRC = received, !.Payload = <<>>]
        BY <1>7, <2>4 DEF HeaderCRC2
      <3> HIDE DEF received
      <3>2. /\ frame' \in FrameFields
            /\ frame'.Payload = <<>> /\ frame'.PayloadLen = frame.PayloadLen
        BY <3>1, <2>2, <1>t, EmptySeq DEF FrameFields
      <3>3. Len(frame'.Payload) < MaxPayloadLength
        BY <3>2 DEF Word
      <3> QED
        BY <3>1, <3>2, <3>3, <2>1, <2>2, <1>t
          DEF States, HalfWords, HeaderBuffer, Lengths, ChecksumCoversFields
    <2> QED BY <2>3, <2>4
  <1>8. CASE Payload(b)
    <2> DEFINE collected == Append(frame.Payload, b)
    <2>1. state = "Payload" /\ buffer' = Append(buffer, b) /\ delivered' = delivered
      BY <1>8 DEF Payload
    <2>2. /\ frame.PayloadLen <= MaxPayloadLength /\ buffer = frame.Payload
          /\ Len(frame.Payload) < MaxPayloadLength
      BY <2>1, <1>s DEF Lengths, ChecksumCoversFields
    <2>3. /\ collected \in Seq(Byte) /\ Len(collected) = Len(frame.Payload) + 1
          /\ buffer' = collected
      BY <2>1, <2>2, <1>t DEF FrameFields
    <2>4. CASE Len(collected) >= frame.PayloadLen
      <3>1. /\ state' = "PayloadCRC1"
            /\ frame' = [frame EXCEPT !.Payload = collected, !.PayloadCRC = CRC(buffer')]
        BY <1>8, <2>4 DEF Payload
      <3> HIDE DEF collected
      <3>2. frame' \in FrameFields /\ frame'.Payload = collected
        BY <3>1, <2>3, <1>t DEF FrameFields, CRCTyped
      <3>3. Len(frame'.Payload) <= MaxPayloadLength
        BY <3>2, <2>2, <2>3, <1>t DEF Word, FrameFields
      <3> QED
        BY <3>1, <3>2, <3>3, <2>1, <2>3, <1>t
          DEF States, HalfWords, HeaderBuffer, Lengths, ChecksumCoversFields
    <2>5. CASE ~(Len(collected) >= frame.PayloadLen)
      <3>1. state' = state /\ frame' = [frame EXCEPT !.Payload = collected]
        BY <1>8, <2>5 DEF Payload
      <3> HIDE DEF collected
      <3>2. /\ frame' \in FrameFields /\ frame'.Payload = collected
            /\ frame'.PayloadLen = frame.PayloadLen
        BY <3>1, <2>3, <1>t DEF FrameFields
      <3>3. /\ Len(frame'.Payload) < frame'.PayloadLen
            /\ Len(frame'.Payload) < MaxPayloadLength
        BY <3>2, <2>2, <2>3, <2>5, <1>t DEF Word, FrameFields
      <3> QED
        BY <3>1, <3>2, <3>3, <2>1, <2>2, <2>3, <1>t
          DEF States, HalfWords, HeaderBuffer, Lengths, ChecksumCoversFields
    <2> QED BY <2>4, <2>5
  <1>9. CASE PayloadCRC1(b)
    BY <1>t, <1>s, <1>9 DEF PayloadCRC1, FrameFields, States, HalfWords, HeaderBuffer,
        Lengths, ChecksumCoversFields
  <1>10. CASE PayloadCRC2(b)
    <2> DEFINE received == frame.PayloadCRC + 256 * b
    <2>1. /\ state = "PayloadCRC2" /\ state' = "Sync1" /\ buffer' = buffer
          /\ frame' = [frame EXCEPT !.PayloadCRC = received]
      BY <1>10 DEF PayloadCRC2
    <2>2. received \in Word
      BY <2>1, <1>s, WordOfBytes DEF HalfWords
    <2> HIDE DEF received
    <2>3. frame' \in FrameFields
      BY <2>1, <2>2, <1>t DEF FrameFields
    <2>4. [ID |-> frame.ID, Data |-> frame.Payload] \in FrameType
      BY <1>t DEF FrameFields, FrameType
    <2>5. \/ delivered' = delivered
          \/ delivered' = Append(delivered, [ID |-> frame.ID, Data |-> frame.Payload])
      BY <1>10 DEF PayloadCRC2
    <2>6. delivered' \in Seq(FrameType)
      BY <2>4, <2>5, <1>t
    <2> QED
      BY <2>1, <2>3, <2>6, <1>t DEF States, HalfWords, HeaderBuffer, Lengths, ChecksumCoversFields
  <1> QED
    BY <1>1, <1>2, <1>3, <1>4, <1>5, <1>6, <1>7, <1>8, <1>9, <1>10 DEF processByte

-----------------------------------------------------------------------------
(* The line.                                                               *)

LEMMA ConcatBytes ==
    ASSUME NEW s \in Seq(Byte), NEW t \in Seq(Byte)
    PROVE  /\ s \o t \in Seq(Byte)
           /\ Len(s \o t) = Len(s) + Len(t)
           /\ \A i \in 1..Len(s) : (s \o t)[i] = s[i]
           /\ \A i \in 1..Len(t) : (s \o t)[Len(s) + i] = t[i]
  <1>1. /\ s \o t \in Seq(Byte)
        /\ Len(s \o t) = Len(s) + Len(t)
        /\ \A i \in 1..(Len(s) + Len(t)) :
             (s \o t)[i] = IF i <= Len(s) THEN s[i] ELSE t[i - Len(s)]
    BY ConcatProperties
  <1>2. Len(s) \in Nat /\ Len(t) \in Nat
    OBVIOUS
  <1>3. ASSUME NEW i \in 1..Len(s) PROVE (s \o t)[i] = s[i]
    BY <1>1, <1>2
  <1>4. ASSUME NEW i \in 1..Len(t) PROVE (s \o t)[Len(s) + i] = t[i]
    <2>1. /\ Len(s) + i \in 1..(Len(s) + Len(t))
          /\ ~(Len(s) + i <= Len(s))
          /\ (Len(s) + i) - Len(s) = i
      BY <1>2
    <2> QED BY <1>1, <2>1
  <1> QED BY <1>1, <1>3, <1>4

\* Where each byte of an encoded frame lies.
LEMMA EncodeLayout ==
    ASSUME CRCTyped, NEW f \in FrameType, NEW n \in Word, n = Len(f.Data)
    PROVE  /\ Encode(f) \in Seq(Byte)
           /\ Len(Encode(f)) = n + 9
           /\ Header(f) \in Seq(Byte)
           /\ Encode(f)[1] = SyncByte1
           /\ Encode(f)[2] = SyncByte2
           /\ Encode(f)[3] = f.ID
           /\ Encode(f)[4] = Low(n)
           /\ Encode(f)[5] = High(n)
           /\ Encode(f)[6] = Low(CRC(Header(f)))
           /\ Encode(f)[7] = High(CRC(Header(f)))
           /\ \A i \in 1..n : Encode(f)[7 + i] = f.Data[i]
           /\ Encode(f)[8 + n] = Low(CRC(f.Data))
           /\ Encode(f)[9 + n] = High(CRC(f.Data))
  <1> DEFINE h  == Header(f)
             hc == Checksum(h)
             dc == Checksum(f.Data)
             hh == h \o hc
             hd == hh \o f.Data
  <1>n. n \in Nat BY DEF Word
  <1>f. f.ID \in Byte /\ f.Data \in Seq(Byte)
    BY DEF FrameType
  <1>1. /\ h \in Seq(Byte) /\ Len(h) = 5
        /\ h[1] = SyncByte1 /\ h[2] = SyncByte2 /\ h[3] = f.ID
        /\ h[4] = Low(n) /\ h[5] = High(n)
    BY <1>f, BytesOfWord, SyncAssumption DEF Header
  <1> HIDE DEF h
  <1>2. /\ hc \in Seq(Byte) /\ Len(hc) = 2
        /\ hc[1] = Low(CRC(h)) /\ hc[2] = High(CRC(h))
    BY <1>1, BytesOfWord DEF CRCTyped, Checksum
  <1>3. /\ dc \in Seq(Byte) /\ Len(dc) = 2
        /\ dc[1] = Low(CRC(f.Data)) /\ dc[2] = High(CRC(f.Data))
    BY <1>f, BytesOfWord DEF CRCTyped, Checksum
  <1> HIDE DEF hc, dc
  <1>4. /\ hh \in Seq(Byte) /\ Len(hh) = 5 + 2
        /\ \A i \in 1..5 : hh[i] = h[i]
        /\ \A i \in 1..2 : hh[5 + i] = hc[i]
    <2>1. /\ h \o hc \in Seq(Byte)
          /\ Len(h \o hc) = Len(h) + Len(hc)
          /\ \A i \in 1..Len(h) : (h \o hc)[i] = h[i]
          /\ \A i \in 1..Len(hc) : (h \o hc)[Len(h) + i] = hc[i]
      BY <1>1, <1>2, ConcatBytes
    <2> QED BY <1>1, <1>2, <2>1
  <1> HIDE DEF hh
  <1>5. /\ hh[1] = SyncByte1 /\ hh[2] = SyncByte2 /\ hh[3] = f.ID
        /\ hh[4] = Low(n) /\ hh[5] = High(n)
        /\ hh[6] = Low(CRC(h)) /\ hh[7] = High(CRC(h))
    <2>1. hh[5 + 1] = hc[1] /\ hh[5 + 2] = hc[2]
      BY <1>4
    <2> QED BY <2>1, <1>1, <1>2, <1>4
  <1>6. /\ hd \in Seq(Byte) /\ Len(hd) = 7 + n
        /\ \A i \in 1..7 : hd[i] = hh[i]
        /\ \A i \in 1..n : hd[7 + i] = f.Data[i]
    <2>1. /\ hh \o f.Data \in Seq(Byte)
          /\ Len(hh \o f.Data) = Len(hh) + Len(f.Data)
          /\ \A i \in 1..Len(hh) : (hh \o f.Data)[i] = hh[i]
          /\ \A i \in 1..Len(f.Data) : (hh \o f.Data)[Len(hh) + i] = f.Data[i]
      BY <1>4, <1>f, ConcatBytes
    <2> QED BY <1>4, <2>1
  <1> HIDE DEF hd
  <1>7. Encode(f) = hd \o dc
    BY DEF Encode, hd, hh, hc, dc, h
  <1>8. /\ Encode(f) \in Seq(Byte) /\ Len(Encode(f)) = (7 + n) + 2
        /\ \A i \in 1..(7 + n) : Encode(f)[i] = hd[i]
        /\ \A i \in 1..2 : Encode(f)[(7 + n) + i] = dc[i]
    <2>1. /\ hd \o dc \in Seq(Byte)
          /\ Len(hd \o dc) = Len(hd) + Len(dc)
          /\ \A i \in 1..Len(hd) : (hd \o dc)[i] = hd[i]
          /\ \A i \in 1..Len(dc) : (hd \o dc)[Len(hd) + i] = dc[i]
      BY <1>3, <1>6, ConcatBytes
    <2> QED BY <1>3, <1>6, <1>7, <2>1
  <1>9. \A i \in 1..7 : Encode(f)[i] = hh[i]
    <2>1. \A i \in 1..7 : i \in 1..(7 + n)
      BY <1>n
    <2> QED BY <1>6, <1>8, <2>1
  <1>10. \A i \in 1..n : Encode(f)[7 + i] = f.Data[i]
    BY <1>6, <1>8, <1>n
  <1>11. Encode(f)[8 + n] = dc[1] /\ Encode(f)[9 + n] = dc[2]
    <2>1. Encode(f)[(7 + n) + 1] = dc[1] /\ Encode(f)[(7 + n) + 2] = dc[2]
      BY <1>8
    <2>2. (7 + n) + 1 = 8 + n /\ (7 + n) + 2 = 9 + n
      BY <1>n
    <2> QED BY <2>1, <2>2
  <1>12. Len(Encode(f)) = n + 9
    BY <1>8, <1>n
  <1>13. /\ Encode(f)[1] = SyncByte1 /\ Encode(f)[2] = SyncByte2
         /\ Encode(f)[3] = f.ID /\ Encode(f)[4] = Low(n) /\ Encode(f)[5] = High(n)
         /\ Encode(f)[6] = Low(CRC(h)) /\ Encode(f)[7] = High(CRC(h))
    BY <1>5, <1>9
  <1> QED
    BY <1>1, <1>3, <1>8, <1>10, <1>11, <1>12, <1>13 DEF h

\* A disturbed frame is still a sequence of bytes.
LEMMA DisturbedBytes ==
    ASSUME NEW w \in Seq(Byte), NEW p \in Nat, NEW d \in Disturbed(w, p)
    PROVE  d \in Seq(Byte)
  <1>1. ASSUME NEW m \in Nat, NEW n \in Nat, m >= 1, n <= Len(w)
        PROVE  SubSeq(w, m, n) \in Seq(Byte)
    <2>1. \A i \in m..n : w[i] \in Byte
      BY <1>1
    <2> QED BY <2>1, SubSeqProperties
  <1>2. ASSUME NEW j \in (p + 1)..Len(w) PROVE RemoveAt(w, j) \in Seq(Byte)
    <2>1. SubSeq(w, 1, j - 1) \in Seq(Byte) /\ SubSeq(w, j + 1, Len(w)) \in Seq(Byte)
      BY <1>1
    <2> QED BY <2>1, ConcatProperties DEF RemoveAt
  <1>3. ASSUME NEW j \in (p + 1)..Len(w), NEW b \in NoiseBytes
        PROVE  [w EXCEPT ![j] = b] \in Seq(Byte)
    BY PeerAssumption, ExceptSeq
  <1>4. ASSUME NEW j \in (p + 1)..Len(w), NEW b \in NoiseBytes
        PROVE  InsertAt(w, j, b) \in Seq(Byte)
    <2>1. SubSeq(w, 1, j - 1) \in Seq(Byte) /\ SubSeq(w, j, Len(w)) \in Seq(Byte)
      BY <1>1
    <2>2. <<b>> \in Seq(Byte)
      BY PeerAssumption
    <2> QED BY <2>1, <2>2, ConcatProperties DEF InsertAt
  <1>5. ASSUME NEW j \in (p + 1)..Len(w) PROVE SubSeq(w, 1, j) \in Seq(Byte)
    BY <1>1
  <1> QED
    BY <1>2, <1>3, <1>4, <1>5 DEF Disturbed

\* A disturbance leaves the bytes already read as they were.
LEMMA DisturbedKeepsRead ==
    ASSUME NEW w \in Seq(Byte), NEW p \in Nat, NEW d \in Disturbed(w, p)
    PROVE  \A i \in 1..p : d[i] = w[i]
  <1> SUFFICES ASSUME NEW i \in 1..p PROVE d[i] = w[i]
    OBVIOUS
  <1>1. ASSUME NEW m \in Nat, m <= Len(w)
        PROVE  /\ SubSeq(w, 1, m) \in Seq(Byte) /\ Len(SubSeq(w, 1, m)) = m
               /\ i <= m => SubSeq(w, 1, m)[i] = w[i]
    <2>1. \A k \in 1..m : w[k] \in Byte
      BY <1>1
    <2> QED BY <2>1, <1>1, SubSeqProperties
  <1>2. ASSUME NEW j \in (p + 1)..Len(w)
        PROVE  /\ SubSeq(w, 1, j - 1) \in Seq(Byte)
               /\ SubSeq(w, 1, j - 1)[i] = w[i]
               /\ i \in 1..Len(SubSeq(w, 1, j - 1))
               /\ i <= j /\ i # j /\ j \in Nat /\ j <= Len(w)
    <2>1. j - 1 \in Nat /\ j - 1 <= Len(w) /\ i <= j - 1 /\ i # j /\ j \in Nat /\ j <= Len(w)
      BY <1>2
    <2> QED BY <2>1, <1>1
  <1>3. ASSUME NEW m \in Nat, m >= 1
        PROVE  SubSeq(w, m, Len(w)) \in Seq(Byte)
    <2>1. \A k \in m..Len(w) : w[k] \in Byte
      BY <1>3
    <2> QED BY <2>1, <1>3, SubSeqProperties
  <1>4. ASSUME NEW j \in (p + 1)..Len(w) PROVE RemoveAt(w, j)[i] = w[i]
    <2>1. SubSeq(w, j + 1, Len(w)) \in Seq(Byte)
      BY <1>2, <1>3
    <2>2. PICK u : u = SubSeq(w, 1, j - 1)
      OBVIOUS
    <2>3. u \in Seq(Byte) /\ u[i] = w[i] /\ i \in 1..Len(u)
      BY <1>2, <2>2
    <2>4. (u \o SubSeq(w, j + 1, Len(w)))[i] = u[i]
      BY <2>1, <2>3, ConcatBytes
    <2> QED BY <2>2, <2>3, <2>4 DEF RemoveAt
  <1>5. ASSUME NEW j \in (p + 1)..Len(w), NEW b \in NoiseBytes
        PROVE  [w EXCEPT ![j] = b][i] = w[i]
    BY <1>2
  <1>6. ASSUME NEW j \in (p + 1)..Len(w), NEW b \in NoiseBytes
        PROVE  InsertAt(w, j, b)[i] = w[i]
    <2>1. SubSeq(w, j, Len(w)) \in Seq(Byte) /\ <<b>> \in Seq(Byte)
      BY <1>2, <1>3, PeerAssumption
    <2> DEFINE u == SubSeq(w, 1, j - 1)
               v == u \o <<b>>
    <2>2. u \in Seq(Byte) /\ u[i] = w[i] /\ i \in 1..Len(u)
      BY <1>2
    <2> HIDE DEF u
    <2>3. v \in Seq(Byte) /\ v[i] = w[i] /\ i \in 1..Len(v)
      BY <2>1, <2>2, ConcatBytes
    <2> HIDE DEF v
    <2>4. (v \o SubSeq(w, j, Len(w)))[i] = w[i]
      BY <2>1, <2>3, ConcatBytes
    <2> QED BY <2>4 DEF InsertAt, u, v
  <1>7. ASSUME NEW j \in (p + 1)..Len(w) PROVE SubSeq(w, 1, j)[i] = w[i]
    BY <1>1, <1>2
  <1> QED
    BY <1>4, <1>5, <1>6, <1>7 DEF Disturbed

-----------------------------------------------------------------------------
(* Type correctness and the receiver's invariant.                          *)

LineInv == /\ sent \in Seq(FrameType)
           /\ wire \in Seq(Seq(Byte) \ {<<>>})
           /\ pos \in Nat
           /\ noise \in 0..MaxNoise
           /\ IF wire = <<>> THEN pos = 0 ELSE pos < Len(wire[1])

RxInv == Receiver /\ LineInv

LEMMA RxInvImpliesTypeOK == RxInv => TypeOK
  BY DEF RxInv, Receiver, LineInv, FrameFields, TypeOK

LEMMA RxInvInit == Init => RxInv
  <1> SUFFICES ASSUME Init PROVE RxInv
    OBVIOUS
  <1> USE DEF Init
  <1>1. frame \in FrameFields
    BY DEF FrameFields, EmptyFrame, Byte, Word
  <1>2. Receiver
    BY <1>1 DEF Receiver, States, HalfWords, HeaderBuffer, Lengths, ChecksumCoversFields
  <1>3. LineInv
    BY BoundAssumption DEF LineInv
  <1> QED
    BY <1>2, <1>3 DEF RxInv

LEMMA WriteKeepsLineInv ==
    ASSUME CRCTyped, LineInv, NEW id \in FrameIDs, NEW data \in Payloads,
           WriteWithFrameID(id, data)
    PROVE  LineInv'
  <1> DEFINE f == [ID |-> id, Data |-> data]
  <1>1. /\ Len(data) <= MaxPayloadLength /\ data \in Seq(Byte) /\ id \in Byte
        /\ sent' = Append(sent, f) /\ wire' = Append(wire, Encode(f))
        /\ pos' = pos /\ noise' = noise
    BY PeerAssumption DEF WriteWithFrameID
  <1>2. f \in FrameType /\ f.Data = data
    BY <1>1 DEF FrameType
  <1>3. Len(data) \in Word
    BY <1>1, LengthAssumption DEF Word
  <1>4. Encode(f) \in Seq(Byte) /\ Len(Encode(f)) = Len(data) + 9
    BY <1>2, <1>3, EncodeLayout
  <1>5. Encode(f) # <<>> /\ 0 < Len(Encode(f))
    BY <1>1, <1>4
  <1> HIDE DEF f
  <1>6. IF wire' = <<>> THEN pos' = 0 ELSE pos' < Len(wire'[1])
    <2>1. CASE wire = <<>>
      BY <2>1, <1>1, <1>5 DEF LineInv
    <2>2. CASE wire # <<>>
      <3>1. wire \in Seq(Seq(Byte) \ {<<>>}) /\ Encode(f) \in Seq(Byte) \ {<<>>}
        BY <1>4, <1>5 DEF LineInv
      <3>2. 1 \in 1..Len(wire)
        BY <3>1, <2>2
      <3>3. wire'[1] = wire[1] /\ wire' # <<>>
        BY <3>1, <3>2, <1>1, AppendProperties
      <3> QED BY <3>3, <2>2, <1>1 DEF LineInv
    <2> QED BY <2>1, <2>2
  <1> QED
    BY <1>1, <1>2, <1>4, <1>5, <1>6 DEF LineInv

\* The byte readLoop is about to take.
LEMMA NextByte ==
    ASSUME LineInv, wire # <<>>
    PROVE  /\ wire[1] \in Seq(Byte) /\ wire[1] # <<>>
           /\ pos + 1 \in 1..Len(wire[1])
           /\ wire[1][pos + 1] \in Byte
  <1>1. wire[1] \in Seq(Byte) \ {<<>>}
    BY DEF LineInv
  <1>2. pos + 1 \in 1..Len(wire[1])
    BY <1>1 DEF LineInv
  <1> QED BY <1>1, <1>2

LEMMA ReadKeepsLineInv ==
    ASSUME LineInv, ReadByte
    PROVE  LineInv'
  <1>1. /\ wire # <<>> /\ sent' = sent /\ noise' = noise
        /\ \/ pos + 1 = Len(wire[1]) /\ wire' = Tail(wire) /\ pos' = 0
           \/ pos + 1 < Len(wire[1]) /\ wire' = wire /\ pos' = pos + 1
    BY DEF ReadByte
  <1>2. CASE pos + 1 = Len(wire[1]) /\ wire' = Tail(wire) /\ pos' = 0
    <2>1. Tail(wire) \in Seq(Seq(Byte) \ {<<>>})
      BY <1>1 DEF LineInv
    <2>2. wire' # <<>> => wire'[1] \in Seq(Byte) \ {<<>>}
      BY <2>1, <1>2
    <2>3. wire' # <<>> => 0 < Len(wire'[1])
      BY <2>2
    <2> QED BY <1>1, <1>2, <2>1, <2>3 DEF LineInv
  <1>3. CASE pos + 1 < Len(wire[1]) /\ wire' = wire /\ pos' = pos + 1
    BY <1>1, <1>3 DEF LineInv
  <1> QED BY <1>1, <1>2, <1>3

LEMMA DisturbKeepsLineInv ==
    ASSUME LineInv, Disturb
    PROVE  LineInv'
  <1>1. /\ noise < MaxNoise /\ noise' = noise + 1 /\ sent' = sent /\ pos' = pos
    BY DEF Disturb
  <1>2. noise' \in 0..MaxNoise
    BY <1>1, BoundAssumption DEF LineInv
  <1>3. PICK k \in 1..Len(wire) :
          \E w \in Disturbed(wire[k], IF k = 1 THEN pos ELSE 0) :
             /\ Len(w) > IF k = 1 THEN pos ELSE 0
             /\ wire' = [wire EXCEPT ![k] = w]
    BY DEF Disturb
  <1>4. PICK w \in Disturbed(wire[k], IF k = 1 THEN pos ELSE 0) :
             /\ Len(w) > IF k = 1 THEN pos ELSE 0
             /\ wire' = [wire EXCEPT ![k] = w]
    BY <1>3
  <1>5. wire \in Seq(Seq(Byte) \ {<<>>}) /\ pos \in Nat
    BY DEF LineInv
  <1>6. wire[k] \in Seq(Byte) /\ (IF k = 1 THEN pos ELSE 0) \in Nat
    BY <1>5
  <1>7. w \in Seq(Byte)
    BY <1>6, DisturbedBytes
  <1>8. w # <<>>
    <2>1. Len(w) > 0
      BY <1>4, <1>6, <1>7
    <2> QED BY <2>1
  <1>9. /\ wire' \in Seq(Seq(Byte) \ {<<>>}) /\ Len(wire') = Len(wire)
        /\ wire'[1] = IF k = 1 THEN w ELSE wire[1]
    <2>1. w \in Seq(Byte) \ {<<>>} /\ 1 \in 1..Len(wire)
      BY <1>5, <1>7, <1>8
    <2> QED BY <2>1, <1>4, <1>5, ExceptSeq
  <1>10. wire # <<>> /\ wire' # <<>>
    BY <1>5, <1>9
  <1>11. pos' < Len(wire'[1])
    BY <1>1, <1>4, <1>5, <1>9, <1>10 DEF LineInv
  <1> QED
    BY <1>1, <1>2, <1>5, <1>9, <1>10, <1>11 DEF LineInv

LEMMA RxInvNext ==
    ASSUME CRCTyped, RxInv, [Next]_vars
    PROVE  RxInv'
  <1>1. Receiver /\ LineInv
    BY DEF RxInv
  <1>2. ASSUME UNCHANGED rx PROVE Receiver'
    BY <1>1, <1>2 DEF rx, Receiver, HalfWords, HeaderBuffer, Lengths, ChecksumCoversFields
  <1>3. ASSUME NEW id \in FrameIDs, NEW data \in Payloads, WriteWithFrameID(id, data)
        PROVE  RxInv'
    BY <1>1, <1>2, <1>3, WriteKeepsLineInv DEF RxInv, WriteWithFrameID
  <1>4. CASE ReadByte
    <2>1. Receiver'
      BY <1>1, <1>4, NextByte, ProcessByteKeepsReceiver DEF ReadByte
    <2> QED BY <2>1, <1>1, <1>4, ReadKeepsLineInv DEF RxInv
  <1>5. CASE Disturb
    BY <1>1, <1>2, <1>5, DisturbKeepsLineInv DEF RxInv, Disturb
  <1>6. CASE UNCHANGED vars
    BY <1>1, <1>2, <1>6 DEF vars, line, RxInv, LineInv
  <1> QED
    BY <1>3, <1>4, <1>5, <1>6 DEF Next

\* Each variable keeps its type, for every checksum function, noise and bound.
THEOREM UsockTypeOK == ASSUME CRCTyped PROVE Spec => []TypeOK
  <1>1. Init => RxInv
    BY RxInvInit
  <1>2. RxInv /\ [Next]_vars => RxInv'
    BY RxInvNext
  <1>3. RxInv => TypeOK
    BY RxInvImpliesTypeOK
  <1> QED BY <1>1, <1>2, <1>3, PTL DEF Spec

\* A header or payload checksum is compared over the very fields acted on.
THEOREM UsockChecksums == ASSUME CRCTyped PROVE Spec => []ChecksumCoversFields
  <1>1. Init => RxInv
    BY RxInvInit
  <1>2. RxInv /\ [Next]_vars => RxInv'
    BY RxInvNext
  <1>3. RxInv => ChecksumCoversFields
    BY DEF RxInv, Receiver
  <1> QED BY <1>1, <1>2, <1>3, PTL DEF Spec

\* A frame occupies the receiver for at most MaxPayloadLength + 9 bytes.
THEOREM UsockBoundedFrame == ASSUME CRCTyped PROVE Spec => []BoundedFrame
  <1>1. Init => RxInv
    BY RxInvInit
  <1>2. RxInv /\ [Next]_vars => RxInv'
    BY RxInvNext
  <1>3. RxInv => BoundedFrame
    <2> SUFFICES ASSUME RxInv PROVE BoundedFrame
      OBVIOUS
    <2>1. /\ state \in States /\ frame.Payload \in Seq(Byte)
          /\ state \in {"Payload", "PayloadCRC1", "PayloadCRC2"} =>
               Len(frame.Payload) <= MaxPayloadLength
          /\ MaxPayloadLength \in Nat
      BY LengthAssumption DEF RxInv, Receiver, FrameFields, Lengths, Word
    <2>2. Len(frame.Payload) \in Nat
      BY <2>1
    <2> QED BY <2>1, <2>2 DEF BoundedFrame, Position, States
  <1> QED BY <1>1, <1>2, <1>3, PTL DEF Spec

-----------------------------------------------------------------------------
(* Delivery on an undisturbed line.                                        *)

\* What the receiver has kept of frame f agrees with f.
Follows(f) ==
    /\ state \in States \ {"Sync1", "Sync2", "FrameID"} => frame.ID = f.ID
    /\ state = "PayloadLen2" => frame.PayloadLen = Low(Len(f.Data))
    /\ state \in {"HeaderCRC1", "HeaderCRC2", "Payload"} => frame.PayloadLen = Len(f.Data)
    /\ state = "HeaderCRC2" => frame.HeaderCRC = Low(CRC(Header(f)))
    /\ state = "Payload" => Len(frame.Payload) < Len(f.Data)
    /\ state = "Payload" =>
         \A i \in 1..Len(frame.Payload) : frame.Payload[i] = f.Data[i]
    /\ state \in {"PayloadCRC1", "PayloadCRC2"} => frame.Payload = f.Data
    /\ state = "PayloadCRC2" => frame.PayloadCRC = Low(CRC(f.Data))

\* Frames whose last byte has been read.
Done == Len(sent) - Len(wire)

\* While the line is clean, the receiver follows the frames in order.
CleanInv ==
    CleanLine =>
        /\ Len(wire) <= Len(sent)
        /\ \A i \in 1..Len(sent) : Fits(sent[i])
        /\ \A i \in 1..Len(wire) : wire[i] = Encode(sent[Done + i])
        /\ delivered = SubSeq(sent, 1, Done)
        /\ pos = Position
        /\ wire # <<>> => Follows(sent[Done + 1])

\* One more byte of f: the receiver keeps following f, and hands it over with
\* its last byte.
LEMMA ReceiverFollows ==
    ASSUME CRCTyped, Receiver, NEW f \in FrameType, Fits(f), Follows(f),
           processByte(Encode(f)[Position + 1])
    PROVE  \/ /\ Position + 1 = Len(Encode(f))
              /\ state' = "Sync1"
              /\ delivered' = Append(delivered, f)
           \/ /\ Position + 1 < Len(Encode(f))
              /\ Position' = Position + 1
              /\ Follows(f)'
              /\ delivered' = delivered
  <1> DEFINE n == Len(f.Data)
             b == Encode(f)[Position + 1]
  <1>t. /\ state \in States
        /\ frame \in FrameFields
        /\ buffer \in Seq(Byte)
        /\ HalfWords /\ HeaderBuffer /\ Lengths /\ ChecksumCoversFields
    BY DEF Receiver
  <1>f. f.ID \in Byte /\ f.Data \in Seq(Byte)
    BY DEF FrameType
  <1>n. n \in Word /\ n \in Nat /\ n > 0 /\ n <= MaxPayloadLength
    BY <1>f, LengthAssumption DEF Fits, Word
  <1>e. /\ Encode(f) \in Seq(Byte)
        /\ Len(Encode(f)) = n + 9
        /\ Header(f) \in Seq(Byte)
        /\ Encode(f)[1] = SyncByte1
        /\ Encode(f)[2] = SyncByte2
        /\ Encode(f)[3] = f.ID
        /\ Encode(f)[4] = Low(n)
        /\ Encode(f)[5] = High(n)
        /\ Encode(f)[6] = Low(CRC(Header(f)))
        /\ Encode(f)[7] = High(CRC(Header(f)))
        /\ \A i \in 1..n : Encode(f)[7 + i] = f.Data[i]
        /\ Encode(f)[8 + n] = Low(CRC(f.Data))
        /\ Encode(f)[9 + n] = High(CRC(f.Data))
    BY <1>n, EncodeLayout
  <1>p. processByte(b)
    OBVIOUS
  <1> HIDE DEF n, b
  <1>1. CASE Sync1(b)
    <2>1. state = "Sync1" /\ Position = 0
      BY <1>1 DEF Sync1, Position
    <2>2. b = SyncByte1
      BY <2>1, <1>e DEF b
    <2>3. state' = "Sync2" /\ delivered' = delivered
      BY <2>2, <1>1 DEF Sync1
    <2>4. Position' = 1 /\ Follows(f)'
      BY <2>3 DEF Position, Follows, States
    <2> QED BY <2>1, <2>3, <2>4, <1>e, <1>n
  <1>2. CASE Sync2(b)
    <2>1. state = "Sync2" /\ Position = 1
      BY <1>2 DEF Sync2, Position
    <2>2. b = SyncByte2
      BY <2>1, <1>e DEF b
    <2>3. state' = "FrameID" /\ delivered' = delivered
      BY <2>2, <1>2 DEF Sync2
    <2>4. Position' = 2 /\ Follows(f)'
      BY <2>3 DEF Position, Follows, States
    <2> QED BY <2>1, <2>3, <2>4, <1>e, <1>n
  <1>3. CASE FrameID(b)
    <2>1. state = "FrameID" /\ Position = 2
      BY <1>3 DEF FrameID, Position
    <2>2. b = f.ID
      BY <2>1, <1>e DEF b
    <2>3. /\ state' = "PayloadLen1" /\ delivered' = delivered
          /\ frame' = [frame EXCEPT !.ID = b]
      BY <1>3 DEF FrameID
    <2>4. frame'.ID = f.ID
      BY <2>2, <2>3, <1>t DEF FrameFields
    <2>5. Position' = 3 /\ Follows(f)'
      BY <2>3, <2>4 DEF Position, Follows
    <2> QED BY <2>1, <2>3, <2>5, <1>e, <1>n
  <1>4. CASE PayloadLen1(b)
    <2>1. state = "PayloadLen1" /\ Position = 3 /\ frame.ID = f.ID
      BY <1>4 DEF PayloadLen1, Position, Follows, States
    <2>2. b = Low(n)
      BY <2>1, <1>e DEF b
    <2>3. /\ state' = "PayloadLen2" /\ delivered' = delivered
          /\ frame' = [frame EXCEPT !.PayloadLen = b]
      BY <1>4 DEF PayloadLen1
    <2>4. frame'.ID = f.ID /\ frame'.PayloadLen = Low(n)
      BY <2>1, <2>2, <2>3, <1>t DEF FrameFields
    <2>5. Position' = 4 /\ Follows(f)'
      BY <2>3, <2>4 DEF Position, Follows, n
    <2> QED BY <2>1, <2>3, <2>5, <1>e, <1>n
  <1>5. CASE PayloadLen2(b)
    <2>1. /\ state = "PayloadLen2" /\ Position = 4 /\ frame.ID = f.ID
          /\ frame.PayloadLen = Low(n)
      BY <1>5 DEF PayloadLen2, Position, Follows, States, n
    <2>2. b = High(n)
      BY <2>1, <1>e DEF b
    <2>3. frame.PayloadLen + 256 * b = n
      BY <2>1, <2>2, <1>n, BytesOfWord
    <2>4. /\ delivered' = delivered
          /\ frame' = [frame EXCEPT !.PayloadLen = n, !.HeaderCRC = CRC(buffer')]
          /\ state' = IF n > MaxPayloadLength THEN "Sync1" ELSE "HeaderCRC1"
      BY <2>3, <1>5 DEF PayloadLen2
    <2>5. state' = "HeaderCRC1"
      BY <2>4, <1>n, LengthAssumption DEF Word
    <2>6. frame'.ID = f.ID /\ frame'.PayloadLen = n
      BY <2>1, <2>4, <1>t DEF FrameFields
    <2>7. Position' = 5 /\ Follows(f)'
      BY <2>5, <2>6 DEF Position, Follows, n
    <2> QED BY <2>1, <2>4, <2>7, <1>e, <1>n
  <1>6. CASE HeaderCRC1(b)
    <2>1. /\ state = "HeaderCRC1" /\ Position = 5 /\ frame.ID = f.ID
          /\ frame.PayloadLen = n
      BY <1>6 DEF HeaderCRC1, Position, Follows, States, n
    <2>2. b = Low(CRC(Header(f)))
      BY <2>1, <1>e DEF b
    <2>3. /\ state' = "HeaderCRC2" /\ delivered' = delivered
          /\ frame' = [frame EXCEPT !.HeaderCRC = b]
      BY <1>6 DEF HeaderCRC1
    <2>4. frame'.ID = f.ID /\ frame'.PayloadLen = n /\ frame'.HeaderCRC = Low(CRC(Header(f)))
      BY <2>1, <2>2, <2>3, <1>t DEF FrameFields
    <2>5. Position' = 6 /\ Follows(f)'
      BY <2>3, <2>4 DEF Position, Follows, n
    <2> QED BY <2>1, <2>3, <2>5, <1>e, <1>n
  <1>7. CASE HeaderCRC2(b)
    <2>1. /\ state = "HeaderCRC2" /\ Position = 6 /\ frame.ID = f.ID
          /\ frame.PayloadLen = n /\ frame.HeaderCRC = Low(CRC(Header(f)))
      BY <1>7 DEF HeaderCRC2, Position, Follows, States, n
    <2>2. b = High(CRC(Header(f)))
      BY <2>1, <1>e DEF b
    <2>3. buffer = Header(f)
      BY <2>1, <1>t DEF ChecksumCoversFields, Header, n
    <2>4. CRC(buffer) = frame.HeaderCRC + 256 * b
      BY <2>1, <2>2, <2>3, <1>e, BytesOfWord DEF CRCTyped
    <2>5. /\ state' = "Payload" /\ delivered' = delivered
          /\ \E w : frame' = [frame EXCEPT !.HeaderCRC = w, !.Payload = <<>>]
      BY <2>4, <1>7 DEF HeaderCRC2
    <2>6. frame'.ID = f.ID /\ frame'.PayloadLen = n /\ frame'.Payload = <<>>
      BY <2>1, <2>5, <1>t DEF FrameFields
    <2>7. Len(frame'.Payload) = 0
      BY <2>6
    <2>8. Position' = 7
      <3>1. Position' = 7 + Len(frame'.Payload)
        BY <2>5 DEF Position
      <3> QED BY <3>1, <2>7
    <2>9. Follows(f)'
      BY <2>5, <2>6, <2>7, <1>n DEF Follows, n
    <2> QED BY <2>1, <2>5, <2>8, <2>9, <1>e, <1>n
  <1>8. CASE Payload(b)
    <2> DEFINE k == Len(frame.Payload)
    <2>1. /\ state = "Payload" /\ Position = 7 + k /\ frame.ID = f.ID
          /\ frame.PayloadLen = n /\ k < n
          /\ \A i \in 1..k : frame.Payload[i] = f.Data[i]
      BY <1>8 DEF Payload, Position, Follows, States, n
    <2>2. frame.Payload \in Seq(Byte) /\ k \in Nat
      BY <1>t DEF FrameFields
    <2>3. b = f.Data[k + 1] /\ b \in Byte
      <3>1. k + 1 \in 1..n /\ Position + 1 = 7 + (k + 1)
        BY <2>1, <2>2, <1>n
      <3>2. b = Encode(f)[7 + (k + 1)]
        BY <3>1 DEF b
      <3> QED BY <3>1, <3>2, <1>e, <1>f DEF n
    <2> DEFINE collected == Append(frame.Payload, b)
    <2>4. /\ collected \in Seq(Byte) /\ Len(collected) = k + 1
          /\ \A i \in 1..(k + 1) : collected[i] = f.Data[i]
      <3>1. /\ collected \in Seq(Byte) /\ Len(collected) = k + 1
            /\ collected[k + 1] = b
            /\ \A i \in 1..k : collected[i] = frame.Payload[i]
        BY <2>2, <2>3, AppendByte
      <3> QED BY <3>1, <2>1, <2>2, <2>3
    <2> HIDE DEF k
    <2>5. CASE Len(collected) >= frame.PayloadLen
      <3>1. /\ state' = "PayloadCRC1" /\ delivered' = delivered
            /\ frame' = [frame EXCEPT !.Payload = collected, !.PayloadCRC = CRC(buffer')]
        BY <2>5, <1>8 DEF Payload
      <3> HIDE DEF collected
      <3>2. frame'.ID = f.ID /\ frame'.Payload = collected
        BY <2>1, <3>1, <1>t DEF FrameFields
      <3>3. k + 1 = n
        BY <2>1, <2>2, <2>4, <2>5, <1>n
      <3>4. collected = f.Data
        BY <2>4, <3>3, <1>f, SeqEqual DEF n
      <3>5. Position' = 7 + n /\ Follows(f)'
        BY <3>1, <3>2, <3>4 DEF Position, Follows, n
      <3>6. Position + 1 < Len(Encode(f)) /\ Position' = Position + 1
        BY <3>3, <3>5, <2>1, <2>2, <1>e, <1>n
      <3> QED BY <3>1, <3>5, <3>6
    <2>6. CASE ~(Len(collected) >= frame.PayloadLen)
      <3>1. /\ state' = "Payload" /\ delivered' = delivered
            /\ frame' = [frame EXCEPT !.Payload = collected]
        BY <2>1, <2>6, <1>8 DEF Payload
      <3> HIDE DEF collected
      <3>2. frame'.ID = f.ID /\ frame'.Payload = collected /\ frame'.PayloadLen = n
        BY <2>1, <3>1, <1>t DEF FrameFields
      <3>3. k + 1 < n
        BY <2>1, <2>2, <2>4, <2>6, <1>n
      <3>4. Position' = 7 + (k + 1)
        BY <3>1, <3>2, <2>4 DEF Position
      <3>5. Follows(f)'
        BY <3>1, <3>2, <3>3, <2>4 DEF Follows, n
      <3>6. Position + 1 < Len(Encode(f)) /\ Position' = Position + 1
        BY <3>3, <3>4, <2>1, <2>2, <1>e, <1>n
      <3> QED BY <3>1, <3>5, <3>6
    <2> QED BY <2>5, <2>6
  <1>9. CASE PayloadCRC1(b)
    <2>1. /\ state = "PayloadCRC1" /\ Position = 7 + n /\ frame.ID = f.ID
          /\ frame.Payload = f.Data
      BY <1>9 DEF PayloadCRC1, Position, Follows, States, n
    <2>2. b = Low(CRC(f.Data))
      <3>1. Position + 1 = 8 + n
        BY <2>1, <1>n
      <3> QED BY <3>1, <1>e DEF b
    <2>3. /\ state' = "PayloadCRC2" /\ delivered' = delivered
          /\ frame' = [frame EXCEPT !.PayloadCRC = b]
      BY <1>9 DEF PayloadCRC1
    <2>4. /\ frame'.ID = f.ID /\ frame'.Payload = f.Data
          /\ frame'.PayloadCRC = Low(CRC(f.Data))
      BY <2>1, <2>2, <2>3, <1>t DEF FrameFields
    <2>5. Position' = 8 + n /\ Follows(f)'
      BY <2>3, <2>4 DEF Position, Follows, n
    <2> QED BY <2>1, <2>3, <2>5, <1>e, <1>n
  <1>10. CASE PayloadCRC2(b)
    <2>1. /\ state = "PayloadCRC2" /\ Position = 8 + n /\ frame.ID = f.ID
          /\ frame.Payload = f.Data /\ frame.PayloadCRC = Low(CRC(f.Data))
      BY <1>10 DEF PayloadCRC2, Position, Follows, States, n
    <2>2. b = High(CRC(f.Data))
      <3>1. Position + 1 = 9 + n
        BY <2>1, <1>n
      <3> QED BY <3>1, <1>e DEF b
    <2>3. buffer = f.Data
      BY <2>1, <1>t DEF ChecksumCoversFields
    <2>4. CRC(buffer) = frame.PayloadCRC + 256 * b
      BY <2>1, <2>2, <2>3, <1>f, BytesOfWord DEF CRCTyped
    <2>5. /\ state' = "Sync1"
          /\ delivered' = Append(delivered, [ID |-> frame.ID, Data |-> frame.Payload])
      BY <2>4, <1>10 DEF PayloadCRC2
    <2>6. f = [ID |-> frame.ID, Data |-> frame.Payload]
      BY <2>1 DEF FrameType
    <2> QED BY <2>1, <2>5, <2>6, <1>e, <1>n
  <1> QED
    BY <1>p, <1>1, <1>2, <1>3, <1>4, <1>5, <1>6, <1>7, <1>8, <1>9, <1>10 DEF processByte

LEMMA CleanInvInit == Init => CleanInv
  BY DEF Init, CleanInv, Position, Done

\* A sequence type without the bytes: what a prefix of an extended one is.
LEMMA PrefixOfAppend ==
    ASSUME NEW S, NEW s \in Seq(S), NEW e \in S, NEW n \in 0..Len(s)
    PROVE  SubSeq(Append(s, e), 1, n) = SubSeq(s, 1, n)
  <1>1. \A i \in 1..n : Append(s, e)[i] = s[i] /\ s[i] \in S
    BY AppendProperties
  <1>2. /\ SubSeq(s, 1, n) \in Seq(S) /\ Len(SubSeq(s, 1, n)) = n
        /\ \A i \in 1..n : SubSeq(s, 1, n)[i] = s[i]
    BY <1>1, SubSeqProperties
  <1>3. /\ SubSeq(Append(s, e), 1, n) \in Seq(S) /\ Len(SubSeq(Append(s, e), 1, n)) = n
        /\ \A i \in 1..n : SubSeq(Append(s, e), 1, n)[i] = Append(s, e)[i]
    BY <1>1, SubSeqProperties
  <1> QED BY <1>1, <1>2, <1>3, SeqEqual

LEMMA PrefixGrows ==
    ASSUME NEW S, NEW s \in Seq(S), NEW n \in Nat, n + 1 <= Len(s)
    PROVE  SubSeq(s, 1, n + 1) = Append(SubSeq(s, 1, n), s[n + 1])
  <1>1. \A i \in 1..(n + 1) : s[i] \in S
    OBVIOUS
  <1>2. /\ SubSeq(s, 1, n) \in Seq(S) /\ Len(SubSeq(s, 1, n)) = n
        /\ \A i \in 1..n : SubSeq(s, 1, n)[i] = s[i]
    BY <1>1, SubSeqProperties
  <1>3. /\ SubSeq(s, 1, n + 1) \in Seq(S) /\ Len(SubSeq(s, 1, n + 1)) = n + 1
        /\ \A i \in 1..(n + 1) : SubSeq(s, 1, n + 1)[i] = s[i]
    BY <1>1, SubSeqProperties
  <1> DEFINE t == Append(SubSeq(s, 1, n), s[n + 1])
  <1>4. /\ t \in Seq(S) /\ Len(t) = n + 1 /\ t[n + 1] = s[n + 1]
        /\ \A i \in 1..n : t[i] = s[i]
    BY <1>1, <1>2, AppendProperties
  <1>5. \A i \in 1..(n + 1) : SubSeq(s, 1, n + 1)[i] = t[i]
    BY <1>3, <1>4
  <1> QED BY <1>3, <1>4, <1>5, SeqEqual

LEMMA WriteKeepsClean ==
    ASSUME CRCTyped, RxInv, CleanInv, CleanLine, NonEmpty(sent'),
           NEW id \in FrameIDs, NEW data \in Payloads, WriteWithFrameID(id, data)
    PROVE  CleanInv'
  <1> DEFINE f == [ID |-> id, Data |-> data]
  <1>1. /\ Len(data) <= MaxPayloadLength /\ data \in Seq(Byte) /\ id \in Byte
        /\ sent' = Append(sent, f) /\ wire' = Append(wire, Encode(f))
        /\ UNCHANGED <<rx, pos, noise>>
    BY PeerAssumption DEF WriteWithFrameID
  <1>2. f \in FrameType /\ f.Data = data
    BY <1>1 DEF FrameType
  <1>3. /\ sent \in Seq(FrameType) /\ wire \in Seq(Seq(Byte) \ {<<>>})
        /\ Encode(f) \in Seq(Byte) \ {<<>>}
    <2>1. Len(data) \in Word
      BY <1>1, LengthAssumption DEF Word
    <2>2. Encode(f) \in Seq(Byte) /\ Len(Encode(f)) = Len(data) + 9
      BY <1>2, <2>1, EncodeLayout
    <2>3. Encode(f) # <<>>
      BY <1>1, <2>2
    <2> QED BY <2>2, <2>3 DEF RxInv, LineInv
  <1> HIDE DEF f
  <1>4. /\ Len(wire) <= Len(sent)
        /\ \A i \in 1..Len(sent) : Fits(sent[i])
        /\ \A i \in 1..Len(wire) : wire[i] = Encode(sent[Done + i])
        /\ delivered = SubSeq(sent, 1, Done)
        /\ pos = Position
        /\ wire # <<>> => Follows(sent[Done + 1])
    BY DEF CleanInv
  <1>5. /\ sent' \in Seq(FrameType) /\ Len(sent') = Len(sent) + 1
        /\ sent'[Len(sent) + 1] = f
        /\ \A i \in 1..Len(sent) : sent'[i] = sent[i]
    BY <1>1, <1>2, <1>3, AppendProperties
  <1>6. /\ Len(wire') = Len(wire) + 1
        /\ wire'[Len(wire) + 1] = Encode(f)
        /\ \A i \in 1..Len(wire) : wire'[i] = wire[i]
    BY <1>1, <1>3, AppendProperties
  <1>7. /\ Done' = Done /\ Done \in 0..Len(sent) /\ Done + Len(wire) = Len(sent)
        /\ Len(wire) \in Nat /\ Len(sent) \in Nat /\ Done \in Nat
    BY <1>3, <1>4, <1>5, <1>6 DEF Done
  <1>8. Position' = Position
    BY <1>1 DEF rx, Position
  <1>9. \A i \in 1..Len(sent') : Fits(sent'[i])
    <2>1. Fits(f)
      <3>1. Len(sent) + 1 \in DOMAIN sent'
        BY <1>3, <1>5
      <3>2. sent'[Len(sent) + 1].Data # <<>>
        BY <3>1 DEF NonEmpty
      <3> QED BY <3>2, <1>1, <1>2, <1>5 DEF Fits
    <2>2. ASSUME NEW i \in 1..Len(sent') PROVE Fits(sent'[i])
      <3>1. i \in 1..Len(sent) \/ i = Len(sent) + 1
        BY <1>3, <1>5
      <3> QED BY <3>1, <2>1, <1>4, <1>5
    <2> QED BY <2>2
  <1>10. \A i \in 1..Len(wire') : wire'[i] = Encode(sent'[Done' + i])
    <2>1. ASSUME NEW i \in 1..Len(wire') PROVE wire'[i] = Encode(sent'[Done' + i])
      <3>1. CASE i \in 1..Len(wire)
        <4>1. Done + i \in 1..Len(sent)
          BY <3>1, <1>3, <1>7
        <4> QED BY <3>1, <4>1, <1>4, <1>5, <1>6, <1>7
      <3>2. CASE i = Len(wire) + 1
        <4>1. Done + i = Len(sent) + 1
          BY <3>2, <1>7
        <4> QED BY <3>2, <4>1, <1>5, <1>6, <1>7
      <3> QED BY <3>1, <3>2, <1>3, <1>6
    <2> QED BY <2>1
  <1>11. delivered' = SubSeq(sent', 1, Done')
    <2>1. SubSeq(Append(sent, f), 1, Done) = SubSeq(sent, 1, Done)
      BY <1>2, <1>3, <1>7, PrefixOfAppend
    <2> QED BY <2>1, <1>1, <1>4, <1>7 DEF rx
  <1>12. Follows(sent[Done + 1])'
    <2>1. CASE wire = <<>>
      <3>1. Position = 0
        BY <2>1, <1>4 DEF RxInv, LineInv
      <3>2. state \in States /\ Len(frame.Payload) \in Nat
        BY DEF RxInv, Receiver, FrameFields
      <3>3. state = "Sync1"
        BY <3>1, <3>2 DEF Position, States
      <3> QED BY <3>3, <1>1 DEF Follows, rx
    <2>2. CASE wire # <<>>
      <3>1. Done + 1 \in 1..Len(sent)
        <4>1. Len(wire) > 0
          BY <2>2, <1>3
        <4> QED BY <4>1, <1>3, <1>7
      <3>2. sent'[Done' + 1] = sent[Done + 1]
        BY <3>1, <1>5, <1>7
      <3>3. Follows(sent[Done + 1]) /\ state' = state /\ frame' = frame
        BY <2>2, <1>1, <1>4 DEF rx
      <3> QED BY <3>2, <3>3 DEF Follows, Header
    <2> QED BY <2>1, <2>2
  <1>13. Len(wire') <= Len(sent') /\ pos' = Position'
    BY <1>1, <1>3, <1>4, <1>5, <1>6, <1>8
  <1> QED
    BY <1>9, <1>10, <1>11, <1>12, <1>13 DEF CleanInv

LEMMA ReadKeepsClean ==
    ASSUME CRCTyped, RxInv, CleanInv, CleanLine, ReadByte
    PROVE  CleanInv'
  <1>1. /\ wire # <<>> /\ processByte(wire[1][pos + 1]) /\ sent' = sent /\ noise' = noise
        /\ \/ pos + 1 = Len(wire[1]) /\ wire' = Tail(wire) /\ pos' = 0
           \/ pos + 1 < Len(wire[1]) /\ wire' = wire /\ pos' = pos + 1
    BY DEF ReadByte
  <1>2. /\ sent \in Seq(FrameType) /\ wire \in Seq(Seq(Byte) \ {<<>>}) /\ pos \in Nat
        /\ Receiver /\ delivered \in Seq(FrameType)
    BY DEF RxInv, LineInv, Receiver
  <1>3. /\ Len(wire) <= Len(sent)
        /\ \A i \in 1..Len(sent) : Fits(sent[i])
        /\ \A i \in 1..Len(wire) : wire[i] = Encode(sent[Done + i])
        /\ delivered = SubSeq(sent, 1, Done)
        /\ pos = Position
        /\ wire # <<>> => Follows(sent[Done + 1])
    BY DEF CleanInv
  <1>4. /\ Len(wire) \in Nat /\ Len(wire) > 0 /\ Len(sent) \in Nat
        /\ Done \in Nat /\ Done + Len(wire) = Len(sent)
    BY <1>1, <1>2, <1>3 DEF Done
  <1>5. Done + 1 \in 1..Len(sent) /\ 1 \in 1..Len(wire)
    BY <1>4
  <1>l. Len(wire[1]) \in Nat /\ wire[1] \in Seq(Byte)
    BY <1>1, NextByte DEF RxInv
  <1>f. PICK f \in FrameType : f = sent[Done + 1]
    BY <1>2, <1>5
  <1>6. Fits(f) /\ Follows(f) /\ wire[1] = Encode(f)
    BY <1>f, <1>1, <1>3, <1>5
  <1>7. \/ /\ Position + 1 = Len(Encode(f))
           /\ state' = "Sync1"
           /\ delivered' = Append(delivered, f)
        \/ /\ Position + 1 < Len(Encode(f))
           /\ Position' = Position + 1
           /\ Follows(f)'
           /\ delivered' = delivered
    BY <1>1, <1>2, <1>3, <1>6, ReceiverFollows
  <1>8. CASE pos + 1 = Len(wire[1])
    <2>1. wire' = Tail(wire) /\ pos' = 0
      BY <1>1, <1>2, <1>8
    <2>2. state' = "Sync1" /\ delivered' = Append(delivered, f)
      BY <1>2, <1>3, <1>6, <1>7, <1>8
    <2>3. /\ Len(wire') = Len(wire) - 1
          /\ \A i \in 1..Len(wire') : wire'[i] = wire[i + 1]
      BY <2>1, <1>1, <1>2, HeadTailProperties
    <2>4. Done' = Done + 1 /\ Len(wire') <= Len(sent')
      BY <2>3, <1>1, <1>3, <1>4 DEF Done
    <2>5. delivered' = SubSeq(sent', 1, Done')
      BY <2>2, <2>4, <1>f, <1>1, <1>2, <1>3, <1>4, <1>5, PrefixGrows
    <2>6. \A i \in 1..Len(wire') : wire'[i] = Encode(sent'[Done' + i])
      <3>1. ASSUME NEW i \in 1..Len(wire') PROVE wire'[i] = Encode(sent'[Done' + i])
        <4>1. i + 1 \in 1..Len(wire) /\ Done + (i + 1) = Done' + i
          BY <2>3, <2>4, <1>4
        <4> QED BY <4>1, <2>3, <1>1, <1>3
      <3> QED BY <3>1
    <2>7. pos' = Position'
      BY <2>1, <2>2 DEF Position
    <2>8. Follows(sent[Done + 1])'
      BY <2>2 DEF Follows, States
    <2>9. (\A i \in 1..Len(sent) : Fits(sent[i]))'
      BY <1>1, <1>3 DEF Fits
    <2> QED
      BY <2>4, <2>5, <2>6, <2>7, <2>8, <2>9 DEF CleanInv
  <1>9. CASE pos + 1 < Len(wire[1])
    <2>1. wire' = wire /\ pos' = pos + 1 /\ Done' = Done
      <3>1. ~(pos + 1 = Len(wire[1]))
        BY <1>2, <1>l, <1>9
      <3>2. wire' = wire /\ pos' = pos + 1
        BY <3>1, <1>1
      <3> QED BY <3>2, <1>1 DEF Done
    <2>2. /\ Position' = Position + 1 /\ Follows(f)' /\ delivered' = delivered
      BY <1>2, <1>3, <1>6, <1>7, <1>l, <1>9
    <2>3. (\A i \in 1..Len(sent) : Fits(sent[i]))'
      BY <1>1, <1>3 DEF Fits
    <2>4. (\A i \in 1..Len(wire) : wire[i] = Encode(sent[Done + i]))'
      BY <2>1, <1>1, <1>3
    <2>5. delivered' = SubSeq(sent', 1, Done') /\ Len(wire') <= Len(sent') /\ pos' = Position'
      BY <2>1, <2>2, <1>1, <1>3
    <2>6. Follows(sent[Done + 1])'
      <3>1. sent'[Done' + 1] = f
        BY <2>1, <1>f, <1>1
      <3> QED BY <3>1, <2>2 DEF Follows, Header
    <2> QED
      BY <2>3, <2>4, <2>5, <2>6 DEF CleanInv
  <1> QED
    BY <1>1, <1>l, <1>8, <1>9

LEMMA CleanInvNext ==
    ASSUME CRCTyped, RxInv, CleanInv, [Next]_vars
    PROVE  CleanInv'
  <1> SUFFICES ASSUME CleanLine' PROVE CleanInv'
    BY DEF CleanInv
  <1>1. noise' = 0 /\ NonEmpty(sent') /\ noise \in Nat /\ sent \in Seq(FrameType)
    BY BoundAssumption DEF CleanLine, NonEmpty, RxInv, LineInv
  <1>2. ASSUME NEW id \in FrameIDs, NEW data \in Payloads, WriteWithFrameID(id, data)
        PROVE  CleanInv'
    <2> DEFINE f == [ID |-> id, Data |-> data]
    <2>1. sent' = Append(sent, f) /\ noise' = noise /\ f \in FrameType
      BY <1>2, PeerAssumption DEF WriteWithFrameID, FrameType
    <2> HIDE DEF f
    <2>2. NonEmpty(sent)
      <3>1. ASSUME NEW i \in DOMAIN sent PROVE sent[i].Data # <<>>
        <4>1. i \in 1..Len(sent) /\ i \in DOMAIN sent' /\ sent'[i] = sent[i]
          BY <2>1, <3>1, <1>1, AppendProperties
        <4> QED BY <4>1, <1>1 DEF NonEmpty
      <3> QED BY <3>1 DEF NonEmpty
    <2>3. CleanLine
      BY <2>1, <2>2, <1>1 DEF CleanLine
    <2> QED BY <2>3, <1>1, <1>2, WriteKeepsClean
  <1>3. CASE ReadByte
    <2>1. CleanLine
      BY <1>3, <1>1 DEF ReadByte, CleanLine, NonEmpty
    <2> QED BY <2>1, <1>3, ReadKeepsClean
  <1>4. CASE Disturb
    BY <1>1, <1>4 DEF Disturb
  <1>5. CASE UNCHANGED vars
    BY <1>1, <1>5 DEF vars, rx, line, CleanInv, CleanLine, NonEmpty, Done, Position,
      Follows, Fits, Header
  <1> QED
    BY <1>2, <1>3, <1>4, <1>5 DEF Next

\* On an undisturbed line every frame with a payload comes out intact, in
\* order and as soon as its last byte is read, whatever bytes it holds and
\* whatever the checksum.
THEOREM UsockCleanDelivery == ASSUME CRCTyped PROVE Spec => []CleanDelivery
  <1>1. Init => RxInv /\ CleanInv
    BY RxInvInit, CleanInvInit
  <1>2. RxInv /\ CleanInv /\ [Next]_vars => RxInv' /\ CleanInv'
    BY RxInvNext, CleanInvNext
  <1>3. CleanInv => CleanDelivery
    BY DEF CleanInv, CleanDelivery, Done
  <1> QED BY <1>1, <1>2, <1>3, PTL DEF Spec

-----------------------------------------------------------------------------
(* Progress through a frame.                                               *)

LEMMA ByteAdvances ==
    ASSUME Receiver, NEW b \in Byte, processByte(b)
    PROVE  state' = "Sync1" \/ Position' = Position + 1
  <1>t. frame \in FrameFields
    BY DEF Receiver
  <1>1. CASE Payload(b)
    <2>1. /\ state = "Payload" /\ state' \in {"Payload", "PayloadCRC1"}
          /\ frame'.Payload = Append(frame.Payload, b)
      BY <1>1, <1>t DEF Payload, FrameFields
    <2>2. /\ Len(frame.Payload) \in Nat
          /\ Len(frame'.Payload) = Len(frame.Payload) + 1
      BY <2>1, <1>t, AppendByte DEF FrameFields
    <2> QED BY <2>1, <2>2 DEF Position
  <1>2. CASE HeaderCRC2(b)
    <2>1. \/ state' = "Sync1"
          \/ state = "HeaderCRC2" /\ state' = "Payload" /\ frame'.Payload = <<>>
      BY <1>2, <1>t DEF HeaderCRC2, FrameFields
    <2>2. Len(<<>>) = 0
      OBVIOUS
    <2> QED BY <2>1, <2>2 DEF Position
  <1>3. CASE PayloadCRC1(b)
    <2>1. /\ state = "PayloadCRC1" /\ state' = "PayloadCRC2"
          /\ frame'.Payload = frame.Payload /\ Len(frame.Payload) \in Nat
      BY <1>3, <1>t DEF PayloadCRC1, FrameFields
    <2> QED BY <2>1 DEF Position
  <1>4. CASE Sync1(b) \/ Sync2(b) \/ FrameID(b) \/ PayloadLen1(b)
    BY <1>4 DEF Sync1, Sync2, FrameID, PayloadLen1, Position
  <1>5. CASE PayloadLen2(b) \/ HeaderCRC1(b) \/ PayloadCRC2(b)
    BY <1>5 DEF PayloadLen2, HeaderCRC1, PayloadCRC2, Position
  <1> QED
    BY <1>1, <1>2, <1>3, <1>4, <1>5 DEF processByte

\* No byte leaves the receiver where it was inside a frame.
THEOREM UsockAdvances == ASSUME CRCTyped PROVE Spec => EveryByteAdvances
  <1>1. Init => RxInv
    BY RxInvInit
  <1>2. RxInv /\ [Next]_vars => RxInv'
    BY RxInvNext
  <1>3. RxInv /\ [Next]_vars => [state' = "Sync1" \/ Position' = Position + 1]_rx
    <2> SUFFICES ASSUME RxInv, [Next]_vars, rx' # rx
                 PROVE  state' = "Sync1" \/ Position' = Position + 1
      OBVIOUS
    <2>1. ReadByte
      BY DEF Next, vars, WriteWithFrameID, Disturb, rx
    <2> QED BY <2>1, NextByte, ByteAdvances DEF ReadByte, RxInv
  <1> QED BY <1>1, <1>2, <1>3, PTL DEF Spec, EveryByteAdvances

-----------------------------------------------------------------------------
(* A frame that reaches a hunting receiver.                                *)

\* The frame next on the line has so far been f, and f has been in step with
\* the receiver since its first byte.
InStep(f) ==
    /\ Fits(f) /\ wire # <<>> /\ pos = Position
    /\ \A i \in 1..pos : wire[1][i] = Encode(f)[i]

Whole == \A f \in FrameType : InStep(f) => Follows(f)

LEMMA HuntingFollows ==
    ASSUME NEW f, state = "Sync1"
    PROVE  Follows(f)
  BY DEF Follows, States

LEMMA WholeInit == Init => Whole
  BY HuntingFollows DEF Init, Whole

LEMMA WholeNext ==
    ASSUME CRCTyped, RxInv, RxInv', Whole, [Next]_vars
    PROVE  Whole'
  <1> SUFFICES ASSUME NEW f \in FrameType, InStep(f)'
               PROVE  Follows(f)'
    BY DEF Whole
  <1>i. /\ Fits(f) /\ wire' # <<>> /\ pos' = Position'
        /\ \A i \in 1..pos' : wire'[1][i] = Encode(f)[i]
    BY DEF InStep, Fits, Encode, Header, Checksum
  <1>t. /\ wire \in Seq(Seq(Byte) \ {<<>>}) /\ pos \in Nat
        /\ Receiver /\ Receiver' /\ LineInv
    BY DEF RxInv, LineInv
  <1>h. state' = "Sync1" => Follows(f)'
    BY DEF Follows, States
  <1>0. pos' = 0 => Follows(f)'
    <2>1. Position' = 0 => state' = "Sync1"
      <3>1. state' \in States /\ Len(frame'.Payload) \in Nat
        BY <1>t DEF Receiver, FrameFields
      <3> QED BY <3>1 DEF Position, States
    <2> QED BY <2>1, <1>i, <1>h
  <1>k. ASSUME UNCHANGED <<rx, pos>>, wire # <<>>,
               \A i \in 1..pos : wire'[1][i] = wire[1][i]
        PROVE  Follows(f)'
    <2>1. Position' = Position
      BY <1>k DEF rx, Position
    <2>2. InStep(f)
      BY <2>1, <1>i, <1>k DEF InStep
    <2> QED BY <2>2, <1>k DEF Whole, rx, Follows, Header
  <1>1. ASSUME NEW id \in FrameIDs, NEW data \in Payloads, WriteWithFrameID(id, data)
        PROVE  Follows(f)'
    <2>1. UNCHANGED <<rx, pos>> /\ \E e : wire' = Append(wire, e)
      BY <1>1 DEF WriteWithFrameID
    <2>2. CASE wire = <<>>
      BY <2>1, <2>2, <1>0, <1>t DEF LineInv
    <2>3. CASE wire # <<>>
      <3>1. wire'[1] = wire[1]
        BY <2>1, <2>3, <1>t
      <3> QED BY <3>1, <2>1, <2>3, <1>k
    <2> QED BY <2>2, <2>3
  <1>2. CASE ReadByte
    <2>1. CASE wire' = Tail(wire) /\ pos' = 0
      BY <2>1, <1>0
    <2>2. CASE wire' = wire /\ pos' = pos + 1
      <3>1. wire # <<>> /\ processByte(wire[1][pos + 1]) /\ wire[1][pos + 1] \in Byte
        BY <1>2, <1>t, NextByte DEF ReadByte
      <3>2. CASE Position' = Position + 1 /\ state' # "Sync1"
        <4>1. Position \in Nat
          <5>1. state \in States /\ Len(frame.Payload) \in Nat
            BY <1>t DEF Receiver, FrameFields
          <5> QED BY <5>1 DEF Position, States
        <4>2. Position = pos
          BY <4>1, <3>2, <2>2, <1>i, <1>t
        <4>3. InStep(f) /\ wire[1][pos + 1] = Encode(f)[pos + 1]
          BY <4>2, <3>1, <2>2, <1>i, <1>t DEF InStep
        <4>4. Follows(f) /\ processByte(Encode(f)[Position + 1])
          BY <4>2, <4>3, <3>1 DEF Whole
        <4> QED BY <4>4, <3>2, <1>i, <1>t, ReceiverFollows
      <3> QED BY <3>1, <3>2, <1>h, <1>t, ByteAdvances
    <2> QED BY <2>1, <2>2, <1>2 DEF ReadByte
  <1>3. CASE Disturb
    <2>1. UNCHANGED <<rx, pos>>
      BY <1>3 DEF Disturb
    <2>2. PICK k \in 1..Len(wire) :
            \E w \in Disturbed(wire[k], IF k = 1 THEN pos ELSE 0) :
               wire' = [wire EXCEPT ![k] = w]
      BY <1>3 DEF Disturb
    <2>3. PICK w \in Disturbed(wire[k], IF k = 1 THEN pos ELSE 0) :
            wire' = [wire EXCEPT ![k] = w]
      BY <2>2
    <2>4. wire # <<>> /\ wire[k] \in Seq(Byte) /\ 1 \in 1..Len(wire)
      BY <1>t
    <2>5. wire'[1] = IF k = 1 THEN w ELSE wire[1]
      BY <2>3, <2>4, <1>t
    <2>6. \A i \in 1..pos : wire'[1][i] = wire[1][i]
      BY <2>4, <2>5, <1>t, DisturbedKeepsRead
    <2> QED BY <2>1, <2>4, <2>6, <1>k
  <1>4. CASE UNCHANGED vars
    BY <1>4, <1>i, <1>k DEF vars, line
  <1> QED
    BY <1>1, <1>2, <1>3, <1>4 DEF Next

\* Whatever the line has done before, a frame that meets a hunting receiver
\* and is not disturbed itself comes out with its last byte.
THEOREM UsockArrivesWhole == ASSUME CRCTyped PROVE Spec => ArrivesWhole
  <1> DEFINE Step == \A f \in Frames :
                       Arriving(f) /\ noise' = noise =>
                          \/ Arriving(f)'
                          \/ wire' = Tail(wire) /\ delivered' = Append(delivered, f)
  <1>1. Init => RxInv /\ Whole
    BY RxInvInit, WholeInit
  <1>2. RxInv /\ Whole /\ [Next]_vars => RxInv' /\ Whole'
    BY RxInvNext, WholeNext
  <1>3. RxInv /\ Whole /\ [Next]_vars => [Step]_vars
    <2> SUFFICES ASSUME RxInv, Whole, Next,
                        NEW f \in Frames, Arriving(f), noise' = noise
                 PROVE  \/ Arriving(f)'
                        \/ wire' = Tail(wire) /\ delivered' = Append(delivered, f)
      BY DEF Step
    <2>1. f \in FrameType
      BY PeerAssumption DEF Frames, FrameType
    <2>2. Fits(f) /\ wire # <<>> /\ wire[1] = Encode(f) /\ pos = Position
      BY DEF Arriving, Encodings
    <2>3. Follows(f)
      BY <2>1, <2>2 DEF Whole, InStep
    <2>t. /\ wire \in Seq(Seq(Byte) \ {<<>>}) /\ pos \in Nat /\ noise \in Nat
          /\ Receiver /\ wire[1] \in Seq(Byte)
      BY <2>2, NextByte, BoundAssumption DEF RxInv, LineInv
    <2>4. ASSUME NEW id \in FrameIDs, NEW data \in Payloads, WriteWithFrameID(id, data)
          PROVE  Arriving(f)'
      <3>1. UNCHANGED <<rx, pos>> /\ \E e : wire' = Append(wire, e)
        BY <2>4 DEF WriteWithFrameID
      <3>2. wire'[1] = wire[1] /\ wire' # <<>>
        BY <3>1, <2>2, <2>t
      <3>3. Position' = Position
        BY <3>1 DEF rx, Position
      <3> QED BY <3>1, <3>2, <3>3 DEF Arriving, Encodings, Encode, Header, Checksum, Fits
    <2>5. CASE ReadByte
      <3>1. \/ /\ pos + 1 = Len(Encode(f))
               /\ delivered' = Append(delivered, f)
            \/ pos + 1 < Len(Encode(f)) /\ Position' = Position + 1
        BY <2>1, <2>2, <2>3, <2>5, <2>t, ReceiverFollows DEF ReadByte
      <3>2. \/ pos + 1 = Len(Encode(f)) /\ wire' = Tail(wire)
            \/ pos + 1 < Len(Encode(f)) /\ pos' = pos + 1 /\ wire' = wire
        BY <2>2, <2>5 DEF ReadByte
      <3>3. Len(Encode(f)) \in Nat
        BY <2>2, <2>t
      <3>4. CASE pos + 1 = Len(Encode(f))
        BY <3>1, <3>2, <3>3, <3>4, <2>t
      <3>5. CASE pos + 1 < Len(Encode(f))
        <4>1. Position' = Position + 1 /\ pos' = pos + 1 /\ wire' = wire
          BY <3>1, <3>2, <3>3, <3>5, <2>t
        <4> QED BY <4>1, <2>2 DEF Arriving, Encodings, Encode, Header, Checksum, Fits
      <3> QED BY <3>1, <3>4, <3>5
    <2>6. ~Disturb
      BY <2>t DEF Disturb
    <2> QED BY <2>4, <2>5, <2>6 DEF Next
  <1> QED BY <1>1, <1>2, <1>3, PTL DEF Spec, ArrivesWhole

-----------------------------------------------------------------------------
(* The framing implements the channel while the line is clean.             *)

LEMMA SuffixGrows ==
    ASSUME NEW S, NEW s \in Seq(S), NEW e \in S, NEW n \in 0..Len(s)
    PROVE  SubSeq(Append(s, e), n + 1, Len(s) + 1) = Append(SubSeq(s, n + 1, Len(s)), e)
  <1>1. /\ Append(s, e) \in Seq(S) /\ Len(Append(s, e)) = Len(s) + 1
        /\ \A i \in 1..Len(s) : Append(s, e)[i] = s[i]
        /\ Append(s, e)[Len(s) + 1] = e
    BY AppendProperties
  <1> DEFINE t == Append(s, e)
             u == SubSeq(s, n + 1, Len(s))
  <1>2. /\ u \in Seq(S) /\ Len(u) = Len(s) - n
        /\ \A i \in 1..(Len(s) - n) : u[i] = s[n + i]
    <2>1. \A i \in (n + 1)..Len(s) : s[i] \in S
      OBVIOUS
    <2> QED BY <2>1, SubSeqProperties
  <1> HIDE DEF t, u
  <1>3. /\ SubSeq(t, n + 1, Len(s) + 1) \in Seq(S)
        /\ Len(SubSeq(t, n + 1, Len(s) + 1)) = Len(s) - n + 1
        /\ \A i \in 1..(Len(s) - n + 1) : SubSeq(t, n + 1, Len(s) + 1)[i] = t[n + i]
    <2>1. t \in Seq(S) /\ Len(t) = Len(s) + 1
      BY <1>1 DEF t
    <2>2. \A i \in (n + 1)..(Len(s) + 1) : t[i] \in S
      BY <2>1
    <2> QED BY <2>2, SubSeqProperties
  <1>4. /\ Append(u, e) \in Seq(S) /\ Len(Append(u, e)) = Len(s) - n + 1
        /\ \A i \in 1..(Len(s) - n) : Append(u, e)[i] = u[i]
        /\ Append(u, e)[Len(s) - n + 1] = e
    BY <1>2, AppendProperties
  <1>5. ASSUME NEW i \in 1..(Len(s) - n + 1)
        PROVE  SubSeq(t, n + 1, Len(s) + 1)[i] = Append(u, e)[i]
    <2>1. CASE i \in 1..(Len(s) - n)
      <3>1. n + i \in 1..Len(s)
        BY <2>1
      <3>2. t[n + i] = s[n + i]
        BY <3>1, <1>1 DEF t
      <3> QED BY <2>1, <3>2, <1>2, <1>3, <1>4
    <2>2. CASE i = Len(s) - n + 1
      <3>1. t[n + i] = e
        BY <2>2, <1>1 DEF t
      <3> QED BY <2>2, <3>1, <1>3, <1>4
    <2>3. i \in 1..(Len(s) - n) \/ i = Len(s) - n + 1
      <3>1. Len(s) \in Nat /\ i \in Nat
        OBVIOUS
      <3> QED BY <3>1
    <2> QED BY <2>1, <2>2, <2>3
  <1> QED BY <1>3, <1>4, <1>5, SeqEqual DEF t, u

\* A step of the line and the receiver is a frame accepted, the oldest frame
\* handed over, or no step of the channel.
LEMMA CleanStep ==
    ASSUME CRCTyped, RxInv, CleanInv, CleanLine, CleanLine', [Next]_vars
    PROVE  [Channel!Next]_<<SubSeq(sent, Len(sent) - Len(wire) + 1, Len(sent)), delivered>>
  <1>1. /\ sent \in Seq(FrameType) /\ wire \in Seq(Seq(Byte) \ {<<>>})
        /\ Len(wire) <= Len(sent) /\ delivered = SubSeq(sent, 1, Done)
        /\ noise = 0 /\ noise' = 0 /\ Len(wire) \in Nat /\ Len(sent) \in Nat
    BY DEF RxInv, LineInv, CleanInv, CleanLine
  <1>2. /\ Done \in 0..Len(sent) /\ Len(sent) - Done = Len(wire)
        /\ Len(sent) - Len(wire) + 1 = Done + 1
    BY <1>1 DEF Done
  <1>3. Len(wire') <= Len(sent') /\ delivered' = SubSeq(sent', 1, Done')
    BY CleanInvNext DEF CleanInv
  <1>4. ASSUME NEW id \in FrameIDs, NEW data \in Payloads, WriteWithFrameID(id, data)
        PROVE  \E f \in [ID : FrameIDs, Data : Payloads] : Channel!Accept(f)
    <2>1. PICK f : f = [ID |-> id, Data |-> data]
      OBVIOUS
    <2>2. f \in [ID : FrameIDs, Data : Payloads] /\ f \in FrameType
      BY <2>1, PeerAssumption DEF FrameType
    <2>3. /\ sent' = Append(sent, f) /\ wire' = Append(wire, Encode(f))
          /\ delivered' = delivered
      BY <2>1, <1>4 DEF WriteWithFrameID, rx
    <2>4. Len(sent') = Len(sent) + 1 /\ Len(wire') = Len(wire) + 1
      BY <2>3, <1>1
    <2>5. Len(sent') - Len(wire') + 1 = Done + 1
      BY <2>4, <1>1, <1>2
    <2>6. SubSeq(sent', Done + 1, Len(sent') )
            = Append(SubSeq(sent, Done + 1, Len(sent)), f)
      BY <2>2, <2>3, <2>4, <1>1, <1>2, SuffixGrows
    <2>7. Channel!Accept(f)
      BY <2>3, <2>5, <2>6, <1>2 DEF Channel!Accept
    <2> QED BY <2>2, <2>7
  <1>5. CASE ReadByte /\ wire' = wire
    <2>1. sent' = sent /\ Done' = Done
      BY <1>5 DEF ReadByte, Done
    <2>2. delivered' = delivered
      BY <2>1, <1>1, <1>3
    <2> QED BY <2>1, <2>2, <1>5
  <1>6. CASE ReadByte /\ wire # <<>> /\ wire' = Tail(wire)
    <2>1. sent' = sent /\ Len(wire') = Len(wire) - 1 /\ Len(wire) > 0
      BY <1>1, <1>6, HeadTailProperties DEF ReadByte
    <2>2. Done + 1 \in 1..Len(sent) /\ Done' = Done + 1
      BY <2>1, <1>1, <1>2 DEF Done
    <2>3. delivered' = Append(delivered, sent[Done + 1])
      BY <2>1, <2>2, <1>1, <1>2, <1>3, PrefixGrows
    <2>4. PICK q : q = SubSeq(sent, Done + 1, Len(sent))
      OBVIOUS
    <2>5. Head(q) = sent[Done + 1] /\ Tail(q) = SubSeq(sent, Done + 2, Len(sent))
      <3>1. Len(sent) \in (Done + 1)..Len(sent) /\ (Done + 1) + 1 = Done + 2
        BY <2>2, <1>1, <1>2
      <3>2. Tail(q) = SubSeq(sent, (Done + 1) + 1, Len(sent)) /\ Head(q) = sent[Done + 1]
        BY <3>1, <2>2, <2>4, <1>1, HeadTailOfSubSeq
      <3> QED BY <3>1, <3>2
    <2>6. q # <<>>
      <3>1. \A i \in (Done + 1)..Len(sent) : sent[i] \in FrameType
        BY <1>1, <1>2
      <3>2. Len(q) = Len(sent) - Done
        BY <3>1, <2>2, <2>4, <1>1, <1>2, SubSeqProperties
      <3> QED BY <3>2, <2>1, <1>2
    <2>7. Len(sent') - Len(wire') + 1 = Done + 2
      <3>1. Len(wire') = Len(wire) - 1 /\ Len(sent') = Len(sent)
        BY <2>1
      <3>2. Len(wire) \in Nat /\ Len(sent) \in Nat /\ Done = Len(sent) - Len(wire)
        BY <1>1 DEF Done
      <3> QED BY <3>1, <3>2
    <2>8. Channel!HandOver
      BY <2>1, <2>3, <2>4, <2>5, <2>6, <2>7, <1>2 DEF Channel!HandOver
    <2> QED BY <2>8 DEF Channel!Next
  <1>7. CASE UNCHANGED vars
    BY <1>7 DEF vars, rx, line
  <1>8. ~Disturb
    <2>1. Disturb => noise' = noise + 1
      BY DEF Disturb
    <2>2. noise' # noise + 1
      BY DEF CleanLine
    <2> QED BY <2>1, <2>2
  <1>9. ReadByte => \/ wire' = wire
                    \/ wire # <<>> /\ wire' = Tail(wire)
    BY DEF ReadByte
  <1> QED
    BY <1>4, <1>5, <1>6, <1>7, <1>8, <1>9 DEF Next, Channel!Next, Frames

\* While the line is undisturbed and every frame has a payload, the sender,
\* the UART and readLoop together are the channel FrameChannel specifies:
\* WriteWithFrameID accepts a frame, the last byte of a frame hands over the
\* oldest one accepted, and no other step shows.
THEOREM UsockCleanChannel ==
    ASSUME CRCTyped PROVE Spec /\ []CleanLine => ImplementsChannel
  <1>1. Init => RxInv /\ CleanInv
    BY RxInvInit, CleanInvInit
  <1>2. RxInv /\ CleanInv /\ [Next]_vars => RxInv' /\ CleanInv'
    BY RxInvNext, CleanInvNext
  <1>3. Init => Channel!Init
    <2>1. Init => Len(sent) - Len(wire) + 1 = 1 /\ Len(sent) = 0 /\ delivered = <<>>
      BY DEF Init
    <2>2. SubSeq(sent, 1, 0) = <<>>
      BY SubSeqEmpty
    <2> QED BY <2>1, <2>2 DEF Channel!Init
  <1>4. RxInv /\ CleanInv /\ CleanLine /\ CleanLine' /\ [Next]_vars
          => [Channel!Next]_<<SubSeq(sent, Len(sent) - Len(wire) + 1, Len(sent)), delivered>>
    BY CleanStep
  <1> QED
    BY <1>1, <1>2, <1>3, <1>4, PTL DEF Spec, ImplementsChannel, Channel!Spec

-----------------------------------------------------------------------------
(* What a disturbance costs.                                               *)

\* A frame on the line the receiver cannot get whole: disturbed, or empty.
Faulty(i)    == wire[i - Done] # Encode(sent[i]) \/ Empty(sent[i])
FaultyFrames == {i \in (Done + 1)..Len(sent) : Faulty(i)}

\* Faults whose frames have gone by, and what each may cost.
Slack == Faults - Cardinality(FaultyFrames)

\* The line never holds more frames than were sent, none of them too long.
Counted ==
    /\ Len(wire) <= Len(sent)
    /\ \A i \in DOMAIN sent : Len(sent[i].Data) <= MaxPayloadLength

\* The frames lost so far, and d more, are paid for by the faults gone by.
\* Unless a faulty frame is being read, d covers what the receiver may still
\* swallow: it is ahead of the line, in a frame that began before this one,
\* and every frame it swallows whole has at least ShortestFrame bytes; or it
\* is behind, hunting in a frame whose beginning it swallowed.
Affords(d) ==
    /\ Done - Len(delivered) + d <= Cost * Slack
    /\ pos = 0 \/ ~Faulty(Done + 1) =>
         /\ Position > pos =>
              ShortestFrame * d > MaxPayloadLength + 8 - Position + pos
         /\ Position < pos => d >= 1

\* After the first byte of a frame, only a sync byte takes the receiver out of
\* hunting: without one it hunts, or is at least as far as the line.
Quiet ==
    wire # <<>> /\ (\A i \in 2..pos : wire[1][i] # SyncByte1) =>
        state = "Sync1" \/ Position >= pos

LossInv == /\ Counted
           /\ Quiet
           /\ SyncFree(sent) => \E d \in Nat : Affords(d)

LEMMA CostCovers ==
    /\ MaxPayloadLength \in Nat
    /\ Cost \in Nat
    /\ ShortestFrame * (Cost - 1) > MaxPayloadLength + 7
  <1>1. MaxPayloadLength \in Nat
    BY LengthAssumption DEF Word
  <1>2. PICK q \in Nat : q = (MaxPayloadLength + 7) \div 10
    BY <1>1
  <1>3. 10 * q + 10 > MaxPayloadLength + 7
    BY <1>1, <1>2
  <1>4. Cost = 2 + q
    BY <1>2 DEF Cost, ShortestFrame
  <1> QED BY <1>1, <1>3, <1>4 DEF ShortestFrame

LEMMA CostGrows ==
    ASSUME NEW a \in Int, NEW k \in Nat
    PROVE  /\ Cost * a \in Int
           /\ Cost * (a + 1) = Cost * a + Cost
           /\ Cost * a <= Cost * (a + k)
  <1>1. Cost \in Nat
    BY CostCovers
  <1> SUFFICES ASSUME NEW c \in Nat
               PROVE  c * a \in Int /\ c * (a + 1) = c * a + c /\ c * a <= c * (a + k)
    BY <1>1
  <1>2. c * a \in Int /\ c * k \in Nat
    OBVIOUS
  <1>3. c * (a + 1) = c * a + c
    OBVIOUS
  <1>4. c * (a + k) = c * a + c * k
    OBVIOUS
  <1> QED BY <1>2, <1>3, <1>4

\* The receiver's place in a frame, and the frames it handed over.
Bounds == Position \in Nat /\ Position <= MaxPayloadLength + 8 /\ Len(delivered) \in Nat

LEMMA PositionSized == RxInv => Bounds
  <1> SUFFICES ASSUME RxInv
               PROVE  Position \in Nat /\ Position <= MaxPayloadLength + 8
    BY DEF RxInv, Receiver, Bounds
  <1>1. /\ state \in States /\ Len(frame.Payload) \in Nat /\ MaxPayloadLength \in Nat
        /\ state \in {"Payload", "PayloadCRC1", "PayloadCRC2"} =>
             Len(frame.Payload) <= MaxPayloadLength
    BY LengthAssumption DEF RxInv, Receiver, FrameFields, Lengths, Word
  <1> QED BY <1>1 DEF Position, States

LEMMA PositionSizedNext == RxInv' => Bounds'
  BY PositionSized, PTL

\* What is counted, and its type.
Sizes == /\ Bounds /\ Len(wire) \in Nat
         /\ Done \in Nat /\ Done + Len(wire) = Len(sent)
         /\ IsFiniteSet({i \in DOMAIN sent : Empty(sent[i])})
         /\ IsFiniteSet(FaultyFrames)
         /\ Faults \in Nat /\ Cardinality(FaultyFrames) \in Nat /\ Slack \in Int

LEMMA Sized == RxInv /\ Counted => Sizes
  <1> SUFFICES ASSUME RxInv, Counted PROVE Sizes
    OBVIOUS
  <1>1. sent \in Seq(FrameType) /\ wire \in Seq(Seq(Byte) \ {<<>>}) /\ noise \in Nat
    BY BoundAssumption DEF RxInv, LineInv
  <1>2. /\ Len(wire) \in Nat /\ Len(sent) \in Nat
        /\ Done \in Nat /\ Done + Len(wire) = Len(sent)
    BY <1>1 DEF Done, Counted
  <1>3. IsFiniteSet({i \in DOMAIN sent : Empty(sent[i])})
    <2>1. {i \in DOMAIN sent : Empty(sent[i])} \in SUBSET (1..Len(sent))
      BY <1>1
    <2>2. IsFiniteSet(1..Len(sent))
      BY <1>2, FS_Interval
    <2> QED BY <2>1, <2>2, FS_Subset
  <1>4. IsFiniteSet(FaultyFrames)
    <2>1. FaultyFrames \in SUBSET ((Done + 1)..Len(sent))
      BY DEF FaultyFrames
    <2>2. IsFiniteSet((Done + 1)..Len(sent))
      BY <1>2, FS_Interval
    <2> QED BY <2>1, <2>2, FS_Subset
  <1>5. Faults \in Nat
    <2>1. Cardinality({i \in DOMAIN sent : Empty(sent[i])}) \in Nat
      BY <1>3, FS_CardinalityType
    <2> QED BY <2>1, <1>1 DEF Faults
  <1>6. Cardinality(FaultyFrames) \in Nat
    BY <1>4, FS_CardinalityType
  <1> QED BY <1>2, <1>3, <1>4, <1>5, <1>6, PositionSized DEF Sizes, Slack

LEMMA SizedNext == RxInv' /\ Counted' => Sizes'
  BY Sized, PTL

LEMMA LossInit == Init => LossInv
  <1> SUFFICES ASSUME Init PROVE LossInv
    OBVIOUS
  <1>1. RxInv
    BY RxInvInit
  <1>2. Counted /\ Quiet
    BY DEF Init, Counted, Quiet
  <1>4. Slack = 0
    <2>1. {i \in DOMAIN sent : Empty(sent[i])} = {} /\ FaultyFrames = {}
      BY DEF Init, FaultyFrames, Done
    <2> QED BY <2>1, FS_EmptySet DEF Init, Slack, Faults
  <1>5. Done - Len(delivered) + 0 <= Cost * Slack
    BY <1>4, CostCovers DEF Init, Done
  <1>6. Affords(0)
    BY <1>5 DEF Affords, Position, Init
  <1> QED BY <1>2, <1>6 DEF LossInv

\* WriteWithFrameID: an empty frame is a fault, and not yet gone by.
LEMMA WriteKeepsSlack ==
    ASSUME CRCTyped, RxInv, Counted, NEW id \in FrameIDs, NEW data \in Payloads,
           WriteWithFrameID(id, data)
    PROVE  /\ Counted' /\ Done' = Done /\ Slack' = Slack
           /\ wire # <<>> =>
                 wire' # <<>> /\ wire'[1] = wire[1] /\ (Faulty(Done + 1)' <=> Faulty(Done + 1))
  <1>1. PICK f : f = [ID |-> id, Data |-> data]
    OBVIOUS
  <1>2. /\ f \in FrameType /\ Len(f.Data) <= MaxPayloadLength
        /\ sent' = Append(sent, f) /\ wire' = Append(wire, Encode(f)) /\ noise' = noise
    BY <1>1, PeerAssumption DEF WriteWithFrameID, FrameType
  <1>3. Len(f.Data) \in Word
    BY <1>2, LengthAssumption DEF FrameType, Word
  <1>4. Encode(f) \in Seq(Byte) \ {<<>>}
    <2>1. Encode(f) \in Seq(Byte) /\ Len(Encode(f)) = Len(f.Data) + 9 /\ Len(f.Data) \in Nat
      BY <1>2, <1>3, EncodeLayout DEF Word
    <2> QED BY <2>1
  <1>t. /\ sent \in Seq(FrameType) /\ wire \in Seq(Seq(Byte) \ {<<>>}) /\ noise \in Nat
    BY BoundAssumption DEF RxInv, LineInv
  <1>s. Sizes
    BY Sized
  <1>5. /\ sent' \in Seq(FrameType) /\ Len(sent') = Len(sent) + 1 /\ sent'[Len(sent) + 1] = f
        /\ \A i \in 1..Len(sent) : sent'[i] = sent[i]
    BY <1>2, <1>t, AppendProperties
  <1>6. /\ Len(wire') = Len(wire) + 1 /\ wire'[Len(wire) + 1] = Encode(f)
        /\ \A i \in 1..Len(wire) : wire'[i] = wire[i]
    BY <1>2, <1>4, <1>t, AppendProperties
  <1>n. /\ Len(wire) \in Nat /\ Len(sent) \in Nat /\ Done \in Nat /\ Done + Len(wire) = Len(sent)
    BY <1>s, <1>t DEF Sizes
  <1>7. Done' = Done
    BY <1>5, <1>6, <1>n DEF Done
  <1>8. Counted'
    <2>1. Len(wire') <= Len(sent')
      BY <1>5, <1>6, <1>n
    <2>2. ASSUME NEW i \in DOMAIN sent' PROVE Len(sent'[i].Data) <= MaxPayloadLength
      <3>1. i \in 1..Len(sent) \/ i = Len(sent) + 1
        BY <2>2, <1>5, <1>n
      <3> QED BY <3>1, <1>2, <1>5, <1>t DEF Counted
    <2> QED BY <2>1, <2>2 DEF Counted
  <1>9. ASSUME NEW i \in (Done + 1)..Len(sent)
        PROVE  Faulty(i)' <=> Faulty(i)
    <2>1. i \in 1..Len(sent) /\ i - Done \in 1..Len(wire)
      BY <1>9, <1>n
    <2>2. sent'[i] = sent[i] /\ wire'[i - Done'] = wire[i - Done]
      BY <2>1, <1>5, <1>6, <1>7
    <2> QED BY <2>2 DEF Faulty, Empty, Encode, Header, Checksum
  <1>l. PICK l \in Nat : l = Len(sent) + 1
    BY <1>n
  <1>10. Faulty(l)' <=> Empty(f)
    <2>1. l - Done = Len(wire) + 1
      BY <1>l, <1>n
    <2>2. wire'[l - Done'] = Encode(f) /\ sent'[l] = f
      BY <2>1, <1>l, <1>5, <1>6, <1>7
    <2> QED BY <2>2 DEF Faulty, Empty
  <1>11. PICK E : E = {i \in DOMAIN sent : Empty(sent[i])}
    OBVIOUS
  <1>12. PICK F : F = FaultyFrames
    OBVIOUS
  <1>13. /\ IsFiniteSet(E) /\ IsFiniteSet(F)
         /\ l \notin E /\ l \notin F
         /\ Cardinality(E) \in Nat /\ Cardinality(F) \in Nat
    <2>1. IsFiniteSet(E) /\ IsFiniteSet(F)
      BY <1>11, <1>12, <1>s DEF Sizes
    <2>2. l \notin E /\ l \notin F
      BY <1>l, <1>11, <1>12, <1>n, <1>t DEF FaultyFrames
    <2> QED BY <2>1, <2>2, FS_CardinalityType
  <1>14. {i \in DOMAIN sent' : Empty(sent'[i])}
            = IF Empty(f) THEN E \cup {l} ELSE E
    <2>1. /\ DOMAIN sent' = 1..Len(sent) \cup {l}
          /\ DOMAIN sent = 1..Len(sent)
      BY <1>l, <1>5, <1>n, <1>t
    <2> QED BY <2>1, <1>l, <1>5, <1>11 DEF Empty
  <1>15. FaultyFrames' = IF Empty(f) THEN F \cup {l} ELSE F
    <2>1. (Done' + 1)..Len(sent') = (Done + 1)..Len(sent) \cup {l}
      BY <1>l, <1>5, <1>7, <1>n
    <2>2. FaultyFrames' = {i \in (Done + 1)..Len(sent) \cup {l} : Faulty(i)'}
      BY <2>1 DEF FaultyFrames
    <2>3. \A i \in (Done + 1)..Len(sent) : Faulty(i)' <=> Faulty(i)
      BY <1>9
    <2>4. F = {i \in (Done + 1)..Len(sent) : Faulty(i)}
      BY <1>12 DEF FaultyFrames
    <2> QED BY <2>2, <2>3, <2>4, <1>10
  <1>16. Slack' = Slack
    <2>1. Faults' = noise + Cardinality({i \in DOMAIN sent' : Empty(sent'[i])})
      BY <1>2 DEF Faults, Empty
    <2>2. Slack' = Faults' - Cardinality(FaultyFrames')
      BY DEF Slack
    <2>3. Slack = (noise + Cardinality(E)) - Cardinality(F)
      BY <1>11, <1>12 DEF Slack, Faults
    <2>4. CASE Empty(f)
      <3>1. /\ Cardinality(E \cup {l}) = Cardinality(E) + 1
            /\ Cardinality(F \cup {l}) = Cardinality(F) + 1
        BY <1>13, FS_AddElement
      <3>2. /\ Faults' = noise + (Cardinality(E) + 1)
            /\ Slack' = Faults' - (Cardinality(F) + 1)
        BY <2>1, <2>2, <2>4, <3>1, <1>14, <1>15
      <3> QED BY <2>3, <3>2, <1>13, <1>t
    <2>5. CASE ~Empty(f)
      BY <2>1, <2>2, <2>3, <2>5, <1>14, <1>15
    <2> QED BY <2>4, <2>5
  <1>17. ASSUME wire # <<>>
         PROVE  /\ wire' # <<>> /\ wire'[1] = wire[1]
                /\ Faulty(Done + 1)' <=> Faulty(Done + 1)
    <2>1. Len(wire) > 0
      BY <1>17, <1>t
    <2>2. 1 \in 1..Len(wire) /\ Done + 1 \in (Done + 1)..Len(sent)
      BY <2>1, <1>n
    <2>3. PICK i \in (Done + 1)..Len(sent) : i = Done + 1
      BY <2>2
    <2>4. Faulty(i)' <=> Faulty(i)
      BY <1>9
    <2>5. Faulty(Done + 1)' <=> Faulty(i)'
      BY <2>3, <1>7 DEF Faulty
    <2> QED BY <2>2, <2>3, <2>4, <2>5, <1>6
  <1> QED BY <1>7, <1>8, <1>16, <1>17

\* A disturbance makes at most one frame faulty, and pays for it.
LEMMA DisturbRaisesSlack ==
    ASSUME RxInv, Counted, Disturb
    PROVE  /\ Counted' /\ Done' = Done /\ wire # <<>> /\ Slack' >= Slack
           /\ Faulty(Done + 1) /\ ~Faulty(Done + 1)' => Slack' >= Slack + 1
           /\ \A i \in 1..pos : wire'[1][i] = wire[1][i]
  <1>t. /\ sent \in Seq(FrameType) /\ wire \in Seq(Seq(Byte) \ {<<>>})
        /\ noise \in Nat /\ pos \in Nat
    BY BoundAssumption DEF RxInv, LineInv
  <1>s. Sizes
    BY Sized
  <1>1. /\ noise' = noise + 1 /\ sent' = sent /\ pos' = pos
    BY DEF Disturb
  <1>2. PICK k \in 1..Len(wire) :
          \E w \in Disturbed(wire[k], IF k = 1 THEN pos ELSE 0) :
             wire' = [wire EXCEPT ![k] = w]
    BY DEF Disturb
  <1>3. PICK w \in Disturbed(wire[k], IF k = 1 THEN pos ELSE 0) :
          wire' = [wire EXCEPT ![k] = w]
    BY <1>2
  <1>4. /\ wire # <<>> /\ wire[k] \in Seq(Byte) /\ Len(wire') = Len(wire)
        /\ \A i \in 1..Len(wire) : wire'[i] = IF i = k THEN w ELSE wire[i]
        /\ 1 \in 1..Len(wire)
    BY <1>3, <1>t
  <1>5. Counted' /\ Done' = Done
    BY <1>1, <1>4 DEF Counted, Done
  <1>6. \A i \in 1..pos : wire'[1][i] = wire[1][i]
    <2>1. CASE k = 1
      BY <2>1, <1>4, <1>t, DisturbedKeepsRead
    <2>2. CASE k # 1
      BY <2>2, <1>4
    <2> QED BY <2>1, <2>2
  <1>n. /\ Len(wire) \in Nat /\ Len(sent) \in Nat /\ Done \in Nat /\ Done + Len(wire) = Len(sent)
    BY <1>s, <1>t DEF Sizes
  <1>7. ASSUME NEW i \in (Done + 1)..Len(sent), i # Done + k
        PROVE  Faulty(i)' <=> Faulty(i)
    <2>1. i - Done \in 1..Len(wire) /\ i - Done # k
      BY <1>7, <1>n
    <2>2. wire'[i - Done'] = wire[i - Done] /\ sent'[i] = sent[i]
      BY <2>1, <1>1, <1>4, <1>5
    <2> QED BY <2>2 DEF Faulty, Empty
  <1>8. PICK F : F = FaultyFrames
    OBVIOUS
  <1>9. PICK G : G = FaultyFrames'
    OBVIOUS
  <1>10. IsFiniteSet(F) /\ Cardinality(F) \in Nat /\ Faults \in Nat
    BY <1>8, <1>s DEF Sizes
  <1>11. G \in SUBSET (F \cup {Done + k})
    <2>1. G = {i \in (Done + 1)..Len(sent) : Faulty(i)'}
      BY <1>1, <1>5, <1>9 DEF FaultyFrames
    <2>2. F = {i \in (Done + 1)..Len(sent) : Faulty(i)}
      BY <1>8 DEF FaultyFrames
    <2>3. \A i \in (Done + 1)..Len(sent) : i # Done + k => (Faulty(i)' <=> Faulty(i))
      BY <1>7
    <2> QED BY <2>1, <2>2, <2>3
  <1>12. /\ IsFiniteSet(F \cup {Done + k})
         /\ Cardinality(F \cup {Done + k}) = IF Done + k \in F THEN Cardinality(F)
                                                              ELSE Cardinality(F) + 1
    BY <1>10, FS_AddElement
  <1>13. IsFiniteSet(G) /\ Cardinality(G) <= Cardinality(F \cup {Done + k})
    BY <1>11, <1>12, FS_Subset
  <1>14. Cardinality(G) \in Nat
    BY <1>13, FS_CardinalityType
  <1>15. /\ Slack = Faults - Cardinality(F)
         /\ Slack' = (Faults + 1) - Cardinality(G)
    <2>1. Faults' = noise' + Cardinality({i \in DOMAIN sent : Empty(sent[i])})
      BY <1>1 DEF Faults, Empty
    <2>2. IsFiniteSet({i \in DOMAIN sent : Empty(sent[i])})
      BY <1>s DEF Sizes
    <2>3. Cardinality({i \in DOMAIN sent : Empty(sent[i])}) \in Nat
      BY <2>2, FS_CardinalityType
    <2>4. Faults' = Faults + 1
      BY <2>1, <2>3, <1>1, <1>t DEF Faults
    <2> QED BY <2>4, <1>8, <1>9 DEF Slack
  <1>16. Slack' >= Slack
    BY <1>10, <1>12, <1>13, <1>14, <1>15
  <1>17. ASSUME Faulty(Done + 1), ~Faulty(Done + 1)'
         PROVE  Slack' >= Slack + 1
    <2>1. PICK j \in (Done + 1)..Len(sent) : j = Done + 1
      BY <1>4, <1>n
    <2>2. Faulty(j) /\ ~Faulty(j)'
      BY <2>1, <1>5, <1>17 DEF Faulty
    <2>3. j = Done + k /\ j \in F
      BY <2>2, <1>7, <1>8 DEF FaultyFrames
    <2> QED BY <2>3, <1>10, <1>12, <1>13, <1>14, <1>15
  <1> QED BY <1>4, <1>5, <1>6, <1>16, <1>17

\* readLoop inside a frame.
LEMMA ReadKeepsSlack ==
    ASSUME Counted, wire' = wire, sent' = sent, noise' = noise
    PROVE  /\ Counted' /\ Done' = Done /\ Slack' = Slack
           /\ Faulty(Done + 1)' <=> Faulty(Done + 1)
  <1>1. Counted' /\ Done' = Done
    BY DEF Counted, Done
  <1>2. \A i : Faulty(i)' <=> Faulty(i)
    BY <1>1 DEF Faulty, Empty
  <1>3. FaultyFrames' = FaultyFrames
    BY <1>1, <1>2 DEF FaultyFrames
  <1>4. Faults' = Faults
    BY DEF Faults, Empty
  <1>5. Slack' = Slack
    BY <1>3, <1>4 DEF Slack
  <1>6. Faulty(Done + 1)' <=> Faulty(Done + 1)
    BY <1>1 DEF Faulty, Empty
  <1> QED BY <1>1, <1>5, <1>6

\* readLoop at the end of a frame.
LEMMA PassRaisesSlack ==
    ASSUME RxInv, Counted, wire # <<>>, wire' = Tail(wire), sent' = sent, noise' = noise
    PROVE  /\ Counted' /\ Done' = Done + 1
           /\ Slack' = IF Faulty(Done + 1) THEN Slack + 1 ELSE Slack
  <1>t. sent \in Seq(FrameType) /\ wire \in Seq(Seq(Byte) \ {<<>>})
    BY DEF RxInv, LineInv
  <1>s. Sizes
    BY Sized
  <1>n. /\ Len(wire) \in Nat /\ Len(sent) \in Nat /\ Done \in Nat /\ Done + Len(wire) = Len(sent)
        /\ Len(wire) > 0
    BY <1>s, <1>t DEF Sizes
  <1>1. /\ Len(wire') = Len(wire) - 1
        /\ \A i \in 1..Len(wire') : wire'[i] = wire[i + 1]
    BY <1>t, HeadTailProperties
  <1>2. Done' = Done + 1 /\ Len(wire') <= Len(sent')
    BY <1>1, <1>n DEF Done
  <1>3. Counted'
    BY <1>2 DEF Counted
  <1>4. ASSUME NEW i \in (Done + 2)..Len(sent)
        PROVE  Faulty(i)' <=> Faulty(i)
    <2>1. i - Done' \in 1..Len(wire') /\ (i - Done') + 1 = i - Done
      BY <1>1, <1>2, <1>4, <1>n
    <2>2. wire'[i - Done'] = wire[i - Done] /\ sent'[i] = sent[i]
      BY <2>1, <1>1
    <2> QED BY <2>2 DEF Faulty, Empty
  <1>5. PICK j \in (Done + 1)..Len(sent) : j = Done + 1
    BY <1>n
  <1>6. PICK F : F = FaultyFrames
    OBVIOUS
  <1>7. IsFiniteSet(F) /\ Cardinality(F) \in Nat /\ Faults \in Nat
    BY <1>6, <1>s DEF Sizes
  <1>8. FaultyFrames' = F \ {j}
    <2>1. FaultyFrames' = {i \in (Done + 2)..Len(sent) : Faulty(i)'}
      BY <1>2, <1>n DEF FaultyFrames
    <2>2. F = {i \in (Done + 1)..Len(sent) : Faulty(i)}
      BY <1>6 DEF FaultyFrames
    <2>3. (Done + 2)..Len(sent) = (Done + 1)..Len(sent) \ {j}
      BY <1>5, <1>n
    <2>4. \A i \in (Done + 2)..Len(sent) : Faulty(i)' <=> Faulty(i)
      BY <1>4
    <2> QED BY <2>1, <2>2, <2>3, <2>4
  <1>9. Cardinality(F \ {j}) = IF j \in F THEN Cardinality(F) - 1 ELSE Cardinality(F)
    BY <1>7, FS_RemoveElement
  <1>10. j \in F <=> Faulty(Done + 1)
    BY <1>5, <1>6 DEF FaultyFrames
  <1>11. Faults' = Faults
    BY DEF Faults, Empty
  <1>12. Slack = Faults - Cardinality(F) /\ Slack' = Faults - Cardinality(F \ {j})
    BY <1>6, <1>8, <1>11 DEF Slack
  <1>13. Slack' = IF Faulty(Done + 1) THEN Slack + 1 ELSE Slack
    BY <1>7, <1>9, <1>10, <1>12
  <1> QED BY <1>2, <1>3, <1>13


\* A byte other than the first sync byte leaves the receiver hunting.
LEMMA HuntingSkips ==
    ASSUME NEW b, state = "Sync1", b # SyncByte1, processByte(b)
    PROVE  state' = "Sync1" /\ delivered' = delivered
  BY DEF processByte, Sync1, Sync2, FrameID, PayloadLen1, PayloadLen2, HeaderCRC1,
    HeaderCRC2, Payload, PayloadCRC1, PayloadCRC2

LEMMA NothingTakenBack ==
    ASSUME Receiver, NEW b \in Byte, processByte(b)
    PROVE  Len(delivered') >= Len(delivered)
  <1>1. delivered \in Seq(FrameType) /\ frame \in FrameFields
    BY DEF Receiver
  <1>2. \/ delivered' = delivered
        \/ delivered' = Append(delivered, [ID |-> frame.ID, Data |-> frame.Payload])
    BY DEF processByte, Sync1, Sync2, FrameID, PayloadLen1, PayloadLen2, HeaderCRC1,
      HeaderCRC2, Payload, PayloadCRC1, PayloadCRC2
  <1>3. [ID |-> frame.ID, Data |-> frame.Payload] \in FrameType
    BY <1>1 DEF FrameFields, FrameType
  <1>4. Len(Append(delivered, [ID |-> frame.ID, Data |-> frame.Payload])) = Len(delivered) + 1
    BY <1>1, <1>3, AppendProperties
  <1> QED BY <1>1, <1>2, <1>4

LEMMA QuietNext ==
    ASSUME CRCTyped, RxInv, RxInv', Quiet, [Next]_vars
    PROVE  Quiet'
  <1> SUFFICES ASSUME wire' # <<>>, \A i \in 2..pos' : wire'[1][i] # SyncByte1
               PROVE  state' = "Sync1" \/ Position' >= pos'
    BY DEF Quiet
  <1>t. /\ wire \in Seq(Seq(Byte) \ {<<>>}) /\ pos \in Nat /\ Receiver
        /\ Position \in Nat /\ Position' \in Nat /\ (wire = <<>> => pos = 0)
    BY PositionSized, PositionSizedNext DEF RxInv, LineInv, Bounds
  <1>0. pos' = 0 => Position' >= pos'
    BY <1>t
  <1>k. ASSUME UNCHANGED <<rx, pos>>, wire # <<>>,
               \A i \in 1..pos : wire'[1][i] = wire[1][i]
        PROVE  state' = "Sync1" \/ Position' >= pos'
    <2>1. Position' = Position /\ state' = state /\ pos' = pos
      BY <1>k DEF rx, Position
    <2>2. \A i \in 2..pos : wire[1][i] # SyncByte1
      BY <1>k, <1>t
    <2> QED BY <2>1, <2>2, <1>k DEF Quiet
  <1>1. ASSUME NEW id \in FrameIDs, NEW data \in Payloads, WriteWithFrameID(id, data)
        PROVE  state' = "Sync1" \/ Position' >= pos'
    <2>1. UNCHANGED <<rx, pos>> /\ \E e : wire' = Append(wire, e)
      BY <1>1 DEF WriteWithFrameID
    <2>2. CASE wire = <<>>
      BY <2>1, <2>2, <1>0, <1>t
    <2>3. CASE wire # <<>>
      <3>1. wire'[1] = wire[1]
        BY <2>1, <2>3, <1>t
      <3> QED BY <3>1, <2>1, <2>3, <1>k
    <2> QED BY <2>2, <2>3
  <1>2. CASE ReadByte
    <2>1. CASE wire' = Tail(wire) /\ pos' = 0
      BY <2>1, <1>0
    <2>2. CASE wire' = wire /\ pos' = pos + 1
      <3>1. wire # <<>> /\ processByte(wire[1][pos + 1]) /\ wire[1][pos + 1] \in Byte
        BY <1>2, NextByte DEF ReadByte, RxInv
      <3>2. state' = "Sync1" \/ Position' = Position + 1
        BY <3>1, <1>t, ByteAdvances
      <3>3. state = "Sync1" \/ Position >= pos
        <4>1. \A i \in 2..pos : wire[1][i] # SyncByte1
          BY <2>2, <1>t
        <4> QED BY <4>1, <3>1 DEF Quiet
      <3>4. CASE pos > 0 /\ state = "Sync1"
        <4>1. pos + 1 \in 2..pos'
          BY <2>2, <3>4, <1>t
        <4>2. wire[1][pos + 1] # SyncByte1
          BY <4>1, <2>2
        <4> QED BY <4>2, <3>1, <3>4, HuntingSkips
      <3>5. CASE pos = 0 \/ Position >= pos
        BY <2>2, <3>2, <3>5, <1>t
      <3> QED BY <3>3, <3>4, <3>5, <1>t
    <2> QED BY <2>1, <2>2, <1>2 DEF ReadByte
  <1>3. CASE Disturb
    <2>1. UNCHANGED <<rx, pos>>
      BY <1>3 DEF Disturb
    <2>2. PICK k \in 1..Len(wire) :
            \E w \in Disturbed(wire[k], IF k = 1 THEN pos ELSE 0) :
               wire' = [wire EXCEPT ![k] = w]
      BY <1>3 DEF Disturb
    <2>3. PICK w \in Disturbed(wire[k], IF k = 1 THEN pos ELSE 0) :
            wire' = [wire EXCEPT ![k] = w]
      BY <2>2
    <2>4. wire # <<>> /\ wire[k] \in Seq(Byte) /\ 1 \in 1..Len(wire)
      BY <1>t
    <2>5. wire'[1] = IF k = 1 THEN w ELSE wire[1]
      BY <2>3, <2>4, <1>t
    <2>6. \A i \in 1..pos : wire'[1][i] = wire[1][i]
      BY <2>4, <2>5, <1>t, DisturbedKeepsRead
    <2> QED BY <2>1, <2>4, <2>6, <1>k
  <1>4. CASE UNCHANGED vars
    BY <1>4, <1>k DEF vars, line
  <1> QED
    BY <1>1, <1>2, <1>3, <1>4 DEF Next

\* What SyncFree says of the bytes of a frame.
LEMMA SyncFreeBytes ==
    ASSUME CRCTyped, RxInv, SyncFree(sent), NEW j \in DOMAIN sent,
           NEW i \in 2..Len(Encode(sent[j])),
           Len(sent[j].Data) <= MaxPayloadLength
    PROVE  Encode(sent[j])[i] # SyncByte1
  <1>1. sent[j] \in FrameType /\ Len(sent[j].Data) \in Word
    <2>1. sent[j] \in FrameType
      BY DEF RxInv, LineInv
    <2>2. Len(sent[j].Data) \in Nat
      BY <2>1 DEF FrameType
    <2> QED BY <2>1, <2>2, LengthAssumption DEF Word
  <1>2. PICK e : e = Encode(sent[j])
    OBVIOUS
  <1>3. e \in Seq(Byte) /\ SyncByte1 \notin ToSet(Tail(e)) /\ i \in 2..Len(e)
    BY <1>1, <1>2, EncodeLayout DEF SyncFree
  <1>4. e # <<>> /\ i - 1 \in DOMAIN Tail(e) /\ Tail(e)[i - 1] = e[i]
    <2>1. e # <<>>
      BY <1>3
    <2>2. Tail(e) \in Seq(Byte) /\ Len(Tail(e)) = Len(e) - 1
            /\ \A k \in 1..Len(Tail(e)) : Tail(e)[k] = e[k + 1]
      BY <2>1, <1>3, HeadTailProperties
    <2>3. i - 1 \in 1..Len(Tail(e)) /\ (i - 1) + 1 = i
      BY <2>2, <1>3
    <2> QED BY <2>1, <2>2, <2>3
  <1> QED BY <1>2, <1>3, <1>4 DEF ToSet

\* A frame being read that is neither disturbed nor empty.
LEMMA GoodFrame ==
    ASSUME CRCTyped, RxInv, Whole, Counted, SyncFree(sent), wire # <<>>, ~Faulty(Done + 1)
    PROVE  /\ Len(wire[1]) >= ShortestFrame
           /\ \A i \in 2..Len(wire[1]) : wire[1][i] # SyncByte1
           /\ pos = Position =>
                \E f \in FrameType : Fits(f) /\ Follows(f) /\ wire[1] = Encode(f)
  <1>t. sent \in Seq(FrameType) /\ wire \in Seq(Seq(Byte) \ {<<>>})
    BY DEF RxInv, LineInv
  <1>n. /\ Len(wire) \in Nat /\ Len(sent) \in Nat /\ Done \in Nat /\ Done + Len(wire) = Len(sent)
        /\ Len(wire) > 0
    BY <1>t, Sized DEF Sizes
  <1>1. PICK j \in DOMAIN sent : j = Done + 1
    BY <1>n, <1>t
  <1>2. PICK f \in FrameType : f = sent[j]
    BY <1>1, <1>t
  <1>3. wire[1] = Encode(f) /\ f.Data # <<>> /\ Len(f.Data) <= MaxPayloadLength
    <2>1. j - Done = 1
      BY <1>1, <1>n
    <2> QED BY <2>1, <1>1, <1>2 DEF Faulty, Empty, Counted
  <1>4. Len(f.Data) \in Nat /\ Len(f.Data) \in Word /\ Len(f.Data) >= 1
    <2>1. f.Data \in Seq(Byte)
      BY DEF FrameType
    <2> QED BY <2>1, <1>3, LengthAssumption DEF Word
  <1>5. Len(wire[1]) = Len(f.Data) + 9
    BY <1>3, <1>4, EncodeLayout
  <1>6. ASSUME NEW i \in 2..Len(wire[1])
        PROVE  wire[1][i] # SyncByte1
    BY <1>2, <1>3, SyncFreeBytes
  <1>7. ASSUME pos = Position
        PROVE  Fits(f) /\ Follows(f)
    BY <1>3, <1>7 DEF Fits, Whole, InStep
  <1> QED BY <1>3, <1>4, <1>5, <1>6, <1>7 DEF ShortestFrame

LEMMA AffordsWritten ==
    ASSUME CRCTyped, RxInv, Counted, NEW id \in FrameIDs, NEW data \in Payloads,
           WriteWithFrameID(id, data), NEW d \in Nat, Affords(d)
    PROVE  Affords(d)'
  <1>1. /\ UNCHANGED <<rx, pos>> /\ Done' = Done /\ Slack' = Slack
        /\ wire # <<>> => (Faulty(Done + 1)' <=> Faulty(Done + 1))
    BY WriteKeepsSlack DEF WriteWithFrameID
  <1>2. Position' = Position /\ delivered' = delivered
    BY <1>1 DEF rx, Position
  <1>3. wire = <<>> => pos = 0
    BY DEF RxInv, LineInv
  <1> QED BY <1>1, <1>2, <1>3 DEF Affords

LEMMA AffordsDisturbed ==
    ASSUME CRCTyped, RxInv, Counted, Disturb, NEW d \in Nat, Affords(d)
    PROVE  \E e \in Nat : Affords(e)'
  <1>1. /\ UNCHANGED <<rx, pos>> /\ Done' = Done /\ Slack' >= Slack
        /\ Faulty(Done + 1) /\ ~Faulty(Done + 1)' => Slack' >= Slack + 1
        /\ sent' = sent /\ Counted'
    BY DisturbRaisesSlack DEF Disturb
  <1>2. Position' = Position /\ delivered' = delivered
    BY <1>1 DEF rx, Position
  <1>t. /\ Position \in Nat /\ Len(delivered) \in Nat /\ Done \in Nat /\ Slack \in Int
        /\ pos \in Nat /\ MaxPayloadLength \in Nat /\ Cost \in Nat
        /\ ShortestFrame * (Cost - 1) > MaxPayloadLength + 7
    BY Sized, CostCovers DEF Sizes, Bounds, RxInv, LineInv
  <1>s. PICK k \in Nat : Slack' = Slack + k
    <2>1. RxInv'
      BY RxInvNext DEF Next
    <2>2. Sizes'
      BY <2>1, <1>1, SizedNext
    <2>3. Slack' \in Int
      BY <2>2 DEF Sizes
    <2>4. PICK old \in Int, new \in Int : old = Slack /\ new = Slack'
      BY <2>3, <1>t
    <2>5. new >= old
      BY <2>4, <1>1
    <2>6. new - old \in Nat /\ new = old + (new - old)
      BY <2>5
    <2> QED BY <2>4, <2>6
  <1>3. PICK paid \in Int : paid = Cost * Slack
    BY <1>t, CostGrows
  <1>a. /\ Done - Len(delivered) + d <= paid
        /\ pos = 0 \/ ~Faulty(Done + 1) =>
             /\ Position > pos =>
                  ShortestFrame * d > MaxPayloadLength + 8 - Position + pos
             /\ Position < pos => d >= 1
    BY <1>3 DEF Affords
  <1>4. CASE Faulty(Done + 1) /\ ~Faulty(Done + 1)'
    <2>1. k - 1 \in Nat /\ (Slack + 1) + (k - 1) = Slack'
      BY <1>1, <1>4, <1>s, <1>t
    <2>2. Cost * (Slack + 1) = paid + Cost /\ Cost * (Slack + 1) <= Cost * Slack'
      BY <2>1, <1>3, <1>t, CostGrows
    <2>3. PICK owed \in Int : owed = Cost * Slack' /\ paid + Cost <= owed
      BY <2>1, <2>2, <1>t, CostGrows
    <2>4. Done' - Len(delivered') + (d + Cost) <= owed
      BY <2>3, <1>1, <1>2, <1>a, <1>t
    <2>5. /\ Position > pos =>
               ShortestFrame * (d + Cost) > MaxPayloadLength + 8 - Position + pos
          /\ d + Cost >= 1
      BY <1>t DEF ShortestFrame
    <2>6. Affords(d + Cost)'
      BY <2>3, <2>4, <2>5, <1>1, <1>2 DEF Affords
    <2> QED BY <2>6, <1>t
  <1>5. CASE ~(Faulty(Done + 1) /\ ~Faulty(Done + 1)')
    <2>1. PICK owed \in Int : owed = Cost * Slack' /\ paid <= owed
      BY <1>3, <1>s, <1>t, CostGrows
    <2>2. Done' - Len(delivered') + d <= owed
      BY <2>1, <1>1, <1>2, <1>a, <1>t
    <2>3. Affords(d)'
      BY <2>1, <2>2, <1>1, <1>2, <1>5, <1>a DEF Affords
    <2> QED BY <2>3
  <1> QED BY <1>4, <1>5

\* readLoop takes a byte inside a frame.
LEMMA AffordsInside ==
    ASSUME CRCTyped, RxInv, RxInv', Whole, Counted, Quiet, SyncFree(sent),
           ReadByte, wire' = wire, pos' = pos + 1, pos + 1 < Len(wire[1]),
           NEW d \in Nat, Affords(d)
    PROVE  Affords(d)'
  <1>1. /\ wire # <<>> /\ processByte(wire[1][pos + 1]) /\ sent' = sent /\ noise' = noise
    BY DEF ReadByte
  <1>2. /\ Receiver /\ pos \in Nat /\ wire[1] \in Seq(Byte) /\ wire[1][pos + 1] \in Byte
        /\ Len(wire[1]) \in Nat
    BY <1>1, NextByte DEF RxInv, LineInv
  <1>3. /\ Done' = Done /\ Slack' = Slack /\ (Faulty(Done + 1)' <=> Faulty(Done + 1))
    BY <1>1, ReadKeepsSlack
  <1>4. /\ Position \in Nat /\ Position <= MaxPayloadLength + 8 /\ Position' \in Nat
        /\ Len(delivered) \in Nat /\ Len(delivered') \in Nat /\ MaxPayloadLength \in Nat
    BY PositionSized, PositionSizedNext, CostCovers DEF Bounds
  <1>5. Done \in Nat /\ Slack \in Int
    BY Sized DEF Sizes
  <1>6. PICK paid \in Int : paid = Cost * Slack
    BY <1>5, CostGrows
  <1>a. /\ Done - Len(delivered) + d <= paid
        /\ pos = 0 \/ ~Faulty(Done + 1) =>
             /\ Position > pos =>
                  ShortestFrame * d > MaxPayloadLength + 8 - Position + pos
             /\ Position < pos => d >= 1
    BY <1>6 DEF Affords
  <1>7. Done' - Len(delivered') + d <= paid
    <2>1. Len(delivered') >= Len(delivered)
      BY <1>1, <1>2, NothingTakenBack
    <2> QED BY <2>1, <1>a, <1>3, <1>4, <1>5
  <1>8. ASSUME ~Faulty(Done + 1)
        PROVE  /\ Position' > pos' =>
                    ShortestFrame * d > MaxPayloadLength + 8 - Position' + pos'
               /\ Position' < pos' => d >= 1
    <2>1. /\ \A i \in 2..Len(wire[1]) : wire[1][i] # SyncByte1
          /\ pos = Position =>
                \E f \in FrameType : Fits(f) /\ Follows(f) /\ wire[1] = Encode(f)
      BY <1>1, <1>8, GoodFrame
    <2>2. CASE Position = pos
      <3>1. Position' = Position + 1
        BY <2>1, <2>2, <1>1, <1>2, ReceiverFollows
      <3> QED BY <2>2, <3>1, <1>2, <1>4
    <2>3. CASE Position > pos
      <3>1. ShortestFrame * d > MaxPayloadLength + 8 - Position + pos
        BY <2>3, <1>8, <1>a
      <3>2. d >= 1
        BY <3>1, <1>2, <1>4 DEF ShortestFrame
      <3>3. state' = "Sync1" \/ Position' = Position + 1
        BY <1>1, <1>2, ByteAdvances
      <3>4. CASE state' = "Sync1"
        <4>1. Position' = 0
          BY <3>4 DEF Position
        <4> QED BY <4>1, <3>2, <1>2
      <3>5. CASE Position' = Position + 1
        <4>1. MaxPayloadLength + 8 - Position' + pos' = MaxPayloadLength + 8 - Position + pos
          BY <3>5, <1>2, <1>4
        <4>2. ~(Position' < pos')
          BY <2>3, <3>5, <1>2, <1>4
        <4> QED BY <4>1, <4>2, <3>1
      <3> QED BY <3>3, <3>4, <3>5
    <2>4. CASE Position < pos
      <3>1. state = "Sync1"
        BY <2>1, <2>4, <1>1, <1>2, <1>4 DEF Quiet
      <3>2. wire[1][pos + 1] # SyncByte1
        BY <2>1, <2>4, <1>2, <1>4
      <3>3. state' = "Sync1"
        BY <3>1, <3>2, <1>1, HuntingSkips
      <3>4. Position' = 0
        BY <3>3 DEF Position
      <3>5. d >= 1
        BY <2>4, <1>8, <1>a
      <3> QED BY <3>4, <3>5, <1>2
    <2> QED BY <2>2, <2>3, <2>4, <1>2, <1>4
  <1>9. pos' # 0
    BY <1>2
  <1> QED BY <1>3, <1>6, <1>7, <1>8, <1>9 DEF Affords

\* readLoop takes the last byte of a frame.
LEMMA AffordsPassed ==
    ASSUME CRCTyped, RxInv, RxInv', Whole, Counted, Quiet, SyncFree(sent),
           ReadByte, wire' = Tail(wire), pos' = 0, pos + 1 = Len(wire[1]),
           NEW d \in Nat, Affords(d)
    PROVE  \E e \in Nat : Affords(e)'
  <1>1. /\ wire # <<>> /\ processByte(wire[1][pos + 1]) /\ sent' = sent /\ noise' = noise
    BY DEF ReadByte
  <1>2. /\ Receiver /\ pos \in Nat /\ wire[1] \in Seq(Byte) /\ wire[1][pos + 1] \in Byte
        /\ Len(wire[1]) \in Nat
    BY <1>1, NextByte DEF RxInv, LineInv
  <1>3. Done' = Done + 1 /\ Slack' = IF Faulty(Done + 1) THEN Slack + 1 ELSE Slack
    BY <1>1, PassRaisesSlack
  <1>4. /\ Position \in Nat /\ Position <= MaxPayloadLength + 8 /\ Position' \in Nat
        /\ Len(delivered) \in Nat /\ Len(delivered') \in Nat /\ MaxPayloadLength \in Nat
    BY PositionSized, PositionSizedNext, CostCovers DEF Bounds
  <1>5. Done \in Nat /\ Slack \in Int
    BY Sized DEF Sizes
  <1>6. PICK paid \in Int : paid = Cost * Slack
    BY <1>5, CostGrows
  <1>a. /\ Done - Len(delivered) + d <= paid
        /\ pos = 0 \/ ~Faulty(Done + 1) =>
             /\ Position > pos =>
                  ShortestFrame * d > MaxPayloadLength + 8 - Position + pos
             /\ Position < pos => d >= 1
    BY <1>6 DEF Affords
  <1>7. Len(delivered') >= Len(delivered)
    BY <1>1, <1>2, NothingTakenBack
  <1>8. state' = "Sync1" => Position' = 0
    BY DEF Position
  <1>9. CASE Faulty(Done + 1)
    <2>1. /\ Cost \in Nat /\ ShortestFrame * (Cost - 1) > MaxPayloadLength + 7
      BY CostCovers
    <2>2. PICK e \in Nat : e = Cost - 1 /\ ShortestFrame * e > MaxPayloadLength + 7
      BY <2>1, <1>4 DEF ShortestFrame
    <2>3. Cost * Slack' = paid + Cost
      BY <1>3, <1>5, <1>6, <1>9, CostGrows
    <2>4. Done' - Len(delivered') + e <= paid + Cost
      BY <2>1, <2>2, <1>3, <1>4, <1>5, <1>7, <1>a
    <2>5. Position' > pos' => ShortestFrame * e > MaxPayloadLength + 8 - Position' + pos'
      BY <2>2, <1>4 DEF ShortestFrame
    <2>6. ~(Position' < pos')
      BY <1>4
    <2> QED BY <2>3, <2>4, <2>5, <2>6 DEF Affords
  <1>10. CASE ~Faulty(Done + 1)
    <2>1. /\ Len(wire[1]) >= ShortestFrame
          /\ \A i \in 2..Len(wire[1]) : wire[1][i] # SyncByte1
          /\ pos = Position =>
                \E f \in FrameType : Fits(f) /\ Follows(f) /\ wire[1] = Encode(f)
      BY <1>1, <1>10, GoodFrame
    <2>2. Cost * Slack' = paid
      BY <1>3, <1>6, <1>10
    <2>3. CASE Position = pos
      <3>1. PICK f \in FrameType : Fits(f) /\ Follows(f) /\ wire[1] = Encode(f)
        BY <2>1, <2>3
      <3>2. state' = "Sync1" /\ delivered' = Append(delivered, f)
        BY <2>3, <3>1, <1>1, <1>2, ReceiverFollows
      <3>3. Len(delivered') = Len(delivered) + 1
        BY <3>2, <1>2 DEF Receiver
      <3>4. Done' - Len(delivered') + d <= paid
        BY <3>3, <1>3, <1>4, <1>5, <1>a
      <3>5. Affords(d)'
        BY <2>2, <3>2, <3>4, <1>8 DEF Affords
      <3> QED BY <3>5
    <2>4. CASE Position > pos
      <3>1. ShortestFrame * d > MaxPayloadLength + 8 - Position + pos
        BY <2>4, <1>10, <1>a
      <3>2. PICK e \in Nat : d = e + 1
        <4>1. d >= 1
          BY <3>1, <1>2, <1>4 DEF ShortestFrame
        <4> QED BY <4>1
      <3>3. Done' - Len(delivered') + e <= paid
        BY <3>2, <1>3, <1>4, <1>5, <1>7, <1>a
      <3>4. state' = "Sync1" \/ Position' = Position + 1
        BY <1>1, <1>2, ByteAdvances
      <3>5. Position' > pos' => ShortestFrame * e > MaxPayloadLength + 8 - Position' + pos'
        <4>1. CASE state' = "Sync1"
          BY <4>1, <1>8
        <4>2. CASE Position' = Position + 1
          <5>1. 10 * e + 10 > MaxPayloadLength + 8 - Position + pos
            BY <3>1, <3>2 DEF ShortestFrame
          <5>2. pos >= 9
            BY <2>1, <1>2 DEF ShortestFrame
          <5> QED BY <4>2, <5>1, <5>2, <1>2, <1>4 DEF ShortestFrame
        <4> QED BY <3>4, <4>1, <4>2
      <3>6. ~(Position' < pos')
        BY <1>4
      <3>7. Affords(e)'
        BY <2>2, <3>3, <3>5, <3>6 DEF Affords
      <3> QED BY <3>7
    <2>5. CASE Position < pos
      <3>1. state = "Sync1"
        BY <2>1, <2>5, <1>1, <1>2, <1>4 DEF Quiet
      <3>2. wire[1][pos + 1] # SyncByte1
        BY <2>1, <2>5, <1>2, <1>4
      <3>3. Position' = 0
        BY <3>1, <3>2, <1>1, <1>8, HuntingSkips
      <3>4. PICK e \in Nat : d = e + 1
        <4>1. d >= 1
          BY <2>5, <1>10, <1>a
        <4> QED BY <4>1
      <3>5. Done' - Len(delivered') + e <= paid
        BY <3>4, <1>3, <1>4, <1>5, <1>7, <1>a
      <3>6. Affords(e)'
        BY <2>2, <3>3, <3>5 DEF Affords
      <3> QED BY <3>6
    <2> QED BY <2>3, <2>4, <2>5, <1>2, <1>4
  <1> QED BY <1>9, <1>10

LEMMA LossNext ==
    ASSUME CRCTyped, RxInv, RxInv', Whole, LossInv, [Next]_vars
    PROVE  LossInv'
  <1>1. Counted /\ Quiet /\ (SyncFree(sent) => \E d \in Nat : Affords(d))
    BY DEF LossInv
  <1>2. Quiet'
    BY <1>1, QuietNext
  <1>3. ASSUME NEW id \in FrameIDs, NEW data \in Payloads, WriteWithFrameID(id, data)
        PROVE  Counted' /\ (SyncFree(sent') => \E d \in Nat : Affords(d)')
    <2>1. Counted'
      BY <1>1, <1>3, WriteKeepsSlack
    <2>2. SyncFree(sent') => SyncFree(sent)
      <3>1. PICK f : f \in FrameType /\ sent' = Append(sent, f)
        BY <1>3, PeerAssumption DEF WriteWithFrameID, FrameType
      <3>2. \A i \in DOMAIN sent : i \in DOMAIN sent' /\ sent'[i] = sent[i]
        BY <3>1, AppendProperties DEF RxInv, LineInv
      <3> QED BY <3>2 DEF SyncFree
    <2> QED BY <2>1, <2>2, <1>1, <1>3, AffordsWritten
  <1>4. CASE ReadByte
    <2>1. /\ wire # <<>> /\ sent' = sent /\ noise' = noise
          /\ \/ pos + 1 = Len(wire[1]) /\ wire' = Tail(wire) /\ pos' = 0
             \/ pos + 1 < Len(wire[1]) /\ wire' = wire /\ pos' = pos + 1
      BY <1>4 DEF ReadByte
    <2>2. Counted'
      BY <2>1, <1>1, ReadKeepsSlack, PassRaisesSlack
    <2> QED BY <2>1, <2>2, <1>1, <1>2, <1>4, AffordsInside, AffordsPassed DEF LossInv
  <1>5. CASE Disturb
    <2>1. Counted' /\ sent' = sent
      BY <1>1, <1>5, DisturbRaisesSlack DEF Disturb
    <2> QED BY <2>1, <1>1, <1>2, <1>5, AffordsDisturbed DEF LossInv
  <1>6. CASE UNCHANGED vars
    <2>1. UNCHANGED <<rx, sent, wire, pos, noise>>
      BY <1>6 DEF vars, line
    <2>2. Counted' /\ Done' = Done /\ Slack' = Slack /\ (Faulty(Done + 1)' <=> Faulty(Done + 1))
      BY <2>1, <1>1, ReadKeepsSlack
    <2>3. Position' = Position /\ delivered' = delivered
      BY <2>1 DEF rx, Position
    <2>4. ASSUME NEW d \in Nat, Affords(d) PROVE Affords(d)'
      BY <2>1, <2>2, <2>3, <2>4 DEF Affords
    <2> QED BY <2>1, <2>2, <2>4, <1>1, <1>2 DEF LossInv
  <1> QED
    BY <1>2, <1>3, <1>4, <1>5, <1>6 DEF Next, LossInv

\* However often the line is disturbed, and whatever its noise, the frames
\* lost are at most Cost for each disturbance and each empty frame: processByte
\* never misses more than it can take for the rest of a frame.
THEOREM UsockLossBound == ASSUME CRCTyped PROVE Spec => []LossBound
  <1>1. Init => RxInv /\ Whole /\ LossInv
    BY RxInvInit, WholeInit, LossInit
  <1>2. RxInv /\ Whole /\ LossInv /\ [Next]_vars => RxInv' /\ Whole' /\ LossInv'
    BY RxInvNext, WholeNext, LossNext
  <1>3. RxInv /\ LossInv => LossBound
    <2> SUFFICES ASSUME RxInv, LossInv, wire = <<>>, SyncFree(sent)
                 PROVE  Len(sent) - Len(delivered) <= Cost * Faults
      BY DEF LossBound
    <2>1. PICK d \in Nat : Done - Len(delivered) + d <= Cost * Slack
      BY DEF LossInv, Affords
    <2>2. Sizes
      BY Sized DEF LossInv
    <2>3. Done = Len(sent)
      BY <2>2 DEF Sizes
    <2>4. Slack = Faults
      <3>1. FaultyFrames = {}
        BY <2>2, <2>3 DEF FaultyFrames, Sizes
      <3> QED BY <2>2, <3>1, FS_EmptySet DEF Slack, Sizes
    <2>5. PICK owed \in Int : owed = Cost * Faults
      <3>1. Faults \in Int
        BY <2>2 DEF Sizes
      <3> QED BY <3>1, CostGrows
    <2> QED BY <2>1, <2>2, <2>3, <2>4, <2>5 DEF Sizes, Bounds
  <1> QED BY <1>1, <1>2, <1>3, PTL DEF Spec

=============================================================================
