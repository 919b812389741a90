------------------------- MODULE UsockDecoderProofs -------------------------
(***************************************************************************)
(* What the receiver hands over is what it heard: the USOCK link           *)
(* implements FrameDecoder for every checksum function, payload set, noise *)
(* and bound.                                                              *)
(***************************************************************************)
EXTENDS UsockDecoder, UsockProofs

\* The i-th byte of the frame being received.
Heard(i) == heard[Len(heard) - Position + i]

\* The header as the receiver has stored it.
Stored == <<SyncByte1, SyncByte2, frame.ID, Low(frame.PayloadLen), High(frame.PayloadLen)>>

HeaderStates  == {"Sync2", "FrameID", "PayloadLen1", "PayloadLen2",
                  "HeaderCRC1", "HeaderCRC2"}
PayloadStates == {"Payload", "PayloadCRC1", "PayloadCRC2"}

\* The bytes heard last are the part of a frame the receiver holds, and none
\* of them belongs to a frame handed over before.
HeardInv ==
    /\ heard \in Seq(Byte) /\ used \in Nat
    /\ used + Position <= Len(heard)
    /\ state \in HeaderStates =>
         \A i \in 1..Len(buffer) : i <= Position /\ Heard(i) = buffer[i]
    /\ state = "HeaderCRC2" => Heard(6) = frame.HeaderCRC
    /\ state \in PayloadStates =>
         /\ \A i \in 1..5 : Heard(i) = Stored[i]
         /\ Heard(6) = Low(CRC(Stored)) /\ Heard(7) = High(CRC(Stored))
         /\ \A i \in 1..Len(frame.Payload) : Heard(7 + i) = frame.Payload[i]
    /\ state \in {"PayloadCRC1", "PayloadCRC2"} =>
         \/ frame.PayloadLen = Len(frame.Payload) /\ Len(frame.Payload) > 0
         \/ frame.PayloadLen = 0 /\ Len(frame.Payload) = 1
    /\ state = "PayloadCRC2" => Heard(8 + Len(frame.Payload)) = frame.PayloadCRC

-----------------------------------------------------------------------------
(* The frame on the wire.                                                  *)

\* Bytes e are header h with its checksum and payload d with its own.
LaidOut(e, h, d) ==
    /\ e \in Seq(Byte) /\ Len(e) = Len(d) + 9
    /\ \A i \in 1..5 : e[i] = h[i]
    /\ e[6] = Low(CRC(h)) /\ e[7] = High(CRC(h))
    /\ \A i \in 1..Len(d) : e[7 + i] = d[i]
    /\ e[8 + Len(d)] = Low(CRC(d)) /\ e[9 + Len(d)] = High(CRC(d))

LEMMA ChecksumBytes ==
    ASSUME CRCTyped, NEW s \in Seq(Byte)
    PROVE  /\ Checksum(s) \in Seq(Byte) /\ Len(Checksum(s)) = 2
           /\ Checksum(s)[1] = Low(CRC(s)) /\ Checksum(s)[2] = High(CRC(s))
  <1>1. Low(CRC(s)) \in Byte /\ High(CRC(s)) \in Byte
    BY BytesOfWord DEF CRCTyped
  <1> QED BY <1>1 DEF Checksum

LEMMA EncodedLaidOut ==
    ASSUME CRCTyped, NEW h \in Seq(Byte), Len(h) = 5, NEW d \in Seq(Byte)
    PROVE  LaidOut(h \o Checksum(h) \o d \o Checksum(d), h, d)
  <1>m. PICK m \in Nat : m = Len(d)
    OBVIOUS
  <1>c. PICK hc, dc : hc = Checksum(h) /\ dc = Checksum(d)
    OBVIOUS
  <1>k. /\ hc \in Seq(Byte) /\ Len(hc) = 2
        /\ hc[1] = Low(CRC(h)) /\ hc[2] = High(CRC(h))
        /\ dc \in Seq(Byte) /\ Len(dc) = 2
        /\ dc[1] = Low(CRC(d)) /\ dc[2] = High(CRC(d))
    BY <1>c, ChecksumBytes
  <1>1. PICK hh : hh = h \o hc
    OBVIOUS
  <1>2. /\ hh \in Seq(Byte) /\ Len(hh) = 7
        /\ \A i \in 1..5 : hh[i] = h[i]
        /\ hh[6] = hc[1] /\ hh[7] = hc[2]
    <2>1. /\ h \o hc \in Seq(Byte)
          /\ Len(h \o hc) = Len(h) + Len(hc)
          /\ \A i \in 1..Len(h) : (h \o hc)[i] = h[i]
          /\ \A i \in 1..Len(hc) : (h \o hc)[Len(h) + i] = hc[i]
      BY <1>k, ConcatBytes
    <2>2. /\ hh \in Seq(Byte) /\ Len(hh) = 5 + 2
          /\ \A i \in 1..5 : hh[i] = h[i]
          /\ \A i \in 1..2 : hh[5 + i] = hc[i]
      BY <1>1, <1>k, <2>1
    <2>3. hh[5 + 1] = hc[1] /\ hh[5 + 2] = hc[2]
      BY <2>2
    <2> QED BY <2>2, <2>3
  <1>3. PICK hd : hd = hh \o d
    OBVIOUS
  <1>4. /\ hd \in Seq(Byte) /\ Len(hd) = 7 + m
        /\ \A i \in 1..7 : hd[i] = hh[i]
        /\ \A i \in 1..m : hd[7 + i] = d[i]
    <2>1. /\ hh \o d \in Seq(Byte)
          /\ Len(hh \o d) = Len(hh) + Len(d)
          /\ \A i \in 1..Len(hh) : (hh \o d)[i] = hh[i]
          /\ \A i \in 1..Len(d) : (hh \o d)[Len(hh) + i] = d[i]
      BY <1>2, ConcatBytes
    <2> QED BY <1>2, <1>3, <1>m, <2>1
  <1>5. PICK e : e = hd \o dc
    OBVIOUS
  <1>6. /\ e \in Seq(Byte) /\ Len(e) = (7 + m) + 2
        /\ \A i \in 1..(7 + m) : e[i] = hd[i]
        /\ \A i \in 1..2 : e[(7 + m) + i] = dc[i]
    <2>1. /\ hd \o dc \in Seq(Byte)
          /\ Len(hd \o dc) = Len(hd) + Len(dc)
          /\ \A i \in 1..Len(hd) : (hd \o dc)[i] = hd[i]
          /\ \A i \in 1..Len(dc) : (hd \o dc)[Len(hd) + i] = dc[i]
      BY <1>k, <1>4, ConcatBytes
    <2> QED BY <1>k, <1>4, <1>5, <2>1
  <1>7. \A i \in 1..7 : e[i] = hh[i]
    <2>1. \A i \in 1..7 : i \in 1..(7 + m)
      OBVIOUS
    <2> QED BY <2>1, <1>4, <1>6
  <1>8. \A i \in 1..m : e[7 + i] = d[i]
    <2>1. \A i \in 1..m : 7 + i \in 1..(7 + m)
      OBVIOUS
    <2> QED BY <2>1, <1>4, <1>6
  <1>9. e[8 + m] = dc[1] /\ e[9 + m] = dc[2]
    <2>1. e[(7 + m) + 1] = dc[1] /\ e[(7 + m) + 2] = dc[2]
      BY <1>6
    <2>2. (7 + m) + 1 = 8 + m /\ (7 + m) + 2 = 9 + m
      OBVIOUS
    <2> QED BY <2>1, <2>2
  <1>10. /\ Len(e) = m + 9
         /\ \A i \in 1..5 : e[i] = h[i]
         /\ e[6] = hc[1] /\ e[7] = hc[2]
    BY <1>2, <1>6, <1>7
  <1>11. LaidOut(e, h, d)
    BY <1>k, <1>m, <1>6, <1>8, <1>9, <1>10 DEF LaidOut
  <1> QED BY <1>c, <1>1, <1>3, <1>5, <1>11

LEMMA AnnouncedLaidOut ==
    ASSUME CRCTyped, NEW f \in FrameType, NEW n \in Word,
           NEW h, h = <<SyncByte1, SyncByte2, f.ID, Low(n), High(n)>>
    PROVE  LaidOut(Decoder!Announced(f, n), h, f.Data)
  <1>1. f.ID \in Byte /\ f.Data \in Seq(Byte)
    BY DEF FrameType
  <1>2. h \in Seq(Byte) /\ Len(h) = 5
    BY <1>1, BytesOfWord, SyncAssumption
  <1>3. Decoder!Announced(f, n) = h \o Checksum(h) \o f.Data \o Checksum(f.Data)
    BY DEF Decoder!Announced, Decoder!Opening, Decoder!TwoBytes, Checksum, Low, High
  <1> QED BY <1>1, <1>2, <1>3, EncodedLaidOut

\* A header and a payload are laid out in one way only.
LEMMA LaidOutOnce ==
    ASSUME NEW h, NEW d \in Seq(Byte), NEW s, NEW t, LaidOut(s, h, d), LaidOut(t, h, d)
    PROVE  s = t
  <1>m. PICK m \in Nat : m = Len(d)
    OBVIOUS
  <1>1. /\ s \in Seq(Byte) /\ Len(s) = m + 9
        /\ t \in Seq(Byte) /\ Len(t) = m + 9
        /\ \A i \in 1..5 : s[i] = t[i]
        /\ s[6] = t[6] /\ s[7] = t[7]
        /\ \A i \in 1..m : s[7 + i] = t[7 + i]
        /\ s[8 + m] = t[8 + m] /\ s[9 + m] = t[9 + m]
    BY <1>m DEF LaidOut
  <1>2. ASSUME NEW i \in 1..(m + 9) PROVE s[i] = t[i]
    <2>1. CASE i <= 5
      BY <1>1, <2>1
    <2>2. CASE i > 7 /\ i <= 7 + m
      <3>1. PICK j \in 1..m : i = 7 + j
        <4>1. i - 7 \in 1..m /\ i = 7 + (i - 7)
          BY <2>2
        <4> QED BY <4>1
      <3> QED BY <3>1, <1>1
    <2>3. CASE i \in {6, 7, 8 + m, 9 + m}
      BY <2>3, <1>1
    <2>4. i <= 5 \/ (i > 7 /\ i <= 7 + m) \/ i \in {6, 7, 8 + m, 9 + m}
      OBVIOUS
    <2> QED BY <2>1, <2>2, <2>3, <2>4
  <1> QED BY <1>1, <1>2, SeqEqual

\* The last bytes of a sequence.
LEMMA LastBytes ==
    ASSUME NEW s \in Seq(Byte), NEW k \in Nat, NEW l \in Nat, Len(s) = k + l
    PROVE  /\ SubSeq(s, k + 1, Len(s)) \in Seq(Byte)
           /\ Len(SubSeq(s, k + 1, Len(s))) = l
           /\ \A i \in 1..l : SubSeq(s, k + 1, Len(s))[i] = s[k + i]
  <1>1. \A i \in (k + 1)..Len(s) : s[i] \in Byte
    OBVIOUS
  <1>2. /\ SubSeq(s, k + 1, Len(s)) \in Seq(Byte)
        /\ Len(SubSeq(s, k + 1, Len(s)))
             = IF k + 1 <= Len(s) THEN Len(s) - (k + 1) + 1 ELSE 0
        /\ \A i \in 1..(Len(s) - (k + 1) + 1) :
             SubSeq(s, k + 1, Len(s))[i] = s[(k + 1) + i - 1]
    BY <1>1, SubSeqProperties
  <1>3. /\ Len(s) - (k + 1) + 1 = l
        /\ (IF k + 1 <= Len(s) THEN l ELSE 0) = l
        /\ \A i \in 1..l : (k + 1) + i - 1 = k + i
    OBVIOUS
  <1> QED BY <1>2, <1>3

-----------------------------------------------------------------------------
(* The invariant.                                                          *)

LEMMA PositionNat == ASSUME Receiver PROVE Position \in Nat
  <1>1. state \in States /\ Len(frame.Payload) \in Nat
    BY DEF Receiver, FrameFields
  <1> QED BY <1>1 DEF Position, States

\* The byte just heard comes after those of the frame being received.
LEMMA HeardGrows ==
    ASSUME RxInv, RxInv', HeardInv, HeardByte, NEW b, b = wire[1][pos + 1],
           NEW p, p = Position
    PROVE  /\ b \in Byte /\ processByte(b) /\ p \in Nat
           /\ heard' \in Seq(Byte) /\ Len(heard') = Len(heard) + 1
           /\ used' \in Nat /\ used' <= Len(heard')
           /\ state' # "Sync1" =>
                /\ delivered' = delivered /\ used' = used
                /\ Position' = p + 1 /\ used' + Position' <= Len(heard')
                /\ \A i \in 1..p : Heard(i)' = Heard(i)
                /\ Heard(p + 1)' = b
  <1>1. b \in Byte /\ processByte(b) /\ p \in Nat /\ Receiver
    BY NextByte, PositionNat DEF HeardByte, ReadByte, RxInv
  <1>2. /\ heard' = Append(heard, b) /\ heard \in Seq(Byte) /\ used \in Nat
        /\ used + p <= Len(heard) /\ Len(heard) \in Nat
        /\ used' = IF delivered' = delivered THEN used ELSE Len(heard')
    BY DEF HeardByte, HeardInv
  <1>3. /\ heard' \in Seq(Byte) /\ Len(heard') = Len(heard) + 1
        /\ \A j \in 1..Len(heard) : heard'[j] = heard[j]
        /\ heard'[Len(heard) + 1] = b
    BY <1>1, <1>2, AppendByte
  <1>4. used' \in Nat /\ used' <= Len(heard')
    BY <1>1, <1>2, <1>3
  <1>5. ASSUME state' # "Sync1"
        PROVE  /\ delivered' = delivered /\ used' = used
               /\ Position' = p + 1 /\ used' + Position' <= Len(heard')
               /\ \A i \in 1..p : Heard(i)' = Heard(i)
               /\ Heard(p + 1)' = b
    <2>1. delivered' = delivered
      BY <1>1, <1>5 DEF processByte, Sync1, Sync2, FrameID, PayloadLen1, PayloadLen2,
        HeaderCRC1, HeaderCRC2, Payload, PayloadCRC1, PayloadCRC2
    <2>2. Position' = p + 1
      BY <1>1, <1>5, ByteAdvances
    <2>3. used' = used /\ used' + Position' <= Len(heard')
      BY <2>1, <2>2, <1>1, <1>2, <1>3
    <2>4. PICK k \in Nat : k = Len(heard) - p
      <3>1. Len(heard) - p \in Nat
        BY <1>1, <1>2
      <3> QED BY <3>1
    <2>5. Len(heard') - Position' = k /\ k + p = Len(heard)
      BY <2>2, <2>4, <1>1, <1>2, <1>3
    <2>6. ASSUME NEW i \in 1..p PROVE Heard(i)' = Heard(i)
      <3>1. k + i \in 1..Len(heard)
        BY <2>5, <1>1
      <3>2. Heard(i)' = heard'[k + i] /\ Heard(i) = heard[k + i]
        BY <2>4, <2>5 DEF Heard
      <3> QED BY <3>1, <3>2, <1>3
    <2>7. Heard(p + 1)' = b
      <3>1. Heard(p + 1)' = heard'[k + (p + 1)]
        BY <2>5 DEF Heard
      <3>2. k + (p + 1) = Len(heard) + 1
        BY <2>5, <1>1
      <3> QED BY <3>1, <3>2, <1>3
    <2> QED BY <2>1, <2>2, <2>3, <2>6, <2>7
  <1> QED BY <1>1, <1>3, <1>4, <1>5

LEMMA HeardInvInit == HeardInit => HeardInv
  BY DEF HeardInit, Init, HeardInv, Position, HeaderStates, PayloadStates

LEMMA HeardInvByte ==
    ASSUME CRCTyped, RxInv, RxInv', HeardInv, HeardByte
    PROVE  HeardInv'
  <1>b. PICK b : b = wire[1][pos + 1]
    OBVIOUS
  <1>p. PICK p : p = Position
    OBVIOUS
  <1>g. /\ b \in Byte /\ processByte(b) /\ p \in Nat
        /\ heard' \in Seq(Byte) /\ used' \in Nat /\ used' <= Len(heard')
        /\ state' # "Sync1" =>
             /\ used' + Position' <= Len(heard') /\ Position' = p + 1
             /\ \A i \in 1..p : Heard(i)' = Heard(i)
             /\ Heard(p + 1)' = b
    BY <1>b, <1>p, HeardGrows
  <1>t. /\ state \in States
        /\ frame \in FrameFields
        /\ buffer \in Seq(Byte)
        /\ HalfWords /\ HeaderBuffer /\ Lengths /\ ChecksumCoversFields
    BY DEF RxInv, Receiver
  <1>l. Len(frame.Payload) \in Nat /\ frame.Payload \in Seq(Byte)
    BY <1>t DEF FrameFields
  <1>1. CASE state' = "Sync1"
    <2>1. Position' = 0
      BY <1>1 DEF Position
    <2> QED BY <2>1, <1>g, <1>1 DEF HeardInv, HeaderStates, PayloadStates
  \* A byte of the header is stored as it is heard.
  <1>2. ASSUME state' \in {"Sync2", "FrameID", "PayloadLen1", "PayloadLen2", "HeaderCRC1"},
               buffer' = Append(buffer, b), Len(buffer) = p,
               \A i \in 1..p : Heard(i) = buffer[i]
        PROVE  HeardInv'
    <2>1. /\ Len(buffer') = p + 1 /\ buffer'[p + 1] = b
          /\ \A i \in 1..p : buffer'[i] = buffer[i]
      BY <1>2, <1>g, <1>t, AppendByte
    <2>2. ASSUME NEW i \in 1..(p + 1) PROVE i <= Position' /\ Heard(i)' = buffer'[i]
      <3>1. i \in 1..p \/ i = p + 1
        BY <1>g
      <3> QED BY <3>1, <2>1, <1>2, <1>g
    <2> QED BY <2>1, <2>2, <1>2, <1>g DEF HeardInv, HeaderStates, PayloadStates
  <1>3. CASE Sync1(b) /\ state' # "Sync1"
    <2>1. p = 0 /\ state' = "Sync2" /\ buffer' = <<b>>
      BY <1>3, <1>p DEF Sync1, Position
    <2>2. Heard(1)' = b /\ Position' = 1
      BY <2>1, <1>g
    <2>3. \A i \in 1..Len(buffer') : i <= Position' /\ Heard(i)' = buffer'[i]
      BY <2>1, <2>2
    <2> QED BY <2>1, <2>3, <1>g DEF HeardInv, HeaderStates, PayloadStates
  <1>4. CASE (Sync2(b) \/ FrameID(b) \/ PayloadLen1(b) \/ PayloadLen2(b)) /\ state' # "Sync1"
    <2>1. /\ state \in {"Sync2", "FrameID", "PayloadLen1", "PayloadLen2"}
          /\ state' \in {"FrameID", "PayloadLen1", "PayloadLen2", "HeaderCRC1"}
          /\ buffer' = Append(buffer, b)
      BY <1>4 DEF Sync2, FrameID, PayloadLen1, PayloadLen2
    <2>2. Len(buffer) = p
      BY <2>1, <1>p, <1>t DEF HeaderBuffer, Position
    <2>3. \A i \in 1..p : Heard(i) = buffer[i]
      BY <2>1, <2>2 DEF HeardInv, HeaderStates
    <2> QED BY <2>1, <2>2, <2>3, <1>2
  <1>5. CASE HeaderCRC1(b)
    <2>1. /\ p = 5 /\ state' = "HeaderCRC2" /\ buffer' = buffer /\ frame'.HeaderCRC = b
          /\ state = "HeaderCRC1"
      BY <1>5, <1>p, <1>t DEF HeaderCRC1, Position, FrameFields
    <2>2. Heard(6)' = b /\ Position' = 6
      BY <2>1, <1>g
    <2>3. Len(buffer) = 5
      BY <2>1, <1>t DEF ChecksumCoversFields
    <2>4. \A i \in 1..Len(buffer') : i <= Position' /\ Heard(i)' = buffer'[i]
      BY <2>1, <2>2, <2>3, <1>g DEF HeardInv, HeaderStates
    <2> QED BY <2>1, <2>2, <2>4, <1>g DEF HeardInv, PayloadStates
  <1>6. CASE HeaderCRC2(b) /\ state' # "Sync1"
    <2>1. /\ p = 6 /\ state = "HeaderCRC2" /\ state' = "Payload"
          /\ frame'.Payload = <<>> /\ frame'.ID = frame.ID
          /\ frame'.PayloadLen = frame.PayloadLen
          /\ CRC(buffer) = frame.HeaderCRC + 256 * b
      BY <1>6, <1>p, <1>t DEF HeaderCRC2, Position, FrameFields
    <2>2. buffer = Stored /\ Stored' = Stored /\ Len(buffer) = 5
      BY <2>1, <1>t DEF ChecksumCoversFields, Stored
    <2>3. frame.HeaderCRC = Low(CRC(Stored)) /\ b = High(CRC(Stored))
      <3>1. frame.HeaderCRC \in Byte
        BY <2>1, <1>t DEF HalfWords
      <3> QED BY <3>1, <2>1, <2>2, <1>g, WordOfBytes
    <2>4. /\ \A i \in 1..5 : Heard(i)' = Stored'[i]
          /\ Heard(6)' = Low(CRC(Stored')) /\ Heard(7)' = High(CRC(Stored'))
      <3>1. /\ \A i \in 1..5 : Heard(i) = Stored[i]
            /\ Heard(6) = frame.HeaderCRC
        BY <2>1, <2>2 DEF HeardInv, HeaderStates
      <3>2. \A i \in 1..6 : Heard(i)' = Heard(i)
        BY <2>1, <1>g
      <3>3. Heard(7)' = b
        BY <2>1, <1>g
      <3> QED BY <3>1, <3>2, <3>3, <2>2, <2>3
    <2>5. Len(frame'.Payload) = 0
      BY <2>1
    <2> QED BY <2>1, <2>4, <2>5, <1>g DEF HeardInv, HeaderStates, PayloadStates
  <1>7. CASE Payload(b)
    <2>m. PICK m \in Nat : m = Len(frame.Payload)
      BY <1>l
    <2>1. /\ p = 7 + m /\ state = "Payload" /\ state' \in {"Payload", "PayloadCRC1"}
          /\ frame'.Payload = Append(frame.Payload, b) /\ frame'.ID = frame.ID
          /\ frame'.PayloadLen = frame.PayloadLen
          /\ state' = "PayloadCRC1" => m + 1 >= frame.PayloadLen
      <3>1. /\ state = "Payload" /\ state' \in {"Payload", "PayloadCRC1"}
            /\ frame'.Payload = Append(frame.Payload, b) /\ frame'.ID = frame.ID
            /\ frame'.PayloadLen = frame.PayloadLen
            /\ state' = "PayloadCRC1" => Len(Append(frame.Payload, b)) >= frame.PayloadLen
        BY <1>7, <1>t DEF Payload, FrameFields
      <3>2. Len(Append(frame.Payload, b)) = m + 1
        BY <2>m, <1>g, <1>l, AppendByte
      <3>3. p = 7 + m
        BY <3>1, <2>m, <1>p DEF Position
      <3> QED BY <3>1, <3>2, <3>3
    <2>2. /\ Len(frame'.Payload) = m + 1 /\ frame'.Payload[m + 1] = b
          /\ \A i \in 1..m : frame'.Payload[i] = frame.Payload[i]
      BY <2>m, <2>1, <1>g, <1>l, AppendByte
    <2>3. Stored' = Stored
      BY <2>1 DEF Stored
    <2>4. /\ \A i \in 1..5 : Heard(i)' = Stored'[i]
          /\ Heard(6)' = Low(CRC(Stored')) /\ Heard(7)' = High(CRC(Stored'))
      <3>1. /\ \A i \in 1..5 : Heard(i) = Stored[i]
            /\ Heard(6) = Low(CRC(Stored)) /\ Heard(7) = High(CRC(Stored))
        BY <2>1 DEF HeardInv, PayloadStates
      <3>2. \A i \in 1..7 : Heard(i)' = Heard(i)
        BY <2>1, <1>g
      <3> QED BY <3>1, <3>2, <2>3
    <2>5. ASSUME NEW i \in 1..(m + 1) PROVE Heard(7 + i)' = frame'.Payload[i]
      <3>1. CASE i \in 1..m
        <4>1. Heard(7 + i) = frame.Payload[i]
          BY <3>1, <2>m, <2>1 DEF HeardInv, PayloadStates
        <4>2. 7 + i \in 1..p
          BY <3>1, <2>1
        <4> QED BY <4>1, <4>2, <3>1, <2>1, <2>2, <1>g
      <3>2. CASE i = m + 1
        <4>1. 7 + i = p + 1
          BY <3>2, <2>1
        <4> QED BY <4>1, <3>2, <2>1, <2>2, <1>g
      <3> QED BY <3>1, <3>2
    <2>6. state' = "PayloadCRC1" =>
            \/ frame'.PayloadLen = m + 1
            \/ frame'.PayloadLen = 0 /\ m + 1 = 1
      <3>1. m = 0 \/ m < frame.PayloadLen
        BY <2>m, <2>1, <1>t DEF Lengths
      <3>2. frame.PayloadLen \in Nat
        BY <1>t DEF FrameFields, Word
      <3> QED BY <3>1, <3>2, <2>1
    <2>7. state' # "Sync1" /\ state' \notin HeaderStates /\ state' # "PayloadCRC2"
      BY <2>1 DEF HeaderStates
    <2>8. m + 1 > 0
      OBVIOUS
    <2> QED BY <2>1, <2>2, <2>4, <2>5, <2>6, <2>7, <2>8, <1>g DEF HeardInv
  <1>8. CASE PayloadCRC1(b)
    <2>m. PICK m \in Nat : m = Len(frame.Payload)
      BY <1>l
    <2>1. /\ p = 7 + m /\ state = "PayloadCRC1" /\ state' = "PayloadCRC2"
          /\ frame'.Payload = frame.Payload /\ frame'.ID = frame.ID
          /\ frame'.PayloadLen = frame.PayloadLen /\ frame'.PayloadCRC = b
      BY <2>m, <1>8, <1>p, <1>t DEF PayloadCRC1, Position, FrameFields
    <2>2. Stored' = Stored
      BY <2>1 DEF Stored
    <2>3. /\ \A i \in 1..5 : Heard(i)' = Stored'[i]
          /\ Heard(6)' = Low(CRC(Stored')) /\ Heard(7)' = High(CRC(Stored'))
      <3>1. /\ \A i \in 1..5 : Heard(i) = Stored[i]
            /\ Heard(6) = Low(CRC(Stored)) /\ Heard(7) = High(CRC(Stored))
        BY <2>1 DEF HeardInv, PayloadStates
      <3>2. \A i \in 1..7 : Heard(i)' = Heard(i)
        BY <2>1, <1>g
      <3> QED BY <3>1, <3>2, <2>2
    <2>4. ASSUME NEW i \in 1..m PROVE Heard(7 + i)' = frame'.Payload[i]
      <3>1. Heard(7 + i) = frame.Payload[i]
        BY <2>m, <2>1 DEF HeardInv, PayloadStates
      <3>2. 7 + i \in 1..p
        BY <2>1
      <3> QED BY <3>1, <3>2, <2>1, <1>g
    <2>5. Heard(8 + m)' = b
      <3>1. 8 + m = p + 1
        BY <2>1
      <3> QED BY <3>1, <2>1, <1>g
    <2>6. \/ frame'.PayloadLen = m /\ m > 0
          \/ frame'.PayloadLen = 0 /\ m = 1
      BY <2>m, <2>1 DEF HeardInv
    <2>7. Len(frame'.Payload) = m
      BY <2>m, <2>1
    <2> QED BY <2>1, <2>3, <2>4, <2>5, <2>6, <2>7, <1>g DEF HeardInv, HeaderStates
  <1>9. CASE PayloadCRC2(b)
    BY <1>9, <1>1 DEF PayloadCRC2
  <1> QED
    BY <1>g, <1>1, <1>3, <1>4, <1>5, <1>6, <1>7, <1>8, <1>9 DEF processByte

-----------------------------------------------------------------------------
(* A frame handed over.                                                    *)

LEMMA HandsOverHeard ==
    ASSUME CRCTyped, RxInv, RxInv', HeardInv, HeardByte, delivered' # delivered
    PROVE  Decoder!HandOver
  <1>b. PICK b : b = wire[1][pos + 1]
    OBVIOUS
  <1>p. PICK p : p = Position
    OBVIOUS
  <1>g. /\ b \in Byte /\ processByte(b) /\ p \in Nat
        /\ heard' \in Seq(Byte) /\ Len(heard') = Len(heard) + 1
    BY <1>b, <1>p, HeardGrows
  <1>t. /\ frame \in FrameFields /\ buffer \in Seq(Byte)
        /\ HalfWords /\ Lengths /\ ChecksumCoversFields
    BY DEF RxInv, Receiver
  <1>m. PICK m \in Nat : m = Len(frame.Payload)
    BY <1>t DEF FrameFields
  <1>1. PayloadCRC2(b)
    BY <1>g DEF processByte, Sync1, Sync2, FrameID, PayloadLen1, PayloadLen2, HeaderCRC1,
      HeaderCRC2, Payload, PayloadCRC1
  <1>f. PICK f : f = [ID |-> frame.ID, Data |-> frame.Payload]
    OBVIOUS
  <1>n. PICK n : n = frame.PayloadLen
    OBVIOUS
  <1>2. /\ state = "PayloadCRC2" /\ p = 8 + m
        /\ delivered' = Append(delivered, f)
        /\ CRC(buffer) = frame.PayloadCRC + 256 * b
    BY <1>1, <1>f, <1>m, <1>p DEF PayloadCRC2, Position
  <1>3. f \in FrameType /\ n \in Word /\ m = Len(f.Data) /\ f.Data = frame.Payload
    BY <1>t, <1>f, <1>n, <1>m DEF FrameType, FrameFields
  <1>4. frame.PayloadCRC = Low(CRC(f.Data)) /\ b = High(CRC(f.Data))
    <2>1. buffer = f.Data /\ frame.PayloadCRC \in Byte
      BY <1>2, <1>3, <1>t DEF ChecksumCoversFields, HalfWords
    <2> QED BY <2>1, <1>2, <1>g, WordOfBytes
  <1>5. /\ heard' = Append(heard, b) /\ heard \in Seq(Byte) /\ used \in Nat
        /\ used + p <= Len(heard) /\ Len(heard) \in Nat /\ used' = Len(heard')
    BY <1>b, <1>p DEF HeardByte, HeardInv
  <1>6. /\ \A j \in 1..Len(heard) : heard'[j] = heard[j]
        /\ heard'[Len(heard) + 1] = b
    BY <1>5, <1>g, AppendByte
  <1>k. PICK k \in Nat : k = Len(heard) - p
    <2>1. Len(heard) - p \in Nat
      BY <1>5, <1>g
    <2> QED BY <2>1
  <1>7. /\ Len(heard) = k + (8 + m) /\ Len(heard') = k + (m + 9) /\ used <= k
    BY <1>k, <1>2, <1>5, <1>g
  <1>8. ASSUME NEW i \in 1..(8 + m) PROVE heard'[k + i] = Heard(i)
    <2>1. k + i \in 1..Len(heard)
      BY <1>7
    <2> QED BY <2>1, <1>6, <1>k, <1>p DEF Heard
  <1>9. /\ \A i \in 1..5 : Heard(i) = Stored[i]
        /\ Heard(6) = Low(CRC(Stored)) /\ Heard(7) = High(CRC(Stored))
        /\ \A i \in 1..m : Heard(7 + i) = frame.Payload[i]
        /\ Heard(8 + m) = frame.PayloadCRC
        /\ \/ n = m /\ m > 0
           \/ n = 0 /\ m = 1
    BY <1>2, <1>m, <1>n DEF HeardInv, PayloadStates
  <1>h. PICK h : h = Stored
    OBVIOUS
  <1>10. PICK s : s = SubSeq(heard', k + 1, Len(heard'))
    OBVIOUS
  <1>11. s \in Seq(Byte) /\ Len(s) = m + 9 /\ \A i \in 1..(m + 9) : s[i] = heard'[k + i]
    <2>1. PICK w \in Seq(Byte) : w = heard'
      BY <1>g
    <2>2. PICK l \in Nat : l = m + 9
      OBVIOUS
    <2>3. Len(w) = k + l
      BY <2>1, <2>2, <1>7
    <2>4. /\ SubSeq(w, k + 1, Len(w)) \in Seq(Byte)
          /\ Len(SubSeq(w, k + 1, Len(w))) = l
          /\ \A i \in 1..l : SubSeq(w, k + 1, Len(w))[i] = w[k + i]
      BY <2>3, LastBytes
    <2> QED BY <2>1, <2>2, <2>4, <1>10
  <1>12. \A i \in 1..(8 + m) : s[i] = Heard(i)
    <2>1. \A i \in 1..(8 + m) : i \in 1..(m + 9)
      OBVIOUS
    <2> QED BY <2>1, <1>8, <1>11
  <1>13. LaidOut(s, h, f.Data)
    <2>1. \A i \in 1..5 : s[i] = h[i]
      <3>1. \A i \in 1..5 : i \in 1..(8 + m)
        OBVIOUS
      <3> QED BY <3>1, <1>9, <1>12, <1>h
    <2>2. s[6] = Low(CRC(h)) /\ s[7] = High(CRC(h))
      <3>1. 6 \in 1..(8 + m) /\ 7 \in 1..(8 + m)
        OBVIOUS
      <3> QED BY <3>1, <1>9, <1>12, <1>h
    <2>3. \A i \in 1..m : s[7 + i] = f.Data[i]
      <3>1. \A i \in 1..m : 7 + i \in 1..(8 + m)
        OBVIOUS
      <3> QED BY <3>1, <1>3, <1>9, <1>12
    <2>4. s[8 + m] = Low(CRC(f.Data))
      <3>1. 8 + m \in 1..(8 + m)
        OBVIOUS
      <3> QED BY <3>1, <1>4, <1>9, <1>12
    <2>5. s[9 + m] = High(CRC(f.Data))
      <3>1. 9 + m \in 1..(m + 9) /\ k + (9 + m) = Len(heard) + 1
        BY <1>7
      <3> QED BY <3>1, <1>4, <1>6, <1>11
    <2> QED BY <2>1, <2>2, <2>3, <2>4, <2>5, <1>3, <1>11 DEF LaidOut
  <1>14. s = Decoder!Announced(f, n)
    <2>1. LaidOut(Decoder!Announced(f, n), h, f.Data)
      <3>1. h = <<SyncByte1, SyncByte2, f.ID, Low(n), High(n)>>
        BY <1>f, <1>n, <1>h DEF Stored
      <3> QED BY <3>1, <1>3, AnnouncedLaidOut
    <2>2. f.Data \in Seq(Byte)
      BY <1>3 DEF FrameType
    <2> QED BY <2>1, <2>2, <1>13, LaidOutOnce
  <1>15. Decoder!FrameAfter(heard', k) = f
    <2>1. heard'[k + 3] = frame.ID
      <3>1. Stored[3] = frame.ID
        BY DEF Stored
      <3>2. 3 \in 1..(8 + m)
        OBVIOUS
      <3> QED BY <3>1, <3>2, <1>8, <1>9
    <2>2. SubSeq(heard', k + 8, Len(heard') - 2) = frame.Payload
      <3>1. PICK l : l = Len(heard') - 2
        OBVIOUS
      <3>2. l = k + 7 + m /\ l - (k + 8) + 1 = m /\ k + 8 \in Nat /\ l \in Nat
            /\ l <= Len(heard') /\ (m = 0 => ~(k + 8 <= l)) /\ (m > 0 => k + 8 <= l)
        BY <3>1, <1>7
      <3>3. PICK d : d = SubSeq(heard', k + 8, l)
        OBVIOUS
      <3>4. /\ d \in Seq(Byte)
            /\ Len(d) = IF k + 8 <= l THEN l - (k + 8) + 1 ELSE 0
            /\ \A i \in 1..(l - (k + 8) + 1) : d[i] = heard'[(k + 8) + i - 1]
        <4>1. PICK w \in Seq(Byte) : w = heard'
          BY <1>g
        <4>2. PICK j \in Nat : j = k + 8
          BY <3>2
        <4>3. \A i \in j..l : w[i] \in Byte
          BY <4>1, <4>2, <3>2
        <4>4. /\ SubSeq(w, j, l) \in Seq(Byte)
              /\ Len(SubSeq(w, j, l)) = IF j <= l THEN l - j + 1 ELSE 0
              /\ \A i \in 1..(l - j + 1) : SubSeq(w, j, l)[i] = w[j + i - 1]
          BY <4>3, <3>2, SubSeqProperties
        <4> QED BY <4>1, <4>2, <4>4, <3>3
      <3>5. Len(d) = m
        BY <3>2, <3>4
      <3>6. ASSUME NEW i \in 1..m PROVE d[i] = frame.Payload[i]
        <4>1. d[i] = heard'[k + (7 + i)]
          <5>1. (k + 8) + i - 1 = k + (7 + i)
            OBVIOUS
          <5> QED BY <5>1, <3>2, <3>4
        <4>2. 7 + i \in 1..(8 + m)
          OBVIOUS
        <4> QED BY <4>1, <4>2, <1>8, <1>9
      <3>7. frame.Payload \in Seq(Byte)
        BY <1>t DEF FrameFields
      <3> QED BY <3>1, <3>3, <3>4, <3>5, <3>6, <3>7, <1>m, SeqEqual
    <2> QED BY <2>1, <2>2, <1>f DEF Decoder!FrameAfter
  <1>16. k \in used..(Len(heard') - 10)
    <2>1. m >= 1
      BY <1>9
    <2> QED BY <2>1, <1>5, <1>7
  <1>17. n \in Decoder!Lengths(f)
    BY <1>3, <1>9 DEF Decoder!Lengths
  <1>18. Len(f.Data) <= MaxPayloadLength
    BY <1>2, <1>3, <1>t DEF Lengths
  <1>19. b \in 0..255
    BY <1>g DEF Byte
  <1> QED
    BY <1>2, <1>5, <1>10, <1>14, <1>15, <1>16, <1>17, <1>18, <1>19 DEF Decoder!HandOver

LEMMA HeardStep ==
    ASSUME CRCTyped, RxInv, HeardInv, [HeardNext]_<<vars, history>>
    PROVE  RxInv' /\ HeardInv' /\ [Decoder!Next]_(Decoder!decoder)
  <1>1. CASE UNCHANGED <<rx, history>> /\ [Next]_vars
    <2>1. RxInv'
      BY <1>1, RxInvNext
    <2>2. HeardInv' /\ UNCHANGED Decoder!decoder
      BY <1>1 DEF rx, history, HeardInv, HeaderStates, PayloadStates, Position,
        Heard, Stored, Decoder!decoder
    <2> QED BY <2>1, <2>2
  <1>2. CASE HeardByte
    <2>1. RxInv'
      BY <1>2, RxInvNext DEF HeardByte, Next
    <2>2. HeardInv'
      BY <2>1, <1>2, HeardInvByte
    <2>3. CASE delivered' # delivered
      BY <2>1, <2>2, <2>3, <1>2, HandsOverHeard DEF Decoder!Next
    <2>4. CASE delivered' = delivered
      <3>1. heard' = Append(heard, wire[1][pos + 1]) /\ used' = used
        BY <2>4, <1>2 DEF HeardByte
      <3>2. wire[1][pos + 1] \in 0..255
        <4>1. wire[1][pos + 1] \in Byte
          BY <1>2, NextByte DEF HeardByte, ReadByte, RxInv
        <4> QED BY <4>1 DEF Byte
      <3> QED BY <2>4, <3>1, <3>2, <2>1, <2>2 DEF Decoder!Hear, Decoder!Next
    <2> QED BY <2>1, <2>2, <2>3, <2>4
  <1> QED
    BY <1>1, <1>2 DEF HeardNext, Next, WriteWithFrameID, Disturb, vars, history

\* The receiver implements the decoder: whatever the line does, a frame comes
\* out only when the bytes heard last are that frame, both checksums right,
\* and no byte of an earlier one among them.
THEOREM UsockImplementsDecoder == ASSUME CRCTyped PROVE HeardSpec => ImplementsDecoder
  <1>1. HeardInit => RxInv /\ HeardInv /\ Decoder!Init
    BY RxInvInit, HeardInvInit DEF HeardInit, Init, Decoder!Init
  <1>2. RxInv /\ HeardInv /\ [HeardNext]_<<vars, history>>
          => RxInv' /\ HeardInv' /\ [Decoder!Next]_(Decoder!decoder)
    BY HeardStep
  <1> QED BY <1>1, <1>2, PTL DEF HeardSpec, ImplementsDecoder, Decoder!Spec

=============================================================================
