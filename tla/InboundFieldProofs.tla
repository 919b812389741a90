------------------------ MODULE InboundFieldProofs ------------------------
(***************************************************************************)
(* Proofs about what the messages of the nRF52 leave in Redis: types,      *)
(* fields, events and acknowledgments, for every set of messages, however  *)
(* their goroutines interleave and whatever calls fail or are repeated.    *)
(***************************************************************************)
EXTENDS InboundProofs, FiniteSetTheorems, SequenceTheorems

-----------------------------------------------------------------------------
(* The calls of the handlers.                                              *)

IsCall(c) ==
    \/ \E key, field, v : c = HSet(key, field, v)
    \/ \E key, field : c = HDel(key, field)
    \/ \E key, v : c = Publish(key, v)
    \/ \E list, v : c = LPush(list, v)
    \/ c = ResetAck

\* Calls in a sequence, in which a push comes alone.
AreCalls(s) ==
    /\ IsSeq(s, Len(s))
    /\ \A j \in 1..Len(s) : IsCall(s[j]) /\ (s[j].op = "lpush" => Len(s) = 1)

\* Calls in a sequence none of which is a push.
NoPush(s) == IsSeq(s, Len(s)) /\ \A j \in 1..Len(s) : IsCall(s[j]) /\ s[j].op # "lpush"

\* A call's operation tells how it was made.
LEMMA CallKinds ==
    ASSUME NEW c, IsCall(c)
    PROVE  /\ c.op = "lpush" => c = LPush(c.list, c.value)
           /\ c.op = "uart" => c = ResetAck
           /\ c.op \in {"hset", "hdel"} => "at" \in DOMAIN c
           /\ c = ResetAck => c.op = "uart"
           /\ \A list, v : c = LPush(list, v) => c.op = "lpush" /\ c.list = list /\ c.value = v
  <1>1. CASE \E key, field, v : c = HSet(key, field, v)
    BY <1>1 DEF HSet, LPush, ResetAck
  <1>2. CASE \E key, field : c = HDel(key, field)
    BY <1>2 DEF HDel, LPush, ResetAck
  <1>3. CASE \E key, v : c = Publish(key, v)
    BY <1>3 DEF Publish, LPush, ResetAck
  <1>4. CASE \E list, v : c = LPush(list, v)
    BY <1>4 DEF LPush, ResetAck
  <1>5. CASE c = ResetAck
    BY <1>5 DEF LPush, ResetAck
  <1> QED
    BY <1>1, <1>2, <1>3, <1>4, <1>5 DEF IsCall

LEMMA NoCalls == AreCalls(<<>>)
  BY DEF AreCalls, IsSeq

LEMMA OneCall == ASSUME NEW c, IsCall(c) PROVE AreCalls(<<c>>)
  BY DEF AreCalls, IsSeq

LEMMA OneNoPush == ASSUME NEW c, IsCall(c), c.op # "lpush" PROVE NoPush(<<c>>)
  BY DEF NoPush, IsSeq

LEMMA TwoNoPush ==
    ASSUME NEW c, NEW d, IsCall(c), IsCall(d), c.op # "lpush", d.op # "lpush"
    PROVE  NoPush(<<c, d>>)
  BY DEF NoPush, IsSeq

LEMMA NoPushCalls == ASSUME NEW s, NoPush(s) PROVE AreCalls(s)
  BY DEF NoPush, AreCalls

\* Sequences of such calls may be joined.
LEMMA JoinNoPush ==
    ASSUME NEW s, NEW t, NoPush(s), NoPush(t) PROVE NoPush(s \o t)
  <1> DEFINE m == Len(s)
             n == Len(t)
             S == {s[j] : j \in 1..m} \cup {t[j] : j \in 1..n}
  <1>1. m \in Nat /\ n \in Nat /\ s \in Seq(S) /\ t \in Seq(S)
    <2>1. m \in Nat /\ n \in Nat /\ s \in [1..m -> S] /\ t \in [1..n -> S]
      BY DEF NoPush, IsSeq
    <2> HIDE DEF S, m, n
    <2> QED
      BY <2>1
  <1>2. \A c \in S : IsCall(c) /\ c.op # "lpush"
    BY DEF NoPush
  <1> HIDE DEF S
  <1>3. s \o t \in Seq(S)
    BY <1>1
  <1>4. ASSUME NEW r, r \in Seq(S) PROVE NoPush(r)
    <2>1. IsSeq(r, Len(r)) /\ \A j \in 1..Len(r) : r[j] \in S
      BY <1>4 DEF IsSeq
    <2> QED
      BY <1>2, <2>1 DEF NoPush
  <1> QED
    BY <1>3, <1>4

\* WriteAndPublish makes two calls.
LEMMA WriteNoPush ==
    ASSUME NEW key, NEW field, NEW v
    PROVE  NoPush(WriteAndPublish(key, field, v))
  <1> DEFINE c == HSet(key, field, v)
             d == Publish(key, <<field, v>>)
  <1>1. IsCall(c) /\ IsCall(d) /\ c.op # "lpush" /\ d.op # "lpush"
    BY DEF IsCall, HSet, Publish
  <1>2. WriteAndPublish(key, field, v) = <<c, d>>
    BY DEF WriteAndPublish
  <1> HIDE DEF c, d
  <1> QED
    BY <1>1, <1>2, TwoNoPush

\* RemovePin makes three.
LEMMA RemovePinCalls == AreCalls(RemovePin)
  <1>1. IsCall(HDel("ble", "pin-code")) /\ HDel("ble", "pin-code").op # "lpush"
    BY DEF IsCall, HDel
  <1>2. NoPush(<<HDel("ble", "pin-code")>>)
    BY <1>1, OneNoPush
  <1> QED
    BY <1>2, WriteNoPush, JoinNoPush, NoPushCalls DEF RemovePin

\* A reset report leads to four.
LEMMA ResetCalls == ASSUME NEW key, NEW v PROVE AreCalls(handleBLEDebugMessage(key, v))
  <1> DEFINE count == HSet("power-manager", "nrf-reset-count", v[3])
             reason == WriteAndPublish("power-manager", "nrf-reset-reason", v[2])
  <1>1. IsCall(count) /\ count.op # "lpush" /\ IsCall(ResetAck) /\ ResetAck.op # "lpush"
    BY DEF IsCall, HSet, ResetAck
  <1>2. \/ handleBLEDebugMessage(key, v) = <<>>
        \/ handleBLEDebugMessage(key, v) = <<count>> \o reason \o <<ResetAck>>
    BY DEF handleBLEDebugMessage
  <1>3. NoPush(reason)
    BY WriteNoPush
  <1> HIDE DEF count, reason
  <1>4. NoPush(<<count>>) /\ NoPush(<<ResetAck>>)
    BY <1>1, OneNoPush
  <1>5. NoPush(<<count>> \o reason)
    BY <1>3, <1>4, JoinNoPush
  <1>6. NoPush(<<count>> \o reason \o <<ResetAck>>)
    BY <1>4, <1>5, JoinNoPush
  <1> QED
    BY <1>2, <1>6, NoCalls, NoPushCalls

\* The other writes are one call or none.
LEMMA WriteCalls ==
    ASSUME NEW key, NEW field, NEW v
    PROVE  /\ AreCalls(<<HSet(key, field, v)>>) /\ AreCalls(<<HDel(key, field)>>)
           /\ AreCalls(<<LPush(key, v)>>) /\ AreCalls(WriteAndPublish(key, field, v))
           /\ AreCalls(WriteInt(key, field, v)) /\ AreCalls(WriteText(key, field, v))
  <1>1. /\ \A w : IsCall(HSet(key, field, w))
        /\ IsCall(HDel(key, field)) /\ IsCall(LPush(key, v))
    BY DEF IsCall
  <1>2. AreCalls(WriteAndPublish(key, field, v))
    BY WriteNoPush, NoPushCalls
  <1>3. AreCalls(<<HSet(key, field, v)>>) /\ AreCalls(<<HSet(key, field, Text(v[2]))>>)
    BY <1>1, OneCall
  <1>4. AreCalls(<<HDel(key, field)>>) /\ AreCalls(<<LPush(key, v)>>)
    BY <1>1, OneCall
  <1>5. AreCalls(WriteInt(key, field, v)) /\ AreCalls(WriteText(key, field, v))
    BY <1>3, NoCalls DEF WriteInt, WriteText
  <1> QED
    BY <1>2, <1>3, <1>4, <1>5

\* Each handler makes calls, and a push only by itself.
LEMMA StatusCalls ==
    ASSUME NEW n
    PROVE  AreCalls(AlertOps(n)) /\ AreCalls(ProtectionOps(n)) /\ AreCalls(BattStatusOps(n))
  <1>1. \A key, code, field : AreCalls(writeFault(key, code, field))
    BY WriteCalls DEF writeFault
  <1>2. \A key, field : AreCalls(clearFault(key, field))
    BY WriteCalls DEF clearFault
  <1>3. AreCalls(AlertOps(n))
    BY <1>1, <1>2 DEF AlertOps
  <1>4. AreCalls(ProtectionOps(n))
    BY <1>1, <1>2 DEF ProtectionOps
  <1>5. AreCalls(BattStatusOps(n))
    BY <1>1, <1>2 DEF BattStatusOps
  <1> QED
    BY <1>3, <1>4, <1>5

LEMMA HandlersCalls ==
    ASSUME NEW type, NEW key, NEW v
    PROVE  /\ AreCalls(handleScooterInfoMessage(key, v))
           /\ AreCalls(handleBLEVersionMessage(key, v))
           /\ AreCalls(handleDataStreamMessage(key, v))
           /\ AreCalls(handleAuxBatteryMessage(key, v))
           /\ AreCalls(handleBLEParamMessage(type, key, v))
           /\ AreCalls(handleBatteryInfoMessage(key, v))
           /\ AreCalls(handleEventMessage(v))
           /\ AreCalls(handlePowerMuxMessage(v))
  <1>1. AreCalls(handleScooterInfoMessage(key, v))
    BY WriteCalls, NoCalls DEF handleScooterInfoMessage
  <1>2. AreCalls(handleBLEVersionMessage(key, v))
    BY WriteCalls, NoCalls DEF handleBLEVersionMessage
  <1>3. AreCalls(handleDataStreamMessage(key, v))
    BY WriteCalls, NoCalls DEF handleDataStreamMessage
  <1>4. AreCalls(handleAuxBatteryMessage(key, v))
    BY WriteCalls, NoCalls DEF handleAuxBatteryMessage
  <1>5. AreCalls(handleBLEParamMessage(type, key, v))
    BY WriteCalls, RemovePinCalls, NoCalls DEF handleBLEParamMessage
  <1>6. AreCalls(handleBatteryInfoMessage(key, v))
    BY WriteCalls, StatusCalls, NoCalls DEF handleBatteryInfoMessage
  <1>7. AreCalls(handleEventMessage(v))
    BY WriteCalls, NoCalls DEF handleEventMessage
  <1>8. AreCalls(handlePowerMuxMessage(v))
    BY WriteCalls, NoCalls DEF handlePowerMuxMessage
  <1> QED
    BY <1>1, <1>2, <1>3, <1>4, <1>5, <1>6, <1>7, <1>8

LEMMA OpsCalls == ASSUME NEW p PROVE AreCalls(OpsOf(p))
  <1> QED
    BY HandlersCalls, ResetCalls, NoCalls
    DEF OpsOf, Ops, handleBatteryMessage, handleVehicleStateMessage,
        handlePowerManagementMessage, handleBLECommandMessage

\* What is left after the first of some calls.
LEMMA TailCalls ==
    ASSUME NEW s, AreCalls(s), s # <<>>
    PROVE  /\ Len(s) \in Nat \ {0} /\ Head(s) = s[1] /\ IsCall(s[1])
           /\ AreCalls(Tail(s)) /\ Len(Tail(s)) = Len(s) - 1
           /\ \A j \in 1..(Len(s) - 1) : Tail(s)[j] = s[j + 1]
           /\ s[1].op = "lpush" => Tail(s) = <<>>
           /\ \A j \in 1..Len(s) : s[j].op = "lpush" => s[j] = s[1] /\ Len(s) = 1
  <1> DEFINE n == Len(s)
             S == {s[j] : j \in 1..n}
  <1>1. n \in Nat /\ s \in Seq(S)
    <2>1. n \in Nat /\ s \in [1..n -> S]
      BY DEF AreCalls, IsSeq
    <2> HIDE DEF S, n
    <2> QED
      BY <2>1
  <1> HIDE DEF S
  <1>2. n > 0 /\ Head(s) = s[1]
    BY <1>1
  <1>3. /\ Tail(s) \in Seq(S) /\ Len(Tail(s)) = n - 1
        /\ \A j \in 1..(n - 1) : Tail(s)[j] = s[j + 1]
    BY <1>1, <1>2
  <1>4. \A j \in 1..n : IsCall(s[j]) /\ (s[j].op = "lpush" => n = 1)
    BY DEF AreCalls
  <1>5. \A j \in 1..n : s[j].op = "lpush" => s[j] = s[1] /\ n = 1
    BY <1>1, <1>4
  <1>6. AreCalls(Tail(s))
    <2>1. IsSeq(Tail(s), n - 1)
      <3> DEFINE t == Tail(s)
                 k == Len(t)
      <3>1. t \in Seq(S) /\ k = n - 1
        BY <1>3
      <3> HIDE DEF t
      <3>2. IsSeq(t, k)
        BY <3>1 DEF IsSeq
      <3> QED
        BY <3>1, <3>2 DEF t
    <2>2. \A j \in 1..(n - 1) : IsCall(Tail(s)[j]) /\ Tail(s)[j].op # "lpush"
      BY <1>1, <1>3, <1>4
    <2> QED
      BY <1>3, <2>1, <2>2 DEF AreCalls
  <1>7. ASSUME s[1].op = "lpush" PROVE Tail(s) = <<>>
    BY <1>1, <1>2, <1>3, <1>4, <1>7
  <1> QED
    BY <1>1, <1>2, <1>3, <1>4, <1>5, <1>6, <1>7

\* Call d announces what call c writes.
Announces(d, c) ==
    \E key, field, v : c = HSet(key, field, v) /\ d = Publish(key, <<field, v>>)

\* In s, every publication but the first call, or every one, announces what the
\* call before it writes.
RestAnnounces(s) ==
    \A j \in 2..Len(s) : s[j].op = "publish" => Announces(s[j], s[j - 1])
AllAnnounces(s) ==
    /\ IsSeq(s, Len(s))
    /\ \A j \in 1..Len(s) : s[j].op = "publish" => j # 1 /\ Announces(s[j], s[j - 1])

LEMMA NothingAnnounced == AllAnnounces(<<>>)
  BY DEF AllAnnounces, IsSeq

LEMMA OneAnnounces == ASSUME NEW c, c.op # "publish" PROVE AllAnnounces(<<c>>)
  BY DEF AllAnnounces, IsSeq

LEMMA TwoAnnounce ==
    ASSUME NEW c, NEW d, c.op # "publish", Announces(d, c)
    PROVE  AllAnnounces(<<c, d>>)
  BY DEF AllAnnounces, IsSeq

\* Such sequences may be joined.
LEMMA JoinAnnounces ==
    ASSUME NEW s, NEW t, AllAnnounces(s), AllAnnounces(t) PROVE AllAnnounces(s \o t)
  <1> DEFINE m == Len(s)
             n == Len(t)
             S == {s[j] : j \in 1..m} \cup {t[j] : j \in 1..n}
  <1>1. m \in Nat /\ n \in Nat /\ s \in Seq(S) /\ t \in Seq(S)
    <2>1. m \in Nat /\ n \in Nat /\ s \in [1..m -> S] /\ t \in [1..n -> S]
      BY DEF AllAnnounces, IsSeq
    <2> HIDE DEF S, m, n
    <2> QED
      BY <2>1
  <1>2. /\ \A j \in 1..m : s[j].op = "publish" => j # 1 /\ Announces(s[j], s[j - 1])
        /\ \A j \in 1..n : t[j].op = "publish" => j # 1 /\ Announces(t[j], t[j - 1])
    BY DEF AllAnnounces
  <1> HIDE DEF S
  <1>3. PICK r : r = s \o t
    OBVIOUS
  <1>4. /\ r \in Seq(S) /\ Len(r) = m + n
        /\ \A j \in 1..m : r[j] = s[j]
        /\ \A j \in 1..n : r[m + j] = t[j]
    BY <1>1, <1>3
  <1>5. IsSeq(r, Len(r))
    BY <1>4 DEF IsSeq
  <1> HIDE DEF m, n
  <1>6. ASSUME NEW j \in 1..(m + n), r[j].op = "publish"
        PROVE  j # 1 /\ Announces(r[j], r[j - 1])
    <2>1. CASE j \in 1..m
      <3>1. r[j] = s[j] /\ j # 1 /\ Announces(s[j], s[j - 1])
        BY <1>2, <1>4, <1>6, <2>1
      <3>2. j - 1 \in 1..m
        BY <1>1, <2>1, <3>1 DEF m
      <3> QED
        BY <1>4, <3>1, <3>2
    <2>2. CASE j \notin 1..m
      <3>1. PICK k \in 1..n : j = m + k
        <4>1. j - m \in 1..n /\ j = m + (j - m)
          BY <1>1, <2>2 DEF m, n
        <4> QED
          BY <4>1
      <3>2. r[j] = t[k] /\ k # 1 /\ Announces(t[k], t[k - 1])
        BY <1>2, <1>4, <1>6, <3>1
      <3>3. k - 1 \in 1..n /\ j - 1 = m + (k - 1) /\ j # 1
        BY <1>1, <3>1, <3>2 DEF m, n
      <3> QED
        BY <1>4, <3>2, <3>3
    <2> QED
      BY <2>1, <2>2
  <1> QED
    BY <1>3, <1>4, <1>5, <1>6 DEF AllAnnounces

\* WriteAndPublish stores the value before it announces it.
LEMMA WriteAnnounces ==
    ASSUME NEW key, NEW field, NEW v
    PROVE  AllAnnounces(WriteAndPublish(key, field, v))
  <1> DEFINE c == HSet(key, field, v)
             d == Publish(key, <<field, v>>)
  <1>1. c.op # "publish"
    BY DEF HSet
  <1>2. Announces(d, c)
    BY DEF Announces
  <1>3. WriteAndPublish(key, field, v) = <<c, d>>
    BY DEF WriteAndPublish
  <1> HIDE DEF c, d
  <1> QED
    BY <1>1, <1>2, <1>3, TwoAnnounce

LEMMA RemovePinAnnounces == AllAnnounces(RemovePin)
  <1>1. AllAnnounces(<<HDel("ble", "pin-code")>>)
    BY OneAnnounces DEF HDel
  <1> QED
    BY <1>1, WriteAnnounces, JoinAnnounces DEF RemovePin

LEMMA ResetAnnounces ==
    ASSUME NEW key, NEW v PROVE AllAnnounces(handleBLEDebugMessage(key, v))
  <1> DEFINE count == HSet("power-manager", "nrf-reset-count", v[3])
             reason == WriteAndPublish("power-manager", "nrf-reset-reason", v[2])
  <1>1. count.op # "publish" /\ ResetAck.op # "publish"
    BY DEF HSet, ResetAck
  <1>2. \/ handleBLEDebugMessage(key, v) = <<>>
        \/ handleBLEDebugMessage(key, v) = <<count>> \o reason \o <<ResetAck>>
    BY DEF handleBLEDebugMessage
  <1>3. AllAnnounces(reason)
    BY WriteAnnounces
  <1> HIDE DEF count, reason
  <1>4. AllAnnounces(<<count>>) /\ AllAnnounces(<<ResetAck>>)
    BY <1>1, OneAnnounces
  <1>5. AllAnnounces(<<count>> \o reason)
    BY <1>3, <1>4, JoinAnnounces
  <1>6. AllAnnounces(<<count>> \o reason \o <<ResetAck>>)
    BY <1>4, <1>5, JoinAnnounces
  <1> QED
    BY <1>2, <1>6, NothingAnnounced

\* The other writes announce nothing.
LEMMA WritesAnnounce ==
    ASSUME NEW key, NEW field, NEW v
    PROVE  /\ AllAnnounces(<<HSet(key, field, v)>>) /\ AllAnnounces(<<HDel(key, field)>>)
           /\ AllAnnounces(<<LPush(key, v)>>)
           /\ AllAnnounces(WriteInt(key, field, v)) /\ AllAnnounces(WriteText(key, field, v))
  <1>1. \A w : HSet(key, field, w).op # "publish"
    BY DEF HSet
  <1>2. HDel(key, field).op # "publish" /\ LPush(key, v).op # "publish"
    BY DEF HDel, LPush
  <1>3. \A w : AllAnnounces(<<HSet(key, field, w)>>)
    BY <1>1, OneAnnounces
  <1>4. AllAnnounces(<<HDel(key, field)>>) /\ AllAnnounces(<<LPush(key, v)>>)
    BY <1>2, OneAnnounces
  <1>5. AllAnnounces(WriteInt(key, field, v)) /\ AllAnnounces(WriteText(key, field, v))
    BY <1>3, NothingAnnounced DEF WriteInt, WriteText
  <1> QED
    BY <1>3, <1>4, <1>5

LEMMA StatusAnnounces ==
    ASSUME NEW n
    PROVE  /\ AllAnnounces(AlertOps(n)) /\ AllAnnounces(ProtectionOps(n))
           /\ AllAnnounces(BattStatusOps(n))
  <1>1. \A key, code, field : AllAnnounces(writeFault(key, code, field))
    BY WritesAnnounce DEF writeFault
  <1>2. \A key, field : AllAnnounces(clearFault(key, field))
    BY WritesAnnounce DEF clearFault
  <1>3. AllAnnounces(AlertOps(n))
    BY <1>1, <1>2 DEF AlertOps
  <1>4. AllAnnounces(ProtectionOps(n))
    BY <1>1, <1>2 DEF ProtectionOps
  <1>5. AllAnnounces(BattStatusOps(n))
    BY <1>1, <1>2 DEF BattStatusOps
  <1> QED
    BY <1>3, <1>4, <1>5

LEMMA HandlersAnnounce ==
    ASSUME NEW type, NEW key, NEW v
    PROVE  /\ AllAnnounces(handleScooterInfoMessage(key, v))
           /\ AllAnnounces(handleBLEVersionMessage(key, v))
           /\ AllAnnounces(handleDataStreamMessage(key, v))
           /\ AllAnnounces(handleAuxBatteryMessage(key, v))
           /\ AllAnnounces(handleBLEParamMessage(type, key, v))
           /\ AllAnnounces(handleBatteryInfoMessage(key, v))
           /\ AllAnnounces(handleEventMessage(v))
           /\ AllAnnounces(handlePowerMuxMessage(v))
  <1>1. AllAnnounces(handleScooterInfoMessage(key, v))
    BY WritesAnnounce, NothingAnnounced DEF handleScooterInfoMessage
  <1>2. AllAnnounces(handleBLEVersionMessage(key, v))
    BY WritesAnnounce, NothingAnnounced DEF handleBLEVersionMessage
  <1>3. AllAnnounces(handleDataStreamMessage(key, v))
    BY WritesAnnounce, NothingAnnounced DEF handleDataStreamMessage
  <1>4. AllAnnounces(handleAuxBatteryMessage(key, v))
    BY WritesAnnounce, NothingAnnounced DEF handleAuxBatteryMessage
  <1>5. AllAnnounces(handleBLEParamMessage(type, key, v))
    BY WritesAnnounce, WriteAnnounces, RemovePinAnnounces, NothingAnnounced
    DEF handleBLEParamMessage
  <1>6. AllAnnounces(handleBatteryInfoMessage(key, v))
    BY WritesAnnounce, StatusAnnounces, NothingAnnounced DEF handleBatteryInfoMessage
  <1>7. AllAnnounces(handleEventMessage(v))
    BY WritesAnnounce, NothingAnnounced DEF handleEventMessage
  <1>8. AllAnnounces(handlePowerMuxMessage(v))
    BY WriteAnnounces, NothingAnnounced DEF handlePowerMuxMessage
  <1> QED
    BY <1>1, <1>2, <1>3, <1>4, <1>5, <1>6, <1>7, <1>8

LEMMA OpsAnnounce == ASSUME NEW p PROVE AllAnnounces(OpsOf(p))
  <1> QED
    BY HandlersAnnounce, ResetAnnounces, NothingAnnounced
    DEF OpsOf, Ops, handleBatteryMessage, handleVehicleStateMessage,
        handlePowerManagementMessage, handleBLECommandMessage

-----------------------------------------------------------------------------
(* What is left of a handler's calls.                                      *)

\* s is what is left of the sequence t.
IsRest(s, t) ==
    /\ IsSeq(s, Len(s))
    /\ \E k \in 0..Len(t) : Len(s) = Len(t) - k /\ \A j \in 1..Len(s) : s[j] = t[k + j]

LEMMA RestWhole == ASSUME NEW t, AreCalls(t) PROVE IsRest(t, t)
  <1>1. Len(t) \in Nat /\ IsSeq(t, Len(t))
    BY DEF AreCalls, IsSeq
  <1> DEFINE n == Len(t)
  <1>2. 0 \in 0..n /\ n = n - 0 /\ \A j \in 1..n : t[j] = t[0 + j]
    BY <1>1
  <1> QED
    BY <1>1, <1>2 DEF IsRest

\* The calls left are some of the handler's, with every publication but the
\* first of them behind what it announces; the last write to a field is the
\* handler's last.
LEMMA RestCalls ==
    ASSUME NEW p, NEW s, IsRest(s, OpsOf(p))
    PROVE  /\ AreCalls(s) /\ RestAnnounces(s)
           /\ \A j \in 1..Len(s) : s[j] \in ToSet(OpsOf(p))
           /\ \A at : FinalWrites(s, at) \subseteq FinalWrites(OpsOf(p), at)
  <1>1. PICK t : t = OpsOf(p)
    OBVIOUS
  <1>2. AreCalls(t) /\ AllAnnounces(t)
    BY <1>1, OpsCalls, OpsAnnounce
  <1> DEFINE m == Len(s)
             n == Len(t)
  <1>3. m \in Nat /\ n \in Nat /\ IsSeq(s, m) /\ DOMAIN s = 1..m /\ DOMAIN t = 1..n
    BY <1>1, <1>2, LenIsSeq DEF IsRest, AreCalls, IsSeq
  <1>4. PICK k \in 0..n : m = n - k /\ \A j \in 1..m : s[j] = t[k + j]
    BY <1>1 DEF IsRest
  <1>5. /\ \A j \in 1..n : IsCall(t[j]) /\ (t[j].op = "lpush" => n = 1)
        /\ \A j \in 1..n : t[j].op = "publish" => Announces(t[j], t[j - 1])
    BY <1>2 DEF AreCalls, AllAnnounces
  <1> HIDE DEF m, n
  <1>6. ASSUME NEW j \in 1..m PROVE k + j \in 1..n /\ s[j] = t[k + j]
    BY <1>3, <1>4
  <1>7. AreCalls(s)
    <2> SUFFICES ASSUME NEW j \in 1..m PROVE IsCall(s[j]) /\ (s[j].op = "lpush" => m = 1)
      BY <1>3 DEF AreCalls, m
    <2>1. n = 1 => m = 1
      BY <1>3, <1>4
    <2> QED
      BY <1>5, <1>6, <2>1
  <1>8. RestAnnounces(s)
    <2> SUFFICES ASSUME NEW j \in 2..m, s[j].op = "publish" PROVE Announces(s[j], s[j - 1])
      BY DEF RestAnnounces, m
    <2>1. j \in 1..m /\ j - 1 \in 1..m /\ k + (j - 1) = (k + j) - 1
      BY <1>3
    <2> QED
      BY <1>5, <1>6, <2>1
  <1>9. \A j \in 1..m : s[j] \in ToSet(t)
    BY <1>3, <1>6 DEF ToSet
  <1>10. ASSUME NEW at, NEW c \in FinalWrites(s, at) PROVE c \in FinalWrites(t, at)
    <2>1. PICK j \in 1..m : /\ c = s[j] /\ Writes(s[j], at)
                            /\ \A l \in 1..m : l > j => ~Writes(s[l], at)
      BY <1>3, <1>10 DEF FinalWrites
    <2>2. k + j \in 1..n /\ c = t[k + j] /\ Writes(t[k + j], at)
      BY <1>6, <2>1
    <2>3. ASSUME NEW l \in 1..n, l > k + j PROVE ~Writes(t[l], at)
      <3>1. l - k \in 1..m /\ l - k > j /\ k + (l - k) = l
        BY <1>3, <1>4, <2>3
      <3> QED
        BY <1>6, <2>1, <3>1
    <2> QED
      BY <1>3, <2>2, <2>3 DEF FinalWrites
  <1> QED
    BY <1>1, <1>7, <1>8, <1>9, <1>10 DEF m

\* A call that is made leaves less of them.
LEMMA RestTail ==
    ASSUME NEW p, NEW s, IsRest(s, OpsOf(p)), s # <<>>
    PROVE  IsRest(Tail(s), OpsOf(p))
  <1>1. PICK t : t = OpsOf(p)
    OBVIOUS
  <1>2. PICK r : r = Tail(s)
    OBVIOUS
  <1> DEFINE m == Len(s)
             n == Len(t)
  <1>3. /\ m \in Nat \ {0} /\ IsSeq(r, Len(r)) /\ Len(r) = m - 1
        /\ \A j \in 1..(m - 1) : r[j] = s[j + 1]
    BY <1>2, RestCalls, TailCalls DEF AreCalls
  <1>4. n \in Nat
    BY <1>1, OpsCalls DEF AreCalls, IsSeq
  <1>5. PICK k \in 0..n : m = n - k /\ \A j \in 1..m : s[j] = t[k + j]
    BY <1>1 DEF IsRest
  <1> HIDE DEF m, n
  <1>6. k + 1 \in 0..n /\ m - 1 = n - (k + 1)
    BY <1>3, <1>4, <1>5
  <1>7. ASSUME NEW j \in 1..(m - 1) PROVE r[j] = t[(k + 1) + j]
    <2>1. j + 1 \in 1..m /\ k + (j + 1) = (k + 1) + j
      BY <1>3
    <2> QED
      BY <1>3, <1>5, <2>1
  <1> QED
    BY <1>1, <1>2, <1>3, <1>6, <1>7 DEF IsRest, n

\* Every call of s is one of r.
Keeps(r, s) == \A j \in 1..Len(s) : \E l \in 1..Len(r) : r[l] = s[j]

\* A pipeline that is repeated is what was left before its first call.
LEMMA RestRestarted ==
    ASSUME NEW p, NEW s, IsRest(s, OpsOf(p)), s # <<>>
    PROVE  /\ IsRest(Restarted(s[1], s), OpsOf(p))
           /\ s[1].op # "publish" => Restarted(s[1], s) = s
           /\ s[1].op = "publish" => Restarted(s[1], s)[1].op = "hset"
           /\ Keeps(Restarted(s[1], s), s)
  <1>1. PICK t : t = OpsOf(p)
    OBVIOUS
  <1>2. PICK c : c = s[1]
    OBVIOUS
  <1>3. CASE c.op # "publish"
    <2>1. Restarted(c, s) = s
      BY <1>3 DEF Restarted
    <2>2. Keeps(s, s)
      BY DEF Keeps
    <2> QED
      BY <1>2, <1>3, <2>1, <2>2
  <1>4. CASE c.op = "publish"
    <2> DEFINE m == Len(s)
               n == Len(t)
    <2>1. m \in Nat \ {0} /\ n \in Nat /\ IsSeq(s, m)
      <3>1. m \in Nat \ {0}
        BY RestCalls, TailCalls
      <3> QED
        BY <1>1, <3>1, OpsCalls DEF IsRest, AreCalls, IsSeq
    <2>2. PICK k \in 0..n : m = n - k /\ \A j \in 1..m : s[j] = t[k + j]
      BY <1>1 DEF IsRest
    <2>3. \A j \in 1..n : t[j].op = "publish" => j # 1 /\ Announces(t[j], t[j - 1])
      BY <1>1, OpsAnnounce DEF AllAnnounces
    <2> HIDE DEF m, n
    <2>4. k + 1 \in 1..n /\ c = t[k + 1]
      BY <1>2, <2>1, <2>2
    <2>5. k + 1 # 1 /\ Announces(c, t[k])
      <3>1. (k + 1) - 1 = k
        BY <2>1
      <3> QED
        BY <1>4, <2>3, <2>4, <3>1
    <2>6. PICK h : h = t[k]
      OBVIOUS
    <2>7. HSet(c.channel, c.payload[1], c.payload[2]) = h /\ h.op = "hset"
      <3>1. PICK key, field, v : h = HSet(key, field, v) /\ c = Publish(key, <<field, v>>)
        BY <2>5, <2>6 DEF Announces
      <3> QED
        BY <3>1 DEF HSet, Publish
    <2>8. PICK r : r = <<h>> \o s
      OBVIOUS
    <2>9. Restarted(c, s) = r
      BY <1>4, <2>7, <2>8 DEF Restarted
    <2>10. /\ IsSeq(r, m + 1) /\ Len(r) = m + 1 /\ r[1] = h
           /\ \A j \in 1..m : r[j + 1] = s[j]
      <3> DEFINE S == {s[j] : j \in 1..m} \cup {h}
      <3>1. s \in [1..m -> S] /\ h \in S
        BY <2>1 DEF IsSeq
      <3> HIDE DEF S
      <3>2. s \in Seq(S) /\ <<h>> \in Seq(S) /\ Len(<<h>>) = 1 /\ <<h>>[1] = h
        BY <2>1, <3>1
      <3>3. /\ r \in Seq(S) /\ Len(r) = 1 + Len(s)
            /\ r[1] = h /\ \A j \in 1..Len(s) : r[j + 1] = s[j]
        BY <2>8, <3>2
      <3>4. Len(r) = m + 1 /\ DOMAIN r = 1..(m + 1) /\ r = [i \in DOMAIN r |-> r[i]]
        BY <2>1, <3>3 DEF m
      <3> QED
        BY <2>1, <3>3, <3>4 DEF IsSeq, m
    <2>11. k - 1 \in 0..n /\ m + 1 = n - (k - 1)
      BY <2>1, <2>2, <2>5
    <2>12. ASSUME NEW j \in 1..(m + 1) PROVE r[j] = t[(k - 1) + j]
      <3>1. CASE j = 1
        <4>1. (k - 1) + 1 = k
          BY <2>1
        <4> QED
          BY <2>6, <2>10, <3>1, <4>1
      <3>2. CASE j # 1
        <4>1. j - 1 \in 1..m /\ (j - 1) + 1 = j /\ k + (j - 1) = (k - 1) + j
          BY <2>1, <3>2
        <4> QED
          BY <2>2, <2>10, <4>1
      <3> QED
        BY <3>1, <3>2
    <2>13. IsRest(r, t)
      BY <2>10, <2>11, <2>12 DEF IsRest, n
    <2>14. Keeps(r, s)
      <3>1. \A j \in 1..m : j + 1 \in 1..Len(r) /\ r[j + 1] = s[j]
        BY <2>1, <2>10
      <3> QED
        BY <3>1 DEF Keeps, m
    <2> QED
      BY <1>1, <1>2, <1>4, <2>7, <2>9, <2>10, <2>13, <2>14
  <1> QED
    BY <1>3, <1>4

-----------------------------------------------------------------------------
(* Types.                                                                  *)

\* TypeOK, in terms of the messages' numbers, and what it needs.
Goroutines ==
    \A i \in 1..N :
        /\ received[i] \in Messages
        /\ params[i] \subseteq Handled(received[i])
        /\ calls[i] # <<>> => \E p \in Handled(received[i]) : IsRest(calls[i], OpsOf(p))
        /\ tries[i] \in 0..MaxRetries /\ (calls[i] = <<>> => tries[i] = 0)
        /\ before[i] \subseteq 1..(i - 1)
KnownFields == \A at \in DOMAIN store : \E i \in 1..N : at \in Touched(received[i])
Counted ==
    /\ IsFiniteSet(Disturbed) /\ Cardinality(Disturbed) <= MaxFaults
    /\ \A f \in Disturbed : f[1] \in 1..N /\ f[2] \in AllOps(received[f[1]])
    /\ \A f \in DOMAIN repeated : repeated[f] \in Nat
    /\ acked \subseteq 1..N

TInv == IInv /\ Goroutines /\ KnownFields /\ Counted

\* The calls left for a message are some of its handlers'.
LEMMA CallsLeft ==
    ASSUME TInv, NEW i \in 1..N
    PROVE  /\ AreCalls(calls[i]) /\ RestAnnounces(calls[i])
           /\ \A j \in 1..Len(calls[i]) : calls[i][j] \in AllOps(received[i])
           /\ \A at : \A c \in FinalWrites(calls[i], at) : Value(c) \in Leaves(received[i], at)
  <1>1. CASE calls[i] = <<>>
    <2>1. Len(<<>>) = 0
      OBVIOUS
    <2>2. RestAnnounces(<<>>)
      BY <2>1 DEF RestAnnounces
    <2>3. \A at : FinalWrites(<<>>, at) = {}
      BY DEF FinalWrites
    <2> QED
      BY <1>1, <2>1, <2>2, <2>3, NoCalls
  <1>2. CASE calls[i] # <<>>
    <2>1. PICK p \in Handled(received[i]) : IsRest(calls[i], OpsOf(p))
      BY <1>2 DEF TInv, Goroutines
    <2>2. /\ AreCalls(calls[i]) /\ RestAnnounces(calls[i])
          /\ \A j \in 1..Len(calls[i]) : calls[i][j] \in ToSet(OpsOf(p))
          /\ \A at : FinalWrites(calls[i], at) \subseteq FinalWrites(OpsOf(p), at)
      BY <2>1, RestCalls
    <2>3. \A c \in ToSet(OpsOf(p)) : c \in AllOps(received[i])
      BY DEF AllOps
    <2>4. \A at : \A c \in FinalWrites(OpsOf(p), at) : Value(c) \in Leaves(received[i], at)
      BY DEF Leaves
    <2> QED
      BY <2>2, <2>3, <2>4
  <1> QED
    BY <1>1, <1>2

LEMMA TInvTypeOK == TInv => TypeOK
  <1> SUFFICES ASSUME TInv PROVE TypeOK
    OBVIOUS
  <1>1. /\ N \in Nat /\ DOMAIN received = 1..N /\ DOMAIN calls = 1..N
        /\ DOMAIN params = 1..N /\ DOMAIN tries = 1..N /\ DOMAIN before = 1..N
        /\ DOMAIN lists = 1..L
    BY Domains DEF TInv, IInv
  <1>2. ToSet(received) \subseteq Messages
    BY <1>1 DEF ToSet, TInv, Goroutines
  <1>3. ASSUME NEW i \in 1..N
        PROVE  /\ params[i] \subseteq Handled(received[i])
               /\ ToSet(calls[i]) \cup {f[2] : f \in {g \in Disturbed : g[1] = i}}
                    \subseteq AllOps(received[i])
               /\ tries[i] \in 0..MaxRetries
               /\ before[i] \subseteq 1..(i - 1)
    <2>1. DOMAIN calls[i] = 1..Len(calls[i])
      BY CallsLeft, LenIsSeq DEF AreCalls
    <2>2. ToSet(calls[i]) \subseteq AllOps(received[i])
      BY <2>1, CallsLeft DEF ToSet
    <2>3. {f[2] : f \in {g \in Disturbed : g[1] = i}} \subseteq AllOps(received[i])
      BY DEF TInv, Counted
    <2> QED
      BY <2>2, <2>3 DEF TInv, Goroutines
  <1>4. DOMAIN store \subseteq UNION {Touched(received[i]) : i \in 1..N}
    BY DEF TInv, KnownFields
  <1>5. \A e \in ToSet(lists) : e[1] \in 1..N
    BY <1>1 DEF ToSet, TInv, IInv, Shape
  <1>6. acked \cup {f[1] : f \in Disturbed} \subseteq 1..N /\ Cardinality(Disturbed) <= MaxFaults
    BY DEF TInv, Counted
  <1> QED
    BY <1>1, <1>2, <1>3, <1>4, <1>5, <1>6 DEF TypeOK

LEMMA InitTInv == Init => TInv
  <1> SUFFICES ASSUME Init PROVE TInv
    OBVIOUS
  <1>1. IInv
    BY InitIInv
  <1>2. N = 0
    BY DEF Init, N
  <1>3. Goroutines
    BY <1>2 DEF Goroutines
  <1>4. KnownFields
    BY DEF Init, KnownFields
  <1>5. Counted
    <2>1. Cardinality({}) = 0 /\ IsFiniteSet({})
      BY FS_EmptySet
    <2>2. failed = {} /\ DOMAIN repeated = {} /\ acked = {}
      BY DEF Init, EmptyBag, SetToBag
    <2>3. Disturbed = {}
      BY <2>2 DEF Disturbed, BagToSet
    <2> QED
      BY <2>1, <2>2, <2>3, BoundsAssumption DEF Counted
  <1> QED
    BY <1>1, <1>3, <1>4, <1>5 DEF TInv

\* What a message received does to the sequences.
LEMMA ReceiveSteps ==
    ASSUME TInv, NEW m, Receive(m)
    PROVE  /\ N' = N + 1 /\ N \in Nat /\ L' = L
           /\ \A i \in 1..N : /\ received'[i] = received[i] /\ params'[i] = params[i]
                              /\ calls'[i] = calls[i] /\ tries'[i] = tries[i]
                              /\ before'[i] = before[i]
           /\ received'[N + 1] = m /\ params'[N + 1] = Handled(m)
           /\ calls'[N + 1] = <<>> /\ tries'[N + 1] = 0
           /\ before'[N + 1] = {i \in 1..N : Done(i)}
           /\ UNCHANGED <<store, lists, published, acked, failed, repeated>>
  <1> DEFINE D == {i \in DOMAIN received : Done(i)}
  <1>1. /\ Shape
        /\ received' = Append(received, m) /\ params' = Append(params, Handled(m))
        /\ calls' = Append(calls, <<>>) /\ tries' = Append(tries, 0)
        /\ before' = Append(before, D)
        /\ UNCHANGED <<store, lists, published, acked, failed, repeated>>
    BY DEF TInv, IInv, Receive, mishaps
  <1>2. N \in Nat /\ D = {i \in 1..N : Done(i)} /\ L' = L
    BY <1>1, Domains DEF L
  <1> HIDE DEF D
  <1>3. Extends(received', received, N, m)
    BY <1>1, AppendIsSeq DEF Shape
  <1>4. Extends(params', params, N, Handled(m))
    <2> DEFINE h == Handled(m)
    <2>1. IsSeq(params, N) /\ params' = Append(params, h)
      BY <1>1 DEF Shape
    <2> HIDE DEF h
    <2>2. Extends(params', params, N, h)
      BY <2>1, AppendIsSeq
    <2> QED
      BY <2>2 DEF h
  <1>5. Extends(calls', calls, N, <<>>)
    BY <1>1, AppendIsSeq DEF Shape
  <1>6. Extends(tries', tries, N, 0)
    BY <1>1, AppendIsSeq DEF Shape
  <1>7. Extends(before', before, N, D)
    <2>1. IsSeq(before, N) /\ before' = Append(before, D)
      BY <1>1 DEF Shape
    <2> QED
      BY <2>1, AppendIsSeq
  <1>8. N' = N + 1
    BY <1>3, LenIsSeq DEF N, Extends
  <1> QED
    BY <1>1, <1>2, <1>3, <1>4, <1>5, <1>6, <1>7, <1>8 DEF Extends

\* A message received is handled by a new goroutine.
LEMMA ReceiveTypes == ASSUME TInv, NEW m \in Incoming, Receive(m) PROVE TInv'
  <1>1. IInv'
    BY ReceiveKeeps DEF TInv
  <1>2. m \in Messages
    <2>1. UNION Shared \subseteq Messages
      BY MessagesAssumption
    <2>2. m \in Messages \/ m \in UNION {g \in Shared : ToSet(received) \subseteq g}
      BY DEF Incoming
    <2> QED
      BY <2>1, <2>2
  <1>3. /\ N' = N + 1 /\ N \in Nat
        /\ \A i \in 1..N : /\ received'[i] = received[i] /\ params'[i] = params[i]
                           /\ calls'[i] = calls[i] /\ tries'[i] = tries[i]
                           /\ before'[i] = before[i]
        /\ received'[N + 1] = m /\ params'[N + 1] = Handled(m)
        /\ calls'[N + 1] = <<>> /\ tries'[N + 1] = 0
        /\ before'[N + 1] = {i \in 1..N : Done(i)}
        /\ UNCHANGED <<store, acked, failed, repeated>>
    BY ReceiveSteps
  <1>4. Goroutines'
    <2> SUFFICES ASSUME NEW i \in 1..(N + 1)
                 PROVE  /\ received'[i] \in Messages
                        /\ params'[i] \subseteq Handled(received'[i])
                        /\ calls'[i] # <<>> =>
                             \E p \in Handled(received'[i]) : IsRest(calls'[i], OpsOf(p))
                        /\ tries'[i] \in 0..MaxRetries /\ (calls'[i] = <<>> => tries'[i] = 0)
                        /\ before'[i] \subseteq 1..(i - 1)
      BY <1>3 DEF Goroutines
    <2>1. CASE i \in 1..N
      BY <1>3, <2>1 DEF TInv, Goroutines
    <2>2. CASE i = N + 1
      <3>1. 0 \in 0..MaxRetries
        BY BoundsAssumption
      <3>2. before'[i] \subseteq 1..(i - 1)
        BY <1>3, <2>2
      <3> QED
        BY <1>2, <1>3, <2>2, <3>1, <3>2
    <2> QED
      BY <1>3, <2>1, <2>2
  <1>5. KnownFields'
    BY <1>3 DEF TInv, KnownFields
  <1>6. Counted'
    <2>1. Disturbed' = Disturbed
      BY <1>3 DEF Disturbed
    <2> QED
      BY <1>3, <2>1 DEF TInv, Counted
  <1> QED
    BY <1>1, <1>4, <1>5, <1>6 DEF TInv

\* A goroutine that turns to a parameter p.
Turns(i, p) ==
    /\ i \in 1..N /\ calls[i] = <<>> /\ p \in params[i]
    /\ N' = N /\ L' = L
    /\ UNCHANGED <<received, tries, before, store, lists, published, acked, failed, repeated>>
    /\ params'[i] = params[i] \ {p} /\ calls'[i] = OpsOf(p)
    /\ \A j \in 1..N : j # i => params'[j] = params[j] /\ calls'[j] = calls[j]

\* A goroutine that has made a call, and is done with its repetitions unless
\* the rest of a pipeline follows.
Passes(i) ==
    /\ calls'[i] = Tail(calls[i])
    /\ tries'[i] \in {0, tries[i]} /\ (Tail(calls[i]) = <<>> => tries'[i] = 0)

\* A goroutine that makes call c, which succeeds, fails or is repeated.
Acts(i, c) ==
    /\ i \in 1..N /\ calls[i] # <<>> /\ c = calls[i][1]
    /\ IsCall(c) /\ c \in AllOps(received[i])
    /\ N' = N /\ UNCHANGED <<received, params, before>>
    /\ \A j \in 1..N : j # i => calls'[j] = calls[j] /\ tries'[j] = tries[j]
    /\ \/ /\ Passes(i) /\ Effect(i, c)
          /\ UNCHANGED <<failed, repeated>>
       \/ /\ Passes(i)
          /\ Effect(i, c) \/ UNCHANGED <<store, lists, published, acked>>
          /\ failed' = failed \cup {<<i, c>>} /\ repeated' = repeated /\ MayBreak(i, c)
       \/ /\ calls'[i] = Restarted(c, calls[i]) /\ c # ResetAck /\ Effect(i, c)
          /\ tries[i] < MaxRetries /\ tries'[i] = tries[i] + 1
          /\ failed' = failed /\ repeated' = repeated (+) SetToBag({<<i, c>>}) /\ MayBreak(i, c)

LEMMA BeginTurns ==
    ASSUME TInv, NEW i \in DOMAIN received, Begin(i) PROVE \E p : Turns(i, p)
  <1>1. /\ i \in 1..N /\ DOMAIN calls = 1..N /\ DOMAIN params = 1..N
        /\ params = [j \in 1..N |-> params[j]] /\ calls = [j \in 1..N |-> calls[j]]
    BY Domains DEF TInv, IInv, Shape, IsSeq
  <1>2. PICK p \in params[i] : /\ params' = [params EXCEPT ![i] = params[i] \ {p}]
                               /\ calls' = [calls EXCEPT ![i] = OpsOf(p)]
    BY DEF Begin
  <1>3. /\ calls[i] = <<>>
        /\ UNCHANGED <<received, tries, before, store, lists, published, acked, failed, repeated>>
    BY DEF Begin, mishaps
  <1>4. N' = N /\ L' = L
    BY <1>3 DEF N, L
  <1> QED
    BY <1>1, <1>2, <1>3, <1>4 DEF Turns

LEMMA CallActs ==
    ASSUME TInv, NEW i \in DOMAIN received, Call(i) \/ Retry(i) PROVE \E c : Acts(i, c)
  <1>1. /\ i \in 1..N /\ calls = [j \in 1..N |-> calls[j]] /\ tries = [j \in 1..N |-> tries[j]]
        /\ calls[i] # <<>> /\ N' = N /\ UNCHANGED <<received, params, before>>
    BY Domains DEF TInv, IInv, Shape, IsSeq, Call, Retry, N
  <1>2. AreCalls(calls[i]) /\ \A j \in 1..Len(calls[i]) : calls[i][j] \in AllOps(received[i])
    BY <1>1, CallsLeft
  <1>3. PICK c : c = Head(calls[i])
    OBVIOUS
  <1>4. IsCall(c) /\ c = calls[i][1] /\ c \in AllOps(received[i])
    BY <1>1, <1>2, <1>3, TailCalls
  <1>5. CASE Call(i)
    <2>1. /\ calls' = [calls EXCEPT ![i] = Tail(calls[i])] /\ repeated' = repeated
          /\ tries' = [tries EXCEPT ![i] = IF OpensPipeline(i) THEN tries[i] ELSE 0]
          /\ \/ Effect(i, c) /\ failed' = failed
             \/ /\ MayBreak(i, c) /\ failed' = failed \cup {<<i, c>>}
                /\ Effect(i, c) \/ UNCHANGED <<store, lists, published, acked>>
      BY <1>3, <1>5 DEF Call
    <2>2. \A j \in 1..N : j # i => calls'[j] = calls[j] /\ tries'[j] = tries[j]
      BY <1>1, <2>1
    <2>3. Passes(i)
      <3>1. calls'[i] = Tail(calls[i]) /\ tries'[i] = IF OpensPipeline(i) THEN tries[i] ELSE 0
        BY <1>1, <2>1
      <3>2. Tail(calls[i]) = <<>> => ~OpensPipeline(i)
        <4>1. PICK n : n = Len(calls[i])
          OBVIOUS
        <4>2. n \in Nat \ {0} /\ Len(Tail(calls[i])) = n - 1
          BY <1>1, <1>2, <4>1, TailCalls
        <4>3. ASSUME Tail(calls[i]) = <<>>, n > 1 PROVE FALSE
          <5>1. Len(<<>>) = 0
            OBVIOUS
          <5>2. n - 1 = 0
            BY <4>2, <4>3, <5>1, Zenon
          <5> QED
            BY <4>2, <4>3, <5>2
        <4> QED
          BY <4>1, <4>3 DEF OpensPipeline
      <3> QED
        BY <3>1, <3>2 DEF Passes
    <2> QED
      BY <1>1, <1>4, <2>1, <2>2, <2>3 DEF Acts
  <1>6. CASE Retry(i)
    <2>1. /\ calls' = [calls EXCEPT ![i] = Restarted(c, calls[i])] /\ c # ResetAck
          /\ tries[i] < MaxRetries /\ tries' = [tries EXCEPT ![i] = tries[i] + 1]
          /\ failed' = failed /\ MayBreak(i, c) /\ Effect(i, c)
          /\ repeated' = repeated (+) SetToBag({<<i, c>>})
      BY <1>3, <1>6 DEF Retry
    <2>2. /\ calls'[i] = Restarted(c, calls[i]) /\ tries'[i] = tries[i] + 1
          /\ \A j \in 1..N : j # i => calls'[j] = calls[j] /\ tries'[j] = tries[j]
      BY <1>1, <2>1
    <2> QED
      BY <1>1, <1>4, <2>1, <2>2 DEF Acts
  <1> QED
    BY <1>5, <1>6

LEMMA TurnsTypes == ASSUME TInv, IInv', NEW i, NEW p, Turns(i, p) PROVE TInv'
  <1>1. Goroutines'
    <2> SUFFICES ASSUME NEW k \in 1..N
                 PROVE  /\ received[k] \in Messages
                        /\ params'[k] \subseteq Handled(received[k])
                        /\ calls'[k] # <<>> =>
                             \E q \in Handled(received[k]) : IsRest(calls'[k], OpsOf(q))
                        /\ tries[k] \in 0..MaxRetries /\ (calls'[k] = <<>> => tries[k] = 0)
                        /\ before[k] \subseteq 1..(k - 1)
      BY DEF Goroutines, Turns
    <2>1. CASE k # i
      BY <2>1 DEF Turns, TInv, Goroutines
    <2>2. CASE k = i
      <3>1. IsRest(OpsOf(p), OpsOf(p))
        BY OpsCalls, RestWhole
      <3>2. p \in Handled(received[k]) /\ params'[k] \subseteq Handled(received[k])
        BY <2>2 DEF Turns, TInv, Goroutines
      <3> QED
        BY <2>2, <3>1, <3>2 DEF Turns, TInv, Goroutines
    <2> QED
      BY <2>1, <2>2
  <1>2. KnownFields'
    BY DEF TInv, KnownFields, Turns
  <1>3. Counted'
    <2>1. Disturbed' = Disturbed
      BY DEF Disturbed, Turns
    <2> QED
      BY <2>1 DEF TInv, Counted, Turns
  <1> QED
    BY <1>1, <1>2, <1>3 DEF TInv

\* The fields there are after a call.
LEMMA EffectFields ==
    ASSUME NEW i, NEW c, Effect(i, c), NEW at \in DOMAIN store'
    PROVE  at \in DOMAIN store \/ (c.op = "hset" /\ c.at = at)
  BY DEF Effect, Put, Drop

LEMMA ActsTypes == ASSUME TInv, IInv', NEW i, NEW c, Acts(i, c) PROVE TInv'
  <1>1. Goroutines'
    <2> SUFFICES ASSUME NEW k \in 1..N
                 PROVE  /\ received[k] \in Messages
                        /\ params[k] \subseteq Handled(received[k])
                        /\ calls'[k] # <<>> =>
                             \E q \in Handled(received[k]) : IsRest(calls'[k], OpsOf(q))
                        /\ tries'[k] \in 0..MaxRetries /\ (calls'[k] = <<>> => tries'[k] = 0)
                        /\ before[k] \subseteq 1..(k - 1)
      BY DEF Goroutines, Acts
    <2>1. CASE k # i
      BY <2>1 DEF TInv, Goroutines, Acts
    <2>2. CASE k = i
      <3>1. calls[i] # <<>> /\ c = calls[i][1]
        BY DEF Acts
      <3>2. PICK q \in Handled(received[k]) : IsRest(calls[i], OpsOf(q))
        BY <2>2, <3>1 DEF TInv, Goroutines
      <3>3. tries[i] \in 0..MaxRetries /\ MaxRetries \in Nat
        BY <2>2, BoundsAssumption DEF TInv, Goroutines
      <3>4. CASE Passes(i)
        <4>1. IsRest(calls'[i], OpsOf(q))
          BY <3>1, <3>2, <3>4, RestTail DEF Passes
        <4>2. tries'[i] \in 0..MaxRetries /\ (calls'[i] = <<>> => tries'[i] = 0)
          BY <3>3, <3>4 DEF Passes
        <4> QED
          BY <2>2, <4>1, <4>2 DEF TInv, Goroutines
      <3>5. CASE /\ calls'[i] = Restarted(c, calls[i])
                 /\ tries[i] < MaxRetries /\ tries'[i] = tries[i] + 1
        <4>1. /\ IsRest(Restarted(c, calls[i]), OpsOf(q))
              /\ Keeps(Restarted(c, calls[i]), calls[i])
          <5>1. PICK s : s = calls[i]
            OBVIOUS
          <5>2. IsRest(s, OpsOf(q)) /\ s # <<>> /\ c = s[1]
            BY <3>1, <3>2, <5>1
          <5>3. /\ IsRest(Restarted(s[1], s), OpsOf(q))
                /\ Keeps(Restarted(s[1], s), s)
            BY <5>2, RestRestarted
          <5> QED
            BY <5>1, <5>2, <5>3
        <4>2. calls'[i] # <<>>
          <5>1. 1 \in 1..Len(calls[i]) /\ Len(<<>>) = 0
            BY <3>1, <3>2, RestCalls, TailCalls
          <5> QED
            BY <3>5, <4>1, <5>1 DEF Keeps
        <4>3. tries'[i] \in 0..MaxRetries
          BY <3>3, <3>5
        <4> QED
          BY <2>2, <3>5, <4>1, <4>2, <4>3 DEF TInv, Goroutines
      <3> QED
        BY <3>4, <3>5 DEF Acts
    <2> QED
      BY <2>1, <2>2
  <1>2. KnownFields'
    <2> SUFFICES ASSUME NEW at \in DOMAIN store'
                 PROVE  \E k \in 1..N : at \in Touched(received[k])
      BY DEF KnownFields, Acts
    <2>1. at \in DOMAIN store \/ (c.op = "hset" /\ c.at = at)
      BY EffectFields DEF Acts
    <2>2. CASE c.op = "hset" /\ c.at = at
      BY <2>2 DEF Acts, Touched
    <2> QED
      BY <2>1, <2>2 DEF TInv, KnownFields
  <1>3. Counted'
    <2>1. /\ IsFiniteSet(Disturbed) /\ Cardinality(Disturbed) <= MaxFaults
          /\ \A f \in Disturbed : f[1] \in 1..N /\ f[2] \in AllOps(received[f[1]])
          /\ \A f \in DOMAIN repeated : repeated[f] \in Nat
          /\ acked \subseteq 1..N
      BY DEF TInv, Counted
    <2>2. i \in 1..N /\ c \in AllOps(received[i]) /\ N' = N /\ received' = received
      BY DEF Acts
    <2>3. repeated' = repeated (+) SetToBag({<<i, c>>})
          => /\ DOMAIN repeated' = DOMAIN repeated \cup {<<i, c>>}
             /\ \A f \in DOMAIN repeated' : repeated'[f] \in Nat
      <3>1. PICK C : C = repeated'
        OBVIOUS
      <3>2. PICK d : d = <<i, c>>
        OBVIOUS
      <3>3. ASSUME C = repeated (+) SetToBag({d})
            PROVE  /\ DOMAIN C = DOMAIN repeated \cup {d}
                   /\ \A f \in DOMAIN C : C[f] \in Nat
        <4>1. /\ DOMAIN C = DOMAIN repeated \cup {d}
              /\ C[d] = IF d \in DOMAIN repeated THEN repeated[d] + 1 ELSE 1
              /\ \A f \in DOMAIN repeated : f # d => C[f] = repeated[f]
          BY <2>1, <3>3 DEF (+), SetToBag
        <4>2. C[d] \in Nat
          BY <2>1, <4>1
        <4> QED
          BY <2>1, <4>1, <4>2
      <3> QED
        BY <3>1, <3>2, <3>3
    <2>4. \/ Disturbed' = Disturbed
          \/ Disturbed' = Disturbed \cup {<<i, c>>} /\ MayBreak(i, c)
      BY <2>3 DEF Acts, Disturbed, BagToSet
    <2>5. IsFiniteSet(Disturbed') /\ Cardinality(Disturbed') <= MaxFaults
      <3>1. IsFiniteSet(Disturbed \cup {<<i, c>>})
        BY <2>1, FS_AddElement
      <3> QED
        BY <2>1, <2>4, <3>1 DEF MayBreak
    <2>6. \A f \in Disturbed' : f[1] \in 1..N /\ f[2] \in AllOps(received[f[1]])
      BY <2>1, <2>2, <2>4
    <2>7. \A f \in DOMAIN repeated' : repeated'[f] \in Nat
      BY <2>1, <2>3 DEF Acts
    <2>8. acked' \subseteq 1..N
      BY <2>1 DEF Acts, Effect
    <2> QED
      BY <2>2, <2>5, <2>6, <2>7, <2>8 DEF Counted
  <1> QED
    BY <1>1, <1>2, <1>3 DEF TInv

\* The types are inductive.
LEMMA NextTypes == TInv /\ [Next]_vars => TInv'
  <1> SUFFICES ASSUME TInv, [Next]_vars PROVE TInv'
    OBVIOUS
  <1>1. IInv'
    BY NextKeeps DEF TInv
  <1>2. CASE UNCHANGED vars
    BY <1>1, <1>2 DEF TInv, Goroutines, KnownFields, Counted, Disturbed, N, vars, mishaps
  <1>3. ASSUME NEW m \in Incoming, Receive(m) PROVE TInv'
    BY <1>3, ReceiveTypes
  <1>4. ASSUME NEW i \in DOMAIN received, Begin(i) PROVE TInv'
    BY <1>1, <1>4, BeginTurns, TurnsTypes
  <1>5. ASSUME NEW i \in DOMAIN received, Call(i) \/ Retry(i) PROVE TInv'
    BY <1>1, <1>5, CallActs, ActsTypes
  <1> QED
    BY <1>2, <1>3, <1>4, <1>5 DEF Next

LEMMA SpecTInv == Spec => []TInv
  BY InitTInv, NextTypes, PTL DEF Spec

\* Every goroutine works on a message that was received, makes only calls of
\* that message's handlers, and writes only fields they name.
THEOREM InboundTypeOK == Spec => []TypeOK
  BY SpecTInv, TInvTypeOK, PTL

-----------------------------------------------------------------------------
(* Fields.                                                                 *)

\* Some call of s writes the field.
Mentions(s, at) == \E j \in 1..Len(s) : Writes(s[j], at)

\* No call that writes the field has failed.
Spared(at) == \A f \in failed : "at" \in DOMAIN f[2] => f[2].at # at

\* Message j still has a write to the field to make.
Owes(j, at) == (\E p \in params[j] : Mentions(OpsOf(p), at)) \/ Mentions(calls[j], at)

\* The field is as message i left it in the end, or has it while it is at work.
Holds(i, at) ==
    \/ Stored(at) \in Leaves(received[i], at)
    \/ Owes(i, at) /\ Stored(at) \in Written(received[i], at)

\* A field that no message is done with may hold anything; any other holds the
\* value of a message, and whoever was received when that one was done has the
\* field still to write.
Fresh ==
    \A at : Spared(at) =>
        \/ \A j \in Writers(at) : Owes(j, at)
        \/ \E i \in Writers(at) :
             Holds(i, at) /\ \A j \in Writers(at) : i \in before[j] => Owes(j, at)

FInv == TInv /\ Fresh

LEMMA FInvFieldCurrent == FInv => FieldCurrent
  <1> SUFFICES ASSUME FInv, NEW at \in UNION {Touched(received[i]) : i \in DOMAIN received},
                      NEW done, done = {j \in Writers(at) : Done(j)}, done # {}, Spared(at)
               PROVE  \E i \in Writers(at) :
                        /\ Stored(at) \in IF i \in done THEN Leaves(received[i], at)
                                         ELSE Written(received[i], at)
                        /\ \A j \in done : i \notin before[j]
    BY DEF FieldCurrent, Spared
  <1>1. Writers(at) \subseteq 1..N
    BY Domains DEF Writers, FInv, TInv, IInv
  <1>2. ASSUME NEW j \in done PROVE j \in Writers(at) /\ ~Owes(j, at)
    <2>1. params[j] = {} /\ calls[j] = <<>> /\ Len(<<>>) = 0
      BY DEF Done
    <2> QED
      BY <2>1 DEF Owes, Mentions
  <1>3. PICK i \in Writers(at) :
          Holds(i, at) /\ \A j \in Writers(at) : i \in before[j] => Owes(j, at)
    BY <1>2 DEF FInv, Fresh
  <1>4. i \in done => Stored(at) \in Leaves(received[i], at)
    BY <1>2, <1>3 DEF Holds
  <1>5. Leaves(received[i], at) \subseteq Written(received[i], at)
    <2> SUFFICES ASSUME NEW p \in Handled(received[i]), NEW c \in FinalWrites(OpsOf(p), at)
                 PROVE  c \in AllOps(received[i]) /\ Writes(c, at)
      BY DEF Leaves, Written
    <2> QED
      BY DEF FinalWrites, AllOps, ToSet
  <1> QED
    BY <1>2, <1>3, <1>4, <1>5 DEF Holds

\* A call stores the value it writes and leaves other fields alone.
LEMMA EffectStored ==
    ASSUME NEW i, NEW c, Effect(i, c), NEW at
    PROVE  Stored(at)' = IF Writes(c, at) THEN Value(c) ELSE Stored(at)
  BY DEF Effect, Put, Drop, Stored, Writes, Value

\* The last writes of what is left were last writes before, the first call is
\* one if it is followed by none, and nothing else is dropped.
LEMMA TailWrites ==
    ASSUME NEW s, NEW at, AreCalls(s), s # <<>>
    PROVE  /\ FinalWrites(Tail(s), at) \subseteq FinalWrites(s, at)
           /\ Writes(s[1], at) /\ ~Mentions(Tail(s), at) => s[1] \in FinalWrites(s, at)
           /\ Mentions(s, at) => Writes(s[1], at) \/ Mentions(Tail(s), at)
  <1> DEFINE t == Tail(s)
             n == Len(s)
  <1>1. /\ n \in Nat \ {0} /\ Len(t) = n - 1 /\ AreCalls(t)
        /\ \A j \in 1..(n - 1) : t[j] = s[j + 1]
    BY TailCalls
  <1>2. DOMAIN s = 1..n /\ DOMAIN t = 1..(n - 1)
    BY <1>1, LenIsSeq DEF AreCalls
  <1> HIDE DEF t, n
  <1>3. ASSUME NEW c \in FinalWrites(t, at) PROVE c \in FinalWrites(s, at)
    <2>1. PICK k \in 1..(n - 1) : /\ c = t[k] /\ Writes(t[k], at)
                                  /\ \A l \in 1..(n - 1) : l > k => ~Writes(t[l], at)
      BY <1>2, <1>3 DEF FinalWrites
    <2>2. k + 1 \in 1..n /\ c = s[k + 1] /\ Writes(s[k + 1], at)
      BY <1>1, <2>1
    <2>3. ASSUME NEW l \in 1..n, l > k + 1 PROVE ~Writes(s[l], at)
      <3>1. l - 1 \in 1..(n - 1) /\ l - 1 > k
        BY <1>1, <2>1, <2>3
      <3>2. t[l - 1] = s[l]
        BY <1>1, <3>1
      <3> QED
        BY <2>1, <3>1, <3>2
    <2> QED
      BY <1>2, <2>2, <2>3 DEF FinalWrites
  <1>4. ASSUME Writes(s[1], at), ~Mentions(t, at) PROVE s[1] \in FinalWrites(s, at)
    <2>1. ASSUME NEW l \in 1..n, l > 1 PROVE ~Writes(s[l], at)
      <3>1. l - 1 \in 1..(n - 1) /\ t[l - 1] = s[l]
        BY <1>1, <2>1
      <3> QED
        BY <1>1, <1>4, <3>1 DEF Mentions
    <2> QED
      BY <1>1, <1>2, <1>4, <2>1 DEF FinalWrites
  <1>5. ASSUME Mentions(s, at) PROVE Writes(s[1], at) \/ Mentions(t, at)
    <2>1. PICK j \in 1..n : Writes(s[j], at)
      BY <1>5 DEF Mentions, n
    <2>2. CASE j # 1
      <3>1. j - 1 \in 1..(n - 1) /\ t[j - 1] = s[j]
        BY <1>1, <2>2
      <3> QED
        BY <1>1, <2>1, <3>1 DEF Mentions
    <2> QED
      BY <2>1, <2>2
  <1> QED
    BY <1>3, <1>4, <1>5 DEF t

LEMMA InitFInv == Init => FInv
  <1> SUFFICES ASSUME Init PROVE FInv
    OBVIOUS
  <1>1. TInv
    BY InitTInv
  <1>2. N = 0 /\ DOMAIN received = 1..N
    BY <1>1, Domains DEF Init, N, TInv, IInv
  <1>3. \A at : Writers(at) = {}
    BY <1>2 DEF Writers
  <1> QED
    BY <1>1, <1>3 DEF FInv, Fresh

\* A message that is received has all of its fields still to write.
LEMMA ReceiveFresh == ASSUME FInv, TInv', NEW m, Receive(m) PROVE FInv'
  <1>1. /\ N' = N + 1 /\ N \in Nat
        /\ \A i \in 1..N : /\ received'[i] = received[i] /\ params'[i] = params[i]
                           /\ calls'[i] = calls[i] /\ before'[i] = before[i]
        /\ received'[N + 1] = m /\ params'[N + 1] = Handled(m)
        /\ UNCHANGED <<store, failed>>
    BY ReceiveSteps DEF FInv
  <1>2. DOMAIN received = 1..N /\ DOMAIN received' = 1..(N + 1)
    <2>1. Shape /\ Shape'
      BY DEF FInv, TInv, IInv
    <2>2. DOMAIN received = 1..N
      BY <2>1, Domains
    <2>3. IsSeq(received, N)'
      BY <2>1 DEF Shape
    <2>4. DOMAIN received' = 1..N'
      BY <2>3 DEF IsSeq
    <2> QED
      BY <1>1, <2>2, <2>4
  <1>3. ASSUME NEW at
        PROVE  /\ Writers(at) \subseteq 1..N
               /\ Writers(at)' = Writers(at) \cup (IF at \in Touched(m) THEN {N + 1} ELSE {})
    BY <1>1, <1>2 DEF Writers
  <1>4. ASSUME NEW at, NEW i \in 1..N
        PROVE  (Owes(i, at)' <=> Owes(i, at)) /\ (Holds(i, at)' <=> Holds(i, at))
    <2>1. Owes(i, at)' <=> Owes(i, at)
      BY <1>1 DEF Owes
    <2>2. Stored(at)' = Stored(at)
      BY <1>1 DEF Stored
    <2> QED
      BY <1>1, <2>1, <2>2 DEF Holds
  <1>5. ASSUME NEW at, at \in Touched(m), NEW n, n = N + 1 PROVE Owes(n, at)'
    <2>1. PICK c \in AllOps(m) : Writes(c, at)
      BY <1>5 DEF Touched, Writes
    <2>2. PICK p \in Handled(m) : c \in ToSet(OpsOf(p))
      BY <2>1 DEF AllOps
    <2>3. DOMAIN OpsOf(p) = 1..Len(OpsOf(p))
      BY OpsCalls, LenIsSeq DEF AreCalls
    <2>4. Mentions(OpsOf(p), at)
      BY <2>1, <2>2, <2>3 DEF ToSet, Mentions
    <2>5. p \in params'[n]
      BY <1>1, <1>5, <2>2
    <2> QED
      BY <2>4, <2>5 DEF Owes
  <1>6. ASSUME NEW at, Spared(at)'
        PROVE  \/ \A j \in Writers(at)' : Owes(j, at)'
               \/ \E i \in Writers(at)' :
                    Holds(i, at)' /\ \A j \in Writers(at)' : i \in before'[j] => Owes(j, at)'
    <2>1. Spared(at)
      BY <1>1, <1>6 DEF Spared
    <2>2. \A j \in Writers(at)' \ Writers(at) : Owes(j, at)'
      BY <1>3, <1>5
    <2>3. CASE \A j \in Writers(at) : Owes(j, at)
      BY <1>3, <1>4, <2>2, <2>3
    <2>4. CASE \E i \in Writers(at) :
                 Holds(i, at) /\ \A j \in Writers(at) : i \in before[j] => Owes(j, at)
      <3>1. PICK i \in Writers(at) :
              Holds(i, at) /\ \A j \in Writers(at) : i \in before[j] => Owes(j, at)
        BY <2>4
      <3>2. i \in Writers(at)' /\ Holds(i, at)'
        BY <1>3, <1>4, <3>1
      <3>3. \A j \in Writers(at)' : i \in before'[j] => Owes(j, at)'
        BY <1>1, <1>3, <1>4, <2>2, <3>1
      <3> QED
        BY <3>2, <3>3
    <2> QED
      BY <2>1, <2>3, <2>4 DEF FInv, Fresh
  <1> QED
    BY <1>6 DEF FInv, Fresh

\* A goroutine that turns to a parameter has its writes to make.
LEMMA TurnsFresh == ASSUME FInv, TInv', NEW i, NEW q, Turns(i, q) PROVE FInv'
  <1>1. /\ i \in 1..N /\ calls[i] = <<>> /\ q \in params[i] /\ N' = N
        /\ UNCHANGED <<received, before, store, failed>>
        /\ params'[i] = params[i] \ {q} /\ calls'[i] = OpsOf(q)
        /\ \A j \in 1..N : j # i => params'[j] = params[j] /\ calls'[j] = calls[j]
    BY DEF Turns
  <1>2. \A at : /\ Writers(at)' = Writers(at) /\ Stored(at)' = Stored(at)
                /\ Spared(at)' = Spared(at)
    BY <1>1 DEF Writers, Stored, Spared
  <1>3. \A at : Writers(at) \subseteq 1..N
    BY Domains DEF Writers, FInv, TInv, IInv
  <1>4. ASSUME NEW at, NEW j \in 1..N
        PROVE  (Owes(j, at)' <=> Owes(j, at)) /\ (Holds(j, at)' <=> Holds(j, at))
    <2>1. Owes(j, at)' <=> Owes(j, at)
      <3>1. CASE j # i
        BY <1>1, <3>1 DEF Owes
      <3>2. CASE j = i
        <4>1. ~Mentions(calls[i], at)
          <5>1. Len(<<>>) = 0
            OBVIOUS
          <5> QED
            BY <1>1, <5>1 DEF Mentions
        <4>2. Mentions(calls'[i], at) <=> Mentions(OpsOf(q), at)
          BY <1>1
        <4> QED
          BY <1>1, <3>2, <4>1, <4>2 DEF Owes
      <3> QED
        BY <3>1, <3>2
    <2> QED
      BY <1>1, <1>2, <2>1 DEF Holds
  <1> QED
    BY <1>1, <1>2, <1>3, <1>4 DEF FInv, Fresh

\* A call that writes a field makes its message the one whose value it holds:
\* the last write is one it leaves.  Nobody was received after it was done.
LEMMA ActsFresh == ASSUME FInv, TInv', NEW i, NEW c, Acts(i, c) PROVE FInv'
  <1>1. /\ i \in 1..N /\ calls[i] # <<>> /\ c = calls[i][1] /\ IsCall(c)
        /\ c \in AllOps(received[i])
        /\ N' = N /\ UNCHANGED <<received, params, before>>
        /\ \A j \in 1..N : j # i => calls'[j] = calls[j]
        /\ calls'[i] \in {Tail(calls[i]), Restarted(c, calls[i])}
    BY DEF Acts, Passes
  <1>2. DOMAIN received = 1..N
    BY Domains DEF FInv, TInv, IInv
  <1>3. \A at : Writers(at)' = Writers(at) /\ Writers(at) \subseteq 1..N
    BY <1>1, <1>2 DEF Writers
  <1>4. /\ AreCalls(calls[i])
        /\ \A at : \A d \in FinalWrites(calls[i], at) : Value(d) \in Leaves(received[i], at)
    BY <1>1, CallsLeft DEF FInv
  \* What is repeated is still to be made.
  <1>5. ASSUME NEW at, Mentions(calls[i], at) PROVE Mentions(Restarted(c, calls[i]), at)
    <2>1. PICK s : s = calls[i]
      OBVIOUS
    <2>2. PICK p : IsRest(s, OpsOf(p))
      BY <1>1, <2>1 DEF FInv, TInv, Goroutines
    <2>3. s # <<>> /\ c = s[1]
      BY <1>1, <2>1
    <2>4. Keeps(Restarted(s[1], s), s)
      BY <2>2, <2>3, RestRestarted
    <2>5. PICK j \in 1..Len(s) : Writes(s[j], at)
      BY <1>5, <2>1 DEF Mentions
    <2>6. PICK r : r = Restarted(c, s)
      OBVIOUS
    <2>7. \E l \in 1..Len(r) : r[l] = s[j]
      BY <2>3, <2>4, <2>5, <2>6 DEF Keeps
    <2> QED
      BY <2>1, <2>5, <2>6, <2>7 DEF Mentions
  <1>6. ASSUME NEW at, NEW j \in 1..N, Owes(j, at), j # i \/ ~Writes(c, at)
        PROVE  Owes(j, at)'
    <2>1. CASE j # i
      BY <1>1, <1>6, <2>1 DEF Owes
    <2>2. CASE j = i /\ ~Writes(c, at)
      <3>1. Mentions(calls[i], at) => Mentions(Tail(calls[i]), at)
        BY <1>1, <1>4, <2>2, TailWrites
      <3>2. Mentions(calls[i], at) => Mentions(calls'[i], at)
        BY <1>1, <1>5, <3>1
      <3> QED
        BY <1>1, <1>6, <2>2, <3>2 DEF Owes
    <2> QED
      BY <1>6, <2>1, <2>2
  <1>7. ASSUME NEW at, Spared(at)'
        PROVE  \/ \A j \in Writers(at) : Owes(j, at)'
               \/ \E k \in Writers(at) :
                    Holds(k, at)' /\ \A j \in Writers(at) : k \in before[j] => Owes(j, at)'
    <2>1. CASE ~Writes(c, at)
      <3>1. Spared(at)
        <4>1. failed \subseteq failed'
          BY DEF Acts
        <4> QED
          BY <1>7, <4>1 DEF Spared
      <3>2. Stored(at)' = Stored(at)
        <4>1. ASSUME Effect(i, c) PROVE Stored(at)' = Stored(at)
          BY <2>1, <4>1, EffectStored
        <4>2. ASSUME store' = store PROVE Stored(at)' = Stored(at)
          BY <4>2 DEF Stored
        <4> QED
          BY <4>1, <4>2 DEF Acts
      <3>3. \A j \in Writers(at) : Owes(j, at) => Owes(j, at)'
        BY <1>3, <1>6, <2>1
      <3>4. \A k \in Writers(at) : Holds(k, at) => Holds(k, at)'
        BY <1>1, <3>2, <3>3 DEF Holds
      <3> QED
        BY <3>1, <3>3, <3>4 DEF FInv, Fresh
    <2>2. CASE Writes(c, at)
      <3>1. i \in Writers(at)
        BY <1>1, <1>2, <2>2 DEF Writers, Touched, Writes
      <3>2. \A j \in Writers(at) : i \notin before[j]
        BY <1>1, <1>3 DEF FInv, TInv, IInv, BeforeDone, Done
      <3>3. <<i, c>> \notin failed'
        <4> SUFFICES ASSUME <<i, c>> \in failed' PROVE FALSE
          OBVIOUS
        <4>1. "at" \in DOMAIN c /\ c.at = at
          BY <1>1, <2>2, CallKinds DEF Writes
        <4>2. <<i, c>>[2] = c
          OBVIOUS
        <4> QED
          BY <1>7, <4>1, <4>2 DEF Spared
      <3>4. Stored(at)' = Value(c)
        <4>1. Effect(i, c)
          BY <3>3 DEF Acts
        <4> QED
          BY <2>2, <4>1, EffectStored
      <3>5. Value(c) \in Written(received[i], at)
        BY <1>1, <2>2 DEF Written
      <3>6. Mentions(calls[i], at)
        <4>1. 1 \in 1..Len(calls[i])
          BY <1>1, <1>4, TailCalls
        <4> QED
          BY <1>1, <2>2, <4>1 DEF Mentions
      <3>7. CASE Mentions(calls'[i], at)
        <4>1. Owes(i, at)'
          BY <3>7 DEF Owes
        <4> QED
          BY <1>1, <3>1, <3>2, <3>4, <3>5, <4>1 DEF Holds
      <3>8. CASE ~Mentions(calls'[i], at)
        <4>1. calls'[i] = Tail(calls[i])
          BY <1>1, <1>5, <3>6, <3>8
        <4>2. c \in FinalWrites(calls[i], at)
          BY <1>1, <1>4, <2>2, <3>8, <4>1, TailWrites
        <4>3. Value(c) \in Leaves(received[i], at)
          BY <1>4, <4>2
        <4> QED
          BY <1>1, <3>1, <3>2, <3>4, <4>3 DEF Holds
      <3> QED
        BY <3>7, <3>8
    <2> QED
      BY <2>1, <2>2
  <1> QED
    BY <1>1, <1>3, <1>7 DEF FInv, Fresh

LEMMA NextFresh == FInv /\ [Next]_vars => FInv'
  <1> SUFFICES ASSUME FInv, [Next]_vars PROVE FInv'
    OBVIOUS
  <1>1. TInv'
    BY NextTypes DEF FInv
  <1>2. CASE UNCHANGED vars
    <2>1. UNCHANGED <<received, params, calls, store, before, failed>>
      BY <1>2 DEF vars, mishaps
    <2>2. \A at : /\ Writers(at)' = Writers(at) /\ Stored(at)' = Stored(at)
                  /\ Spared(at)' = Spared(at)
      BY <2>1 DEF Writers, Stored, Spared
    <2>3. \A at, j : (Owes(j, at)' <=> Owes(j, at)) /\ (Holds(j, at)' <=> Holds(j, at))
      BY <2>1, <2>2 DEF Owes, Holds
    <2>4. Fresh'
      BY <2>1, <2>2, <2>3 DEF FInv, Fresh
    <2> QED
      BY <1>1, <2>4 DEF FInv
  <1>3. ASSUME NEW m \in Incoming, Receive(m) PROVE FInv'
    BY <1>1, <1>3, ReceiveFresh
  <1>4. ASSUME NEW i \in DOMAIN received, Begin(i) PROVE FInv'
    BY <1>1, <1>4, BeginTurns, TurnsFresh DEF FInv
  <1>5. ASSUME NEW i \in DOMAIN received, Call(i) \/ Retry(i) PROVE FInv'
    BY <1>1, <1>5, CallActs, ActsFresh DEF FInv
  <1> QED
    BY <1>2, <1>3, <1>4, <1>5 DEF Next

\* A field is never older than a message that has been dealt with: what is
\* stored comes from one that none dealt with was received after, and is what
\* that one leaves if it is done too (no call for the field having failed).
THEOREM InboundFieldCurrent == Spec => []FieldCurrent
  BY InitFInv, NextFresh, FInvFieldCurrent, PTL DEF Spec

-----------------------------------------------------------------------------
(* Events and acknowledgments.                                             *)

\* The parameters of S that lead to call c.
Causing(S, c) == {p \in S : c \in ToSet(OpsOf(p))}

\* How often message i's event is in its list, how often it is still to be
\* pushed, now and later, how often the message names it, how often a push was
\* repeated, and how often the one at hand may yet be.
InList(i, list, v) == Cardinality({k \in 1..L : lists[k] = <<i, list, v>>})
Begun(i, c)        == IF c \in ToSet(calls[i]) THEN 1 ELSE 0
Later(i, c)        == Cardinality(Causing(params[i], c))
Total(i, c)        == Cardinality(Causes(received[i], c))
Again(i, c)        == Repetitions(i, c)
Spare(i, c)        == IF c \in ToSet(calls[i]) THEN MaxRetries - tries[i] ELSE 0

\* Every event named is in its list or still to be pushed, unless a push of it
\* failed; and more often only by the pushes that were repeated.
Accounted(in, begun, later, total, again, fail) ==
    /\ in + begun + later <= total + again
    /\ ~fail => total <= in + begun + later
Pushes ==
    \A i \in 1..N : \A list, v :
        LET c == LPush(list, v)
        IN  Accounted(InList(i, list, v), Begun(i, c), Later(i, c), Total(i, c),
                      Again(i, c), <<i, c>> \in failed)

\* Each push that was begun was repeated MaxRetries times at most.
Limited(again, spare, begun) == again + spare <= MaxRetries * begun
Limits ==
    \A i \in 1..N : \A list, v :
        LET c == LPush(list, v)
        IN  Limited(Again(i, c), Spare(i, c), Total(i, c) - Later(i, c))

\* A reset report is acknowledged or has its acknowledgment still to be sent,
\* unless sending it failed.
Acks ==
    \A i \in 1..N :
        /\ i \in acked => ResetAck \in AllOps(received[i])
        /\ ResetAck \in AllOps(received[i]) /\ <<i, ResetAck>> \notin failed
           => \/ i \in acked
              \/ ResetAck \in ToSet(calls[i])
              \/ \E p \in params[i] : ResetAck \in ToSet(OpsOf(p))

OInv == TInv /\ Pushes /\ Limits /\ Acks

\* A message has finitely many parameters.
LEMMA HandledFinite == ASSUME NEW m \in Messages PROVE IsFiniteSet(Handled(m))
  <1>1. ASSUME NEW e \in m.entries PROVE IsFiniteSet(e.params)
    BY MessagesAssumption
  <1>2. CASE ~m.decoded \/ Cardinality(m.entries) # 1
    BY <1>2, FS_EmptySet DEF Handled
  <1>3. CASE m.decoded /\ Cardinality(m.entries) = 1
    <2> PICK e : e = CHOOSE entry \in m.entries : TRUE
      OBVIOUS
    <2> DEFINE S == {q \in e.params : q[1] \in Keys}
               T == {<<e.type, p[1], p[2]>> : p \in S}
               f == [p \in S |-> <<e.type, p[1], p[2]>>]
    <2>1. m.entries # {}
      BY <1>3, FS_EmptySet
    <2>2. IsFiniteSet(S)
      <3>1. e \in m.entries
        BY <2>1
      <3>2. IsFiniteSet(e.params)
        BY <1>1, <3>1
      <3>3. S \subseteq e.params
        OBVIOUS
      <3> HIDE DEF S
      <3> QED
        BY <3>2, <3>3, FS_Subset
    <2>3. Handled(m) = IF ~e.isMap THEN {} ELSE T
      BY <1>3 DEF Handled
    <2>4. IsFiniteSet(T)
      <3> HIDE DEF S
      <3>1. f \in Surjection(S, T)
        BY DEF Surjection
      <3> HIDE DEF f, T
      <3> QED
        BY <2>2, <3>1, FS_Surjection
    <2> HIDE DEF T
    <2> QED
      BY <2>3, <2>4, FS_EmptySet
  <1> QED
    BY <1>2, <1>3

\* The numbers that are counted.
LEMMA Counts ==
    ASSUME TInv, NEW i \in 1..N, NEW c, NEW list, NEW v
    PROVE  /\ IsFiniteSet(Causing(params[i], c)) /\ Later(i, c) \in Nat
           /\ Total(i, c) \in Nat /\ InList(i, list, v) \in Nat
           /\ Begun(i, c) \in {0, 1} /\ Again(i, c) \in Nat /\ Spare(i, c) \in Nat
  <1>1. received[i] \in Messages /\ params[i] \subseteq Handled(received[i])
    BY DEF TInv, Goroutines
  <1>2. IsFiniteSet(Handled(received[i]))
    BY <1>1, HandledFinite
  <1>3. IsFiniteSet(Causing(params[i], c))
    <2>1. Causing(params[i], c) \subseteq Handled(received[i])
      BY <1>1 DEF Causing
    <2> QED
      BY <1>2, <2>1, FS_Subset
  <1>4. IsFiniteSet(Causes(received[i], c))
    <2>1. Causes(received[i], c) \subseteq Handled(received[i])
      BY DEF Causes
    <2> QED
      BY <1>2, <2>1, FS_Subset
  <1>5. IsFiniteSet({k \in 1..L : lists[k] = <<i, list, v>>})
    <2>1. L \in Nat
      BY Domains DEF TInv, IInv
    <2>2. IsFiniteSet(1..L)
      BY <2>1, FS_Interval
    <2> QED
      BY <2>2, FS_Subset
  <1>6. Again(i, c) \in Nat
    BY DEF TInv, Counted, Again, Repetitions, BagIn, BagToSet
  <1>7. Spare(i, c) \in Nat
    BY BoundsAssumption DEF TInv, Goroutines, Spare
  <1> QED
    BY <1>3, <1>4, <1>5, <1>6, <1>7, FS_CardinalityType DEF Later, Total, InList, Begun

LEMMA OInvOncePerMessage == OInv => OncePerMessage
  <1> SUFFICES ASSUME OInv, NEW i \in DOMAIN received, Done(i)
               PROVE  /\ \A e \in Range(Events) : \A c : c = LPush(e[1], e[2]) =>
                            /\ Cardinality({k \in DOMAIN lists : lists[k] = <<i, e[1], e[2]>>})
                               \in (IF <<i, c>> \in failed THEN 0
                                    ELSE Cardinality(Causes(received[i], c)))
                                   ..(Cardinality(Causes(received[i], c)) + Repetitions(i, c))
                            /\ Repetitions(i, c)
                               <= MaxRetries * Cardinality(Causes(received[i], c))
                      /\ i \in acked => ResetAck \in AllOps(received[i])
                      /\ ResetAck \in AllOps(received[i]) /\ <<i, ResetAck>> \notin failed
                         => i \in acked
    BY DEF OncePerMessage
  <1>1. i \in 1..N /\ DOMAIN lists = 1..L
    BY Domains DEF OInv, TInv, IInv
  <1>2. params[i] = {} /\ ToSet(calls[i]) = {}
    BY DEF Done, ToSet
  <1>3. ASSUME NEW list, NEW v, NEW c, c = LPush(list, v)
        PROVE  /\ InList(i, list, v) <= Total(i, c) + Again(i, c)
               /\ <<i, c>> \notin failed => Total(i, c) <= InList(i, list, v)
               /\ Again(i, c) <= MaxRetries * Total(i, c)
               /\ InList(i, list, v) \in Nat /\ Total(i, c) \in Nat /\ Again(i, c) \in Nat
    <2>1. Causing(params[i], c) = {}
      BY <1>2 DEF Causing
    <2>2. Begun(i, c) = 0 /\ Later(i, c) = 0 /\ Spare(i, c) = 0
      BY <1>2, <2>1, FS_EmptySet DEF Begun, Later, Spare
    <2>3. /\ Accounted(InList(i, list, v), 0, 0, Total(i, c), Again(i, c), <<i, c>> \in failed)
          /\ Limited(Again(i, c), 0, Total(i, c) - 0)
      BY <1>1, <1>3, <2>2 DEF OInv, Pushes, Limits
    <2>4. InList(i, list, v) \in Nat /\ Total(i, c) \in Nat /\ Again(i, c) \in Nat
      BY <1>1, Counts DEF OInv
    <2>5. Total(i, c) - 0 = Total(i, c)
      BY <2>4
    <2>6. Again(i, c) + 0 <= MaxRetries * Total(i, c)
      BY <2>3, <2>5 DEF Limited
    <2> QED
      BY <2>3, <2>4, <2>6 DEF Accounted
  <1>4. ASSUME NEW e \in Range(Events), NEW c, c = LPush(e[1], e[2])
        PROVE  /\ Cardinality({k \in DOMAIN lists : lists[k] = <<i, e[1], e[2]>>})
                  \in (IF <<i, c>> \in failed THEN 0 ELSE Cardinality(Causes(received[i], c)))
                      ..(Cardinality(Causes(received[i], c)) + Repetitions(i, c))
               /\ Repetitions(i, c) <= MaxRetries * Cardinality(Causes(received[i], c))
    <2>1. /\ Cardinality({k \in DOMAIN lists : lists[k] = <<i, e[1], e[2]>>})
             = InList(i, e[1], e[2])
          /\ Cardinality(Causes(received[i], c)) = Total(i, c)
          /\ Repetitions(i, c) = Again(i, c)
      BY <1>1 DEF InList, Total, Again
    <2>2. /\ InList(i, e[1], e[2]) <= Total(i, c) + Again(i, c)
          /\ <<i, c>> \notin failed => Total(i, c) <= InList(i, e[1], e[2])
          /\ Again(i, c) <= MaxRetries * Total(i, c)
          /\ InList(i, e[1], e[2]) \in Nat /\ Total(i, c) \in Nat /\ Again(i, c) \in Nat
      BY <1>3, <1>4
    <2>3. InList(i, e[1], e[2])
          \in (IF <<i, c>> \in failed THEN 0 ELSE Total(i, c))..(Total(i, c) + Again(i, c))
      BY <2>2
    <2> QED
      BY <2>1, <2>2, <2>3
  <1>5. /\ i \in acked => ResetAck \in AllOps(received[i])
        /\ ResetAck \in AllOps(received[i]) /\ <<i, ResetAck>> \notin failed => i \in acked
    BY <1>1, <1>2 DEF OInv, Acks
  <1> QED
    BY <1>4, <1>5

LEMMA InitOInv == Init => OInv
  <1> SUFFICES ASSUME Init PROVE OInv
    OBVIOUS
  <1>1. TInv /\ N = 0
    BY InitTInv DEF Init, N
  <1> QED
    BY <1>1 DEF OInv, Pushes, Limits, Acks

\* A push comes alone; any other call is the first or one of the rest.
LEMMA FirstOrRest ==
    ASSUME NEW s, NEW c, AreCalls(s), s # <<>>
    PROVE  /\ c \in ToSet(s) => c = s[1] \/ c \in ToSet(Tail(s))
           /\ s[1] \in ToSet(s)
           /\ c.op = "lpush" => (c \in ToSet(s) => c = s[1]) /\ c \notin ToSet(Tail(s))
  <1> DEFINE t == Tail(s)
             n == Len(s)
  <1>1. /\ n \in Nat \ {0} /\ Len(t) = n - 1 /\ AreCalls(t)
        /\ \A j \in 1..(n - 1) : t[j] = s[j + 1]
        /\ \A j \in 1..n : s[j].op = "lpush" => s[j] = s[1] /\ n = 1
    BY TailCalls
  <1>2. DOMAIN s = 1..n /\ DOMAIN t = 1..(n - 1)
    BY <1>1, LenIsSeq DEF AreCalls
  <1> HIDE DEF t, n
  <1>3. ASSUME c \in ToSet(s), c # s[1] PROVE c \in ToSet(t)
    <2>1. PICK j \in 1..n : c = s[j]
      BY <1>2, <1>3 DEF ToSet
    <2>2. j - 1 \in 1..(n - 1) /\ t[j - 1] = s[j]
      BY <1>1, <1>3, <2>1
    <2> QED
      BY <1>2, <2>1, <2>2 DEF ToSet
  <1>4. s[1] \in ToSet(s)
    BY <1>1, <1>2 DEF ToSet
  <1>5. ASSUME c.op = "lpush", c \in ToSet(s) PROVE c = s[1]
    BY <1>1, <1>2, <1>5 DEF ToSet
  <1>6. ASSUME c.op = "lpush", c \in ToSet(t) PROVE FALSE
    <2>1. PICK j \in 1..(n - 1) : c = t[j]
      BY <1>2, <1>6 DEF ToSet
    <2>2. j + 1 \in 1..n /\ s[j + 1].op = "lpush"
      BY <1>1, <1>6, <2>1
    <2> QED
      BY <1>1, <2>1, <2>2
  <1> QED
    BY <1>3, <1>4, <1>5, <1>6 DEF t

\* A message that is received names its events; none is in a list.
LEMMA ReceiveOnce == ASSUME OInv, TInv', NEW m, Receive(m) PROVE OInv'
  <1>1. /\ N' = N + 1 /\ N \in Nat /\ L' = L
        /\ \A i \in 1..N : /\ received'[i] = received[i] /\ params'[i] = params[i]
                           /\ calls'[i] = calls[i] /\ tries'[i] = tries[i]
        /\ received'[N + 1] = m /\ params'[N + 1] = Handled(m)
        /\ calls'[N + 1] = <<>>
        /\ UNCHANGED <<lists, acked, failed, repeated>>
    BY ReceiveSteps DEF OInv
  <1>2. \A i, list, v : InList(i, list, v)' = InList(i, list, v)
    BY <1>1 DEF InList
  <1>3. \A i, c : Again(i, c)' = Again(i, c)
    BY <1>1 DEF Again, Repetitions
  <1>4. ToSet(<<>>) = {}
    BY DEF ToSet
  <1>5. ASSUME NEW i \in 1..(N + 1), NEW list, NEW v, NEW c, c = LPush(list, v)
        PROVE  /\ Accounted(InList(i, list, v)', Begun(i, c)', Later(i, c)', Total(i, c)',
                            Again(i, c)', <<i, c>> \in failed')
               /\ Limited(Again(i, c)', Spare(i, c)', Total(i, c)' - Later(i, c)')
    <2>1. CASE i \in 1..N
      <3>1. /\ Begun(i, c)' = Begun(i, c) /\ Later(i, c)' = Later(i, c)
            /\ Total(i, c)' = Total(i, c) /\ Spare(i, c)' = Spare(i, c)
        BY <1>1, <2>1 DEF Begun, Later, Total, Spare
      <3>2. /\ Accounted(InList(i, list, v), Begun(i, c), Later(i, c), Total(i, c),
                         Again(i, c), <<i, c>> \in failed)
            /\ Limited(Again(i, c), Spare(i, c), Total(i, c) - Later(i, c))
        BY <1>5, <2>1 DEF OInv, Pushes, Limits
      <3> QED
        BY <1>1, <1>2, <1>3, <3>1, <3>2
    <2>2. CASE i = N + 1
      <3>1. InList(i, list, v) = 0
        <4>1. \A k \in 1..L : lists[k][1] \in 1..N
          BY DEF OInv, TInv, IInv, Shape
        <4>2. {k \in 1..L : lists[k] = <<i, list, v>>} = {}
          BY <1>1, <2>2, <4>1
        <4> QED
          BY <4>2, FS_EmptySet DEF InList
      <3>2. Begun(i, c)' = 0 /\ Spare(i, c)' = 0
        BY <1>1, <1>4, <2>2 DEF Begun, Spare
      <3>3. Later(i, c)' = Total(i, c)'
        <4>1. params'[i] = Handled(received'[i])
          BY <1>1, <2>2
        <4>2. Later(i, c)' = Cardinality(Causing(params'[i], c))
          BY DEF Later, Causing
        <4>3. Total(i, c)' = Cardinality(Causes(received'[i], c))
          BY DEF Total
        <4> QED
          BY <4>1, <4>2, <4>3 DEF Causing, Causes
      <3>4. Total(i, c)' \in Nat
        <4>1. IsFiniteSet(Handled(received'[i]))
          <5>1. Goroutines' /\ i \in 1..N'
            BY <1>1 DEF TInv
          <5>2. received'[i] \in Messages
            BY <5>1 DEF Goroutines
          <5> QED
            BY <5>2, HandledFinite
        <4>2. Causes(received'[i], c) \subseteq Handled(received'[i])
          BY DEF Causes
        <4>3. IsFiniteSet(Causes(received'[i], c))
          BY <4>1, <4>2, FS_Subset
        <4> QED
          BY <4>3, FS_CardinalityType DEF Total
      <3>5. Again(i, c)' = 0
        <4>1. <<i, c>> \notin DOMAIN repeated
          <5>1. <<i, c>>[1] = i /\ i \notin 1..N
            BY <1>1, <2>2
          <5> QED
            BY <5>1 DEF OInv, TInv, Counted, Disturbed, BagToSet
        <4> QED
          BY <1>3, <4>1 DEF Again, Repetitions, BagIn, BagToSet
      <3>6. ASSUME NEW t \in Nat
            PROVE  /\ Accounted(0, 0, t, t, 0, <<i, c>> \in failed')
                   /\ Limited(0, 0, t - t)
        <4>1. t - t = 0 /\ MaxRetries * 0 = 0
          BY BoundsAssumption
        <4> QED
          BY <4>1 DEF Accounted, Limited
      <3> QED
        BY <1>2, <3>1, <3>2, <3>3, <3>4, <3>5, <3>6
    <2> QED
      BY <1>1, <2>1, <2>2
  <1>6. Pushes' /\ Limits'
    BY <1>1, <1>5 DEF Pushes, Limits
  <1>7. Acks'
    <2> SUFFICES ASSUME NEW i \in 1..(N + 1)
                 PROVE  /\ i \in acked => ResetAck \in AllOps(received'[i])
                        /\ ResetAck \in AllOps(received'[i]) /\ <<i, ResetAck>> \notin failed
                           => \/ i \in acked
                              \/ ResetAck \in ToSet(calls'[i])
                              \/ \E p \in params'[i] : ResetAck \in ToSet(OpsOf(p))
      BY <1>1 DEF Acks
    <2>1. CASE i \in 1..N
      BY <1>1, <2>1 DEF OInv, Acks
    <2>2. CASE i = N + 1
      <3>1. i \notin acked
        BY <1>1, <2>2 DEF OInv, TInv, Counted
      <3> QED
        BY <1>1, <2>2, <3>1 DEF AllOps
    <2> QED
      BY <1>1, <2>1, <2>2
  <1> QED
    BY <1>6, <1>7 DEF OInv

\* The parameter a goroutine turns to is no longer waiting; its push is begun.
LEMMA TurnsOnce == ASSUME OInv, TInv', NEW i, NEW q, Turns(i, q) PROVE OInv'
  <1>1. /\ i \in 1..N /\ calls[i] = <<>> /\ q \in params[i] /\ N' = N /\ L' = L
        /\ UNCHANGED <<received, tries, lists, acked, failed, repeated>>
        /\ params'[i] = params[i] \ {q} /\ calls'[i] = OpsOf(q)
        /\ \A j \in 1..N : j # i => params'[j] = params[j] /\ calls'[j] = calls[j]
    BY DEF Turns
  <1>2. ToSet(calls[i]) = {}
    BY <1>1 DEF ToSet
  <1>3. ASSUME NEW k \in 1..N, NEW list, NEW v, NEW c, c = LPush(list, v)
        PROVE  /\ Accounted(InList(k, list, v)', Begun(k, c)', Later(k, c)', Total(k, c)',
                            Again(k, c)', <<k, c>> \in failed')
               /\ Limited(Again(k, c)', Spare(k, c)', Total(k, c)' - Later(k, c)')
    <2>1. /\ Accounted(InList(k, list, v), Begun(k, c), Later(k, c), Total(k, c),
                       Again(k, c), <<k, c>> \in failed)
          /\ Limited(Again(k, c), Spare(k, c), Total(k, c) - Later(k, c))
      BY <1>3 DEF OInv, Pushes, Limits
    <2>2. /\ InList(k, list, v)' = InList(k, list, v) /\ Total(k, c)' = Total(k, c)
          /\ Again(k, c)' = Again(k, c)
      BY <1>1 DEF InList, Total, Again, Repetitions
    <2>3. CASE k # i
      <3>1. /\ Begun(k, c)' = Begun(k, c) /\ Later(k, c)' = Later(k, c)
            /\ Spare(k, c)' = Spare(k, c)
        BY <1>1, <2>3 DEF Begun, Later, Spare
      <3> QED
        BY <1>1, <2>1, <2>2, <3>1
    <2>4. CASE k = i
      <3> DEFINE S == Causing(params[i], c)
      <3>1. /\ IsFiniteSet(S) /\ Later(i, c) = Cardinality(S) /\ Later(i, c) \in Nat
            /\ Begun(i, c) = 0 /\ Spare(i, c) = 0
        BY <1>1, <1>2, Counts DEF OInv, Later, Begun, Spare
      <3>2. Later(i, c)' = Cardinality(S \ {q})
        <4>1. Causing(params'[i], c) = S \ {q}
          BY <1>1 DEF Causing
        <4> QED
          BY <4>1 DEF Later, Causing
      <3>3. Cardinality(S \ {q}) = IF q \in S THEN Later(i, c) - 1 ELSE Later(i, c)
        BY <3>1, FS_RemoveElement
      <3>4. /\ Begun(i, c)' = IF q \in S THEN 1 ELSE 0
            /\ Spare(i, c)' = IF q \in S THEN MaxRetries ELSE 0
        <4>1. tries[i] = 0 /\ MaxRetries - 0 = MaxRetries
          BY <1>1, BoundsAssumption DEF OInv, TInv, Goroutines
        <4> QED
          BY <1>1, <4>1 DEF Begun, Causing, Spare
      <3> HIDE DEF S
      <3>5. Begun(i, c)' + Later(i, c)' = Begun(i, c) + Later(i, c)
        BY <3>1, <3>2, <3>3, <3>4
      <3>6. Begun(i, c)' \in Nat /\ Later(i, c)' \in Int
        BY <3>1, <3>2, <3>3, <3>4
      <3>7. InList(i, list, v) \in Nat
        BY <1>1, Counts DEF OInv
      <3>8. ASSUME NEW in \in Nat, NEW b \in Nat, NEW l \in Nat, NEW x \in Nat, NEW y \in Int,
                   NEW t, NEW a, NEW f, x + y = b + l, Accounted(in, b, l, t, a, f)
            PROVE  Accounted(in, x, y, t, a, f)
        <4>1. in + x + y = in + b + l
          BY <3>8
        <4> QED
          BY <3>8, <4>1 DEF Accounted
      \* A push that is begun may be repeated MaxRetries times.
      <3>9. ASSUME NEW a \in Nat, NEW t \in Nat, NEW l \in Nat, Limited(a, 0, t - l)
            PROVE  Limited(a, 0, t - l) /\ Limited(a, MaxRetries, t - (l - 1))
        <4>1. PICK r \in Nat : r = MaxRetries
          BY BoundsAssumption
        <4>2. PICK d \in Int : d = t - l
          OBVIOUS
        <4>3. t - (l - 1) = d + 1
          BY <4>2
        <4>4. r * (d + 1) = r * d + r
          OBVIOUS
        <4>5. a + 0 <= r * d
          BY <3>9, <4>1, <4>2 DEF Limited
        <4>6. PICK e \in Int : e = r * d
          OBVIOUS
        <4>7. a + r <= e + r
          BY <4>5, <4>6
        <4> QED
          BY <3>9, <4>1, <4>3, <4>4, <4>6, <4>7 DEF Limited
      <3>10. Limited(Again(i, c)', Spare(i, c)', Total(i, c)' - Later(i, c)')
        <4>1. Again(i, c) \in Nat /\ Total(i, c) \in Nat
          BY <1>1, Counts DEF OInv
        <4>2. Limited(Again(i, c), 0, Total(i, c) - Later(i, c))
          BY <2>1, <2>4, <3>1
        <4>3. /\ Limited(Again(i, c), 0, Total(i, c) - Later(i, c))
              /\ Limited(Again(i, c), MaxRetries, Total(i, c) - (Later(i, c) - 1))
          BY <3>1, <3>9, <4>1, <4>2
        <4>4. CASE q \in S
          BY <2>2, <2>4, <3>2, <3>3, <3>4, <4>3, <4>4
        <4>5. CASE q \notin S
          BY <2>2, <2>4, <3>2, <3>3, <3>4, <4>3, <4>5
        <4> QED
          BY <4>4, <4>5
      <3> QED
        BY <1>1, <2>1, <2>2, <2>4, <3>1, <3>5, <3>6, <3>7, <3>8, <3>10
    <2> QED
      BY <2>3, <2>4
  <1>4. Pushes' /\ Limits'
    BY <1>1, <1>3 DEF Pushes, Limits
  <1>5. Acks'
    <2> SUFFICES ASSUME NEW k \in 1..N
                 PROVE  /\ k \in acked => ResetAck \in AllOps(received[k])
                        /\ ResetAck \in AllOps(received[k]) /\ <<k, ResetAck>> \notin failed
                           => \/ k \in acked
                              \/ ResetAck \in ToSet(calls'[k])
                              \/ \E p \in params'[k] : ResetAck \in ToSet(OpsOf(p))
      BY <1>1 DEF Acks
    <2>1. CASE k # i
      BY <1>1, <2>1 DEF OInv, Acks
    <2>2. CASE k = i
      BY <1>1, <1>2, <2>2 DEF OInv, Acks
    <2> QED
      BY <2>1, <2>2
  <1> QED
    BY <1>4, <1>5 DEF OInv

\* A push that succeeds adds its event to the lists once, and nothing else does.
LEMMA QueueGrows ==
    ASSUME TInv, NEW i, NEW c, IsCall(c), Effect(i, c), NEW k, NEW list, NEW v
    PROVE  InList(k, list, v)' = IF k = i /\ c = LPush(list, v)
                                 THEN InList(k, list, v) + 1 ELSE InList(k, list, v)
  <1> DEFINE e == <<k, list, v>>
             S == {j \in 1..L : lists[j] = e}
  <1>1. CASE c.op # "lpush"
    <2>1. lists' = lists /\ L' = L
      BY <1>1 DEF Effect, L
    <2>2. c # LPush(list, v)
      BY <1>1, CallKinds
    <2> QED
      BY <2>1, <2>2 DEF InList
  <1>2. CASE c.op = "lpush"
    <2> DEFINE d == <<i, c.list, c.value>>
    <2>1. /\ lists' = Append(lists, d) /\ IsSeq(lists, L) /\ L \in Nat
      BY <1>2, Domains DEF Effect, TInv, IInv, Shape
    <2>2. (d = e) <=> (k = i /\ c = LPush(list, v))
      <3>1. c = LPush(c.list, c.value) /\ \A a, b : c = LPush(a, b) => c.list = a /\ c.value = b
        BY <1>2, CallKinds
      <3> QED
        BY <3>1
    <2> HIDE DEF d
    <2>3. Extends(lists', lists, L, d)
      BY <2>1, AppendIsSeq
    <2>4. /\ L' = L + 1 /\ \A j \in 1..L : lists'[j] = lists[j]
          /\ lists'[L + 1] = d
      BY <2>3, LenIsSeq DEF Extends, L
    <2>5. {j \in 1..(L + 1) : lists'[j] = e} = IF d = e THEN S \cup {L + 1} ELSE S
      <3> HIDE DEF e
      <3>1. S \subseteq 1..L /\ 1..L \subseteq 1..(L + 1) /\ L + 1 \in 1..(L + 1)
        BY <2>1
      <3>2. ASSUME NEW j \in 1..(L + 1)
            PROVE  lists'[j] = e <=> (j \in S \/ (d = e /\ j = L + 1))
        <4>1. CASE j \in 1..L
          BY <2>1, <2>4, <4>1
        <4>2. CASE j = L + 1
          <5>1. lists'[j] = d
            BY <2>4, <4>2
          <5>2. j \notin S
            BY <2>1, <4>2
          <5> HIDE DEF S
          <5> QED
            BY <4>2, <5>1, <5>2
        <4>3. j \in 1..L \/ j = L + 1
          BY <2>1
        <4> HIDE DEF S
        <4> QED
          BY <4>1, <4>2, <4>3
      <3> HIDE DEF S
      <3>3. CASE d = e
        BY <3>1, <3>2, <3>3
      <3>4. CASE d # e
        BY <3>1, <3>2, <3>4
      <3> QED
        BY <3>3, <3>4
    <2>6. IsFiniteSet(S) /\ L + 1 \notin S
      <3>1. IsFiniteSet(1..L)
        BY <2>1, FS_Interval
      <3> QED
        BY <2>1, <3>1, FS_Subset
    <2>7. InList(k, list, v)' = Cardinality({j \in 1..(L + 1) : lists'[j] = e})
      BY <2>4 DEF InList
    <2>8. InList(k, list, v) = Cardinality(S)
      BY DEF InList
    <2> HIDE DEF S, e
    <2>9. Cardinality(S \cup {L + 1}) = Cardinality(S) + 1
      BY <2>6, FS_AddElement
    <2> QED
      BY <2>2, <2>5, <2>7, <2>8, <2>9
  <1> QED
    BY <1>1, <1>2

\* The sums after a push was made, and when it will be made again.
LEMMA PushSums ==
    ASSUME NEW in \in Nat, NEW later \in Nat, NEW total \in Nat, NEW fail,
           NEW again \in Nat
    PROVE  /\ Accounted(in, 1, later, total, again, fail)
              => Accounted(in + 1, 0, later, total, again, fail)
           /\ Accounted(in, 1, later, total, again, fail)
              => Accounted(in + 1, 1, later, total, again + 1, fail)
  BY DEF Accounted

\* A repetition takes one of those left; a push that was made needs none.
LEMMA LimitSums ==
    ASSUME NEW again \in Nat, NEW t \in Nat, t <= MaxRetries, NEW begun,
           NEW product \in Int, product = MaxRetries * begun,
           Limited(again, MaxRetries - t, begun)
    PROVE  /\ Limited(again, 0, begun)
           /\ Limited(again + 1, MaxRetries - (t + 1), begun)
  <1>1. again + (MaxRetries - t) <= product /\ MaxRetries \in Nat
    BY BoundsAssumption DEF Limited
  <1>2. again + 0 <= product /\ again + 1 + (MaxRetries - (t + 1)) <= product
    BY <1>1
  <1> QED
    BY <1>2 DEF Limited

\* A pipeline that is repeated has but the write more to make.
LEMMA RestartedSet ==
    ASSUME NEW s, AreCalls(s), NEW c, NEW d, d.op # "hset"
    PROVE  d \in ToSet(Restarted(c, s)) <=> d \in ToSet(s)
  <1>1. CASE c.op # "publish"
    BY <1>1 DEF Restarted
  <1>2. CASE c.op = "publish"
    <2> DEFINE h == HSet(c.channel, c.payload[1], c.payload[2])
               S == {s[j] : j \in 1..Len(s)} \cup {h}
    <2>1. h.op = "hset" /\ h \in S
      BY DEF HSet
    <2>2. Len(s) \in Nat /\ s \in [1..Len(s) -> S]
      BY DEF AreCalls, IsSeq
    <2>3. Restarted(c, s) = <<h>> \o s
      BY <1>2 DEF Restarted
    <2> HIDE DEF h, S
    <2>4. PICK r : r = <<h>> \o s
      OBVIOUS
    <2>5. s \in Seq(S) /\ <<h>> \in Seq(S) /\ Len(<<h>>) = 1 /\ <<h>>[1] = h
      BY <2>1, <2>2
    <2>6. /\ r \in Seq(S) /\ Len(r) = 1 + Len(s)
          /\ r[1] = h /\ \A j \in 1..Len(s) : r[j + 1] = s[j]
      BY <2>4, <2>5
    <2>7. DOMAIN r = 1..(Len(s) + 1) /\ DOMAIN s = 1..Len(s)
      BY <2>2, <2>6
    <2>8. ASSUME d \in ToSet(r) PROVE d \in ToSet(s)
      <3>1. PICK j \in 1..(Len(s) + 1) : d = r[j]
        BY <2>7, <2>8 DEF ToSet
      <3>2. j # 1
        BY <2>1, <2>6, <3>1
      <3>3. j - 1 \in 1..Len(s) /\ d = s[j - 1]
        BY <2>2, <2>6, <3>1, <3>2
      <3> QED
        BY <2>7, <3>3 DEF ToSet
    <2>9. ASSUME d \in ToSet(s) PROVE d \in ToSet(r)
      <3>1. PICK j \in 1..Len(s) : d = s[j]
        BY <2>7, <2>9 DEF ToSet
      <3>2. j + 1 \in 1..(Len(s) + 1) /\ d = r[j + 1]
        BY <2>2, <2>6, <3>1
      <3> QED
        BY <2>7, <3>2 DEF ToSet
    <2> QED
      BY <2>3, <2>4, <2>8, <2>9
  <1> QED
    BY <1>1, <1>2

\* A call that is made, fails or is repeated keeps the sums: only the event's
\* own push moves it from the calls to the lists.
LEMMA ActsOnce == ASSUME OInv, TInv', NEW i, NEW c, Acts(i, c) PROVE OInv'
  <1>1. /\ i \in 1..N /\ calls[i] # <<>> /\ c = calls[i][1] /\ IsCall(c)
        /\ c \in AllOps(received[i])
        /\ N' = N /\ UNCHANGED <<received, params, before>>
        /\ \A j \in 1..N : j # i => calls'[j] = calls[j] /\ tries'[j] = tries[j]
        /\ calls'[i] \in {Tail(calls[i]), Restarted(c, calls[i])}
        /\ failed \subseteq failed'
    BY DEF Acts, Passes
  <1>2. AreCalls(calls[i])
    BY <1>1, CallsLeft DEF OInv
  <1>3. \A d : d.op # "hset" => (d \in ToSet(Restarted(c, calls[i])) <=> d \in ToSet(calls[i]))
    BY <1>1, <1>2, RestartedSet
  <1>4. ASSUME NEW k \in 1..N, NEW list, NEW v, NEW d, d = LPush(list, v)
        PROVE  /\ Accounted(InList(k, list, v)', Begun(k, d)', Later(k, d)', Total(k, d)',
                            Again(k, d)', <<k, d>> \in failed')
               /\ Limited(Again(k, d)', Spare(k, d)', Total(k, d)' - Later(k, d)')
    <2>1. /\ Accounted(InList(k, list, v), Begun(k, d), Later(k, d), Total(k, d),
                       Again(k, d), <<k, d>> \in failed)
          /\ Limited(Again(k, d), Spare(k, d), Total(k, d) - Later(k, d))
      BY <1>4 DEF OInv, Pushes, Limits
    <2>2. Later(k, d)' = Later(k, d) /\ Total(k, d)' = Total(k, d)
      BY <1>1 DEF Later, Total
    <2>3. /\ Effect(i, c) => InList(k, list, v)' = IF k = i /\ c = d THEN InList(k, list, v) + 1
                                                   ELSE InList(k, list, v)
          /\ lists' = lists => InList(k, list, v)' = InList(k, list, v)
      <3>1. ASSUME Effect(i, c)
            PROVE  InList(k, list, v)' = IF k = i /\ c = d THEN InList(k, list, v) + 1
                                         ELSE InList(k, list, v)
        BY <1>1, <1>4, <3>1, QueueGrows DEF OInv
      <3>2. ASSUME lists' = lists PROVE InList(k, list, v)' = InList(k, list, v)
        BY <3>2 DEF InList, L
      <3> QED
        BY <3>1, <3>2
    <2>4. d.op = "lpush"
      BY <1>4 DEF LPush
    \* Another call, or another message's, leaves the event alone.
    <2>5. CASE k # i \/ c # d
      <3>1. InList(k, list, v)' = InList(k, list, v)
        BY <2>3, <2>5 DEF Acts
      <3>2. Begun(k, d)' = Begun(k, d) /\ Spare(k, d)' = Spare(k, d)
        <4>1. CASE k # i
          BY <1>1, <4>1 DEF Begun, Spare
        <4>2. CASE k = i /\ c # d
          <5>1. d \notin ToSet(calls[i]) /\ d \notin ToSet(Tail(calls[i]))
            BY <1>1, <1>2, <2>4, <4>2, FirstOrRest
          <5>2. d \notin ToSet(calls'[i])
            BY <1>1, <1>3, <2>4, <5>1
          <5> QED
            BY <4>2, <5>1, <5>2 DEF Begun, Spare
        <4> QED
          BY <2>5, <4>1, <4>2
      <3>3. Again(k, d)' = Again(k, d) /\ (<<k, d>> \in failed' <=> <<k, d>> \in failed)
        <4>1. <<k, d>> # <<i, c>>
          BY <2>5
        <4>2. \/ repeated' = repeated
              \/ repeated' = repeated (+) SetToBag({<<i, c>>})
          BY DEF Acts
        <4>3. <<k, d>> \in failed' <=> <<k, d>> \in failed
          BY <4>1 DEF Acts
        <4>4. Again(k, d) \in Nat
          BY Counts DEF OInv
        <4>5. Again(k, d)' = Again(k, d)
          BY <4>1, <4>2, <4>4 DEF Again, Repetitions, BagIn, BagToSet, (+), SetToBag
        <4> QED
          BY <4>3, <4>5
      <3>4. CASE <<k, d>> \in failed
        BY <2>1, <2>2, <3>1, <3>2, <3>3, <3>4
      <3>5. CASE <<k, d>> \notin failed
        BY <2>1, <2>2, <3>1, <3>2, <3>3, <3>5 DEF Accounted
      <3> QED
        BY <3>4, <3>5
    <2>6. CASE k = i /\ c = d
      <3>1. /\ InList(k, list, v) \in Nat /\ Later(k, d) \in Nat /\ Total(k, d) \in Nat
            /\ Again(k, d) \in Nat
        BY Counts DEF OInv
      <3>2. Begun(k, d) = 1 /\ Spare(k, d) = MaxRetries - tries[k]
        <4>1. d \in ToSet(calls[i])
          BY <1>1, <1>2, <2>6, FirstOrRest
        <4> QED
          BY <2>6, <4>1 DEF Begun, Spare
      <3>3. calls'[i] = Tail(calls[i]) => Begun(k, d)' = 0 /\ Spare(k, d)' = 0
        <4>1. d \notin ToSet(Tail(calls[i]))
          BY <1>1, <1>2, <2>4, FirstOrRest
        <4> QED
          BY <2>6, <4>1 DEF Begun, Spare
      <3> DEFINE in == InList(k, list, v)
                 later == Later(k, d)
                 total == Total(k, d)
                 again == Again(k, d)
      <3>4. /\ Limited(again, 0, total - later)
            /\ Limited(again + 1, MaxRetries - (tries[k] + 1), total - later)
        <4>1. tries[k] \in Nat /\ tries[k] <= MaxRetries /\ MaxRetries \in Nat
          BY BoundsAssumption DEF OInv, TInv, Goroutines
        <4>2. PICK b \in Int : b = total - later
          BY <3>1
        <4>3. MaxRetries * b \in Int
          BY <4>1
        <4>4. Limited(again, MaxRetries - tries[k], b)
          BY <2>1, <3>2, <4>2
        <4> HIDE DEF total, later, again
        <4>5. again \in Nat
          BY <3>1 DEF again
        <4>6. Limited(again, 0, b) /\ Limited(again + 1, MaxRetries - (tries[k] + 1), b)
          BY <4>1, <4>3, <4>4, <4>5, LimitSums
        <4> QED
          BY <4>2, <4>6
      <3>5. CASE calls'[i] = Tail(calls[i]) /\ Effect(i, c) /\ UNCHANGED <<failed, repeated>>
        <4>1. Again(k, d)' = Again(k, d)
          BY <3>5 DEF Again, Repetitions
        <4>2. Accounted(in + 1, 0, later, total, again, <<k, d>> \in failed)
          BY <2>1, <3>1, <3>2, PushSums
        <4> QED
          BY <2>2, <2>3, <2>6, <3>3, <3>4, <3>5, <4>1, <4>2
      <3>6. CASE /\ calls'[i] = Tail(calls[i])
                 /\ Effect(i, c) \/ UNCHANGED <<store, lists, published, acked>>
                 /\ failed' = failed \cup {<<i, c>>} /\ repeated' = repeated
        <4>1. Again(k, d)' = Again(k, d) /\ (<<k, d>> \in failed') = TRUE
          BY <2>6, <3>6 DEF Again, Repetitions
        <4>2. /\ Accounted(in + 1, 0, later, total, again, TRUE)
              /\ Accounted(in, 0, later, total, again, TRUE)
          <5>1. /\ in \in Nat /\ later \in Nat /\ total \in Nat /\ again \in Nat
                /\ in + 1 + later <= total + again
            BY <2>1, <3>1, <3>2 DEF Accounted
          <5> HIDE DEF in, later, total, again
          <5>2. in + 1 + 0 + later <= total + again /\ in + 0 + later <= total + again
            BY <5>1
          <5> QED
            BY <5>2 DEF Accounted
        <4>3. InList(k, list, v)' = in + 1 \/ InList(k, list, v)' = in
          BY <2>3, <2>6, <3>6
        <4>4. Limited(Again(k, d)', Spare(k, d)', Total(k, d)' - Later(k, d)')
          BY <2>2, <3>3, <3>4, <3>6, <4>1
        <4> HIDE DEF in, later, total, again
        <4> QED
          BY <2>2, <3>3, <3>6, <4>1, <4>2, <4>3, <4>4 DEF later, total, again
      <3>7. CASE /\ calls'[i] = Restarted(c, calls[i]) /\ Effect(i, c) /\ failed' = failed
                 /\ tries'[i] = tries[i] + 1
                 /\ repeated' = repeated (+) SetToBag({<<i, c>>})
        <4>1. Again(k, d)' = Again(k, d) + 1
          <5>1. DOMAIN SetToBag({<<i, c>>}) = {<<i, c>>} /\ SetToBag({<<i, c>>})[<<i, c>>] = 1
            BY DEF SetToBag
          <5>2. /\ DOMAIN repeated' = DOMAIN repeated \cup {<<i, c>>}
                /\ repeated'[<<i, c>>]
                   = (IF <<i, c>> \in DOMAIN repeated THEN repeated[<<i, c>>] ELSE 0) + 1
            BY <3>7, <5>1 DEF (+)
          <5> QED
            BY <2>6, <5>2 DEF Again, Repetitions, BagIn, BagToSet
        <4>2. Begun(k, d)' = 1 /\ Spare(k, d)' = MaxRetries - (tries[k] + 1)
          <5>1. d \in ToSet(calls'[i])
            <6>1. d \in ToSet(calls[i])
              BY <1>1, <1>2, <2>6, FirstOrRest
            <6>2. d.op # "hset"
              BY <2>4
            <6> QED
              BY <1>3, <3>7, <6>1, <6>2
          <5> QED
            BY <2>6, <3>7, <5>1 DEF Begun, Spare
        <4>3. Accounted(in + 1, 1, later, total, again + 1, <<k, d>> \in failed)
          BY <2>1, <3>1, <3>2, PushSums
        <4> QED
          BY <2>2, <2>3, <2>6, <3>4, <3>7, <4>1, <4>2, <4>3
      <3> QED
        BY <3>5, <3>6, <3>7 DEF Acts, Passes
    <2> QED
      BY <2>5, <2>6
  <1>5. Pushes' /\ Limits'
    BY <1>1, <1>4 DEF Pushes, Limits
  <1>6. Acks'
    <2> SUFFICES ASSUME NEW k \in 1..N
                 PROVE  /\ k \in acked' => ResetAck \in AllOps(received[k])
                        /\ ResetAck \in AllOps(received[k]) /\ <<k, ResetAck>> \notin failed'
                           => \/ k \in acked'
                              \/ ResetAck \in ToSet(calls'[k])
                              \/ \E p \in params[k] : ResetAck \in ToSet(OpsOf(p))
      BY <1>1 DEF Acks
    <2>1. /\ k \in acked => ResetAck \in AllOps(received[k])
          /\ ResetAck \in AllOps(received[k]) /\ <<k, ResetAck>> \notin failed
             => \/ k \in acked
                \/ ResetAck \in ToSet(calls[k])
                \/ \E p \in params[k] : ResetAck \in ToSet(OpsOf(p))
      BY DEF OInv, Acks
    <2>2. (c.op = "uart") <=> (c = ResetAck)
      BY <1>1, CallKinds
    <2>3. /\ acked' \in {acked, acked \cup {i}}
          /\ acked' # acked => c = ResetAck
          /\ Effect(i, c) /\ c = ResetAck => i \in acked'
      BY <2>2 DEF Acts, Effect
    <2>4. k \in acked' => ResetAck \in AllOps(received[k])
      BY <1>1, <2>1, <2>3
    <2>5. ASSUME ResetAck \in AllOps(received[k]), <<k, ResetAck>> \notin failed'
          PROVE  \/ k \in acked'
                 \/ ResetAck \in ToSet(calls'[k])
                 \/ \E p \in params[k] : ResetAck \in ToSet(OpsOf(p))
      <3>1. CASE k # i
        BY <1>1, <2>1, <2>3, <2>5, <3>1
      <3>2. CASE k = i /\ c = ResetAck
        <4>1. Effect(i, c)
          BY <2>5, <3>2 DEF Acts
        <4> QED
          BY <2>3, <3>2, <4>1
      <3>3. CASE k = i /\ c # ResetAck
        <4>1. ResetAck \in ToSet(calls[i]) => ResetAck \in ToSet(calls'[i])
          <5>1. ResetAck.op # "hset"
            BY DEF ResetAck
          <5> QED
            BY <1>1, <1>2, <1>3, <3>3, <5>1, FirstOrRest
        <4> QED
          BY <1>1, <2>1, <2>3, <2>5, <3>3, <4>1
      <3> QED
        BY <3>1, <3>2, <3>3
    <2> QED
      BY <2>4, <2>5
  <1> QED
    BY <1>5, <1>6 DEF OInv

LEMMA NextOnce == OInv /\ [Next]_vars => OInv'
  <1> SUFFICES ASSUME OInv, [Next]_vars PROVE OInv'
    OBVIOUS
  <1>1. TInv'
    BY NextTypes DEF OInv
  <1>2. CASE UNCHANGED vars
    <2>1. UNCHANGED <<received, params, calls, tries, lists, acked, failed, repeated>>
      BY <1>2 DEF vars, mishaps
    <2>2. N' = N /\ L' = L
      BY <2>1 DEF N, L
    <2>3. ASSUME NEW i, NEW c, NEW list, NEW v
          PROVE  /\ InList(i, list, v)' = InList(i, list, v) /\ Begun(i, c)' = Begun(i, c)
                 /\ Later(i, c)' = Later(i, c) /\ Total(i, c)' = Total(i, c)
                 /\ Again(i, c)' = Again(i, c) /\ Spare(i, c)' = Spare(i, c)
      BY <2>1, <2>2 DEF InList, Begun, Later, Total, Again, Repetitions, Spare
    <2>4. Pushes' /\ Limits'
      BY <2>1, <2>2, <2>3 DEF OInv, Pushes, Limits
    <2>5. Acks'
      BY <2>1, <2>2 DEF OInv, Acks
    <2> QED
      BY <1>1, <2>4, <2>5 DEF OInv
  <1>3. ASSUME NEW m \in Incoming, Receive(m) PROVE OInv'
    BY <1>1, <1>3, ReceiveOnce
  <1>4. ASSUME NEW i \in DOMAIN received, Begin(i) PROVE OInv'
    BY <1>1, <1>4, BeginTurns, TurnsOnce DEF OInv
  <1>5. ASSUME NEW i \in DOMAIN received, Call(i) \/ Retry(i) PROVE OInv'
    BY <1>1, <1>5, CallActs, ActsOnce DEF OInv
  <1> QED
    BY <1>2, <1>3, <1>4, <1>5 DEF Next

\* Every event a message names is queued and its reset report acknowledged,
\* unless that call failed; an event more often only by the repetitions of its
\* push, which are at most MaxRetries each time.
THEOREM InboundOncePerMessage == Spec => []OncePerMessage
  BY InitOInv, NextOnce, OInvOncePerMessage, PTL DEF Spec
=============================================================================
