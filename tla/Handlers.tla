------------------------------ MODULE Handlers ------------------------------
(***************************************************************************)
(* What the handlers of usock_handlers.go do for one parameter of a        *)
(* message from the nRF52: the Redis calls and UART writes of each, in the *)
(* order of the code, as a sequence of operations.  A handler goes on to   *)
(* its next call when one fails, so the sequence does not depend on that.  *)
(*                                                                         *)
(* A decoded CBOR value is a tuple: <<"int", n>>, <<"text", s>>,           *)
(* <<"bytes", s>>, <<"pair", v, w>> (an array of two) or <<"other">>.      *)
(* Numbers that do not fit the int of the build are "other": convertToInt  *)
(* refuses them.                                                           *)
(***************************************************************************)
EXTENDS BleTypes, SequencesExt, FiniteSets

IsInt(v)  == v[1] = "int"
IsText(v) == v[1] \in {"text", "bytes"}
Text(s)   == <<"text", s>>

-----------------------------------------------------------------------------
(* Calls.                                                                  *)

HSet(key, field, v)  == [op |-> "hset", at |-> <<key, field>>, value |-> v]
HDel(key, field)     == [op |-> "hdel", at |-> <<key, field>>]
Publish(key, payload) == [op |-> "publish", channel |-> key, payload |-> payload]
LPush(list, v)       == [op |-> "lpush", list |-> list, value |-> v]
ResetAck             == [op |-> "uart"]

\* WriteAndPublish that announces the mere name of the field, as the other
\* services do.
WriteAndPublishName(key, field, v) ==
    <<HSet(key, field, v), Publish(key, <<field>>)>>

\* WriteAndPublish that announces the value before it is stored.
WriteAndPublishFirst(key, field, v) ==
    <<Publish(key, <<field, v>>), HSet(key, field, v)>>

\* One pipeline, not a transaction: each of the two may fail on its own.  The
\* payload is "field:value": here its parts, <<field, value>>.
WriteAndPublish(key, field, v) ==
    <<HSet(key, field, v), Publish(key, <<field, v>>)>>

WriteInt(key, field, v)  == IF IsInt(v) THEN <<HSet(key, field, v)>> ELSE <<>>
WriteText(key, field, v) == IF IsText(v) THEN <<HSet(key, field, Text(v[2]))>> ELSE <<>>

-----------------------------------------------------------------------------
(* The fuel gauge's status words (MAX1730x).                               *)

Bit(n, b) == (n \div 2^b) % 2 = 1

AlertBits     == <<2, 6, 8, 12, 9, 13, 10, 14>>   \* in the order tested
DischargeBits == {2, 3, 4, 5}
ChargeBits    == {12, 11, 10, 9, 14, 13, 5}
FETBits       == <<12, 11, 10>>                   \* in the order tested

\* No bit of bits is set in n.
NoneSet(n, bits) == \A b \in bits : ~Bit(n, b)

\* The 1-based place of the first bit of order that is set in n.
FirstSet(n, order) ==
    CHOOSE i \in DOMAIN order :
        Bit(n, order[i]) /\ \A j \in 1..(i - 1) : ~Bit(n, order[j])

writeFault(key, code, field) == <<HSet(key, field, <<field, code>>)>>
clearFault(key, field)       == <<HDel(key, field)>>

AlertOps(n) ==
    IF NoneSet(n, ToSet(AlertBits)) THEN clearFault("cb-battery:alert", "alert")
    ELSE writeFault("cb-battery:alert", FirstSet(n, AlertBits) - 1, "alert")

ProtectionOps(n) ==
    IF ~NoneSet(n, DischargeBits) THEN writeFault("cb-battery:fault", 0, "fault")
    ELSE IF ~NoneSet(n, ChargeBits) THEN writeFault("cb-battery:fault", 1, "fault")
    ELSE clearFault("cb-battery:fault", "fault")

BattStatusOps(n) ==
    IF NoneSet(n, ToSet(FETBits)) THEN clearFault("cb-battery:fault", "fault")
    ELSE writeFault("cb-battery:fault", FirstSet(n, FETBits) + 1, "fault")

-----------------------------------------------------------------------------
(* One handler per message type.                                           *)

handleScooterInfoMessage(key, v) ==
    CASE key = Type.ScooterInfo + ScooterInfo.Mileage ->
           WriteInt("engine-ecu", "odometer", v)
      [] key = Type.ScooterInfo + ScooterInfo.SoftwareVersion ->
           WriteText("system", "mdb-version", v)
      [] OTHER -> <<>>

handleBLEVersionMessage(key, v) ==
    IF key = Type.BLEVersion + BLEVersion.String THEN WriteText("ble", "nrf-fw-version", v) ELSE <<>>

\* Reset count and reason are stored and the ACK is sent even if both fail.
handleBLEDebugMessage(key, v) ==
    IF key = Type.BLEReset /\ v[1] = "pair" /\ IsInt(v[2]) /\ IsInt(v[3])
    THEN <<HSet("power-manager", "nrf-reset-count", v[3])>>
         \o WriteAndPublish("power-manager", "nrf-reset-reason", v[2])
         \o <<ResetAck>>
    ELSE <<>>

handleDataStreamMessage(key, v) ==
    IF key = Type.DataStream + DataStream.Enable
    THEN WriteInt("aux-battery", "data-stream-enable", v) ELSE <<>>

handleAuxBatteryMessage(key, v) ==
    CASE key = Type.AuxBattery + AuxBattery.Voltage ->
           WriteInt("aux-battery", "voltage", v)
      [] key = Type.AuxBattery + AuxBattery.Charge ->
           WriteInt("aux-battery", "charge", v)
      [] key = Type.AuxBattery + AuxBattery.ChargerStatus ->
           WriteText("aux-battery", "charge-status", v)
      [] OTHER -> <<>>

\* The pin is deleted, then written back empty along with the publication.
RemovePin == <<HDel("ble", "pin-code")>> \o WriteAndPublish("ble", "pin-code", Text(""))

handleBLEParamMessage(type, key, v) ==
    CASE key = Type.BLEParam + BLEParam.MACAddress ->
           WriteText("ble", "mac-address", v)
      [] key = Type.BLEPairingPinDisplay ->
           IF IsText(v) THEN WriteAndPublish("ble", "pin-code", Text(v[2])) ELSE <<>>
      [] key = Type.BLEPairingPinRemove -> RemovePin
      [] key = Type.BLEStatus ->
           IF type = Type.BLEParam THEN WriteText("ble", "connection-status", v) ELSE <<>>
      [] OTHER -> <<>>

\* Subtypes stored under a field of their own: numbers, then texts.
NumberFields ==
    BatteryInfo.Charge :> "charge" @@ BatteryInfo.Current :> "current"
    @@ BatteryInfo.RemCapacity :> "remaining-capacity"
    @@ BatteryInfo.FullCapacity :> "full-capacity"
    @@ BatteryInfo.CellVoltage :> "cell-voltage" @@ BatteryInfo.Temp :> "temperature"
    @@ BatteryInfo.CycleCount :> "cycle-count" @@ BatteryInfo.TTE :> "time-to-empty"
    @@ BatteryInfo.TTF :> "time-to-full" @@ BatteryInfo.SOH :> "state-of-health"
TextFields ==
    BatteryInfo.UniqueID :> "unique-id" @@ BatteryInfo.SerialNumber :> "serial-number"

PartNumber(n) ==
    CASE n = 5 -> "MAX17301" [] n = 6 -> "MAX17302" [] n = 7 -> "MAX17303"
      [] OTHER -> "MAX1730X"
ChargeStatus(n) ==
    CASE n = 0 -> "not-charging" [] n = 1 -> "charging" [] OTHER -> "unknown"

handleBatteryInfoMessage(sub, v) ==
    IF sub \in DOMAIN TextFields THEN WriteText("cb-battery", TextFields[sub], v)
    ELSE IF ~IsInt(v) THEN <<>>
    ELSE CASE sub = BatteryInfo.Status -> AlertOps(v[2])
           [] sub = BatteryInfo.ProtectionStatus -> ProtectionOps(v[2])
           [] sub = BatteryInfo.BattStatus -> BattStatusOps(v[2])
           [] sub \in DOMAIN NumberFields -> <<HSet("cb-battery", NumberFields[sub], v)>>
           [] sub = BatteryInfo.PartNo ->
                <<HSet("cb-battery", "part-number", Text(PartNumber(v[2])))>>
           [] sub = BatteryInfo.Present ->
                <<HSet("cb-battery", "present", Text(IF v[2] # 0 THEN "true" ELSE "false"))>>
           [] sub = BatteryInfo.ChargeStatus ->
                <<HSet("cb-battery", "charge-status", Text(ChargeStatus(v[2])))>>
           [] OTHER -> <<>>

\* The events and the list each is pushed to.
Events ==
    "scooter:state unlock" :> <<"scooter:state", "unlock">>
    @@ "scooter:state lock" :> <<"scooter:state", "lock">>
    @@ "scooter:seatbox open" :> <<"scooter:seatbox", "open">>
    @@ "scooter:blinker right" :> <<"scooter:blinker", "right">>
    @@ "scooter:blinker left" :> <<"scooter:blinker", "left">>
    @@ "scooter:blinker both" :> <<"scooter:blinker", "both">>
    @@ "scooter:blinker off" :> <<"scooter:blinker", "off">>

handleEventMessage(v) ==
    IF v[1] = "text" /\ v[2] \in DOMAIN Events
    THEN <<LPush(Events[v[2]][1], Events[v[2]][2])>> ELSE <<>>

handlePowerMuxMessage(v) ==
    IF IsInt(v)
    THEN WriteAndPublish("power-mux", "selected-input",
                         Text(IF v[2] = 0 THEN "aux" ELSE "cb"))
    ELSE <<>>

\* These only log what the nRF52 acknowledges or echoes, whatever it is: the
\* writes to Redis are commented out, or were never there.
handleBatteryMessage(key, v)         == <<>>
handleVehicleStateMessage(key, v)    == <<>>
handlePowerManagementMessage(key, v) == <<>>
handleBLECommandMessage(key, v)      == <<>>

\* The calls HandleUSockMessage makes for one parameter.
Ops(type, key, v) ==
    LET relative == IF key >= type THEN key - type ELSE 0
    IN  CASE type = Type.Battery -> handleBatteryMessage(key, v)
          [] type = Type.VehicleState -> handleVehicleStateMessage(key, v)
          [] type = Type.ScooterInfo -> handleScooterInfoMessage(key, v)
          [] type \in {Type.BLEParam, Type.BLEPairingPinDisplay,
                       Type.BLEPairingPinRemove, Type.BLEStatus} ->
               handleBLEParamMessage(type, key, v)
          [] type = Type.BLEVersion -> handleBLEVersionMessage(key, v)
          [] type \in {Type.BLEDebug, Type.BLEReset} -> handleBLEDebugMessage(key, v)
          [] type = Type.DataStream -> handleDataStreamMessage(type + relative, v)
          [] type = Type.PowerManagement -> handlePowerManagementMessage(key, v)
          [] type = Type.AuxBattery -> handleAuxBatteryMessage(type + relative, v)
          [] type = Type.BLECommand -> handleBLECommandMessage(key, v)
          [] type = Type.BatteryInfo -> handleBatteryInfoMessage(relative, v)
          [] type = Type.PowerMux -> handlePowerMuxMessage(v)
          [] type = Type.Event -> handleEventMessage(v)
          [] OTHER -> <<>>

-----------------------------------------------------------------------------
(* The payload of a frame is what the CBOR library makes of it: entries of *)
(* the top-level map, each a type with its parameters, a set of            *)
(* <<key, value>>.  A key that is not an unsigned integer is -1.           *)

Entry(type, params) == [type |-> type, isMap |-> TRUE, params |-> params]
NoMap(type)         == [type |-> type, isMap |-> FALSE, params |-> {}]
Payload(entries)    == [decoded |-> TRUE, entries |-> entries]
Undecodable         == [decoded |-> FALSE, entries |-> {}]

\* Types and keys are numbers of 16 bits.
Keys == 0..65535

\* What HandleUSockMessage handles of a payload, as <<type, key, value>>.
\* Without exactly one type, or with parameters that are no map, the message
\* is logged and dropped; so is a parameter whose key is no 16-bit number.
Handled(payload) ==
    IF ~payload.decoded \/ Cardinality(payload.entries) # 1 THEN {}
    ELSE LET e == CHOOSE entry \in payload.entries : TRUE
         IN  IF ~e.isMap THEN {}
             ELSE {<<e.type, p[1], p[2]>> : p \in {q \in e.params : q[1] \in Keys}}
=============================================================================
