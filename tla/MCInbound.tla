----------------------------- MODULE MCInbound -----------------------------
(* Inbound with sets of messages chosen by the cfg.                         *)
EXTENDS Inbound, TLC

Single(type, key, v) == Payload({Entry(type, {<<key, v>>})})
CB(sub, n) == Single(Type.BatteryInfo, Type.BatteryInfo + sub, <<"int", n>>)

PinMessages ==
    {Single(Type.BLEPairingPinDisplay, Type.BLEPairingPinDisplay, Text("123456")),
     Single(Type.BLEParam, Type.BLEPairingPinDisplay, <<"bytes", "654321">>),
     Single(Type.BLEPairingPinRemove, Type.BLEPairingPinRemove, <<"int", 0>>)}

EventMessages ==
    {Single(Type.Event, 1, Text("scooter:state unlock")),
     Single(Type.Event, 1, Text("scooter:state lock")),
     Single(Type.Event, 1, Text("scooter:unknown")),
     Payload({Entry(Type.Event, {<<k, Text("scooter:state unlock")>> : k \in {1, 2}})})}

ResetMessages ==
    {Single(Type.BLEReset, Type.BLEReset, <<"pair", <<"int", 4>>, <<"int", 1>>>>),
     Single(Type.BLEReset, Type.BLEReset, <<"pair", <<"other">>, <<"int", 2>>>>)}

\* Status words: clear, one bit, several, and a bit that is no fault.
StatusMessages ==
    {CB(8, n) : n \in {0, 4, 2^12 + 2^9}}
    \cup {CB(11, n) : n \in {0, 2^5, 2^13}}
    \cup {CB(15, n) : n \in {1, 2^11}}

\* Messages for the remaining handlers, in a form the handler takes and,
\* for some, in one it refuses; and one message of two parameters.
OtherMessages ==
    {CB(sub, 7) : sub \in 16..19} \cup {CB(17, 0)}
    \cup {Single(Type.BatteryInfo, Type.BatteryInfo + sub, v) :
             sub \in {13, 16}, v \in {Text("a"), <<"other">>}}
    \cup {Single(Type.ScooterInfo, Type.ScooterInfo + sub, v) :
             sub \in {1, 2}, v \in {<<"bytes", "b">>, <<"int", 7>>}}
    \cup {Single(Type.BLEVersion, Type.BLEVersion + 1, Text("a")),
          Single(Type.BLEParam, Type.BLEParam + 1, Text("a"))}
    \cup {Single(type, Type.BLEStatus, Text("connected")) : type \in {Type.BLEParam, Type.BLEStatus}}
    \cup {Single(Type.DataStream, Type.DataStream + 1, <<"int", 7>>)}
    \cup {Single(Type.AuxBattery, Type.AuxBattery + sub, <<"int", 7>>) : sub \in {1, 3, 4}}
    \cup {Single(Type.PowerMux, Type.PowerMux + 1, v) : v \in {<<"int", 0>>, <<"int", 7>>, <<"other">>}}
    \cup {Payload({Entry(Type.BatteryInfo,
             {<<Type.BatteryInfo + 1, <<"int", 7>>>>, <<Type.BatteryInfo + 2, <<"int", 7>>>>})})}

\* What is only logged: acknowledgments and echoes of what the service sent.
Echoes ==
    {Single(Type.Battery, Type.Battery + BatterySlot[2].State, <<"int", 3>>),
     Single(Type.VehicleState, Type.VehicleState + VehicleStateSub.State, <<"int", 2>>),
     Single(Type.PowerManagement, Type.PowerManagement + PowerManagement.State, <<"int", 1>>),
     Single(Type.BLECommand, Type.BLECommand + BLECommand.AdvStop, <<"int", 0>>)}

\* Payloads that are dropped, as a whole or in part; each carries an event.
IllFormed ==
    LET unlock == <<1, Text("scooter:state unlock")>>
        lock   == <<-1, Text("scooter:state lock")>>
    IN  {Undecodable, Payload({}), Payload({NoMap(Type.Event)}),
         Payload({Entry(Type.Event, {unlock}), NoMap(Type.BLEStatus)}),
         Payload({Entry(Type.Event, {})}),
         Payload({Entry(Type.Event, {unlock, lock})}),
         Payload({Entry(Type.Event, {<<65536, Text("scooter:state lock")>>})})}

\* Messages about the pin, and reports of the two words that share a field: a
\* fault of one, and the other without.
SharedMessages ==
    {PinMessages, {CB(BatteryInfo.ProtectionStatus, 0), CB(BatteryInfo.BattStatus, 2^11)}}

FieldMessages   == PinMessages \cup StatusMessages
AllMessages     == FieldMessages \cup EventMessages \cup ResetMessages
                   \cup OtherMessages \cup Echoes \cup IllFormed
=============================================================================
