------------------------------ MODULE BleTypes ------------------------------
(***************************************************************************)
(* The numbers of pkg/ble/types.go: message types, the subtypes relative   *)
(* to them, and the BLE commands.  A parameter travels under its absolute  *)
(* key, type + subtype, in 16 bits.                                        *)
(***************************************************************************)
EXTENDS Integers, Sequences

Type ==
    [DataStream |-> 192,            \* 0x00C0
     BLEParam |-> 41088,            \* 0xA080
     Battery |-> 224,               \* 0x00E0
     VehicleState |-> 32,           \* 0x0020
     ScooterInfo |-> 41024,         \* 0xA040
     PowerManagement |-> 2048,      \* 0x0800
     BLEPairingPinDisplay |-> 41088 + 2,
     BLEPairingPinRemove |-> 41088 + 3,
     BLEStatus |-> 41088 + 4,
     BLECommand |-> 43520,          \* 0xAA00
     BLEDebug |-> 40992,            \* 0xA020
     BLEReset |-> 40992 + 1,
     BLEVersion |-> 40960,          \* 0xA000
     AuxBattery |-> 64,             \* 0x0040
     BatteryInfo |-> 96,            \* 0x0060
     PowerMux |-> 256,              \* 0x0100
     Event |-> 0]                   \* a literal in HandleUSockMessage

DataStream      == [Enable |-> 1, Sync |-> 2]
BLEParam        == [MACAddress |-> 1, DeleteBonds |-> 2, Advertising |-> 3, Data |-> 24]
VehicleStateSub == [State |-> 1, Seatbox |-> 2, Handlebar |-> 3]
ScooterInfo     == [SoftwareVersion |-> 1, Mileage |-> 2]
PowerManagement == [State |-> 1, PowerRequest |-> 2]
BLEDebug        == [ResetAck |-> 3]
BLEVersion      == [String |-> 1, Request |-> 2]
AuxBattery      == [Voltage |-> 1, Charge |-> 4, ChargerStatus |-> 3]

\* One record per slot.
BatterySlot ==
    << [State |-> 2,  Presence |-> 3,  CycleCount |-> 6,  Charge |-> 9],
       [State |-> 14, Presence |-> 15, CycleCount |-> 18, Charge |-> 21] >>

BatteryInfo ==
    [Charge |-> 1, Current |-> 2, RemCapacity |-> 3, FullCapacity |-> 4,
     CellVoltage |-> 5, Temp |-> 6, CycleCount |-> 7, Status |-> 8, TTE |-> 9,
     TTF |-> 10, ProtectionStatus |-> 11, SOH |-> 12, UniqueID |-> 13,
     SerialNumber |-> 14, BattStatus |-> 15, PartNo |-> 16, Present |-> 17,
     ChargeStatus |-> 18]

BLECommand ==
    [AdvStartWithWhitelist |-> 1, AdvRestartNoWhitelist |-> 2, AdvStop |-> 3,
     DeleteBond |-> 4, DeleteAllBonds |-> 5]

\* The absolute key of a subtype.
Absolute(type, subType) == (type + subType) % 65536
=============================================================================
