---------------------------- MODULE Conversions ----------------------------
(***************************************************************************)
(* What the Update functions of redis_handlers.go send to the nRF52 for a  *)
(* value found in Redis, and under which key.  Redis values are strings;   *)
(* Absent stands for a field that is missing or could not be read.         *)
(***************************************************************************)
EXTENDS BleTypes

CONSTANTS
    Absent,     \* HGET found nothing or failed
    Numerals    \* what strconv.Atoi accepts, with the number it returns

ASSUME NumeralsAssumption ==
    /\ Absent \notin DOMAIN Numerals
    /\ \A s \in DOMAIN Numerals : Numerals[s] \in Int

\* Fields are named as in Redis: <<key, field>>.
VehicleState == <<"vehicle", "state">>
SeatboxLock  == <<"vehicle", "seatbox:lock">>
Handlebar    == <<"vehicle", "handlebar:lock-sensor">>
Odometer     == <<"engine-ecu", "odometer">>
MdbVersion   == <<"system", "mdb-version">>
PowerState   == <<"power-manager", "state">>
Battery(slot, field) == <<IF slot = 1 THEN "battery:0" ELSE "battery:1", field>>

Presence == {Battery(slot, "present") : slot \in 1..2}

\* Every field that has an Update function.
AllFields ==
    {VehicleState, SeatboxLock, Handlebar, Odometer, MdbVersion, PowerState}
    \cup {Battery(slot, field) : slot \in 1..2,
                                 field \in {"present", "state", "cycle-count", "charge"}}

\* The extra frame that asks for hibernation level L2.
PowerLevel == <<"power-manager", "level">>

-----------------------------------------------------------------------------
\* Each Update function of a battery field picks the subtype of the slot.
BatteryKey(slot, field) ==
    Absolute(Type.Battery,
             LET sub == BatterySlot[slot]
             IN  CASE field = "state"       -> sub.State
                   [] field = "present"     -> sub.Presence
                   [] field = "cycle-count" -> sub.CycleCount
                   [] field = "charge"      -> sub.Charge)

\* The key a field travels under.
Key(f) ==
    CASE f = VehicleState -> Absolute(Type.VehicleState, VehicleStateSub.State)
      [] f = SeatboxLock  -> Absolute(Type.VehicleState, VehicleStateSub.Seatbox)
      [] f = Handlebar    -> Absolute(Type.VehicleState, VehicleStateSub.Handlebar)
      [] f = Odometer     -> Absolute(Type.ScooterInfo, ScooterInfo.Mileage)
      [] f = MdbVersion   -> Absolute(Type.ScooterInfo, ScooterInfo.SoftwareVersion)
      [] f = PowerState   -> Absolute(Type.PowerManagement, PowerManagement.State)
      [] f = PowerLevel   -> Absolute(Type.PowerManagement, PowerManagement.PowerRequest)
      [] f[1] = "battery:0" -> BatteryKey(1, f[2])
      [] f[1] = "battery:1" -> BatteryKey(2, f[2])

-----------------------------------------------------------------------------
\* Uint16 without the conversion.
Uint16Whole(n) == n

Uint16(n) == n % 65536

\* strconv.Atoi, with the default the callers send when it fails.
GetInt(v) == IF v \in DOMAIN Numerals THEN Numerals[v] ELSE 0

GetStateInt(v) ==
    CASE v \in {"standby", "closed"}          -> 0
      [] v \in {"parked", "running", "open"}  -> 1
      [] v = "ready-to-drive"                 -> 2
      [] v = "shutting-down"                  -> 3
      [] v = "updating"                       -> 4
      [] v = "off"                            -> 5
      [] OTHER                                -> GetInt(v)

HandlebarInt(v) == IF v = "unlocked" THEN 1 ELSE 0

batteryStateToInt(v) ==
    CASE v = "asleep" -> 1
      [] v = "idle"   -> 2
      [] v = "active" -> 3
      [] OTHER        -> 0

\* The second, textual, reading of a presence that is no number.
PresentText(v) == IF v \in {"true", "1"} THEN 1 ELSE 0

PowerInt(v) ==
    CASE v = "suspending"                      -> 0
      [] v \in {"hibernating", "hibernating-l2"} -> 2
      [] v = "suspending-imminent"             -> 3
      [] v = "hibernating-imminent"            -> 4
      [] v = "reboot"                          -> 5
      [] OTHER                                 -> 1   \* running, reboot-imminent

\* What is sent for field f when its value v does not change meanwhile.
Message(f, v) ==
    CASE f \in {VehicleState, SeatboxLock} -> Uint16(GetStateInt(v))
      [] f = Handlebar                     -> HandlebarInt(v)
      [] f = MdbVersion                    -> IF v = Absent THEN "" ELSE v
      [] f = PowerState                    -> PowerInt(v)
      [] f \in Presence                    -> IF v \in DOMAIN Numerals
                                              THEN Uint16(GetInt(v)) ELSE PresentText(v)
      [] f \in {Battery(slot, "state") : slot \in 1..2} -> batteryStateToInt(v)
      [] OTHER                             -> Uint16(GetInt(v))
=============================================================================
