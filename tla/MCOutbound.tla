----------------------------- MODULE MCOutbound -----------------------------
(* Outbound on a few fields at a time: Fields is chosen by the cfg.         *)
EXTENDS Outbound, TLC

MCNumerals == "0" :> 0 @@ "1" :> 1 @@ "7" :> 7 @@ "70000" :> 70000

MixedFields   == {Battery(1, "present"), Battery(1, "cycle-count"),
                  PowerState}
VehicleField  == {VehicleState}
OdometerField == {Odometer}

MCFieldValues ==
    [f \in Fields |->
        CASE f = VehicleState -> {"parked", "ready-to-drive"}
          [] f = Odometer     -> {Absent, "7", "70000"}
          [] f = PowerState   -> {"running", "hibernating-l2"}
          [] f \in Presence   -> {"0", "true"}
          [] OTHER            -> {Absent, "70000"}]
=============================================================================
