------------------------------ MODULE Charging ------------------------------
(***************************************************************************)
(* The decisions of the power supply, as operators: the conversion of the  *)
(* two ADC codes to battery voltages (app/src/power.rs) and the charging,  *)
(* balancing and mode that PowerSupply::configure_charging derives from    *)
(* them (keyboard/src/power_supply.rs).  Voltages are in millivolts.       *)
(***************************************************************************)
EXTENDS Integers

CHARGE_END_VOLTAGE == 1380
DISCHARGED_VOLTAGE == 1100

\* A 12-bit code of the ADC; a full scale is six times the 0.6 V reference.
AdcCode == 0..4095
FULL_SCALE == 3600

\* measure_battery_voltage: buf[0] is half the total voltage, buf[1] the
\* voltage of the low battery.
measure_battery_voltage(buf) ==
    LET low == (buf[2] * FULL_SCALE) \div 4096
        total == (buf[1] * 2 * FULL_SCALE) \div 4096
    IN  [low |-> low, high |-> IF total > low THEN total - low ELSE 0]

BelowChargeEnd(voltage) ==
    voltage.low < CHARGE_END_VOLTAGE /\ voltage.high < CHARGE_END_VOLTAGE

BelowDischarged(voltage) ==
    voltage.low < DISCHARGED_VOLTAGE \/ voltage.high < DISCHARGED_VOLTAGE

\* The batteries that configure_charging starts to discharge.
Discharge(usb_connected, voltage) ==
    LET difference == voltage.high - voltage.low
    IN  CASE usb_connected /\ difference > 20  -> {"high"}
          [] usb_connected /\ difference < -20 -> {"low"}
          [] OTHER -> {}

\* Mutant: charging does not ask for USB.
ChargeAlways(usb_connected, voltage) == BelowChargeEnd(voltage)

\* Whether configure_charging starts to charge.
Charge(usb_connected, voltage) == usb_connected /\ BelowChargeEnd(voltage)

\* The mode configure_charging returns; balancing counts as charging.
Mode(usb_connected, voltage) ==
    CASE Charge(usb_connected, voltage) \/ Discharge(usb_connected, voltage) # {}
            -> "Charging"
      [] ~usb_connected /\ BelowDischarged(voltage) -> "Low"
      [] OTHER -> "Normal"
=============================================================================
