----------------------------- MODULE MCFirmware -----------------------------
(* The firmware with one key, two positions of the mode switch, and the    *)
(* states of the power supply the dispatcher tells apart.                  *)
EXTENDS Firmware

MCPositions == {"OffUsb", "Profile1"}
MCSupplyStates == { [mode |-> "Normal", usb_connected |-> TRUE],
                    [mode |-> "Normal", usb_connected |-> FALSE],
                    [mode |-> "Low", usb_connected |-> FALSE] }
=============================================================================
