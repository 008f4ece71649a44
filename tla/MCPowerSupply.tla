--------------------------- MODULE MCPowerSupply ---------------------------
(* The power supply with one pair of ADC codes for every decision: the     *)
(* comment behind a pair is what the batteries then measure, in mV.        *)
EXTENDS PowerSupply

MCSamples == {
    <<1365, 1365>>,     \* 1199, 1200: charge
    <<1582, 1582>>,     \* 1390, 1390: full
    <<1508, 1480>>,     \* 1300, 1350: charge and discharge the high battery
    <<1508, 1536>>,     \* 1350, 1300: charge and discharge the low battery
    <<1531, 1582>>,     \* 1390, 1301: discharge the low battery, do not charge
    <<1241, 1241>> }    \* 1090, 1091: low
=============================================================================
