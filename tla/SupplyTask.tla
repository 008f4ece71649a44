----------------------------- MODULE SupplyTask -----------------------------
(***************************************************************************)
(* What the dispatcher sees of the power supply: PowerSupply::new and run  *)
(* of keyboard/src/power_supply.rs without the battery and the cable.  It  *)
(* sends a first state and then only states that differ from the one       *)
(* before and can follow it, and returns when told to stop.                *)
(* PowerSupply.tla implements it; Firmware.tla composes it.                *)
(***************************************************************************)
EXTENDS Channel

PowerSupplyMode == {"Normal", "Charging", "Low"}

\* struct PowerSupplyState (battery_charge is always 0: "TODO")
PowerSupplyState == [mode : PowerSupplyMode, usb_connected : BOOLEAN]

\* What a measurement can result in: charging needs USB, and the batteries
\* count as low only without it.
Configured(usb) ==
    [mode : IF usb THEN {"Normal", "Charging"} ELSE {"Normal", "Low"},
     usb_connected : {usb}]

\* One change of state: the cable alone, or a measurement with the cable as
\* the state has it.
CanFollow(s) ==
    {[s EXCEPT !.usb_connected = ~@]} \cup (Configured(s.usb_connected) \ {s})

VARIABLES
    supply_pc,          \* "new": measuring for the first time;
                        \* "send": in output.send; "wait"; "done"
    supply_state,       \* PowerSupply::state
    first,              \* is the constructor still running?
    power_supply_stop,  \* channel from the dispatcher
    power_supply_out    \* channel to the dispatcher

taskVars == <<supply_pc, supply_state, first>>
vars == <<taskVars, power_supply_stop, power_supply_out>>

Init ==
    /\ supply_pc = "new"
    /\ supply_state = [mode |-> "Normal", usb_connected |-> FALSE]
    /\ first = TRUE
    /\ power_supply_stop = <<>>
    /\ power_supply_out = <<>>

new(s) ==
    /\ supply_pc = "new"
    /\ supply_state' = s
    /\ supply_pc' = "send"
    /\ UNCHANGED <<first, power_supply_stop, power_supply_out>>

\* Mutant: the task returns once it has reported a low battery.
SendStateThenReturn ==
    /\ supply_pc = "send"
    /\ Send(power_supply_out, supply_state)
    /\ supply_pc' = IF supply_state.mode = "Low" THEN "done" ELSE "wait"
    /\ first' = FALSE
    /\ UNCHANGED <<supply_state, power_supply_stop>>

SendState ==
    /\ supply_pc = "send"
    /\ Send(power_supply_out, supply_state)
    /\ supply_pc' = "wait"
    /\ first' = FALSE
    /\ UNCHANGED <<supply_state, power_supply_stop>>

Change(s) ==
    /\ supply_pc = "wait"
    /\ supply_state' = s
    /\ supply_pc' = "send"
    /\ UNCHANGED <<first, power_supply_stop, power_supply_out>>

\* select(.., stop.receive()) in run: a state not yet sent is dropped.
Stop ==
    /\ ~first
    /\ supply_pc # "done"
    /\ Receive(power_supply_stop)
    /\ supply_pc' = "done"
    /\ UNCHANGED <<supply_state, first, power_supply_out>>

run ==
    \/ \E usb \in BOOLEAN : \E s \in Configured(usb) : new(s)
    \/ SendState
    \/ \E s \in CanFollow(supply_state) : Change(s)
    \/ Stop

----------------------------------------------------------------------------
\* The dispatcher's side, when the task is studied on its own.
RequestStop == Send(power_supply_stop, "stop") /\ UNCHANGED <<taskVars, power_supply_out>>
Take == Receive(power_supply_out) /\ UNCHANGED <<taskVars, power_supply_stop>>

Next == run \/ RequestStop \/ Take
Spec == Init /\ [][Next]_vars

TypeOK ==
    /\ supply_pc \in {"new", "send", "wait", "done"}
    /\ supply_state \in PowerSupplyState
    /\ first \in BOOLEAN
    /\ power_supply_stop \in Buffer({"stop"})
    /\ power_supply_out \in Buffer(PowerSupplyState)
=============================================================================
