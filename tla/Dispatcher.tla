----------------------------- MODULE Dispatcher -----------------------------
(***************************************************************************)
(* The dispatcher: Dispatcher::run of keyboard/src/dispatcher.rs, which    *)
(* forwards key states to USB, follows the mode switch and the power       *)
(* supply, and shuts every other task down.  Firmware.tla composes it with *)
(* the tasks and states what it promises them.                             *)
(***************************************************************************)
EXTENDS Channel

CONSTANTS
    KeyStates,      \* the key states that can be reported
    NoKeys          \* the key state without a key

VARIABLES
    disp_pc,        \* "first": waiting for the first position; "select":
                    \* in select6; otherwise the channel it is sending to:
                    \* "forward" (usb_in, a key state), or a stage of the
                    \* shutdown; "done"
    switch_pos,     \* local variable of run
    usb_connected,  \* local variable of run
    forward,        \* the key state being forwarded
    keys_in, keys_out, mode_switch_stop, mode_switch_out, power_supply_stop,
    power_supply_out, usb_in, usb_out, bluetooth_in, bluetooth_out,
    unifying_in, unifying_out

\* select6 polls its futures in this order and takes the first one ready.
outputs == <<keys_out, mode_switch_out, power_supply_out, usb_out,
             bluetooth_out, unifying_out>>
inputs == <<keys_in, mode_switch_stop, power_supply_stop, usb_in,
            bluetooth_in, unifying_in>>
locals == <<switch_pos, usb_connected, forward>>

K == INSTANCE KeyTask WITH keys_pc <- "poll", key_matrix <- TRUE,
                           reported <- NoKeys, keys_level <- "Normal"
U == INSTANCE UsbTask WITH usb_pc <- "receive", usb_keys <- NoKeys
S == INSTANCE SwitchTask WITH switch_pc <- "wait", position <- "OffUsb"
P == INSTANCE SupplyTask WITH supply_pc <- "wait", supply_state <- <<>>,
                              first <- FALSE

RadioEvent == {U!UsbPowerTransition("Shutdown")}
RadioOutEvent == {K!PowerTransitionDone(level) : level \in K!PowerLevel}
UsbOutEvent == RadioOutEvent \cup [type : {"ChargingAllowed"}, allowed : BOOLEAN]

Init ==
    /\ disp_pc = "first"
    /\ switch_pos = "OffUsb"
    /\ usb_connected = TRUE     \* "for now, assume an initial connection"
    /\ forward = NoKeys
    /\ keys_out = <<>> /\ mode_switch_out = <<>> /\ power_supply_out = <<>>
    /\ usb_out = <<>> /\ bluetooth_out = <<>> /\ unifying_out = <<>>
    /\ keys_in = <<>> /\ mode_switch_stop = <<>> /\ power_supply_stop = <<>>
    /\ usb_in = <<>> /\ bluetooth_in = <<>> /\ unifying_in = <<>>

\* The first position is awaited before anything else is taken.
FirstPosition ==
    /\ disp_pc = "first"
    /\ Receive(mode_switch_out)
    /\ switch_pos' = Head(mode_switch_out)
    /\ disp_pc' = "select"
    /\ UNCHANGED <<usb_connected, forward, inputs, keys_out, power_supply_out,
                   usb_out, bluetooth_out, unifying_out>>

\* The n-th future of select6 completes: the ones before it are pending.
Select(n) ==
    /\ disp_pc = "select"
    /\ \A m \in 1..n-1 : outputs[m] = <<>>

\* A key state goes to USB, whatever the profile (TODO in the code); other
\* events of the key task are dropped.
KeyEvent ==
    /\ Select(1)
    /\ Receive(keys_out)
    /\ IF Head(keys_out).type = "KeysChanged"
       THEN disp_pc' = "forward" /\ forward' = Head(keys_out).keys
       ELSE UNCHANGED <<disp_pc, forward>>
    /\ UNCHANGED <<switch_pos, usb_connected, inputs, mode_switch_out,
                   power_supply_out, usb_out, bluetooth_out, unifying_out>>


Forward ==
    /\ disp_pc = "forward"
    /\ Send(usb_in, U!UsbKeysChanged(forward))
    /\ disp_pc' = "select"
    /\ UNCHANGED <<locals, outputs, keys_in, mode_switch_stop,
                   power_supply_stop, bluetooth_in, unifying_in>>

ShutdownIf(condition) == disp_pc' = IF condition THEN "keys_in" ELSE "select"

SwitchEvent ==
    /\ Select(2)
    /\ Receive(mode_switch_out)
    /\ switch_pos' = Head(mode_switch_out)
    /\ ShutdownIf(~usb_connected /\ switch_pos' = "OffUsb")
    /\ UNCHANGED <<usb_connected, forward, inputs, keys_out, power_supply_out,
                   usb_out, bluetooth_out, unifying_out>>

\* Mutant: a low battery is no reason for a shutdown.
SupplyEventIgnoresLow ==
    /\ Select(3)
    /\ Receive(power_supply_out)
    /\ ShutdownIf(~Head(power_supply_out).usb_connected /\ switch_pos = "OffUsb")
    /\ UNCHANGED <<locals, inputs, keys_out, mode_switch_out, usb_out,
                   bluetooth_out, unifying_out>>

SupplyEvent ==
    /\ Select(3)
    /\ Receive(power_supply_out)
    /\ LET event == Head(power_supply_out)
       IN  ShutdownIf(event.mode = "Low" \/
                      (~event.usb_connected /\ switch_pos = "OffUsb"))
    /\ UNCHANGED <<locals, inputs, keys_out, mode_switch_out, usb_out,
                   bluetooth_out, unifying_out>>

\* Events that are only logged so far; nobody sends them either (main.rs).
UsbEvent ==
    /\ Select(4) /\ Receive(usb_out)
    /\ UNCHANGED <<disp_pc, locals, inputs, keys_out, mode_switch_out,
                   power_supply_out, bluetooth_out, unifying_out>>
BluetoothEvent ==
    /\ Select(5) /\ Receive(bluetooth_out)
    /\ UNCHANGED <<disp_pc, locals, inputs, keys_out, mode_switch_out,
                   power_supply_out, usb_out, unifying_out>>
UnifyingEvent ==
    /\ Select(6) /\ Receive(unifying_out)
    /\ UNCHANGED <<disp_pc, locals, inputs, keys_out, mode_switch_out,
                   power_supply_out, usb_out, bluetooth_out>>

\* The shutdown: one message to each task, in this order, then return.
Stage(from, to) == disp_pc = from /\ disp_pc' = to /\ UNCHANGED <<locals, outputs>>
ShutdownMessage == U!UsbPowerTransition("Shutdown")

ShutdownKeys ==
    /\ Stage("keys_in", "mode_switch_stop")
    /\ Send(keys_in, ShutdownMessage)
    /\ UNCHANGED <<mode_switch_stop, power_supply_stop, usb_in, bluetooth_in, unifying_in>>
\* Mutant: the mode switch is forgotten.
ShutdownSwitchSkipped ==
    /\ Stage("mode_switch_stop", "power_supply_stop")
    /\ UNCHANGED inputs

ShutdownSwitch ==
    /\ Stage("mode_switch_stop", "power_supply_stop")
    /\ Send(mode_switch_stop, "stop")
    /\ UNCHANGED <<keys_in, power_supply_stop, usb_in, bluetooth_in, unifying_in>>
ShutdownSupply ==
    /\ Stage("power_supply_stop", "usb_in")
    /\ Send(power_supply_stop, "stop")
    /\ UNCHANGED <<keys_in, mode_switch_stop, usb_in, bluetooth_in, unifying_in>>
\* Mutant: nobody listens to the radios' channels yet, so why tell them.
ShutdownUsbReturns ==
    /\ Stage("usb_in", "done")
    /\ Send(usb_in, ShutdownMessage)
    /\ UNCHANGED <<keys_in, mode_switch_stop, power_supply_stop, bluetooth_in, unifying_in>>

ShutdownUsb ==
    /\ Stage("usb_in", "bluetooth_in")
    /\ Send(usb_in, ShutdownMessage)
    /\ UNCHANGED <<keys_in, mode_switch_stop, power_supply_stop, bluetooth_in, unifying_in>>
ShutdownBluetooth ==
    /\ Stage("bluetooth_in", "unifying_in")
    /\ Send(bluetooth_in, ShutdownMessage)
    /\ UNCHANGED <<keys_in, mode_switch_stop, power_supply_stop, usb_in, unifying_in>>
ShutdownUnifying ==
    /\ Stage("unifying_in", "done")
    /\ Send(unifying_in, ShutdownMessage)
    /\ UNCHANGED <<keys_in, mode_switch_stop, power_supply_stop, usb_in, bluetooth_in>>

Shutdown == ShutdownKeys \/ ShutdownSwitch \/ ShutdownSupply \/ ShutdownUsb
                \/ ShutdownBluetooth \/ ShutdownUnifying
SelectEvent == KeyEvent \/ SwitchEvent \/ SupplyEvent \/ UsbEvent
                   \/ BluetoothEvent \/ UnifyingEvent
run == FirstPosition \/ SelectEvent \/ Forward \/ Shutdown

----------------------------------------------------------------------------

TypeOK ==
    /\ disp_pc \in {"first", "select", "forward", "keys_in", "mode_switch_stop",
                    "power_supply_stop", "usb_in", "bluetooth_in",
                    "unifying_in", "done"}
    /\ switch_pos \in S!SwitchPosition
    /\ usb_connected \in BOOLEAN
    /\ forward \in KeyStates
    /\ keys_out \in Buffer(K!KeysOutEvent)
    /\ mode_switch_out \in Buffer(S!SwitchPosition)
    /\ power_supply_out \in Buffer(P!PowerSupplyState)
    /\ usb_out \in Buffer(UsbOutEvent)
    /\ bluetooth_out \in Buffer(RadioOutEvent)
    /\ unifying_out \in Buffer(RadioOutEvent)
    /\ keys_in \in Buffer({ShutdownMessage})
    /\ mode_switch_stop \in Buffer({"stop"})
    /\ power_supply_stop \in Buffer({"stop"})
    /\ usb_in \in Buffer(U!UsbInEvent)
    /\ bluetooth_in \in Buffer(RadioEvent)
    /\ unifying_in \in Buffer(RadioEvent)

ShuttingDown == disp_pc \notin {"first", "select", "forward"}

\* The first event says that the battery is low.
LowReported == power_supply_out # <<>> /\ Head(power_supply_out).mode = "Low"

\* A moment at which select6 reaches the power supply: keys that change faster
\* than USB takes the reports win every select6 and leave none.
UserPause ==
    \/ ShuttingDown
    \/ disp_pc = "select" /\ keys_out = <<>> /\ mode_switch_out = <<>>
=============================================================================
