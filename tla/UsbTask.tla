------------------------------ MODULE UsbTask ------------------------------
(***************************************************************************)
(* What the dispatcher sees of the USB keyboard: Usb::run of               *)
(* app/src/usb.rs without the bus.  It takes one event at a time; a key    *)
(* state may keep it busy (a report is being written) or be dropped, and   *)
(* Shutdown ends it.  Usb.tla implements it; Firmware.tla composes it.     *)
(***************************************************************************)
EXTENDS Channel

CONSTANTS
    KeyStates,      \* the key states that can be reported
    NoKeys          \* the key state without a key

\* enum UsbInEvent
UsbKeysChanged(keys) == [type |-> "KeysChanged", keys |-> keys]
UsbPowerTransition(level) == [type |-> "PowerTransition", level |-> level]
UsbInEvent == {UsbKeysChanged(keys) : keys \in KeyStates}
                  \cup {UsbPowerTransition(level) :
                            level \in {"Normal", "LowPower", "Shutdown"}}

VARIABLES
    usb_pc,         \* in_fut: "receive", "write": in write_serialize; "done"
    usb_keys,       \* the key state of the last KeysChanged event
    usb_in          \* channel from the dispatcher

taskVars == <<usb_pc, usb_keys>>
vars == <<taskVars, usb_in>>

Init ==
    /\ usb_pc = "receive"
    /\ usb_keys = NoKeys
    /\ usb_in = <<>>

KeysChanged ==
    /\ usb_pc = "receive"
    /\ Receive(usb_in)
    /\ Head(usb_in).type = "KeysChanged"
    /\ usb_keys' = Head(usb_in).keys
    /\ usb_pc' \in {"receive", "write"}

WriteDone ==
    /\ usb_pc = "write"
    /\ usb_pc' = "receive"
    /\ UNCHANGED <<usb_keys, usb_in>>

PowerTransition ==
    /\ usb_pc = "receive"
    /\ Receive(usb_in)
    /\ Head(usb_in).type = "PowerTransition"
    /\ usb_pc' = IF Head(usb_in).level = "Shutdown" THEN "done" ELSE "receive"
    /\ UNCHANGED usb_keys

run == KeysChanged \/ WriteDone \/ PowerTransition

----------------------------------------------------------------------------
\* The dispatcher's side, when the task is studied on its own.
Request == \E event \in UsbInEvent : Send(usb_in, event) /\ UNCHANGED taskVars

Next == run \/ Request
Spec == Init /\ [][Next]_vars

TypeOK ==
    /\ usb_pc \in {"receive", "write", "done"}
    /\ usb_keys \in KeyStates
    /\ usb_in \in Buffer(UsbInEvent)
=============================================================================
