--------------------------- MODULE FirmwareProofs ---------------------------
(***************************************************************************)
(* The assembled firmware, for any key states, positions of the mode       *)
(* switch and states of the power supply: the invariant IInv of Firmware   *)
(* is inductive, so that no key state is lost, repeated or overtaken on    *)
(* its way to USB and no task ends but in a shutdown; a shutdown reaches   *)
(* every task, and System OFF if no key changes; one that has lost a race  *)
(* against a key never ends; and each task, in the composition, behaves as *)
(* its own specification says.                                             *)
(*                                                                         *)
(* The proofs work on two equivalents of conjuncts of IInv: Types, which   *)
(* is TypeOK without what the instances repeat, and Links, which is        *)
(* PipelineIntact without sequences.                                       *)
(***************************************************************************)
EXTENDS Firmware, SequenceTheorems, TLAPS

ShutdownMessage == D!ShutdownMessage

\* TypeOK, task by task and channel by channel.
DispatcherTypes ==
    /\ disp_pc \in {"first", "select", "forward", "keys_in", "mode_switch_stop",
                    "power_supply_stop", "usb_in", "bluetooth_in",
                    "unifying_in", "done"}
    /\ switch_pos \in S!SwitchPosition
    /\ usb_connected \in BOOLEAN
    /\ forward \in KeyStates
KeysTypes ==
    /\ keys_pc \in {"enable", "poll", "sendKeys", "events", "sendDone",
                    "sleep", "done"}
    /\ key_matrix \in BOOLEAN
    /\ reported \in KeyStates
    /\ keys_level \in K!PowerLevel
SwitchTypes ==
    /\ switch_pc \in {"start", "send", "wait", "done"}
    /\ position \in S!SwitchPosition
SupplyTypes ==
    /\ supply_pc \in {"new", "send", "wait", "done"}
    /\ supply_state \in P!PowerSupplyState
    /\ first \in BOOLEAN
UsbTypes ==
    /\ usb_pc \in {"receive", "write", "done"}
    /\ usb_keys \in KeyStates
KeysChannelTypes ==
    /\ keys_in \in Buffer({ShutdownMessage})
    /\ keys_out \in Buffer(K!KeysOutEvent)
SwitchChannelTypes ==
    /\ mode_switch_stop \in Buffer({"stop"})
    /\ mode_switch_out \in Buffer(S!SwitchPosition)
SupplyChannelTypes ==
    /\ power_supply_stop \in Buffer({"stop"})
    /\ power_supply_out \in Buffer(P!PowerSupplyState)
UsbChannelType == usb_in \in Buffer(U!UsbInEvent)
IdleChannelTypes ==
    /\ usb_out \in Buffer(D!UsbOutEvent)
    /\ bluetooth_out \in Buffer(D!RadioOutEvent)
    /\ unifying_out \in Buffer(D!RadioOutEvent)
    /\ bluetooth_in \in Buffer(D!RadioEvent)
    /\ unifying_in \in Buffer(D!RadioEvent)

\* The instances of Channel agree on what a channel may hold.
LEMMA Buffers ==
    \A M : /\ D!Buffer(M) = Buffer(M) /\ K!Buffer(M) = Buffer(M)
           /\ S!Buffer(M) = Buffer(M) /\ P!Buffer(M) = Buffer(M)
           /\ U!Buffer(M) = Buffer(M)
BY DEF Buffer, D!Buffer, K!Buffer, S!Buffer, P!Buffer, U!Buffer, Capacity, D!Capacity,
       K!Capacity, S!Capacity, P!Capacity, U!Capacity

\* The dispatcher and the tasks agree on the messages between them.
LEMMA Messages ==
    /\ D!K!KeysOutEvent = K!KeysOutEvent
    /\ D!S!SwitchPosition = S!SwitchPosition
    /\ D!P!PowerSupplyState = P!PowerSupplyState
    /\ D!U!UsbInEvent = U!UsbInEvent
    /\ ShutdownMessage = [type |-> "PowerTransition", level |-> "Shutdown"]
    /\ ShutdownMessage \in K!KeysInEvent
    /\ ShutdownMessage \in U!UsbInEvent
    /\ ShutdownMessage \in D!RadioEvent
<1>1. D!K!KeysOutEvent = K!KeysOutEvent
    BY DEF D!K!KeysOutEvent, K!KeysOutEvent, D!K!KeysChanged, K!KeysChanged,
           D!K!PowerTransitionDone, K!PowerTransitionDone, D!K!PowerLevel, K!PowerLevel
<1>2. D!S!SwitchPosition = S!SwitchPosition
    BY DEF D!S!SwitchPosition, S!SwitchPosition
<1>3. D!P!PowerSupplyState = P!PowerSupplyState
    BY DEF D!P!PowerSupplyState, P!PowerSupplyState, D!P!PowerSupplyMode, P!PowerSupplyMode
<1>4. D!U!UsbInEvent = U!UsbInEvent
    BY DEF D!U!UsbInEvent, U!UsbInEvent, D!U!UsbKeysChanged, U!UsbKeysChanged,
           D!U!UsbPowerTransition, U!UsbPowerTransition
<1>5. ShutdownMessage = [type |-> "PowerTransition", level |-> "Shutdown"]
    BY DEF ShutdownMessage, D!ShutdownMessage, D!U!UsbPowerTransition
<1>6. ShutdownMessage \in K!KeysInEvent
    BY <1>5 DEF K!KeysInEvent, K!PowerLevel
<1>7. ShutdownMessage \in U!UsbInEvent
    BY <1>5 DEF U!UsbInEvent, U!UsbPowerTransition
<1>8. ShutdownMessage \in D!RadioEvent
    BY <1>5 DEF D!RadioEvent, D!U!UsbPowerTransition
<1>. QED  BY <1>1, <1>2, <1>3, <1>4, <1>5, <1>6, <1>7, <1>8

Channels ==
    /\ KeysChannelTypes /\ SwitchChannelTypes /\ SupplyChannelTypes
    /\ UsbChannelType /\ IdleChannelTypes

Types ==
    /\ main_pc \in {"keys", "supply", "join", "off"}
    /\ DispatcherTypes /\ KeysTypes /\ SwitchTypes /\ SupplyTypes /\ UsbTypes
    /\ Channels

\* All channels are declared, and typed, in the dispatcher.
LEMMA DispatcherTypeOK == D!TypeOK <=> DispatcherTypes /\ Channels
BY Buffers, Messages, Zenon
DEF D!TypeOK, ShutdownMessage, Channels, DispatcherTypes, KeysChannelTypes,
    SwitchChannelTypes, SupplyChannelTypes, UsbChannelType, IdleChannelTypes

\* TypeOK and Types say the same.
LEMMA TypesAreTypeOK == TypeOK <=> Types
<1>1. keys_in \in Buffer({ShutdownMessage}) => keys_in \in K!Buffer(K!KeysInEvent)
    BY Messages DEF Buffer, K!Buffer, Capacity, K!Capacity
<1>2. KeysChannelTypes /\ KeysTypes => K!TypeOK
    BY <1>1, Buffers DEF KeysChannelTypes, KeysTypes, K!TypeOK
<1>3. K!TypeOK => KeysTypes
    BY DEF KeysTypes, K!TypeOK
<1>4. SwitchTypes /\ SwitchChannelTypes <=> S!TypeOK
    BY Buffers DEF SwitchTypes, SwitchChannelTypes, S!TypeOK
<1>5. SupplyTypes /\ SupplyChannelTypes <=> P!TypeOK
    BY Buffers DEF SupplyTypes, SupplyChannelTypes, P!TypeOK
<1>6. UsbTypes /\ UsbChannelType <=> U!TypeOK
    BY Buffers DEF UsbTypes, UsbChannelType, U!TypeOK
<1>. QED
    BY <1>2, <1>3, <1>4, <1>5, <1>6, DispatcherTypeOK DEF TypeOK, Types, Channels

----------------------------------------------------------------------------
\* A step of the firmware is a step of one task, System OFF or none at all.
LEMMA NextSteps ==
    ASSUME Types, [Next]_vars
    PROVE  /\ main_pc' \in {"keys", "supply", "join", "off"}
           /\ KeysStep \/ SwitchStep \/ SupplyStep \/ UsbStep \/ DispatcherStep
                  \/ SystemOff \/ UNCHANGED vars
BY DEF Types, Next, run_main, NewKeys, NewSupply, Join, SystemOff, Off, vars

\* The key task keeps the types of its variables and of its channels.
LEMMA KeysTyped ==
    ASSUME Types, KeysStep
    PROVE  KeysTypes' /\ KeysChannelTypes'
<1>. USE DEF Types, Channels, KeysTypes, KeysChannelTypes, KeysStep, K!taskVars
<1>1. CASE K!new \/ K!NoEvent \/ K!Wake
    BY <1>1 DEF K!new, K!NoEvent, K!Wake
<1>2. ASSUME NEW keys \in KeyStates, K!poll(keys) PROVE KeysTypes' /\ KeysChannelTypes'
    BY <1>2 DEF K!poll
<1>3. CASE K!SendKeys
    <2>1. K!KeysChanged(reported) \in K!KeysOutEvent
        BY DEF K!KeysOutEvent
    <2>2. keys_out' \in Buffer(K!KeysOutEvent)
        BY <1>3, <2>1 DEF K!SendKeys, K!Send, K!Capacity, Buffer, Capacity
    <2>. QED  BY <1>3, <2>2 DEF K!SendKeys
<1>4. CASE K!PowerTransition \/ K!NumlockLed
    <2>1. keys_in' \in Buffer({ShutdownMessage}) /\ Head(keys_in) = ShutdownMessage
        BY <1>4 DEF K!PowerTransition, K!NumlockLed, K!Receive, Buffer, Capacity
    <2>2. Head(keys_in).level \in K!PowerLevel
        BY <2>1, Messages DEF K!PowerLevel
    <2>. QED  BY <1>4, <2>1, <2>2 DEF K!PowerTransition, K!NumlockLed
<1>5. CASE K!SendDone
    <2>1. K!PowerTransitionDone(keys_level) \in K!KeysOutEvent
        BY DEF K!KeysOutEvent
    <2>2. keys_out' \in Buffer(K!KeysOutEvent)
        BY <1>5, <2>1 DEF K!SendDone, K!Send, K!Capacity, Buffer, Capacity
    <2>. QED  BY <1>5, <2>2 DEF K!SendDone
<1>. QED  BY <1>1, <1>2, <1>3, <1>4, <1>5 DEF K!run

\* So does the mode switch.
LEMMA SwitchTyped ==
    ASSUME Types, SwitchStep
    PROVE  SwitchTypes' /\ SwitchChannelTypes'
<1>. USE DEF Types, Channels, SwitchTypes, SwitchChannelTypes, SwitchStep
<1>1. ASSUME NEW p \in S!SwitchPosition, S!Start(p) \/ S!Change(p)
      PROVE  SwitchTypes' /\ SwitchChannelTypes'
    BY <1>1 DEF S!Start, S!Change
<1>2. CASE S!SendPosition
    <2>1. mode_switch_out' \in Buffer(S!SwitchPosition)
        BY <1>2 DEF S!SendPosition, S!Send, S!Capacity, Buffer, Capacity
    <2>. QED  BY <1>2, <2>1 DEF S!SendPosition
<1>3. CASE S!Stop
    <2>1. mode_switch_stop' \in Buffer({"stop"})
        BY <1>3 DEF S!Stop, S!Receive, Buffer, Capacity
    <2>. QED  BY <1>3, <2>1 DEF S!Stop
<1>. QED  BY <1>1, <1>2, <1>3 DEF S!run

\* So does the power supply.
LEMMA SupplyTyped ==
    ASSUME Types, SupplyStep
    PROVE  SupplyTypes' /\ SupplyChannelTypes'
<1>. USE DEF Types, Channels, SupplyTypes, SupplyChannelTypes, SupplyStep
<1>1. ASSUME NEW usb \in BOOLEAN, NEW s \in P!Configured(usb), P!new(s)
      PROVE  SupplyTypes' /\ SupplyChannelTypes'
    <2>1. s \in P!PowerSupplyState
        BY DEF P!Configured, P!PowerSupplyState, P!PowerSupplyMode
    <2>. QED  BY <1>1, <2>1 DEF P!new
<1>2. CASE P!SendState
    <2>1. power_supply_out' \in Buffer(P!PowerSupplyState)
        BY <1>2 DEF P!SendState, P!Send, P!Capacity, Buffer, Capacity
    <2>. QED  BY <1>2, <2>1 DEF P!SendState
<1>3. ASSUME NEW s \in P!CanFollow(supply_state), P!Change(s)
      PROVE  SupplyTypes' /\ SupplyChannelTypes'
    <2>1. s \in P!PowerSupplyState
        BY DEF P!CanFollow, P!Configured, P!PowerSupplyState, P!PowerSupplyMode
    <2>. QED  BY <1>3, <2>1 DEF P!Change
<1>4. CASE P!Stop
    <2>1. power_supply_stop' \in Buffer({"stop"})
        BY <1>4 DEF P!Stop, P!Receive, Buffer, Capacity
    <2>. QED  BY <1>4, <2>1 DEF P!Stop
<1>. QED  BY <1>1, <1>2, <1>3, <1>4 DEF P!run

\* So does the USB keyboard.
LEMMA UsbTyped ==
    ASSUME Types, UsbStep
    PROVE  UsbTypes' /\ UsbChannelType'
<1>. USE DEF Types, Channels, UsbTypes, UsbChannelType, UsbStep
<1>1. CASE U!KeysChanged
    <2>1. Head(usb_in) \in U!UsbInEvent /\ usb_in' \in Buffer(U!UsbInEvent)
        BY <1>1 DEF U!KeysChanged, U!Receive, Buffer, Capacity
    <2>2. Head(usb_in).keys \in KeyStates
        BY <1>1, <2>1 DEF U!KeysChanged, U!UsbInEvent, U!UsbKeysChanged, U!UsbPowerTransition
    <2>. QED  BY <1>1, <2>1, <2>2 DEF U!KeysChanged
<1>2. CASE U!WriteDone
    BY <1>2 DEF U!WriteDone
<1>3. CASE U!PowerTransition
    <2>1. usb_in' \in Buffer(U!UsbInEvent)
        BY <1>3 DEF U!PowerTransition, U!Receive, Buffer, Capacity
    <2>. QED  BY <1>3, <2>1 DEF U!PowerTransition
<1>. QED  BY <1>1, <1>2, <1>3 DEF U!run

\* So does the dispatcher.
LEMMA DispatcherTyped ==
    ASSUME DispatcherTypes, Channels, D!run
    PROVE  DispatcherTypes' /\ Channels'
<1>. USE DEF DispatcherTypes, Channels, D!locals, D!inputs, D!outputs
<1>1. CASE D!FirstPosition \/ D!SwitchEvent
    <2>1. /\ Head(mode_switch_out) \in S!SwitchPosition
          /\ mode_switch_out' \in Buffer(S!SwitchPosition)
        BY <1>1 DEF D!FirstPosition, D!SwitchEvent, D!Receive, SwitchChannelTypes, Buffer, Capacity
    <2>2. DispatcherTypes'
        BY <1>1, <2>1 DEF D!FirstPosition, D!SwitchEvent, D!ShutdownIf
    <2>. QED
        BY <1>1, <2>1, <2>2 DEF D!FirstPosition, D!SwitchEvent, KeysChannelTypes,
            SwitchChannelTypes, SupplyChannelTypes, UsbChannelType, IdleChannelTypes
<1>2. CASE D!KeyEvent
    <2>1. Head(keys_out) \in K!KeysOutEvent /\ keys_out' \in Buffer(K!KeysOutEvent)
        BY <1>2 DEF D!KeyEvent, D!Receive, KeysChannelTypes, Buffer, Capacity
    <2>2. Head(keys_out).type = "KeysChanged" => Head(keys_out).keys \in KeyStates
        BY <2>1 DEF K!KeysOutEvent, K!KeysChanged, K!PowerTransitionDone
    <2>3. DispatcherTypes'
        BY <1>2, <2>2 DEF D!KeyEvent
    <2>. QED
        BY <1>2, <2>1, <2>3 DEF D!KeyEvent, KeysChannelTypes,
            SwitchChannelTypes, SupplyChannelTypes, UsbChannelType, IdleChannelTypes
<1>3. CASE D!SupplyEvent
    <2>1. power_supply_out' \in Buffer(P!PowerSupplyState)
        BY <1>3 DEF D!SupplyEvent, D!Receive, SupplyChannelTypes, Buffer, Capacity
    <2>2. DispatcherTypes'
        BY <1>3 DEF D!SupplyEvent, D!ShutdownIf
    <2>. QED
        BY <1>3, <2>1, <2>2 DEF D!SupplyEvent, KeysChannelTypes,
            SwitchChannelTypes, SupplyChannelTypes, UsbChannelType, IdleChannelTypes
<1>4. CASE D!UsbEvent \/ D!BluetoothEvent \/ D!UnifyingEvent
    <2>1. IdleChannelTypes'
        BY <1>4 DEF D!UsbEvent, D!BluetoothEvent, D!UnifyingEvent, D!Receive,
            IdleChannelTypes, Buffer, Capacity
    <2>. QED
        BY <1>4, <2>1 DEF D!UsbEvent, D!BluetoothEvent, D!UnifyingEvent, KeysChannelTypes,
            SwitchChannelTypes, SupplyChannelTypes, UsbChannelType
<1>5. CASE D!Forward
    <2>1. D!U!UsbKeysChanged(forward) \in U!UsbInEvent
        BY DEF U!UsbInEvent, U!UsbKeysChanged, D!U!UsbKeysChanged
    <2>2. UsbChannelType'
        BY <1>5, <2>1 DEF D!Forward, D!Send, D!Capacity, UsbChannelType, Buffer, Capacity
    <2>. QED
        BY <1>5, <2>2 DEF D!Forward, KeysChannelTypes,
            SwitchChannelTypes, SupplyChannelTypes, IdleChannelTypes
<1>6. CASE D!Shutdown
    <2>1. DispatcherTypes'
        BY <1>6 DEF D!Shutdown, D!ShutdownKeys, D!ShutdownSwitch, D!ShutdownSupply,
            D!ShutdownUsb, D!ShutdownBluetooth, D!ShutdownUnifying, D!Stage
    <2>2. /\ D!ShutdownMessage = ShutdownMessage
          /\ ShutdownMessage \in U!UsbInEvent /\ ShutdownMessage \in D!RadioEvent
        BY Messages DEF ShutdownMessage
    <2>. USE DEF D!Send, D!Capacity, Buffer, Capacity
    <2>3. KeysChannelTypes'
        BY <1>6, <2>2 DEF D!Shutdown, D!ShutdownKeys, D!ShutdownSwitch, D!ShutdownSupply,
            D!ShutdownUsb, D!ShutdownBluetooth, D!ShutdownUnifying, D!Stage, KeysChannelTypes
    <2>4. SwitchChannelTypes'
        BY <1>6 DEF D!Shutdown, D!ShutdownKeys, D!ShutdownSwitch, D!ShutdownSupply,
            D!ShutdownUsb, D!ShutdownBluetooth, D!ShutdownUnifying, D!Stage, SwitchChannelTypes
    <2>5. SupplyChannelTypes'
        BY <1>6 DEF D!Shutdown, D!ShutdownKeys, D!ShutdownSwitch, D!ShutdownSupply,
            D!ShutdownUsb, D!ShutdownBluetooth, D!ShutdownUnifying, D!Stage, SupplyChannelTypes
    <2>6. UsbChannelType'
        BY <1>6, <2>2 DEF D!Shutdown, D!ShutdownKeys, D!ShutdownSwitch, D!ShutdownSupply,
            D!ShutdownUsb, D!ShutdownBluetooth, D!ShutdownUnifying, D!Stage, UsbChannelType
    <2>7. IdleChannelTypes'
        BY <1>6, <2>2 DEF D!Shutdown, D!ShutdownKeys, D!ShutdownSwitch, D!ShutdownSupply,
            D!ShutdownUsb, D!ShutdownBluetooth, D!ShutdownUnifying, D!Stage, IdleChannelTypes
    <2>. QED  BY <2>1, <2>3, <2>4, <2>5, <2>6, <2>7
<1>. QED  BY <1>1, <1>2, <1>3, <1>4, <1>5, <1>6 DEF D!run, D!SelectEvent

\* Types is inductive: a task cannot disturb what it does not share.
LEMMA TypesInductive == Types /\ [Next]_vars => Types'
<1>. SUFFICES ASSUME Types, [Next]_vars PROVE Types'
    OBVIOUS
<1>. USE DEF dispVars, keysVars, switchVars, supplyVars, usbVars, keysChannels,
             switchChannels, supplyChannels, idleChannels
<1>. USE DEF Types, Channels
<1>1. CASE KeysStep
    BY <1>1, KeysTyped, NextSteps DEF KeysStep, DispatcherTypes, SwitchTypes, SupplyTypes,
       UsbTypes, SwitchChannelTypes, SupplyChannelTypes, UsbChannelType, IdleChannelTypes
<1>2. CASE SwitchStep
    BY <1>2, SwitchTyped, NextSteps DEF SwitchStep, DispatcherTypes, KeysTypes, SupplyTypes,
       UsbTypes, KeysChannelTypes, SupplyChannelTypes, UsbChannelType, IdleChannelTypes
<1>3. CASE SupplyStep
    BY <1>3, SupplyTyped, NextSteps DEF SupplyStep, DispatcherTypes, KeysTypes, SwitchTypes,
       UsbTypes, KeysChannelTypes, SwitchChannelTypes, UsbChannelType, IdleChannelTypes
<1>4. CASE UsbStep
    BY <1>4, UsbTyped, NextSteps DEF UsbStep, DispatcherTypes, KeysTypes, SwitchTypes,
       SupplyTypes, KeysChannelTypes, SwitchChannelTypes, SupplyChannelTypes, IdleChannelTypes
<1>5. CASE DispatcherStep
    BY <1>5, DispatcherTyped, NextSteps DEF DispatcherStep, KeysTypes, SwitchTypes,
       SupplyTypes, UsbTypes
<1>6. CASE SystemOff
    <2>1. KeysTypes'
        BY <1>6 DEF SystemOff, KeysTypes
    <2>2. DispatcherTypes' /\ SwitchTypes' /\ SupplyTypes' /\ UsbTypes'
        BY <1>6 DEF SystemOff, DispatcherTypes, SwitchTypes, SupplyTypes, UsbTypes
    <2>3. Channels'
        BY <1>6 DEF SystemOff, KeysChannelTypes, SwitchChannelTypes, SupplyChannelTypes,
            UsbChannelType, IdleChannelTypes
    <2>. QED  BY <1>6, <2>1, <2>2, <2>3, NextSteps
<1>7. CASE UNCHANGED vars
    BY <1>7 DEF vars, DispatcherTypes, KeysTypes, SwitchTypes, SupplyTypes,
       UsbTypes, KeysChannelTypes, SwitchChannelTypes, SupplyChannelTypes, UsbChannelType,
       IdleChannelTypes
<1>. QED  BY <1>1, <1>2, <1>3, <1>4, <1>5, <1>6, <1>7, NextSteps

----------------------------------------------------------------------------
\* The firmware starts with empty channels and well-typed tasks.
LEMMA InitTyped == Init => Types
<1>. SUFFICES ASSUME Init PROVE Types
    OBVIOUS
<1>. USE DEF Init, D!Init, K!Init, S!Init, P!Init, U!Init
<1>1. DispatcherTypes /\ SwitchTypes /\ UsbTypes
    BY FirmwareAssumption DEF DispatcherTypes, SwitchTypes, UsbTypes, S!SwitchPosition
<1>2. KeysTypes
    BY FirmwareAssumption DEF KeysTypes, K!PowerLevel
<1>3. SupplyTypes
    BY DEF SupplyTypes, P!PowerSupplyState, P!PowerSupplyMode
<1>4. Channels
    BY DEF Channels, KeysChannelTypes, SwitchChannelTypes, SupplyChannelTypes,
           UsbChannelType, IdleChannelTypes, Buffer, Capacity
<1>. QED  BY <1>1, <1>2, <1>3, <1>4 DEF Types

\* A task ends only by a message the dispatcher sends while it shuts down: the
\* messages that stop a task, what the key task has understood of them and the
\* tasks that have returned are all evidence of a shutdown, which is never left.
LEMMA StopsInductive ==
    ASSUME Types, StopsAreShutdown, OnlyShutdownStops, [Next]_vars
    PROVE  StopsAreShutdown' /\ OnlyShutdownStops'
<1>. USE DEF StopsAreShutdown, OnlyShutdownStops, ShuttingDown, D!ShuttingDown
<1>. USE DEF dispVars, keysVars, switchVars, supplyVars, usbVars, keysChannels,
             switchChannels, supplyChannels, idleChannels
<1>1. CASE KeysStep
    <2>1. ASSUME K!PowerTransition \/ K!NumlockLed PROVE keys_in' = <<>> /\ ShuttingDown
        BY <2>1 DEF K!PowerTransition, K!NumlockLed, K!Receive, Types, Channels,
            KeysChannelTypes, Buffer, Capacity
    <2>2. /\ keys_in' # <<>> => keys_in # <<>>
          /\ keys_level' = "Shutdown" => keys_level = "Shutdown" \/ ShuttingDown
          /\ keys_pc' = "done" => keys_pc = "done" \/ keys_level = "Shutdown"
          /\ ~key_matrix' => ~key_matrix \/ ShuttingDown
        BY <1>1, <2>1 DEF KeysStep, K!run, K!new, K!poll, K!SendKeys, K!PowerTransition,
            K!NumlockLed, K!SendDone, K!NoEvent, K!Wake, K!taskVars, Types, KeysTypes
    <2>. QED  BY <1>1, <2>2 DEF KeysStep
<1>2. CASE SwitchStep
    <2>1. /\ mode_switch_stop' # <<>> => mode_switch_stop # <<>>
          /\ switch_pc' = "done" => switch_pc = "done" \/ mode_switch_stop # <<>>
        BY <1>2 DEF SwitchStep, S!run, S!Start, S!Change, S!SendPosition, S!Stop, S!Receive
    <2>. QED  BY <1>2, <2>1 DEF SwitchStep
<1>3. CASE SupplyStep
    <2>1. /\ power_supply_stop' # <<>> => power_supply_stop # <<>>
          /\ supply_pc' = "done" => supply_pc = "done" \/ power_supply_stop # <<>>
        BY <1>3 DEF SupplyStep, P!run, P!new, P!Change, P!SendState, P!Stop, P!Receive
    <2>. QED  BY <1>3, <2>1 DEF SupplyStep
<1>4. CASE UsbStep
    <2>1. usb_in' = <<>> \/ usb_in' = usb_in
        BY <1>4 DEF UsbStep, U!run, U!KeysChanged, U!WriteDone, U!PowerTransition, U!Receive,
            Types, Channels, UsbChannelType, Buffer, Capacity
    <2>2. usb_pc' = "done" => \/ usb_pc = "done"
                              \/ usb_in # <<>> /\ Head(usb_in).type = "PowerTransition"
        BY <1>4 DEF UsbStep, U!run, U!KeysChanged, U!WriteDone, U!PowerTransition, U!Receive
    <2>. QED  BY <1>4, <2>1, <2>2 DEF UsbStep
<1>5. CASE DispatcherStep
    <2>. USE DEF DispatcherStep, D!run, D!SelectEvent, D!locals, D!inputs, D!outputs
    <2>1. CASE D!FirstPosition \/ D!SelectEvent
        <3>1. UNCHANGED <<keys_in, mode_switch_stop, power_supply_stop, usb_in>>
            BY <2>1 DEF D!FirstPosition, D!KeyEvent, D!SwitchEvent, D!SupplyEvent,
                D!UsbEvent, D!BluetoothEvent, D!UnifyingEvent
        <3>2. ~ShuttingDown
            BY <2>1 DEF D!FirstPosition, D!KeyEvent, D!SwitchEvent, D!SupplyEvent,
                D!UsbEvent, D!BluetoothEvent, D!UnifyingEvent, D!Select
        <3>. QED  BY <1>5, <3>1, <3>2
    <2>2. CASE D!Forward
        <3>1. usb_in' = Append(usb_in, D!U!UsbKeysChanged(forward)) /\ Len(usb_in) < Capacity
            BY <2>2 DEF D!Forward, D!Send, D!Capacity, Capacity
        <3>2. Head(usb_in').type = "KeysChanged"
            BY <3>1 DEF Types, Channels, UsbChannelType, Buffer, Capacity, D!U!UsbKeysChanged
        <3>3. ~ShuttingDown
            BY <2>2 DEF D!Forward
        <3>. QED  BY <1>5, <2>2, <3>2, <3>3 DEF D!Forward
    <2>3. CASE D!Shutdown
        <3>1. ShuttingDown'
            BY <2>3 DEF D!Shutdown, D!ShutdownKeys, D!ShutdownSwitch, D!ShutdownSupply,
                D!ShutdownUsb, D!ShutdownBluetooth, D!ShutdownUnifying, D!Stage
        <3>. QED  BY <3>1
    <2>. QED  BY <1>5, <2>1, <2>2, <2>3
<1>6. CASE SystemOff
    BY <1>6 DEF SystemOff, AllDone
<1>7. CASE UNCHANGED vars
    BY <1>7 DEF vars
<1>. QED  BY <1>1, <1>2, <1>3, <1>4, <1>5, <1>6, <1>7, NextSteps

----------------------------------------------------------------------------
\* One more state at the end of a pipeline that is not empty: it is the newest,
\* and only the last pair is added to the neighbours that must differ.
LEMMA Extend ==
    ASSUME NEW Values, NEW states \in Seq(Values), states # <<>>,
           NEW more \in Seq(Values), Len(more) <= 1
    PROVE  /\ states \o more \in Seq(Values) /\ states \o more # <<>>
           /\ (states \o more)[Len(states \o more)] =
                  IF more = <<>> THEN states[Len(states)] ELSE more[1]
           /\ Distinct(states \o more) <=>
                  Distinct(states) /\ (more # <<>> => more[1] # states[Len(states)])
<1>. DEFINE longer == states \o more
<1>1. CASE more = <<>>
    <2>1. longer = states
        BY <1>1
    <2>. QED  BY <1>1, <2>1
<1>2. CASE more # <<>>
    <2>1. /\ longer \in Seq(Values)
          /\ Len(states) \in Nat \ {0} /\ Len(longer) = Len(states) + 1
          /\ \A n \in 1..Len(states) : longer[n] = states[n]
          /\ longer[Len(states) + 1] = more[1]
        <3>1. Len(more) \in Nat \ {0} /\ Len(states) \in Nat \ {0}
            <4>1. \A seq \in Seq(Values) : seq # <<>> => Len(seq) \in Nat \ {0}
                BY EmptySeq
            <4>. QED  BY <1>2, <4>1
        <3>2. Len(more) = 1
            <4>1. \A n \in Nat \ {0} : n <= 1 => n = 1
                OBVIOUS
            <4>. QED  BY <3>1, <4>1
        <3>. QED  BY <3>1, <3>2, ConcatProperties
    <2>. HIDE DEF longer
    <2>2. ASSUME Distinct(longer)
          PROVE  Distinct(states) /\ states[Len(states)] # more[1]
        <3>1. \A n \in 1..Len(states) : longer[n] # longer[n + 1]
            BY <2>1, <2>2 DEF Distinct
        <3>2. states[Len(states)] # more[1]
            BY <2>1, <3>1
        <3>3. \A n \in 1..Len(states)-1 : states[n] # states[n + 1]
            BY <2>1, <3>1
        <3>. QED  BY <3>2, <3>3 DEF Distinct
    <2>3. ASSUME Distinct(states), states[Len(states)] # more[1]
          PROVE  Distinct(longer)
        <3>. SUFFICES ASSUME NEW n \in 1..Len(longer)-1 PROVE longer[n] # longer[n + 1]
            BY DEF Distinct
        <3>1. CASE n = Len(states)
            BY <2>1, <2>3, <3>1
        <3>2. CASE n # Len(states)
            BY <2>1, <2>3, <3>2 DEF Distinct
        <3>. QED  BY <3>1, <3>2
    <2>. QED  BY <1>2, <2>1, <2>2, <2>3 DEF longer
<1>. QED  BY <1>1, <1>2

\* The newest key state up to each place of the pipeline.
TakenByUsb == IF HasKeys(usb_in) THEN Head(usb_in).keys ELSE usb_keys
Forwarded == IF disp_pc = "forward" THEN forward ELSE TakenByUsb
Reports == IF HasKeys(keys_out) THEN Head(keys_out).keys ELSE Forwarded

\* PipelineIntact, link by link: each state differs from the newest one before
\* it, and the last one is the state reported.
Links ==
    /\ HasKeys(usb_in) => Head(usb_in).keys # usb_keys
    /\ disp_pc = "forward" => forward # TakenByUsb
    /\ HasKeys(keys_out) => Head(keys_out).keys # Forwarded
    /\ IF keys_pc = "sendKeys" THEN reported # Reports ELSE reported = Reports

\* The pipeline is built in four steps from the key state USB took last.
LEMMA PipelineLinks == Types => (PipelineIntact <=> Links)
<1>. SUFFICES ASSUME Types PROVE PipelineIntact <=> Links
    OBVIOUS
<1>. DEFINE p1 == <<usb_keys>>
            sent == OneIf(HasKeys(usb_in), Head(usb_in).keys)
            held == OneIf(disp_pc = "forward", forward)
            reports == OneIf(HasKeys(keys_out), Head(keys_out).keys)
            unsent == OneIf(keys_pc = "sendKeys", reported)
            p2 == p1 \o sent
            p3 == p2 \o held
            p4 == p3 \o reports
            p5 == p4 \o unsent
<1>1. /\ usb_keys \in KeyStates /\ forward \in KeyStates /\ reported \in KeyStates
      /\ HasKeys(usb_in) => Head(usb_in).keys \in KeyStates
      /\ HasKeys(keys_out) => Head(keys_out).keys \in KeyStates
    <2>1. usb_keys \in KeyStates /\ forward \in KeyStates /\ reported \in KeyStates
        BY DEF Types, UsbTypes, DispatcherTypes, KeysTypes
    <2>2. HasKeys(usb_in) => Head(usb_in).keys \in KeyStates
        BY DEF Types, Channels, UsbChannelType, HasKeys, Buffer, Capacity, U!UsbInEvent,
            U!UsbKeysChanged, U!UsbPowerTransition
    <2>3. HasKeys(keys_out) => Head(keys_out).keys \in KeyStates
        BY DEF Types, Channels, KeysChannelTypes, HasKeys, Buffer, Capacity, K!KeysOutEvent,
            K!KeysChanged, K!PowerTransitionDone
    <2>. QED  BY <2>1, <2>2, <2>3
<1>2. /\ sent \in Seq(KeyStates) /\ Len(sent) <= 1
      /\ sent # <<>> <=> HasKeys(usb_in)
      /\ HasKeys(usb_in) => sent[1] = Head(usb_in).keys
    BY <1>1 DEF OneIf
<1>3. /\ held \in Seq(KeyStates) /\ Len(held) <= 1
      /\ held # <<>> <=> disp_pc = "forward"
      /\ disp_pc = "forward" => held[1] = forward
    BY <1>1 DEF OneIf
<1>4. /\ reports \in Seq(KeyStates) /\ Len(reports) <= 1
      /\ reports # <<>> <=> HasKeys(keys_out)
      /\ HasKeys(keys_out) => reports[1] = Head(keys_out).keys
    BY <1>1 DEF OneIf
<1>5. /\ unsent \in Seq(KeyStates) /\ Len(unsent) <= 1
      /\ unsent # <<>> <=> keys_pc = "sendKeys"
      /\ keys_pc = "sendKeys" => unsent[1] = reported
    BY <1>1 DEF OneIf
<1>6. p1 \in Seq(KeyStates) /\ p1 # <<>> /\ p1[Len(p1)] = usb_keys /\ Distinct(p1)
    BY <1>1 DEF Distinct
<1>7. Pipeline = p5
    BY DEF Pipeline
<1>. HIDE DEF p1, sent, held, reports, unsent
<1>8. /\ p2 \in Seq(KeyStates) /\ p2 # <<>> /\ p2[Len(p2)] = TakenByUsb
      /\ Distinct(p2) <=> (HasKeys(usb_in) => Head(usb_in).keys # usb_keys)
    BY <1>2, <1>6, Extend DEF TakenByUsb
<1>. HIDE DEF p2
<1>9. /\ p3 \in Seq(KeyStates) /\ p3 # <<>> /\ p3[Len(p3)] = Forwarded
      /\ Distinct(p3) <=> Distinct(p2) /\ (disp_pc = "forward" => forward # TakenByUsb)
    BY <1>3, <1>8, Extend DEF Forwarded
<1>. HIDE DEF p3
<1>10. /\ p4 \in Seq(KeyStates) /\ p4 # <<>> /\ p4[Len(p4)] = Reports
       /\ Distinct(p4) <=> Distinct(p3) /\ (HasKeys(keys_out) => Head(keys_out).keys # Forwarded)
    BY <1>4, <1>9, Extend DEF Reports
<1>. HIDE DEF p4
<1>11. /\ p5[Len(p5)] = IF keys_pc = "sendKeys" THEN reported ELSE Reports
       /\ Distinct(p5) <=> Distinct(p4) /\ (keys_pc = "sendKeys" => reported # Reports)
    BY <1>5, <1>10, Extend
<1>. HIDE DEF p5
<1>. QED  BY <1>8, <1>9, <1>10, <1>11, <1>7 DEF PipelineIntact, Links

\* A channel that can be sent to is empty, and holds that message then.
LEMMA SentToEmpty ==
    ASSUME NEW M, NEW ch \in Buffer(M), NEW message, Len(ch) < 1
    PROVE  ch = <<>> /\ Append(ch, message) = <<message>>
<1>1. ch \in Seq(M)
    BY DEF Buffer
<1>2. \A seq \in Seq(M) : seq # <<>> => Len(seq) \in Nat \ {0}
    BY EmptySeq
<1>3. ch = <<>>
    BY <1>1, <1>2
<1>. QED  BY <1>3

\* Every step moves one key state by one place of the pipeline, or adds one
\* that differs from the newest at its end, or leaves all of them where they are.
LEMMA LinksInductive ==
    ASSUME Types, Links, [Next]_vars
    PROVE  Links'
<1>. USE DEF dispVars, keysVars, switchVars, supplyVars, usbVars, keysChannels,
             switchChannels, supplyChannels, idleChannels
<1>. USE DEF Links, Reports, Forwarded, TakenByUsb
<1>1. CASE KeysStep
    <2>1. UNCHANGED <<usb_in, usb_keys, disp_pc, forward>>
        BY <1>1 DEF KeysStep
    <2>2. UNCHANGED <<TakenByUsb, Forwarded>> /\ (HasKeys(usb_in)' <=> HasKeys(usb_in))
        BY <2>1 DEF HasKeys
    <2>3. CASE K!new \/ K!PowerTransition \/ K!NumlockLed \/ K!NoEvent \/ K!Wake
        <3>1. UNCHANGED <<keys_out, reported>> /\ keys_pc # "sendKeys" /\ keys_pc' # "sendKeys"
            BY <2>3 DEF K!new, K!PowerTransition, K!NumlockLed, K!NoEvent, K!Wake, K!taskVars
        <3>. QED  BY <2>1, <3>1 DEF HasKeys
    <2>4. ASSUME NEW keys \in KeyStates, K!poll(keys) PROVE Links'
        <3>1. /\ keys_pc = "poll" /\ UNCHANGED keys_out
              /\ reported' = keys
              /\ keys_pc' = IF keys # reported THEN "sendKeys" ELSE "events"
            BY <2>4 DEF K!poll
        <3>. QED  BY <2>1, <3>1 DEF HasKeys
    <2>5. CASE K!SendKeys
        <3>1. /\ keys_pc = "sendKeys" /\ keys_pc' = "events" /\ reported' = reported
              /\ keys_out = <<>> /\ keys_out' = <<K!KeysChanged(reported)>>
            BY <2>5, SentToEmpty DEF K!SendKeys, K!Send, K!Capacity, Types, Channels,
                KeysChannelTypes
        <3>2. ~HasKeys(keys_out) /\ HasKeys(keys_out)' /\ Head(keys_out').keys = reported
            BY <3>1 DEF HasKeys, K!KeysChanged
        <3>. QED  BY <2>1, <2>2, <3>1, <3>2
    <2>6. CASE K!SendDone
        <3>1. /\ keys_pc = "sendDone" /\ keys_pc' # "sendKeys" /\ reported' = reported
              /\ keys_out = <<>> /\ keys_out' = <<K!PowerTransitionDone(keys_level)>>
            BY <2>6, SentToEmpty DEF K!SendDone, K!Send, K!Capacity, Types, Channels,
                KeysChannelTypes
        <3>2. ~HasKeys(keys_out) /\ ~HasKeys(keys_out)'
            BY <3>1 DEF HasKeys, K!PowerTransitionDone
        <3>. QED  BY <2>1, <2>2, <3>1, <3>2
    <2>. QED  BY <1>1, <2>3, <2>4, <2>5, <2>6 DEF KeysStep, K!run
<1>2. CASE SwitchStep \/ SupplyStep \/ SystemOff \/ UNCHANGED vars
    <2>1. UNCHANGED <<usb_in, usb_keys, disp_pc, forward, keys_out, keys_pc, reported>>
        BY <1>2 DEF SwitchStep, SupplyStep, SystemOff, vars
    <2>. QED  BY <2>1 DEF HasKeys
<1>3. CASE UsbStep
    <2>1. UNCHANGED <<disp_pc, forward, keys_out, keys_pc, reported>>
        BY <1>3 DEF UsbStep
    <2>2. CASE U!KeysChanged
        <3>1. HasKeys(usb_in) /\ usb_in' = <<>> /\ usb_keys' = Head(usb_in).keys
            BY <2>2 DEF U!KeysChanged, U!Receive, HasKeys, Types, Channels, UsbChannelType,
                Buffer, Capacity
        <3>2. ~HasKeys(usb_in)' /\ TakenByUsb' = TakenByUsb
            BY <3>1 DEF HasKeys
        <3>. QED  BY <2>1, <3>2 DEF HasKeys
    <2>3. CASE U!WriteDone
        BY <2>1, <2>3 DEF U!WriteDone, HasKeys
    <2>4. CASE U!PowerTransition
        <3>1. ~HasKeys(usb_in) /\ usb_in' = <<>> /\ usb_keys' = usb_keys
            BY <2>4 DEF U!PowerTransition, U!Receive, HasKeys, Types, Channels, UsbChannelType,
                Buffer, Capacity
        <3>2. ~HasKeys(usb_in)' /\ TakenByUsb' = TakenByUsb
            BY <3>1 DEF HasKeys
        <3>. QED  BY <2>1, <3>2 DEF HasKeys
    <2>. QED  BY <1>3, <2>2, <2>3, <2>4 DEF UsbStep, U!run
<1>4. CASE DispatcherStep
    <2>. USE DEF D!locals, D!inputs, D!outputs
    <2>1. UNCHANGED <<usb_keys, keys_pc, reported>>
        BY <1>4 DEF DispatcherStep
    <2>2. CASE D!KeyEvent
        <3>1. /\ disp_pc = "select" /\ UNCHANGED usb_in
              /\ keys_out # <<>> /\ keys_out' = <<>>
              /\ IF Head(keys_out).type = "KeysChanged"
                 THEN disp_pc' = "forward" /\ forward' = Head(keys_out).keys
                 ELSE UNCHANGED <<disp_pc, forward>>
            BY <2>2 DEF D!KeyEvent, D!Select, D!Receive, Types, Channels, KeysChannelTypes,
                Buffer, Capacity
        <3>2. TakenByUsb' = TakenByUsb /\ (HasKeys(usb_in)' <=> HasKeys(usb_in))
                  /\ ~HasKeys(keys_out)'
            BY <2>1, <3>1 DEF HasKeys
        <3>3. Forwarded' = Reports
            BY <3>1, <3>2 DEF HasKeys
        <3>. QED  BY <2>1, <3>1, <3>2, <3>3 DEF HasKeys
    <2>3. CASE D!FirstPosition \/ D!SwitchEvent \/ D!SupplyEvent \/ D!UsbEvent
                   \/ D!BluetoothEvent \/ D!UnifyingEvent
        <3>1. /\ UNCHANGED <<usb_in, keys_out, forward>>
              /\ disp_pc # "forward" /\ disp_pc' # "forward"
            BY <2>3 DEF D!FirstPosition, D!SwitchEvent, D!SupplyEvent, D!UsbEvent,
                D!BluetoothEvent, D!UnifyingEvent, D!Select, D!ShutdownIf
        <3>. QED  BY <2>1, <3>1 DEF HasKeys
    <2>4. CASE D!Forward
        <3>1. /\ disp_pc = "forward" /\ disp_pc' = "select" /\ UNCHANGED keys_out
              /\ usb_in = <<>> /\ usb_in' = <<D!U!UsbKeysChanged(forward)>>
            BY <2>4, SentToEmpty DEF D!Forward, D!Send, D!Capacity, Types, Channels, UsbChannelType
        <3>2. /\ ~HasKeys(usb_in) /\ HasKeys(usb_in)' /\ Head(usb_in').keys = forward
              /\ HasKeys(keys_out)' <=> HasKeys(keys_out)
            BY <3>1 DEF HasKeys, D!U!UsbKeysChanged
        <3>3. Forwarded' = Forwarded
            BY <3>1, <3>2
        <3>. QED  BY <2>1, <3>1, <3>2, <3>3
    <2>5. CASE D!ShutdownUsb
        <3>1. /\ UNCHANGED <<keys_out, forward>>
              /\ disp_pc # "forward" /\ disp_pc' # "forward"
              /\ usb_in = <<>> /\ usb_in' = <<ShutdownMessage>>
            BY <2>5, SentToEmpty DEF D!ShutdownUsb, D!Stage, D!Send, D!Capacity,
                ShutdownMessage, Types, Channels, UsbChannelType
        <3>2. ~HasKeys(usb_in) /\ ~HasKeys(usb_in)'
            BY <3>1, Messages DEF HasKeys
        <3>. QED  BY <2>1, <3>1, <3>2 DEF HasKeys
    <2>6. CASE D!ShutdownKeys \/ D!ShutdownSwitch \/ D!ShutdownSupply
                   \/ D!ShutdownBluetooth \/ D!ShutdownUnifying
        <3>1. /\ UNCHANGED <<usb_in, keys_out, forward>>
              /\ disp_pc # "forward" /\ disp_pc' # "forward"
            BY <2>6 DEF D!ShutdownKeys, D!ShutdownSwitch, D!ShutdownSupply,
                D!ShutdownBluetooth, D!ShutdownUnifying, D!Stage
        <3>. QED  BY <2>1, <3>1 DEF HasKeys
    <2>. QED  BY <1>4, <2>2, <2>3, <2>4, <2>5, <2>6
              DEF DispatcherStep, D!run, D!SelectEvent, D!Shutdown
<1>. QED  BY <1>1, <1>2, <1>3, <1>4, NextSteps

\* The key task switches the matrix off when it understands Shutdown, before it
\* returns, and only a firmware whose tasks have all returned is switched off.
LEMMA OffInductive ==
    ASSUME Types, OffAtLast, [Next]_vars
    PROVE  OffAtLast'
<1>. USE DEF OffAtLast
<1>1. /\ keys_level' = "Shutdown" => ~key_matrix'
      /\ keys_pc' = "done" => keys_level' = "Shutdown"
    <2>1. CASE KeysStep
        <3>1. CASE K!PowerTransition
            <4>1. keys_pc' # "done" /\ (keys_level' = "Shutdown" => ~key_matrix')
                BY <3>1 DEF K!PowerTransition
            <4>. QED  BY <4>1
        <3>2. CASE K!SendDone
            BY <3>2 DEF K!SendDone
        <3>3. CASE K!new \/ (\E keys \in KeyStates : K!poll(keys)) \/ K!SendKeys
                       \/ K!NumlockLed \/ K!NoEvent \/ K!Wake
            BY <3>3 DEF K!new, K!poll, K!SendKeys, K!NumlockLed, K!NoEvent, K!Wake,
                K!taskVars
        <3>. QED  BY <2>1, <3>1, <3>2, <3>3 DEF KeysStep, K!run
    <2>2. CASE SystemOff
        BY <2>2 DEF SystemOff
    <2>3. CASE SwitchStep \/ SupplyStep \/ UsbStep \/ DispatcherStep \/ UNCHANGED vars
        BY <2>3 DEF SwitchStep, SupplyStep, UsbStep, DispatcherStep, keysVars, vars
    <2>. QED  BY <2>1, <2>2, <2>3, NextSteps
<1>2. main_pc' = "off" => AllDone'
    <2>1. CASE SystemOff
        BY <2>1 DEF SystemOff, AllDone, dispVars, switchVars, supplyVars, usbVars
    <2>2. CASE NewKeys \/ NewSupply \/ Join
        BY <2>2 DEF NewKeys, NewSupply, Join
    <2>3. CASE UNCHANGED vars
        BY <2>3 DEF vars, AllDone, dispVars, keysVars, switchVars, supplyVars, usbVars
    <2>. QED  BY <2>1, <2>2, <2>3 DEF Next, run_main, Off
<1>. QED  BY <1>1, <1>2

\* Nothing assigns usb_connected of Dispatcher::run after its declaration.
LEMMA ConnectedInductive == AssumedConnected /\ Types /\ [Next]_vars => AssumedConnected'
<1>. SUFFICES ASSUME AssumedConnected, Types, [Next]_vars PROVE AssumedConnected'
    OBVIOUS
<1>. USE DEF AssumedConnected, dispVars
<1>1. CASE DispatcherStep
    BY <1>1 DEF DispatcherStep, D!run, D!FirstPosition, D!SelectEvent, D!KeyEvent,
        D!SwitchEvent, D!SupplyEvent, D!UsbEvent, D!BluetoothEvent, D!UnifyingEvent,
        D!Forward, D!Shutdown, D!ShutdownKeys, D!ShutdownSwitch, D!ShutdownSupply,
        D!ShutdownUsb, D!ShutdownBluetooth, D!ShutdownUnifying, D!Stage, D!locals
<1>2. CASE KeysStep \/ SwitchStep \/ SupplyStep \/ UsbStep \/ SystemOff \/ UNCHANGED vars
    BY <1>2 DEF KeysStep, SwitchStep, SupplyStep, UsbStep, SystemOff, vars
<1>. QED  BY <1>1, <1>2, NextSteps

\* IInv with the two equivalents in the place of TypeOK and PipelineIntact.
Inv == Types /\ StopsAreShutdown /\ OnlyShutdownStops /\ AssumedConnected
           /\ OffAtLast /\ Links

\* The two are the same invariant.
LEMMA InvIsIInv == Inv <=> IInv
BY TypesAreTypeOK, PipelineLinks DEF Inv, IInv

\* The invariant holds when run_main starts.
LEMMA InvInitial == Init => Inv
<1>. SUFFICES ASSUME Init PROVE Inv
    OBVIOUS
<1>. USE DEF Init, D!Init, K!Init, S!Init, P!Init, U!Init
<1>1. Types
    BY InitTyped
<1>2. StopsAreShutdown /\ OnlyShutdownStops /\ AssumedConnected /\ OffAtLast
    BY DEF StopsAreShutdown, OnlyShutdownStops, AssumedConnected, OffAtLast
<1>3. Links
    BY DEF Links, Reports, Forwarded, TakenByUsb, HasKeys
<1>. QED  BY <1>1, <1>2, <1>3 DEF Inv

\* Every step of the firmware keeps the invariant.
LEMMA InvInductive == Inv /\ [Next]_vars => Inv'
BY TypesInductive, StopsInductive, ConnectedInductive, OffInductive, LinksInductive DEF Inv

\* The inductive invariant of the assembled firmware.
THEOREM FirmwareInvariant == Spec => []IInv
<1>1. Spec => []Inv
    BY InvInitial, InvInductive, PTL DEF Spec
<1>. QED  BY <1>1, InvIsIInv, PTL

\* No task returns, and the matrix is not switched off, but in a shutdown that
\* the dispatcher has begun.
THEOREM FirmwareOnlyShutdownStops == Spec => []OnlyShutdownStops
<1>1. IInv => OnlyShutdownStops
    BY DEF IInv
<1>. QED  BY <1>1, FirmwareInvariant, PTL

\* No key state is lost, repeated or overtaken between the key task and USB,
\* however the tasks interleave and however long USB is busy writing.
THEOREM FirmwarePipelineIntact == Spec => []PipelineIntact
<1>1. IInv => PipelineIntact
    BY DEF IInv
<1>. QED  BY <1>1, FirmwareInvariant, PTL

----------------------------------------------------------------------------
\* The dispatcher never takes a key event again once it shuts down, and the key
\* task does not return from the send it is suspended in.
LEMMA HungForever == Inv /\ Hung /\ [Next]_vars => Hung'
<1>. SUFFICES ASSUME Inv, Hung, [Next]_vars PROVE Hung'
    OBVIOUS
<1>. USE DEF Hung, ShuttingDown, D!ShuttingDown
<1>1. Types /\ disp_pc \notin {"first", "select", "forward"} /\ keys_pc = "sendKeys"
          /\ keys_out # <<>>
    BY DEF Inv
<1>2. CASE KeysStep
    <2>1. ~K!SendKeys
        BY <1>1, SentToEmpty DEF K!SendKeys, K!Send, K!Capacity, Types, Channels,
            KeysChannelTypes
    <2>. QED  BY <1>1, <1>2, <2>1 DEF KeysStep, K!run, K!new, K!poll, K!PowerTransition,
            K!NumlockLed, K!SendDone, K!NoEvent, K!Wake
<1>3. CASE DispatcherStep
    <2>1. D!Shutdown
        BY <1>1, <1>3 DEF DispatcherStep, D!run, D!FirstPosition, D!SelectEvent, D!KeyEvent,
            D!SwitchEvent, D!SupplyEvent, D!UsbEvent, D!BluetoothEvent, D!UnifyingEvent,
            D!Select, D!Forward
    <2>2. UNCHANGED keys_out /\ disp_pc' \notin {"first", "select", "forward"}
        BY <2>1 DEF D!Shutdown, D!ShutdownKeys, D!ShutdownSwitch, D!ShutdownSupply,
            D!ShutdownUsb, D!ShutdownBluetooth, D!ShutdownUnifying, D!Stage, D!outputs
    <2>. QED  BY <1>1, <1>3, <2>2 DEF DispatcherStep, keysVars
<1>4. CASE SwitchStep \/ SupplyStep \/ UsbStep \/ SystemOff \/ UNCHANGED vars
    BY <1>1, <1>4 DEF SwitchStep, SupplyStep, UsbStep, SystemOff, vars, dispVars,
        keysVars, keysChannels
<1>. QED  BY <1>1, <1>2, <1>3, <1>4, NextSteps

\* Where the shutdown hangs for good: with a key event in keys_out and another
\* one waiting to be sent, no behaviour of any task leads to System OFF.
THEOREM FirmwareHungForever == Spec => [](Hung => [](Hung /\ main_pc # "off"))
<1>1. IInv => (Hung => main_pc # "off")
    BY DEF IInv, OffAtLast, AllDone, Hung
<1>2. IInv /\ Hung /\ [Next]_vars => Hung'
    BY InvIsIInv, HungForever
<1>. QED  BY <1>1, <1>2, FirmwareInvariant, PTL DEF Spec

----------------------------------------------------------------------------
\* What UsbProfileShutsDown misses, in every instance: usb_connected is never
\* assigned, so that no move of the mode switch begins a shutdown and the
\* branch of the code that would (dispatcher.rs:122) is dead.
THEOREM FirmwareSwitchNeverShutsDown == Spec => [][D!SwitchEvent => ~ShuttingDown']_vars
<1>1. IInv /\ [Next]_vars => [D!SwitchEvent => ~ShuttingDown']_vars
    BY DEF IInv, AssumedConnected, D!SwitchEvent, D!ShutdownIf, ShuttingDown, D!ShuttingDown
<1>. QED  BY <1>1, FirmwareInvariant, PTL DEF Spec

----------------------------------------------------------------------------
\* To each task the dispatcher does nothing but what that task's own
\* specification expects of it: send one of its messages, or take an event.
LEMMA DispatcherAsEnvironment ==
    ASSUME D!run, forward \in KeyStates
    PROVE  /\ \/ \E event \in K!KeysInEvent : K!Send(keys_in, event) /\ UNCHANGED keys_out
              \/ K!Receive(keys_out) /\ UNCHANGED keys_in
              \/ UNCHANGED keysChannels
           /\ \/ S!Send(mode_switch_stop, "stop") /\ UNCHANGED mode_switch_out
              \/ S!Receive(mode_switch_out) /\ UNCHANGED mode_switch_stop
              \/ UNCHANGED switchChannels
           /\ \/ P!Send(power_supply_stop, "stop") /\ UNCHANGED power_supply_out
              \/ P!Receive(power_supply_out) /\ UNCHANGED power_supply_stop
              \/ UNCHANGED supplyChannels
           /\ (\E event \in U!UsbInEvent : U!Send(usb_in, event)) \/ UNCHANGED usb_in
<1>. USE DEF keysChannels, switchChannels, supplyChannels, D!locals, D!inputs, D!outputs
<1>. USE DEF D!Send, K!Send, S!Send, P!Send, U!Send, D!Receive, K!Receive, S!Receive,
             P!Receive, D!Capacity, K!Capacity, S!Capacity, P!Capacity, U!Capacity
<1>1. CASE D!FirstPosition \/ D!SwitchEvent
    BY <1>1 DEF D!FirstPosition, D!SwitchEvent
<1>2. CASE D!KeyEvent
    BY <1>2 DEF D!KeyEvent
<1>3. CASE D!SupplyEvent
    BY <1>3 DEF D!SupplyEvent
<1>4. CASE D!UsbEvent \/ D!BluetoothEvent \/ D!UnifyingEvent
               \/ D!ShutdownBluetooth \/ D!ShutdownUnifying
    BY <1>4 DEF D!UsbEvent, D!BluetoothEvent, D!UnifyingEvent, D!ShutdownBluetooth,
        D!ShutdownUnifying, D!Stage
<1>5. CASE D!Forward
    <2>1. D!U!UsbKeysChanged(forward) \in U!UsbInEvent
        BY <1>5 DEF U!UsbInEvent, U!UsbKeysChanged, D!U!UsbKeysChanged
    <2>. QED  BY <1>5, <2>1 DEF D!Forward
<1>6. CASE D!ShutdownKeys
    BY <1>6, Messages DEF D!ShutdownKeys, D!Stage, ShutdownMessage
<1>7. CASE D!ShutdownSwitch
    BY <1>7 DEF D!ShutdownSwitch, D!Stage
<1>8. CASE D!ShutdownSupply
    BY <1>8 DEF D!ShutdownSupply, D!Stage
<1>9. CASE D!ShutdownUsb
    BY <1>9, Messages DEF D!ShutdownUsb, D!Stage, ShutdownMessage
<1>. QED  BY <1>1, <1>2, <1>3, <1>4, <1>5, <1>6, <1>7, <1>8, <1>9
          DEF D!run, D!SelectEvent, D!Shutdown

\* Every step of the firmware is a step of each task's specification or stutters.
LEMMA TaskSteps ==
    Inv /\ [Next]_vars => [K!Next]_(K!vars) /\ [S!Next]_(S!vars)
                              /\ [P!Next]_(P!vars) /\ [U!Next]_(U!vars)
<1>. SUFFICES ASSUME Inv, [Next]_vars
              PROVE  [K!Next]_(K!vars) /\ [S!Next]_(S!vars)
                         /\ [P!Next]_(P!vars) /\ [U!Next]_(U!vars)
    OBVIOUS
<1>. USE DEF dispVars, keysVars, switchVars, supplyVars, usbVars, keysChannels,
             switchChannels, supplyChannels, idleChannels
<1>. USE DEF K!vars, S!vars, P!vars, U!vars, K!taskVars, S!taskVars, P!taskVars, U!taskVars
<1>1. CASE KeysStep
    BY <1>1 DEF KeysStep, K!Next
<1>2. CASE SwitchStep
    BY <1>2 DEF SwitchStep, S!Next
<1>3. CASE SupplyStep
    BY <1>3 DEF SupplyStep, P!Next
<1>4. CASE UsbStep
    BY <1>4 DEF UsbStep, U!Next
<1>5. CASE DispatcherStep
    <2>1. forward \in KeyStates
        BY DEF Inv, Types, DispatcherTypes
    <2>2. K!Next \/ UNCHANGED K!vars
        BY <1>5, <2>1, DispatcherAsEnvironment DEF DispatcherStep, K!Next, K!Request, K!Take
    <2>3. S!Next \/ UNCHANGED S!vars
        BY <1>5, <2>1, DispatcherAsEnvironment DEF DispatcherStep, S!Next, S!RequestStop, S!Take
    <2>4. P!Next \/ UNCHANGED P!vars
        BY <1>5, <2>1, DispatcherAsEnvironment DEF DispatcherStep, P!Next, P!RequestStop, P!Take
    <2>5. U!Next \/ UNCHANGED U!vars
        BY <1>5, <2>1, DispatcherAsEnvironment DEF DispatcherStep, U!Next, U!Request
    <2>. QED  BY <2>2, <2>3, <2>4, <2>5
<1>6. CASE SystemOff
    <2>1. key_matrix' = key_matrix
        <3>1. key_matrix = FALSE
            BY <1>6 DEF SystemOff, AllDone, Inv, OffAtLast, Types, KeysTypes
        <3>. QED  BY <1>6, <3>1 DEF SystemOff
    <2>. QED  BY <1>6, <2>1 DEF SystemOff
<1>7. CASE UNCHANGED vars
    BY <1>7 DEF vars
<1>. QED  BY <1>1, <1>2, <1>3, <1>4, <1>5, <1>6, <1>7, NextSteps DEF Inv

\* The dispatcher that each task is studied with on its own, and implemented
\* against by the detailed modules, covers the real one: in the firmware each task
\* behaves as its own specification says.  System OFF does not disturb this: the
\* matrix it switches off is off already.
THEOREM FirmwareTasks == Spec => K!Spec /\ S!Spec /\ P!Spec /\ U!Spec
<1>1. Init => K!Init /\ S!Init /\ P!Init /\ U!Init
    BY DEF Init
<1>2. Spec => []Inv
    BY FirmwareInvariant, InvIsIInv, PTL
<1>. QED  BY <1>1, <1>2, TaskSteps, PTL DEF Spec, K!Spec, S!Spec, P!Spec, U!Spec

----------------------------------------------------------------------------
\* The tasks the dispatcher has told to stop, by the stage of its shutdown.
ToldKeys == ShuttingDown /\ disp_pc # "keys_in"
ToldSwitch == ToldKeys /\ disp_pc # "mode_switch_stop"
ToldSupply == ToldSwitch /\ disp_pc # "power_supply_stop"
ToldUsb == ToldSupply /\ disp_pc # "usb_in"
ToldBluetooth == ToldUsb /\ disp_pc # "bluetooth_in"
ToldUnifying == ToldBluetooth /\ disp_pc # "unifying_in"

\* The message in a channel to USB that is not a key state.
HasShutdown(ch) == ch # <<>> /\ Head(ch) = ShutdownMessage

\* What a task is told stays in its channel until the task obeys, and nothing
\* blocks the channel of a task that has not been told.
Obedient ==
    /\ ToldKeys <=> keys_in # <<>> \/ keys_pc \in {"sendDone", "done"}
    /\ ToldSwitch <=> mode_switch_stop # <<>> \/ switch_pc = "done"
    /\ ToldSupply <=> power_supply_stop # <<>> \/ supply_pc = "done"
    /\ ToldUsb <=> HasShutdown(usb_in) \/ usb_pc = "done"
    /\ usb_in # <<>> => HasKeys(usb_in) \/ HasShutdown(usb_in)
    /\ ToldBluetooth <=> bluetooth_in # <<>>
    /\ ToldUnifying <=> unifying_in # <<>>

\* The key task confirms nothing but a shutdown, and only as its last event.
LastConfirmed ==
    /\ keys_pc = "sendDone" => keys_level = "Shutdown"
    /\ keys_out # <<>> => HasKeys(keys_out) \/ keys_pc = "done"

\* The dispatcher runs in the join, after the constructors.
Joined == main_pc \in {"join", "off"}
\* The positions of the mode switch are those of its task once it has run, and
\* it runs only in the join.
Constructed ==
    /\ disp_pc # "first" => Joined /\ switch_pc # "start"
    /\ mode_switch_out # <<>> => switch_pc # "start"
    /\ switch_pc # "start" => Joined /\ position \in Positions
    /\ Joined <=> ~first

\* What the liveness of the shutdown needs besides Inv.
InOrder == Obedient /\ LastConfirmed /\ Constructed

\* A low battery waits in its channel until the dispatcher takes it, and no
\* state of a low battery is left unsent.
LowReported == D!LowReported
LowWaits ==
    /\ ~Joined => power_supply_out = <<>>
    /\ main_pc = "keys" => supply_pc = "new"
    /\ supply_pc = "new" => supply_state.mode = "Normal"
    /\ supply_pc = "wait" /\ supply_state.mode = "Low" => LowReported \/ ShuttingDown

\* The hypotheses of the theorems below: each task runs where the await it is at
\* is over. They are validities that speak of ENABLED (each guard of the code
\* lets its action be taken), so TLC checks them and no prover here.
KeysMayRun == \/ keys_pc \in {"enable", "poll", "sleep", "events"}
              \/ keys_pc = "sendDone" /\ keys_out = <<>>
KeysReady == main_pc = "join" /\ KeysMayRun => ENABLED <<InJoin(KeysStep)>>_vars
UsbReady ==
    main_pc = "join" /\ (usb_pc = "write" \/ (usb_pc = "receive" /\ usb_in # <<>>))
        => ENABLED <<InJoin(UsbStep)>>_vars
DispatcherReady ==
    main_pc = "join" /\ (\/ disp_pc = "keys_in" /\ keys_in = <<>>
                         \/ disp_pc = "mode_switch_stop" /\ mode_switch_stop = <<>>
                         \/ disp_pc = "power_supply_stop" /\ power_supply_stop = <<>>
                         \/ disp_pc = "usb_in" /\ usb_in = <<>>
                         \/ disp_pc = "bluetooth_in" /\ bluetooth_in = <<>>
                         \/ disp_pc = "unifying_in" /\ unifying_in = <<>>)
        => ENABLED <<InJoin(DispatcherStep)>>_vars
SwitchStopReady ==
    main_pc = "join" /\ switch_pc # "done" /\ mode_switch_stop # <<>> /\ position \in Positions
        => ENABLED <<InJoin(S!Stop /\ SwitchStep)>>_vars
SupplyStopReady ==
    main_pc = "join" /\ ~first /\ supply_pc # "done" /\ power_supply_stop # <<>>
        => ENABLED <<InJoin(P!Stop /\ SupplyStep)>>_vars
OffReady == main_pc = "join" /\ AllDone => ENABLED <<SystemOff>>_vars
SupplyEventReady ==
    main_pc = "join" /\ disp_pc = "select" /\ keys_out = <<>> /\ mode_switch_out = <<>>
        /\ power_supply_out # <<>> => ENABLED <<InJoin(D!SupplyEvent /\ DispatcherStep)>>_vars
SendStateReady ==
    main_pc = "join" /\ supply_pc = "send" /\ power_supply_out = <<>>
        => ENABLED <<InJoin(P!SendState /\ SupplyStep)>>_vars
NewSupplyReady ==
    main_pc = "supply" /\ supply_pc = "send" /\ power_supply_out = <<>>
        => ENABLED <<NewSupply>>_vars

\* A task that is told: the message is in its channel, or the task has obeyed.
ObeyedKeys == keys_in # <<>> \/ keys_pc \in {"sendDone", "done"}
ObeyedSwitch == mode_switch_stop # <<>> \/ switch_pc = "done"
ObeyedSupply == power_supply_stop # <<>> \/ supply_pc = "done"
ObeyedUsb == HasShutdown(usb_in) \/ usb_pc = "done"

\* No step of a task changes whether it has been told: it obeys when it takes
\* the message out of its channel.
LEMMA KeysObeys ==
    ASSUME Inv, InOrder, KeysStep
    PROVE  (ObeyedKeys' <=> ObeyedKeys) /\ LastConfirmed'
<1>. USE DEF ObeyedKeys, LastConfirmed, InOrder, KeysStep, K!taskVars
<1>1. CASE K!new \/ (\E keys \in KeyStates : K!poll(keys)) \/ K!NoEvent \/ K!Wake
    BY <1>1 DEF K!new, K!poll, K!NoEvent, K!Wake, HasKeys
<1>2. CASE K!SendKeys
    <2>1. keys_out' = Append(keys_out, K!KeysChanged(reported)) /\ Len(keys_out) = 0
          /\ keys_out \in Seq(K!KeysOutEvent)
        BY <1>2 DEF K!SendKeys, K!Send, K!Capacity, Inv, Types, Channels, KeysChannelTypes, Buffer
    <2>2. Head(keys_out') = K!KeysChanged(reported) /\ keys_out' # <<>>
        BY <2>1
    <2>3. HasKeys(keys_out')
        BY <2>2 DEF HasKeys, K!KeysChanged
    <2>. QED  BY <1>2, <2>3 DEF K!SendKeys, HasKeys
<1>3. CASE K!PowerTransition \/ K!NumlockLed
    <2>1. keys_in # <<>> /\ keys_in' = <<>> /\ Head(keys_in) = ShutdownMessage
        BY <1>3 DEF K!PowerTransition, K!NumlockLed, K!Receive, Inv, Types, Channels,
            KeysChannelTypes, Buffer, Capacity
    <2>2. ~K!NumlockLed
        BY <2>1, Messages DEF K!NumlockLed
    <2>. QED  BY <1>3, <2>1, <2>2, Messages DEF K!PowerTransition, HasKeys
<1>4. CASE K!SendDone
    BY <1>4 DEF K!SendDone
<1>. QED  BY <1>1, <1>2, <1>3, <1>4 DEF K!run

\* The same of the mode switch.
LEMMA SwitchObeys ==
    ASSUME Inv, SwitchStep
    PROVE  /\ ObeyedSwitch' <=> ObeyedSwitch
           /\ switch_pc # "start" => switch_pc' # "start"
           /\ mode_switch_out' # <<>> => mode_switch_out # <<>> \/ switch_pc' # "start"
           /\ position' \in Positions
<1>1. mode_switch_stop \in Buffer({"stop"})
    BY DEF Inv, Types, Channels, SwitchChannelTypes
<1>. QED
    BY <1>1 DEF ObeyedSwitch, SwitchStep, S!run, S!Start, S!Change, S!SendPosition, S!Stop,
        S!Receive, Buffer, Capacity

\* The same of the power supply.
LEMMA SupplyObeys ==
    ASSUME Inv, SupplyStep
    PROVE  /\ ObeyedSupply' <=> ObeyedSupply
           /\ ~first => ~first'
<1>1. power_supply_stop \in Buffer({"stop"})
    BY DEF Inv, Types, Channels, SupplyChannelTypes
<1>. QED
    BY <1>1 DEF ObeyedSupply, SupplyStep, P!run, P!new, P!Change, P!SendState, P!Stop,
        P!Receive, Buffer, Capacity

\* The same of USB, which may have a key state before the message.
LEMMA UsbObeys ==
    ASSUME Inv, InOrder, UsbStep
    PROVE  /\ ObeyedUsb' <=> ObeyedUsb
           /\ usb_in' # <<>> => HasKeys(usb_in') \/ HasShutdown(usb_in')
<1>. USE DEF ObeyedUsb, UsbStep, InOrder, Obedient
<1>1. CASE U!KeysChanged
    <2>1. usb_in # <<>> /\ usb_in' = <<>> /\ Head(usb_in).type = "KeysChanged"
        BY <1>1 DEF U!KeysChanged, U!Receive, Inv, Types, Channels, UsbChannelType, Buffer, Capacity
    <2>. QED  BY <1>1, <2>1, Messages DEF U!KeysChanged, HasShutdown
<1>2. CASE U!WriteDone
    BY <1>2 DEF U!WriteDone, HasShutdown, HasKeys
<1>3. CASE U!PowerTransition
    <2>1. usb_in # <<>> /\ usb_in' = <<>> /\ Head(usb_in).type = "PowerTransition"
        BY <1>3 DEF U!PowerTransition, U!Receive, Inv, Types, Channels, UsbChannelType, Buffer,
            Capacity
    <2>2. HasShutdown(usb_in)
        BY <2>1 DEF HasKeys
    <2>. QED  BY <1>3, <2>1, <2>2, Messages DEF U!PowerTransition, HasShutdown
<1>. QED  BY <1>1, <1>2, <1>3 DEF U!run

\* What the tasks are told: nothing before the shutdown.
LEMMA DispatcherListens ==
    ASSUME Inv, DispatcherStep, ~D!Shutdown
    PROVE  /\ disp_pc \in {"first", "select", "forward"}
           /\ disp_pc' \in {"select", "forward", "keys_in"}
           /\ disp_pc = "first" => mode_switch_out # <<>>
           /\ mode_switch_out' # <<>> => mode_switch_out # <<>>
           /\ UNCHANGED <<keys_in, mode_switch_stop, power_supply_stop, bluetooth_in,
                          unifying_in>>
           /\ usb_in' = usb_in \/ (usb_in = <<>> /\ HasKeys(usb_in'))
           /\ keys_out' = keys_out \/ keys_out' = <<>>
<1>. USE DEF DispatcherStep, D!run, D!SelectEvent, D!locals, D!inputs, D!outputs
<1>1. CASE D!Forward
    <2>1. usb_in' = Append(usb_in, D!U!UsbKeysChanged(forward)) /\ Len(usb_in) < 1
        BY <1>1 DEF D!Forward, D!Send, D!Capacity
    <2>2. usb_in \in Seq(U!UsbInEvent)
        BY DEF Inv, Types, Channels, UsbChannelType, Buffer
    <2>3. usb_in = <<>> /\ usb_in' # <<>> /\ Head(usb_in') = D!U!UsbKeysChanged(forward)
        BY <2>1, <2>2
    <2>4. HasKeys(usb_in')
        BY <2>3 DEF HasKeys, D!U!UsbKeysChanged
    <2>. QED  BY <1>1, <2>3, <2>4 DEF D!Forward
<1>2. CASE D!FirstPosition
    <2>1. mode_switch_out # <<>> /\ disp_pc = "first" /\ disp_pc' = "select"
        BY <1>2 DEF D!FirstPosition, D!Receive
    <2>. QED  BY <1>2, <2>1 DEF D!FirstPosition
<1>3. CASE D!KeyEvent
    <2>1. keys_out \in Buffer(K!KeysOutEvent)
        BY DEF Inv, Types, Channels, KeysChannelTypes
    <2>2. keys_out' = <<>>
        BY <1>3, <2>1 DEF D!KeyEvent, D!Receive, Buffer, Capacity
    <2>. QED  BY <1>3, <2>2 DEF D!KeyEvent, D!Select
<1>4. CASE D!SwitchEvent
    <2>1. mode_switch_out # <<>>
        BY <1>4 DEF D!SwitchEvent, D!Receive
    <2>. QED  BY <1>4, <2>1 DEF D!SwitchEvent, D!Select, D!ShutdownIf
<1>5. CASE D!SupplyEvent
    BY <1>5 DEF D!SupplyEvent, D!Select, D!ShutdownIf
<1>6. CASE D!UsbEvent \/ D!BluetoothEvent \/ D!UnifyingEvent
    BY <1>6 DEF D!UsbEvent, D!BluetoothEvent, D!UnifyingEvent, D!Select
<1>. QED  BY <1>1, <1>2, <1>3, <1>4, <1>5, <1>6

\* During it each task is told in its turn.
LEMMA DispatcherTells ==
    ASSUME Inv, InOrder, DispatcherStep, D!Shutdown
    PROVE  /\ ShuttingDown /\ ShuttingDown' /\ Obedient'
           /\ UNCHANGED <<keys_out, mode_switch_out, power_supply_out>>
           /\ disp_pc = "keys_in" => disp_pc' = "mode_switch_stop"
           /\ disp_pc = "mode_switch_stop" => disp_pc' = "power_supply_stop"
           /\ disp_pc = "power_supply_stop" => disp_pc' = "usb_in"
           /\ disp_pc = "usb_in" => disp_pc' = "bluetooth_in"
           /\ disp_pc = "bluetooth_in" => disp_pc' = "unifying_in"
           /\ disp_pc = "unifying_in" => disp_pc' = "done"
<1>. USE DEF DispatcherStep, D!locals, D!inputs, D!outputs, ShuttingDown, D!ShuttingDown, D!Stage,
             keysVars, switchVars, supplyVars, usbVars, D!Send, D!Capacity, ShutdownMessage
<1>. USE DEF Obedient, ToldKeys, ToldSwitch, ToldSupply, ToldUsb, ToldBluetooth, ToldUnifying
<1>0. /\ keys_in \in Buffer({ShutdownMessage}) /\ mode_switch_stop \in Buffer({"stop"})
      /\ power_supply_stop \in Buffer({"stop"}) /\ usb_in \in Buffer(U!UsbInEvent)
      /\ bluetooth_in \in Buffer(D!RadioEvent) /\ unifying_in \in Buffer(D!RadioEvent)
      /\ Obedient
    BY DEF Inv, InOrder, Types, Channels, KeysChannelTypes, SwitchChannelTypes,
        SupplyChannelTypes, UsbChannelType, IdleChannelTypes
<1>1. CASE D!ShutdownKeys
    <2>1. keys_in' # <<>>
        BY <1>0, <1>1, SentToEmpty DEF D!ShutdownKeys
    <2>. QED  BY <1>0, <1>1, <2>1 DEF D!ShutdownKeys, HasShutdown, HasKeys
<1>2. CASE D!ShutdownSwitch
    <2>1. mode_switch_stop' # <<>>
        BY <1>0, <1>2, SentToEmpty DEF D!ShutdownSwitch
    <2>. QED  BY <1>0, <1>2, <2>1 DEF D!ShutdownSwitch, HasShutdown, HasKeys
<1>3. CASE D!ShutdownSupply
    <2>1. power_supply_stop' # <<>>
        BY <1>0, <1>3, SentToEmpty DEF D!ShutdownSupply
    <2>. QED  BY <1>0, <1>3, <2>1 DEF D!ShutdownSupply, HasShutdown, HasKeys
<1>4. CASE D!ShutdownUsb
    <2>1. usb_in' = <<ShutdownMessage>>
        BY <1>0, <1>4, SentToEmpty DEF D!ShutdownUsb
    <2>2. HasShutdown(usb_in')
        BY <2>1 DEF HasShutdown
    <2>. QED  BY <1>0, <1>4, <2>2 DEF D!ShutdownUsb
<1>5. CASE D!ShutdownBluetooth
    <2>1. bluetooth_in' # <<>>
        BY <1>0, <1>5, SentToEmpty DEF D!ShutdownBluetooth
    <2>. QED  BY <1>0, <1>5, <2>1 DEF D!ShutdownBluetooth, HasShutdown, HasKeys
<1>6. CASE D!ShutdownUnifying
    <2>1. unifying_in' # <<>>
        BY <1>0, <1>6, SentToEmpty DEF D!ShutdownUnifying
    <2>. QED  BY <1>0, <1>6, <2>1 DEF D!ShutdownUnifying, HasShutdown, HasKeys
<1>. QED  BY <1>1, <1>2, <1>3, <1>4, <1>5, <1>6 DEF D!Shutdown

\* At the start nobody is told.
LEMMA InOrderInitial == Init => InOrder
BY DEF Init, D!Init, K!Init, S!Init, P!Init, U!Init, InOrder, Obedient, LastConfirmed,
       Constructed, ToldKeys, ToldSwitch, ToldSupply, ToldUsb, ToldBluetooth, ToldUnifying,
       ShuttingDown, D!ShuttingDown, HasShutdown, Joined

\* InOrder is inductive with Inv.
LEMMA InOrderInductive == Inv /\ InOrder /\ [Next]_vars => InOrder'
<1>. SUFFICES ASSUME Inv, InOrder, [Next]_vars PROVE InOrder'
    OBVIOUS
<1>. USE DEF InOrder
<1>. USE DEF dispVars, keysVars, switchVars, supplyVars, usbVars, keysChannels,
             switchChannels, supplyChannels, idleChannels
<1>1. Obedient'
    <2>. USE DEF Obedient, ToldKeys, ToldSwitch, ToldSupply, ToldUsb, ToldBluetooth,
                 ToldUnifying, ShuttingDown, D!ShuttingDown
    <2>1. CASE KeysStep
        <3>1. ObeyedKeys' <=> ObeyedKeys
            BY <2>1, KeysObeys
        <3>2. UNCHANGED <<dispVars, switchVars, supplyVars, usbVars, switchChannels,
                          supplyChannels, usb_in, idleChannels>>
            BY <2>1 DEF KeysStep
        <3>. QED  BY <3>1, <3>2 DEF ObeyedKeys, HasShutdown, HasKeys
    <2>2. CASE SwitchStep
        <3>1. ObeyedSwitch' <=> ObeyedSwitch
            BY <2>2, SwitchObeys
        <3>2. UNCHANGED <<dispVars, keysVars, supplyVars, usbVars, keysChannels,
                          supplyChannels, usb_in, idleChannels>>
            BY <2>2 DEF SwitchStep
        <3>. QED  BY <3>1, <3>2 DEF ObeyedSwitch, HasShutdown, HasKeys
    <2>3. CASE SupplyStep
        <3>1. ObeyedSupply' <=> ObeyedSupply
            BY <2>3, SupplyObeys
        <3>2. UNCHANGED <<dispVars, keysVars, switchVars, usbVars, keysChannels,
                          switchChannels, usb_in, idleChannels>>
            BY <2>3 DEF SupplyStep
        <3>. QED  BY <3>1, <3>2 DEF ObeyedSupply, HasShutdown, HasKeys
    <2>4. CASE UsbStep
        <3>1. /\ ObeyedUsb' <=> ObeyedUsb
              /\ usb_in' # <<>> => HasKeys(usb_in') \/ HasShutdown(usb_in')
            BY <2>4, UsbObeys
        <3>2. UNCHANGED <<dispVars, keysVars, switchVars, supplyVars, keysChannels,
                          switchChannels, supplyChannels, idleChannels>>
            BY <2>4 DEF UsbStep
        <3>. QED  BY <3>1, <3>2 DEF ObeyedUsb
    <2>5. CASE DispatcherStep /\ D!Shutdown
        BY <2>5, DispatcherTells
    <2>6. CASE DispatcherStep /\ ~D!Shutdown
        <3>1. UNCHANGED <<keysVars, switchVars, supplyVars, usbVars>>
            BY <2>6 DEF DispatcherStep
        <3>2. HasKeys(usb_in') => ~HasShutdown(usb_in')
            BY Messages DEF HasKeys, HasShutdown
        <3>. QED  BY <2>6, <3>1, <3>2, DispatcherListens DEF HasShutdown, HasKeys
    <2>7. CASE SystemOff \/ UNCHANGED vars
        BY <2>7 DEF SystemOff, vars, HasShutdown, HasKeys
    <2>. QED  BY <2>1, <2>2, <2>3, <2>4, <2>5, <2>6, <2>7, NextSteps DEF Inv
<1>2. LastConfirmed'
    <2>1. CASE KeysStep
        BY <2>1, KeysObeys
    <2>2. CASE DispatcherStep
        <3>1. keys_out' = keys_out \/ keys_out' = <<>>
            BY <2>2, DispatcherListens, DispatcherTells
        <3>. QED  BY <2>2, <3>1 DEF DispatcherStep, LastConfirmed, HasKeys
    <2>3. CASE SwitchStep \/ SupplyStep \/ UsbStep \/ SystemOff \/ UNCHANGED vars
        BY <2>3 DEF SwitchStep, SupplyStep, UsbStep, SystemOff, vars, LastConfirmed, HasKeys
    <2>. QED  BY <2>1, <2>2, <2>3, NextSteps DEF Inv
<1>3. Constructed'
    <2>. USE DEF Constructed, Joined
    <2>1. CASE NewKeys
        BY <2>1 DEF NewKeys, KeysStep
    <2>2. CASE NewSupply
        BY <2>2 DEF NewSupply, SupplyStep, Inv, Types, SupplyTypes
    <2>3. CASE Join
        <3>1. CASE KeysStep \/ UsbStep
            BY <2>3, <3>1 DEF Join, KeysStep, UsbStep
        <3>2. CASE SwitchStep
            BY <2>3, <3>2, SwitchObeys DEF Join, SwitchStep
        <3>3. CASE SupplyStep
            BY <2>3, <3>3, SupplyObeys DEF Join, SupplyStep
        <3>4. CASE DispatcherStep
            <4>1. UNCHANGED <<switch_pc, position, first, main_pc>>
                BY <2>3, <3>4 DEF Join, DispatcherStep
            <4>2. CASE D!Shutdown
                BY <2>3, <3>4, <4>1, <4>2, DispatcherTells DEF Join, ShuttingDown, D!ShuttingDown
            <4>3. CASE ~D!Shutdown
                BY <2>3, <3>4, <4>1, <4>3, DispatcherListens DEF Join
            <4>. QED  BY <4>2, <4>3
        <3>. QED  BY <2>3, <3>1, <3>2, <3>3, <3>4 DEF Join
    <2>4. CASE SystemOff
        BY <2>4 DEF SystemOff
    <2>5. CASE UNCHANGED vars
        BY <2>5 DEF vars
    <2>. QED  BY <2>1, <2>2, <2>3, <2>4, <2>5 DEF Next, run_main, Off
<1>. QED  BY <1>1, <1>2, <1>3

\* InOrder is an invariant of the specification.
LEMMA FirmwareInOrder == Spec => [](Inv /\ InOrder)
<1>1. Init => Inv /\ InOrder
    BY InvInitial, InOrderInitial
<1>2. (Inv /\ InOrder) /\ [Next]_vars => (Inv /\ InOrder)'
    BY InvInductive, InOrderInductive
<1>. QED  BY <1>1, <1>2, PTL DEF Spec

----------------------------------------------------------------------------
\* The stages of the shutdown, and the places the tasks are at.
Over == main_pc = "off"
UsbAt(pc) == usb_pc = pc
SwitchAt(pc) == switch_pc = pc
SupplyAt(pc) == supply_pc = pc
At(stage) == disp_pc = stage
Drained == usb_in = <<>>

\* What the shutdown assumes of ENABLED.
ShutdownReady ==
    /\ KeysReady /\ UsbReady /\ DispatcherReady /\ SwitchStopReady /\ SupplyStopReady
    /\ OffReady

\* The dispatcher goes through the stages of its shutdown one by one.
LEMMA ShuttingDownSteps ==
    ASSUME Inv, InOrder, [Next]_vars, ShuttingDown
    PROVE  /\ ShuttingDown' /\ Joined /\ Joined'
           /\ At("keys_in") => At("keys_in")' \/ At("mode_switch_stop")'
           /\ At("mode_switch_stop") => At("mode_switch_stop")' \/ At("power_supply_stop")'
           /\ At("power_supply_stop") => At("power_supply_stop")' \/ At("usb_in")'
           /\ At("usb_in") => At("usb_in")' \/ At("bluetooth_in")'
           /\ At("bluetooth_in") => At("bluetooth_in")' \/ At("unifying_in")'
           /\ At("unifying_in") => At("unifying_in")' \/ At("done")'
           /\ At("done") => At("done")'
           /\ DispatcherStep =>
                 /\ At("keys_in") => At("mode_switch_stop")'
                 /\ At("mode_switch_stop") => At("power_supply_stop")'
                 /\ At("power_supply_stop") => At("usb_in")'
                 /\ At("usb_in") => At("bluetooth_in")'
                 /\ At("bluetooth_in") => At("unifying_in")'
                 /\ At("unifying_in") => At("done")'
<1>. USE DEF At
<1>1. Joined /\ Joined'
    <2>1. Joined
        BY DEF InOrder, Constructed, ShuttingDown, D!ShuttingDown
    <2>. QED  BY <2>1 DEF Joined, Next, run_main, NewKeys, NewSupply, Join, SystemOff, Off, vars
<1>2. ShuttingDown => disp_pc \notin {"first", "select", "forward"}
    BY DEF ShuttingDown, D!ShuttingDown
<1>3. CASE DispatcherStep
    <2>1. D!Shutdown
        BY <1>2, <1>3, DispatcherListens
    <2>2. disp_pc # "done"
        BY <2>1 DEF D!Shutdown, D!ShutdownKeys, D!ShutdownSwitch, D!ShutdownSupply,
            D!ShutdownUsb, D!ShutdownBluetooth, D!ShutdownUnifying, D!Stage
    <2>. QED  BY <1>1, <1>3, <2>1, <2>2, DispatcherTells
<1>4. CASE ~DispatcherStep
    <2>1. UNCHANGED disp_pc
        BY <1>4, NextSteps DEF Inv, KeysStep, SwitchStep, SupplyStep, UsbStep, SystemOff, vars,
            dispVars
    <2>. QED  BY <1>1, <1>4, <2>1 DEF ShuttingDown, D!ShuttingDown
<1>. QED  BY <1>3, <1>4

\* The USB task in a shutdown: it takes what is in its channel, after a report
\* that it is still writing.
LEMMA UsbShutdownSteps ==
    ASSUME Inv, InOrder, [Next]_vars, ShuttingDown
    PROVE  /\ At("usb_in") /\ Drained => (Drained /\ At("usb_in"))' \/ At("bluetooth_in")'
           /\ At("usb_in") /\ ~Drained => At("usb_in")'
           /\ At("usb_in") /\ ~Drained /\ usb_pc = "write" =>
                  (~Drained)' /\ usb_pc' \in {"write", "receive"}
           /\ At("usb_in") /\ ~Drained /\ usb_pc = "receive" => Drained' \/ usb_pc' = "receive"
           /\ UsbStep /\ At("usb_in") /\ ~Drained =>
                  /\ usb_pc = "write" => usb_pc' = "receive"
                  /\ usb_pc = "receive" => Drained'
           /\ usb_pc = "done" => usb_pc' = "done"
           /\ ToldUsb => ToldUsb'
           /\ ToldUsb /\ usb_pc = "write" => usb_pc' \in {"write", "receive"}
           /\ ToldUsb /\ usb_pc = "receive" => usb_pc' \in {"receive", "done"}
           /\ UsbStep /\ ToldUsb =>
                  /\ usb_pc = "write" => usb_pc' = "receive"
                  /\ usb_pc = "receive" => usb_pc' = "done"
<1>. USE DEF At, Drained
<1>0. /\ ToldUsb <=> At("bluetooth_in") \/ At("unifying_in") \/ At("done")
      /\ ToldUsb' <=> (At("bluetooth_in") \/ At("unifying_in") \/ At("done"))'
    <2>1. Inv'
        BY InvInductive
    <2>. QED
        BY <2>1 DEF ToldUsb, ToldSupply, ToldSwitch, ToldKeys, ShuttingDown, D!ShuttingDown, Inv,
            Types, DispatcherTypes
<1>1. CASE UsbStep
    <2>1. UNCHANGED disp_pc
        BY <1>1 DEF UsbStep, dispVars
    <2>2. CASE U!KeysChanged
        <3>1. usb_pc = "receive" /\ usb_in # <<>> /\ usb_in' = <<>>
                /\ Head(usb_in).type = "KeysChanged"
            BY <2>2 DEF U!KeysChanged, U!Receive, Inv, Types, Channels, UsbChannelType, Buffer,
                Capacity
        <3>2. ~ToldUsb
            BY <3>1, Messages DEF InOrder, Obedient, HasShutdown
        <3>. QED  BY <1>0, <2>1, <2>2, <3>1, <3>2 DEF U!KeysChanged
    <2>3. CASE U!WriteDone
        BY <1>0, <2>1, <2>3 DEF U!WriteDone
    <2>4. CASE U!PowerTransition
        <3>1. usb_pc = "receive" /\ usb_in # <<>> /\ usb_in' = <<>>
                /\ Head(usb_in).type = "PowerTransition"
            BY <2>4 DEF U!PowerTransition, U!Receive, Inv, Types, Channels, UsbChannelType,
                Buffer, Capacity
        <3>2. HasShutdown(usb_in)
            BY <3>1 DEF InOrder, Obedient, HasKeys
        <3>3. usb_pc' = "done" /\ ToldUsb
            BY <2>4, <3>2, Messages DEF U!PowerTransition, HasShutdown, InOrder, Obedient
        <3>. QED  BY <1>0, <2>1, <3>1, <3>3
    <2>. QED  BY <1>1, <2>2, <2>3, <2>4 DEF UsbStep, U!run
<1>2. CASE DispatcherStep
    <2>1. D!Shutdown
        BY <1>2, DispatcherListens DEF ShuttingDown, D!ShuttingDown
    <2>2. UNCHANGED usb_pc
        BY <1>2 DEF DispatcherStep, usbVars
    <2>3. At("usb_in") => Drained
        BY <2>1, SentToEmpty DEF D!Shutdown, D!ShutdownKeys, D!ShutdownSwitch, D!ShutdownSupply,
            D!ShutdownUsb, D!ShutdownBluetooth, D!ShutdownUnifying, D!Stage, D!Send, D!Capacity,
            Inv, Types, Channels, UsbChannelType
    <2>4. UsbStep => FALSE
        BY <1>2, <2>1, <2>2 DEF UsbStep, dispVars, D!Shutdown, D!ShutdownKeys, D!ShutdownSwitch,
            D!ShutdownSupply, D!ShutdownUsb, D!ShutdownBluetooth, D!ShutdownUnifying, D!Stage
    <2>. QED  BY <1>0, <1>2, <2>2, <2>3, <2>4, ShuttingDownSteps
<1>3. CASE ~UsbStep /\ ~DispatcherStep
    <2>1. UNCHANGED <<usb_in, usb_pc, disp_pc>>
        BY <1>3, NextSteps DEF Inv, KeysStep, SwitchStep, SupplyStep, SystemOff, vars, dispVars,
            usbVars
    <2>. QED  BY <1>0, <1>3, <2>1
<1>. QED  BY <1>1, <1>2, <1>3

\* What a task has been told stays told.
LEMMA ToldStay ==
    ASSUME Inv, InOrder, [Next]_vars
    PROVE  /\ ToldKeys => ToldKeys'
           /\ ToldSwitch => ToldSwitch'
           /\ ToldSupply => ToldSupply'
<1>1. (ToldKeys => ShuttingDown) /\ (ToldSwitch => ShuttingDown)
    BY DEF ToldSwitch, ToldKeys
<1>2. ToldSupply => ShuttingDown
    BY DEF ToldSupply, ToldSwitch, ToldKeys
<1>3. ShuttingDown => disp_pc \in {"keys_in", "mode_switch_stop", "power_supply_stop", "usb_in",
                                  "bluetooth_in", "unifying_in", "done"}
    BY DEF ShuttingDown, D!ShuttingDown, Inv, Types, DispatcherTypes
<1>. QED
    BY <1>1, <1>2, <1>3, ShuttingDownSteps DEF At, ToldSupply, ToldSwitch, ToldKeys

\* The key task in a shutdown without a change of the keys: one more round.
KeysAt(pc) == keys_pc = pc
Idle == keys_pc \in {"enable", "sleep"}

\* The key task once it is told, with the keys left alone: it comes round to its
\* events, receives the shutdown and confirms it.
LEMMA KeysShutdownSteps ==
    ASSUME Inv, InOrder, [Next]_vars, ToldKeys, KeysQuiet'
    PROVE  /\ Idle => Idle' \/ KeysAt("poll")'
           /\ KeysAt("poll") => KeysAt("poll")' \/ KeysAt("events")'
           /\ KeysAt("events") => KeysAt("events")' \/ KeysAt("sendDone")'
           /\ KeysAt("sendDone") => KeysAt("sendDone")' \/ KeysAt("done")'
           /\ KeysAt("done") => KeysAt("done")'
           /\ KeysStep =>
                  /\ Idle => KeysAt("poll")'
                  /\ KeysAt("poll") => KeysAt("events")'
                  /\ KeysAt("events") => KeysAt("sendDone")'
                  /\ KeysAt("sendDone") => KeysAt("done")'
<1>. USE DEF Idle, KeysAt
<1>1. KeysAt("events") => keys_in # <<>>
    BY DEF InOrder, Obedient
<1>2. CASE KeysStep
    <2>1. ~KeysAt("sendKeys")'
        BY DEF KeysQuiet
    <2>2. ~K!NumlockLed
        <3>. SUFFICES ASSUME K!NumlockLed PROVE FALSE
            OBVIOUS
        <3>1. Head(keys_in) = ShutdownMessage
            BY DEF K!NumlockLed, K!Receive, Inv, Types, Channels, KeysChannelTypes, Buffer,
                Capacity
        <3>. QED  BY <3>1, Messages DEF K!NumlockLed
    <2>3. K!SendDone => keys_pc' = "done"
        BY DEF K!SendDone, InOrder, LastConfirmed
    <2>. QED
        BY <1>1, <1>2, <2>1, <2>2, <2>3 DEF KeysStep, K!run, K!new, K!poll, K!SendKeys,
            K!PowerTransition, K!SendDone, K!NoEvent, K!Wake
<1>3. CASE ~KeysStep
    <2>1. UNCHANGED keys_pc
        BY <1>3, NextSteps DEF Inv, SwitchStep, SupplyStep, UsbStep, DispatcherStep, SystemOff,
            vars, keysVars
    <2>. QED  BY <1>3, <2>1
<1>. QED  BY <1>2, <1>3

\* The mode switch and the power supply, once told.
LEMMA StopSteps ==
    ASSUME Inv, InOrder, [Next]_vars
    PROVE  /\ switch_pc = "done" => switch_pc' = "done"
           /\ supply_pc = "done" => supply_pc' = "done"
<1>1. CASE SwitchStep
    BY <1>1 DEF SwitchStep, supplyVars, S!run, S!Start, S!Change, S!SendPosition, S!Stop
<1>2. CASE SupplyStep
    BY <1>2 DEF SupplyStep, switchVars, P!run, P!new, P!Change, P!SendState, P!Stop
<1>3. CASE KeysStep \/ UsbStep \/ DispatcherStep \/ SystemOff \/ UNCHANGED vars
    BY <1>3 DEF KeysStep, UsbStep, DispatcherStep, SystemOff, vars, switchVars, supplyVars
<1>. QED  BY <1>1, <1>2, <1>3, NextSteps DEF Inv

\* The step that stops them.
LEMMA StopProgress ==
    /\ InJoin(S!Stop /\ SwitchStep) => switch_pc' = "done"
    /\ InJoin(P!Stop /\ SupplyStep) => supply_pc' = "done"
BY DEF InJoin, S!Stop, P!Stop

----------------------------------------------------------------------------
\* Each message of the shutdown is sent: the channel of a task that has not been
\* told is empty, except for a key state that USB takes.
LEMMA DispatcherFinishes ==
    FairSpec /\ []ShutdownReady => (ShuttingDown ~> At("done") \/ Over)
<1>1. Inv /\ InOrder /\ ShuttingDown /\ [Next]_vars =>
          /\ ShuttingDown'
          /\ At("keys_in") => At("keys_in")' \/ At("mode_switch_stop")'
          /\ At("mode_switch_stop") => At("mode_switch_stop")' \/ At("power_supply_stop")'
          /\ At("power_supply_stop") => At("power_supply_stop")' \/ At("usb_in")'
          /\ At("usb_in") => At("usb_in")' \/ At("bluetooth_in")'
          /\ At("bluetooth_in") => At("bluetooth_in")' \/ At("unifying_in")'
          /\ At("unifying_in") => At("unifying_in")' \/ At("done")'
    BY ShuttingDownSteps
<1>2. Inv /\ InOrder /\ ShuttingDown /\ [Next]_vars /\ <<InJoin(DispatcherStep)>>_vars =>
          /\ At("keys_in") => At("mode_switch_stop")'
          /\ At("mode_switch_stop") => At("power_supply_stop")'
          /\ At("power_supply_stop") => At("usb_in")'
          /\ At("usb_in") => At("bluetooth_in")'
          /\ At("bluetooth_in") => At("unifying_in")'
          /\ At("unifying_in") => At("done")'
    BY ShuttingDownSteps DEF InJoin
<1>3. Inv /\ InOrder /\ ShuttingDown /\ [Next]_vars =>
          /\ At("usb_in") /\ Drained => (Drained /\ At("usb_in"))' \/ At("bluetooth_in")'
          /\ At("usb_in") /\ ~Drained => At("usb_in")'
          /\ At("usb_in") /\ ~Drained /\ usb_pc = "write" =>
                 (~Drained)' /\ (usb_pc = "write" \/ usb_pc = "receive")'
          /\ At("usb_in") /\ ~Drained /\ usb_pc = "receive" => Drained' \/ (usb_pc = "receive")'
    BY UsbShutdownSteps
<1>4. Inv /\ InOrder /\ ShuttingDown /\ [Next]_vars /\ <<InJoin(UsbStep)>>_vars =>
          /\ At("usb_in") /\ ~Drained /\ usb_pc = "write" => (usb_pc = "receive")'
          /\ At("usb_in") /\ ~Drained /\ usb_pc = "receive" => Drained'
    BY UsbShutdownSteps DEF InJoin
<1>5. Inv /\ InOrder /\ ShuttingDown =>
          /\ main_pc = "join" \/ Over
          /\ At("keys_in") \/ At("mode_switch_stop") \/ At("power_supply_stop") \/ At("usb_in")
                 \/ At("bluetooth_in") \/ At("unifying_in") \/ At("done")
          /\ At("keys_in") => disp_pc = "keys_in" /\ keys_in = <<>>
          /\ At("mode_switch_stop") => disp_pc = "mode_switch_stop" /\ mode_switch_stop = <<>>
          /\ At("power_supply_stop") => disp_pc = "power_supply_stop" /\ power_supply_stop = <<>>
          /\ At("usb_in") /\ Drained => disp_pc = "usb_in" /\ usb_in = <<>>
          /\ At("bluetooth_in") => disp_pc = "bluetooth_in" /\ bluetooth_in = <<>>
          /\ At("unifying_in") => disp_pc = "unifying_in" /\ unifying_in = <<>>
          /\ At("usb_in") /\ ~Drained => /\ usb_in # <<>>
                                         /\ usb_pc = "write" \/ usb_pc = "receive"
    <2>1. Inv /\ InOrder /\ ShuttingDown => main_pc = "join" \/ Over
        BY DEF InOrder, Constructed, Joined, ShuttingDown, D!ShuttingDown, Over
    <2>. QED
        BY <2>1 DEF InOrder, Obedient, ToldKeys, ToldSwitch, ToldSupply, ToldUsb, ToldBluetooth,
            ToldUnifying, ShuttingDown, D!ShuttingDown, At, Drained, Inv, Types,
            DispatcherTypes, UsbTypes
<1>. QED
    BY <1>1, <1>2, <1>3, <1>4, <1>5, FirmwareInOrder, PTL
    DEF FairSpec, Fairness, Spec, ShutdownReady, DispatcherReady, UsbReady

\* A task that has ended does nothing more.
LEMMA DoneStay ==
    ASSUME Inv, InOrder, [Next]_vars
    PROVE  /\ keys_pc = "done" => keys_pc' = "done"
           /\ usb_pc = "done" => usb_pc' = "done"
<1>1. CASE KeysStep
    BY <1>1 DEF KeysStep, usbVars, K!run, K!new, K!poll, K!SendKeys, K!PowerTransition,
        K!NumlockLed, K!SendDone, K!NoEvent, K!Wake
<1>2. CASE UsbStep
    BY <1>2 DEF UsbStep, keysVars, U!run, U!KeysChanged, U!WriteDone, U!PowerTransition, U!Receive
<1>3. CASE SwitchStep \/ SupplyStep \/ DispatcherStep \/ SystemOff \/ UNCHANGED vars
    BY <1>3 DEF SwitchStep, SupplyStep, DispatcherStep, SystemOff, vars, keysVars, usbVars
<1>. QED  BY <1>1, <1>2, <1>3, NextSteps DEF Inv

\* USB ends after the report it may still be writing.
LEMMA UsbFinishes ==
    FairSpec /\ []ShutdownReady => (ToldUsb ~> UsbAt("done") \/ Over)
<1>1. Inv /\ InOrder /\ ToldUsb /\ [Next]_vars =>
          /\ ToldUsb'
          /\ UsbAt("write") => UsbAt("write")' \/ UsbAt("receive")'
          /\ UsbAt("receive") => UsbAt("receive")' \/ UsbAt("done")'
    BY UsbShutdownSteps DEF UsbAt, ToldUsb, ToldSupply, ToldSwitch, ToldKeys
<1>2. Inv /\ InOrder /\ ToldUsb /\ [Next]_vars /\ <<InJoin(UsbStep)>>_vars =>
          /\ UsbAt("write") => UsbAt("receive")'
          /\ UsbAt("receive") => UsbAt("done")'
    BY UsbShutdownSteps DEF InJoin, UsbAt, ToldUsb, ToldSupply, ToldSwitch, ToldKeys
<1>3. Inv /\ InOrder /\ ToldUsb =>
          /\ main_pc = "join" \/ Over
          /\ UsbAt("write") \/ UsbAt("receive") \/ UsbAt("done")
          /\ UsbAt("write") => usb_pc = "write"
          /\ UsbAt("receive") => usb_pc = "receive" /\ usb_in # <<>>
    BY DEF InOrder, Obedient, HasShutdown, Constructed, Joined, Over, UsbAt, Inv, Types,
        UsbTypes, ToldUsb, ToldSupply, ToldSwitch, ToldKeys, ShuttingDown, D!ShuttingDown
<1>. QED
    BY <1>1, <1>2, <1>3, FirmwareInOrder, PTL
    DEF FairSpec, Fairness, Spec, ShutdownReady, UsbReady

\* The key task ends, if no key changes in the shutdown: it could not send the
\* change to a dispatcher that no longer listens.
LEMMA KeysFinish ==
    FairSpec /\ []ShutdownReady /\ QuietShutdown => (ToldKeys ~> KeysAt("done") \/ Over)
<1>0. Inv /\ InOrder /\ ToldKeys /\ [Next]_vars => ToldKeys'
    BY ToldStay
<1>1. Inv /\ InOrder /\ ToldKeys /\ KeysQuiet' /\ [Next]_vars =>
          /\ Idle => Idle' \/ KeysAt("poll")'
          /\ KeysAt("poll") => KeysAt("poll")' \/ KeysAt("events")'
          /\ KeysAt("events") => KeysAt("events")' \/ KeysAt("sendDone")'
          /\ KeysAt("sendDone") => KeysAt("sendDone")' \/ KeysAt("done")'
    BY KeysShutdownSteps
<1>2. Inv /\ InOrder /\ ToldKeys /\ KeysQuiet' /\ [Next]_vars /\ <<InJoin(KeysStep)>>_vars =>
          /\ Idle => KeysAt("poll")'
          /\ KeysAt("poll") => KeysAt("events")'
          /\ KeysAt("events") => KeysAt("sendDone")'
          /\ KeysAt("sendDone") => KeysAt("done")'
    BY KeysShutdownSteps DEF InJoin
<1>3. Inv /\ InOrder /\ ToldKeys /\ KeysQuiet =>
          /\ main_pc = "join" \/ Over
          /\ Idle \/ KeysAt("poll") \/ KeysAt("events") \/ KeysAt("sendDone") \/ KeysAt("done")
          /\ ~KeysAt("done") => KeysMayRun
    BY DEF KeysMayRun, InOrder, LastConfirmed, HasKeys, Constructed, Joined, Over, Idle,
        KeysAt, KeysQuiet, Inv, Types, KeysTypes, ToldKeys, ShuttingDown, D!ShuttingDown
<1>4. ToldKeys => ShuttingDown
    BY DEF ToldKeys
<1>5. FairSpec => [](Inv /\ InOrder) /\ [][Next]_vars /\ WF_vars(InJoin(KeysStep))
    BY FirmwareInOrder, PTL DEF FairSpec, Fairness, Spec
<1>6. []ShutdownReady => []KeysReady
    BY PTL DEF ShutdownReady
<1>7. QuietShutdown => [](ToldKeys => KeysQuiet)
    BY <1>4, PTL DEF QuietShutdown
<1>. QED
    BY <1>0, <1>1, <1>2, <1>3, <1>5, <1>6, <1>7, PTL DEF KeysReady

\* The mode switch ends whatever the switch does: a select that goes on being
\* offered its stop takes it.
LEMMA SwitchFinishes ==
    FairSpec /\ []ShutdownReady => (ToldSwitch ~> SwitchAt("done") \/ Over)
<1>1. Inv /\ InOrder /\ ToldSwitch /\ [Next]_vars =>
          ToldSwitch' /\ (SwitchAt("done") => SwitchAt("done")')
    BY ToldStay, StopSteps DEF SwitchAt
<1>2. <<InJoin(S!Stop /\ SwitchStep)>>_vars => SwitchAt("done")'
    BY StopProgress DEF SwitchAt
<1>3. Inv /\ InOrder /\ ToldSwitch =>
          /\ main_pc = "join" \/ Over
          /\ ~SwitchAt("done") =>
                 switch_pc # "done" /\ mode_switch_stop # <<>> /\ position \in Positions
    BY DEF InOrder, Obedient, Constructed, Joined, Over, SwitchAt, Inv, ToldSwitch, ToldKeys,
        ShuttingDown, D!ShuttingDown
<1>. QED
    BY <1>1, <1>2, <1>3, FirmwareInOrder, PTL
    DEF FairSpec, Fairness, Spec, ShutdownReady, SwitchStopReady

\* So does the power supply.
LEMMA SupplyFinishes ==
    FairSpec /\ []ShutdownReady => (ToldSupply ~> SupplyAt("done") \/ Over)
<1>1. Inv /\ InOrder /\ ToldSupply /\ [Next]_vars =>
          ToldSupply' /\ (SupplyAt("done") => SupplyAt("done")')
    BY ToldStay, StopSteps DEF SupplyAt
<1>2. <<InJoin(P!Stop /\ SupplyStep)>>_vars => SupplyAt("done")'
    BY StopProgress DEF SupplyAt
<1>3. Inv /\ InOrder /\ ToldSupply =>
          /\ main_pc = "join" \/ Over
          /\ ~SupplyAt("done") => ~first /\ supply_pc # "done" /\ power_supply_stop # <<>>
    BY DEF InOrder, Obedient, Constructed, Joined, Over, SupplyAt, Inv, ToldSupply, ToldSwitch,
        ToldKeys, ShuttingDown, D!ShuttingDown
<1>. QED
    BY <1>1, <1>2, <1>3, FirmwareInOrder, PTL
    DEF FairSpec, Fairness, Spec, ShutdownReady, SupplyStopReady

\* Once a shutdown has begun, every task and both radios are told, also when a
\* key event keeps the key task from ending.
THEOREM FirmwareTellsAll == FairSpec /\ []ShutdownReady => ShutdownTellsAll
<1>1. Inv /\ InOrder /\ (At("done") \/ Over) => disp_pc = "done" /\ EveryTaskTold
    <2>1. Inv /\ Over => At("done")
        BY DEF Inv, OffAtLast, Over, AllDone, At
    <2>2. HasShutdown(usb_in) => usb_in # <<>> /\ Head(usb_in).type = "PowerTransition"
        BY Messages DEF HasShutdown
    <2>. QED
        BY <2>1, <2>2 DEF At, EveryTaskTold, InOrder, Obedient, ToldKeys, ToldSwitch, ToldSupply,
            ToldUsb, ToldBluetooth, ToldUnifying, ShuttingDown, D!ShuttingDown
<1>2. FairSpec => [](Inv /\ InOrder)
    BY FirmwareInOrder, PTL DEF FairSpec
<1>. QED  BY <1>1, <1>2, DispatcherFinishes, PTL DEF ShutdownTellsAll

\* Once a shutdown has begun and no key changes in it, the firmware reaches
\* System OFF: every task is told, in turn, obeys, and none waits for another
\* one that has gone.
THEOREM FirmwareQuietShutdownFinishes ==
    FairSpec /\ []ShutdownReady => QuietShutdownFinishes
<1>1. Inv /\ InOrder /\ ShuttingDown /\ [Next]_vars =>
          /\ ShuttingDown'
          /\ At("done") => At("done")'
          /\ KeysAt("done") => KeysAt("done")'
          /\ SwitchAt("done") => SwitchAt("done")'
          /\ SupplyAt("done") => SupplyAt("done")'
          /\ UsbAt("done") => UsbAt("done")'
    BY ShuttingDownSteps, StopSteps, DoneStay DEF SwitchAt, SupplyAt, UsbAt, KeysAt
<1>2. At("done") => ShuttingDown /\ ToldKeys /\ ToldSwitch /\ ToldSupply /\ ToldUsb
    BY DEF At, ToldKeys, ToldSwitch, ToldSupply, ToldUsb, ShuttingDown, D!ShuttingDown
<1>3. /\ At("done") /\ KeysAt("done") /\ SwitchAt("done") /\ SupplyAt("done") /\ UsbAt("done")
             => AllDone
      /\ Inv /\ InOrder /\ ShuttingDown => main_pc = "join" \/ Over
      /\ Over <=> main_pc = "off"
    BY DEF AllDone, At, KeysAt, SwitchAt, SupplyAt, UsbAt, InOrder, Constructed, Joined, Over,
        ShuttingDown, D!ShuttingDown
<1>4. <<SystemOff>>_vars => Over'
    BY DEF SystemOff, Over
<1>5. Inv /\ [Next]_vars /\ Over => Over'
    BY DEF Over, Inv, Next, run_main, NewKeys, NewSupply, Join, SystemOff, Off, vars
<1>6. FairSpec => [](Inv /\ InOrder) /\ [][Next]_vars /\ WF_vars(SystemOff)
    BY FirmwareInOrder, PTL DEF FairSpec, Fairness, Spec
<1>7. []ShutdownReady => []OffReady
    BY PTL DEF ShutdownReady
<1>8. FairSpec /\ []ShutdownReady /\ QuietShutdown =>
          /\ ShuttingDown ~> At("done") \/ Over
          /\ At("done") ~> KeysAt("done") \/ Over
          /\ At("done") ~> SwitchAt("done") \/ Over
          /\ At("done") ~> SupplyAt("done") \/ Over
          /\ At("done") ~> UsbAt("done") \/ Over
    BY <1>2, DispatcherFinishes, KeysFinish, SwitchFinishes, SupplyFinishes, UsbFinishes, PTL
<1>. QED
    BY <1>1, <1>2, <1>3, <1>4, <1>5, <1>6, <1>7, <1>8, PTL DEF OffReady, QuietShutdownFinishes

----------------------------------------------------------------------------
\* What a step of the dispatcher does to a state in the channel: it is taken, and
\* a low battery taken begins the shutdown.
LEMMA SupplyEventTakes ==
    ASSUME Inv, DispatcherStep
    PROVE  \/ UNCHANGED power_supply_out /\ ~D!SupplyEvent
           \/ /\ D!SupplyEvent /\ power_supply_out' = <<>>
              /\ LowReported => ShuttingDown'
<1>. USE DEF DispatcherStep, D!run, D!SelectEvent, D!locals, D!inputs, D!outputs
<1>1. CASE D!SupplyEvent
    <2>1. power_supply_out' = <<>>
        BY <1>1 DEF D!SupplyEvent, D!Receive, Inv, Types, Channels, SupplyChannelTypes,
            Buffer, Capacity
    <2>. QED
        BY <1>1, <2>1 DEF D!SupplyEvent, D!ShutdownIf, LowReported, D!LowReported, ShuttingDown,
            D!ShuttingDown
<1>2. CASE D!Shutdown
    BY <1>2 DEF D!Shutdown, D!ShutdownKeys, D!ShutdownSwitch, D!ShutdownSupply, D!ShutdownUsb,
        D!ShutdownBluetooth, D!ShutdownUnifying, D!Stage, D!SupplyEvent, D!Select
<1>3. CASE D!Forward
    BY <1>3 DEF D!Forward, D!SupplyEvent, D!Select
<1>4. CASE ~D!SupplyEvent /\ D!SelectEvent
    BY <1>4 DEF D!FirstPosition, D!KeyEvent, D!SwitchEvent, D!UsbEvent, D!BluetoothEvent,
        D!UnifyingEvent
<1>5. CASE D!FirstPosition
    BY <1>5 DEF D!FirstPosition, D!SupplyEvent, D!Select
<1>. QED  BY <1>1, <1>2, <1>3, <1>4, <1>5

\* A state that is sent is the one in the channel.
LEMMA StateSent ==
    ASSUME Inv, SupplyStep, P!SendState
    PROVE  /\ power_supply_out = <<>> /\ power_supply_out' # <<>>
           /\ supply_pc' = "wait" /\ ~first'
           /\ UNCHANGED supply_state
           /\ supply_state.mode = "Low" => LowReported'
<1>1. /\ power_supply_out' = Append(power_supply_out, supply_state)
      /\ Len(power_supply_out) = 0 /\ power_supply_out \in Seq(P!PowerSupplyState)
    BY DEF P!SendState, P!Send, P!Capacity, Inv, Types, Channels, SupplyChannelTypes, Buffer
<1>2. power_supply_out = <<>> /\ power_supply_out' # <<>>
          /\ Head(power_supply_out') = supply_state
    BY <1>1
<1>. QED  BY <1>2 DEF P!SendState, LowReported, D!LowReported

\* A low battery is about to be reported; the channel is free.
LowSend == supply_state.mode = "Low" /\ supply_pc = "send"
Emptied == power_supply_out = <<>>

\* What a step of the power supply can do to a state that has to be reported.
LEMMA SupplyLow ==
    ASSUME Inv, InOrder, SupplyStep
    PROVE  /\ LowSend => P!SendState \/ ShuttingDown
           /\ LowReported => LowReported'
           /\ supply_pc' # "new"
           /\ supply_pc' = "wait" => P!SendState
           /\ power_supply_out' = power_supply_out \/ P!SendState
           /\ ~DispatcherStep
<1>1. ~DispatcherStep
    BY DEF DispatcherStep, SupplyStep, supplyVars, P!run, P!new, P!SendState, P!Change, P!Stop
<1>2. CASE P!SendState
    BY <1>1, <1>2, StateSent DEF LowReported, D!LowReported
<1>3. CASE P!Stop
    <2>1. power_supply_stop # <<>>
        BY <1>3 DEF P!Stop, P!Receive
    <2>2. ShuttingDown
        BY <2>1 DEF Inv, StopsAreShutdown
    <2>. QED  BY <1>1, <1>3, <2>2 DEF P!Stop, LowReported, D!LowReported
<1>4. CASE ~P!SendState /\ ~P!Stop
    BY <1>1, <1>4 DEF SupplyStep, P!run, P!new, P!Change, LowSend, LowReported, D!LowReported
<1>. QED  BY <1>2, <1>3, <1>4

\* LowWaits holds at the start,
LEMMA LowWaitsInitial == Init => LowWaits
BY DEF Init, P!Init, LowWaits, Joined

\* The constructors run first, one after the other.
LEMMA MainSteps ==
    ASSUME Inv, InOrder, [Next]_vars
    PROVE  /\ Joined => Joined'
           /\ main_pc' = "keys" => UNCHANGED vars
           /\ ~Joined' /\ DispatcherStep => UNCHANGED vars
<1>. USE DEF Joined
<1>1. CASE NewKeys
    BY <1>1 DEF NewKeys, KeysStep, dispVars, DispatcherStep, keysVars, K!run, K!new, K!poll,
        K!SendKeys, K!PowerTransition, K!NumlockLed, K!SendDone, K!NoEvent, K!Wake
<1>2. CASE NewSupply
    <2>1. ~UNCHANGED supplyVars
        BY <1>2 DEF NewSupply, SupplyStep, supplyVars, P!run, P!new, P!SendState, P!Change, P!Stop
    <2>. QED  BY <1>2, <2>1 DEF NewSupply, DispatcherStep
<1>3. CASE Join \/ SystemOff \/ UNCHANGED vars
    BY <1>3 DEF Join, SystemOff, vars
<1>. QED  BY <1>1, <1>2, <1>3 DEF Next, run_main, Off

\* and is inductive with Inv and InOrder.
LEMMA LowWaitsInductive == Inv /\ InOrder /\ LowWaits /\ [Next]_vars => LowWaits'
<1>. SUFFICES ASSUME Inv, InOrder, LowWaits, [Next]_vars PROVE LowWaits'
    OBVIOUS
<1>0. ShuttingDown => ShuttingDown'
    BY ShuttingDownSteps
<1>1. CASE UNCHANGED vars
    BY <1>1 DEF vars, LowWaits, Joined, LowReported, D!LowReported, ShuttingDown, D!ShuttingDown,
        supplyVars, dispVars, supplyChannels
<1>2. CASE SupplyStep /\ ~UNCHANGED vars
    <2>1. main_pc' # "keys" /\ (Joined => Joined')
        BY <1>2, MainSteps
    <2>2. P!SendState => Joined'
        <3>1. CASE NewSupply
            BY <1>2, <3>1, StateSent DEF NewSupply, Joined
        <3>2. CASE NewKeys
            BY <1>2, <3>2, StateSent DEF NewKeys, KeysStep, supplyChannels
        <3>. QED  BY <3>1, <3>2, <1>2 DEF Next, run_main, Join, SystemOff, Off, Joined
    <2>. QED  BY <1>2, <2>1, <2>2, SupplyLow, StateSent DEF LowWaits
<1>3. CASE ~SupplyStep /\ ~UNCHANGED vars
    <2>1. UNCHANGED <<supply_pc, supply_state>>
        BY <1>3, NextSteps DEF Inv, KeysStep, SwitchStep, UsbStep, DispatcherStep, SystemOff,
            supplyVars
    <2>2. main_pc' # "keys" /\ (Joined => Joined')
        BY <1>3, MainSteps
    <2>3. \/ UNCHANGED power_supply_out
          \/ Joined' /\ (LowReported => ShuttingDown')
        BY <1>3, MainSteps, SupplyEventTakes, NextSteps DEF Inv, KeysStep, SwitchStep, UsbStep,
            SystemOff, supplyChannels
    <2>. QED  BY <1>0, <2>1, <2>2, <2>3 DEF LowWaits, LowReported, D!LowReported
<1>. QED  BY <1>1, <1>2, <1>3

\* LowWaits is an invariant of the specification.
LEMMA FirmwareLowWaits == Spec => [](Inv /\ InOrder /\ LowWaits)
<1>. Init => Inv /\ InOrder /\ LowWaits
    BY InvInitial, InOrderInitial, LowWaitsInitial
<1>. (Inv /\ InOrder /\ LowWaits) /\ [Next]_vars => (Inv /\ InOrder /\ LowWaits)'
    BY InvInductive, InOrderInductive, LowWaitsInductive
<1>. QED  BY PTL DEF Spec

\* The hypotheses of the theorem below, on top of the ones of the shutdown.
LowReady == SupplyEventReady /\ SendStateReady /\ NewSupplyReady

\* Where a step leads while a low battery is to be reported.
LEMMA LowSteps ==
    ASSUME Inv, InOrder, LowWaits, [Next]_vars
    PROVE  /\ LowSend => LowSend' \/ LowReported' \/ ShuttingDown'
           /\ LowSend /\ Emptied => Emptied' \/ LowReported' \/ ShuttingDown'
           /\ LowReported => LowReported' \/ ShuttingDown'
           /\ InJoin(D!SupplyEvent /\ DispatcherStep) =>
                  Emptied' /\ (LowReported => ShuttingDown')
           /\ LowSend /\ InJoin(P!SendState /\ SupplyStep) => LowReported'
           /\ LowSend /\ NewSupply => LowReported' \/ ShuttingDown
<1>0. ShuttingDown => ShuttingDown'
    BY ShuttingDownSteps
<1>1. CASE SupplyStep
    <2>1. LowSend => LowReported' \/ ShuttingDown'
        BY <1>0, <1>1, SupplyLow, StateSent DEF LowSend
    <2>. QED  BY <1>0, <1>1, <2>1, SupplyLow, StateSent DEF InJoin, LowSend
<1>2. CASE ~SupplyStep
    <2>1. UNCHANGED <<supply_pc, supply_state>>
        BY <1>2, NextSteps DEF Inv, KeysStep, SwitchStep, UsbStep, DispatcherStep, SystemOff,
            supplyVars, vars
    <2>2. CASE DispatcherStep
        BY <1>0, <1>2, <2>1, <2>2, SupplyEventTakes DEF Emptied, LowSend, InJoin, LowReported,
            D!LowReported, NewSupply
    <2>3. CASE ~DispatcherStep
        <3>1. UNCHANGED power_supply_out
            BY <1>2, <2>3, NextSteps DEF Inv, KeysStep, SwitchStep, UsbStep, SystemOff,
                supplyChannels, vars
        <3>. QED
            BY <1>0, <1>2, <2>1, <2>3, <3>1 DEF Emptied, LowSend, InJoin, LowReported,
                D!LowReported, NewSupply
    <2>. QED  BY <2>2, <2>3
<1>. QED  BY <1>1, <1>2

\* A low battery begins the shutdown, if the user pauses now and then: the
\* dispatcher selects the supply only when no key and no position waits.
LEMMA LowShutsDown ==
    FairSpec /\ []LowReady /\ []<>(D!UserPause \/ main_pc = "off") =>
        (supply_state.mode = "Low" ~> ShuttingDown)
<1>1. Inv /\ InOrder /\ LowWaits /\ [Next]_vars =>
          /\ LowSend => LowSend' \/ LowReported' \/ ShuttingDown'
          /\ LowSend /\ Emptied => Emptied' \/ LowReported' \/ ShuttingDown'
          /\ LowReported => LowReported' \/ ShuttingDown'
          /\ ShuttingDown => ShuttingDown'
    BY LowSteps, ShuttingDownSteps
<1>2. Inv /\ InOrder /\ LowWaits /\ [Next]_vars
             /\ <<InJoin(D!SupplyEvent /\ DispatcherStep)>>_vars =>
          Emptied' /\ (LowReported => ShuttingDown')
    BY LowSteps
<1>3. Inv /\ InOrder /\ LowWaits /\ [Next]_vars =>
          /\ LowSend /\ <<InJoin(P!SendState /\ SupplyStep)>>_vars => LowReported'
          /\ LowSend /\ <<NewSupply>>_vars => LowReported' \/ ShuttingDown
    BY LowSteps
<1>4. [Next]_vars => (main_pc = "join" => (main_pc = "join")' \/ (main_pc = "off")')
    BY DEF Next, run_main, NewKeys, NewSupply, Join, SystemOff, Off, vars
<1>5. Inv /\ InOrder /\ LowWaits =>
          /\ supply_state.mode = "Low" => LowSend \/ LowReported \/ ShuttingDown
          /\ LowSend => \/ main_pc = "supply" /\ supply_pc = "send" /\ power_supply_out = <<>>
                        \/ main_pc = "join" /\ supply_pc = "send"
                        \/ ShuttingDown
          /\ LowReported => (main_pc = "join" /\ ~Emptied) \/ ShuttingDown
          /\ main_pc = "off" => ShuttingDown
          /\ Emptied => power_supply_out = <<>>
          /\ ~Emptied => power_supply_out # <<>>
          /\ D!UserPause => ShuttingDown \/ (disp_pc = "select" /\ keys_out = <<>>
                                                /\ mode_switch_out = <<>>)
    <2>1. Inv => (main_pc = "off" => ShuttingDown)
        BY DEF Inv, OffAtLast, AllDone, ShuttingDown, D!ShuttingDown
    <2>. QED
        BY <2>1 DEF LowWaits, LowSend, LowReported, D!LowReported, Emptied, Joined, D!UserPause,
            ShuttingDown, Inv, Types, SupplyTypes, P!PowerSupplyState, InOrder, Obedient,
            ToldSupply, ToldSwitch, ToldKeys
<1>6. FairSpec => /\ [](Inv /\ InOrder /\ LowWaits) /\ [][Next]_vars
                  /\ SF_vars(InJoin(D!SupplyEvent /\ DispatcherStep))
                  /\ WF_vars(InJoin(P!SendState /\ SupplyStep)) /\ WF_vars(NewSupply)
    BY FirmwareLowWaits, PTL DEF FairSpec, Fairness, Spec
<1>. QED
    BY <1>1, <1>2, <1>3, <1>4, <1>5, <1>6, PTL
    DEF LowReady, SupplyEventReady, SendStateReady, NewSupplyReady

\* A battery that is low takes the firmware to System OFF, if the user pauses
\* until the dispatcher selects the supply and no key changes in the shutdown.
THEOREM FirmwareLowBatteryOff ==
    FairSpec /\ []ShutdownReady /\ []LowReady => LowBatteryOff
BY FirmwareQuietShutdownFinishes, LowShutsDown, PTL DEF LowBatteryOff, QuietShutdownFinishes
=============================================================================
