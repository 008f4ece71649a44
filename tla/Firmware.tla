------------------------------ MODULE Firmware ------------------------------
(***************************************************************************)
(* The firmware as run_main of app/src/main.rs assembles it: the key task, *)
(* the power supply, the mode switch and USB around the dispatcher, joined *)
(* until all of them have returned; then the drop handlers and System OFF. *)
(* The four tasks are the abstract ones, each implemented by a detailed    *)
(* module of its own.  All of them run in one executor task; here any of   *)
(* them may take its next step between two awaits, an order finer than the *)
(* executor's.  The watchdog is petted by a function of its own for as     *)
(* long as the join lasts, so a join that never ends is never reset.       *)
(***************************************************************************)
EXTENDS Channel

CONSTANTS
    KeyStates, NoKeys,  \* the key states that can be reported
    Positions,          \* the positions the mode switch is moved to
    SupplyStates        \* the states the power supply gets into

ASSUME FirmwareAssumption ==
    /\ NoKeys \in KeyStates
    /\ Positions \subseteq {"OffUsb", "Profile1", "Profile2"}

VARIABLES
    main_pc,    \* "keys": in Keys::new; "supply": in PowerSupply::new;
                \* "join": in the select of run_main; "off": System OFF
    disp_pc, switch_pos, usb_connected, forward,            \* Dispatcher
    keys_pc, key_matrix, reported, keys_level,              \* KeyTask
    switch_pc, position,                                    \* SwitchTask
    supply_pc, supply_state, first,                         \* SupplyTask
    usb_pc, usb_keys,                                       \* UsbTask
    keys_in, keys_out, mode_switch_stop, mode_switch_out, power_supply_stop,
    power_supply_out, usb_in, usb_out, bluetooth_in, bluetooth_out,
    unifying_in, unifying_out

D == INSTANCE Dispatcher
K == INSTANCE KeyTask
S == INSTANCE SwitchTask
P == INSTANCE SupplyTask
U == INSTANCE UsbTask

\* The variables of each task, and the channels between it and the dispatcher.
dispVars == <<disp_pc, switch_pos, usb_connected, forward>>
keysVars == <<keys_pc, key_matrix, reported, keys_level>>
switchVars == <<switch_pc, position>>
supplyVars == <<supply_pc, supply_state, first>>
usbVars == <<usb_pc, usb_keys>>
keysChannels == <<keys_in, keys_out>>
switchChannels == <<mode_switch_stop, mode_switch_out>>
supplyChannels == <<power_supply_stop, power_supply_out>>
\* Nobody is at the other end of these yet.
idleChannels == <<usb_out, bluetooth_in, bluetooth_out, unifying_in, unifying_out>>
vars == <<main_pc, dispVars, keysVars, switchVars, supplyVars, usbVars,
          keysChannels, switchChannels, supplyChannels, usb_in, idleChannels>>

Init ==
    /\ main_pc = "keys"
    /\ D!Init /\ K!Init /\ S!Init /\ P!Init /\ U!Init

----------------------------------------------------------------------------
\* A step of one task leaves the other tasks and their channels alone.
KeysStep ==
    /\ K!run
    /\ UNCHANGED <<dispVars, switchVars, supplyVars, usbVars, switchChannels,
                   supplyChannels, usb_in, idleChannels>>

SwitchStep ==
    /\ S!run
    /\ position' \in Positions
    /\ UNCHANGED <<dispVars, keysVars, supplyVars, usbVars, keysChannels,
                   supplyChannels, usb_in, idleChannels>>

SupplyStep ==
    /\ P!run
    /\ supply_state' \in SupplyStates \cup {supply_state}
    /\ UNCHANGED <<dispVars, keysVars, switchVars, usbVars, keysChannels,
                   switchChannels, usb_in, idleChannels>>

UsbStep ==
    /\ U!run
    /\ UNCHANGED <<dispVars, keysVars, switchVars, supplyVars, keysChannels,
                   switchChannels, supplyChannels, idleChannels>>

DispatcherStep ==
    /\ D!run
    /\ UNCHANGED <<keysVars, switchVars, supplyVars, usbVars>>

\* Keys::new and PowerSupply::new run one after the other, before the join.
NewKeys ==
    /\ main_pc = "keys"
    /\ KeysStep
    /\ keys_pc = "enable"
    /\ main_pc' = "supply"

NewSupply ==
    /\ main_pc = "supply"
    /\ SupplyStep
    /\ main_pc' = IF first' THEN "supply" ELSE "join"

Join ==
    /\ main_pc = "join"
    /\ KeysStep \/ SwitchStep \/ SupplyStep \/ UsbStep \/ DispatcherStep
    /\ UNCHANGED main_pc

AllDone == keys_pc = "done" /\ switch_pc = "done" /\ supply_pc = "done"
               /\ usb_pc = "done" /\ disp_pc = "done"

\* The join returns, the block is left and its values are dropped, which
\* switches the key matrix off, and the system is put into System OFF.
SystemOff ==
    /\ main_pc = "join"
    /\ AllDone
    /\ main_pc' = "off"
    /\ key_matrix' = FALSE
    /\ UNCHANGED <<dispVars, keys_pc, reported, keys_level, switchVars, supplyVars,
                   usbVars, keysChannels, switchChannels, supplyChannels, usb_in,
                   idleChannels>>

run_main == NewKeys \/ NewSupply \/ Join \/ SystemOff

\* System OFF is the end.
Off == main_pc = "off" /\ UNCHANGED vars

Next == run_main \/ Off
Spec == Init /\ [][Next]_vars

(***************************************************************************)
(* The executor keeps polling every task, timers expire, and every write   *)
(* to USB ends: the host takes the report, or the write fails.  The last   *)
(* is assumed of the host, not given by the code: a host that stays        *)
(* suspended can hold a write for ever (Usb's ShutdownHonoured), and a     *)
(* shutdown with it.  A task that receives a stop in a select and the      *)
(* dispatcher's biased select6 get their turn whenever they are ready      *)
(* often enough.                                                           *)
(***************************************************************************)
InJoin(step) == main_pc = "join" /\ step /\ UNCHANGED main_pc
Fairness ==
    /\ WF_vars(NewKeys) /\ WF_vars(NewSupply) /\ WF_vars(SystemOff)
    /\ WF_vars(InJoin(KeysStep)) /\ WF_vars(InJoin(UsbStep))
    /\ WF_vars(InJoin(DispatcherStep))
    /\ WF_vars(InJoin(S!SendPosition /\ SwitchStep))
    /\ WF_vars(InJoin(switch_pc = "start" /\ SwitchStep))
    /\ WF_vars(InJoin(P!SendState /\ SupplyStep))
    /\ WF_vars(InJoin(S!Stop /\ SwitchStep)) /\ WF_vars(InJoin(P!Stop /\ SupplyStep))
    /\ SF_vars(InJoin(D!SupplyEvent /\ DispatcherStep))
FairSpec == Spec /\ Fairness

----------------------------------------------------------------------------

TypeOK ==
    /\ main_pc \in {"keys", "supply", "join", "off"}
    /\ D!TypeOK /\ K!TypeOK /\ S!TypeOK /\ P!TypeOK /\ U!TypeOK

ShuttingDown == D!ShuttingDown

\* The key states on their way to the host, oldest first: the one USB took
\* last, and those in usb_in, in the dispatcher, in keys_out and in the task.
OneIf(condition, keys) == IF condition THEN <<keys>> ELSE <<>>
HasKeys(ch) == ch # <<>> /\ Head(ch).type = "KeysChanged"
Pipeline ==
    <<usb_keys>> \o OneIf(HasKeys(usb_in), Head(usb_in).keys)
                 \o OneIf(disp_pc = "forward", forward)
                 \o OneIf(HasKeys(keys_out), Head(keys_out).keys)
                 \o OneIf(keys_pc = "sendKeys", reported)

(***************************************************************************)
(* The firmware is a pipeline (main.rs): no key state is lost, repeated or *)
(* overtaken between the matrix and USB.  The newest state in the pipeline *)
(* is the one the key task reported last, and every state in it differs    *)
(* from the one before.  (During a shutdown a state may stay in it.)       *)
(***************************************************************************)
Distinct(states) == \A n \in 1..Len(states)-1 : states[n] # states[n + 1]
PipelineIntact == Pipeline[Len(Pipeline)] = reported /\ Distinct(Pipeline)

(***************************************************************************)
(* The matrix is off only in a firmware that is shutting down, and a task  *)
(* that has returned was told to: no task ends while others rely on it.    *)
(***************************************************************************)
OnlyShutdownStops ==
    ~key_matrix \/ keys_pc = "done" \/ switch_pc = "done" \/ supply_pc = "done"
        \/ usb_pc = "done" => ShuttingDown

(***************************************************************************)
(* What makes OnlyShutdownStops inductive: only the dispatcher's shutdown  *)
(* puts a message that stops a task on its way, and the key task has       *)
(* understood only such a message as Shutdown.                             *)
(***************************************************************************)
StopsAreShutdown ==
    /\ keys_in # <<>> \/ mode_switch_stop # <<>> \/ power_supply_stop # <<>>
        => ShuttingDown
    /\ usb_in # <<>> /\ Head(usb_in).type = "PowerTransition" => ShuttingDown
    /\ keys_level = "Shutdown" => ShuttingDown

\* "for now, assume an initial connection": nobody ever changes it, which is
\* why UsbProfileShutsDown below does not hold.
AssumedConnected == usb_connected

\* The key task returns with the matrix off already, so that the drop handlers
\* change nothing, and System OFF is entered only when all tasks have returned.
OffAtLast ==
    /\ keys_level = "Shutdown" => ~key_matrix
    /\ keys_pc = "done" => keys_level = "Shutdown"
    /\ main_pc = "off" => AllDone

IInv == TypeOK /\ StopsAreShutdown /\ OnlyShutdownStops /\ AssumedConnected
            /\ OffAtLast /\ PipelineIntact

(***************************************************************************)
(* Once begun, the shutdown reaches every task and both radios, also when  *)
(* it then hangs: no task that still sends or writes a report keeps the    *)
(* dispatcher, which receives nothing any more, from telling the others.   *)
(* A task has been told when the message waits for it or it has taken it.  *)
(***************************************************************************)
EveryTaskTold ==
    /\ keys_in # <<>> \/ keys_pc \in {"sendDone", "done"}
    /\ mode_switch_stop # <<>> \/ switch_pc = "done"
    /\ power_supply_stop # <<>> \/ supply_pc = "done"
    /\ (usb_in # <<>> /\ Head(usb_in).type = "PowerTransition") \/ usb_pc = "done"
    /\ bluetooth_in # <<>> /\ unifying_in # <<>>
ShutdownTellsAll == ShuttingDown ~> disp_pc = "done" /\ EveryTaskTold

(***************************************************************************)
(* A shutdown, once begun, ends in System OFF, provided no change of the   *)
(* keys is on its way to the dispatcher by then and every write to USB     *)
(* ends (Fairness): no order of the stop messages, a report still being    *)
(* written, a position or a state that nobody takes any more keeps a task  *)
(* from returning.                                                         *)
(***************************************************************************)
KeysQuiet ==
    /\ keys_pc # "sendKeys"
    /\ keys_out # <<>> => Head(keys_out).type # "KeysChanged"
QuietShutdown == [](ShuttingDown => KeysQuiet)
QuietShutdownFinishes == QuietShutdown => (ShuttingDown ~> main_pc = "off")

(***************************************************************************)
(* A battery that is low switches the keyboard off, unless the user keeps  *)
(* typing faster than USB takes the reports (UserPause of Dispatcher) or   *)
(* changes a key during the shutdown, or a write to USB never ends.        *)
(***************************************************************************)
LowBatteryOff ==
    QuietShutdown /\ []<>(D!UserPause \/ main_pc = "off")
        => (supply_state.mode = "Low" ~> main_pc = "off")

(***************************************************************************)
(* "Test whether the device is shut down when the USB profile is selected  *)
(* but USB is not connected" (dispatcher.rs, a test that is still to be    *)
(* written): the dispatcher does not wait for the next event in that       *)
(* profile when the last state it was sent has no USB connection.          *)
(***************************************************************************)
UsbProfileShutsDown ==
    disp_pc = "select" /\ switch_pos = "OffUsb"
        /\ supply_pc = "wait" /\ power_supply_out = <<>>
    => supply_state.usb_connected

\* A key changed during the shutdown: the event before it is still in keys_out
\* and nobody takes it any more.
Hung == ShuttingDown /\ keys_pc = "sendKeys" /\ keys_out # <<>>

(***************************************************************************)
(* "We want everything to finish that is instructed by the dispatcher to   *)
(* finish" (main.rs): a shutdown, once begun, ends in System OFF.          *)
(***************************************************************************)
ShutdownFinishes == ShuttingDown ~> main_pc = "off"
=============================================================================
