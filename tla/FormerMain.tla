----------------------------- MODULE FormerMain -----------------------------
(***************************************************************************)
(* The life of the former firmware: run_keyboard and main_loop of          *)
(* main/src/main.cpp in the main thread, the power supply cycle            *)
(* (power_supply.cpp) and the debouncing of the mode switch                *)
(* (mode_switch.cpp) as work items of Zephyr's system workqueue, the       *)
(* interrupts of the switch, and the destructors that take it all down     *)
(* before System OFF or a reboot.                                          *)
(*                                                                         *)
(* The workqueue thread is cooperative and of higher priority: it runs an  *)
(* item at once and to its end, between any two steps of main, except that *)
(* it blocks while the ADC converts.  A timer expires at any time, but not *)
(* before the listeners are registered: the start-up takes milliseconds,   *)
(* the shortest delay (DEBOUNCE_INTERVAL) is 200 ms.                       *)
(***************************************************************************)
EXTENDS Naturals

CONSTANT Samples    \* the pairs of battery voltages that can be measured, in mV

ASSUME SamplesAssumption == Samples \subseteq Nat \X Nat

CHARGE_END_VOLTAGE == 1380
DISCHARGED_VOLTAGE == 1100

Items == {"charging_ended", "recovery_ended", "callback", "set_callback"}

VARIABLES
    pc,             \* what the main thread does next
    action,         \* the PowerAction run_keyboard returns; "none" before
    keyboard,       \* the mode of main_loop; "none" before
    main_loop_event,    \* the binary semaphore
    mode, usb_was_connected,    \* PowerSupply: its atomic, and its memory
    change_callback,    \* are the callbacks of supply and switch set?
    stop,
    usb_connected,  \* local variable of on_recovery_ended
    measuring,      \* does the workqueue thread wait for the ADC?
    delayed,        \* the work items whose timer runs
    queued,         \* the work items in the queue; their order is left open
    outputs,        \* the outputs that are on: "charge", "low", "high"
    interrupts,     \* are the interrupts of the switch enabled?
    position,       \* local variable of ~ModeSwitch
    sense,          \* the level of each switch line that ends System OFF
    cable,          \* environment: is USB connected?
    lines           \* environment: the switch lines that are active

main == <<pc, action, keyboard>>
supply == <<mode, usb_was_connected, usb_connected, measuring, outputs>>
work == <<delayed, queued>>
environment == <<cable, lines>>
switch == <<interrupts, position, sense>>
vars == <<main, main_loop_event, supply, change_callback, stop, work, switch, environment>>

\* ModeSwitch::get_position and get_mode; no position selects Unifying.
Position == IF "sw0" \in lines THEN 1 ELSE IF "sw1" \in lines THEN 2 ELSE 0
SelectedMode == IF Position = 0 THEN "OFF_USB" ELSE "BLUETOOTH"

NoSense == [line \in {"sw0", "sw1"} |-> "none"]

Init ==
    /\ pc = "new" /\ action = "none" /\ keyboard = "none"
    /\ main_loop_event = FALSE
    /\ mode = "NORMAL" /\ usb_was_connected = FALSE
    /\ change_callback = FALSE /\ stop = FALSE
    /\ usb_connected = FALSE /\ measuring = FALSE
    /\ delayed = {} /\ queued = {}
    /\ outputs = {}
    /\ interrupts = FALSE /\ position = 0
    /\ sense = NoSense
    /\ cable \in BOOLEAN
    /\ lines \in SUBSET {"sw0", "sw1"}

----------------------------------------------------------------------------
\* k_work_schedule: an item that is scheduled or queued is left alone.
Pending(item) == item \in delayed \cup queued
Schedule(item) == delayed' = IF Pending(item) THEN delayed ELSE delayed \cup {item}

\* k_work_cancel_delayable_sync, once the item is not running.
Cancel(items) == delayed' = delayed \ items /\ queued' = queued \ items

\* The outputs that on_recovery_ended switches on.
Charge(v) == IF v[1] < CHARGE_END_VOLTAGE /\ v[2] < CHARGE_END_VOLTAGE THEN {"charge"} ELSE {}
Balance(v) == IF v[2] > v[1] + 20 THEN {"high"}
              ELSE IF v[1] > v[2] + 20 THEN {"low"} ELSE {}

NewMode(v) ==
    IF usb_connected
    THEN IF Charge(v) \cup Balance(v) # {} THEN "CHARGING" ELSE "NORMAL"
    ELSE IF v[1] < DISCHARGED_VOLTAGE \/ v[2] < DISCHARGED_VOLTAGE THEN "LOW" ELSE "NORMAL"

\* Mutant: the callback is only called when USB changed.
ChangedUsb(new) == usb_was_connected # usb_connected

Changed(new) == mode # new \/ usb_was_connected # usb_connected

\* on_recovery_ended, from the end of the measurement on.
Measured(v) ==
    /\ outputs' = IF ~usb_connected THEN outputs
                  ELSE (IF Balance(v) = {} THEN outputs ELSE outputs \ {"low", "high"})
                       \cup Charge(v) \cup Balance(v)
    /\ mode' = NewMode(v)
    /\ usb_was_connected' = usb_connected
    /\ main_loop_event' = (main_loop_event \/ (change_callback /\ Changed(NewMode(v))))
    /\ Schedule("charging_ended")

----------------------------------------------------------------------------
\* The environment: the cable, and the lines, which also bounce.
Cable ==
    /\ cable' = ~cable
    /\ UNCHANGED <<main, main_loop_event, supply, change_callback, stop, work, switch, lines>>

\* sw0_gpio_callback and sw1_gpio_callback: debounce.
gpio_callback == Schedule("callback")

\* Mutant: the interrupt of the first line is configured twice.
InterruptsFirst(line) == line = "sw0" /\ line \notin lines

\* GPIO_INT_EDGE_TO_ACTIVE for the first line, GPIO_INT_EDGE_BOTH for the second.
Interrupts(line) == line = "sw0" => line \notin lines

Line(line) ==
    /\ lines' = (lines \ {line}) \cup ({line} \ lines)
    /\ IF interrupts /\ Interrupts(line) THEN gpio_callback ELSE UNCHANGED delayed
    /\ UNCHANGED <<main, main_loop_event, supply, change_callback, stop, queued, switch, cable>>

Expire(item) ==
    /\ change_callback
    /\ item \in delayed
    /\ delayed' = delayed \ {item}
    /\ queued' = queued \cup {item}
    /\ UNCHANGED <<main, main_loop_event, supply, change_callback, stop, switch, environment>>

----------------------------------------------------------------------------
\* The workqueue thread takes an item from its queue.
Take(item) ==
    /\ ~measuring
    /\ item \in queued
    /\ queued' = queued \ {item}
    /\ UNCHANGED <<main, switch, environment>>

\* Mutant: the recovery starts, but the batteries are still being balanced.
on_charging_ended_balancing ==
    /\ Take("charging_ended")
    /\ IF stop THEN UNCHANGED <<outputs, delayed>>
       ELSE outputs' = outputs \ {"charge"} /\ Schedule("recovery_ended")
    /\ UNCHANGED <<main_loop_event, mode, usb_was_connected, usb_connected, measuring,
                   change_callback, stop>>

on_charging_ended ==
    /\ Take("charging_ended")
    /\ IF stop THEN UNCHANGED <<outputs, delayed>>
       ELSE outputs' = {} /\ Schedule("recovery_ended")
    /\ UNCHANGED <<main_loop_event, mode, usb_was_connected, usb_connected, measuring,
                   change_callback, stop>>

\* on_recovery_ended up to the measurement, and from there on.
on_recovery_ended ==
    /\ Take("recovery_ended")
    /\ IF stop THEN UNCHANGED <<usb_connected, measuring>>
       ELSE usb_connected' = cable /\ measuring' = TRUE
    /\ UNCHANGED <<main_loop_event, mode, usb_was_connected, outputs, delayed,
                   change_callback, stop>>

measure_battery_voltage ==
    /\ measuring
    /\ measuring' = FALSE
    /\ \E v \in Samples : Measured(v)
    /\ UNCHANGED <<main, usb_connected, change_callback, stop, queued, switch, environment>>

\* power_supply_mode_switch_handler, called for the mode switch.
static_on_callback ==
    /\ Take("callback")
    /\ main_loop_event' = TRUE
    /\ UNCHANGED <<supply, change_callback, stop, delayed>>

\* The callback of the supply; main goes on and sets that of the switch.
static_set_callback_work ==
    /\ Take("set_callback")
    /\ change_callback' = TRUE
    /\ UNCHANGED <<main_loop_event, supply, stop, delayed>>

workqueue ==
    \/ on_charging_ended \/ on_recovery_ended \/ measure_battery_voltage
    \/ static_on_callback \/ static_set_callback_work

----------------------------------------------------------------------------
\* The main thread.  A step changes main, and what it names.
Goto(next) == pc' = next /\ UNCHANGED <<action, keyboard>>
Leave(a) == pc' = "read_position" /\ action' = a /\ UNCHANGED keyboard
MainOnly == UNCHANGED <<main_loop_event, supply, change_callback, stop, work, switch, environment>>

\* The constructor of the power supply determines its state itself; the mode
\* switch follows.
NewPowerSupply ==
    /\ pc = "new"
    /\ usb_connected' = cable
    /\ Goto("measure")
    /\ UNCHANGED <<main_loop_event, mode, usb_was_connected, measuring, outputs,
                   change_callback, stop, work, switch, environment>>

NewModeSwitch ==
    /\ pc = "measure"
    /\ \E v \in Samples : Measured(v)
    /\ interrupts' = TRUE
    /\ Goto("low")
    /\ UNCHANGED <<usb_connected, measuring, change_callback, stop, queued,
                   position, sense, environment>>

\* want_shutdown, at the start and for each event: three reads.
NoShutdown == Goto(IF keyboard = "none" THEN "set_callback" ELSE "mode")

WantsLow ==
    /\ pc = "low"
    /\ IF mode = "LOW" THEN Leave("SHUTDOWN") ELSE Goto("usb")
    /\ MainOnly
WantsUsb ==
    /\ pc = "usb"
    /\ IF cable THEN NoShutdown ELSE Goto("position")
    /\ MainOnly
WantsPosition ==
    /\ pc = "position"
    /\ IF SelectedMode = "OFF_USB" THEN Leave("SHUTDOWN") ELSE NoShutdown
    /\ MainOnly

want_shutdown == WantsLow \/ WantsUsb \/ WantsPosition

set_callback ==
    /\ pc = "set_callback"
    /\ queued' = queued \cup {"set_callback"}
    /\ Goto("select")
    /\ UNCHANGED <<main_loop_event, supply, change_callback, stop, delayed, switch, environment>>

\* The keyboard is selected by up to three reads of the switch; if the last
\* one disagrees with the first, InvalidState is thrown, which main catches.
Enter(m) == pc' = "take" /\ keyboard' = m /\ UNCHANGED action

SelectUsb ==
    /\ pc = "select" /\ change_callback
    /\ IF SelectedMode = "OFF_USB" THEN Enter("OFF_USB") ELSE Goto("select_bluetooth")
    /\ MainOnly
SelectBluetooth ==
    /\ pc = "select_bluetooth"
    /\ IF SelectedMode = "BLUETOOTH" THEN Enter("BLUETOOTH") ELSE Leave("REBOOT")
    /\ MainOnly

\* main_loop.  The profile has no effect on either keyboard.
TakeEvent ==
    /\ pc = "take" /\ main_loop_event
    /\ main_loop_event' = FALSE
    /\ Goto("low")
    /\ UNCHANGED <<supply, change_callback, stop, work, switch, environment>>
CompareMode ==
    /\ pc = "mode"
    /\ IF SelectedMode # keyboard THEN Leave("REBOOT") ELSE Goto("take")
    /\ MainOnly

run_keyboard ==
    \/ NewPowerSupply \/ NewModeSwitch \/ want_shutdown \/ set_callback
    \/ SelectUsb \/ SelectBluetooth \/ TakeEvent \/ CompareMode

----------------------------------------------------------------------------
\* The destructors.

\* ~ModeSwitch
ReadPosition ==
    /\ pc = "read_position"
    /\ position' = Position
    /\ Goto("disable")
    /\ UNCHANGED <<main_loop_event, supply, change_callback, stop, work,
                   interrupts, sense, environment>>
DisableInterrupts ==
    /\ pc = "disable"
    /\ interrupts' = FALSE
    /\ Goto("cancel_callback")
    /\ UNCHANGED <<main_loop_event, supply, change_callback, stop, work,
                   position, sense, environment>>

SenseLevels(p) == [ sw0 |-> IF p = 1 THEN "low" ELSE "high",
                    sw1 |-> IF p = 2 THEN "low" ELSE "high" ]

CancelCallback ==
    /\ pc = "cancel_callback"
    /\ Cancel({"callback"})
    /\ sense' = SenseLevels(position)
    /\ Goto("stop")
    /\ UNCHANGED <<main_loop_event, supply, change_callback, stop,
                   interrupts, position, environment>>

\* ~PowerSupply: an item that runs may schedule the other one, so that both are
\* cancelled until none is pending.
Stop ==
    /\ pc = "stop"
    /\ stop' = TRUE
    /\ Goto("cancel_charging")
    /\ UNCHANGED <<main_loop_event, supply, change_callback, work, switch, environment>>
CancelCharging ==
    /\ pc = "cancel_charging"
    /\ Cancel({"charging_ended"})
    /\ Goto("cancel_recovery")
    /\ UNCHANGED <<main_loop_event, supply, change_callback, stop, switch, environment>>
CancelRecovery ==
    /\ pc = "cancel_recovery"
    /\ ~measuring
    /\ Cancel({"recovery_ended"})
    /\ Goto("pending")
    /\ UNCHANGED <<main_loop_event, supply, change_callback, stop, switch, environment>>

\* Mutant: the items are cancelled once.
CheckPendingOnce == pc = "pending" /\ Goto("outputs") /\ MainOnly

CheckPending ==
    /\ pc = "pending"
    /\ Goto(IF Pending("charging_ended") \/ Pending("recovery_ended")
            THEN "cancel_charging" ELSE "outputs")
    /\ MainOnly

\* The outputs are switched off, here and in ~PowerSupplyPins; main follows.
OutputsOff ==
    /\ pc = "outputs"
    /\ outputs' = {}
    /\ Goto(IF action = "REBOOT" THEN "reboot" ELSE "off")
    /\ UNCHANGED <<main_loop_event, mode, usb_was_connected, usb_connected, measuring,
                   change_callback, stop, work, switch, environment>>

destructors ==
    \/ ReadPosition \/ DisableInterrupts \/ CancelCallback
    \/ Stop \/ CancelCharging \/ CancelRecovery \/ CheckPending \/ OutputsOff

\* sys_reboot, or a switch line at the level that ends System OFF: everything
\* but the environment is as in Init.
Senses == \E line \in {"sw0", "sw1"} :
              sense[line] = IF line \in lines THEN "high" ELSE "low"

Restart ==
    /\ pc = "reboot" \/ (pc = "off" /\ Senses)
    /\ pc' = "new" /\ action' = "none" /\ keyboard' = "none"
    /\ main_loop_event' = FALSE
    /\ mode' = "NORMAL" /\ usb_was_connected' = FALSE
    /\ change_callback' = FALSE /\ stop' = FALSE
    /\ usb_connected' = FALSE /\ measuring' = FALSE
    /\ delayed' = {} /\ queued' = {}
    /\ outputs' = {}
    /\ interrupts' = FALSE /\ position' = 0
    /\ sense' = NoSense
    /\ UNCHANGED environment

main_thread == run_keyboard \/ destructors \/ Restart

Next ==
    \/ main_thread \/ workqueue
    \/ Cable \/ \E line \in {"sw0", "sw1"} : Line(line)
    \/ \E item \in Items : Expire(item)
Spec == Init /\ [][Next]_vars

\* Threads run and timers expire.  The queue is first in, first out: an item
\* is not overtaken for ever by the measurements.  The pins notice a level that
\* ends System OFF however short it is.
Fairness ==
    /\ WF_vars(main_thread) /\ SF_vars(Restart)
    /\ WF_vars(workqueue) /\ SF_vars(static_on_callback)
    /\ \A item \in Items : WF_vars(Expire(item))
FairSpec == Spec /\ Fairness

----------------------------------------------------------------------------
TypeOK ==
    /\ pc \in {"new", "measure", "low", "usb", "position", "set_callback", "select",
               "select_bluetooth", "take", "mode", "read_position", "disable",
               "cancel_callback", "stop", "cancel_charging", "cancel_recovery",
               "pending", "outputs", "off", "reboot"}
    /\ action \in {"none", "SHUTDOWN", "REBOOT"}
    /\ keyboard \in {"none", "OFF_USB", "BLUETOOTH"}
    /\ mode \in {"NORMAL", "CHARGING", "LOW"}
    /\ \A flag \in {main_loop_event, usb_was_connected, change_callback, stop,
                    usb_connected, measuring, interrupts, cable} : flag \in BOOLEAN
    /\ delayed \subseteq Items /\ queued \subseteq Items
    /\ outputs \subseteq {"charge", "low", "high"}
    /\ position \in 0..2
    /\ sense \in [{"sw0", "sw1"} -> {"none", "high", "low"}]
    /\ lines \subseteq {"sw0", "sw1"}

(***************************************************************************)
(* "Make sure that the voltage is never measured while we are either       *)
(* charging or discharging the batteries." (power_supply.cpp, tests)       *)
(***************************************************************************)
MeasuredAtRest == (measuring \/ pc = "measure") => outputs = {}

(***************************************************************************)
(* Once the destructors have run, no work item refers to the objects that  *)
(* are gone, and the batteries are neither charged nor balanced, whatever  *)
(* the workqueue was doing when the destruction began; and System OFF ends *)
(* exactly when the lines are not those of the position that was read.     *)
(***************************************************************************)
AtRest == ~measuring /\ delayed = {} /\ queued = {} /\ outputs = {} /\ ~interrupts
Moved == lines # {line \in {"sw0", "sw1"} : position = IF line = "sw0" THEN 1 ELSE 2}

DownAtRest ==
    /\ pc \in {"off", "reboot"} => AtRest
    /\ pc = "off" => (Senses <=> Moved)

\* What makes these two inductive.  The two items of the supply alternate, and
\* the outputs are off from the end of the charging on.
Recovering == measuring \/ Pending("recovery_ended")
Cycle ==
    /\ delayed \cap queued = {}
    /\ "set_callback" \notin delayed
    /\ measuring => ~Pending("recovery_ended")
    /\ Recovering => ~Pending("charging_ended") /\ outputs = {}

\* The listeners are set once, by the item that main waits for.
Listening ==
    /\ pc \in {"new", "measure"} => AtRest
    /\ pc \in {"new", "measure", "set_callback"} => keyboard = "none"
    /\ pc \in {"new", "measure", "low", "usb", "position", "set_callback"} =>
           (change_callback <=> keyboard # "none")
    /\ pc \in {"take", "mode"} => keyboard # "none"
    /\ pc \in {"take", "mode", "select_bluetooth"} => change_callback
    /\ pc \in {"select", "select_bluetooth"} => keyboard = "none"
    /\ "set_callback" \in queued => pc = "select" /\ ~change_callback

\* What each destructor leaves to the next one.
AfterSupply == {"outputs", "off", "reboot"}
AfterRecovery == AfterSupply \cup {"pending"}
AfterStop == AfterRecovery \cup {"cancel_charging", "cancel_recovery"}
AfterSwitch == AfterStop \cup {"stop"}
AfterInterrupts == AfterSwitch \cup {"cancel_callback"}
Destroyed ==
    /\ pc \in AfterInterrupts => ~interrupts
    /\ pc \in AfterSwitch => ~Pending("callback") /\ sense = SenseLevels(position)
    /\ pc \in AfterStop => stop
    /\ pc \in AfterRecovery => ~Recovering
    /\ pc \in AfterSupply => ~Pending("charging_ended")
    /\ pc \in {"off", "reboot"} => outputs = {}

IInv == TypeOK /\ Cycle /\ Listening /\ Destroyed

(***************************************************************************)
(* A battery that stays low switches the keyboard off, although the events *)
(* of supply and switch are merged in one semaphore.                       *)
(***************************************************************************)
LowSwitchesOff == mode = "LOW" ~> (pc = "off" \/ mode # "LOW")

(***************************************************************************)
(* A switch that rests in a wireless position ends up in a wireless        *)
(* keyboard, through interrupts, debouncing, reboots, and System OFF.      *)
(* Only a battery that is low, or a switch that is moved after the         *)
(* shutdown was decided and before ~ModeSwitch looks, prevents it.         *)
(***************************************************************************)
SwitchActedOn ==
    <>[](Position # 0 /\ mode # "LOW") =>
        <>[](\/ keyboard = "BLUETOOTH" /\ action = "none"
             \/ pc = "off" /\ position = Position)
=============================================================================
