----------------------------- MODULE PowerSupply -----------------------------
(***************************************************************************)
(* The power supply: PowerSupply::new and run of                           *)
(* keyboard/src/power_supply.rs over the pins of app/src/power.rs.  Two    *)
(* functions run concurrently, one follows the USB cable and one charges;  *)
(* they share the state behind a mutex and both send it.  The cable is     *)
(* plugged and unplugged at any time, and every measurement may read any   *)
(* of the ADC codes of Samples.  The task implements SupplyTask.           *)
(***************************************************************************)
EXTENDS Channel, Charging

CONSTANT Samples    \* the pairs of ADC codes a measurement may read

ASSUME PowerSupplyAssumption == Samples \subseteq AdcCode \X AdcCode

VARIABLES
    usb,                \* is 5 V present at the connector? (environment)
    current_value,      \* UsbVoltage::current_value, not inverted
    triggered,          \* wait_for_change's pin has fired
    run_pc,             \* "measure", "send": in PowerSupply::new; "run"; "done"
    usb_pc,             \* usb_connection_function: "wait", "lock", "send"
    charging_pc,        \* charging_function: "charge" and "recover": in
                        \* sleep.after; "lock", "measure", "send"
    mutex,              \* "free", or the function that holds the state
    state,              \* PowerSupply::state
    charge,             \* Battery::charge is high
    discharge,          \* the batteries a balancing resistor is on for
    power_supply_stop, power_supply_out,    \* see SupplyTask
    delivered           \* history: the states sent last, a sequence of at
                        \* most one

pins == <<charge, discharge>>
cable == <<usb, current_value, triggered>>
channels == <<power_supply_stop, power_supply_out>>
vars == <<cable, run_pc, usb_pc, charging_pc, mutex, state, pins, channels,
          delivered>>

Init ==
    /\ usb \in BOOLEAN
    /\ current_value = usb
    /\ triggered = FALSE
    /\ run_pc = "measure"
    /\ usb_pc = "wait"
    /\ charging_pc = "charge"
    /\ mutex = "free"
    /\ state = [mode |-> "Normal", usb_connected |-> FALSE]
    /\ charge = FALSE
    /\ discharge = {}
    /\ power_supply_stop = <<>>
    /\ power_supply_out = <<>>
    /\ delivered = <<>>

\* The cable is plugged in or pulled; a function waiting for it wakes up.
Cable ==
    /\ usb' = ~usb
    /\ triggered' = (triggered \/ (run_pc = "run" /\ usb_pc = "wait"
                                   /\ usb' # current_value))
    /\ UNCHANGED <<current_value, run_pc, usb_pc, charging_pc, mutex, state,
                   pins, channels, delivered>>

\* configure_charging once its measurement has read buf: switch on what the
\* voltages ask for (switching off is the caller's business) and return the
\* state.
ConfiguredState(usb_connected, buf) ==
    [mode |-> Mode(usb_connected, measure_battery_voltage(buf)),
     usb_connected |-> usb_connected]

configure_charging(usb_connected, buf) ==
    LET voltage == measure_battery_voltage(buf)
    IN  /\ charge' = (charge \/ Charge(usb_connected, voltage))
        /\ discharge' = IF Discharge(usb_connected, voltage) # {}
                        THEN Discharge(usb_connected, voltage) ELSE discharge

Deliver(s) ==
    /\ Send(power_supply_out, s)
    /\ delivered' = <<s>>

----------------------------------------------------------------------------
\* PowerSupply::new: the cable was read before the measurement.
NewMeasure(buf) ==
    /\ run_pc = "measure"
    /\ configure_charging(current_value, buf)
    /\ state' = ConfiguredState(current_value, buf)
    /\ run_pc' = "send"
    /\ UNCHANGED <<cable, usb_pc, charging_pc, mutex, channels, delivered>>

\* The first state is sent, and run enters wait_for_change.
NewSend ==
    /\ run_pc = "send"
    /\ Deliver(state)
    /\ run_pc' = "run"
    /\ triggered' = (usb # current_value)
    /\ UNCHANGED <<usb, current_value, usb_pc, charging_pc, mutex, state, pins,
                   power_supply_stop>>

\* usb_connection_function: wait_for_change returns with the cached value
\* inverted.
UsbChanged ==
    /\ run_pc = "run" /\ usb_pc = "wait"
    /\ triggered
    /\ triggered' = FALSE
    /\ current_value' = ~current_value
    /\ usb_pc' = "lock"
    /\ UNCHANGED <<usb, run_pc, charging_pc, mutex, state, pins, channels, delivered>>

\* Mutant: the USB function updates the state without the lock.
UsbLockUnlocked ==
    /\ run_pc = "run" /\ usb_pc = "lock"
    /\ current_value' = usb
    /\ state' = [state EXCEPT !.usb_connected = usb]
    /\ usb_pc' = IF state' # state THEN "send" ELSE "wait"
    /\ UNCHANGED <<usb, triggered, run_pc, charging_pc, mutex, pins, channels, delivered>>

\* Mutant: the lock ends with the update, before the event is sent.
UsbLockShort ==
    /\ run_pc = "run" /\ usb_pc = "lock"
    /\ mutex = "free"
    /\ current_value' = usb
    /\ state' = [state EXCEPT !.usb_connected = usb]
    /\ usb_pc' = IF state' # state THEN "send" ELSE "wait"
    /\ UNCHANGED <<usb, triggered, run_pc, charging_pc, mutex, pins, channels, delivered>>

\* It locks the state and updates it; the lock is kept while an event is sent.
UsbLock ==
    /\ run_pc = "run" /\ usb_pc = "lock"
    /\ mutex = "free"
    /\ current_value' = usb
    /\ state' = [state EXCEPT !.usb_connected = usb]
    /\ \/ /\ state' # state
          /\ mutex' = "usb"
          /\ usb_pc' = "send"
       \/ /\ state' = state
          /\ mutex' = mutex
          /\ usb_pc' = "wait"
    /\ UNCHANGED <<usb, triggered, run_pc, charging_pc, pins, channels, delivered>>

\* Mutant: after a report, wait for an edge instead of a level.
UsbSendForgets ==
    /\ run_pc = "run" /\ usb_pc = "send"
    /\ Deliver(state)
    /\ mutex' = "free"
    /\ usb_pc' = "wait"
    /\ triggered' = FALSE
    /\ UNCHANGED <<usb, current_value, run_pc, charging_pc, state, pins, power_supply_stop>>

\* Mutant: try_send instead of send.
UsbSendTry ==
    /\ run_pc = "run" /\ usb_pc = "send"
    /\ \/ Deliver(state)
       \/ power_supply_out # <<>> /\ UNCHANGED <<power_supply_out, delivered>>
    /\ mutex' = "free"
    /\ usb_pc' = "wait"
    /\ triggered' = (usb # current_value)
    /\ UNCHANGED <<usb, current_value, run_pc, charging_pc, state, pins, power_supply_stop>>

UsbSend ==
    /\ run_pc = "run" /\ usb_pc = "send"
    /\ Deliver(state)
    /\ mutex' = "free"
    /\ usb_pc' = "wait"
    /\ triggered' = (usb # current_value)
    /\ UNCHANGED <<usb, current_value, run_pc, charging_pc, state, pins, power_supply_stop>>

\* Mutant: charging goes on during the recovery.
ChargingEndsCharging ==
    /\ run_pc = "run" /\ charging_pc = "charge"
    /\ discharge' = {}
    /\ charging_pc' = "recover"
    /\ UNCHANGED <<cable, run_pc, usb_pc, mutex, state, charge, channels, delivered>>

\* charging_function: CHARGING_PERIOD is over; switch everything off.
ChargingEnds ==
    /\ run_pc = "run" /\ charging_pc = "charge"
    /\ charge' = FALSE
    /\ discharge' = {}
    /\ charging_pc' = "recover"
    /\ UNCHANGED <<cable, run_pc, usb_pc, mutex, state, channels, delivered>>

\* RECOVERY_PERIOD is over.
RecoveryEnds ==
    /\ run_pc = "run" /\ charging_pc = "recover"
    /\ charging_pc' = "lock"
    /\ UNCHANGED <<cable, run_pc, usb_pc, mutex, state, pins, channels, delivered>>

\* The measurement starts once the state is locked.
ChargingLock ==
    /\ run_pc = "run" /\ charging_pc = "lock"
    /\ mutex = "free"
    /\ mutex' = "charging"
    /\ charging_pc' = "measure"
    /\ UNCHANGED <<cable, run_pc, usb_pc, state, pins, channels, delivered>>

ChargingMeasure(buf) ==
    /\ run_pc = "run" /\ charging_pc = "measure"
    /\ configure_charging(state.usb_connected, buf)
    /\ state' = ConfiguredState(state.usb_connected, buf)
    /\ \/ /\ state' # state
          /\ charging_pc' = "send"
          /\ mutex' = mutex
       \/ /\ state' = state
          /\ charging_pc' = "charge"
          /\ mutex' = "free"
    /\ UNCHANGED <<cable, run_pc, usb_pc, channels, delivered>>

ChargingSend ==
    /\ run_pc = "run" /\ charging_pc = "send"
    /\ Deliver(state)
    /\ mutex' = "free"
    /\ charging_pc' = "charge"
    /\ UNCHANGED <<cable, run_pc, usb_pc, state, pins, power_supply_stop>>

\* stop.receive() wins the select: both functions are dropped where they
\* wait, and their lock with them.  The pins keep their levels until the
\* Battery is dropped.
Stop ==
    /\ run_pc = "run"
    /\ Receive(power_supply_stop)
    /\ run_pc' = "done"
    /\ mutex' = "free"
    /\ UNCHANGED <<cable, usb_pc, charging_pc, state, pins, power_supply_out, delivered>>

\* Drop for Battery, when run_main leaves the block that owns the task: after
\* the join of all tasks, which may never come (Firmware).
Drop ==
    /\ run_pc = "done"
    /\ charge' = FALSE
    /\ discharge' = {}
    /\ run_pc' = "dropped"
    /\ UNCHANGED <<cable, usb_pc, charging_pc, mutex, state, channels, delivered>>

new == (\E buf \in Samples : NewMeasure(buf)) \/ NewSend
usb_connection_function == UsbChanged \/ UsbLock \/ UsbSend
charging_function ==
    \/ ChargingEnds \/ RecoveryEnds \/ ChargingLock
    \/ \E buf \in Samples : ChargingMeasure(buf)
    \/ ChargingSend

RequestStop ==
    /\ Send(power_supply_stop, "stop")
    /\ UNCHANGED <<cable, run_pc, usb_pc, charging_pc, mutex, state, pins,
                   power_supply_out, delivered>>
Take ==
    /\ Receive(power_supply_out)
    /\ UNCHANGED <<cable, run_pc, usb_pc, charging_pc, mutex, state, pins,
                   power_supply_stop, delivered>>

Next == new \/ usb_connection_function \/ charging_function \/ Stop \/ Drop
            \/ Cable \/ RequestStop \/ Take
Spec == Init /\ [][Next]_vars

\* The dispatcher takes states until it shuts the tasks down.
TakeUntilStop ==
    /\ power_supply_stop = <<>> /\ run_pc \notin {"done", "dropped"}
    /\ Take

\* The executor keeps polling both functions and the timers expire; Stop and
\* the first state are not delayed for ever either.  The dispatcher keeps
\* taking states until it asks the task to stop, which it always comes to once
\* it has taken its last one (Firmware's ShutdownTellsAll).  The charging
\* function sleeps for 13 s between a release of the mutex and its next lock,
\* and the release wakes the waiting function: the USB function is not
\* overtaken for ever (strong fairness).  Nothing is assumed of Drop.
Fairness ==
    /\ SF_vars(UsbLock)
    /\ WF_vars(new) /\ WF_vars(usb_connection_function)
    /\ WF_vars(charging_function) /\ WF_vars(Stop)
    /\ WF_vars(TakeUntilStop)
FairSpec == Spec /\ Fairness

----------------------------------------------------------------------------

States == [mode : {"Normal", "Charging", "Low"}, usb_connected : BOOLEAN]

TypeOK ==
    /\ usb \in BOOLEAN /\ current_value \in BOOLEAN /\ triggered \in BOOLEAN
    /\ run_pc \in {"measure", "send", "run", "done", "dropped"}
    /\ usb_pc \in {"wait", "lock", "send"}
    /\ charging_pc \in {"charge", "recover", "lock", "measure", "send"}
    /\ mutex \in {"free", "usb", "charging"}
    /\ state \in States
    /\ charge \in BOOLEAN
    /\ discharge \in SUBSET {"low", "high"}
    /\ power_supply_stop \in Buffer({"stop"})
    /\ power_supply_out \in Buffer(States)
    /\ delivered \in Buffer(States)

\* Who is past its lock and has not released it.
UsbHolds == usb_pc = "send"
ChargingHolds == charging_pc \in {"measure", "send"}

\* The state is held by the one function that is between lock and release.
MutexOwned ==
    run_pc # "done" /\ run_pc # "dropped" =>
        /\ UsbHolds <=> mutex = "usb"
        /\ ChargingHolds <=> mutex = "charging"

(***************************************************************************)
(* Two functions change and send the state, and neither overtakes the      *)
(* other: whenever nobody holds the mutex, the state sent last is the      *)
(* current one, so that the dispatcher never keeps an outdated one.        *)
(***************************************************************************)
DeliveredInSync ==
    run_pc = "run" /\ (mutex = "free" \/ charging_pc = "measure")
        => delivered = <<state>>

(***************************************************************************)
(* A battery voltage is measured at rest: during a measurement nothing     *)
(* charges or discharges the batteries.                                    *)
(***************************************************************************)
MeasuringAtRest ==
    (run_pc = "measure" \/ (run_pc = "run" /\ charging_pc \in {"recover", "lock", "measure"}))
        => ~charge /\ discharge = {}

(***************************************************************************)
(* The hardware charges or balances only while the state says so; pulling  *)
(* the cable in the middle of a charging period does not make it lie.      *)
(***************************************************************************)
ChargingIsReported ==
    charge \/ discharge # {} => state.mode = "Charging"

(***************************************************************************)
(* No change of the cable is missed: while the USB function waits and its  *)
(* pin has not fired, the state has the cable as it is, whatever happened  *)
(* while the function waited for the mutex or for the channel.             *)
(***************************************************************************)
CableNotMissed ==
    run_pc = "run" /\ usb_pc = "wait" /\ ~triggered
        => state.usb_connected = usb

\* Neither function has taken a step before run.
NotStarted == run_pc \in {"measure", "send"} => usb_pc = "wait" /\ charging_pc = "charge"

(***************************************************************************)
(* Why no change is missed: while the USB function waits or reports, the   *)
(* state has the cable as the pin was last read, and unless the pin has    *)
(* fired, the cable is as it was read.                                     *)
(***************************************************************************)
CableFollowed ==
    /\ run_pc = "send" => state.usb_connected = current_value
    /\ run_pc = "run" /\ usb_pc \in {"wait", "send"}
           => state.usb_connected = current_value
CableLatched ==
    run_pc = "run" /\ usb_pc = "wait" /\ ~triggered => current_value = usb

\* The task does what SupplyTask promises the dispatcher.
SupplyPc ==
    CASE run_pc = "measure" -> "new"
      [] run_pc = "send" -> "send"
      [] run_pc \in {"done", "dropped"} -> "done"
      [] run_pc = "run" /\ (UsbHolds \/ charging_pc = "send") -> "send"
      [] OTHER -> "wait"
T == INSTANCE SupplyTask WITH
        supply_pc <- SupplyPc,
        supply_state <- state,
        first <- run_pc \in {"measure", "send"}
ImplementsSupplyTask == T!Spec

(***************************************************************************)
(* Pulling the cable ends charging and balancing, if not at once, as long  *)
(* as the task runs.  A task that is stopped leaves the pins as they are:  *)
(* what it had switched on stays on until the Battery is dropped, and for  *)
(* ever in a shutdown that hangs (Firmware's ShutdownFinishes).            *)
(***************************************************************************)
UnpluggedRests ==
    <>[]~usb => <>[](run_pc = "done" \/ (~charge /\ discharge = {}))

(***************************************************************************)
(* A cable that is left alone is reported: the last state delivered has it *)
(* right, unless the task is stopped.                                      *)
(***************************************************************************)
CableReported ==
    \A b \in BOOLEAN :
        <>[](usb = b) =>
            <>[](run_pc \in {"done", "dropped"} \/
                 (delivered # <<>> /\ delivered[1].usb_connected = b))

IInv == TypeOK /\ NotStarted /\ MutexOwned /\ DeliveredInSync /\ MeasuringAtRest
            /\ ChargingIsReported /\ CableFollowed /\ CableLatched
=============================================================================
