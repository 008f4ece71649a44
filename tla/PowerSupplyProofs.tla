------------------------- MODULE PowerSupplyProofs -------------------------
(***************************************************************************)
(* The two functions of the power supply never lose a state, miss the      *)
(* cable or charge during a measurement, for any set of ADC codes: the     *)
(* invariant IInv of PowerSupply is inductive.                             *)
(***************************************************************************)
EXTENDS PowerSupply, TLAPS

----------------------------------------------------------------------------
(***************************************************************************)
(* The conversion of ADC codes computes with 32-bit integers: for no pair  *)
(* of codes does a product wrap, and the voltages stay below one and two   *)
(* full scales, so that their difference fits an i32.                      *)
(***************************************************************************)
THEOREM SupplyMeasuredInRange ==
    ASSUME NEW buf \in AdcCode \X AdcCode
    PROVE  /\ buf[1] * 2 * FULL_SCALE < 65536 * 65536
           /\ measure_battery_voltage(buf).low \in 0..(FULL_SCALE - 1)
           /\ measure_battery_voltage(buf).high \in 0..(2 * FULL_SCALE - 1)
<1>. PICK high \in AdcCode, low \in AdcCode : buf[1] = high /\ buf[2] = low
    OBVIOUS
<1>1. (low * FULL_SCALE) \div 4096 \in 0..(FULL_SCALE - 1)
    BY SMTT(60) DEF AdcCode, FULL_SCALE
<1>2. (high * 2 * FULL_SCALE) \div 4096 \in 0..(2 * FULL_SCALE - 1)
    BY SMTT(60) DEF AdcCode, FULL_SCALE
<1>3. high * 2 * FULL_SCALE < 65536 * 65536
    BY DEF AdcCode, FULL_SCALE
<1>. DEFINE volt_low == (low * FULL_SCALE) \div 4096
            volt_total == (high * 2 * FULL_SCALE) \div 4096
<1>4. measure_battery_voltage(buf) =
          [low |-> volt_low,
           high |-> IF volt_total > volt_low THEN volt_total - volt_low ELSE 0]
    BY DEF measure_battery_voltage
<1>5. volt_low \in 0..(FULL_SCALE - 1) /\ volt_total \in 0..(2 * FULL_SCALE - 1)
    BY <1>1, <1>2
<1>. HIDE DEF volt_low, volt_total
<1>6. measure_battery_voltage(buf).low = volt_low
    BY <1>4
<1>7. measure_battery_voltage(buf).high \in 0..(2 * FULL_SCALE - 1)
    BY <1>4, <1>5 DEF FULL_SCALE
<1>. QED  BY <1>3, <1>5, <1>6, <1>7

\* A measurement results in a state of the right type that says "Charging"
\* whenever the hardware is told to charge or to balance.
LEMMA ConfiguredType ==
    ASSUME NEW usb_connected \in BOOLEAN, NEW buf
    PROVE  /\ ConfiguredState(usb_connected, buf) \in States
           /\ ConfiguredState(usb_connected, buf).usb_connected = usb_connected
           /\ Charge(usb_connected, measure_battery_voltage(buf)) \in BOOLEAN
           /\ Discharge(usb_connected, measure_battery_voltage(buf)) \in SUBSET {"low", "high"}
           /\ \/ Charge(usb_connected, measure_battery_voltage(buf))
              \/ Discharge(usb_connected, measure_battery_voltage(buf)) # {}
              => ConfiguredState(usb_connected, buf).mode = "Charging"
<1>. DEFINE voltage == measure_battery_voltage(buf)
<1>1. Mode(usb_connected, voltage) \in {"Normal", "Charging", "Low"}
    BY DEF Mode
<1>2. Charge(usb_connected, voltage) \in BOOLEAN
    BY DEF Charge, BelowChargeEnd
<1>3. Discharge(usb_connected, voltage) \in SUBSET {"low", "high"}
    BY DEF Discharge
<1>4. Charge(usb_connected, voltage) => usb_connected
    BY DEF Charge
<1>5. Discharge(usb_connected, voltage) # {} => usb_connected
    BY DEF Discharge
<1>6. Charge(usb_connected, voltage) \/ Discharge(usb_connected, voltage) # {}
        => Mode(usb_connected, voltage) = "Charging"
    BY <1>2, <1>4, <1>5 DEF Mode
<1>. QED  BY <1>1, <1>2, <1>3, <1>6 DEF ConfiguredState, States

\* What configure_charging does when nothing was charged before.
LEMMA ConfigureFromRest ==
    ASSUME NEW usb_connected \in BOOLEAN, NEW buf,
           ~charge, discharge = {},
           configure_charging(usb_connected, buf),
           state' = ConfiguredState(usb_connected, buf)
    PROVE  /\ charge' \in BOOLEAN /\ discharge' \in SUBSET {"low", "high"}
           /\ state' \in States /\ state'.usb_connected = usb_connected
           /\ ChargingIsReported'
BY ConfiguredType DEF configure_charging, ChargingIsReported

\* A completed send of a state.
LEMMA DeliverType ==
    ASSUME TypeOK, Deliver(state)
    PROVE  power_supply_out' \in Buffer(States) /\ delivered' = <<state>>
                /\ delivered' \in Buffer(States)
<1>1. /\ power_supply_out \in Buffer(States) /\ state \in States
      /\ Len(power_supply_out) < Capacity
      /\ power_supply_out' = Append(power_supply_out, state)
      /\ delivered' = <<state>>
    BY DEF TypeOK, Deliver, Send
<1>. QED  BY <1>1 DEF Buffer, Capacity

----------------------------------------------------------------------------
\* Before the constructor has read the pin and measured, the invariant holds.
THEOREM SupplyInitial == Init => IInv
<1>. SUFFICES ASSUME Init PROVE IInv
    OBVIOUS
<1>1. /\ power_supply_stop \in Buffer({"stop"})
      /\ power_supply_out \in Buffer(States)
      /\ delivered \in Buffer(States)
    BY DEF Init, Buffer, Capacity
<1>2. TypeOK
    BY <1>1 DEF Init, TypeOK, States
<1>. QED
    BY <1>2 DEF Init, IInv, MutexOwned, UsbHolds, ChargingHolds, DeliveredInSync,
        MeasuringAtRest, ChargingIsReported, CableFollowed, CableLatched, NotStarted

\* One step of the constructor.
LEMMA NewInductive == IInv /\ new => IInv'
<1>. SUFFICES ASSUME IInv, new PROVE IInv'
    OBVIOUS
<1>. USE DEF IInv
<1>1. ASSUME NEW buf \in Samples, NewMeasure(buf) PROVE IInv'
    <2>1. /\ charge' \in BOOLEAN /\ discharge' \in SUBSET {"low", "high"}
          /\ state' \in States /\ state'.usb_connected = current_value
          /\ ChargingIsReported'
        BY <1>1, ConfigureFromRest DEF NewMeasure, TypeOK, MeasuringAtRest
    <2>2. TypeOK'
        BY <1>1, <2>1 DEF NewMeasure, TypeOK, cable, channels
    <2>. QED
        BY <1>1, <2>1, <2>2 DEF NewMeasure, cable, channels, MutexOwned, UsbHolds,
            ChargingHolds, DeliveredInSync, MeasuringAtRest, CableFollowed, CableLatched, NotStarted
<1>2. CASE NewSend
    <2>1. TypeOK'
        BY <1>2, DeliverType DEF NewSend, TypeOK, pins
    <2>. QED
        BY <1>2, <2>1, DeliverType DEF NewSend, pins, MutexOwned, UsbHolds,
            ChargingHolds, DeliveredInSync, MeasuringAtRest, ChargingIsReported,
            CableFollowed, CableLatched, NotStarted, TypeOK
<1>. QED  BY <1>1, <1>2 DEF new

\* One step of the function that follows the cable.
LEMMA UsbInductive == IInv /\ usb_connection_function => IInv'
<1>. SUFFICES ASSUME IInv, usb_connection_function PROVE IInv'
    OBVIOUS
<1>. USE DEF IInv
<1>1. CASE UsbChanged
    <2>1. TypeOK'
        BY <1>1 DEF UsbChanged, TypeOK, pins, channels
    <2>. QED
        BY <1>1, <2>1 DEF UsbChanged, pins, channels, MutexOwned, UsbHolds,
            ChargingHolds, DeliveredInSync, MeasuringAtRest, ChargingIsReported,
            CableFollowed, CableLatched, NotStarted
<1>2. CASE UsbLock
    <2>1. state' \in States /\ state'.usb_connected = usb /\ state'.mode = state.mode
        BY <1>2 DEF UsbLock, TypeOK, States
    <2>2. TypeOK'
        BY <1>2, <2>1 DEF UsbLock, TypeOK, pins, channels
    <2>. QED
        BY <1>2, <2>1, <2>2 DEF UsbLock, pins, channels, MutexOwned, UsbHolds,
            ChargingHolds, DeliveredInSync, MeasuringAtRest, ChargingIsReported,
            CableFollowed, CableLatched, NotStarted
<1>3. CASE UsbSend
    <2>1. TypeOK'
        BY <1>3, DeliverType DEF UsbSend, TypeOK, pins
    <2>. QED
        BY <1>3, <2>1, DeliverType DEF UsbSend, pins, MutexOwned, UsbHolds,
            ChargingHolds, DeliveredInSync, MeasuringAtRest, ChargingIsReported,
            CableFollowed, CableLatched, NotStarted, TypeOK
<1>. QED  BY <1>1, <1>2, <1>3 DEF usb_connection_function

\* One step of the function that charges.
LEMMA ChargingInductive == IInv /\ charging_function => IInv'
<1>. SUFFICES ASSUME IInv, charging_function PROVE IInv'
    OBVIOUS
<1>. USE DEF IInv
<1>1. CASE ChargingEnds
    <2>1. TypeOK'
        BY <1>1 DEF ChargingEnds, TypeOK, cable, channels
    <2>. QED
        BY <1>1, <2>1 DEF ChargingEnds, cable, channels, MutexOwned, UsbHolds,
            ChargingHolds, DeliveredInSync, MeasuringAtRest, ChargingIsReported,
            CableFollowed, CableLatched, NotStarted
<1>2. CASE RecoveryEnds \/ ChargingLock
    <2>1. TypeOK'
        BY <1>2 DEF RecoveryEnds, ChargingLock, TypeOK, cable, pins, channels
    <2>. QED
        BY <1>2, <2>1 DEF RecoveryEnds, ChargingLock, cable, pins, channels,
            MutexOwned, UsbHolds, ChargingHolds, DeliveredInSync, MeasuringAtRest,
            ChargingIsReported, CableFollowed, CableLatched, NotStarted
<1>3. ASSUME NEW buf \in Samples, ChargingMeasure(buf) PROVE IInv'
    <2>1. /\ charge' \in BOOLEAN /\ discharge' \in SUBSET {"low", "high"}
          /\ state' \in States /\ state'.usb_connected = state.usb_connected
          /\ ChargingIsReported'
        <3>1. state.usb_connected \in BOOLEAN
            BY DEF TypeOK, States
        <3>. QED
            BY <1>3, <3>1, ConfigureFromRest DEF ChargingMeasure, MeasuringAtRest
    <2>2. TypeOK'
        BY <1>3, <2>1 DEF ChargingMeasure, TypeOK, cable, channels
    <2>. QED
        BY <1>3, <2>1, <2>2 DEF ChargingMeasure, cable, channels, MutexOwned,
            UsbHolds, ChargingHolds, DeliveredInSync, MeasuringAtRest,
            CableFollowed, CableLatched, NotStarted
<1>4. CASE ChargingSend
    <2>1. TypeOK'
        BY <1>4, DeliverType DEF ChargingSend, TypeOK, cable, pins
    <2>. QED
        BY <1>4, <2>1, DeliverType DEF ChargingSend, cable, pins, MutexOwned,
            UsbHolds, ChargingHolds, DeliveredInSync, MeasuringAtRest,
            ChargingIsReported, CableFollowed, CableLatched, NotStarted
<1>. QED  BY <1>1, <1>2, <1>3, <1>4 DEF charging_function

\* The end of the task: stop, and the drop handler of the battery.
LEMMA EndInductive == IInv /\ (Stop \/ Drop) => IInv'
<1>. SUFFICES ASSUME IInv, Stop \/ Drop PROVE IInv'
    OBVIOUS
<1>. USE DEF IInv
<1>1. CASE Stop
    <2>1. power_supply_stop' \in Buffer({"stop"})
        <3>1. power_supply_stop \in Buffer({"stop"})
            BY DEF TypeOK
        <3>. QED  BY <1>1, <3>1 DEF Stop, Receive, Buffer, Capacity
    <2>2. TypeOK'
        BY <1>1, <2>1 DEF Stop, TypeOK, cable, pins
    <2>. QED
        BY <1>1, <2>2 DEF Stop, cable, pins, MutexOwned, UsbHolds, ChargingHolds,
            DeliveredInSync, MeasuringAtRest, ChargingIsReported,
            CableFollowed, CableLatched, NotStarted
<1>2. CASE Drop
    <2>1. TypeOK'
        BY <1>2 DEF Drop, TypeOK, cable, channels
    <2>. QED
        BY <1>2, <2>1 DEF Drop, cable, channels, MutexOwned, UsbHolds, ChargingHolds,
            DeliveredInSync, MeasuringAtRest, ChargingIsReported,
            CableFollowed, CableLatched, NotStarted
<1>. QED  BY <1>1, <1>2

\* The cable and the dispatcher.
LEMMA OutsideInductive == IInv /\ (Cable \/ RequestStop \/ Take) => IInv'
<1>. SUFFICES ASSUME IInv, Cable \/ RequestStop \/ Take PROVE IInv'
    OBVIOUS
<1>. USE DEF IInv
<1>1. CASE Cable
    <2>1. TypeOK'
        BY <1>1 DEF Cable, TypeOK, pins, channels
    <2>. QED
        BY <1>1, <2>1 DEF Cable, TypeOK, pins, channels, MutexOwned, UsbHolds,
            ChargingHolds, DeliveredInSync, MeasuringAtRest, ChargingIsReported,
            CableFollowed, CableLatched, NotStarted
<1>2. CASE RequestStop
    <2>1. power_supply_stop' \in Buffer({"stop"})
        <3>1. /\ power_supply_stop \in Buffer({"stop"}) /\ "stop" \in {"stop"}
              /\ Len(power_supply_stop) < Capacity
              /\ power_supply_stop' = Append(power_supply_stop, "stop")
            BY <1>2 DEF RequestStop, Send, TypeOK
        <3>2. Append(power_supply_stop, "stop") \in Buffer({"stop"})
            BY <3>1 DEF Buffer, Capacity
        <3>. QED  BY <3>1, <3>2
    <2>2. TypeOK'
        BY <1>2, <2>1 DEF RequestStop, TypeOK, cable, pins
    <2>. QED
        BY <1>2, <2>2 DEF RequestStop, cable, pins, MutexOwned, UsbHolds,
            ChargingHolds, DeliveredInSync, MeasuringAtRest, ChargingIsReported,
            CableFollowed, CableLatched, NotStarted
<1>3. CASE Take
    <2>1. power_supply_out' \in Buffer(States)
        <3>1. power_supply_out \in Buffer(States)
            BY DEF TypeOK
        <3>. QED  BY <1>3, <3>1 DEF Take, Receive, Buffer, Capacity
    <2>2. TypeOK'
        BY <1>3, <2>1 DEF Take, TypeOK, cable, pins
    <2>. QED
        BY <1>3, <2>2 DEF Take, cable, pins, MutexOwned, UsbHolds,
            ChargingHolds, DeliveredInSync, MeasuringAtRest, ChargingIsReported,
            CableFollowed, CableLatched, NotStarted
<1>. QED  BY <1>1, <1>2, <1>3

\* The inductive invariant of the power supply holds for every set of ADC
\* codes, every movement of the cable and every delay of the dispatcher.
THEOREM SupplyInvariant == Spec => []IInv
<1>1. IInv /\ UNCHANGED vars => IInv'
    BY DEF vars, cable, pins, channels, IInv, TypeOK, MutexOwned, UsbHolds,
           ChargingHolds, DeliveredInSync, MeasuringAtRest, ChargingIsReported,
           CableFollowed, CableLatched, NotStarted
<1>2. IInv /\ [Next]_vars => IInv'
    BY <1>1, NewInductive, UsbInductive, ChargingInductive, EndInductive,
       OutsideInductive DEF Next
<1>. QED  BY <1>2, SupplyInitial, PTL DEF Spec

\* Whenever nobody holds the mutex the state sent last is the current one.
THEOREM SupplyDeliveredInSync == Spec => []DeliveredInSync
<1>1. IInv => DeliveredInSync
    BY DEF IInv
<1>. QED  BY <1>1, SupplyInvariant, PTL

\* No change of the cable is missed.
THEOREM SupplyCableNotMissed == Spec => []CableNotMissed
<1>1. IInv => CableNotMissed
    BY DEF IInv, CableFollowed, CableLatched, CableNotMissed
<1>. QED  BY <1>1, SupplyInvariant, PTL

----------------------------------------------------------------------------
\* What a measurement results in is what the abstract task allows.
LEMMA ConfiguredAllowed ==
    ASSUME NEW usb_connected \in BOOLEAN, NEW buf
    PROVE  ConfiguredState(usb_connected, buf) \in T!Configured(usb_connected)
<1>. DEFINE mode == Mode(usb_connected, measure_battery_voltage(buf))
<1>1. mode \in {"Normal", "Charging", "Low"}
    BY DEF Mode
<1>2. ~usb_connected => mode # "Charging"
    BY DEF Mode, Charge, Discharge
<1>3. usb_connected => mode # "Low"
    BY DEF Mode
<1>4. ConfiguredState(usb_connected, buf) = [mode |-> mode, usb_connected |-> usb_connected]
    BY DEF ConfiguredState
<1>. HIDE DEF mode
<1>5. mode \in (IF usb_connected THEN {"Normal", "Charging"} ELSE {"Normal", "Low"})
    BY <1>1, <1>2, <1>3
<1>. QED  BY <1>4, <1>5 DEF T!Configured

\* A measurement changes the state only to one that can follow it.
LEMMA MeasuredCanFollow ==
    ASSUME state \in States, NEW buf, state' = ConfiguredState(state.usb_connected, buf),
           state' # state
    PROVE  state' \in T!CanFollow(state)
<1>1. state.usb_connected \in BOOLEAN
    BY DEF States
<1>. QED  BY <1>1, ConfiguredAllowed DEF T!CanFollow

\* So does the cable.
LEMMA CableCanFollow ==
    ASSUME state \in States, usb \in BOOLEAN,
           state' = [state EXCEPT !.usb_connected = usb], state' # state
    PROVE  state' \in T!CanFollow(state)
<1>1. usb = ~state.usb_connected
    BY DEF States
<1>. QED  BY <1>1 DEF T!CanFollow, States

\* A step of the power supply is a step of the abstract task or none at all.
LEMMA SupplyStep == IInv /\ [Next]_vars => [T!Next]_(T!vars)
<1>. SUFFICES ASSUME IInv, [Next]_vars PROVE T!Next \/ UNCHANGED T!vars
    OBVIOUS
<1>. USE DEF T!taskVars, T!vars
<1>1. CASE UNCHANGED vars
    BY <1>1 DEF vars, SupplyPc, UsbHolds, cable, channels
<1>2. ASSUME NEW buf \in Samples, NewMeasure(buf) PROVE T!Next
    <2>1. SupplyPc = "new" /\ SupplyPc' = "send"
        BY <1>2 DEF NewMeasure, SupplyPc
    <2>2. current_value \in BOOLEAN /\ state' \in T!Configured(current_value)
        BY <1>2, ConfiguredAllowed DEF NewMeasure, IInv, TypeOK
    <2>3. T!new(state')
        BY <1>2, <2>1 DEF NewMeasure, channels, T!new
    <2>. QED  BY <2>2, <2>3 DEF T!Next, T!run
<1>3. CASE NewSend
    <2>1. SupplyPc = "send" /\ SupplyPc' = "wait"
        BY <1>3 DEF NewSend, SupplyPc, UsbHolds, IInv, NotStarted
    <2>2. T!SendState
        BY <1>3, <2>1 DEF NewSend, Deliver, T!SendState, Send, T!Send, Capacity, T!Capacity
    <2>. QED  BY <2>2 DEF T!Next, T!run
<1>4. CASE UsbChanged
    BY <1>4 DEF UsbChanged, SupplyPc, UsbHolds, channels
<1>5. CASE UsbLock
    <2>1. SupplyPc = "wait"
        BY <1>5 DEF UsbLock, SupplyPc, UsbHolds, IInv, MutexOwned, ChargingHolds
    <2>2. CASE state' = state
        <3>1. SupplyPc' = "wait"
            BY <1>5, <2>2 DEF UsbLock, SupplyPc, UsbHolds, IInv, MutexOwned, ChargingHolds
        <3>. QED  BY <1>5, <2>1, <2>2, <3>1 DEF UsbLock, channels
    <2>3. CASE state' # state
        <3>1. SupplyPc' = "send"
            BY <1>5, <2>3 DEF UsbLock, SupplyPc, UsbHolds
        <3>2. state' \in T!CanFollow(state)
            BY <1>5, <2>3, CableCanFollow DEF UsbLock, IInv, TypeOK
        <3>3. T!Change(state')
            BY <1>5, <2>1, <3>1 DEF UsbLock, channels, T!Change
        <3>. QED  BY <3>2, <3>3 DEF T!Next, T!run
    <2>. QED  BY <2>2, <2>3
<1>6. CASE UsbSend \/ ChargingSend
    <2>1. SupplyPc = "send" /\ SupplyPc' = "wait"
        BY <1>6 DEF UsbSend, ChargingSend, SupplyPc, UsbHolds, IInv, MutexOwned, ChargingHolds
    <2>2. T!SendState
        BY <1>6, <2>1 DEF UsbSend, ChargingSend, Deliver, T!SendState,
            Send, T!Send, Capacity, T!Capacity
    <2>. QED  BY <2>2 DEF T!Next, T!run
<1>7. CASE ChargingEnds \/ RecoveryEnds \/ ChargingLock
    BY <1>7 DEF ChargingEnds, RecoveryEnds, ChargingLock, SupplyPc, UsbHolds, channels
<1>8. ASSUME NEW buf \in Samples, ChargingMeasure(buf) PROVE T!Next \/ UNCHANGED T!vars
    <2>1. SupplyPc = "wait"
        BY <1>8 DEF ChargingMeasure, SupplyPc, UsbHolds, IInv, MutexOwned, ChargingHolds
    <2>2. CASE state' = state
        <3>1. SupplyPc' = "wait"
            BY <1>8, <2>2 DEF ChargingMeasure, SupplyPc, UsbHolds, IInv, MutexOwned,
                ChargingHolds
        <3>. QED  BY <1>8, <2>1, <2>2, <3>1 DEF ChargingMeasure, channels
    <2>3. CASE state' # state
        <3>1. SupplyPc' = "send"
            BY <1>8, <2>3 DEF ChargingMeasure, SupplyPc, UsbHolds
        <3>2. state' \in T!CanFollow(state)
            BY <1>8, <2>3, MeasuredCanFollow DEF ChargingMeasure, IInv, TypeOK
        <3>3. T!Change(state')
            BY <1>8, <2>1, <3>1 DEF ChargingMeasure, channels, T!Change
        <3>. QED  BY <3>2, <3>3 DEF T!Next, T!run
    <2>. QED  BY <2>2, <2>3
<1>9. CASE Stop
    <2>1. SupplyPc # "done" /\ SupplyPc' = "done"
        BY <1>9 DEF Stop, SupplyPc
    <2>2. T!Stop
        BY <1>9, <2>1 DEF Stop, T!Stop, Receive, T!Receive
    <2>. QED  BY <2>2 DEF T!Next, T!run
<1>10. CASE Drop \/ Cable
    BY <1>10 DEF Drop, Cable, SupplyPc, UsbHolds, channels
<1>11. CASE RequestStop
    <2>1. T!RequestStop
        BY <1>11 DEF RequestStop, SupplyPc, UsbHolds, T!RequestStop, Send, T!Send,
            Capacity, T!Capacity
    <2>. QED  BY <2>1 DEF T!Next
<1>12. CASE Take
    <2>1. T!Take
        BY <1>12 DEF Take, SupplyPc, UsbHolds, T!Take, Receive, T!Receive
    <2>. QED  BY <2>1 DEF T!Next
<1>. QED
    BY <1>1, <1>2, <1>3, <1>4, <1>5, <1>6, <1>7, <1>8, <1>9, <1>10, <1>11, <1>12
    DEF Next, new, usb_connection_function, charging_function

\* The power supply does what SupplyTask promises the dispatcher.
THEOREM SupplyImplements == Spec => ImplementsSupplyTask
<1>1. Init => T!Init
    BY DEF Init, T!Init, SupplyPc
<1>. QED  BY <1>1, SupplyStep, SupplyInvariant, PTL DEF Spec, ImplementsSupplyTask, T!Spec

----------------------------------------------------------------------------
\* What the liveness needs besides IInv: the pin's event is taken when the USB
\* function leaves its wait, the state delivered has the cable of the state
\* unless the USB function is about to send, nothing is sent before the
\* constructor is through, and a dropped battery is at rest.
Followed ==
    /\ run_pc \in {"measure", "send"} => power_supply_out = <<>>
    /\ usb_pc # "wait" => ~triggered
    /\ run_pc = "run" /\ usb_pc # "send" =>
           /\ delivered # <<>>
           /\ delivered[1].usb_connected = state.usb_connected
    /\ run_pc = "dropped" => ~charge /\ discharge = {}

\* It is inductive with IInv.
LEMMA FollowedInductive == IInv /\ Followed /\ [Next]_vars => Followed'
<1>. SUFFICES ASSUME IInv, Followed, [Next]_vars PROVE Followed'
    OBVIOUS
<1>. USE DEF Followed
<1>1. CASE new
    <2>1. ASSUME NEW buf \in Samples, NewMeasure(buf) PROVE Followed'
        BY <2>1 DEF NewMeasure, cable, channels
    <2>2. CASE NewSend
        BY <2>2 DEF NewSend, Deliver, pins, IInv, NotStarted
    <2>. QED  BY <1>1, <2>1, <2>2 DEF new
<1>2. CASE UsbChanged
    BY <1>2 DEF UsbChanged, pins, channels
<1>3. CASE UsbLock
    <2>1. CASE state' = state /\ usb_pc' = "wait"
        BY <1>3, <2>1 DEF UsbLock, pins, channels
    <2>2. CASE usb_pc' = "send"
        BY <1>3, <2>2 DEF UsbLock, pins, channels
    <2>. QED  BY <1>3, <2>1, <2>2 DEF UsbLock
<1>4. CASE UsbSend
    BY <1>4 DEF UsbSend, Deliver, pins
<1>5. CASE ChargingEnds \/ RecoveryEnds \/ ChargingLock
    BY <1>5 DEF ChargingEnds, RecoveryEnds, ChargingLock, cable, pins, channels
<1>6. ASSUME NEW buf \in Samples, ChargingMeasure(buf) PROVE Followed'
    <2>1. state'.usb_connected = state.usb_connected
        BY <1>6, ConfiguredType DEF ChargingMeasure, IInv, TypeOK, States
    <2>. QED  BY <1>6, <2>1 DEF ChargingMeasure, cable, channels
<1>7. CASE ChargingSend
    BY <1>7 DEF ChargingSend, Deliver, cable, pins
<1>8. CASE Stop \/ Drop
    BY <1>8 DEF Stop, Drop, cable, pins, channels
<1>9. CASE Cable
    BY <1>9 DEF Cable, pins, channels
<1>10. CASE RequestStop \/ Take
    BY <1>10 DEF RequestStop, Take, Receive, cable, pins
<1>11. CASE UNCHANGED vars
    BY <1>11 DEF vars, cable, pins, channels
<1>. QED
    BY <1>1, <1>2, <1>3, <1>4, <1>5, <1>6, <1>7, <1>8, <1>9, <1>10, <1>11
    DEF Next, usb_connection_function, charging_function

\* Followed is an invariant of the specification.
LEMMA SupplyFollowed == Spec => []Followed
<1>1. Init => Followed
    BY DEF Init, Followed
<1>. QED  BY <1>1, FollowedInductive, SupplyInvariant, PTL DEF Spec

----------------------------------------------------------------------------
\* The places the task is at: in the constructor, in its USB function, in its
\* charging function, or ended; and what it waits for there.
Constructing(pc) == run_pc = pc
UsbAt(pc) == run_pc = "run" /\ usb_pc = pc
Fired == UsbAt("wait") /\ triggered
Quiet == UsbAt("wait") /\ ~triggered
Fresh == UsbAt("send") /\ current_value = usb
Ended == run_pc \in {"done", "dropped"}
Full == power_supply_out # <<>>
ChargingAt(pc) == run_pc = "run" /\ charging_pc = pc
Free == Ended \/ mutex = "free"
Running == run_pc = "run"
Asked == power_supply_stop # <<>> /\ ~Ended

\* The USB function, with the cable left alone.
LEMMA CableSteps ==
    ASSUME IInv, Followed, [Next]_vars, usb' = usb
    PROVE  /\ Ended => Ended'
           /\ Quiet => Quiet' \/ Ended'
           /\ Constructing("measure") => Constructing("measure")' \/ Constructing("send")'
           /\ Constructing("send") => Constructing("send")' \/ Fired' \/ Quiet'
           /\ Fired => Fired' \/ UsbAt("lock")' \/ Ended'
           /\ UsbAt("lock") => UsbAt("lock")' \/ Fresh' \/ Quiet' \/ Ended'
           /\ UsbAt("send") => UsbAt("send")' \/ Fired' \/ Quiet' \/ Ended'
           /\ Fresh => Fresh' \/ Quiet' \/ Ended'
<1>. USE DEF Ended, Quiet, Constructing, Fired, UsbAt, Fresh
<1>1. CASE new
    <2>1. ASSUME NEW buf \in Samples, NewMeasure(buf) PROVE run_pc' = "send" /\ run_pc = "measure"
        BY <2>1 DEF NewMeasure
    <2>2. CASE NewSend
        BY <2>2 DEF NewSend, IInv, NotStarted, TypeOK
    <2>. QED  BY <1>1, <2>1, <2>2 DEF new
<1>2. CASE UsbChanged
    BY <1>2 DEF UsbChanged
<1>3. CASE UsbLock
    BY <1>3 DEF UsbLock, Followed
<1>4. CASE UsbSend
    BY <1>4 DEF UsbSend, IInv, TypeOK
<1>5. CASE charging_function
    <2>1. UNCHANGED <<run_pc, usb_pc, triggered, current_value>>
        BY <1>5 DEF charging_function, ChargingEnds, RecoveryEnds, ChargingLock,
                    ChargingMeasure, ChargingSend, cable
    <2>. QED  BY <2>1
<1>6. CASE Stop \/ Drop
    BY <1>6 DEF Stop, Drop
<1>7. ~Cable
    BY DEF Cable, IInv, TypeOK
<1>8. CASE RequestStop \/ Take \/ UNCHANGED vars
    <2>1. UNCHANGED <<run_pc, usb_pc, triggered, current_value>>
        BY <1>8 DEF RequestStop, Take, vars, cable
    <2>. QED  BY <2>1
<1>. QED
    BY <1>1, <1>2, <1>3, <1>4, <1>5, <1>6, <1>7, <1>8 DEF Next, usb_connection_function

\* What each of them waits for, with the cable left alone.
LEMMA CableProgress ==
    ASSUME IInv, Followed, usb' = usb
    PROVE  /\ Constructing("measure") /\ new => Constructing("send")'
           /\ Constructing("send") /\ new => Fired' \/ Quiet'
           /\ Fired /\ usb_connection_function => UsbAt("lock")'
           /\ UsbLock => Fresh' \/ Quiet'
           /\ UsbAt("send") /\ usb_connection_function => Fired' \/ Quiet'
           /\ Fresh /\ usb_connection_function => Quiet'
<1>. USE DEF Ended, Quiet, Constructing, Fired, UsbAt, Fresh
<1>1. ASSUME new
      PROVE  /\ Constructing("measure") => Constructing("send")'
             /\ Constructing("send") => Fired' \/ Quiet'
    BY <1>1 DEF new, NewMeasure, NewSend, IInv, NotStarted, TypeOK
<1>2. CASE UsbChanged
    BY <1>1, <1>2 DEF UsbChanged, UsbLock
<1>3. CASE UsbLock
    BY <1>1, <1>3 DEF UsbLock, Followed
<1>4. CASE UsbSend
    BY <1>1, <1>4 DEF UsbSend, IInv, TypeOK, UsbLock
<1>. QED  BY <1>1, <1>2, <1>3, <1>4 DEF usb_connection_function

\* The channel is emptied, and it stays empty until the next send.
LEMMA TakeEmpties == IInv /\ Take => (~Full)'
<1>1. IInv => power_supply_out \in Buffer(States)
    BY DEF IInv, TypeOK
<1>. QED  BY <1>1 DEF Take, Receive, Full, Buffer, Capacity

\* A sender that finds the channel empty is not overtaken by another one.
LEMMA SendSteps ==
    ASSUME IInv, [Next]_vars, ~Full
    PROVE  /\ Constructing("send") => (~Full)' \/ (~Constructing("send"))'
           /\ UsbAt("send") => (~Full)' \/ (~UsbAt("send"))'
           /\ ChargingAt("send") => (~Full)' \/ (~ChargingAt("send"))'
<1>. USE DEF Constructing, UsbAt, ChargingAt
<1>1. CASE Take
    BY <1>1, TakeEmpties
<1>2. CASE NewSend
    BY <1>2 DEF NewSend, IInv, NotStarted
<1>3. CASE UsbSend
    BY <1>3 DEF UsbSend, IInv, MutexOwned, UsbHolds, ChargingHolds
<1>4. CASE ChargingSend
    BY <1>4 DEF ChargingSend, IInv, MutexOwned, UsbHolds, ChargingHolds
<1>5. CASE UNCHANGED power_supply_out
    BY <1>5 DEF Full
<1>. QED
    BY <1>1, <1>2, <1>3, <1>4, <1>5
    DEF Next, new, NewMeasure, usb_connection_function, UsbChanged, UsbLock, charging_function,
        ChargingEnds, RecoveryEnds, ChargingLock, ChargingMeasure, Stop, Drop, Cable,
        RequestStop, vars, channels

\* The charging function, which keeps the USB function out while it measures
\* and sends.
LEMMA ChargingSteps ==
    ASSUME IInv, [Next]_vars
    PROVE  /\ ChargingAt("measure") => ChargingAt("measure")' \/ ChargingAt("send")' \/ Free'
           /\ ChargingAt("send") => ChargingAt("send")' \/ Free'
<1>. USE DEF ChargingAt, Free, Ended
<1>1. CASE new
    BY <1>1 DEF new, NewMeasure, NewSend
<1>2. CASE usb_connection_function
    BY <1>2 DEF usb_connection_function, UsbChanged, UsbLock, UsbSend
<1>3. CASE charging_function
    BY <1>3 DEF charging_function, ChargingEnds, RecoveryEnds, ChargingLock, ChargingMeasure,
                ChargingSend
<1>4. CASE Stop \/ Drop
    BY <1>4 DEF Stop, Drop
<1>5. CASE Cable \/ RequestStop \/ Take \/ UNCHANGED vars
    BY <1>5 DEF Cable, RequestStop, Take, vars
<1>. QED  BY <1>1, <1>2, <1>3, <1>4, <1>5 DEF Next

\* Where the next step of the charging function leads.
LEMMA ChargingProgress ==
    ASSUME charging_function
    PROVE  /\ ChargingAt("measure") => ChargingAt("send")' \/ Free'
           /\ ChargingAt("send") => Free'
BY DEF charging_function, ChargingEnds, RecoveryEnds, ChargingLock, ChargingMeasure,
       ChargingSend, ChargingAt, Free

\* The hypotheses of the theorems below: each function runs where its await is
\* over, a task that is asked to stop can, and a dispatcher that has not asked
\* can take a state that is in the channel. They are validities that speak of
\* ENABLED (for a nonempty set of samples), so TLC checks them and no prover here.
NewReady ==
    (\/ run_pc = "measure" /\ Samples # {}
     \/ run_pc = "send" /\ power_supply_out = <<>>) => ENABLED <<new>>_vars
UsbReady ==
    (\/ Fired
     \/ UsbAt("send") /\ power_supply_out = <<>>) => ENABLED <<usb_connection_function>>_vars
UsbLockReady == UsbAt("lock") /\ mutex = "free" => ENABLED <<UsbLock>>_vars
ChargingReady ==
    (\/ ChargingAt("charge")
     \/ ChargingAt("measure") /\ Samples # {}
     \/ ChargingAt("send") /\ power_supply_out = <<>>) => ENABLED <<charging_function>>_vars
StopReady == Asked /\ Running => ENABLED <<Stop>>_vars
TakeReady == Full /\ ~Asked /\ ~Ended => ENABLED <<TakeUntilStop>>_vars
Ready == NewReady /\ UsbReady /\ UsbLockReady /\ ChargingReady /\ StopReady /\ TakeReady

\* A request to stop waits for the constructor, and for nothing else.
LEMMA AskedSteps ==
    ASSUME IInv, Followed, [Next]_vars
    PROVE  /\ Asked => Asked' \/ Ended'
           /\ Ended => Ended'
           /\ Constructing("measure") => Constructing("measure")' \/ Constructing("send")'
           /\ Constructing("send") => Constructing("send")' \/ Running'
           /\ Running => Running' \/ Ended'
<1>. USE DEF Asked, Ended, Constructing, Running
<1>1. CASE RequestStop
    <2>1. power_supply_stop' # <<>>
        <3>1. power_supply_stop \in Seq({"stop"})
            BY DEF IInv, TypeOK, Buffer
        <3>. QED  BY <1>1, <3>1 DEF RequestStop, Send
    <2>. QED  BY <1>1, <2>1 DEF RequestStop
<1>2. CASE new
    BY <1>2 DEF new, NewMeasure, NewSend, channels
<1>3. CASE usb_connection_function
    BY <1>3 DEF usb_connection_function, UsbChanged, UsbLock, UsbSend, channels
<1>4. CASE charging_function
    BY <1>4 DEF charging_function, ChargingEnds, RecoveryEnds, ChargingLock, ChargingMeasure,
                ChargingSend, channels
<1>5. CASE Stop \/ Drop
    BY <1>5 DEF Stop, Drop, channels
<1>6. CASE Cable \/ Take \/ UNCHANGED vars
    BY <1>6 DEF Cable, Take, vars, channels
<1>. QED  BY <1>1, <1>2, <1>3, <1>4, <1>5, <1>6 DEF Next

\* The task ends once it is asked to stop: it has ended for good, or it runs
\* and the dispatcher takes what it sends.
Served == ~Asked /\ ~Ended
LEMMA AskedEnds ==
    ASSUME Samples # {}
    PROVE  FairSpec /\ []Ready => <>[]Ended \/ []Served
<1>1. IInv /\ Followed /\ [Next]_vars =>
          /\ Asked => Asked' \/ Ended'
          /\ Ended => Ended'
          /\ Constructing("measure") => Constructing("measure")' \/ Constructing("send")'
          /\ Constructing("send") => Constructing("send")' \/ Running'
          /\ Running => Running' \/ Ended'
    BY AskedSteps
<1>2. <<new>>_vars => /\ Constructing("measure") => Constructing("send")'
                      /\ Constructing("send") => Running'
    BY DEF new, NewMeasure, NewSend, Constructing, Running
<1>3. <<Stop>>_vars => Ended'
    BY DEF Stop, Ended
<1>4. /\ Constructing("measure") => run_pc = "measure" /\ Samples # {}
      /\ Followed /\ Constructing("send") => run_pc = "send" /\ power_supply_out = <<>>
      /\ IInv => Constructing("measure") \/ Constructing("send") \/ Running \/ Ended
    BY DEF Constructing, Followed, IInv, TypeOK, Running, Ended
<1>. QED
    BY <1>1, <1>2, <1>3, <1>4, SupplyInvariant, SupplyFollowed, PTL
    DEF FairSpec, Fairness, Spec, Ready, NewReady, StopReady, Served

\* CableReported for a cable that is plugged in, or not.
CableReportedAt(b) ==
    <>[](usb = b) =>
        <>[](Ended \/ (delivered # <<>> /\ delivered[1].usb_connected = b))

\* The USB function comes to rest with the cable as it is left.
CableRests(b) == <>[](usb = b) => <>[](usb = b /\ (Quiet \/ Ended))

\* With the cable left alone, the USB function works off the event of the last
\* change and waits: the mutex it needs is released by the charging function,
\* which in its turn waits only for the dispatcher.
LEMMA CableSettles ==
    ASSUME NEW b \in BOOLEAN, Samples # {}
    PROVE  FairSpec /\ []Ready => CableRests(b)
<1>. DEFINE Rest == usb = b
<1>1. IInv /\ Followed /\ Rest /\ Rest' /\ [Next]_vars =>
          /\ Ended => Ended'
          /\ Quiet => Quiet' \/ Ended'
          /\ Constructing("measure") => Constructing("measure")' \/ Constructing("send")'
          /\ Constructing("send") => Constructing("send")' \/ Fired' \/ Quiet'
          /\ Fired => Fired' \/ UsbAt("lock")' \/ Ended'
          /\ UsbAt("lock") => UsbAt("lock")' \/ Fresh' \/ Quiet' \/ Ended'
          /\ UsbAt("send") => UsbAt("send")' \/ Fired' \/ Quiet' \/ Ended'
          /\ Fresh => Fresh' \/ Quiet' \/ Ended'
    BY CableSteps
<1>2. IInv /\ Followed /\ Rest /\ Rest' /\ [Next]_vars =>
          /\ <<new>>_vars => /\ Constructing("measure") => Constructing("send")'
                             /\ Constructing("send") => Fired' \/ Quiet'
          /\ <<usb_connection_function>>_vars =>
                 /\ Fired => UsbAt("lock")'
                 /\ UsbAt("send") => Fired' \/ Quiet'
                 /\ Fresh => Quiet'
          /\ <<UsbLock>>_vars => Fresh' \/ Quiet'
    BY CableProgress
<1>3. IInv /\ <<TakeUntilStop>>_vars => (~Full)'
    BY TakeEmpties DEF TakeUntilStop
<1>4. IInv /\ [Next]_vars /\ ~Full =>
          /\ Constructing("send") => (~Full)' \/ (~Constructing("send"))'
          /\ UsbAt("send") => (~Full)' \/ (~UsbAt("send"))'
          /\ ChargingAt("send") => (~Full)' \/ (~ChargingAt("send"))'
    BY SendSteps
<1>5. IInv /\ [Next]_vars =>
          /\ ChargingAt("measure") => ChargingAt("measure")' \/ ChargingAt("send")' \/ Free'
          /\ ChargingAt("send") => ChargingAt("send")' \/ Free'
    BY ChargingSteps
<1>6. <<charging_function>>_vars =>
          /\ ChargingAt("measure") => ChargingAt("send")' \/ Free'
          /\ ChargingAt("send") => Free'
    BY ChargingProgress
<1>7. /\ IInv => \/ Constructing("measure") \/ Constructing("send") \/ Fired \/ Quiet
                 \/ UsbAt("lock") \/ UsbAt("send") \/ Ended
      /\ IInv /\ UsbAt("lock") => ChargingAt("measure") \/ ChargingAt("send") \/ Free
    BY DEF IInv, TypeOK, MutexOwned, UsbHolds, ChargingHolds,
           Constructing, Fired, Quiet, UsbAt, Ended, ChargingAt, Free
<1>8. /\ Constructing("measure") => run_pc = "measure" /\ Samples # {}
      /\ Constructing("send") /\ ~Full => run_pc = "send" /\ power_supply_out = <<>>
      /\ UsbAt("send") /\ ~Full => UsbAt("send") /\ power_supply_out = <<>>
      /\ ChargingAt("send") /\ ~Full => ChargingAt("send") /\ power_supply_out = <<>>
      /\ UsbAt("lock") /\ Free => mutex = "free"
      /\ Fresh => UsbAt("send")
      /\ Samples # {}
    BY DEF Constructing, Full, UsbAt, Free, Ended, Fresh
<1>. HIDE DEF Rest
<1>9. FairSpec /\ []Ready => <>[]Ended \/ []Served
    BY AskedEnds
<1>10. Served /\ TakeReady /\ Full => ENABLED <<TakeUntilStop>>_vars
    BY DEF Served, TakeReady
<1>11. FairSpec /\ []Ready /\ []Served => []<>(~Full)
    BY <1>3, <1>10, SupplyInvariant, PTL DEF FairSpec, Fairness, Spec, Ready
<1>12. FairSpec /\ []Ready /\ []Served => [](ChargingAt("send") => <>Free)
    BY <1>4, <1>5, <1>6, <1>8, <1>11, SupplyInvariant, PTL
    DEF FairSpec, Fairness, Spec, Ready, ChargingReady
<1>13. FairSpec /\ []Ready /\ []Served => [](ChargingAt("measure") => <>(ChargingAt("send") \/ Free))
    BY <1>5, <1>6, <1>8, SupplyInvariant, PTL
    DEF FairSpec, Fairness, Spec, Ready, ChargingReady
<1>14. FairSpec /\ []Ready /\ []Served => []<>(Free \/ ~UsbAt("lock"))
    BY <1>7, <1>12, <1>13, SupplyInvariant, PTL DEF FairSpec
<1>15. FairSpec /\ []Ready /\ []Served =>
           []([]Rest /\ Fresh => <>(Quiet \/ Ended))
    BY <1>1, <1>2, <1>4, <1>8, <1>11, SupplyInvariant, SupplyFollowed, PTL
    DEF FairSpec, Fairness, Spec, Ready, UsbReady
<1>16. FairSpec /\ []Ready /\ []Served =>
           []([]Rest /\ UsbAt("lock") => <>(Fresh \/ Quiet \/ Ended))
    BY <1>1, <1>2, <1>8, <1>14, SupplyInvariant, SupplyFollowed, PTL
    DEF FairSpec, Fairness, Spec, Ready, UsbLockReady
<1>17. FairSpec /\ []Ready /\ []Served =>
           []([]Rest /\ Fired => <>(UsbAt("lock") \/ Ended))
    BY <1>1, <1>2, SupplyInvariant, SupplyFollowed, PTL
    DEF FairSpec, Fairness, Spec, Ready, UsbReady
<1>18. FairSpec /\ []Ready /\ []Served =>
           []([]Rest /\ UsbAt("send") => <>(Fired \/ Quiet \/ Ended))
    BY <1>1, <1>2, <1>4, <1>8, <1>11, SupplyInvariant, SupplyFollowed, PTL
    DEF FairSpec, Fairness, Spec, Ready, UsbReady
<1>19. FairSpec /\ []Ready /\ []Served =>
           []([]Rest /\ Constructing("send") => <>(Fired \/ Quiet))
    BY <1>1, <1>2, <1>4, <1>8, <1>11, SupplyInvariant, SupplyFollowed, PTL
    DEF FairSpec, Fairness, Spec, Ready, NewReady
<1>20. FairSpec /\ []Ready /\ []Served =>
           []([]Rest /\ Constructing("measure") => <>Constructing("send"))
    BY <1>1, <1>2, <1>8, SupplyInvariant, SupplyFollowed, PTL
    DEF FairSpec, Fairness, Spec, Ready, NewReady
<1>21. FairSpec /\ []Ready /\ []Served => []([]Rest => <>(Quiet \/ Ended))
    BY <1>7, <1>15, <1>16, <1>17, <1>18, <1>19, <1>20, SupplyInvariant, PTL DEF FairSpec
<1>22. FairSpec /\ []Ready /\ []Served => (<>[]Rest => <>[](Rest /\ (Quiet \/ Ended)))
    BY <1>1, <1>21, SupplyInvariant, SupplyFollowed, PTL DEF FairSpec, Spec
<1>23. FairSpec /\ []Ready => (<>[]Rest => <>[](Rest /\ (Quiet \/ Ended)))
    BY <1>1, <1>9, <1>22, SupplyInvariant, SupplyFollowed, PTL DEF FairSpec, Spec
<1>. QED  BY <1>23 DEF Rest, CableRests

\* A cable that is left alone is reported.
THEOREM SupplyCableReported ==
    ASSUME Samples # {}
    PROVE  FairSpec /\ []Ready => CableReported
<1>1. ASSUME NEW b \in BOOLEAN
      PROVE  FairSpec /\ []Ready => CableReportedAt(b)
    <2>. DEFINE Rest == usb = b
                Reported == delivered # <<>> /\ delivered[1].usb_connected = b
    <2>1. IInv /\ Followed /\ Rest /\ Quiet => Reported
        BY DEF IInv, CableFollowed, CableLatched, Followed, Quiet, UsbAt
    <2>. HIDE DEF Rest, Reported
    <2>2. FairSpec /\ []Ready => (<>[]Rest => <>[](Rest /\ (Quiet \/ Ended)))
        BY CableSettles DEF Rest, CableRests
    <2>3. FairSpec /\ []Ready => (<>[]Rest => <>[](Ended \/ Reported))
        BY <2>1, <2>2, SupplyInvariant, SupplyFollowed, PTL DEF FairSpec
    <2>. QED  BY <2>3 DEF CableReportedAt, Rest, Reported
<1>. QED  BY <1>1 DEF CableReported, CableReportedAt, Ended

----------------------------------------------------------------------------
\* Neither charging nor balancing; the task has ended and its Battery is not
\* dropped yet.
AtRest == ~charge /\ discharge = {}
Done == run_pc = "done"
\* The USB function has seen that the cable is gone, or the task has ended.
Unplugged == ~usb /\ (Quiet \/ Ended)

\* Where a step leads when the USB function has seen that the cable is gone.
LEMMA UnpluggedSteps ==
    ASSUME IInv, Followed, [Next]_vars, Unplugged, Unplugged'
    PROVE  /\ AtRest => AtRest'
           /\ ChargingAt("charge") => ChargingAt("charge")' \/ AtRest' \/ Done'
           /\ ChargingAt("send") => ChargingAt("send")' \/ ChargingAt("charge")' \/ Done'
           /\ Done => Done' \/ AtRest'
<1>. USE DEF AtRest, Done, Unplugged, Quiet, Ended, UsbAt, ChargingAt
<1>1. CASE new
    <2>1. run_pc \in {"measure", "send"}
        BY <1>1 DEF new, NewMeasure, NewSend
    <2>. QED  BY <2>1
<1>2. CASE usb_connection_function
    BY <1>2 DEF usb_connection_function, UsbChanged, UsbLock, UsbSend, pins
<1>3. CASE ChargingEnds
    BY <1>3 DEF ChargingEnds
<1>4. CASE RecoveryEnds \/ ChargingLock
    BY <1>4 DEF RecoveryEnds, ChargingLock, pins
<1>5. ASSUME NEW buf \in Samples, ChargingMeasure(buf)
      PROVE  AtRest /\ AtRest' /\ ChargingAt("measure")
    <2>1. AtRest
        BY <1>5 DEF ChargingMeasure, IInv, MeasuringAtRest
    <2>2. state.usb_connected = FALSE
        BY <1>5 DEF ChargingMeasure, IInv, TypeOK, CableFollowed, CableLatched
    <2>3. /\ ~Charge(state.usb_connected, measure_battery_voltage(buf))
          /\ Discharge(state.usb_connected, measure_battery_voltage(buf)) = {}
        BY <2>2 DEF Charge, Discharge
    <2>. QED  BY <1>5, <2>1, <2>3 DEF ChargingMeasure, configure_charging
<1>6. CASE ChargingSend
    BY <1>6 DEF ChargingSend, pins
<1>7. CASE Stop \/ Drop
    BY <1>7 DEF Stop, Drop, pins
<1>8. CASE Cable \/ RequestStop \/ Take \/ UNCHANGED vars
    BY <1>8 DEF Cable, RequestStop, Take, pins, vars
<1>. QED
    BY <1>1, <1>2, <1>3, <1>4, <1>5, <1>6, <1>7, <1>8 DEF Next, charging_function

\* Where the charging function leads then.
LEMMA UnpluggedProgress ==
    charging_function =>
        /\ ChargingAt("charge") => AtRest'
        /\ ChargingAt("send") => ChargingAt("charge")'
BY DEF charging_function, ChargingEnds, RecoveryEnds, ChargingLock, ChargingMeasure,
       ChargingSend, AtRest, ChargingAt

\* Pulling the cable ends charging and balancing, unless the task is stopped
\* first; nothing is assumed of the drop.
THEOREM SupplyUnpluggedRests ==
    ASSUME Samples # {}
    PROVE  FairSpec /\ []Ready => UnpluggedRests
<1>1. FairSpec /\ []Ready => (<>[](usb = FALSE) => <>[](usb = FALSE /\ (Quiet \/ Ended)))
    <2>1. \A b \in BOOLEAN : FairSpec /\ []Ready => CableRests(b)
        BY CableSettles
    <2>2. FairSpec /\ []Ready => CableRests(FALSE)
        BY <2>1
    <2>. QED  BY <2>2 DEF CableRests
<1>2. IInv => /\ ~usb => usb = FALSE
              /\ usb = FALSE /\ (Quiet \/ Ended) => Unplugged
    BY DEF IInv, TypeOK, Unplugged
<1>3. IInv /\ Followed /\ Unplugged =>
          \/ AtRest \/ Done \/ ChargingAt("charge") \/ ChargingAt("send")
    <2>1. IInv /\ Quiet => AtRest \/ ChargingAt("charge") \/ ChargingAt("send")
        BY DEF IInv, TypeOK, MeasuringAtRest, Quiet, UsbAt, AtRest, ChargingAt
    <2>2. Followed /\ Ended => AtRest \/ Done
        BY DEF Followed, Ended, AtRest, Done
    <2>. QED  BY <2>1, <2>2 DEF Unplugged
<1>4. IInv /\ Followed /\ [Next]_vars /\ Unplugged /\ Unplugged' =>
          /\ AtRest => AtRest'
          /\ ChargingAt("charge") => ChargingAt("charge")' \/ AtRest' \/ Done'
          /\ ChargingAt("send") => ChargingAt("send")' \/ ChargingAt("charge")' \/ Done'
          /\ Done => Done' \/ AtRest'
    BY UnpluggedSteps
<1>5. <<charging_function>>_vars =>
          /\ ChargingAt("charge") => AtRest'
          /\ ChargingAt("send") => ChargingAt("charge")'
    BY UnpluggedProgress
<1>6. IInv /\ [Next]_vars /\ ~Full /\ ChargingAt("send")
          => (~Full)' \/ (~ChargingAt("send"))'
    BY SendSteps
<1>7. IInv /\ <<TakeUntilStop>>_vars => (~Full)'
    BY TakeEmpties DEF TakeUntilStop
<1>8. /\ ~Full => power_supply_out = <<>>
      /\ Ended /\ ~Done => run_pc = "dropped"
      /\ Followed /\ Ended /\ ~Done => AtRest
      /\ Done => run_pc = "done"
      /\ AtRest => ~charge /\ discharge = {}
    BY DEF Full, Done, AtRest, Ended, Followed
<1>9. FairSpec /\ []Ready => <>[]Ended \/ []Served
    BY AskedEnds
<1>. QED
    BY <1>1, <1>2, <1>3, <1>4, <1>5, <1>6, <1>7, <1>8, <1>9, SupplyInvariant,
        SupplyFollowed, PTL
    DEF FairSpec, Fairness, Spec, Ready, ChargingReady, TakeReady, UnpluggedRests, Served
=============================================================================
