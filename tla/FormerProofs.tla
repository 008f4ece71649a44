---------------------------- MODULE FormerProofs ----------------------------
(***************************************************************************)
(* The former firmware.  First its life: the invariant of FormerMain, and  *)
(* what it says of the destructors and of the measurement, for every set   *)
(* of voltages.  Then the pairing of UnifyingPairing, for every number of  *)
(* channels: the order of its packets, its queue, and its failover.  The   *)
(* two share no variable.                                                  *)
(***************************************************************************)
EXTENDS FormerMain, UnifyingPairing, TLAPS

\* What the measurement does to the type, whatever the voltages are.
LEMMA MeasuredType ==
    ASSUME TypeOK, NEW v \in Samples, Measured(v)
    PROVE  /\ mode' \in {"NORMAL", "CHARGING", "LOW"}
           /\ usb_was_connected' \in BOOLEAN
           /\ main_loop_event' \in BOOLEAN
           /\ delayed' \subseteq Items
           /\ outputs' \subseteq {"charge", "low", "high"}
BY DEF TypeOK, Measured, NewMode, Charge, Balance, Schedule, Items

LEMMA MeasuredSchedules ==
    ASSUME NEW v \in Samples, Measured(v), ~Pending("charging_ended")
    PROVE  delayed' = delayed \cup {"charging_ended"}
BY DEF Measured, Schedule, Pending

LEMMA InitInvariant == Init => IInv
<1> SUFFICES ASSUME Init PROVE IInv
  OBVIOUS
<1> USE DEF Init, NoSense
<1>1. TypeOK
  <2>1. (sense \in [{"sw0", "sw1"} -> {"none", "high", "low"}])
    OBVIOUS
  <2>2. (\A flag \in {main_loop_event, usb_was_connected, change_callback, stop,
                      usb_connected, measuring, interrupts, cable} : flag \in BOOLEAN)
    BY Zenon
  <2> QED BY <2>1, <2>2 DEF TypeOK
<1>2. Cycle
  BY DEF Cycle, Recovering, Pending
<1>3. Listening
  BY DEF Listening, AtRest
<1>4. Destroyed
  BY DEF Destroyed, AfterSupply, AfterRecovery, AfterStop, AfterSwitch, AfterInterrupts
<1> QED BY <1>1, <1>2, <1>3, <1>4 DEF IInv

\* The environment.
LEMMA CableInvariant == IInv /\ Cable => IInv'
<1> SUFFICES ASSUME IInv, Cable PROVE IInv'
  OBVIOUS
<1>1. TypeOK'
  BY DEF IInv, TypeOK, Cable, main, supply, work, switch, Items
<1>2. Cycle'
  BY DEF IInv, Cycle, Cable, Recovering, Pending, main, supply, work, switch
<1>3. Listening'
  BY DEF IInv, Listening, AtRest, Cable, main, supply, work, switch
<1>4. Destroyed'
  BY DEF IInv, Destroyed, Cable, Recovering, Pending, SenseLevels, main, supply, work, switch
<1> QED BY <1>1, <1>2, <1>3, <1>4 DEF IInv

LEMMA LineInvariant ==
    ASSUME IInv, NEW line \in {"sw0", "sw1"}, Line(line)
    PROVE  IInv'
<1>1. delayed' = delayed \/ (interrupts /\ ~Pending("callback") /\ delayed' = delayed \cup {"callback"})
  BY DEF Line, gpio_callback, Schedule
<1>2. UNCHANGED <<main, main_loop_event, supply, change_callback, stop, queued, switch, cable>>
  BY DEF Line
<1>3. TypeOK'
  <2>1. lines' \subseteq {"sw0", "sw1"}
    BY DEF IInv, TypeOK, Line
  <2>2. delayed' \subseteq Items
    BY <1>1 DEF IInv, TypeOK, Items
  <2> QED BY <1>2, <2>1, <2>2 DEF IInv, TypeOK, main, supply, switch
<1>4. Cycle'
  BY <1>1, <1>2 DEF IInv, Cycle, Recovering, Pending, main, supply, switch
<1>5. Listening'
  BY <1>1, <1>2 DEF IInv, Listening, AtRest, main, supply, switch
<1>6. Destroyed'
  BY <1>1, <1>2 DEF IInv, Destroyed, Recovering, Pending, SenseLevels, main, supply, switch,
     AfterSupply, AfterRecovery, AfterStop, AfterSwitch, AfterInterrupts
<1> QED BY <1>3, <1>4, <1>5, <1>6 DEF IInv

LEMMA ExpireInvariant ==
    ASSUME IInv, NEW item \in Items, Expire(item)
    PROVE  IInv'
<1> USE DEF Expire, main, supply, switch, environment
<1>1. TypeOK'
  BY DEF IInv, TypeOK
<1>2. Cycle'
  BY DEF IInv, Cycle, Recovering, Pending
<1>3. Listening'
  BY DEF IInv, Cycle, Listening, AtRest
<1>4. Destroyed'
  BY DEF IInv, Destroyed, Recovering, Pending, SenseLevels
<1> QED BY <1>1, <1>2, <1>3, <1>4 DEF IInv

\* The workqueue thread.
LEMMA WorkqueueInvariant == IInv /\ workqueue => IInv'
<1> SUFFICES ASSUME IInv, workqueue PROVE IInv'
  OBVIOUS
<1> USE DEF Take, main, switch, environment
<1>1. CASE on_charging_ended
  <2> USE <1>1 DEF on_charging_ended, Schedule
  <2>1. TypeOK'
    BY DEF IInv, TypeOK, Items
  <2>2. Cycle'
    BY DEF IInv, Cycle, Recovering, Pending
  <2>3. Listening'
    BY DEF IInv, Listening, AtRest, Pending
  <2>4. Destroyed'
    BY DEF IInv, Cycle, Destroyed, Recovering, Pending, SenseLevels, AfterSupply, AfterRecovery,
       AfterStop, AfterSwitch, AfterInterrupts
  <2> QED BY <2>1, <2>2, <2>3, <2>4 DEF IInv
<1>2. CASE on_recovery_ended
  <2> USE <1>2 DEF on_recovery_ended
  <2>1. TypeOK'
    BY DEF IInv, TypeOK
  <2>2. Cycle'
    BY DEF IInv, Cycle, Recovering, Pending
  <2>3. Listening'
    BY DEF IInv, Listening, AtRest
  <2>4. Destroyed'
    BY DEF IInv, Cycle, Destroyed, Recovering, Pending, SenseLevels, AfterSupply, AfterRecovery,
       AfterStop, AfterSwitch, AfterInterrupts
  <2> QED BY <2>1, <2>2, <2>3, <2>4 DEF IInv
<1>3. CASE measure_battery_voltage
  <2> PICK v \in Samples : Measured(v)
    BY <1>3 DEF measure_battery_voltage
  <2> USE <1>3 DEF measure_battery_voltage
  <2>0. delayed' = delayed \cup {"charging_ended"}
    BY MeasuredSchedules DEF IInv, Cycle, Recovering
  <2>1. TypeOK'
    BY MeasuredType DEF IInv, TypeOK
  <2>2. Cycle'
    BY <2>0 DEF IInv, Cycle, Recovering, Pending
  <2>3. Listening'
    BY <2>0 DEF IInv, Listening, AtRest
  <2>4. Destroyed'
    BY <2>0 DEF IInv, Cycle, Destroyed, Recovering, Pending, SenseLevels, AfterSupply, AfterRecovery,
       AfterStop, AfterSwitch, AfterInterrupts
  <2> QED BY <2>1, <2>2, <2>3, <2>4 DEF IInv
<1>4. CASE static_on_callback
  <2> USE <1>4 DEF static_on_callback, supply
  <2>1. TypeOK'
    BY DEF IInv, TypeOK
  <2>2. Cycle'
    BY DEF IInv, Cycle, Recovering, Pending
  <2>3. Listening'
    BY DEF IInv, Listening, AtRest
  <2>4. Destroyed'
    BY DEF IInv, Destroyed, Recovering, Pending, SenseLevels
  <2> QED BY <2>1, <2>2, <2>3, <2>4 DEF IInv
<1>5. CASE static_set_callback_work
  <2> USE <1>5 DEF static_set_callback_work, supply
  <2>1. TypeOK'
    BY DEF IInv, TypeOK
  <2>2. Cycle'
    BY DEF IInv, Cycle, Recovering, Pending
  <2>3. Listening'
    BY DEF IInv, Listening, AtRest
  <2>4. Destroyed'
    BY DEF IInv, Destroyed, Recovering, Pending, SenseLevels
  <2> QED BY <2>1, <2>2, <2>3, <2>4 DEF IInv
<1> QED BY <1>1, <1>2, <1>3, <1>4, <1>5 DEF workqueue

\* The main thread: one step per action, and the parts it can disturb.
LEMMA RunKeyboardInvariant == IInv /\ run_keyboard => IInv'
<1> SUFFICES ASSUME IInv, run_keyboard PROVE IInv'
  OBVIOUS
<1> USE DEF Goto, Leave, Enter, NoShutdown, MainOnly, supply, work, switch, environment
<1>1. CASE NewPowerSupply
  <2> USE <1>1 DEF NewPowerSupply
  <2>1. TypeOK'
    BY DEF IInv, TypeOK, Items
  <2>2. Cycle'
    BY DEF IInv, Cycle, Recovering, Pending
  <2>3. Listening'
    BY DEF IInv, Listening, AtRest
  <2>4. Destroyed'
    BY DEF IInv, Cycle, Destroyed, Recovering, Pending, SenseLevels, AfterSupply, AfterRecovery,
       AfterStop, AfterSwitch, AfterInterrupts
  <2> QED BY <2>1, <2>2, <2>3, <2>4 DEF IInv
<1>2. CASE NewModeSwitch
  <2> PICK v \in Samples : Measured(v)
    BY <1>2 DEF NewModeSwitch
  <2> USE <1>2 DEF NewModeSwitch
  <2>0. delayed' = delayed \cup {"charging_ended"} /\ main_loop_event' \in BOOLEAN
    BY MeasuredSchedules, MeasuredType DEF IInv, Listening, AtRest, Pending
  <2>1. TypeOK'
    BY MeasuredType DEF IInv, TypeOK
  <2>2. Cycle'
    BY <2>0 DEF IInv, Cycle, Listening, AtRest, Recovering, Pending
  <2>3. Listening'
    BY <2>0 DEF IInv, Listening, AtRest
  <2>4. Destroyed'
    BY DEF IInv, Destroyed, Recovering, Pending, AfterSupply, AfterRecovery,
       AfterStop, AfterSwitch, AfterInterrupts
  <2> QED BY <2>1, <2>2, <2>3, <2>4 DEF IInv
<1>3. CASE WantsLow
  <2> USE <1>3 DEF WantsLow
  <2>1. TypeOK'
    BY DEF IInv, TypeOK, Items
  <2>2. Cycle'
    BY DEF IInv, Cycle, Recovering, Pending
  <2>3. Listening'
    BY DEF IInv, Listening, AtRest
  <2>4. Destroyed'
    BY DEF IInv, Cycle, Destroyed, Recovering, Pending, SenseLevels, AfterSupply, AfterRecovery,
       AfterStop, AfterSwitch, AfterInterrupts
  <2> QED BY <2>1, <2>2, <2>3, <2>4 DEF IInv
<1>4. CASE WantsUsb
  <2> USE <1>4 DEF WantsUsb
  <2>1. TypeOK'
    BY DEF IInv, TypeOK, Items
  <2>2. Cycle'
    BY DEF IInv, Cycle, Recovering, Pending
  <2>3. Listening'
    BY DEF IInv, Listening, AtRest
  <2>4. Destroyed'
    BY DEF IInv, Cycle, Destroyed, Recovering, Pending, SenseLevels, AfterSupply, AfterRecovery,
       AfterStop, AfterSwitch, AfterInterrupts
  <2> QED BY <2>1, <2>2, <2>3, <2>4 DEF IInv
<1>5. CASE WantsPosition
  <2> USE <1>5 DEF WantsPosition
  <2>1. TypeOK'
    BY DEF IInv, TypeOK, Items
  <2>2. Cycle'
    BY DEF IInv, Cycle, Recovering, Pending
  <2>3. Listening'
    BY DEF IInv, Listening, AtRest
  <2>4. Destroyed'
    BY DEF IInv, Cycle, Destroyed, Recovering, Pending, SenseLevels, AfterSupply, AfterRecovery,
       AfterStop, AfterSwitch, AfterInterrupts
  <2> QED BY <2>1, <2>2, <2>3, <2>4 DEF IInv
<1>6. CASE set_callback
  <2> USE <1>6 DEF set_callback
  <2>1. TypeOK'
    BY DEF IInv, TypeOK, Items
  <2>2. Cycle'
    BY DEF IInv, Cycle, Recovering, Pending
  <2>3. Listening'
    BY DEF IInv, Listening, AtRest
  <2>4. Destroyed'
    BY DEF IInv, Cycle, Destroyed, Recovering, Pending, SenseLevels, AfterSupply, AfterRecovery,
       AfterStop, AfterSwitch, AfterInterrupts
  <2> QED BY <2>1, <2>2, <2>3, <2>4 DEF IInv
<1>7. CASE SelectUsb
  <2> USE <1>7 DEF SelectUsb
  <2>1. TypeOK'
    BY DEF IInv, TypeOK, Items
  <2>2. Cycle'
    BY DEF IInv, Cycle, Recovering, Pending
  <2>3. Listening'
    BY DEF IInv, Listening, AtRest
  <2>4. Destroyed'
    BY DEF IInv, Cycle, Destroyed, Recovering, Pending, SenseLevels, AfterSupply, AfterRecovery,
       AfterStop, AfterSwitch, AfterInterrupts
  <2> QED BY <2>1, <2>2, <2>3, <2>4 DEF IInv
<1>8. CASE SelectBluetooth
  <2> USE <1>8 DEF SelectBluetooth
  <2>1. TypeOK'
    BY DEF IInv, TypeOK, Items
  <2>2. Cycle'
    BY DEF IInv, Cycle, Recovering, Pending
  <2>3. Listening'
    BY DEF IInv, Listening, AtRest
  <2>4. Destroyed'
    BY DEF IInv, Cycle, Destroyed, Recovering, Pending, SenseLevels, AfterSupply, AfterRecovery,
       AfterStop, AfterSwitch, AfterInterrupts
  <2> QED BY <2>1, <2>2, <2>3, <2>4 DEF IInv
<1>9. CASE TakeEvent
  <2> USE <1>9 DEF TakeEvent
  <2>1. TypeOK'
    BY DEF IInv, TypeOK, Items
  <2>2. Cycle'
    BY DEF IInv, Cycle, Recovering, Pending
  <2>3. Listening'
    BY DEF IInv, Listening, AtRest
  <2>4. Destroyed'
    BY DEF IInv, Cycle, Destroyed, Recovering, Pending, SenseLevels, AfterSupply, AfterRecovery,
       AfterStop, AfterSwitch, AfterInterrupts
  <2> QED BY <2>1, <2>2, <2>3, <2>4 DEF IInv
<1>10. CASE CompareMode
  <2> USE <1>10 DEF CompareMode
  <2>1. TypeOK'
    BY DEF IInv, TypeOK, Items
  <2>2. Cycle'
    BY DEF IInv, Cycle, Recovering, Pending
  <2>3. Listening'
    BY DEF IInv, Listening, AtRest
  <2>4. Destroyed'
    BY DEF IInv, Cycle, Destroyed, Recovering, Pending, SenseLevels, AfterSupply, AfterRecovery,
       AfterStop, AfterSwitch, AfterInterrupts
  <2> QED BY <2>1, <2>2, <2>3, <2>4 DEF IInv
<1> QED BY <1>1, <1>2, <1>3, <1>4, <1>5, <1>6, <1>7, <1>8, <1>9, <1>10
        DEF run_keyboard, want_shutdown

LEMMA DestructorsInvariant == IInv /\ destructors => IInv'
<1> SUFFICES ASSUME IInv, destructors PROVE IInv'
  OBVIOUS
<1> USE DEF Goto, Cancel, MainOnly, supply, work, switch, environment
<1>1. CASE ReadPosition
  <2> USE <1>1 DEF ReadPosition, Position
  <2>1. TypeOK'
    BY DEF IInv, TypeOK, Items
  <2>2. Cycle'
    BY DEF IInv, Cycle, Recovering, Pending
  <2>3. Listening'
    BY DEF IInv, Listening, AtRest
  <2>4. Destroyed'
    BY DEF IInv, Cycle, Destroyed, Recovering, Pending, SenseLevels, AfterSupply, AfterRecovery,
       AfterStop, AfterSwitch, AfterInterrupts
  <2> QED BY <2>1, <2>2, <2>3, <2>4 DEF IInv
<1>2. CASE DisableInterrupts
  <2> USE <1>2 DEF DisableInterrupts
  <2>1. TypeOK'
    BY DEF IInv, TypeOK, Items
  <2>2. Cycle'
    BY DEF IInv, Cycle, Recovering, Pending
  <2>3. Listening'
    BY DEF IInv, Listening, AtRest
  <2>4. Destroyed'
    BY DEF IInv, Cycle, Destroyed, Recovering, Pending, SenseLevels, AfterSupply, AfterRecovery,
       AfterStop, AfterSwitch, AfterInterrupts
  <2> QED BY <2>1, <2>2, <2>3, <2>4 DEF IInv
<1>3. CASE CancelCallback
  <2> USE <1>3 DEF CancelCallback, SenseLevels
  <2>1. TypeOK'
    BY DEF IInv, TypeOK, Items
  <2>2. Cycle'
    BY DEF IInv, Cycle, Recovering, Pending
  <2>3. Listening'
    BY DEF IInv, Listening, AtRest
  <2>4. Destroyed'
    BY DEF IInv, Cycle, Destroyed, Recovering, Pending, SenseLevels, AfterSupply, AfterRecovery,
       AfterStop, AfterSwitch, AfterInterrupts
  <2> QED BY <2>1, <2>2, <2>3, <2>4 DEF IInv
<1>4. CASE Stop
  <2> USE <1>4 DEF Stop
  <2>1. TypeOK'
    BY DEF IInv, TypeOK, Items
  <2>2. Cycle'
    BY DEF IInv, Cycle, Recovering, Pending
  <2>3. Listening'
    BY DEF IInv, Listening, AtRest
  <2>4. Destroyed'
    BY DEF IInv, Cycle, Destroyed, Recovering, Pending, SenseLevels, AfterSupply, AfterRecovery,
       AfterStop, AfterSwitch, AfterInterrupts
  <2> QED BY <2>1, <2>2, <2>3, <2>4 DEF IInv
<1>5. CASE CancelCharging
  <2> USE <1>5 DEF CancelCharging
  <2>1. TypeOK'
    BY DEF IInv, TypeOK, Items
  <2>2. Cycle'
    BY DEF IInv, Cycle, Recovering, Pending
  <2>3. Listening'
    BY DEF IInv, Listening, AtRest
  <2>4. Destroyed'
    BY DEF IInv, Cycle, Destroyed, Recovering, Pending, SenseLevels, AfterSupply, AfterRecovery,
       AfterStop, AfterSwitch, AfterInterrupts
  <2> QED BY <2>1, <2>2, <2>3, <2>4 DEF IInv
<1>6. CASE CancelRecovery
  <2> USE <1>6 DEF CancelRecovery
  <2>1. TypeOK'
    BY DEF IInv, TypeOK, Items
  <2>2. Cycle'
    BY DEF IInv, Cycle, Recovering, Pending
  <2>3. Listening'
    BY DEF IInv, Listening, AtRest
  <2>4. Destroyed'
    BY DEF IInv, Cycle, Destroyed, Recovering, Pending, SenseLevels, AfterSupply, AfterRecovery,
       AfterStop, AfterSwitch, AfterInterrupts
  <2> QED BY <2>1, <2>2, <2>3, <2>4 DEF IInv
<1>7. CASE CheckPending
  <2> USE <1>7 DEF CheckPending
  <2>1. TypeOK'
    BY DEF IInv, TypeOK, Items
  <2>2. Cycle'
    BY DEF IInv, Cycle, Recovering, Pending
  <2>3. Listening'
    BY DEF IInv, Listening, AtRest
  <2>4. Destroyed'
    BY DEF IInv, Cycle, Destroyed, Recovering, Pending, SenseLevels, AfterSupply, AfterRecovery,
       AfterStop, AfterSwitch, AfterInterrupts
  <2> QED BY <2>1, <2>2, <2>3, <2>4 DEF IInv
<1>8. CASE OutputsOff
  <2> USE <1>8 DEF OutputsOff
  <2>1. TypeOK'
    BY DEF IInv, TypeOK, Items
  <2>2. Cycle'
    BY DEF IInv, Cycle, Recovering, Pending
  <2>3. Listening'
    BY DEF IInv, Listening, AtRest
  <2>4. Destroyed'
    BY DEF IInv, Cycle, Destroyed, Recovering, Pending, SenseLevels, AfterSupply, AfterRecovery,
       AfterStop, AfterSwitch, AfterInterrupts
  <2> QED BY <2>1, <2>2, <2>3, <2>4 DEF IInv
<1> QED BY <1>1, <1>2, <1>3, <1>4, <1>5, <1>6, <1>7, <1>8
        DEF destructors

\* A restart leaves what Init has, but for the environment.
LEMMA RestartInvariant == IInv /\ Restart => IInv'
<1> SUFFICES ASSUME IInv, Restart PROVE IInv'
  OBVIOUS
<1> USE DEF Restart, NoSense, environment
<1>1. TypeOK'
  <2>1. (sense \in [{"sw0", "sw1"} -> {"none", "high", "low"}])'
    OBVIOUS
  <2>2. (\A flag \in {main_loop_event, usb_was_connected, change_callback, stop,
                      usb_connected, measuring, interrupts, cable} : flag \in BOOLEAN)'
    BY Zenon DEF IInv, TypeOK
  <2> QED BY <2>1, <2>2 DEF IInv, TypeOK
<1>2. Cycle'
  BY DEF Cycle, Recovering, Pending
<1>3. Listening'
  BY DEF Listening, AtRest
<1>4. Destroyed'
  BY DEF Destroyed, AfterSupply, AfterRecovery, AfterStop, AfterSwitch, AfterInterrupts
<1> QED BY <1>1, <1>2, <1>3, <1>4 DEF IInv

LEMMA StutterInvariant == IInv /\ UNCHANGED vars => IInv'
<1> SUFFICES ASSUME IInv, UNCHANGED vars PROVE IInv'
  OBVIOUS
<1> USE DEF vars, main, supply, work, switch, environment
<1>1. TypeOK'
  BY DEF IInv, TypeOK
<1>2. Cycle' /\ Listening'
  BY DEF IInv, Cycle, Listening, AtRest, Recovering, Pending
<1>3. Destroyed'
  BY DEF IInv, Destroyed, Recovering, Pending, SenseLevels
<1> QED BY <1>1, <1>2, <1>3 DEF IInv

(***************************************************************************)
(* The inductive invariant of the former firmware: the two work items of   *)
(* the supply alternate, and each destructor leaves nothing behind that a  *)
(* later step could start again.                                           *)
(***************************************************************************)
THEOREM FormerInvariant == Spec => []IInv
<1>1. Init => IInv
  BY InitInvariant
<1>2. IInv /\ [Next]_vars => IInv'
  <2> SUFFICES ASSUME IInv, [Next]_vars PROVE IInv'
    OBVIOUS
  <2>1. CASE main_thread
    BY <2>1, RunKeyboardInvariant, DestructorsInvariant, RestartInvariant DEF main_thread
  <2>2. CASE workqueue
    BY <2>2, WorkqueueInvariant
  <2>3. CASE Cable
    BY <2>3, CableInvariant
  <2>4. CASE \E line \in {"sw0", "sw1"} : Line(line)
    BY <2>4, LineInvariant
  <2>5. CASE \E item \in Items : Expire(item)
    BY <2>5, ExpireInvariant
  <2>6. CASE UNCHANGED vars
    BY <2>6, StutterInvariant
  <2> QED BY <2>1, <2>2, <2>3, <2>4, <2>5, <2>6 DEF Next
<1> QED BY <1>1, <1>2, PTL DEF Spec

\* The battery voltage is never measured while charging or balancing.
THEOREM FormerMeasuredAtRest == Spec => []MeasuredAtRest
<1>1. IInv => MeasuredAtRest
  BY DEF IInv, Cycle, Listening, Recovering, MeasuredAtRest, AtRest
<1> QED BY <1>1, FormerInvariant, PTL

(***************************************************************************)
(* After the destructors no work item is left, nothing is charged or       *)
(* balanced, and System OFF ends exactly when the switch has moved.        *)
(***************************************************************************)
THEOREM FormerDownAtRest == Spec => []DownAtRest
<1>1. IInv => DownAtRest
  <2> SUFFICES ASSUME IInv, pc \in {"off", "reboot"} PROVE AtRest /\ (Senses <=> Moved)
    BY DEF DownAtRest
  <2>1. ~interrupts /\ ~measuring /\ outputs = {}
    BY DEF IInv, Destroyed, Recovering, AfterSupply, AfterRecovery, AfterStop, AfterSwitch, AfterInterrupts
  <2>2. \A item \in Items : ~Pending(item)
    BY DEF IInv, Destroyed, Listening, Cycle, Recovering, Pending, Items, AfterSupply,
       AfterRecovery, AfterStop, AfterSwitch
  <2>3. delayed = {} /\ queued = {}
    BY <2>2 DEF IInv, TypeOK, Pending
  <2>4. sense = SenseLevels(position) /\ position \in 0..2 /\ lines \subseteq {"sw0", "sw1"}
    BY DEF IInv, TypeOK, Destroyed, AfterSupply, AfterRecovery, AfterStop, AfterSwitch
  <2>5. Senses <=> Moved
    <3>1. Senses <=> \/ sense["sw0"] = (IF "sw0" \in lines THEN "high" ELSE "low")
                     \/ sense["sw1"] = (IF "sw1" \in lines THEN "high" ELSE "low")
      BY DEF Senses
    <3>2. Moved <=> \/ ("sw0" \in lines) # (position = 1)
                    \/ ("sw1" \in lines) # (position = 2)
      <4> DEFINE Named == {line \in {"sw0", "sw1"} : position = IF line = "sw0" THEN 1 ELSE 2}
      <4>1. lines = Named <=> \A line \in {"sw0", "sw1"} : line \in lines <=> line \in Named
        BY <2>4
      <4>2. ("sw0" \in Named <=> position = 1) /\ ("sw1" \in Named <=> position = 2)
        OBVIOUS
      <4>3. Moved <=> lines # Named
        BY DEF Moved
      <4> QED BY <4>1, <4>2, <4>3
    <3> QED BY <2>4, <3>1, <3>2 DEF SenseLevels
  <2> QED BY <2>1, <2>3, <2>5 DEF AtRest
<1> QED BY <1>1, FormerInvariant, PTL
----------------------------------------------------------------------------
(***************************************************************************)
(* The pairing (unifying.c over unifying_radio.c).                         *)
(***************************************************************************)

\* Each state is ready once what the response before it carries is known.
LEMMA ReadyStates ==
    /\ {"REQUEST_1", "RESPONSE_1", "ACCEPT_ADDRESS"} \subseteq Ready
    /\ {"REQUEST_2", "RESPONSE_2"} \subseteq Ready <=> assigned
    /\ {"REQUEST_3", "RESPONSE_3", "REQUEST_4", "UPDATE"} \subseteq Ready
           <=> assigned /\ device_key
    /\ Ready \subseteq Packets
BY DEF Ready, Packets, PairingStates, Pipe

\* Entering a pairing state that is ready keeps the queue in order.
LEMMA EnterInOrder ==
    ASSUME OrderInv, NEW s \in PairingStates, EnterState(s),
           Ready \subseteq Ready', s \in Ready',
           s = "ACCEPT_ADDRESS" => assigned'
    PROVE  OrderInv'
<1>1. state' = s /\ tx_payload' = s /\ tx_fifo' = Append(tx_fifo, s)
    BY DEF EnterState, SendPacket, Retransmit, WritePayload
<1>2. tx_fifo \in Seq(Ready')
    BY DEF OrderInv, InOrder
<1>3. tx_fifo' \in Seq(Ready') /\ tx_fifo' # <<>>
    BY <1>1, <1>2
<1>4. s \in States /\ s # "CONNECTED"
    BY DEF States, PairingStates
<1>. QED  BY <1>1, <1>3, <1>4 DEF OrderInv, InOrder, StateReady

\* The pairing starts with the first request, which presumes nothing.
LEMMA OrderInitial == PairingInit => OrderInv
<1>. SUFFICES ASSUME PairingInit PROVE OrderInv
    OBVIOUS
<1>1. "REQUEST_1" \in Ready
    BY ReadyStates
<1>. QED
    BY <1>1 DEF PairingInit, OrderInv, InOrder, StateReady, States, PairingStates

\* No event, in whatever order the driver merges and delivers them, brings a
\* packet into the queue before its time.
LEMMA OrderInductive == OrderInv /\ [PairingNext]_pairing_vars => OrderInv'
<1>. SUFFICES ASSUME OrderInv, [PairingNext]_pairing_vars PROVE OrderInv'
    OBVIOUS
<1>. USE DEF OrderInv, InOrder
<1>1. CASE Transmit
    <2>1. transmitting /\ UNCHANGED <<state, assigned, device_key, tx_payload>>
        BY <1>1 DEF Transmit, Acknowledged, NotHeard, AcknowledgementLost,
            Unanswered, Transmission, unifying, radio
    <2>2. /\ tx_fifo' \in {tx_fifo, Tail(tx_fifo)}
          /\ transmitting' => tx_fifo' # <<>>
        BY <1>1 DEF Transmit, Acknowledged, NotHeard, AcknowledgementLost,
            Unanswered
    <2>3. Ready' = Ready
        BY <2>1 DEF Ready
    <2>4. tx_fifo # <<>> /\ tx_fifo \in Seq(Ready)
        BY <2>1
    <2>5. tx_fifo' \in Seq(Ready)
        BY <2>2, <2>4
    <2>. QED  BY <2>1, <2>2, <2>3, <2>5 DEF StateReady
<1>2. CASE Interrupt \/ RxEmpty \/ UNCHANGED pairing_vars
    <2>1. UNCHANGED <<state, assigned, device_key, tx_payload, tx_fifo, transmitting>>
        BY <1>2 DEF Interrupt, RxEmpty, pairing_vars, unifying, radio
    <2>2. Ready' = Ready
        BY <2>1 DEF Ready
    <2>. QED  BY <2>1, <2>2 DEF StateReady
<1>3. CASE TxSuccess
    <2>1. Ready' = Ready
        BY <1>3 DEF TxSuccess, Ready
    <2>2. CASE state \in DOMAIN AfterSuccess /\ EnterState(AfterSuccess[state])
        <3>. DEFINE s == AfterSuccess[state]
        <3>1. /\ s \in {"RESPONSE_1", "REQUEST_2", "RESPONSE_2", "RESPONSE_3"}
              /\ \/ state = "REQUEST_1" /\ s = "RESPONSE_1"
                 \/ state = "ACCEPT_ADDRESS" /\ s = "REQUEST_2"
                 \/ state = "REQUEST_2" /\ s = "RESPONSE_2"
                 \/ state = "REQUEST_3" /\ s = "RESPONSE_3"
            BY <2>2 DEF AfterSuccess
        <3>2. s \in Ready
            BY <3>1, ReadyStates DEF StateReady, PairingStates, Ready, Packets, Pipe
        <3>3. s \in PairingStates /\ s # "ACCEPT_ADDRESS"
            BY <3>1 DEF PairingStates
        <3>. HIDE DEF s
        <3>. QED  BY <2>2, <2>1, <3>2, <3>3, EnterInOrder DEF s
    <2>3. CASE state = "REQUEST_4" /\ state' = "CONNECTED" /\ NothingSent
        <3>1. "UPDATE" \in Ready
            BY <2>3 DEF StateReady, PairingStates, Ready, Packets, Pipe
        <3>. QED
            BY <2>1, <2>3, <3>1 DEF NothingSent, radio, StateReady, States,
                PairingStates
    <2>4. CASE UNCHANGED state /\ NothingSent
        BY <2>1, <2>4, <1>3 DEF NothingSent, radio, StateReady, TxSuccess
    <2>. QED  BY <1>3, <2>2, <2>3, <2>4 DEF TxSuccess
<1>4. CASE TxFailed
    <2>1. Ready' = Ready /\ UNCHANGED <<assigned, tx_payload>>
        BY <1>4 DEF TxFailed, Ready
    <2>2. /\ tx_fifo' = <<>> \/ tx_fifo' = Append(<<>>, tx_payload)
          /\ transmitting' => tx_fifo' = Append(<<>>, tx_payload)
        BY <1>4 DEF TxFailed, WriteAgain, WritePayload
    <2>3. <<>> \in Seq(Ready) /\ Append(<<>>, tx_payload) \in Seq(Ready)
              /\ Append(<<>>, tx_payload) # <<>>
        BY DEF StateReady
    <2>4. state' = state \/ state' = "UNPAIRED"
        BY <1>4 DEF TxFailed, GiveUp
    <2>5. "UNPAIRED" \in States \ PairingStates
        BY DEF States, PairingStates
    <2>6. tx_fifo' \in Seq(Ready') /\ (transmitting' => tx_fifo' # <<>>)
        BY <2>1, <2>2, <2>3
    <2>7. StateReady' /\ state' \in States
        BY <2>1, <2>4, <2>5 DEF StateReady
    <2>. QED  BY <2>6, <2>7
<1>5. CASE RxReceived
    <2>1. CASE Accepts(Head(rx_fifo)) /\ EnterState(AfterResponse[state])
        <3>. DEFINE s == AfterResponse[state]
        <3>1. /\ assigned' = (assigned \/ state = "RESPONSE_1")
              /\ device_key' = (device_key \/ state = "RESPONSE_2")
            BY <1>5, <2>1, Zenon DEF RxReceived
        <3>2. /\ assigned => assigned'
              /\ device_key => device_key'
              /\ state = "RESPONSE_1" => assigned'
              /\ state = "RESPONSE_2" => device_key'
            BY <3>1, Zenon
        <3>3. \/ state = "RESPONSE_1" /\ s = "ACCEPT_ADDRESS"
              \/ state = "RESPONSE_2" /\ s = "REQUEST_3"
              \/ state = "RESPONSE_3" /\ s = "REQUEST_4"
            BY <2>1 DEF Accepts, AfterResponse
        <3>4. Ready \subseteq Ready'
            BY <3>2 DEF Ready
        <3>5. s \in Ready'
            BY <3>2, <3>3 DEF StateReady, PairingStates, Ready, Packets, Pipe
        <3>6. s \in PairingStates
            BY <3>3 DEF PairingStates
        <3>7. s = "ACCEPT_ADDRESS" => assigned'
            BY <3>2, <3>3
        <3>. HIDE DEF s
        <3>. QED  BY <2>1, <3>4, <3>5, <3>6, <3>7, EnterInOrder DEF s
    <2>2. CASE UNCHANGED <<state, assigned, device_key>> /\ NothingSent
        <3>1. Ready' = Ready
            BY <2>2 DEF Ready
        <3>. QED  BY <2>2, <3>1 DEF NothingSent, radio, StateReady
    <2>. QED  BY <1>5, <2>1, <2>2 DEF RxReceived
<1>6. CASE Update
    <2>1. Ready' = Ready
        BY <1>6 DEF Update, Ready
    <2>. QED  BY <1>6, <2>1 DEF Update, StateReady
<1>7. CASE UpdateSends
    <2>1. Ready' = Ready
        BY <1>7 DEF UpdateSends, Ready
    <2>2. tx_fifo' = Append(tx_fifo, tx_payload) /\ tx_payload \in Ready
        BY <1>7 DEF UpdateSends, Retransmit, WritePayload, StateReady
    <2>3. tx_fifo' \in Seq(Ready) /\ tx_fifo' # <<>>
        BY <2>2
    <2>. QED  BY <1>7, <2>1, <2>3 DEF UpdateSends, StateReady
<1>. QED  BY <1>1, <1>2, <1>3, <1>4, <1>5, <1>6, <1>7
          DEF PairingNext, event_handler, update_timer_handler

(***************************************************************************)
(* Whatever is lost, merged or repeated, no packet is sent on pipe 1       *)
(* before its address was assigned, and none that presumes the key before  *)
(* it was derived.                                                         *)
(***************************************************************************)
THEOREM PairingInOrder == PairingSpec => []InOrder
<1>1. OrderInv => InOrder
    BY DEF OrderInv
<1>. QED  BY <1>1, OrderInitial, OrderInductive, PTL DEF PairingSpec

----------------------------------------------------------------------------
\* The next channel, without the remainder.
LEMMA NextOfChannel ==
    ASSUME PairingTypeOK
    PROVE  /\ NextChannel \in Channels
           /\ NextChannel = IF current_channel = ChannelCount - 1 THEN 0
                            ELSE current_channel + 1
<1>. DEFINE n == current_channel + 1
<1>1. n \in 1..ChannelCount
    BY ChannelAssumption DEF PairingTypeOK, Channels
<1>2. n < ChannelCount => n % ChannelCount = n
    BY <1>1, ChannelAssumption
<1>3. ChannelCount % ChannelCount = 0
    BY ChannelAssumption
<1>. QED  BY <1>1, <1>2, <1>3, ChannelAssumption DEF NextChannel, PairingTypeOK, Channels

\* What a transmission does: its packet is acknowledged, or it fails.
LEMMA TransmitSteps ==
    ASSUME PairingTypeOK, Transmit
    PROVE  /\ transmitting /\ tx_fifo # <<>>
           /\ UNCHANGED <<state, assigned, device_key, timer_pc, tx_payload,
                  current_channel, failover_start_channel, failover_loop, written,
                  handling>>
           /\ "TX_FAILED" \in handling => "TX_SUCCESS" \in handling
           /\ events' \subseteq {"TX_SUCCESS", "TX_FAILED", "RX_RECEIVED"}
           /\ \/ /\ tx_fifo' = Tail(tx_fifo) /\ transmitting' = (tx_fifo' # <<>>)
                 /\ "TX_SUCCESS" \in events'
                 /\ "TX_FAILED" \in events' <=> "TX_FAILED" \in events
              \/ /\ tx_fifo' = tx_fifo /\ transmitting' = FALSE
                 /\ "TX_FAILED" \in events'
                 /\ "TX_SUCCESS" \in events' <=> "TX_SUCCESS" \in events
           /\ rx_fifo' \in Seq(Payloads) /\ answer' \in 0..3
           /\ ThirdAnswered' => ThirdAnswered \/ tx_fifo[1] = "REQUEST_3"
<1>1. transmitting /\ tx_fifo # <<>> /\ UNCHANGED <<state, assigned, device_key,
          timer_pc, tx_payload, current_channel, failover_start_channel,
          failover_loop, written, handling>>
      /\ ("TX_FAILED" \in handling => "TX_SUCCESS" \in handling)
    BY DEF PairingTypeOK, Transmit, Acknowledged, NotHeard, AcknowledgementLost,
        Unanswered, Transmission, unifying, radio
<1>2. tx_fifo \in Seq(Packets) /\ Head(tx_fifo) = tx_fifo[1] /\ tx_fifo[1] \in Packets
    BY <1>1 DEF PairingTypeOK
<1>3. ASSUME NEW payload \in 0..Malformed, Hear(Head(tx_fifo), payload)
      PROVE  /\ answer' \in 0..3
             /\ answer' = 3 => answer = 3 \/ tx_fifo[1] = "REQUEST_3"
             /\ payload = 3 => answer = 3
    BY <1>2, <1>3 DEF Hear, RequestNumber, Malformed, PairingTypeOK
<1>4. ASSUME NEW payload \in 0..Malformed, Acknowledged(payload)
      PROVE  /\ tx_fifo' = Tail(tx_fifo) /\ transmitting' = (tx_fifo' # <<>>)
             /\ "TX_SUCCESS" \in events'
             /\ "TX_FAILED" \in events' <=> "TX_FAILED" \in events
             /\ events' \subseteq {"TX_SUCCESS", "TX_FAILED", "RX_RECEIVED"}
             /\ answer' \in 0..3 /\ rx_fifo' \in Seq(Payloads)
             /\ ThirdAnswered' => ThirdAnswered \/ tx_fifo[1] = "REQUEST_3"
    <2>. DEFINE new == [response |-> payload, pipe |-> Pipe(Head(tx_fifo))]
    <2>1. /\ tx_fifo' = Tail(tx_fifo) /\ transmitting' = (tx_fifo' # <<>>)
          /\ \/ payload = 0 /\ events' = events \cup {"TX_SUCCESS"} /\ UNCHANGED rx_fifo
             \/ /\ payload # 0
                /\ events' = events \cup {"TX_SUCCESS", "RX_RECEIVED"}
                /\ rx_fifo' = Append(rx_fifo, new)
        BY <1>4 DEF Acknowledged
    <2>2. payload # 0 => new \in Payloads
        BY DEF Payloads, Malformed, Pipe
    <2>3. rx_fifo \in Seq(Payloads)
        BY DEF PairingTypeOK
    <2>4. rx_fifo' \in Seq(Payloads)
        BY <2>1, <2>2, <2>3
    <2>5. ASSUME NEW i \in 1..Len(rx_fifo'), rx_fifo'[i].response = 3
          PROVE  ThirdAnswered
        <3>1. CASE rx_fifo' = rx_fifo
            BY <3>1, <2>5 DEF ThirdAnswered
        <3>2. CASE rx_fifo' = Append(rx_fifo, new) /\ i \in 1..Len(rx_fifo)
            <4>1. rx_fifo'[i] = rx_fifo[i]
                BY <3>2, <2>3
            <4>. QED  BY <4>1, <3>2, <2>5 DEF ThirdAnswered
        <3>3. CASE rx_fifo' = Append(rx_fifo, new) /\ i \notin 1..Len(rx_fifo)
            <4>1. i = Len(rx_fifo) + 1 /\ rx_fifo'[i] = new
                BY <3>3, <2>3
            <4>2. payload = 3
                BY <4>1, <2>5
            <4>. QED  BY <4>2, <1>3, <1>4 DEF Acknowledged, ThirdAnswered
        <3>. QED  BY <2>1, <3>1, <3>2, <3>3
    <2>6. ThirdAnswered' => ThirdAnswered \/ tx_fifo[1] = "REQUEST_3"
        BY <2>5, <1>3, <1>4 DEF Acknowledged, ThirdAnswered
    <2>7. answer' \in 0..3
        BY <1>3, <1>4 DEF Acknowledged
    <2>8. events' \subseteq {"TX_SUCCESS", "TX_FAILED", "RX_RECEIVED"}
        BY <2>1 DEF PairingTypeOK
    <2>. QED  BY <2>1, <2>4, <2>6, <2>7, <2>8
<1>5. ASSUME NEW payload \in 0..Malformed, AcknowledgementLost(payload) \/ NotHeard
      PROVE  /\ tx_fifo' = tx_fifo /\ transmitting' = FALSE
             /\ "TX_FAILED" \in events'
             /\ "TX_SUCCESS" \in events' <=> "TX_SUCCESS" \in events
             /\ events' \subseteq {"TX_SUCCESS", "TX_FAILED", "RX_RECEIVED"}
             /\ answer' \in 0..3 /\ rx_fifo' \in Seq(Payloads)
             /\ ThirdAnswered' => ThirdAnswered \/ tx_fifo[1] = "REQUEST_3"
    <2>1. tx_fifo' = tx_fifo /\ transmitting' = FALSE /\ rx_fifo' = rx_fifo
              /\ events' = events \cup {"TX_FAILED"}
        BY <1>5 DEF AcknowledgementLost, NotHeard, Unanswered
    <2>2. answer' \in 0..3 /\ (answer' = 3 => answer = 3 \/ tx_fifo[1] = "REQUEST_3")
        BY <1>5, <1>3 DEF AcknowledgementLost, NotHeard, PairingTypeOK
    <2>. QED  BY <2>1, <2>2 DEF PairingTypeOK, ThirdAnswered
<1>6. CASE \E payload \in 0..Malformed : Acknowledged(payload)
    BY <1>6, <1>1, <1>4, Zenon
<1>7. CASE \E payload \in 0..Malformed : AcknowledgementLost(payload) \/ NotHeard
    BY <1>7, <1>1, <1>5, Zenon
<1>8. 0 \in 0..Malformed
    BY DEF Malformed
<1>. QED  BY <1>6, <1>7, <1>8, Zenon DEF Transmit

\* What a send does: the failover starts again, from this channel.
LEMMA RetransmitSteps ==
    ASSUME PairingTypeOK, NEW packet \in Packets, Retransmit(packet),
           UNCHANGED current_channel
    PROVE  /\ tx_fifo' = Append(tx_fifo, packet) /\ transmitting' = TRUE
           /\ tx_fifo' \in Seq(Packets) /\ tx_fifo' # <<>>
           /\ Len(tx_fifo') = Len(tx_fifo) + 1
           /\ Fresh' /\ failover_loop' = 0
           /\ written' \in [Channels -> Nat]
           /\ \A c \in Channels : written'[c] = Tried(c)'
<1>1. /\ tx_fifo' = Append(tx_fifo, packet) /\ transmitting' = TRUE
      /\ failover_start_channel' = current_channel /\ failover_loop' = 0
      /\ written' = [c \in Channels |-> IF c = current_channel THEN 1 ELSE 0]
    BY DEF Retransmit, WritePayload
<1>2. ASSUME NEW c \in Channels PROVE written'[c] = Tried(c)'
    BY <1>1, ChannelAssumption DEF Tried, Distance, Channels, PairingTypeOK
<1>3. tx_fifo' \in Seq(Packets) /\ tx_fifo' # <<>> /\ Len(tx_fifo') = Len(tx_fifo) + 1
    BY <1>1 DEF PairingTypeOK
<1>4. written' \in [Channels -> Nat]
    BY <1>1
<1>. QED  BY <1>1, <1>2, <1>3, <1>4 DEF Fresh

\* What a failure does: the queue holds the packet again, or nothing.
LEMMA FailedSteps ==
    ASSUME PairingTypeOK, TxFailed
    PROVE  /\ "TX_FAILED" \in handling /\ "TX_SUCCESS" \notin handling
           /\ handling' = handling \ {"TX_FAILED"}
           /\ current_channel' = NextChannel
           /\ \/ /\ state' = state /\ tx_fifo' = Append(<<>>, tx_payload) /\ transmitting' = TRUE
                 /\ written' = [written EXCEPT ![NextChannel] = @ + 1]
                 /\ \/ ~LoopEnds /\ failover_loop' = failover_loop
                    \/ /\ LoopEnds /\ failover_loop' = failover_loop + 1
                       /\ failover_loop' # FAILOVER_LOOP_COUNT
              \/ /\ GiveUp /\ tx_fifo' = <<>> /\ transmitting' = FALSE /\ UNCHANGED written
                 /\ LoopEnds /\ failover_loop' = failover_loop + 1
                 /\ failover_loop' = FAILOVER_LOOP_COUNT
           /\ UNCHANGED <<assigned, device_key, timer_pc, tx_payload,
                          failover_start_channel, rx_fifo, events, answer>>
BY DEF TxFailed, WriteAgain, WritePayload, PairingTypeOK

\* What the handlers of a success and of a response do: they enter the state
\* that follows and send its packet, or send nothing.
LEMMA EnterSteps ==
    ASSUME PairingTypeOK, NEW s \in PairingStates, EnterState(s)
    PROVE  /\ state' = s /\ tx_payload' = s /\ UNCHANGED current_channel
           /\ Retransmit(s)
BY DEF EnterState, SendPacket

LEMMA SuccessSteps ==
    ASSUME PairingTypeOK, TxSuccess
    PROVE  /\ "TX_SUCCESS" \in handling /\ handling' = handling \ {"TX_SUCCESS"}
           /\ \/ /\ \/ state = "REQUEST_1" /\ state' = "RESPONSE_1"
                    \/ state = "ACCEPT_ADDRESS" /\ state' = "REQUEST_2"
                    \/ state = "REQUEST_2" /\ state' = "RESPONSE_2"
                    \/ state = "REQUEST_3" /\ state' = "RESPONSE_3"
                 /\ EnterState(state')
              \/ state = "REQUEST_4" /\ state' = "CONNECTED" /\ NothingSent
              \/ /\ state' = state /\ NothingSent
                 /\ state \notin {"REQUEST_1", "ACCEPT_ADDRESS", "REQUEST_2", "REQUEST_3",
                                  "REQUEST_4"}
           /\ UNCHANGED <<assigned, device_key, timer_pc, rx_fifo, events, answer>>
<1>1. CASE state \in DOMAIN AfterSuccess /\ EnterState(AfterSuccess[state])
    <2>1. \/ state = "REQUEST_1" /\ AfterSuccess[state] = "RESPONSE_1"
          \/ state = "ACCEPT_ADDRESS" /\ AfterSuccess[state] = "REQUEST_2"
          \/ state = "REQUEST_2" /\ AfterSuccess[state] = "RESPONSE_2"
          \/ state = "REQUEST_3" /\ AfterSuccess[state] = "RESPONSE_3"
        BY <1>1 DEF AfterSuccess
    <2>2. state' = AfterSuccess[state]
        BY <1>1 DEF EnterState
    <2>. QED  BY <1>1, <2>1, <2>2 DEF TxSuccess
<1>2. DOMAIN AfterSuccess = {"REQUEST_1", "ACCEPT_ADDRESS", "REQUEST_2", "REQUEST_3"}
    BY DEF AfterSuccess
<1>. QED  BY <1>1, <1>2 DEF TxSuccess

LEMMA ReceivedSteps ==
    ASSUME PairingTypeOK, RxReceived
    PROVE  /\ handling = {"RX_RECEIVED"} /\ rx_fifo # <<>> /\ rx_fifo' = Tail(rx_fifo)
           /\ \/ /\ \/ state = "RESPONSE_1" /\ state' = "ACCEPT_ADDRESS"
                    \/ state = "RESPONSE_2" /\ state' = "REQUEST_3"
                    \/ state = "RESPONSE_3" /\ state' = "REQUEST_4" /\ ThirdAnswered
                 /\ EnterState(state')
              \/ state' = state /\ NothingSent
           /\ assigned' \in BOOLEAN /\ device_key' \in BOOLEAN
           /\ UNCHANGED <<timer_pc, events, handling, answer>>
<1>1. CASE Accepts(Head(rx_fifo)) /\ EnterState(AfterResponse[state])
    <2>1. rx_fifo # <<>> /\ rx_fifo \in Seq(Payloads)
        BY DEF RxReceived, PairingTypeOK
    <2>2. Head(rx_fifo) = rx_fifo[1] /\ 1 \in 1..Len(rx_fifo)
        BY <2>1
    <2>3. \/ state = "RESPONSE_1" /\ AfterResponse[state] = "ACCEPT_ADDRESS"
          \/ state = "RESPONSE_2" /\ AfterResponse[state] = "REQUEST_3"
          \/ /\ state = "RESPONSE_3" /\ AfterResponse[state] = "REQUEST_4"
             /\ ThirdAnswered
        BY <1>1, <2>2 DEF Accepts, AfterResponse, ThirdAnswered
    <2>4. state' = AfterResponse[state]
        BY <1>1 DEF EnterState
    <2>5. /\ assigned' = (assigned \/ state = "RESPONSE_1")
          /\ device_key' = (device_key \/ state = "RESPONSE_2")
        BY <1>1, Zenon DEF RxReceived
    <2>6. assigned' \in BOOLEAN /\ device_key' \in BOOLEAN
        BY <2>5, Zenon
    <2>. QED  BY <1>1, <2>3, <2>4, <2>6 DEF RxReceived
<1>2. CASE UNCHANGED <<state, assigned, device_key>> /\ NothingSent
    BY <1>2 DEF RxReceived, PairingTypeOK
<1>. QED  BY <1>1, <1>2 DEF RxReceived

\* Nothing sent: the variables of the radio stay.
LEMMA NothingSteps ==
    ASSUME NothingSent
    PROVE  UNCHANGED <<tx_payload, current_channel, failover_start_channel,
                       failover_loop, written, tx_fifo, transmitting>>
BY DEF NothingSent, radio

\* The type invariant of the pairing.
LEMMA PairingTypeInitial == PairingInit => PairingTypeOK
<1>. SUFFICES ASSUME PairingInit PROVE PairingTypeOK
    OBVIOUS
<1>1. assigned \in BOOLEAN /\ device_key \in BOOLEAN /\ transmitting \in BOOLEAN
    BY Zenon DEF PairingInit
<1>2. "REQUEST_1" \in Packets
    BY DEF Packets, PairingStates
<1>. QED  BY <1>1, <1>2, ChannelAssumption
          DEF PairingInit, PairingTypeOK, States, PairingStates, Channels

LEMMA PairingTypeInductive ==
    PairingTypeOK /\ [PairingNext]_pairing_vars => PairingTypeOK'
<1>. SUFFICES ASSUME PairingTypeOK, [PairingNext]_pairing_vars PROVE PairingTypeOK'
    OBVIOUS
<1>0. PairingStates \subseteq States /\ PairingStates \subseteq Packets
    BY DEF States, Packets
<1>1. CASE Transmit
    <2>1. tx_fifo' \in Seq(Packets) /\ transmitting' \in BOOLEAN
              /\ (transmitting' => tx_fifo' # <<>>)
        <3>1. tx_fifo' \in Seq(Packets)
            <4>1. tx_fifo # <<>> /\ (tx_fifo' = Tail(tx_fifo) \/ tx_fifo' = tx_fifo)
                BY <1>1, TransmitSteps
            <4>2. tx_fifo \in Seq(Packets)
                BY DEF PairingTypeOK
            <4>. QED  BY <4>1, <4>2
        <3>2. transmitting' \in BOOLEAN
            BY <1>1, TransmitSteps, Zenon
        <3>3. transmitting' => tx_fifo' # <<>>
            BY <1>1, TransmitSteps
        <3>. QED  BY <3>1, <3>2, <3>3
    <2>. QED  BY <2>1, <1>1, TransmitSteps DEF PairingTypeOK
<1>2. CASE Interrupt \/ RxEmpty \/ UNCHANGED pairing_vars
    BY <1>2 DEF Interrupt, RxEmpty, pairing_vars, unifying, radio, PairingTypeOK
<1>3. ASSUME NEW s \in PairingStates, EnterState(s)
      PROVE  /\ state' \in States /\ tx_payload' \in Packets
             /\ {current_channel', failover_start_channel'} \subseteq Channels
             /\ failover_loop' \in Nat /\ tx_fifo' \in Seq(Packets)
             /\ transmitting' \in BOOLEAN /\ tx_fifo' # <<>>
             /\ written' \in [Channels -> Nat]
    <2>1. Retransmit(s) /\ UNCHANGED current_channel /\ s \in Packets
        BY <1>3, <1>0, EnterSteps
    <2>2. state' = s /\ tx_payload' = s
        BY <1>3, EnterSteps
    <2>3. /\ tx_fifo' \in Seq(Packets) /\ tx_fifo' # <<>> /\ transmitting' = TRUE
          /\ Fresh' /\ written' \in [Channels -> Nat]
        BY <2>1, RetransmitSteps
    <2>. QED  BY <2>1, <2>2, <2>3, <1>0 DEF PairingTypeOK, Fresh
<1>4. CASE TxSuccess
    <2>0. /\ handling' \subseteq handling
          /\ UNCHANGED <<assigned, device_key, timer_pc, rx_fifo, events, answer>>
        BY <1>4 DEF TxSuccess
    <2>1. CASE NothingSent /\ (state' = state \/ state' = "CONNECTED")
        BY <2>0, <2>1 DEF NothingSent, radio, PairingTypeOK, States
    <2>2. CASE EnterState(state') /\ state' \in PairingStates
        BY <2>0, <2>2, <1>3 DEF PairingTypeOK
    <2>. QED  BY <1>4, <2>1, <2>2, SuccessSteps DEF PairingStates
<1>5. CASE TxFailed
    <2>1. tx_fifo' \in Seq(Packets) /\ (transmitting' => tx_fifo' # <<>>)
              /\ transmitting' \in BOOLEAN /\ failover_loop' \in Nat
        <3>1. \/ tx_fifo' = <<>> /\ transmitting' = FALSE
              \/ tx_fifo' = Append(<<>>, tx_payload) /\ transmitting' = TRUE
            BY <1>5 DEF TxFailed, WriteAgain, WritePayload
        <3>2. tx_payload \in Packets /\ failover_loop' \in Nat
            BY <1>5 DEF TxFailed, PairingTypeOK
        <3>3. transmitting' \in BOOLEAN
            BY <3>1, Zenon
        <3>4. /\ <<>> \in Seq(Packets) /\ Append(<<>>, tx_payload) \in Seq(Packets)
              /\ Append(<<>>, tx_payload) # <<>>
            BY <3>2
        <3>. QED  BY <3>1, <3>2, <3>3, <3>4
    <2>2. state' \in States
        BY <1>5, FailedSteps DEF PairingTypeOK, GiveUp, States
    <2>3. written' \in [Channels -> Nat]
        BY <1>5, NextOfChannel DEF TxFailed, PairingTypeOK
    <2>. QED  BY <2>1, <2>2, <2>3, <1>5, FailedSteps, NextOfChannel DEF PairingTypeOK
<1>6. CASE RxReceived
    <2>1. rx_fifo' \in Seq(Payloads)
        BY <1>6 DEF RxReceived, PairingTypeOK
    <2>2. CASE NothingSent /\ state' = state
        BY <2>1, <2>2, <1>6, NothingSteps, ReceivedSteps DEF PairingTypeOK
    <2>3. CASE EnterState(state') /\ state' \in PairingStates
        BY <2>1, <2>3, <1>3, <1>6, ReceivedSteps DEF PairingTypeOK
    <2>. QED  BY <1>6, <2>2, <2>3, ReceivedSteps DEF PairingStates
<1>7. CASE Update
    BY <1>7 DEF Update, PairingTypeOK, Packets
<1>8. CASE UpdateSends
    <2>1. Retransmit(tx_payload) /\ UNCHANGED current_channel /\ tx_payload \in Packets
        BY <1>8 DEF UpdateSends, PairingTypeOK
    <2>2. /\ tx_fifo' \in Seq(Packets) /\ tx_fifo' # <<>> /\ transmitting' = TRUE
          /\ Fresh' /\ written' \in [Channels -> Nat]
        BY <2>1, RetransmitSteps
    <2>. QED  BY <1>8, <2>2 DEF UpdateSends, PairingTypeOK, Fresh
<1>. QED  BY <1>1, <1>2, <1>4, <1>5, <1>6, <1>7, <1>8
          DEF PairingNext, event_handler, update_timer_handler

\* ThirdWithin, when the first packet leaves the queue and when one is added.
LEMMA WithinTail ==
    ASSUME PairingTypeOK, tx_fifo # <<>>, tx_fifo' = Tail(tx_fifo),
           NEW places \in 0..2, ThirdWithin(places)
    PROVE  ThirdWithin(places)'
<1>. SUFFICES ASSUME NEW i \in 1..Len(tx_fifo'), tx_fifo'[i] = "REQUEST_3"
              PROVE  i + places > Len(tx_fifo')
    BY DEF ThirdWithin
<1>1. tx_fifo \in Seq(Packets) /\ Len(tx_fifo) \in Nat
    BY DEF PairingTypeOK
<1>2. Len(tx_fifo') = Len(tx_fifo) - 1 /\ i + 1 \in 1..Len(tx_fifo)
          /\ tx_fifo'[i] = tx_fifo[i + 1]
    BY <1>1
<1>. QED  BY <1>1, <1>2 DEF ThirdWithin

LEMMA WithinAppend ==
    ASSUME PairingTypeOK, NEW packet \in Packets, tx_fifo' = Append(tx_fifo, packet),
           NEW places \in 0..1, ThirdWithin(places), packet = "REQUEST_3" => places = 0
    PROVE  /\ ThirdWithin(places + 1)'
           /\ places = 0 /\ packet # "REQUEST_3" => ThirdWithin(0)'
<1>1. tx_fifo \in Seq(Packets) /\ Len(tx_fifo) \in Nat
          /\ Len(tx_fifo') = Len(tx_fifo) + 1
    BY DEF PairingTypeOK
<1>2. ASSUME NEW i \in 1..Len(tx_fifo'), tx_fifo'[i] = "REQUEST_3"
      PROVE  /\ i + (places + 1) > Len(tx_fifo')
             /\ places = 0 => packet = "REQUEST_3"
    <2>1. CASE i \in 1..Len(tx_fifo)
        <3>1. tx_fifo'[i] = tx_fifo[i]
            BY <2>1, <1>1
        <3>. QED  BY <3>1, <2>1, <1>1, <1>2 DEF ThirdWithin
    <2>2. CASE i = Len(tx_fifo) + 1
        <3>1. tx_fifo'[i] = packet
            BY <2>2, <1>1
        <3>. QED  BY <3>1, <2>2, <1>1, <1>2
    <2>. QED  BY <2>1, <2>2, <1>1
<1>. QED  BY <1>2 DEF ThirdWithin

\* ... and when the queue stays.
LEMMA WithinSame ==
    ASSUME UNCHANGED tx_fifo, NEW places \in 0..2, ThirdWithin(places)
    PROVE  ThirdWithin(places)'
BY DEF ThirdWithin

\* The invariant of the queue, action by action.
LEMMA QueueInitial == PairingInit => QueueInv
<1>. SUFFICES ASSUME PairingInit PROVE QueueInv
    OBVIOUS
<1>1. FewOutstanding
    BY DEF PairingInit, FewOutstanding, Outstanding
<1>2. ThirdResponse
    BY DEF PairingInit, ThirdResponse, ThirdWithin, ThirdAnswered
<1>3. QueueShort
    BY DEF PairingInit, QueueShort
<1>. QED  BY <1>1, <1>2, <1>3, PairingTypeInitial DEF QueueInv

LEMMA QueueTransmit == QueueInv /\ Transmit => QueueInv'
<1>. SUFFICES ASSUME QueueInv, Transmit, PairingTypeOK PROVE QueueInv'
    BY DEF QueueInv
<1>1. PairingTypeOK'
    BY PairingTypeInductive DEF PairingNext
<1>2. Len(tx_fifo) \in Nat /\ tx_fifo # <<>> /\ Len(tx_fifo) >= 1
    <2>1. tx_fifo # <<>>
        BY TransmitSteps
    <2>. QED  BY <2>1 DEF PairingTypeOK
<1>3. UNCHANGED <<state, timer_pc, tx_payload, handling>>
    BY TransmitSteps
<1>4. "TX_FAILED" \in handling => "TX_SUCCESS" \in handling
    BY TransmitSteps
<1>5. /\ Len(tx_fifo') \in Nat /\ Len(tx_fifo') <= Len(tx_fifo)
      /\ Outstanding' <= Outstanding
      /\ \A places \in 0..2 : ThirdWithin(places) => ThirdWithin(places)'
    <2>1. CASE tx_fifo' = Tail(tx_fifo)
        <3>1. Len(tx_fifo') = Len(tx_fifo) - 1
            BY <1>2, <2>1 DEF PairingTypeOK
        <3>2. Outstanding' <= Outstanding
            <4>1. PICK n \in Nat : Len(tx_fifo) = n /\ Len(tx_fifo') = n - 1
                BY <3>1, <1>2
            <4>. QED  BY <4>1, <1>3 DEF Outstanding
        <3>3. \A places \in 0..2 : ThirdWithin(places) => ThirdWithin(places)'
            BY <2>1, <1>2, WithinTail
        <3>. QED  BY <3>1, <3>2, <3>3, <1>2
    <2>2. CASE tx_fifo' = tx_fifo
              /\ ("TX_SUCCESS" \in events' <=> "TX_SUCCESS" \in events)
        BY <1>2, <1>3, <2>2, WithinSame DEF Outstanding
    <2>. QED  BY <2>1, <2>2, TransmitSteps
<1>6. FewOutstanding'
    <2>1. Len(tx_fifo') \in Nat
        BY <1>5
    <2>2. Outstanding \in Nat /\ Outstanding' \in Nat
        <3>1. PICK n \in Nat : Len(tx_fifo) = n
            BY <1>2
        <3>2. PICK m \in Nat : Len(tx_fifo') = m
            BY <2>1
        <3>. QED  BY <3>1, <3>2 DEF Outstanding
    <2>3. "TX_SUCCESS" \in handling => Outstanding >= 2
        BY <1>2 DEF Outstanding
    <2>4. state \in {"REQUEST_1", "RESPONSE_1"} => "TX_FAILED" \notin handling
        BY <2>2, <2>3, <1>4 DEF QueueInv, FewOutstanding
    <2>. QED  BY <2>2, <2>4, <1>2, <1>3, <1>5 DEF QueueInv, FewOutstanding
<1>7. ThirdResponse'
    <2>1. ThirdAnswered' => ThirdAnswered \/ tx_fifo[1] = "REQUEST_3"
        BY TransmitSteps
    <2>2. \A places \in 0..2 :
              ThirdWithin(places) /\ tx_fifo[1] = "REQUEST_3" => Len(tx_fifo) <= places
        BY <1>2 DEF ThirdWithin
    <2>. QED  BY <2>1, <2>2, <1>2, <1>3, <1>5 DEF QueueInv, ThirdResponse
<1>. QED  BY <1>1, <1>2, <1>5, <1>6, <1>7 DEF QueueInv, QueueShort

LEMMA QueueSuccess == QueueInv /\ TxSuccess => QueueInv'
<1>. SUFFICES ASSUME QueueInv, TxSuccess, PairingTypeOK PROVE QueueInv'
    BY DEF QueueInv
<1>1. PairingTypeOK' /\ Len(tx_fifo) \in Nat
    BY PairingTypeInductive DEF PairingNext, event_handler, PairingTypeOK
<1>2. /\ "TX_SUCCESS" \in handling /\ handling' = handling \ {"TX_SUCCESS"}
      /\ UNCHANGED <<timer_pc, rx_fifo, events, answer>>
    BY SuccessSteps
<1>3. ThirdAnswered' <=> ThirdAnswered
    BY <1>2 DEF ThirdAnswered
<1>4. CASE /\ \/ state = "REQUEST_1" /\ state' = "RESPONSE_1"
              \/ state = "ACCEPT_ADDRESS" /\ state' = "REQUEST_2"
              \/ state = "REQUEST_2" /\ state' = "RESPONSE_2"
              \/ state = "REQUEST_3" /\ state' = "RESPONSE_3"
           /\ EnterState(state')
    <2>1. state' \in PairingStates /\ state' \in Packets /\ state \in PairingStates
        BY <1>4 DEF PairingStates, Packets
    <2>2. tx_payload' = state' /\ tx_fifo' = Append(tx_fifo, state')
              /\ Len(tx_fifo') = Len(tx_fifo) + 1
        BY <1>4, <2>1, EnterSteps, RetransmitSteps
    <2>3. Outstanding' = Outstanding /\ Outstanding \in Nat /\ Len(tx_fifo') <= Outstanding'
        BY <1>1, <1>2, <2>2 DEF Outstanding
    <2>4. FewOutstanding' /\ QueueShort'
        BY <1>4, <1>1, <1>2, <2>1, <2>2, <2>3 DEF QueueInv, FewOutstanding, QueueShort
    <2>5. CASE state = "REQUEST_3"
        <3>1. ThirdWithin(1) /\ (ThirdAnswered => Len(tx_fifo) <= 1)
            BY <2>5 DEF QueueInv, ThirdResponse
        <3>2. ThirdWithin(2)'
            BY <3>1, <1>4, <2>5, <2>1, <2>2, WithinAppend
        <3>. QED  BY <3>1, <3>2, <2>4, <2>5, <1>1, <1>3, <1>4, <2>2 DEF QueueInv, ThirdResponse
    <2>6. CASE state # "REQUEST_3"
        <3>1. ThirdWithin(0) /\ ~ThirdAnswered
            BY <2>6, <1>4 DEF QueueInv, ThirdResponse, PairingStates
        <3>2. ThirdWithin(0)'
            BY <3>1, <1>4, <2>6, <2>1, <2>2, WithinAppend
        <3>. QED  BY <3>1, <3>2, <2>4, <2>6, <1>1, <1>3, <1>4 DEF QueueInv, ThirdResponse
    <2>. QED  BY <2>5, <2>6
<1>5. CASE /\ NothingSent
           /\ \/ state = "REQUEST_4" /\ state' = "CONNECTED"
              \/ state' = state
    <2>1. UNCHANGED <<tx_payload, tx_fifo>>
        BY <1>5, NothingSteps
    <2>2. Outstanding' <= Outstanding /\ Outstanding \in Nat /\ Outstanding' \in Nat
        BY <1>1, <1>2, <2>1 DEF Outstanding
    <2>3. FewOutstanding' /\ QueueShort'
        BY <1>5, <1>1, <1>2, <2>1, <2>2
           DEF QueueInv, FewOutstanding, QueueShort, PairingStates
    <2>4. ThirdResponse'
        BY <1>5, <1>3, <2>1, WithinSame DEF QueueInv, ThirdResponse, PairingStates
    <2>. QED  BY <1>1, <2>3, <2>4 DEF QueueInv
<1>. QED  BY <1>4, <1>5, SuccessSteps

LEMMA QueueFailed == QueueInv /\ TxFailed => QueueInv'
<1>. SUFFICES ASSUME QueueInv, TxFailed, PairingTypeOK PROVE QueueInv'
    BY DEF QueueInv
<1>1. PairingTypeOK'
    BY PairingTypeInductive DEF PairingNext, event_handler
<1>2. /\ "TX_FAILED" \in handling /\ "TX_SUCCESS" \notin handling
      /\ handling' = handling \ {"TX_FAILED"}
      /\ UNCHANGED <<timer_pc, tx_payload, rx_fifo, events, answer>>
    BY FailedSteps
<1>3. ThirdAnswered' <=> ThirdAnswered
    BY <1>2 DEF ThirdAnswered
<1>4. CASE state' = state /\ tx_fifo' = Append(<<>>, tx_payload)
    <2>1. Len(tx_fifo') = 1 /\ tx_fifo'[1] = tx_payload
        BY <1>4
    <2>2. Outstanding' = 1 + (IF "TX_SUCCESS" \in events THEN 1 ELSE 0)
        BY <1>2, <2>1 DEF Outstanding
    <2>3. FewOutstanding' /\ QueueShort'
        BY <1>2, <1>4, <2>1, <2>2 DEF QueueInv, FewOutstanding, QueueShort
    <2>4. ThirdWithin(1)' /\ ThirdWithin(2)' /\ (tx_payload # "REQUEST_3" => ThirdWithin(0)')
        BY <2>1 DEF ThirdWithin
    <2>5. state \in PairingStates => tx_payload = state
        BY DEF QueueInv, FewOutstanding
    <2>. QED  BY <1>1, <1>3, <1>4, <2>1, <2>3, <2>4, <2>5 DEF QueueInv, ThirdResponse
<1>5. CASE GiveUp /\ tx_fifo' = <<>>
    <2>1. Len(tx_fifo') = 0
        BY <1>5
    <2>2. state' \notin PairingStates /\ (state = "CONNECTED" => state' = "CONNECTED")
        BY <1>5 DEF GiveUp, PairingStates
    <2>. QED  BY <1>1, <1>2, <2>1, <2>2
              DEF QueueInv, FewOutstanding, ThirdResponse, QueueShort, PairingStates
<1>. QED  BY <1>4, <1>5, FailedSteps

LEMMA QueueReceived == QueueInv /\ RxReceived => QueueInv'
<1>. SUFFICES ASSUME QueueInv, RxReceived, PairingTypeOK PROVE QueueInv'
    BY DEF QueueInv
<1>1. PairingTypeOK' /\ Len(tx_fifo) \in Nat
    BY PairingTypeInductive DEF PairingNext, event_handler, PairingTypeOK
<1>2. handling = {"RX_RECEIVED"} /\ UNCHANGED <<timer_pc, events, handling, answer>>
    BY ReceivedSteps
<1>3. ThirdAnswered' => ThirdAnswered
    <2>1. rx_fifo \in Seq(Payloads) /\ rx_fifo # <<>> /\ rx_fifo' = Tail(rx_fifo)
        BY ReceivedSteps DEF PairingTypeOK
    <2>2. \A i \in 1..Len(rx_fifo') : rx_fifo'[i] = rx_fifo[i + 1] /\ i + 1 \in 1..Len(rx_fifo)
        BY <2>1
    <2>. QED  BY <2>2, <1>2 DEF ThirdAnswered
<1>4. CASE /\ \/ state = "RESPONSE_1" /\ state' = "ACCEPT_ADDRESS"
              \/ state = "RESPONSE_2" /\ state' = "REQUEST_3"
              \/ state = "RESPONSE_3" /\ state' = "REQUEST_4" /\ ThirdAnswered
           /\ EnterState(state')
    <2>1. state' \in PairingStates /\ state' \in Packets /\ state \in PairingStates
        BY <1>4 DEF PairingStates, Packets
    <2>2. tx_payload' = state' /\ tx_fifo' = Append(tx_fifo, state')
              /\ Len(tx_fifo') = Len(tx_fifo) + 1
        BY <1>4, <2>1, EnterSteps, RetransmitSteps
    <2>3. Outstanding' = Outstanding + 1 /\ Outstanding \in Nat /\ Len(tx_fifo) <= Outstanding
        BY <1>1, <1>2, <2>2 DEF Outstanding
    <2>4. state = "RESPONSE_3" => Len(tx_fifo) <= 2
        BY <1>4 DEF QueueInv, ThirdResponse
    <2>5. FewOutstanding' /\ QueueShort'
        BY <1>4, <1>1, <1>2, <2>1, <2>2, <2>3, <2>4
           DEF QueueInv, FewOutstanding, QueueShort
    <2>6. CASE state = "RESPONSE_3"
        BY <2>5, <2>6, <1>1, <1>4 DEF QueueInv, ThirdResponse
    <2>7. CASE state # "RESPONSE_3"
        <3>1. ThirdWithin(0) /\ ~ThirdAnswered
            BY <2>7, <1>4 DEF QueueInv, ThirdResponse, PairingStates
        <3>2. ThirdWithin(1)' /\ (state' # "REQUEST_3" => ThirdWithin(0)')
            BY <3>1, <2>1, <2>2, WithinAppend
        <3>. QED  BY <3>1, <3>2, <2>5, <2>7, <1>1, <1>3, <1>4 DEF QueueInv, ThirdResponse
    <2>. QED  BY <2>6, <2>7
<1>5. CASE state' = state /\ NothingSent
    <2>1. UNCHANGED <<tx_payload, tx_fifo>>
        BY <1>5, NothingSteps
    <2>2. Outstanding' = Outstanding
        BY <1>2, <2>1 DEF Outstanding
    <2>3. FewOutstanding' /\ QueueShort'
        BY <1>5, <1>2, <2>1, <2>2 DEF QueueInv, FewOutstanding, QueueShort
    <2>4. ThirdResponse'
        BY <1>5, <1>3, <2>1, WithinSame DEF QueueInv, ThirdResponse
    <2>. QED  BY <1>1, <2>3, <2>4 DEF QueueInv
<1>. QED  BY <1>4, <1>5, ReceivedSteps

LEMMA QueueInductive == QueueInv /\ [PairingNext]_pairing_vars => QueueInv'
<1>. SUFFICES ASSUME QueueInv, [PairingNext]_pairing_vars, PairingTypeOK PROVE QueueInv'
    BY DEF QueueInv
<1>0. PairingTypeOK' /\ Len(tx_fifo) \in Nat
    BY PairingTypeInductive DEF PairingTypeOK
<1>1. CASE Interrupt \/ RxEmpty \/ UNCHANGED pairing_vars
    <2>1. /\ UNCHANGED <<state, timer_pc, tx_payload, tx_fifo, rx_fifo, answer>>
          /\ \/ handling = {} /\ handling' = events /\ events' = {}
             \/ handling = {"RX_RECEIVED"} /\ handling' = {} /\ events' = events
             \/ UNCHANGED <<handling, events>>
        BY <1>1 DEF Interrupt, RxEmpty, pairing_vars, unifying, radio
    <2>2. Outstanding' = Outstanding
        <3>1. PICK n \in Nat : Len(tx_fifo) = n /\ Len(tx_fifo') = n
            BY <2>1, <1>0
        <3>. QED  BY <2>1, <3>1 DEF Outstanding
    <2>3. ThirdAnswered' <=> ThirdAnswered
        BY <2>1 DEF ThirdAnswered
    <2>4. FewOutstanding' /\ QueueShort'
        BY <2>1, <2>2 DEF QueueInv, FewOutstanding, QueueShort
    <2>5. ThirdResponse'
        BY <2>1, <2>3, WithinSame DEF QueueInv, ThirdResponse
    <2>. QED  BY <1>0, <2>4, <2>5 DEF QueueInv
<1>2. CASE Update
    BY <1>0, <1>2 DEF Update, QueueInv, FewOutstanding, ThirdResponse, QueueShort, PairingStates
<1>3. CASE UpdateSends
    <2>1. state = "CONNECTED" /\ state' = "CONNECTED" /\ timer_pc' = "idle"
              /\ Len(tx_fifo) <= 1
        BY <1>3 DEF UpdateSends, QueueInv, FewOutstanding
    <2>2. Len(tx_fifo') = Len(tx_fifo) + 1
        BY <1>3, RetransmitSteps DEF UpdateSends, PairingTypeOK
    <2>. QED  BY <1>0, <2>1, <2>2
              DEF QueueInv, FewOutstanding, ThirdResponse, QueueShort, PairingStates
<1>. QED  BY <1>1, <1>2, <1>3, QueueTransmit, QueueSuccess, QueueFailed, QueueReceived
          DEF PairingNext, event_handler, update_timer_handler

(***************************************************************************)
(* At most three packets are in the driver's queue, whatever is lost,      *)
(* merged or answered early, so that the eighth place is never needed.     *)
(***************************************************************************)
THEOREM PairingQueueShort == PairingSpec => []QueueShort
<1>1. QueueInv => QueueShort
    BY DEF QueueInv
<1>. QED  BY <1>1, QueueInitial, QueueInductive, PTL DEF PairingSpec

\* Distances from the channel where the failover started.
LEMMA DistanceSteps ==
    ASSUME PairingTypeOK, NextChannel \in Channels, UNCHANGED failover_start_channel,
           current_channel' = NextChannel
    PROVE  /\ \A c \in Channels : Distance(c) \in Channels /\ Distance(c)' = Distance(c)
           /\ LoopEnds => /\ Distance(current_channel) = ChannelCount - 1
                          /\ Distance(current_channel)' = 0
           /\ ~LoopEnds => Distance(current_channel)' = Distance(current_channel) + 1
           /\ \A c, d \in Channels : Distance(c) = Distance(d) => c = d
           /\ \A c \in Channels : Distance(c) = 0 <=> c = failover_start_channel
<1>1. {current_channel, failover_start_channel} \subseteq Channels
    BY DEF PairingTypeOK
<1>2. \A c \in Channels : Distance(c) \in Channels /\ Distance(c)' = Distance(c)
    BY <1>1, ChannelAssumption DEF Distance, Channels
<1>3. /\ \A c, d \in Channels : Distance(c) = Distance(d) => c = d
      /\ \A c \in Channels : Distance(c) = 0 <=> c = failover_start_channel
    BY <1>1, ChannelAssumption DEF Distance, Channels
<1>4. LoopEnds => /\ Distance(current_channel) = ChannelCount - 1
                  /\ Distance(current_channel)' = 0
    BY <1>1, NextOfChannel, ChannelAssumption DEF Distance, LoopEnds, Channels
<1>5. ~LoopEnds => Distance(current_channel)' = Distance(current_channel) + 1
    BY <1>1, NextOfChannel, ChannelAssumption DEF Distance, LoopEnds, Channels
<1>. QED  BY <1>2, <1>3, <1>4, <1>5

\* The invariant of the failover, action by action.
LEMMA FailoverInitial == PairingInit => FailoverInv
BY ChannelAssumption
   DEF PairingInit, FailoverInv, LateFailures, Fresh, Tried, Distance, Channels,
       FAILOVER_LOOP_COUNT

\* A packet that is sent starts the failover again.
LEMMA FailoverFresh ==
    ASSUME Fresh', state' # "UNPAIRED",
           state' \in PairingStates => \A c \in Channels : written'[c] = Tried(c)'
    PROVE  FailoverInv'
BY DEF FailoverInv, LateFailures, Fresh, FAILOVER_LOOP_COUNT

LEMMA FailoverTransmit ==
    ASSUME PairingTypeOK, FailoverInv, Transmit
    PROVE  FailoverInv'
<1>1. /\ transmitting
      /\ UNCHANGED <<state, current_channel, failover_start_channel, failover_loop,
                     written, handling>>
      /\ "TX_FAILED" \in handling => "TX_SUCCESS" \in handling
    BY TransmitSteps
<1>2. /\ UNCHANGED Fresh
      /\ \A c \in Channels : UNCHANGED Tried(c)
    BY <1>1 DEF Fresh, Tried, Distance
<1>3. LateFailures /\ failover_loop # FAILOVER_LOOP_COUNT
    BY <1>1 DEF FailoverInv
<1>4. LateFailures'
    <2>1. CASE /\ tx_fifo' = Tail(tx_fifo) /\ (transmitting' <=> tx_fifo' # <<>>)
               /\ "TX_SUCCESS" \in events'
               /\ "TX_FAILED" \in events' <=> "TX_FAILED" \in events
        <3>1. /\ Len(tx_fifo') >= 2 => Len(tx_fifo) >= 2
              /\ transmitting' => Len(tx_fifo) >= 2
            BY <2>1, TransmitSteps DEF PairingTypeOK
        <3>. QED  BY <1>1, <1>2, <1>3, <2>1, <3>1 DEF LateFailures, Fresh
    <2>2. CASE /\ tx_fifo' = tx_fifo /\ ~transmitting'
               /\ "TX_FAILED" \in events'
               /\ "TX_SUCCESS" \in events' <=> "TX_SUCCESS" \in events
        BY <1>1, <1>2, <1>3, <2>2 DEF LateFailures
    <2>. QED  BY <2>1, <2>2, TransmitSteps
<1>. QED  BY <1>1, <1>2, <1>3, <1>4 DEF FailoverInv

LEMMA FailoverFailed ==
    ASSUME PairingTypeOK, FailoverInv, TxFailed
    PROVE  FailoverInv'
<1>1. /\ "TX_FAILED" \in handling /\ "TX_FAILED" \notin handling'
      /\ current_channel' = NextChannel
      /\ UNCHANGED <<failover_start_channel, events>>
    BY FailedSteps
<1>2. /\ failover_loop \in {0, 1} /\ state # "UNPAIRED"
      /\ "TX_FAILED" \in events => failover_loop = 0
    BY <1>1 DEF FailoverInv, LateFailures, FAILOVER_LOOP_COUNT
<1>3. {current_channel, failover_start_channel, NextChannel} \subseteq Channels
          /\ written \in [Channels -> Nat] /\ ChannelCount - 1 \in Channels
    BY NextOfChannel, ChannelAssumption DEF PairingTypeOK, Channels
<1>4. CASE /\ state' = state /\ tx_fifo' = Append(<<>>, tx_payload)
           /\ written' = [written EXCEPT ![NextChannel] = @ + 1]
           /\ \/ ~LoopEnds /\ failover_loop' = failover_loop
              \/ /\ LoopEnds /\ failover_loop' = failover_loop + 1
                 /\ failover_loop' # FAILOVER_LOOP_COUNT
    <2>1. failover_loop' \in {0, 1} /\ failover_loop' < FAILOVER_LOOP_COUNT
        BY <1>2, <1>4 DEF FAILOVER_LOOP_COUNT
    <2>2. LateFailures'
        <3>1. Len(tx_fifo') = 1
            BY <1>4
        <3>2. {"TX_SUCCESS", "TX_FAILED"} \subseteq events => failover_loop' = 0
            <4>1. Fresh => ~LoopEnds
                BY <1>3, NextOfChannel, ChannelAssumption DEF Fresh, LoopEnds, Channels
            <4>. QED  BY <4>1, <1>1, <1>4 DEF FailoverInv, LateFailures, Fresh
        <3>. QED  BY <3>1, <3>2, <1>1 DEF LateFailures
    <2>3. ASSUME state \in PairingStates, NEW c \in Channels
          PROVE  written'[c] = Tried(c)'
        <3>1. written[c] = Tried(c)
            BY <2>3 DEF FailoverInv
        <3>2. written'[c] = IF c = NextChannel THEN written[c] + 1 ELSE written[c]
            BY <1>3, <1>4
        <3>3. CASE LoopEnds
            <4>1. Distance(c) <= ChannelCount - 1 /\ Distance(c)' \in Nat
                      /\ (Distance(c)' = 0 <=> c = NextChannel)
                <5>1. /\ Distance(c) \in Channels /\ Distance(c)' = Distance(c)
                      /\ Distance(c) = 0 <=> c = failover_start_channel
                    BY <1>1, <1>3, DistanceSteps
                <5>. QED  BY <5>1, <3>3, ChannelAssumption DEF Channels, LoopEnds
            <4>2. Distance(current_channel) = ChannelCount - 1
                      /\ Distance(current_channel)' = 0
                BY <3>3, <1>1, <1>3, DistanceSteps
            <4>. QED  BY <4>1, <4>2, <3>1, <3>2, <3>3, <1>2, <1>4 DEF Tried
        <3>4. CASE ~LoopEnds
            <4>1. /\ Distance(c) \in Nat /\ Distance(c)' = Distance(c)
                  /\ Distance(current_channel) \in Nat
                  /\ Distance(current_channel)' = Distance(current_channel) + 1
                <5>1. /\ Distance(c) \in Channels /\ Distance(c)' = Distance(c)
                      /\ Distance(current_channel) \in Channels
                      /\ Distance(current_channel)' = Distance(current_channel) + 1
                    BY <3>4, <1>1, <1>3, DistanceSteps
                <5>. QED  BY <5>1, ChannelAssumption DEF Channels
            <4>2. Distance(c) = Distance(current_channel) + 1 <=> c = NextChannel
                BY <4>1, <1>1, <1>3, DistanceSteps
            <4>. QED  BY <4>1, <4>2, <3>1, <3>2, <3>4, <1>2, <1>4 DEF Tried
        <3>. QED  BY <3>3, <3>4
    <2>. QED  BY <2>1, <2>2, <2>3, <1>2, <1>4 DEF FailoverInv, FAILOVER_LOOP_COUNT
<1>5. CASE /\ GiveUp /\ tx_fifo' = <<>> /\ ~transmitting' /\ UNCHANGED written
           /\ LoopEnds /\ failover_loop' = failover_loop + 1
           /\ failover_loop' = FAILOVER_LOOP_COUNT
    <2>1. failover_loop = 1 /\ "TX_FAILED" \notin events' \cup handling'
        BY <1>1, <1>2, <1>5 DEF FAILOVER_LOOP_COUNT
    <2>2. LateFailures'
        BY <2>1, <1>5 DEF LateFailures
    <2>3. state' \notin PairingStates
        BY <1>5 DEF GiveUp, PairingStates
    <2>4. ASSUME state' = "UNPAIRED", NEW c \in Channels
          PROVE  written'[c] = FAILOVER_LOOP_COUNT
        <3>1. state \in PairingStates
            BY <2>4, <1>2, <1>5 DEF GiveUp
        <3>2. written[c] = Tried(c)
            BY <3>1 DEF FailoverInv
        <3>3. Distance(c) <= Distance(current_channel)
            BY <1>1, <1>3, <1>5, DistanceSteps, ChannelAssumption DEF Channels
        <3>. QED  BY <3>2, <3>3, <2>1, <1>5 DEF Tried, FAILOVER_LOOP_COUNT
    <2>. QED  BY <2>1, <2>2, <2>3, <2>4, <1>5 DEF FailoverInv, FAILOVER_LOOP_COUNT
<1>. QED  BY <1>4, <1>5, FailedSteps

LEMMA FailoverInductive ==
    QueueInv /\ FailoverInv /\ [PairingNext]_pairing_vars => FailoverInv'
<1>. SUFFICES ASSUME PairingTypeOK, FewOutstanding, FailoverInv,
                     [PairingNext]_pairing_vars
              PROVE  FailoverInv'
    BY DEF QueueInv
<1>1. ASSUME NEW s \in PairingStates, EnterState(s) PROVE FailoverInv'
    <2>1. Retransmit(s) /\ UNCHANGED current_channel /\ state' = s /\ s \in Packets
        BY <1>1, EnterSteps DEF Packets
    <2>2. Fresh' /\ \A c \in Channels : written'[c] = Tried(c)'
        BY <2>1, RetransmitSteps
    <2>. QED  BY <2>1, <2>2, FailoverFresh DEF PairingStates
<1>2. ASSUME /\ UNCHANGED <<current_channel, failover_start_channel, failover_loop,
                            written, tx_fifo, transmitting>>
             /\ state' = state \/ state' = "CONNECTED"
             /\ \/ handling = {} /\ handling' = events /\ events' = {}
                \/ handling' \subseteq handling \ {"TX_SUCCESS"} /\ events' = events
                \/ UNCHANGED <<handling, events>>
      PROVE  FailoverInv'
    <2>1. UNCHANGED Fresh /\ \A c \in Channels : UNCHANGED Tried(c)
        BY <1>2 DEF Fresh, Tried, Distance
    <2>2. LateFailures'
        BY <1>2, <2>1 DEF FailoverInv, LateFailures
    <2>3. "TX_FAILED" \in events' \cup handling' => "TX_FAILED" \in events \cup handling
        BY <1>2
    <2>. QED  BY <1>2, <2>1, <2>2, <2>3 DEF FailoverInv, PairingStates
<1>3. CASE Interrupt \/ RxEmpty \/ UNCHANGED pairing_vars
    BY <1>2, <1>3 DEF Interrupt, RxEmpty, pairing_vars, unifying, radio
<1>4. CASE TxSuccess
    <2>1. CASE state' \in PairingStates /\ EnterState(state')
        BY <1>1, <2>1
    <2>2. CASE NothingSent /\ (state' = state \/ state' = "CONNECTED")
        BY <1>2, <1>4, <2>2, NothingSteps, SuccessSteps
    <2>. QED  BY <1>4, <2>1, <2>2, SuccessSteps DEF PairingStates
<1>5. CASE RxReceived
    <2>1. CASE state' \in PairingStates /\ EnterState(state')
        BY <1>1, <2>1
    <2>2. CASE NothingSent /\ state' = state
        BY <1>2, <1>5, <2>2, NothingSteps, ReceivedSteps
    <2>. QED  BY <1>5, <2>1, <2>2, ReceivedSteps DEF PairingStates
<1>6. CASE Update
    BY <1>2, <1>6 DEF Update
<1>7. CASE UpdateSends
    <2>1. Fresh'
        BY <1>7, RetransmitSteps DEF UpdateSends, PairingTypeOK
    <2>2. state' = "CONNECTED"
        BY <1>7 DEF UpdateSends, FewOutstanding
    <2>. QED  BY <2>1, <2>2, FailoverFresh DEF PairingStates
<1>. QED  BY <1>3, <1>4, <1>5, <1>6, <1>7, FailoverTransmit, FailoverFailed
          DEF PairingNext, event_handler, update_timer_handler

(***************************************************************************)
(* The failover does what its comment says, for every number of channels   *)
(* from two on: it gives up only after FAILOVER_LOOP_COUNT writes on each, *)
(* and never writes a packet of the pairing more often on any.             *)
(***************************************************************************)
THEOREM PairingAllChannelsTried == PairingSpec => []AllChannelsTried
<1>1. QueueInv /\ FailoverInv => AllChannelsTried
    <2>. SUFFICES ASSUME PairingTypeOK, FailoverInv PROVE AllChannelsTried
        BY DEF QueueInv
    <2>. QED  BY DEF PairingTypeOK, FailoverInv, AllChannelsTried, Tried, States,
                  FAILOVER_LOOP_COUNT
<1>. QED  BY <1>1, QueueInitial, QueueInductive, FailoverInitial, FailoverInductive, PTL
          DEF PairingSpec

----------------------------------------------------------------------------
\* IInv is inductive.
LEMMA FormerInductive == IInv /\ [Next]_vars => IInv'
<1> SUFFICES ASSUME IInv, [Next]_vars PROVE IInv'
  OBVIOUS
<1>1. CASE main_thread
  BY <1>1, RunKeyboardInvariant, DestructorsInvariant, RestartInvariant DEF main_thread
<1>2. CASE workqueue
  BY <1>2, WorkqueueInvariant
<1>3. CASE Cable
  BY <1>3, CableInvariant
<1>4. CASE \E line \in {"sw0", "sw1"} : Line(line)
  BY <1>4, LineInvariant
<1>5. CASE \E item \in Items : Expire(item)
  BY <1>5, ExpireInvariant
<1>6. CASE UNCHANGED vars
  BY <1>6, StutterInvariant
<1> QED BY <1>1, <1>2, <1>3, <1>4, <1>5, <1>6 DEF Next

\* main is in run_keyboard, not yet in the destructors it leads to.
Running == {"new", "measure", "low", "usb", "position", "set_callback", "select",
            "select_bluetooth", "take", "mode"}

\* What the liveness of main() needs besides IInv. A low battery has an event
\* pending or is being acted on, a switch that left USB has one pending or its
\* work item, the callback is set before anything can be reported, and main
\* listens to the interrupts as long as it runs.
LowNoticed == mode = "LOW" => main_loop_event \/ pc = "low" \/ action # "none"
SwitchNoticed ==
    pc = "take" /\ keyboard = "OFF_USB" /\ Position # 0 => main_loop_event \/ Pending("callback")
Started ==
    /\ ~change_callback => ~Recovering /\ queued \subseteq {"set_callback"}
    /\ pc = "select" /\ ~change_callback => "set_callback" \in queued
RunningIs ==
    /\ action = "none" <=> pc \in Running
    /\ pc = "reboot" => action = "REBOOT"
    /\ pc \in Running \ {"new", "measure"} => interrupts
Life == LowNoticed /\ SwitchNoticed /\ Started /\ RunningIs

\* Life holds at the start.
LEMMA LifeInitial == Init => Life
BY DEF Init, Life, LowNoticed, SwitchNoticed, Started, Recovering, Pending, RunningIs, Running

\* What the main thread finds when the others have run.
LEMMA OutsideSteps ==
    ASSUME IInv, Life, [Next]_vars, ~main_thread
    PROVE  /\ UNCHANGED <<main, stop, switch>>
           /\ change_callback => change_callback'
           /\ main_loop_event => main_loop_event'
           /\ Life'
<1> USE DEF IInv, Life
<1>1. CASE on_charging_ended
  <2> USE <1>1 DEF on_charging_ended, Take, main, switch, environment, Schedule
  <2>1. change_callback
    BY DEF Started
  <2> QED BY <2>1 DEF LowNoticed, SwitchNoticed, Position, Started, Recovering, Pending, RunningIs
<1>2. CASE on_recovery_ended
  <2> USE <1>2 DEF on_recovery_ended, Take, main, switch, environment
  <2>1. change_callback
    BY DEF Started
  <2> QED BY <2>1 DEF LowNoticed, SwitchNoticed, Position, Started, Recovering, Pending, RunningIs
<1>3. CASE measure_battery_voltage
  <2> USE <1>3 DEF measure_battery_voltage, main, switch, environment
  <2>1. change_callback
    BY DEF Started, Recovering
  <2> PICK v \in Samples : Measured(v)
    OBVIOUS
  <2>2. main_loop_event' = (main_loop_event \/ (change_callback /\ Changed(NewMode(v))))
        /\ mode' = NewMode(v)
    BY DEF Measured
  <2>3. delayed \subseteq delayed'
    BY DEF Measured, Schedule
  <2> QED
    BY <2>1, <2>2, <2>3 DEF LowNoticed, SwitchNoticed, Position, Started, Recovering, Pending,
      RunningIs, Changed
<1>4. CASE static_on_callback
  BY <1>4 DEF static_on_callback, Take, main, switch, supply, environment, LowNoticed,
    SwitchNoticed, Position, Started, Recovering, Pending, RunningIs
<1>5. CASE static_set_callback_work
  BY <1>5 DEF static_set_callback_work, Take, main, switch, supply, environment, LowNoticed,
    SwitchNoticed, Position, Started, Recovering, Pending, RunningIs
<1>6. CASE Cable
  BY <1>6 DEF Cable, main, switch, supply, work, LowNoticed,
    SwitchNoticed, Position, Started, Recovering, Pending, RunningIs
<1>7. ASSUME NEW line \in {"sw0", "sw1"}, Line(line)
      PROVE  UNCHANGED <<main, main_loop_event, stop, switch, change_callback>> /\ Life'
  <2> USE <1>7 DEF Line, main, switch, supply
  <2>1. /\ delayed \subseteq delayed' /\ delayed' \subseteq delayed \cup {"callback"}
        /\ interrupts /\ Interrupts(line) => "callback" \in delayed' \/ Pending("callback")
    BY DEF gpio_callback, Schedule
  <2>2. Position = 0 /\ Position' # 0 => Interrupts(line)
    BY DEF Position, Interrupts, TypeOK
  <2>3. interrupts' = interrupts /\ pc' = pc
    OBVIOUS
  <2>4. SwitchNoticed'
    BY <2>1, <2>2 DEF SwitchNoticed, RunningIs, Running, Pending
  <2> QED BY <2>1, <2>4 DEF LowNoticed, Started, Recovering, Pending, RunningIs
<1>8. ASSUME NEW item \in Items, Expire(item)
      PROVE  UNCHANGED <<main, main_loop_event, stop, switch, change_callback>> /\ Life'
  BY <1>8 DEF Expire, main, switch, supply, environment, LowNoticed,
    SwitchNoticed, Position, Started, Recovering, Pending, RunningIs
<1>9. CASE UNCHANGED vars
  BY <1>9 DEF vars, main, switch, supply, work, environment, LowNoticed,
    SwitchNoticed, Position, Started, Recovering, Pending, RunningIs
<1> QED BY <1>1, <1>2, <1>3, <1>4, <1>5, <1>6, <1>7, <1>8, <1>9 DEF Next, workqueue

\* Where run_keyboard goes after its position check.
NextRead == IF keyboard = "none" THEN "set_callback" ELSE "mode"

\* Where each step of run_keyboard leads.
LEMMA RunSteps ==
    ASSUME IInv, Life, run_keyboard
    PROVE  /\ pc = "new" => pc' = "measure"
           /\ pc = "measure" => pc' = "low"
           /\ pc = "low" => pc' = IF mode = "LOW" THEN "read_position" ELSE "usb"
           /\ pc = "usb" => pc' \in {"position", NextRead}
           /\ pc = "position" =>
                  pc' = IF SelectedMode = "OFF_USB" THEN "read_position" ELSE NextRead
           /\ pc = "set_callback" => pc' = "select"
           /\ pc = "select" => IF SelectedMode = "OFF_USB"
                               THEN pc' = "take" ELSE pc' = "select_bluetooth"
           /\ pc = "select_bluetooth" => IF SelectedMode = "BLUETOOTH"
                                         THEN pc' = "take" /\ keyboard' = "BLUETOOTH"
                                         ELSE pc' = "read_position"
           /\ pc = "take" => pc' = "low"
           /\ pc = "mode" => pc' = IF SelectedMode # keyboard THEN "read_position" ELSE "take"
           /\ pc \notin {"select", "select_bluetooth"} => UNCHANGED keyboard
           /\ pc = "select" /\ SelectedMode # "OFF_USB" => UNCHANGED keyboard
           /\ pc \in Running
           /\ pc # "take" /\ main_loop_event => main_loop_event'
           /\ change_callback => change_callback'
           /\ Life'
<1> USE DEF IInv, Life, Goto, Leave, Enter, NoShutdown, NextRead
<1>a. SwitchNoticed /\ RunningIs /\ Started /\ LowNoticed
  OBVIOUS
<1>1. CASE NewPowerSupply
  BY <1>1 DEF NewPowerSupply, LowNoticed, SwitchNoticed, Started, Recovering, Pending, RunningIs,
    Running, work, switch, environment, Listening, AtRest
<1>2. CASE NewModeSwitch
  <2> USE <1>2 DEF NewModeSwitch, environment
  <2> PICK v \in Samples : Measured(v)
    OBVIOUS
  <2>1. delayed' \subseteq delayed \cup {"charging_ended"} /\ ~change_callback
        /\ (main_loop_event => main_loop_event')
    BY DEF Measured, Schedule, Listening, Cycle
  <2> QED
    BY <2>1 DEF LowNoticed, SwitchNoticed, Started, Recovering, Pending, RunningIs, Running
<1>3. CASE WantsLow
  BY <1>3 DEF WantsLow, MainOnly, LowNoticed, SwitchNoticed, Started, Recovering, Pending,
    RunningIs, Running, supply, work, switch, environment
<1>4. CASE WantsUsb
  BY <1>4 DEF WantsUsb, MainOnly, LowNoticed, SwitchNoticed, Started, Recovering, Pending,
    RunningIs, Running, supply, work, switch, environment
<1>5. CASE WantsPosition
  BY <1>5 DEF WantsPosition, MainOnly, LowNoticed, SwitchNoticed, Started, Recovering, Pending,
    RunningIs, Running, supply, work, switch, environment
<1>6. CASE set_callback
  BY <1>6 DEF set_callback, LowNoticed, SwitchNoticed, Started, Recovering, Pending,
    RunningIs, Running, supply, switch, environment
<1>7. CASE SelectUsb
  BY <1>7 DEF SelectUsb, MainOnly, LowNoticed, SwitchNoticed, SelectedMode, Position, Started,
    Recovering, Pending, RunningIs, Running, supply, work, switch, environment
<1>8. CASE SelectBluetooth
  BY <1>8 DEF SelectBluetooth, MainOnly, LowNoticed, SwitchNoticed, SelectedMode, Position,
    Started, Recovering, Pending, RunningIs, Running, supply, work, switch, environment
<1>9. CASE TakeEvent
  BY <1>9 DEF TakeEvent, LowNoticed, SwitchNoticed, Started, Recovering, Pending,
    RunningIs, Running, supply, work, switch, environment
<1>10. CASE CompareMode
  BY <1>10 DEF CompareMode, MainOnly, LowNoticed, SwitchNoticed, SelectedMode, Position, Started,
    Recovering, Pending, RunningIs, Running, supply, work, switch, environment
<1> QED BY <1>1, <1>2, <1>3, <1>4, <1>5, <1>6, <1>7, <1>8, <1>9, <1>10
        DEF run_keyboard, want_shutdown

\* An action was decided on: the destructors run until it is taken.
Leaving == action # "none"

\* The destructors and what follows them.
LEMMA LeaveSteps ==
    ASSUME IInv, Life, destructors \/ Restart
    PROVE  /\ pc = "read_position" => pc' = "disable"
           /\ pc = "disable" => pc' = "cancel_callback"
           /\ pc = "cancel_callback" => pc' = "stop"
           /\ pc = "stop" => pc' = "cancel_charging"
           /\ pc = "cancel_charging" => pc' = "cancel_recovery" /\ ~Pending("charging_ended")'
           /\ pc = "cancel_recovery" => pc' = "pending" /\ ~measuring
           /\ pc = "pending" => pc' = IF Pending("charging_ended") THEN "cancel_charging"
                                                                   ELSE "outputs"
           /\ pc = "outputs" => pc' \in {"off", "reboot"}
           /\ pc \in {"off", "reboot"} =>
                  pc' = "new" /\ keyboard' = "none" /\ action' = "none" /\ mode' = "NORMAL"
           /\ pc \notin {"off", "reboot"} => UNCHANGED action
           /\ pc \notin Running
           /\ pc \in AfterStop \ {"off", "reboot"} /\ ~Recovering => ~Recovering'
           /\ ~Recovering /\ pc = "cancel_recovery" /\ ~Pending("charging_ended") =>
                  ~Pending("charging_ended")'
           /\ Life'
<1> USE DEF IInv, Life, Goto
<1>a. SwitchNoticed /\ RunningIs /\ Started /\ LowNoticed
  OBVIOUS
<1>1. CASE ReadPosition
  BY <1>1 DEF ReadPosition, LowNoticed, SwitchNoticed, Started, Recovering, Pending, RunningIs,
    Running, supply, work, environment, AfterStop, AfterRecovery, AfterSupply
<1>2. CASE DisableInterrupts
  BY <1>2 DEF DisableInterrupts, LowNoticed, SwitchNoticed, Started, Recovering, Pending, RunningIs,
    Running, supply, work, environment, AfterStop, AfterRecovery, AfterSupply
<1>3. CASE CancelCallback
  BY <1>3 DEF CancelCallback, Cancel, LowNoticed, SwitchNoticed, Started, Recovering, Pending,
    RunningIs, Running, supply, environment, AfterStop, AfterRecovery, AfterSupply
<1>4. CASE Stop
  BY <1>4 DEF Stop, LowNoticed, SwitchNoticed, Started, Recovering, Pending,
    RunningIs, Running, supply, work, switch, environment, AfterStop, AfterRecovery, AfterSupply
<1>5. CASE CancelCharging
  BY <1>5 DEF CancelCharging, Cancel, LowNoticed, SwitchNoticed, Started, Recovering, Pending,
    RunningIs, Running, supply, switch, environment, AfterStop, AfterRecovery, AfterSupply
<1>6. CASE CancelRecovery
  BY <1>6 DEF CancelRecovery, Cancel, LowNoticed, SwitchNoticed, Started, Recovering, Pending,
    RunningIs, Running, supply, switch, environment, AfterStop, AfterRecovery, AfterSupply
<1>7. CASE CheckPending
  BY <1>7 DEF CheckPending, MainOnly, LowNoticed, SwitchNoticed, Started, Recovering, Pending,
    RunningIs, Running, supply, work, switch, environment, Destroyed, AfterStop, AfterRecovery,
    AfterSupply
<1>8. CASE OutputsOff
  BY <1>8 DEF OutputsOff, LowNoticed, SwitchNoticed, Started, Recovering, Pending,
    RunningIs, Running, work, switch, environment, AfterStop, AfterRecovery, AfterSupply
<1>9. CASE Restart
  BY <1>9 DEF Restart, LowNoticed, SwitchNoticed, Started, Recovering, Pending,
    RunningIs, Running, environment, AfterStop, AfterRecovery, AfterSupply
<1> QED BY <1>1, <1>2, <1>3, <1>4, <1>5, <1>6, <1>7, <1>8, <1>9 DEF destructors

\* Life is inductive with IInv.
LEMMA LifeInductive == IInv /\ Life /\ [Next]_vars => Life'
BY OutsideSteps, RunSteps, LeaveSteps DEF main_thread

\* Life is an invariant of the specification.
LEMMA FormerLife == Spec => [](IInv /\ Life)
<1>1. Init => IInv /\ Life
  BY InitInvariant, LifeInitial
<1>2. (IInv /\ Life) /\ [Next]_vars => (IInv /\ Life)'
  BY FormerInductive, LifeInductive
<1> QED BY <1>1, <1>2, PTL DEF Spec

----------------------------------------------------------------------------
\* The hypotheses of the theorems below: the main thread runs where nothing
\* blocks it, a chip that is off restarts when a wakeup source is active, and the
\* work queue takes what is queued or due. They are validities that speak of
\* ENABLED (for a nonempty set of samples), so TLC checks them and no prover here.
MainMay == /\ pc = "select" => change_callback
           /\ pc = "take" => main_loop_event
           /\ pc = "cancel_recovery" => ~measuring
           /\ pc # "off"
MainReady == MainMay => ENABLED <<main_thread>>_vars
RestartReady == pc = "off" /\ Senses => ENABLED <<Restart>>_vars
WorkReady == measuring \/ queued # {} => ENABLED <<workqueue>>_vars
CallbackReady == ~measuring /\ "callback" \in queued => ENABLED <<static_on_callback>>_vars
ExpireReady == change_callback /\ "callback" \in delayed => ENABLED <<Expire("callback")>>_vars

\* Names for what the temporal steps below tell apart.
Pc(x) == pc = x
Converting == measuring = TRUE
Calm == ~Recovering
Clear == ~Pending("charging_ended")

\* The work items while the destructors wait for them.
LEMMA WorkSteps ==
    ASSUME IInv, Life, [Next]_vars, ~main_thread
    PROVE  /\ pc \in AfterStop /\ ~measuring => ~measuring'
           /\ workqueue /\ measuring => ~measuring'
           /\ pc \in AfterStop /\ ~Recovering => ~Recovering'
           /\ pc \in AfterStop /\ ~Recovering /\ ~Pending("charging_ended") =>
                  ~Pending("charging_ended")'
           /\ "callback" \in queued => "callback" \in queued' \/ main_loop_event'
           /\ "callback" \in delayed => "callback" \in delayed' \/ "callback" \in queued'
           /\ static_on_callback => main_loop_event'
           /\ Expire("callback") => "callback" \in queued'
           /\ workqueue /\ pc = "select" /\ ~change_callback => change_callback'
<1> USE DEF IInv, Life
<1>0. pc \in AfterStop => stop
  BY DEF Destroyed
<1>a. measuring => change_callback
  BY DEF Started, Recovering
<1>1. CASE on_charging_ended
  BY <1>0, <1>1 DEF on_charging_ended, Take, Schedule, Recovering, Pending, Started, Expire,
    static_on_callback, Cycle, Items
<1>2. CASE on_recovery_ended
  BY <1>0, <1>2 DEF on_recovery_ended, Take, Recovering, Pending, Started, Expire,
    static_on_callback, Cycle, Items
<1>3. CASE measure_battery_voltage
  <2> USE <1>3 DEF measure_battery_voltage
  <2> PICK v \in Samples : Measured(v)
    OBVIOUS
  <2>1. delayed \subseteq delayed' /\ queued' = queued /\ ~measuring' /\ measuring
    BY DEF Measured, Schedule
  <2> QED
    BY <1>a, <2>1 DEF Recovering, Pending, Expire, static_on_callback, Take, Cycle
<1>4. CASE static_on_callback
  BY <1>a, <1>4 DEF static_on_callback, Take, supply, Recovering, Pending, Started, Expire, Cycle,
    Items
<1>5. CASE static_set_callback_work
  BY <1>a, <1>5 DEF static_set_callback_work, Take, supply, Recovering, Pending, Started, Expire,
    static_on_callback, Cycle, Items
<1>6. ~workqueue /\ (Cable \/ (\E line \in {"sw0", "sw1"} : Line(line)) \/ UNCHANGED vars) =>
          /\ UNCHANGED <<queued, measuring>>
          /\ delayed \subseteq delayed' /\ delayed' \subseteq delayed \cup {"callback"}
          /\ ~Expire("callback") /\ ~static_on_callback
  BY DEF Cable, Line, gpio_callback, Schedule, vars, work, supply, Expire, workqueue, Cycle
<1>7. ASSUME NEW item \in Items, Expire(item)
      PROVE  /\ UNCHANGED measuring
             /\ queued' = queued \cup {item} /\ delayed' = delayed \ {item} /\ item \in delayed
             /\ ~workqueue
  <2>1. queued' # queued
    BY <1>7 DEF Expire, Cycle
  <2>2. queued' = queued \cup {item} /\ queued' \ queued = {item} /\ UNCHANGED supply
    BY <1>7 DEF Expire, Cycle
  <2>3. ~workqueue
    BY <2>2 DEF workqueue, on_charging_ended, on_recovery_ended, measure_battery_voltage,
      static_on_callback, static_set_callback_work, Take, supply
  <2> QED BY <1>7, <2>2, <2>3 DEF Expire, supply
<1>8. CASE ~workqueue
  <2>1. CASE \E item \in Items : Expire(item)
    <3> PICK item \in Items : Expire(item)
      BY <2>1
    <3>1. ~static_on_callback
      BY <1>8 DEF workqueue
    <3>2. Expire("callback") => "callback" \in queued'
      BY DEF Expire
    <3> QED BY <1>7, <1>8, <3>1, <3>2 DEF Recovering, Pending
  <2>2. CASE ~\E item \in Items : Expire(item)
    BY <1>6, <1>8, <2>2 DEF Next, Recovering, Pending
  <2> QED BY <2>1, <2>2
<1> QED BY <1>1, <1>2, <1>3, <1>4, <1>5, <1>8 DEF workqueue

\* Where the main thread is while it leaves.
LEMMA LeavingPcs ==
    IInv /\ Life /\ Leaving =>
        pc \in {"read_position", "disable", "cancel_callback", "stop", "cancel_charging",
                "cancel_recovery", "pending", "outputs", "off", "reboot"}
BY DEF IInv, TypeOK, Life, RunningIs, Running, Leaving

\* The destructor of the mode switch waits for nobody.
LEMMA LeavingFirst ==
    FairSpec /\ []MainReady => (Leaving ~> Pc("cancel_charging") \/ Pc("cancel_recovery")
        \/ Pc("pending") \/ Pc("outputs") \/ Pc("off") \/ Pc("reboot"))
<1>1. IInv /\ Life /\ [Next]_vars =>
          /\ Pc("read_position") => Pc("read_position")' \/ Pc("disable")'
          /\ Pc("disable") => Pc("disable")' \/ Pc("cancel_callback")'
          /\ Pc("cancel_callback") => Pc("cancel_callback")' \/ Pc("stop")'
          /\ Pc("stop") => Pc("stop")' \/ Pc("cancel_charging")'
  BY OutsideSteps, RunSteps, LeaveSteps DEF main_thread, main, Pc, Running
<1>2. IInv /\ Life /\ [Next]_vars /\ <<main_thread>>_vars =>
          /\ Pc("read_position") => Pc("disable")'
          /\ Pc("disable") => Pc("cancel_callback")'
          /\ Pc("cancel_callback") => Pc("stop")'
          /\ Pc("stop") => Pc("cancel_charging")'
  BY RunSteps, LeaveSteps DEF main_thread, Pc, Running
<1>3. IInv /\ Life =>
          /\ Leaving => \/ Pc("read_position") \/ Pc("disable") \/ Pc("cancel_callback")
                        \/ Pc("stop") \/ Pc("cancel_charging") \/ Pc("cancel_recovery")
                        \/ Pc("pending") \/ Pc("outputs") \/ Pc("off") \/ Pc("reboot")
          /\ Pc("read_position") \/ Pc("disable") \/ Pc("cancel_callback") \/ Pc("stop")
                 => MainMay
  BY LeavingPcs DEF Pc, MainMay
<1>4. FairSpec => [](IInv /\ Life) /\ [][Next]_vars /\ WF_vars(main_thread)
  BY FormerLife, PTL DEF FairSpec, Fairness, Spec
<1> QED BY <1>1, <1>2, <1>3, <1>4, PTL DEF MainReady

\* The loop of ~PowerSupply that cancels the work items ends: none of them starts
\* another one once stop is set, so that the second round finds nothing pending.
LEMMA CancelEnds ==
    FairSpec /\ []MainReady /\ []WorkReady =>
        (Pc("cancel_charging") \/ Pc("cancel_recovery") \/ Pc("pending") ~> Pc("outputs"))
<1>1. IInv /\ Life /\ [Next]_vars =>
          /\ Pc("cancel_charging") => Pc("cancel_charging")' \/ (Pc("cancel_recovery") /\ Clear)'
          /\ Pc("cancel_recovery") => Pc("cancel_recovery")' \/ Pc("pending")'
          /\ Pc("pending") => Pc("pending")' \/ Pc("cancel_charging")' \/ Pc("outputs")'
          /\ Pc("pending") /\ Clear => Pc("pending")' \/ Pc("outputs")'
          /\ Calm /\ (Pc("cancel_charging") \/ Pc("cancel_recovery") \/ Pc("pending")) => Calm'
          /\ Calm /\ Clear /\ (Pc("cancel_recovery") \/ Pc("pending")) => Clear' \/ Pc("outputs")'
          /\ Pc("cancel_recovery") /\ ~Converting => (~Converting)' \/ Pc("pending")'
  <2> SUFFICES ASSUME IInv, Life, [Next]_vars
               PROVE  /\ Pc("cancel_charging") =>
                             Pc("cancel_charging")' \/ (Pc("cancel_recovery") /\ Clear)'
                      /\ Pc("cancel_recovery") => Pc("cancel_recovery")' \/ Pc("pending")'
                      /\ Pc("pending") => Pc("pending")' \/ Pc("cancel_charging")' \/ Pc("outputs")'
                      /\ Pc("pending") /\ Clear => Pc("pending")' \/ Pc("outputs")'
                      /\ Calm /\ (Pc("cancel_charging") \/ Pc("cancel_recovery") \/ Pc("pending"))
                             => Calm'
                      /\ Calm /\ Clear /\ (Pc("cancel_recovery") \/ Pc("pending"))
                             => Clear' \/ Pc("outputs")'
                      /\ Pc("cancel_recovery") /\ ~Converting => (~Converting)' \/ Pc("pending")'
    OBVIOUS
  <2>1. CASE main_thread
    BY <2>1, RunSteps, LeaveSteps DEF main_thread, Pc, Running, Calm, Clear, AfterStop,
      AfterRecovery
  <2>2. CASE ~main_thread
    BY <2>2, OutsideSteps, WorkSteps DEF main, Pc, Calm, Clear, Converting, AfterStop,
      AfterRecovery
  <2> QED BY <2>1, <2>2
<1>2. IInv /\ Life /\ [Next]_vars /\ <<main_thread>>_vars =>
          /\ Pc("cancel_charging") => (Pc("cancel_recovery") /\ Clear)'
          /\ Pc("cancel_recovery") => Pc("pending")'
          /\ Pc("pending") => Pc("cancel_charging")' \/ Pc("outputs")'
          /\ Pc("pending") /\ Clear => Pc("outputs")'
  BY RunSteps, LeaveSteps DEF main_thread, Pc, Running, Clear
<1>3. IInv /\ Life /\ [Next]_vars /\ <<workqueue>>_vars =>
          (Pc("cancel_recovery") /\ Converting => (~Converting)' \/ Pc("pending")')
  BY WorkSteps, RunSteps, LeaveSteps DEF main_thread, Pc, Running, Converting
<1>4. IInv /\ Life =>
          /\ Pc("cancel_charging") \/ Pc("pending") => MainMay
          /\ Pc("cancel_recovery") /\ ~Converting => MainMay
          /\ Converting => measuring \/ queued # {}
          /\ Pc("pending") => Calm
  BY DEF Pc, MainMay, Converting, IInv, TypeOK, Calm, Destroyed, AfterRecovery
<1>5. FairSpec => /\ [](IInv /\ Life) /\ [][Next]_vars
                  /\ WF_vars(main_thread) /\ WF_vars(workqueue)
  BY FormerLife, PTL DEF FairSpec, Fairness, Spec
<1> QED BY <1>1, <1>2, <1>3, <1>4, <1>5, PTL DEF MainReady, WorkReady

\* The destructors end.
LEMMA LeavingEnds ==
    FairSpec /\ []MainReady /\ []WorkReady => (Leaving ~> Pc("off") \/ Pc("reboot"))
<1>1. IInv /\ Life /\ [Next]_vars =>
          (Pc("outputs") => Pc("outputs")' \/ Pc("off")' \/ Pc("reboot")')
  BY OutsideSteps, RunSteps, LeaveSteps DEF main_thread, main, Pc, Running
<1>2. IInv /\ Life /\ [Next]_vars /\ <<main_thread>>_vars =>
          (Pc("outputs") => Pc("off")' \/ Pc("reboot")')
  BY RunSteps, LeaveSteps DEF main_thread, Pc, Running
<1>3. Pc("outputs") => MainMay
  BY DEF Pc, MainMay
<1>4. FairSpec => [](IInv /\ Life) /\ [][Next]_vars /\ WF_vars(main_thread)
  BY FormerLife, PTL DEF FairSpec, Fairness, Spec
<1>5. FairSpec /\ []MainReady /\ []WorkReady => (Pc("outputs") ~> Pc("off") \/ Pc("reboot"))
  BY <1>1, <1>2, <1>3, <1>4, PTL DEF MainReady
<1> QED BY <1>5, LeavingFirst, CancelEnds, PTL

\* With a battery that stays low, run_keyboard comes round to the destructors.
Low == mode = "LOW"

\* A battery that stays low is noticed, and main leaves run_keyboard.
LEMMA LowLeaves ==
    FairSpec /\ []MainReady /\ []WorkReady => (Low ~> Leaving \/ ~Low)
<1>1. IInv /\ Life /\ main_thread =>
          /\ Pc("new") => Pc("measure")'
          /\ Pc("measure") => Pc("low")'
          /\ Pc("low") /\ Low => Leaving'
          /\ Pc("usb") => Pc("position")' \/ Pc("set_callback")' \/ Pc("mode")'
          /\ Pc("position") => Pc("set_callback")' \/ Pc("mode")' \/ Leaving'
          /\ Pc("set_callback") => Pc("select")'
          /\ Pc("select") => Pc("select_bluetooth")' \/ Pc("take")'
          /\ Pc("select_bluetooth") => Pc("take")' \/ Leaving'
          /\ Pc("mode") => Pc("take")' \/ Leaving'
          /\ Pc("take") => Pc("low")'
  <2> USE DEF Pc, Low
  <2>1. IInv /\ Life /\ run_keyboard => pc' \in Running \/ (pc' = "read_position" /\ Leaving')
    BY RunSteps DEF Running, NextRead, Leaving, Life, RunningIs
  <2>2. CASE run_keyboard
    BY <2>1, <2>2, RunSteps DEF Running, NextRead
  <2>3. CASE destructors \/ Restart
    BY <2>3, LeaveSteps DEF Running
  <2> QED BY <2>2, <2>3 DEF main_thread
<1>2. IInv /\ Life /\ [Next]_vars =>
          /\ Pc("new") => Pc("new")' \/ Pc("measure")'
          /\ Pc("measure") => Pc("measure")' \/ Pc("low")'
          /\ Pc("low") /\ Low => Pc("low")' \/ Leaving'
          /\ Pc("usb") => Pc("usb")' \/ Pc("position")' \/ Pc("set_callback")' \/ Pc("mode")'
          /\ Pc("position") =>
                 Pc("position")' \/ Pc("set_callback")' \/ Pc("mode")' \/ Leaving'
          /\ Pc("set_callback") => Pc("set_callback")' \/ Pc("select")'
          /\ Pc("select") => Pc("select")' \/ Pc("select_bluetooth")' \/ Pc("take")'
          /\ Pc("select") /\ change_callback => change_callback'
          /\ Pc("select_bluetooth") => Pc("select_bluetooth")' \/ Pc("take")' \/ Leaving'
          /\ Pc("mode") => Pc("mode")' \/ Pc("take")' \/ Leaving'
          /\ Pc("take") => Pc("take")' \/ Pc("low")'
  <2> USE DEF Pc, Low
  <2>1. IInv /\ Life /\ main_thread /\ pc = "select" /\ change_callback => change_callback'
    BY RunSteps, LeaveSteps DEF main_thread, Running
  <2>2. CASE main_thread
    BY <1>1, <2>1, <2>2
  <2>3. CASE ~main_thread
    BY <2>3, OutsideSteps DEF main
  <2> QED BY <2>2, <2>3
<1>3. IInv /\ Life /\ [Next]_vars /\ <<workqueue>>_vars =>
          (Pc("select") => change_callback' \/ ~Pc("select")')
  BY WorkSteps, OutsideSteps, RunSteps, LeaveSteps DEF main_thread, Pc, Running
<1>4. IInv /\ Life =>
          /\ Low => \/ Leaving \/ Pc("new") \/ Pc("measure") \/ Pc("low") \/ Pc("usb")
                    \/ Pc("position") \/ Pc("set_callback") \/ Pc("select")
                    \/ Pc("select_bluetooth") \/ Pc("mode") \/ Pc("take")
          /\ Pc("new") \/ Pc("measure") \/ Pc("low") \/ Pc("usb") \/ Pc("position")
                 \/ Pc("set_callback") \/ Pc("select_bluetooth") \/ Pc("mode") => MainMay
          /\ Pc("select") /\ change_callback => MainMay
          /\ Pc("select") /\ ~change_callback => queued # {}
          /\ Pc("take") /\ Low => MainMay
  BY DEF Pc, MainMay, Low, Life, LowNoticed, Started, RunningIs, Running, Leaving, IInv, TypeOK
<1>5. FairSpec => /\ [](IInv /\ Life) /\ [][Next]_vars
                  /\ WF_vars(main_thread) /\ WF_vars(workqueue)
  BY FormerLife, PTL DEF FairSpec, Fairness, Spec
<1>6. IInv /\ Life /\ <<main_thread>>_vars => main_thread
  OBVIOUS
<1> QED BY <1>1, <1>2, <1>3, <1>4, <1>5, <1>6, PTL DEF MainReady, WorkReady

\* A low battery switches the keyboard off, or it recovers: main() gets to
\* System OFF past every work item that its destructors wait for.
THEOREM FormerLowSwitchesOff ==
    FairSpec /\ []MainReady /\ []WorkReady => LowSwitchesOff
<1>1. IInv /\ Life /\ [Next]_vars => (Pc("reboot") => Pc("reboot")' \/ (~Low)')
  BY OutsideSteps, RunSteps, LeaveSteps DEF main_thread, main, Pc, Low, Running
<1>2. IInv /\ Life /\ [Next]_vars /\ <<main_thread>>_vars => (Pc("reboot") => (~Low)')
  BY RunSteps, LeaveSteps DEF main_thread, Pc, Low, Running
<1>3. /\ Pc("reboot") => MainMay
      /\ Pc("off") <=> pc = "off"
      /\ Low <=> mode = "LOW"
      /\ ~Low <=> mode # "LOW"
  BY DEF Pc, MainMay, Low
<1>4. FairSpec => [](IInv /\ Life) /\ [][Next]_vars /\ WF_vars(main_thread)
  BY FormerLife, PTL DEF FairSpec, Fairness, Spec
<1>5. FairSpec /\ []MainReady => (Pc("reboot") ~> ~Low)
  BY <1>1, <1>2, <1>3, <1>4, PTL DEF MainReady
<1> QED BY <1>3, <1>5, LeavingEnds, LowLeaves, PTL DEF LowSwitchesOff

----------------------------------------------------------------------------
\* The switch is not at USB and the battery is not low; the keyboard that runs.
Wireless == Position # 0 /\ mode # "LOW"
FreshAt(x) == pc = x /\ keyboard = "none"
UsbAt(x) == pc = x /\ keyboard = "OFF_USB"
Fresh0 == action = "none" /\ keyboard = "none"
Bluetooth == keyboard = "BLUETOOTH" /\ action = "none"
Event == main_loop_event = TRUE
Queued == "callback" \in queued
Delayed == "callback" \in delayed

\* A wireless keyboard remains one while the switch rests.
LEMMA BluetoothStays ==
    IInv /\ Life /\ [Next]_vars /\ Wireless /\ Wireless' /\ Bluetooth => Bluetooth'
<1> SUFFICES ASSUME IInv, Life, [Next]_vars, Wireless, Bluetooth PROVE Bluetooth'
  OBVIOUS
<1>1. CASE run_keyboard
  <2>1. pc \in {"low", "usb", "position", "take", "mode"}
    BY <1>1, RunSteps DEF Running, IInv, Listening, Bluetooth
  <2>2. pc' \in Running
    BY <1>1, <2>1, RunSteps DEF Running, NextRead, Bluetooth, Wireless, SelectedMode
  <2>3. action' = "none" /\ keyboard' = keyboard
    BY <1>1, <2>1, <2>2, RunSteps DEF Life, RunningIs
  <2> QED BY <2>3 DEF Bluetooth
<1>2. CASE destructors \/ Restart
  BY <1>2, LeaveSteps DEF Life, RunningIs, Bluetooth
<1>3. CASE ~main_thread
  BY <1>3, OutsideSteps DEF main, Bluetooth
<1> QED BY <1>1, <1>2, <1>3 DEF main_thread

\* A keyboard that starts afresh enters the mode of the switch.
LEMMA FreshSteps ==
    ASSUME IInv, Life, main_thread, Wireless
    PROVE  /\ FreshAt("new") => FreshAt("measure")'
           /\ FreshAt("measure") => FreshAt("low")'
           /\ FreshAt("low") => FreshAt("usb")'
           /\ FreshAt("usb") => FreshAt("position")' \/ FreshAt("set_callback")'
           /\ FreshAt("position") => FreshAt("set_callback")'
           /\ FreshAt("set_callback") => FreshAt("select")'
           /\ FreshAt("select") => FreshAt("select_bluetooth")'
           /\ FreshAt("select_bluetooth") => Bluetooth'
           /\ UsbAt("low") => UsbAt("usb")'
           /\ UsbAt("usb") => UsbAt("position")' \/ UsbAt("mode")'
           /\ UsbAt("position") => UsbAt("mode")'
           /\ UsbAt("mode") => Leaving'
           /\ UsbAt("take") => UsbAt("low")'
           /\ Pc("reboot") => FreshAt("new")'
           /\ Pc("off") => FreshAt("new")'
<1> USE DEF FreshAt, UsbAt, Wireless, SelectedMode, Pc
<1>1. CASE run_keyboard
  <2>1. pc = "select_bluetooth" => Bluetooth'
    BY <1>1, RunSteps DEF Life, RunningIs, Running, Bluetooth
  <2>2. pc' = "read_position" => Leaving'
    BY <1>1, RunSteps DEF Life, RunningIs, Running, Leaving
  <2> QED BY <1>1, <2>1, <2>2, RunSteps DEF NextRead, Running
<1>2. CASE destructors \/ Restart
  BY <1>2, LeaveSteps DEF Running
<1> QED BY <1>1, <1>2 DEF main_thread

\* What the others leave alone while the main thread does not move.
LEMMA FreshWaits ==
    ASSUME IInv, Life, [Next]_vars, ~main_thread
    PROVE  /\ UNCHANGED <<pc, keyboard, action>>
           /\ change_callback => change_callback'
           /\ Event => Event'
           /\ Queued => Queued' \/ Event'
           /\ Delayed => Delayed' \/ Queued'
BY OutsideSteps, WorkSteps DEF main, Event, Queued, Delayed

\* With the switch resting, a keyboard that starts afresh becomes wireless.
LEMMA FreshEnds ==
    FairSpec /\ []MainReady /\ []WorkReady => (([]Wireless /\ Fresh0) ~> Bluetooth)
<1>1. IInv /\ Life /\ [Next]_vars /\ Wireless =>
          /\ FreshAt("new") => FreshAt("new")' \/ FreshAt("measure")'
          /\ FreshAt("measure") => FreshAt("measure")' \/ FreshAt("low")'
          /\ FreshAt("low") => FreshAt("low")' \/ FreshAt("usb")'
          /\ FreshAt("usb") => FreshAt("usb")' \/ FreshAt("position")' \/ FreshAt("set_callback")'
          /\ FreshAt("position") => FreshAt("position")' \/ FreshAt("set_callback")'
          /\ FreshAt("set_callback") => FreshAt("set_callback")' \/ FreshAt("select")'
          /\ FreshAt("select") => FreshAt("select")' \/ FreshAt("select_bluetooth")'
          /\ FreshAt("select") /\ change_callback => change_callback' \/ FreshAt("select_bluetooth")'
          /\ FreshAt("select_bluetooth") => FreshAt("select_bluetooth")' \/ Bluetooth'
  <2>1. CASE main_thread
    BY <2>1, FreshSteps
  <2>2. CASE ~main_thread
    BY <2>2, FreshWaits DEF FreshAt
  <2> QED BY <2>1, <2>2
<1>2. IInv /\ Life /\ Wireless /\ <<main_thread>>_vars =>
          /\ FreshAt("new") => FreshAt("measure")'
          /\ FreshAt("measure") => FreshAt("low")'
          /\ FreshAt("low") => FreshAt("usb")'
          /\ FreshAt("usb") => FreshAt("position")' \/ FreshAt("set_callback")'
          /\ FreshAt("position") => FreshAt("set_callback")'
          /\ FreshAt("set_callback") => FreshAt("select")'
          /\ FreshAt("select") => FreshAt("select_bluetooth")'
          /\ FreshAt("select_bluetooth") => Bluetooth'
  BY FreshSteps
<1>3. IInv /\ Life /\ [Next]_vars /\ Wireless /\ <<workqueue>>_vars =>
          (FreshAt("select") => change_callback' \/ FreshAt("select_bluetooth")')
  <2>1. CASE main_thread
    BY <2>1, FreshSteps
  <2>2. CASE ~main_thread
    BY <2>2, FreshWaits, WorkSteps DEF FreshAt
  <2> QED BY <2>1, <2>2
<1>4. IInv /\ Life =>
          /\ Fresh0 => \/ FreshAt("new") \/ FreshAt("measure") \/ FreshAt("low") \/ FreshAt("usb")
                       \/ FreshAt("position") \/ FreshAt("set_callback") \/ FreshAt("select")
                       \/ FreshAt("select_bluetooth")
          /\ FreshAt("new") \/ FreshAt("measure") \/ FreshAt("low") \/ FreshAt("usb")
                 \/ FreshAt("position") \/ FreshAt("set_callback")
                 \/ FreshAt("select_bluetooth") => MainMay
          /\ FreshAt("select") /\ change_callback => MainMay
          /\ FreshAt("select") /\ ~change_callback => queued # {}
  BY DEF FreshAt, Fresh0, MainMay, Life, Started, RunningIs, Running, IInv, TypeOK, Listening
<1>5. FairSpec => /\ [](IInv /\ Life) /\ [][Next]_vars
                  /\ WF_vars(main_thread) /\ WF_vars(workqueue)
  BY FormerLife, PTL DEF FairSpec, Fairness, Spec
<1> QED BY <1>1, <1>2, <1>3, <1>4, <1>5, PTL DEF MainReady, WorkReady

\* A wired keyboard notices that the switch left its position, and leaves.
Wired == keyboard = "OFF_USB" /\ action = "none"
ExpireFair(item) == WF_vars(Expire(item))

\* It waits for an event, and there is one: the interrupt of the line has delayed
\* the callback, the delay ends, and the callback gets its turn in the queue.
LEMMA WiredNotices ==
    FairSpec /\ []WorkReady /\ []CallbackReady /\ []ExpireReady =>
        (([]Wireless /\ UsbAt("take")) ~> (UsbAt("take") /\ Event) \/ UsbAt("low"))
<1>1. IInv /\ Life /\ [Next]_vars /\ Wireless /\ UsbAt("take") =>
          /\ UsbAt("take")' \/ UsbAt("low")'
          /\ Queued => Queued' \/ Event' \/ UsbAt("low")'
          /\ Delayed => Delayed' \/ Queued' \/ UsbAt("low")'
          /\ <<static_on_callback>>_vars => Event' \/ UsbAt("low")'
          /\ <<Expire("callback")>>_vars => Queued' \/ UsbAt("low")'
          /\ <<workqueue>>_vars /\ Converting => (~Converting)' \/ UsbAt("low")'
  <2>1. CASE main_thread
    BY <2>1, FreshSteps
  <2>2. CASE ~main_thread
    <3>1. IInv /\ Life /\ [Next]_vars /\ UsbAt("take") => UsbAt("take")'
      BY <2>2, FreshWaits DEF UsbAt
    <3> QED
      BY <2>2, <3>1, FreshWaits, WorkSteps DEF Event, Queued, Delayed, Converting
  <2> QED BY <2>1, <2>2
<1>2. IInv /\ Life /\ Wireless /\ UsbAt("take") =>
          /\ Event \/ Queued \/ Delayed
          /\ Converting => measuring \/ queued # {}
          /\ ~Converting /\ Queued => ~measuring /\ "callback" \in queued
          /\ Delayed => change_callback /\ "callback" \in delayed
  BY DEF UsbAt, Wireless, Event, Queued, Delayed, Pending, Converting, IInv, TypeOK, Listening,
    Life, SwitchNoticed
<1>3. FairSpec => \A item \in Items : ExpireFair(item)
  BY PTL DEF FairSpec, Fairness, ExpireFair
<1>4. "callback" \in Items
  BY DEF Items
<1>5. FairSpec => ExpireFair("callback")
  BY <1>3, <1>4
<1>6. FairSpec => /\ [](IInv /\ Life) /\ [][Next]_vars
                  /\ SF_vars(static_on_callback) /\ WF_vars(workqueue)
                  /\ WF_vars(Expire("callback"))
  BY <1>5, FormerLife, PTL DEF FairSpec, Fairness, Spec, ExpireFair
<1> QED BY <1>1, <1>2, <1>6, PTL DEF WorkReady, CallbackReady, ExpireReady

\* Then it compares the modes, and leaves.
LEMMA WiredEnds ==
    FairSpec /\ []MainReady /\ []WorkReady /\ []CallbackReady /\ []ExpireReady =>
        (([]Wireless /\ Wired) ~> Leaving)
<1>1. IInv /\ Life /\ [Next]_vars /\ Wireless =>
          /\ UsbAt("low") => UsbAt("low")' \/ UsbAt("usb")'
          /\ UsbAt("usb") => UsbAt("usb")' \/ UsbAt("position")' \/ UsbAt("mode")'
          /\ UsbAt("position") => UsbAt("position")' \/ UsbAt("mode")'
          /\ UsbAt("mode") => UsbAt("mode")' \/ Leaving'
          /\ UsbAt("take") /\ Event => (UsbAt("take") /\ Event)' \/ UsbAt("low")'
  <2>1. CASE main_thread
    BY <2>1, FreshSteps
  <2>2. CASE ~main_thread
    BY <2>2, FreshWaits DEF UsbAt
  <2> QED BY <2>1, <2>2
<1>2. IInv /\ Life /\ Wireless /\ <<main_thread>>_vars =>
          /\ UsbAt("low") => UsbAt("usb")'
          /\ UsbAt("usb") => UsbAt("position")' \/ UsbAt("mode")'
          /\ UsbAt("position") => UsbAt("mode")'
          /\ UsbAt("mode") => Leaving'
          /\ UsbAt("take") => UsbAt("low")'
  BY FreshSteps
<1>3. IInv /\ Life =>
          /\ Wired => \/ UsbAt("take") \/ UsbAt("low") \/ UsbAt("usb") \/ UsbAt("position")
                      \/ UsbAt("mode")
          /\ UsbAt("low") \/ UsbAt("usb") \/ UsbAt("position") \/ UsbAt("mode") => MainMay
          /\ UsbAt("take") /\ Event => MainMay
  BY DEF UsbAt, Wired, Event, MainMay, Life, RunningIs, Running, IInv, TypeOK, Listening
<1>4. FairSpec => [](IInv /\ Life) /\ [][Next]_vars /\ WF_vars(main_thread)
  BY FormerLife, PTL DEF FairSpec, Fairness, Spec
<1>5. FairSpec /\ []MainReady =>
          (([]Wireless /\ (UsbAt("low") \/ UsbAt("usb") \/ UsbAt("position") \/ UsbAt("mode")))
               ~> Leaving)
  BY <1>1, <1>2, <1>3, <1>4, PTL DEF MainReady
<1>6. FairSpec /\ []MainReady => (([]Wireless /\ UsbAt("take") /\ Event) ~> UsbAt("low"))
  BY <1>1, <1>2, <1>3, <1>4, PTL DEF MainReady
<1>7. [](IInv /\ Life => (Wired => \/ UsbAt("take") \/ UsbAt("low") \/ UsbAt("usb")
                                   \/ UsbAt("position") \/ UsbAt("mode")))
  BY <1>3, PTL
<1> QED BY <1>4, <1>5, <1>6, <1>7, WiredNotices, PTL

\* Everything the theorem assumes of ENABLED.
FormerReady == MainReady /\ WorkReady /\ CallbackReady /\ ExpireReady /\ RestartReady

\* From anywhere the wireless keyboard is reached, or System OFF for good.
LEMMA WirelessSettles ==
    FairSpec /\ []FormerReady => ([]Wireless ~> (Bluetooth \/ ([]Wireless /\ []Pc("off"))))
<1>1. IInv /\ Life /\ [Next]_vars /\ Wireless =>
          /\ Pc("reboot") => Pc("reboot")' \/ Fresh0'
          /\ Pc("off") => Pc("off")' \/ Fresh0'
          /\ <<main_thread>>_vars => (Pc("reboot") => Fresh0')
  <2>1. CASE run_keyboard
    BY <2>1, RunSteps DEF Pc, Running
  <2>2. CASE destructors \/ Restart
    BY <2>2, LeaveSteps DEF Pc, Fresh0
  <2>3. CASE ~main_thread
    BY <2>3, OutsideSteps DEF Pc, main
  <2> QED BY <2>1, <2>2, <2>3 DEF main_thread
<1>2. /\ Pc("reboot") => MainMay
      /\ IInv => Leaving \/ Fresh0 \/ Wired \/ Bluetooth
  BY DEF Pc, MainMay, IInv, TypeOK, Leaving, Fresh0, Wired, Bluetooth
<1>3. FairSpec => [](IInv /\ Life) /\ [][Next]_vars /\ WF_vars(main_thread)
  BY FormerLife, PTL DEF FairSpec, Fairness, Spec
<1>4. []FormerReady => []MainReady /\ []WorkReady /\ []CallbackReady /\ []ExpireReady
  BY PTL DEF FormerReady
<1>5. FairSpec /\ []MainReady => (([]Wireless /\ Pc("reboot")) ~> Fresh0)
  BY <1>1, <1>2, <1>3, PTL DEF MainReady
<1>6. FairSpec => (([]Wireless /\ Pc("off")) ~> (Fresh0 \/ []Pc("off")))
  BY <1>1, <1>3, PTL
<1> QED BY <1>2, <1>3, <1>4, <1>5, <1>6, FreshEnds, WiredEnds, LeavingEnds, PTL

\* A switch moved away from USB is acted on: the wireless keyboard runs, or the
\* chip is in System OFF with the position it has seen. A position that is read
\* before the interrupts are disabled does not get lost.
THEOREM FormerSwitchActedOn == FairSpec /\ []FormerReady => SwitchActedOn
<1>1. IInv /\ Life /\ [Next]_vars /\ Wireless /\ Wireless' /\ Bluetooth => Bluetooth'
  BY BluetoothStays
<1>2. IInv /\ Life /\ <<Restart>>_vars => (Pc("off") => (~Pc("off"))')
  BY LeaveSteps DEF Pc
<1>3. DownAtRest /\ Wireless /\ Pc("off") /\ ~Senses => pc = "off" /\ position = Position
  BY DEF DownAtRest, Moved, Pc, Wireless, Position
<1>4. /\ Pc("off") <=> pc = "off"
      /\ Wireless <=> Position # 0 /\ mode # "LOW"
      /\ Bluetooth <=> keyboard = "BLUETOOTH" /\ action = "none"
  BY DEF Pc, Wireless, Bluetooth
<1>5. FairSpec => [](IInv /\ Life) /\ []DownAtRest /\ [][Next]_vars /\ SF_vars(Restart)
  BY FormerLife, FormerDownAtRest, PTL DEF FairSpec, Fairness, Spec
<1>6. []FormerReady => []RestartReady
  BY PTL DEF FormerReady
<1> QED
  BY <1>1, <1>2, <1>3, <1>4, <1>5, <1>6, WirelessSettles, PTL DEF SwitchActedOn, RestartReady
=============================================================================
