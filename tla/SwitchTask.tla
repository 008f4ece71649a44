----------------------------- MODULE SwitchTask -----------------------------
(***************************************************************************)
(* What the dispatcher sees of the mode switch: ModeSwitch::run of         *)
(* keyboard/src/mode_switch.rs without the pins.  It sends a first         *)
(* position, then only positions that differ from the one before, and      *)
(* returns when told to stop, whatever it was waiting for.  ModeSwitch.tla *)
(* implements it; Firmware.tla composes it.                                *)
(***************************************************************************)
EXTENDS Channel

SwitchPosition == {"OffUsb", "Profile1", "Profile2"}

VARIABLES
    switch_pc,          \* "start"; "send": in output.send; "wait": for the
                        \* pins or for them to settle; "done"
    position,           \* the local variable of switch_function
    mode_switch_stop,   \* channel from the dispatcher
    mode_switch_out     \* channel to the dispatcher

taskVars == <<switch_pc, position>>
vars == <<taskVars, mode_switch_stop, mode_switch_out>>

Init ==
    /\ switch_pc = "start"
    /\ position = "OffUsb"
    /\ mode_switch_stop = <<>>
    /\ mode_switch_out = <<>>

Start(p) ==
    /\ switch_pc = "start"
    /\ position' = p
    /\ switch_pc' = "send"
    /\ UNCHANGED <<mode_switch_stop, mode_switch_out>>

SendPosition ==
    /\ switch_pc = "send"
    /\ Send(mode_switch_out, position)
    /\ switch_pc' = "wait"
    /\ UNCHANGED <<position, mode_switch_stop>>

Change(p) ==
    /\ switch_pc = "wait"
    /\ p # position
    /\ position' = p
    /\ switch_pc' = "send"
    /\ UNCHANGED <<mode_switch_stop, mode_switch_out>>

\* select(switch_function, stop.receive()): a position not sent is dropped.
Stop ==
    /\ switch_pc # "done"
    /\ Receive(mode_switch_stop)
    /\ switch_pc' = "done"
    /\ UNCHANGED <<position, mode_switch_out>>

run ==
    \/ \E p \in SwitchPosition : Start(p) \/ Change(p)
    \/ SendPosition
    \/ Stop

----------------------------------------------------------------------------
\* The dispatcher's side, when the task is studied on its own.
RequestStop == Send(mode_switch_stop, "stop") /\ UNCHANGED <<taskVars, mode_switch_out>>
Take == Receive(mode_switch_out) /\ UNCHANGED <<taskVars, mode_switch_stop>>

Next == run \/ RequestStop \/ Take
Spec == Init /\ [][Next]_vars

TypeOK ==
    /\ switch_pc \in {"start", "send", "wait", "done"}
    /\ position \in SwitchPosition
    /\ mode_switch_stop \in Buffer({"stop"})
    /\ mode_switch_out \in Buffer(SwitchPosition)
=============================================================================
