----------------------------- MODULE ModeSwitch -----------------------------
(***************************************************************************)
(* The mode switch: keyboard/src/mode_switch.rs over the two pins of       *)
(* app/src/mode_switch.rs.  The contacts bounce: either line may change at *)
(* any time, also between two reads and while the task sleeps or sends.    *)
(* The task implements SwitchTask.                                         *)
(***************************************************************************)
EXTENDS Channel

Line == {1, 2}

VARIABLES
    sw,                 \* the levels of the lines sw_1 and sw_2 (environment)
    sw_current,         \* ModeSwitchHardware::sw_N_current
    triggered,          \* the lines whose wait_for_high/low has fired
    switch_pc,          \* "start"; "send"; "wait": in wait_for_change;
                        \* "settle": in sleep.after(100 ms); "done"
    position,           \* the local variable of switch_function
    mode_switch_stop, mode_switch_out,      \* see SwitchTask
    delivered           \* history: the last position sent, or "none"

vars == <<sw, sw_current, triggered, switch_pc, position, mode_switch_stop,
          mode_switch_out, delivered>>

input_to_position(level) ==
    IF level[2] THEN "Profile2" ELSE IF level[1] THEN "Profile1" ELSE "OffUsb"

\* wait_for_change waits on each line for the level it does not believe in:
\* a line that has that level already fires at once.
Differing(level, current) == {n \in Line : level[n] # current[n]}

Init ==
    /\ sw \in [Line -> BOOLEAN]
    /\ sw_current = sw
    /\ triggered = {}
    /\ switch_pc = "start"
    /\ position = "OffUsb"
    /\ mode_switch_stop = <<>>
    /\ mode_switch_out = <<>>
    /\ delivered = "none"

\* A contact closes, opens or bounces.  While the task waits, the GPIO sense
\* mechanism latches the edge, even if the level does not last.
Bounce(n) ==
    /\ sw' = [sw EXCEPT ![n] = ~@]
    /\ triggered' = IF switch_pc = "wait"
                    THEN triggered \cup Differing(sw', sw_current)
                    ELSE triggered
    /\ UNCHANGED <<sw_current, switch_pc, position, mode_switch_stop,
                   mode_switch_out, delivered>>

\* pins.position() caches the levels it has read.
ReadPosition == sw_current' = sw

Start ==
    /\ switch_pc = "start"
    /\ ReadPosition
    /\ position' = input_to_position(sw)
    /\ switch_pc' = "send"
    /\ UNCHANGED <<sw, triggered, mode_switch_stop, mode_switch_out, delivered>>

\* Mutant: wait for an edge instead of a level.
WaitForEdge ==
    /\ switch_pc' = "wait"
    /\ triggered' = {}

\* Enter wait_for_change.
Wait ==
    /\ switch_pc' = "wait"
    /\ triggered' = Differing(sw, sw_current')

\* Mutant: a newer position overwrites one that was not taken.
SendPositionOverwrites ==
    /\ switch_pc = "send"
    /\ mode_switch_out' = <<position>>
    /\ delivered' = position
    /\ UNCHANGED sw_current
    /\ Wait
    /\ UNCHANGED <<sw, position, mode_switch_stop>>

\* Mutant: try_send instead of send.
SendPositionTry ==
    /\ switch_pc = "send"
    /\ \/ Send(mode_switch_out, position) /\ delivered' = position
       \/ mode_switch_out # <<>> /\ UNCHANGED <<mode_switch_out, delivered>>
    /\ UNCHANGED sw_current
    /\ Wait
    /\ UNCHANGED <<sw, position, mode_switch_stop>>

SendPosition ==
    /\ switch_pc = "send"
    /\ Send(mode_switch_out, position)
    /\ delivered' = position
    /\ UNCHANGED sw_current
    /\ Wait
    /\ UNCHANGED <<sw, position, mode_switch_stop>>

\* select(wait1, wait2) completes with the first line that fired; the assumed
\* state of that line is inverted.
Changed ==
    /\ switch_pc = "wait"
    /\ triggered # {}
    /\ LET n == IF 1 \in triggered THEN 1 ELSE 2
       IN  sw_current' = [sw_current EXCEPT ![n] = ~@]
    /\ triggered' = {}
    /\ switch_pc' = "settle"
    /\ UNCHANGED <<sw, position, mode_switch_stop, mode_switch_out, delivered>>

\* Mutant: every settled position is reported.
SettledAlwaysReports ==
    /\ switch_pc = "settle"
    /\ ReadPosition
    /\ position' = input_to_position(sw)
    /\ switch_pc' = "send"
    /\ UNCHANGED <<sw, triggered, mode_switch_stop, mode_switch_out, delivered>>

\* The 100 ms are over: read the position and report it if it is a new one.
Settled ==
    /\ switch_pc = "settle"
    /\ ReadPosition
    /\ position' = input_to_position(sw)
    /\ \/ position' # position /\ switch_pc' = "send" /\ UNCHANGED triggered
       \/ position' = position /\ Wait
    /\ UNCHANGED <<sw, mode_switch_stop, mode_switch_out, delivered>>

Stop ==
    /\ switch_pc # "done"
    /\ Receive(mode_switch_stop)
    /\ switch_pc' = "done"
    /\ UNCHANGED <<sw, sw_current, triggered, position, mode_switch_out, delivered>>

switch_function == Start \/ SendPosition \/ Changed \/ Settled
run == switch_function \/ Stop

RequestStop ==
    /\ Send(mode_switch_stop, "stop")
    /\ UNCHANGED <<sw, sw_current, triggered, switch_pc, position,
                   mode_switch_out, delivered>>
Take ==
    /\ Receive(mode_switch_out)
    /\ UNCHANGED <<sw, sw_current, triggered, switch_pc, position,
                   mode_switch_stop, delivered>>

Next == run \/ RequestStop \/ Take \/ \E n \in Line : Bounce(n)
Spec == Init /\ [][Next]_vars

\* The dispatcher takes positions until it shuts the tasks down.
TakeUntilStop == mode_switch_stop = <<>> /\ switch_pc # "done" /\ Take

\* The executor keeps polling the task, which can receive a stop at any await.
\* The dispatcher keeps taking positions until it asks the task to stop, which
\* it always comes to once it has taken its last one (Firmware's
\* ShutdownTellsAll).
Fairness == WF_vars(run) /\ WF_vars(Stop) /\ WF_vars(TakeUntilStop)
FairSpec == Spec /\ Fairness

----------------------------------------------------------------------------

TypeOK ==
    /\ sw \in [Line -> BOOLEAN]
    /\ sw_current \in [Line -> BOOLEAN]
    /\ triggered \subseteq Line
    /\ switch_pc \in {"start", "send", "wait", "settle", "done"}
    /\ position \in {"OffUsb", "Profile1", "Profile2"}
    /\ mode_switch_stop \in Buffer({"stop"})
    /\ mode_switch_out \in Buffer({"OffUsb", "Profile1", "Profile2"})
    /\ delivered \in {"none", "OffUsb", "Profile1", "Profile2"}

(***************************************************************************)
(* "We will never miss an edge" (app/src/mode_switch.rs): while the task   *)
(* waits and no line has fired, the position it last reported is the one   *)
(* the switch is in, whatever bounced between the last read and the wait.  *)
(***************************************************************************)
NoMissedEdge ==
    switch_pc = "wait" /\ triggered = {} => delivered = input_to_position(sw)

(***************************************************************************)
(* A position is reported exactly when it differs from the last one        *)
(* reported, so that the dispatcher never sees a change that is none.      *)
(***************************************************************************)
ReportsAreChanges ==
    /\ switch_pc = "start" => delivered = "none"
    /\ switch_pc = "send" => delivered # position
    /\ switch_pc \in {"wait", "settle"} => delivered = position

(***************************************************************************)
(* Why no edge is missed: the position comes from the levels the task      *)
(* assumes when it starts to wait, and every line that has left its        *)
(* assumed level since then has fired.                                     *)
(***************************************************************************)
WaitsFromPosition ==
    switch_pc \in {"send", "wait"} => position = input_to_position(sw_current)
EdgesLatched == switch_pc = "wait" => Differing(sw, sw_current) \subseteq triggered

\* The task does what SwitchTask promises the dispatcher.
T == INSTANCE SwitchTask WITH
        switch_pc <- IF switch_pc = "settle" THEN "wait" ELSE switch_pc
ImplementsSwitchTask == T!Spec

IInv == TypeOK /\ NoMissedEdge /\ ReportsAreChanges
            /\ WaitsFromPosition /\ EdgesLatched

(***************************************************************************)
(* A switch that is left alone is reported: the position it comes to rest  *)
(* in is the one the dispatcher keeps, unless the task is stopped.         *)
(***************************************************************************)
RestReported ==
    \A level \in [Line -> BOOLEAN] :
        <>[](sw = level) =>
            <>[](delivered = input_to_position(level) \/ switch_pc = "done")
=============================================================================
