-------------------------- MODULE ModeSwitchProofs --------------------------
(***************************************************************************)
(* The mode switch never misses an edge, with any bouncing of its two      *)
(* lines: the invariant IInv of ModeSwitch is inductive.                   *)
(***************************************************************************)
EXTENDS ModeSwitch, TLAPS

Position == {"OffUsb", "Profile1", "Profile2"}

\* The levels of the lines always mean a position.
LEMMA PositionType ==
    ASSUME NEW level \in [Line -> BOOLEAN]
    PROVE  input_to_position(level) \in Position
BY DEF input_to_position, Position

\* If no line differs from what the task believes, it has read the lines.
LEMMA NoneDiffers ==
    ASSUME NEW level \in [Line -> BOOLEAN], NEW current \in [Line -> BOOLEAN],
           Differing(level, current) = {}
    PROVE  level = current
<1>1. \A n \in Line : level[n] = current[n]
    BY DEF Differing
<1>. QED  BY <1>1

----------------------------------------------------------------------------
\* Power on: the constructed but not yet started task satisfies the invariant.
THEOREM SwitchInitial == Init => IInv
<1>. SUFFICES ASSUME Init PROVE IInv
    OBVIOUS
<1>1. TypeOK
    BY DEF Init, TypeOK, Buffer, Capacity
<1>. QED
    BY <1>1 DEF Init, IInv, NoMissedEdge, ReportsAreChanges,
                WaitsFromPosition, EdgesLatched

\* Where the task reads the lines again.
LEMMA WaitEstablishes ==
    ASSUME TypeOK, TypeOK', Wait, delivered' = position', sw' = sw,
           position' = input_to_position(sw_current')
    PROVE  /\ NoMissedEdge' /\ ReportsAreChanges'
           /\ WaitsFromPosition' /\ EdgesLatched'
<1>1. switch_pc' = "wait" /\ triggered' = Differing(sw', sw_current')
    BY DEF Wait
<1>2. NoMissedEdge'
    <2>. SUFFICES ASSUME triggered' = {} PROVE delivered' = input_to_position(sw')
        BY DEF NoMissedEdge
    <2>. QED  BY <1>1, NoneDiffers DEF TypeOK
<1>. QED  BY <1>1, <1>2 DEF ReportsAreChanges, WaitsFromPosition, EdgesLatched

\* Each await of the task, each bounce of a line and each step of the
\* dispatcher keeps the invariant.
THEOREM SwitchInductive == IInv /\ [Next]_vars => IInv'
<1>. SUFFICES ASSUME IInv, [Next]_vars PROVE IInv'
    OBVIOUS
<1>. USE DEF IInv
<1>1. CASE UNCHANGED vars
    BY <1>1 DEF vars, TypeOK, NoMissedEdge, ReportsAreChanges,
                WaitsFromPosition, EdgesLatched
<1>2. CASE Start
    <2>1. TypeOK'
        BY <1>2, PositionType DEF Start, ReadPosition, TypeOK, Position
    <2>2. delivered = "none" /\ position' \in Position
        BY <1>2, PositionType DEF Start, TypeOK, ReportsAreChanges
    <2>. QED
        BY <1>2, <2>1, <2>2 DEF Start, ReadPosition, NoMissedEdge, Position,
            ReportsAreChanges, WaitsFromPosition, EdgesLatched
<1>3. CASE SendPosition
    <2>1. TypeOK'
        <3>1. mode_switch_out' \in Buffer({"OffUsb", "Profile1", "Profile2"})
            BY <1>3 DEF SendPosition, Send, Buffer, Capacity, TypeOK
        <3>. QED
            BY <1>3, <3>1 DEF SendPosition, Wait, Differing, TypeOK
    <2>2. position' = input_to_position(sw_current')
        BY <1>3 DEF SendPosition, WaitsFromPosition
    <2>3. Wait /\ delivered' = position' /\ sw' = sw
        BY <1>3 DEF SendPosition
    <2>. QED  BY <2>1, <2>2, <2>3, WaitEstablishes
<1>4. CASE Changed
    <2>1. TypeOK'
        BY <1>4 DEF Changed, TypeOK
    <2>. QED
        BY <1>4, <2>1 DEF Changed, NoMissedEdge, ReportsAreChanges,
                          WaitsFromPosition, EdgesLatched
<1>5. CASE Settled
    <2>1. position' \in Position /\ position' = input_to_position(sw_current')
        BY <1>5, PositionType DEF Settled, ReadPosition, TypeOK
    <2>2. delivered = position /\ sw' = sw /\ delivered' = delivered
        BY <1>5 DEF Settled, ReportsAreChanges
    <2>3. TypeOK'
        BY <1>5, <2>1 DEF Settled, ReadPosition, Wait, Differing, TypeOK, Position
    <2>4. CASE position' = position /\ Wait
        BY <2>1, <2>2, <2>3, <2>4, WaitEstablishes
    <2>5. CASE position' # position /\ switch_pc' = "send"
        BY <2>1, <2>2, <2>3, <2>5 DEF NoMissedEdge, ReportsAreChanges,
                                      WaitsFromPosition, EdgesLatched
    <2>. QED  BY <1>5, <2>4, <2>5 DEF Settled
<1>6. CASE Stop \/ RequestStop
    <2>1. mode_switch_stop \in Buffer({"stop"})
        BY DEF TypeOK
    <2>2. mode_switch_stop' \in Buffer({"stop"})
        <3>1. CASE Stop
            BY <2>1, <3>1 DEF Stop, Receive, Buffer, Capacity
        <3>2. CASE RequestStop
            BY <2>1, <3>2 DEF RequestStop, Send, Buffer, Capacity
        <3>. QED  BY <1>6, <3>1, <3>2
    <2>3. TypeOK'
        BY <1>6, <2>2 DEF Stop, RequestStop, TypeOK
    <2>. QED
        BY <1>6, <2>3 DEF Stop, RequestStop, NoMissedEdge,
            ReportsAreChanges, WaitsFromPosition, EdgesLatched
<1>7. CASE Take
    <2>1. mode_switch_out' \in Buffer({"OffUsb", "Profile1", "Profile2"})
        <3>1. mode_switch_out \in Buffer({"OffUsb", "Profile1", "Profile2"})
            BY DEF TypeOK
        <3>. QED  BY <1>7, <3>1 DEF Take, Receive, Buffer, Capacity
    <2>2. TypeOK'
        BY <1>7, <2>1 DEF Take, TypeOK
    <2>. QED
        BY <1>7, <2>2 DEF Take, NoMissedEdge,
            ReportsAreChanges, WaitsFromPosition, EdgesLatched
<1>8. ASSUME NEW n \in Line, Bounce(n) PROVE IInv'
    <2>1. TypeOK'
        BY <1>8 DEF Bounce, Differing, TypeOK
    <2>2. EdgesLatched'
        BY <1>8 DEF Bounce, Differing, EdgesLatched
    <2>3. NoMissedEdge'
        <3>. SUFFICES ASSUME switch_pc' = "wait", triggered' = {}
             PROVE  delivered' = input_to_position(sw')
            BY DEF NoMissedEdge
        <3>1. sw' = sw_current'
            BY <2>1, <2>2, NoneDiffers DEF EdgesLatched, TypeOK
        <3>. QED
            BY <1>8, <3>1 DEF Bounce, ReportsAreChanges, WaitsFromPosition
    <2>. QED
        BY <1>8, <2>1, <2>2, <2>3 DEF Bounce, ReportsAreChanges, WaitsFromPosition
<1>. QED
    BY <1>1, <1>2, <1>3, <1>4, <1>5, <1>6, <1>7, <1>8
    DEF Next, run, switch_function

\* The inductive invariant of the mode switch holds, whatever its contacts do.
THEOREM SwitchInvariant == Spec => []IInv
<1>. QED  BY SwitchInitial, SwitchInductive, PTL DEF Spec

\* "We will never miss an edge" (app/src/mode_switch.rs).
THEOREM SwitchNoMissedEdge == Spec => []NoMissedEdge
<1>1. IInv => NoMissedEdge
    BY DEF IInv
<1>. QED  BY <1>1, SwitchInvariant, PTL

----------------------------------------------------------------------------
\* A step of the mode switch is a step of the abstract task or none at all.
LEMMA SwitchStep == IInv /\ [Next]_vars => [T!Next]_(T!vars)
<1>. SUFFICES ASSUME IInv, [Next]_vars PROVE T!Next \/ UNCHANGED T!vars
    OBVIOUS
<1>. USE DEF IInv, T!taskVars, T!vars
<1>1. CASE UNCHANGED vars
    BY <1>1 DEF vars
<1>2. CASE Start
    <2>1. position' \in T!SwitchPosition
        BY <1>2, PositionType DEF Start, TypeOK, Position, T!SwitchPosition
    <2>2. T!Start(position')
        BY <1>2 DEF Start, T!Start
    <2>. QED  BY <2>1, <2>2 DEF T!Next, T!run
<1>3. CASE SendPosition
    <2>1. T!SendPosition
        BY <1>3 DEF SendPosition, Wait, T!SendPosition, Send, T!Send, Capacity, T!Capacity
    <2>. QED  BY <2>1 DEF T!Next, T!run
<1>4. CASE Changed
    BY <1>4 DEF Changed
<1>5. CASE Settled
    <2>1. position' \in T!SwitchPosition
        BY <1>5, PositionType DEF Settled, ReadPosition, TypeOK, Position, T!SwitchPosition
    <2>2. CASE position' # position /\ switch_pc' = "send"
        <3>1. T!Change(position')
            BY <1>5, <2>2 DEF Settled, T!Change
        <3>. QED  BY <2>1, <3>1 DEF T!Next, T!run
    <2>3. CASE position' = position /\ Wait
        BY <1>5, <2>3 DEF Settled, Wait
    <2>. QED  BY <1>5, <2>2, <2>3 DEF Settled
<1>6. CASE Stop
    <2>1. T!Stop
        BY <1>6 DEF Stop, T!Stop, Receive, T!Receive
    <2>. QED  BY <2>1 DEF T!Next, T!run
<1>7. CASE RequestStop
    <2>1. T!RequestStop
        BY <1>7 DEF RequestStop, T!RequestStop, Send, T!Send, Capacity, T!Capacity
    <2>. QED  BY <2>1 DEF T!Next
<1>8. CASE Take
    <2>1. T!Take
        BY <1>8 DEF Take, T!Take, Receive, T!Receive
    <2>. QED  BY <2>1 DEF T!Next
<1>9. ASSUME NEW n \in Line, Bounce(n) PROVE UNCHANGED T!vars
    BY <1>9 DEF Bounce
<1>. QED
    BY <1>1, <1>2, <1>3, <1>4, <1>5, <1>6, <1>7, <1>8, <1>9
    DEF Next, run, switch_function

\* The mode switch does what SwitchTask promises the dispatcher.
THEOREM SwitchImplements == Spec => ImplementsSwitchTask
<1>1. Init => T!Init
    BY DEF Init, T!Init
<1>. QED  BY <1>1, SwitchStep, SwitchInvariant, PTL DEF Spec, ImplementsSwitchTask, T!Spec

----------------------------------------------------------------------------
\* The hypotheses of the theorem below: the task runs where its await is over,
\* it can receive a stop, and a dispatcher that has not asked it to stop can
\* take a position that is in the channel. They are validities that speak of ENABLED, so TLC checks them and no prover here.
RunReady ==
    \/ switch_pc \in {"start", "settle"}
    \/ switch_pc = "send" /\ mode_switch_out = <<>>
    \/ switch_pc = "wait" /\ triggered # {}
    => ENABLED <<run>>_vars
StopReady ==
    mode_switch_stop # <<>> /\ switch_pc # "done" => ENABLED <<Stop>>_vars
TakeReady ==
    mode_switch_stop = <<>> /\ switch_pc # "done" /\ mode_switch_out # <<>>
        => ENABLED <<TakeUntilStop>>_vars
Ready == RunReady /\ StopReady /\ TakeReady

\* The task waits for an edge, without and with one that has been latched.
Quiet == switch_pc = "wait" /\ triggered = {}
Fired == switch_pc = "wait" /\ triggered # {}
\* The task at one of its awaits.
At(pc) == switch_pc = pc
\* The position to be sent is the one the switch is in, or not known to be.
Read == switch_pc = "send" /\ sw_current = sw
\* The dispatcher has not taken the last position.
Full == mode_switch_out # <<>>

\* Nothing fires in a wait that was entered with the levels the switch rests at.
LEMMA QuietAfterRead ==
    ASSUME IInv, IInv', Wait, sw_current' = sw', sw' = sw
    PROVE  Quiet'
BY DEF Quiet, Wait, IInv, TypeOK, Differing

\* Where a step leads while the switch rests.
LEMMA RestSteps ==
    ASSUME IInv, [Next]_vars, sw' = sw
    PROVE  /\ At("done") => At("done")'
           /\ Quiet => Quiet' \/ At("done")'
           /\ Read => Read' \/ Quiet' \/ At("done")'
           /\ At("send") => At("send")' \/ Quiet' \/ Fired' \/ At("done")'
           /\ Fired => Fired' \/ At("settle")' \/ At("done")'
           /\ At("settle") => At("settle")' \/ Read' \/ Quiet' \/ At("done")'
           /\ At("start") => At("start")' \/ Read' \/ At("done")'
           /\ At("send") /\ ~Full => ~Full' \/ ~At("send")'
<1>. USE DEF Quiet, Fired, At, Read
<1>1. CASE UNCHANGED vars
    BY <1>1 DEF vars, Full
<1>2. CASE Start
    BY <1>2 DEF Start, ReadPosition
<1>3. CASE SendPosition
    <2>1. Read => Quiet'
        <3>1. IInv'
            BY SwitchInductive
        <3>. QED  BY <1>3, <3>1, QuietAfterRead DEF SendPosition
    <2>. QED  BY <1>3, <2>1 DEF SendPosition, Wait
<1>4. CASE Changed
    BY <1>4 DEF Changed
<1>5. CASE Settled
    <2>1. CASE position' # position /\ switch_pc' = "send"
        BY <1>5, <2>1 DEF Settled, ReadPosition
    <2>2. CASE Wait
        <3>1. IInv'
            BY SwitchInductive
        <3>2. Quiet'
            BY <1>5, <2>2, <3>1, QuietAfterRead DEF Settled, ReadPosition
        <3>. QED  BY <1>5, <3>2 DEF Settled
    <2>. QED  BY <1>5, <2>1, <2>2 DEF Settled
<1>6. CASE Stop
    BY <1>6 DEF Stop
<1>7. CASE RequestStop
    BY <1>7 DEF RequestStop, Full
<1>8. CASE Take
    <2>1. ~Full => ~Take
        BY DEF Full, Take, Receive
    <2>. QED  BY <1>8, <2>1 DEF Take
<1>9. \A n \in Line : ~Bounce(n)
    <2>. SUFFICES ASSUME NEW n \in Line, Bounce(n) PROVE FALSE
        OBVIOUS
    <2>1. sw'[n] = ~sw[n] /\ sw[n] \in BOOLEAN
        BY DEF Bounce, IInv, TypeOK
    <2>. QED  BY <2>1
<1>. QED
    BY <1>1, <1>2, <1>3, <1>4, <1>5, <1>6, <1>7, <1>8, <1>9
    DEF Next, run, switch_function

\* A request to stop is received.
Asked == mode_switch_stop # <<>> /\ switch_pc # "done"
LEMMA AskedSteps ==
    ASSUME IInv, [Next]_vars
    PROVE  /\ Asked => Asked' \/ At("done")'
           /\ At("done") => At("done")'
<1>. USE DEF Asked, At
<1>1. CASE RequestStop
    <2>1. mode_switch_stop' # <<>>
        <3>1. mode_switch_stop \in Seq({"stop"})
            BY DEF IInv, TypeOK, Buffer
        <3>. QED  BY <1>1, <3>1 DEF RequestStop, Send
    <2>. QED  BY <1>1, <2>1 DEF RequestStop
<1>2. CASE Stop
    BY <1>2 DEF Stop
<1>3. CASE switch_function \/ Take \/ (\E n \in Line : Bounce(n)) \/ UNCHANGED vars
    BY <1>3 DEF switch_function, Start, SendPosition, Changed, Settled, Wait, Take, Bounce, vars
<1>. QED  BY <1>1, <1>2, <1>3 DEF Next, run

\* Taking a position empties the channel.
LEMMA TakeEmpties == IInv /\ Take => (~Full)'
<1>. SUFFICES ASSUME IInv, Take PROVE ~Full'
    OBVIOUS
<1>1. mode_switch_out \in Buffer({"OffUsb", "Profile1", "Profile2"})
    BY DEF IInv, TypeOK
<1>. QED  BY <1>1 DEF Take, Receive, Full, Buffer, Capacity

\* Where the next step of the task itself leads.
LEMMA RunProgress ==
    ASSUME IInv, run, sw' = sw
    PROVE  /\ Read => Quiet' \/ At("done")'
           /\ At("send") => Quiet' \/ Fired' \/ At("done")'
           /\ Fired => At("settle")' \/ At("done")'
           /\ At("settle") => Read' \/ Quiet' \/ At("done")'
           /\ At("start") => Read' \/ At("done")'
<1>1. [Next]_vars
    BY DEF Next
<1>2. /\ At("send") => ~At("send")'
      /\ Fired => ~Fired'
      /\ At("settle") => ~At("settle")'
      /\ At("start") => ~At("start")'
    BY DEF run, switch_function, Start, SendPosition, Changed, Settled, Stop, Wait, At, Fired
<1>3. Read => At("send")
    BY DEF Read, At
<1>4. Read' => At("send")'
    BY DEF Read, At
<1>. QED  BY <1>1, <1>2, <1>3, <1>4, RestSteps

\* RestReported for one position of the switch.
RestAt(level) ==
    <>[](sw = level) => <>[](delivered = input_to_position(level) \/ switch_pc = "done")

\* A switch that is left alone is reported: the position it rests in is the
\* last one delivered, or the task has been stopped. A read that was too early
\* is repeated, because the edge that made it so has fired.
THEOREM SwitchRestReported == FairSpec /\ []Ready => RestReported
<1>1. ASSUME NEW level \in [Line -> BOOLEAN]
      PROVE  FairSpec /\ []Ready => RestAt(level)
    <2>. DEFINE Rest == sw = level
    <2>1. IInv /\ Rest /\ Rest' /\ [Next]_vars =>
              /\ At("done") => At("done")'
              /\ Quiet => Quiet' \/ At("done")'
              /\ Read => Read' \/ Quiet' \/ At("done")'
              /\ At("send") => At("send")' \/ Quiet' \/ Fired' \/ At("done")'
              /\ Fired => Fired' \/ At("settle")' \/ At("done")'
              /\ At("settle") => At("settle")' \/ Read' \/ Quiet' \/ At("done")'
              /\ At("start") => At("start")' \/ Read' \/ At("done")'
              /\ At("send") /\ ~Full => (~Full)' \/ (~At("send"))'
        BY RestSteps
    <2>2. IInv /\ Rest /\ Rest' /\ [Next]_vars /\ <<run>>_vars =>
              /\ Read => Quiet' \/ At("done")'
              /\ At("send") => Quiet' \/ Fired' \/ At("done")'
              /\ Fired => At("settle")' \/ At("done")'
              /\ At("settle") => Read' \/ Quiet' \/ At("done")'
              /\ At("start") => Read' \/ At("done")'
        BY RunProgress
    <2>3. IInv /\ <<TakeUntilStop>>_vars => (~Full)'
        BY TakeEmpties DEF TakeUntilStop
    <2>4. /\ At("start") \/ At("settle") => switch_pc \in {"start", "settle"}
          /\ At("send") /\ ~Full => switch_pc = "send" /\ mode_switch_out = <<>>
          /\ Full /\ ~Asked /\ ~At("done") =>
                 mode_switch_stop = <<>> /\ switch_pc # "done" /\ mode_switch_out # <<>>
          /\ Asked => mode_switch_stop # <<>> /\ switch_pc # "done"
          /\ Fired => switch_pc = "wait" /\ triggered # {}
          /\ Read => At("send")
        BY DEF At, Full, Fired, Read, Asked
    <2>5. IInv => At("start") \/ At("send") \/ Quiet \/ Fired \/ At("settle") \/ At("done")
        BY DEF IInv, TypeOK, At, Quiet, Fired
    <2>6. IInv /\ Rest /\ (Quiet \/ At("done"))
              => delivered = input_to_position(level) \/ switch_pc = "done"
        BY DEF IInv, NoMissedEdge, Quiet, At
    <2>7. IInv /\ [Next]_vars =>
              /\ Asked => Asked' \/ At("done")'
              /\ At("done") => At("done")'
        BY AskedSteps
    <2>8. <<Stop>>_vars => At("done")'
        BY DEF Stop, At
    <2>. HIDE DEF Rest
    <2>9. FairSpec /\ []Ready => <>[]At("done") \/ [](~Asked /\ ~At("done"))
        BY <2>4, <2>7, <2>8, SwitchInvariant, PTL
        DEF FairSpec, Fairness, Spec, Ready, StopReady
    <2>10. FairSpec /\ []Ready /\ [](~Asked /\ ~At("done"))
              => (<>[]Rest => <>[](delivered = input_to_position(level) \/ switch_pc = "done"))
        BY <2>1, <2>2, <2>3, <2>4, <2>5, <2>6, SwitchInvariant, PTL
        DEF FairSpec, Fairness, Spec, Ready, RunReady, TakeReady
    <2>11. At("done") => switch_pc = "done"
        BY DEF At
    <2>12. FairSpec /\ []Ready
              => (<>[]Rest => <>[](delivered = input_to_position(level) \/ switch_pc = "done"))
        BY <2>9, <2>10, <2>11, PTL
    <2>. QED  BY <2>12 DEF RestAt, Rest
<1>. QED  BY <1>1 DEF RestReported, RestAt
=============================================================================
