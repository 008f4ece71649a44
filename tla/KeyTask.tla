------------------------------ MODULE KeyTask ------------------------------
(***************************************************************************)
(* What the rest of the firmware sees of the key matrix: the task          *)
(* Keys::run (keyboard/src/keys.rs) with scanning, debouncing and FN       *)
(* mapping reduced to "some key state".  Keys.tla is the detailed task     *)
(* and implements this one; Firmware.tla composes this one.                *)
(*                                                                         *)
(* A step ends where the code awaits: keys_pc names the await the task is  *)
(* suspended at.                                                           *)
(***************************************************************************)
EXTENDS Channel

CONSTANTS
    KeyStates,      \* the key states that can be reported
    NoKeys          \* the key state without a key: KeyState::new()

PowerLevel == {"Normal", "LowPower", "Shutdown"}

\* enum KeysInEvent
KeysInEvent ==
    [type : {"PowerTransition"}, level : PowerLevel] \cup [type : {"NumlockLed"}]
\* enum KeysOutEvent (the task never sends the variant PowerTransition)
KeysChanged(keys) == [type |-> "KeysChanged", keys |-> keys]
PowerTransitionDone(level) == [type |-> "PowerTransitionDone", level |-> level]
KeysOutEvent == {KeysChanged(keys) : keys \in KeyStates}
                    \cup {PowerTransitionDone(level) : level \in PowerLevel}

VARIABLES
    keys_pc,        \* "enable": in KeyMatrix::enable of Keys::new
                    \* "poll": in the matrix scan of poll
                    \* "sendKeys", "sendDone": in events_out.send
                    \* "events": about to try_receive
                    \* "sleep": in timer.after; "done": run has returned
    key_matrix,     \* is the key matrix powered?
    reported,       \* Keys::reported
    keys_level,     \* the power level whose transition is being confirmed
    keys_in,        \* channel from the dispatcher
    keys_out        \* channel to the dispatcher

taskVars == <<keys_pc, key_matrix, reported, keys_level>>
vars == <<taskVars, keys_in, keys_out>>

Init ==
    /\ keys_pc = "enable"
    /\ key_matrix = TRUE
    /\ reported = NoKeys
    /\ keys_level = "Normal"
    /\ keys_in = <<>>
    /\ keys_out = <<>>

\* Keys::new has switched the matrix on and waits for the supply to settle.
new ==
    /\ keys_pc = "enable"
    /\ keys_pc' = "poll"
    /\ UNCHANGED <<key_matrix, reported, keys_level, keys_in, keys_out>>

\* The scan is complete; report the mapped key state if it changed.
poll(keys) ==
    /\ keys_pc = "poll"
    /\ reported' = keys
    /\ keys_pc' = IF keys # reported THEN "sendKeys" ELSE "events"
    /\ UNCHANGED <<key_matrix, keys_level, keys_in, keys_out>>

SendKeys ==
    /\ keys_pc = "sendKeys"
    /\ Send(keys_out, KeysChanged(reported))
    /\ keys_pc' = "events"
    /\ UNCHANGED <<key_matrix, reported, keys_level, keys_in>>

\* Mutant: Shutdown is handled by the arm of LowPower.
PowerTransitionNeverOff ==
    /\ keys_pc = "events"
    /\ Receive(keys_in)
    /\ Head(keys_in).type = "PowerTransition"
    /\ keys_level' = IF Head(keys_in).level = "Normal" THEN "Normal" ELSE "LowPower"
    /\ keys_pc' = "sendDone"
    /\ UNCHANGED <<key_matrix, reported, keys_out>>

\* try_receive returned a power transition; only Shutdown touches the matrix.
PowerTransition ==
    /\ keys_pc = "events"
    /\ Receive(keys_in)
    /\ Head(keys_in).type = "PowerTransition"
    /\ keys_level' = Head(keys_in).level
    /\ key_matrix' = (key_matrix /\ keys_level' # "Shutdown")
    /\ keys_pc' = "sendDone"
    /\ UNCHANGED <<reported, keys_out>>

\* "Numlock LED not yet implemented!"
NumlockLed ==
    /\ keys_pc = "events"
    /\ Receive(keys_in)
    /\ Head(keys_in).type = "NumlockLed"
    /\ UNCHANGED <<taskVars, keys_out>>

\* Mutant: the task goes on after it confirmed a shutdown.
SendDoneContinues ==
    /\ keys_pc = "sendDone"
    /\ Send(keys_out, PowerTransitionDone(keys_level))
    /\ keys_pc' = "events"
    /\ UNCHANGED <<key_matrix, reported, keys_level, keys_in>>

SendDone ==
    /\ keys_pc = "sendDone"
    /\ Send(keys_out, PowerTransitionDone(keys_level))
    /\ keys_pc' = IF keys_level = "Shutdown" THEN "done" ELSE "events"
    /\ UNCHANGED <<key_matrix, reported, keys_level, keys_in>>

\* try_receive found nothing: sleep.
NoEvent ==
    /\ keys_pc = "events"
    /\ keys_in = <<>>
    /\ keys_pc' = "sleep"
    /\ UNCHANGED <<key_matrix, reported, keys_level, keys_in, keys_out>>

Wake ==
    /\ keys_pc = "sleep"
    /\ keys_pc' = "poll"
    /\ UNCHANGED <<key_matrix, reported, keys_level, keys_in, keys_out>>

run ==
    \/ new
    \/ \E keys \in KeyStates : poll(keys)
    \/ SendKeys
    \/ PowerTransition
    \/ NumlockLed
    \/ SendDone
    \/ NoEvent
    \/ Wake

----------------------------------------------------------------------------
\* The dispatcher's side, when the task is studied on its own: any event may
\* be sent, and what is reported may be taken or left in the channel.
Request == \E event \in KeysInEvent :
    Send(keys_in, event) /\ UNCHANGED <<taskVars, keys_out>>
Take == Receive(keys_out) /\ UNCHANGED <<taskVars, keys_in>>

Next == run \/ Request \/ Take
Spec == Init /\ [][Next]_vars

TypeOK ==
    /\ keys_pc \in {"enable", "poll", "sendKeys", "events", "sendDone",
                    "sleep", "done"}
    /\ key_matrix \in BOOLEAN
    /\ reported \in KeyStates
    /\ keys_level \in PowerLevel
    /\ keys_in \in Buffer(KeysInEvent)
    /\ keys_out \in Buffer(KeysOutEvent)
=============================================================================
